--------------------------- MODULE TimetableProof ---------------------------
(***************************************************************************)
(* Proofs about timetable.Build, for any feed.                             *)
(***************************************************************************)
EXTENDS TimetableInvariant, FiniteSetTheorems, SequenceTheorems, WellFoundedInduction, TLAPS

-----------------------------------------------------------------------------
(***************************************************************************)
(* Dense indices.                                                          *)
(***************************************************************************)
(* An index tells the ids of a set apart (build.go:24-33, 37-45).          *)
LEMMA RankIncreases ==
  ASSUME NEW S, IsFiniteSet(S), S \subseteq Nat,
         NEW a \in S, NEW b \in S, a < b
  PROVE  Rank(S, a) < Rank(S, b)
  <1> DEFINE A == {x \in S : x < a}
             B == {x \in S : x < b}
  <1>1. IsFiniteSet(B) /\ IsFiniteSet(A)
    BY FS_Subset
  <1>2. \A x \in S : x \in Nat
    OBVIOUS
  <1>3. (\A x \in S : x < a => x < b) /\ ~(a < a)
    BY <1>2
  <1>4. A \subseteq B /\ a \in B /\ a \notin A
    BY <1>3
  <1>5. Cardinality(A) <= Cardinality(B) /\ (Cardinality(A) = Cardinality(B) => A = B)
    BY <1>1, <1>4, FS_Subset
  <1>6. Cardinality(A) \in Nat /\ Cardinality(B) \in Nat
    BY <1>1, FS_CardinalityType
  <1> QED BY <1>4, <1>5, <1>6 DEF Rank

LEMMA RankInjective ==
  ASSUME NEW S, IsFiniteSet(S), S \subseteq Nat,
         NEW a \in S, NEW b \in S, Rank(S, a) = Rank(S, b)
  PROVE  a = b
  <1>1. a \in Nat /\ b \in Nat
    OBVIOUS
  <1>2. Rank(S, a) \in Nat
    BY FS_Subset, FS_CardinalityType DEF Rank
  <1>3. a < b => Rank(S, a) < Rank(S, b)
    BY RankIncreases
  <1>4. b < a => Rank(S, b) < Rank(S, a)
    BY RankIncreases
  <1> QED BY <1>1, <1>2, <1>3, <1>4

LEMMA RankType ==
  ASSUME NEW S, IsFiniteSet(S), NEW a
  PROVE  Rank(S, a) \in Nat
  BY FS_Subset, FS_CardinalityType DEF Rank

LEMMA FeedFacts ==
  ASSUME NEW f \in Feeds
  PROVE  /\ IsFiniteSet(f.stops)
         /\ f.stops \subseteq Nat
         /\ IsFiniteSet(Ridable(f))
         /\ Ridable(f) \subseteq Nat
         /\ \A id \in Ridable(f) :
              /\ f.times[id] \in Seq(StopTime)
              /\ Len(f.times[id]) \in Nat \ {0}
  <1>1. Ridable(f) \subseteq DOMAIN f.trips /\ Ridable(f) \subseteq DOMAIN f.times
    BY DEF Ridable
  <1>2. \A id \in Ridable(f) :
          f.times[id] \in Seq(StopTime) /\ f.times[id] # <<>>
    BY <1>1, FeedsAssumption DEF FeedOK
  <1> QED BY <1>1, <1>2, FeedsAssumption, FS_Subset, EmptySeq DEF FeedOK

(* The trip of an index is the trip the index was made from.               *)
LEMMA TripOfIndex ==
  ASSUME NEW f \in Feeds, NEW id \in Ridable(f)
  PROVE  TripIDs(f, TripIdx(f, id)) = id
  <1>1. \A other \in Ridable(f) : TripIdx(f, other) = TripIdx(f, id) => other = id
    BY FeedFacts, RankInjective DEF TripIdx
  <1> QED BY <1>1 DEF TripIDs, TripIdx

LEMMA StopOfIndex ==
  ASSUME NEW f \in Feeds, NEW id \in f.stops
  PROVE  StopIDs(f, StopIdx(f, id)) = id
  <1>1. \A other \in f.stops : Rank(f.stops, other) = Rank(f.stops, id) => other = id
    BY FeedFacts, RankInjective
  <1> QED BY <1>1 DEF StopIDs, StopIdx

LEMMA StopSeqType ==
  ASSUME NEW f \in Feeds, NEW id \in Ridable(f)
  PROVE  /\ StopSeq(f, id) \in Seq(Nat) \ {<<>>}
         /\ Len(StopSeq(f, id)) = Len(f.times[id])
         /\ Len(f.times[id]) \in Nat \ {0}
         /\ \A j \in 1..Len(f.times[id]) : StopSeq(f, id)[j] = StopIdx(f, f.times[id][j].stop)
  <1>1. \A s : StopIdx(f, s) \in Nat
    BY FeedFacts, RankType DEF StopIdx
  <1>2. Len(f.times[id]) \in Nat \ {0}
    BY FeedFacts
  <1>3. StopSeq(f, id) \in [1..Len(f.times[id]) -> Nat]
    BY <1>1 DEF StopSeq
  <1>4. StopSeq(f, id) \in Seq(Nat) /\ Len(StopSeq(f, id)) = Len(f.times[id])
    BY <1>2, <1>3
  <1> QED BY <1>2, <1>4 DEF StopSeq

-----------------------------------------------------------------------------
(***************************************************************************)
(* The flat slices.                                                        *)
(***************************************************************************)
LEMMA Int32Type == \A t \in Int : Int32(t) \in Int
  BY WidthAssumption DEF Int32, Narrow

LEMMA Int32Keeps == \A t \in Int : Fits(t) => Int32(t) = t
  BY WidthAssumption DEF Int32, Narrow, Fits

LEMMA FlatIndex ==
  ASSUME NEW m \in Nat, NEW n \in Nat \ {0}
  PROVE  /\ m * n \in Nat
         /\ \A x \in 1..m * n : (x - 1) \div n + 1 \in 1..m /\ ((x - 1) % n) + 1 \in 1..n
  OBVIOUS

LEMMA FlatPlace ==
  ASSUME NEW m \in Nat, NEW n \in Nat \ {0}, NEW a \in 0..m - 1, NEW b \in 0..n - 1
  PROVE  /\ a * n + b + 1 \in 1..m * n
         /\ (a * n + b) \div n = a
         /\ (a * n + b) % n = b
  OBVIOUS

(* Reading at i * n + j gives what was written for trip i and position j.  *)
LEMMA FlatReads ==
  ASSUME NEW f \in Feeds, NEW trips \in Seq(Nat), NEW n \in Nat \ {0},
         NEW time \in {"arr", "dep"},
         \A i \in 1..Len(trips) :
           TimesOf(f, trips[i]) \in Seq(StopTime)
             /\ Len(TimesOf(f, trips[i])) = n
  PROVE  /\ Flat(f, trips, n, time) \in Seq(Int)
         /\ Len(Flat(f, trips, n, time)) = Len(trips) * n
         /\ \A i \in 1..Len(trips), j \in 1..n :
              Flat(f, trips, n, time)[(i - 1) * n + (j - 1) + 1] = Int32(TimesOf(f, trips[i])[j][time])
  <1> DEFINE m == Len(trips)
             Val(x) == Int32(TimesOf(f, trips[(x - 1) \div n + 1])[((x - 1) % n) + 1][time])
  <1>1. m \in Nat
    OBVIOUS
  <1>2. \A i \in 1..m, j \in 1..n : TimesOf(f, trips[i])[j] \in StopTime
    BY ElementOfSeq
  <1>3. \A i \in 1..m, j \in 1..n : Int32(TimesOf(f, trips[i])[j][time]) \in Int
    BY <1>2, Int32Type DEF StopTime
  <1>4. m * n \in Nat /\ \A x \in 1..m * n : Val(x) \in Int
    BY <1>1, <1>3, FlatIndex
  <1>5. Flat(f, trips, n, time) = [x \in 1..m * n |-> Val(x)]
    BY DEF Flat
  <1> HIDE DEF m, Val
  <1>6. Flat(f, trips, n, time) \in [1..m * n -> Int]
    BY <1>4, <1>5
  <1>7. Flat(f, trips, n, time) \in Seq(Int) /\ Len(Flat(f, trips, n, time)) = m * n
    <2> DEFINE len == m * n
    <2>1. len \in Nat /\ Flat(f, trips, n, time) \in [1..len -> Int]
      BY <1>4, <1>6
    <2> HIDE DEF len
    <2>2. Flat(f, trips, n, time) \in Seq(Int) /\ Len(Flat(f, trips, n, time)) = len
      BY <2>1
    <2> QED BY <2>2 DEF len
  <1>8. ASSUME NEW i \in 1..m, NEW j \in 1..n
        PROVE  Flat(f, trips, n, time)[(i - 1) * n + (j - 1) + 1] = Int32(TimesOf(f, trips[i])[j][time])
    <2> DEFINE a == i - 1
               b == j - 1
               x == a * n + b + 1
    <2>1. /\ x \in 1..m * n
          /\ (x - 1) \div n + 1 = i
          /\ ((x - 1) % n) + 1 = j
      <3>1. a \in 0..m - 1 /\ b \in 0..n - 1
        BY <1>1
      <3>2. /\ a * n + b + 1 \in 1..m * n
            /\ (a * n + b) \div n = a
            /\ (a * n + b) % n = b
        <4> HIDE DEF a, b
        <4> QED BY <1>1, <3>1, FlatPlace
      <3>3. a * n \in Int
        BY <3>1
      <3>4. x - 1 = a * n + b
        BY <3>1, <3>3
      <3> QED BY <3>1, <3>2, <3>4
    <2> HIDE DEF x
    <2>2. Flat(f, trips, n, time)[x] = Val(x)
      BY <1>5, <2>1
    <2>3. Val(x) = Int32(TimesOf(f, trips[i])[j][time])
      BY <2>1 DEF Val
    <2> QED BY <2>2, <2>3 DEF x
  <1> QED BY <1>7, <1>8 DEF m

-----------------------------------------------------------------------------
(***************************************************************************)
(* The invariant.                                                          *)
(***************************************************************************)
LEMMA InitHolds == Init => TimetableIInv
  <1> SUFFICES ASSUME Init PROVE TimetableIInv
    OBVIOUS
  <1>1. DOMAIN patterns = {} /\ DOMAIN tripsByPattern = {}
    BY DEF Init
  <1>2. patterns \in Seq(Pattern) /\ tripsByPattern \in Seq(SUBSET Nat)
        /\ Len(patterns) = 0 /\ Len(tripsByPattern) = 0
    BY EmptySeq DEF Init
  <1>3. TypeOK
    BY <1>2 DEF Init, TypeOK
  <1>4. GroupingInv
    BY <1>1 DEF Init, GroupingInv
  <1>5. LayoutInv
    BY <1>1 DEF LayoutInv, LaidOut
  <1> QED BY <1>3, <1>4, <1>5 DEF TimetableIInv

(* A trip joins the pattern with its stops, or starts one (build.go:63-72). *)
LEMMA GroupTripKeeps == TimetableIInv /\ GroupTrip => TimetableIInv'
  <1> SUFFICES ASSUME TimetableIInv, GroupTrip PROVE TimetableIInv'
    OBVIOUS
  <1> USE DEF TimetableIInv
  <1>1. PICK id \in todo :
          LET seq == StopSeq(feed, id)
          IN  /\ todo' = todo \ {id}
              /\ \/ \E p \in PatternOf(seq) :
                      /\ tripsByPattern' =
                           [tripsByPattern EXCEPT ![p] = @ \cup {TripIdx(feed, id)}]
                      /\ UNCHANGED patterns
                 \/ /\ PatternOf(seq) = {}
                    /\ patterns' = Append(patterns, NewPattern(seq))
                    /\ tripsByPattern' = Append(tripsByPattern, {TripIdx(feed, id)})
    BY DEF GroupTrip
  <1> DEFINE seq == StopSeq(feed, id)
             idx == TripIdx(feed, id)
  <1>2. pc = "group" /\ pc' = "group" /\ UNCHANGED <<feed, at>>
    BY DEF GroupTrip
  <1>3. feed \in Feeds /\ id \in Ridable(feed)
    BY DEF TypeOK
  <1>4. seq \in Seq(Nat) \ {<<>>} /\ idx \in Nat
    BY <1>3, StopSeqType, FeedFacts, RankType DEF TripIdx
  <1>5. LayoutInv'
    BY <1>2 DEF LayoutInv, LaidOut, GroupingInv, TypeOK
  <1>6. id \in Ridable(feed) \ todo' /\ Ridable(feed) \ todo \subseteq Ridable(feed) \ todo'
        /\ Ridable(feed) \ todo' \subseteq (Ridable(feed) \ todo) \cup {id}
        /\ todo' \subseteq Ridable(feed)
    BY <1>1, <1>3 DEF TypeOK
  <1> HIDE DEF seq, idx
  <1>7. CASE \E p \in PatternOf(seq) :
               /\ tripsByPattern' = [tripsByPattern EXCEPT ![p] = @ \cup {idx}]
               /\ UNCHANGED patterns
    <2>1. PICK p \in PatternOf(seq) :
                 /\ tripsByPattern' = [tripsByPattern EXCEPT ![p] = @ \cup {idx}]
                 /\ UNCHANGED patterns
      BY <1>7
    <2>2. p \in DOMAIN patterns /\ patterns[p].stops = seq
      BY DEF PatternOf
    <2>3. DOMAIN patterns = 1..Len(patterns) /\ DOMAIN tripsByPattern = 1..Len(patterns)
      BY DEF TypeOK
    <2>4. /\ tripsByPattern' \in Seq(SUBSET Nat)
          /\ Len(tripsByPattern') = Len(tripsByPattern)
          /\ \A q \in DOMAIN patterns :
               tripsByPattern'[q] = IF q = p THEN tripsByPattern[p] \cup {idx} ELSE tripsByPattern[q]
      <3>1. tripsByPattern[p] \cup {idx} \in SUBSET Nat
        BY <1>4, <2>2, <2>3 DEF TypeOK
      <3> QED BY <2>1, <2>2, <2>3, <3>1, ExceptSeq DEF TypeOK
    <2>5. TypeOK'
      BY <1>2, <1>6, <2>1, <2>4 DEF TypeOK
    <2>6. ASSUME NEW q \in DOMAIN patterns PROVE GroupedOK(q)'
      <3>1. IsFiniteSet(tripsByPattern[q])
        BY DEF GroupingInv, GroupedOK
      <3>2. IsFiniteSet(tripsByPattern'[q])
        <4>1. IsFiniteSet(tripsByPattern[q] \cup {idx})
          BY <3>1, FS_AddElement
        <4> QED BY <2>4, <3>1, <4>1
      <3>3. ASSUME NEW trip \in tripsByPattern'[q]
            PROVE  \E other \in Ridable(feed) \ todo' :
                     trip = TripIdx(feed, other) /\ patterns[q].stops = StopSeq(feed, other)
        <4>1. CASE trip \in tripsByPattern[q]
          BY <1>6, <4>1 DEF GroupingInv, GroupedOK
        <4>2. CASE trip \notin tripsByPattern[q]
          <5>1. q = p /\ trip = idx
            BY <2>4, <4>2
          <5> QED BY <1>6, <2>2, <5>1 DEF idx, seq
        <4> QED BY <4>1, <4>2
      <3> QED BY <1>2, <2>1, <3>2, <3>3 DEF GroupedOK
    <2>7. \A other \in Ridable(feed) \ todo' :
            \E q \in DOMAIN patterns : TripIdx(feed, other) \in tripsByPattern'[q]
      BY <1>6, <2>2, <2>4 DEF GroupingInv, idx
    <2>8. GroupingInv'
      BY <1>2, <2>1, <2>6, <2>7 DEF GroupingInv
    <2> QED BY <1>5, <2>5, <2>8
  <1>8. CASE /\ PatternOf(seq) = {}
             /\ patterns' = Append(patterns, NewPattern(seq))
             /\ tripsByPattern' = Append(tripsByPattern, {idx})
    <2> DEFINE n == Len(patterns)
    <2>1. n \in Nat /\ DOMAIN patterns = 1..n /\ DOMAIN tripsByPattern = 1..n
      BY DEF TypeOK
    <2>2. NewPattern(seq) \in Pattern
      BY <1>4, EmptySeq DEF NewPattern, Pattern
    <2>3. /\ patterns' \in Seq(Pattern) /\ Len(patterns') = n + 1
          /\ \A q \in 1..n : patterns'[q] = patterns[q]
          /\ patterns'[n + 1] = NewPattern(seq)
      BY <1>8, <2>2, AppendProperties DEF TypeOK
    <2>4. /\ tripsByPattern' \in Seq(SUBSET Nat) /\ Len(tripsByPattern') = n + 1
          /\ \A q \in 1..n : tripsByPattern'[q] = tripsByPattern[q]
          /\ tripsByPattern'[n + 1] = {idx}
      <3>1. {idx} \in SUBSET Nat
        BY <1>4
      <3> QED BY <1>8, <3>1, AppendProperties DEF TypeOK
    <2> HIDE DEF n
    <2>5. DOMAIN patterns' = 1..n + 1 /\ 1..n + 1 = 1..n \cup {n + 1} /\ n + 1 \notin 1..n
      BY <2>1, <2>3
    <2>6. TypeOK'
      BY <1>2, <1>6, <2>3, <2>4 DEF TypeOK
    <2>7. NewPattern(seq).stops = seq
      BY DEF NewPattern
    <2>8. ASSUME NEW q \in DOMAIN patterns' PROVE GroupedOK(q)'
      <3>1. CASE q \in 1..n
        BY <1>2, <1>6, <2>1, <2>3, <2>4, <3>1 DEF GroupingInv, GroupedOK
      <3>2. CASE q = n + 1
        <4>1. IsFiniteSet({idx})
          BY FS_Singleton
        <4> QED BY <1>2, <1>6, <2>3, <2>4, <2>7, <3>2, <4>1 DEF GroupedOK, idx, seq
      <3> QED BY <2>5, <3>1, <3>2
    <2>9. ASSUME NEW p \in DOMAIN patterns', NEW q \in DOMAIN patterns', p # q
          PROVE  patterns'[p].stops # patterns'[q].stops
      <3>1. \A r \in 1..n : patterns'[r].stops # seq
        BY <1>8, <2>1, <2>3 DEF PatternOf
      <3>2. patterns'[n + 1].stops = seq
        BY <2>3, <2>7
      <3>3. CASE p \in 1..n /\ q \in 1..n
        BY <2>1, <2>3, <2>9, <3>3 DEF GroupingInv
      <3> QED BY <2>5, <2>9, <3>1, <3>2, <3>3
    <2>10. \A other \in Ridable(feed) \ todo' :
             \E q \in DOMAIN patterns' : TripIdx(feed, other) \in tripsByPattern'[q]
      <3>1. idx \in tripsByPattern'[n + 1] /\ n + 1 \in DOMAIN patterns'
        BY <2>4, <2>5
      <3>2. \A other \in Ridable(feed) \ todo :
              \E q \in DOMAIN patterns' : TripIdx(feed, other) \in tripsByPattern'[q]
        BY <2>1, <2>4, <2>5 DEF GroupingInv
      <3> QED BY <1>6, <3>1, <3>2 DEF idx
    <2>11. GroupingInv'
      BY <1>2, <2>8, <2>9, <2>10 DEF GroupingInv
    <2> QED BY <1>5, <2>6, <2>11
  <1> QED BY <1>1, <1>7, <1>8 DEF seq, idx

(* The trips of a pattern all have as many stop times as it has stops.     *)
LEMMA TimesFit ==
  ASSUME TimetableIInv, NEW p \in DOMAIN patterns, NEW trip \in tripsByPattern[p]
  PROVE  /\ TimesOf(feed, trip) \in Seq(StopTime)
         /\ Len(TimesOf(feed, trip)) = Len(patterns[p].stops)
         /\ \A j \in 1..Len(patterns[p].stops) :
              patterns[p].stops[j] = StopIdx(feed, TimesOf(feed, trip)[j].stop)
  <1>1. feed \in Feeds
    BY DEF TimetableIInv, TypeOK
  <1>2. PICK id \in Ridable(feed) :
          trip = TripIdx(feed, id) /\ patterns[p].stops = StopSeq(feed, id)
    BY DEF TimetableIInv, GroupingInv, GroupedOK
  <1>3. TimesOf(feed, trip) = feed.times[id]
    BY <1>1, <1>2, TripOfIndex DEF TimesOf
  <1> QED BY <1>1, <1>2, <1>3, StopSeqType, FeedFacts

LEMMA ServiceTyped ==
  ASSUME TimetableIInv, NEW p \in DOMAIN patterns, NEW trip \in tripsByPattern[p]
  PROVE  ServiceOf(feed, trip) \in Nat
  <1>1. feed \in Feeds
    BY DEF TimetableIInv, TypeOK
  <1>2. PICK id \in Ridable(feed) : trip = TripIdx(feed, id)
    BY DEF TimetableIInv, GroupingInv, GroupedOK
  <1>3. TripIDs(feed, trip) = id /\ id \in DOMAIN feed.trips
    BY <1>1, <1>2, TripOfIndex DEF Ridable
  <1> QED BY <1>1, <1>3, FeedsAssumption DEF ServiceOf, FeedOK

LEMMA SortedSeq ==
  ASSUME NEW f, NEW S \in SUBSET Nat, IsFiniteSet(S), NEW s \in Sorted(f, S)
  PROVE  /\ s \in Seq(Nat) /\ Len(s) = Cardinality(S) /\ DOMAIN s = 1..Len(s)
         /\ \A i \in 1..Len(s) : s[i] \in S
         /\ \A t \in S : \E i \in 1..Len(s) : s[i] = t
  <1>1. Cardinality(S) \in Nat
    BY FS_CardinalityType
  <1>2. s \in [1..Cardinality(S) -> S] /\ \A t \in S : \E i \in DOMAIN s : s[i] = t
    BY DEF Sorted
  <1>3. s \in [1..Cardinality(S) -> Nat]
    BY <1>2
  <1>4. s \in Seq(Nat) /\ Len(s) = Cardinality(S)
    BY <1>1, <1>3
  <1> QED BY <1>2, <1>4

(* Sorting and laying out a pattern keeps its stops (build.go:77-103).     *)
LEMMA LayoutPatternKeeps == TimetableIInv /\ LayoutPattern => TimetableIInv'
  <1> SUFFICES ASSUME TimetableIInv, LayoutPattern PROVE TimetableIInv'
    OBVIOUS
  <1> DEFINE p == at.pattern
             stops == patterns[p].stops
  <1>1. PICK trips \in Sorted(feed, tripsByPattern[p]) :
          patterns' = [patterns EXCEPT ![p] = LaidOutBy(feed, stops, trips)]
    BY DEF LayoutPattern
  <1>2. pc = "layout" /\ at' = [at EXCEPT !.pattern = p + 1]
        /\ UNCHANGED <<feed, pc, todo, tripsByPattern>>
    BY DEF LayoutPattern
  <1>3. /\ DOMAIN patterns = 1..Len(patterns) /\ Len(patterns) \in Nat
        /\ DOMAIN tripsByPattern = 1..Len(patterns)
        /\ p \in DOMAIN patterns /\ p \in Nat \ {0}
    BY DEF LayoutPattern, TimetableIInv, TypeOK
  <1>4. patterns[p] \in Pattern /\ stops \in Seq(Nat) \ {<<>>} /\ Len(stops) \in Nat \ {0}
    <2>1. patterns[p] \in Pattern
      BY <1>3, ElementOfSeq DEF TimetableIInv, TypeOK
    <2> QED BY <2>1, EmptySeq DEF Pattern
  <1>5. /\ tripsByPattern[p] \in SUBSET Nat
        /\ IsFiniteSet(tripsByPattern[p])
    BY <1>3, ElementOfSeq DEF TimetableIInv, TypeOK, GroupingInv, GroupedOK
  <1>6. /\ trips \in Seq(Nat) /\ DOMAIN trips = 1..Len(trips)
        /\ \A i \in 1..Len(trips) : trips[i] \in tripsByPattern[p]
    BY <1>1, <1>5, SortedSeq
  <1>7. \A i \in 1..Len(trips) :
          TimesOf(feed, trips[i]) \in Seq(StopTime)
            /\ Len(TimesOf(feed, trips[i])) = Len(stops)
    BY <1>3, <1>6, TimesFit
  <1>8. feed \in Feeds
    BY DEF TimetableIInv, TypeOK
  <1> DEFINE laid == LaidOutBy(feed, stops, trips)
  <1>9. laid \in Pattern /\ laid.stops = stops /\ laid.trips = trips
    <2>2. \A i \in 1..Len(trips) : ServiceOf(feed, trips[i]) \in Nat
      BY <1>3, <1>6, ServiceTyped
    <2>3. [i \in 1..Len(trips) |-> ServiceOf(feed, trips[i])] \in Seq(Nat)
      BY <1>6, <2>2
    <2>1. \A time \in {"arr", "dep"} : Flat(feed, trips, Len(stops), time) \in Seq(Int)
      BY <1>4, <1>6, <1>7, <1>8, FlatReads
    <2> QED BY <1>4, <1>6, <2>1, <2>3 DEF LaidOutBy, Pattern
  <1> HIDE DEF laid, stops, p
  <1>10. /\ patterns' \in Seq(Pattern) /\ Len(patterns') = Len(patterns)
         /\ DOMAIN patterns' = DOMAIN patterns
         /\ \A q \in DOMAIN patterns : patterns'[q] = IF q = p THEN laid ELSE patterns[q]
    <2>1. patterns' = [patterns EXCEPT ![p] = laid]
      BY <1>1 DEF laid, p, stops
    <2>2. patterns \in Seq(Pattern)
      BY DEF TimetableIInv, TypeOK
    <2> QED BY <1>3, <1>9, <2>1, <2>2, ExceptSeq
  <1>11. \A q \in DOMAIN patterns : patterns'[q].stops = patterns[q].stops
    BY <1>9, <1>10 DEF stops
  <1>12. TypeOK'
    <2>1. at' \in [pattern : Nat \ {0}, pos : Nat \ {0}]
      BY <1>2, <1>3 DEF TimetableIInv, TypeOK
    <2> QED BY <1>2, <1>10, <2>1 DEF TimetableIInv, TypeOK
  <1>13. GroupingInv'
    BY <1>2, <1>10, <1>11 DEF TimetableIInv, GroupingInv, GroupedOK
  <1>14. LayoutInv'
    <2> SUFFICES ASSUME NEW q \in LaidOut' PROVE LayoutOK(q)'
      BY DEF LayoutInv
    <2>1. q \in DOMAIN patterns /\ q < p + 1 /\ q \in Nat /\ p \in Nat
      BY <1>2, <1>3, <1>10 DEF LaidOut, TimetableIInv, TypeOK
    <2>2. CASE q = p
      BY <1>1, <1>2, <1>9, <1>10, <2>1, <2>2 DEF LayoutOK, laid, p, stops
    <2>3. CASE q # p
      <3>1. q \in LaidOut
        BY <1>2, <2>1, <2>3 DEF LaidOut, p
      <3>2. LayoutOK(q)
        BY <3>1 DEF TimetableIInv, LayoutInv
      <3> QED BY <1>2, <1>10, <2>1, <2>3, <3>2 DEF LayoutOK
    <2> QED BY <2>2, <2>3
  <1> QED BY <1>12, <1>13, <1>14 DEF TimetableIInv

(* The remaining steps leave the patterns alone.                           *)
LEMMA OtherStepsKeep ==
  ASSUME TimetableIInv,
         EndGrouping \/ EndLayout \/ IndexVisit \/ NextPattern \/ EndBuild \/ UNCHANGED vars
  PROVE  TimetableIInv'
  <1>1. UNCHANGED <<feed, todo, patterns, tripsByPattern>>
    BY DEF EndGrouping, EndLayout, IndexVisit, NextPattern, EndBuild, vars
  <1>2. at' \in [pattern : Nat \ {0}, pos : Nat \ {0}] /\ pc' \in {"group", "layout", "index", "done", "panic"}
    <2>0. at \in [pattern : Nat \ {0}, pos : Nat \ {0}]
      BY DEF TimetableIInv, TypeOK
    <2>1. CASE EndGrouping \/ EndBuild \/ UNCHANGED vars
      BY <2>0, <2>1 DEF TimetableIInv, TypeOK, EndGrouping, EndBuild, vars
    <2>2. CASE EndLayout \/ NextPattern
      BY <2>0, <2>2 DEF TimetableIInv, TypeOK, EndLayout, NextPattern
    <2>3. CASE IndexVisit
      <3>1. at' = at \/ at' = [at EXCEPT !.pos = at.pos + 1]
        BY <2>3 DEF IndexVisit
      <3>2. pc' \in {pc, "panic"}
        BY <2>3 DEF IndexVisit
      <3> QED BY <2>0, <3>1, <3>2 DEF TimetableIInv, TypeOK
    <2> QED BY <2>1, <2>2, <2>3
  <1>3. TypeOK'
    BY <1>1, <1>2 DEF TimetableIInv, TypeOK
  <1>4. pc' = "group" => at'.pattern = 1
    BY DEF TimetableIInv, GroupingInv, EndGrouping, EndLayout, IndexVisit, NextPattern, EndBuild, vars
  <1>5. GroupingInv'
    BY <1>1, <1>4 DEF TimetableIInv, GroupingInv, GroupedOK
  <1>6. LaidOut' \subseteq LaidOut
    <2>1. \A q \in DOMAIN patterns : q \in Nat \ {0} /\ q <= Len(patterns)
      BY DEF TimetableIInv, TypeOK
    <2>2. CASE EndGrouping
      <3>1. pc' = "layout" /\ at'.pattern = 1 /\ patterns' = patterns
        BY <2>2 DEF EndGrouping, TimetableIInv, GroupingInv
      <3> QED BY <2>1, <3>1 DEF LaidOut
    <2>3. CASE EndLayout
      <3>1. pc = "layout" /\ pc' = "index" /\ patterns' = patterns /\ at.pattern > Len(patterns)
        BY <2>3 DEF EndLayout
      <3>2. at.pattern \in Nat /\ Len(patterns) \in Nat
        BY DEF TimetableIInv, TypeOK
      <3> QED BY <2>1, <3>1, <3>2 DEF LaidOut
    <2>4. CASE IndexVisit \/ NextPattern \/ EndBuild
      <3>1. pc = "index" /\ patterns' = patterns
        BY <2>4 DEF IndexVisit, NextPattern, EndBuild
      <3>2. LaidOut = DOMAIN patterns
        BY <3>1 DEF LaidOut
      <3> QED BY <3>1, <3>2 DEF LaidOut
    <2>5. CASE UNCHANGED vars
      BY <2>5 DEF vars, LaidOut
    <2> QED BY <2>2, <2>3, <2>4, <2>5
  <1>7. LayoutInv'
    BY <1>1, <1>6 DEF TimetableIInv, LayoutInv, LayoutOK
  <1> QED BY <1>3, <1>5, <1>7 DEF TimetableIInv

(* The invariant of Build holds for every set of feeds as in module Feed.  *)
THEOREM TimetableInvariantHolds == Spec => []TimetableIInv
  <1>1. Init => TimetableIInv
    BY InitHolds
  <1>2. TimetableIInv /\ [Next]_vars => TimetableIInv'
    BY GroupTripKeeps, LayoutPatternKeeps, OtherStepsKeep DEF Next, Step, Ended
  <1> QED BY <1>1, <1>2, PTL DEF Spec

-----------------------------------------------------------------------------
(***************************************************************************)
(* What follows.                                                           *)
(***************************************************************************)
LEMMA FollowsStops == TimetableIInv => PatternsFollowTrips
  <1> SUFFICES ASSUME TimetableIInv, KnownStops(feed),
                      NEW p \in DOMAIN patterns, NEW trip \in tripsByPattern[p]
               PROVE  FollowsTrip(patterns[p], trip)
    BY DEF PatternsFollowTrips
  <1>1. feed \in Feeds
    BY DEF TimetableIInv, TypeOK
  <1>2. PICK id \in Ridable(feed) :
          trip = TripIdx(feed, id) /\ patterns[p].stops = StopSeq(feed, id)
    BY DEF TimetableIInv, GroupingInv, GroupedOK
  <1>3. TimesOf(feed, trip) = feed.times[id]
    BY <1>1, <1>2, TripOfIndex DEF TimesOf
  <1>4. /\ Len(patterns[p].stops) = Len(feed.times[id])
        /\ DOMAIN patterns[p].stops = 1..Len(feed.times[id])
        /\ DOMAIN feed.times[id] = 1..Len(feed.times[id])
    <2>1. feed.times[id] \in Seq(StopTime)
      BY <1>1, FeedFacts
    <2> QED BY <1>1, <1>2, <2>1, StopSeqType DEF StopSeq
  <1>5. ASSUME NEW j \in DOMAIN patterns[p].stops
        PROVE  StopIDs(feed, patterns[p].stops[j]) = TimesOf(feed, trip)[j].stop
    <2>1. feed.times[id][j].stop \in feed.stops
      BY <1>4 DEF KnownStops
    <2>2. patterns[p].stops[j] = StopIdx(feed, feed.times[id][j].stop)
      BY <1>1, <1>2, <1>4, StopSeqType
    <2> QED BY <1>1, <1>3, <2>1, <2>2, StopOfIndex
  <1> QED BY <1>3, <1>4, <1>5 DEF FollowsTrip

LEMMA Partitioned == TimetableIInv => TripsPartitioned
  <1> SUFFICES ASSUME TimetableIInv PROVE TripsPartitioned
    OBVIOUS
  <1>1. feed \in Feeds
    BY DEF TimetableIInv, TypeOK
  <1>2. ASSUME NEW p \in DOMAIN patterns, NEW q \in DOMAIN patterns, p # q,
               NEW trip \in tripsByPattern[p] \cap tripsByPattern[q]
        PROVE  FALSE
    <2>1. PICK a \in Ridable(feed) :
            trip = TripIdx(feed, a) /\ patterns[p].stops = StopSeq(feed, a)
      BY DEF TimetableIInv, GroupingInv, GroupedOK
    <2>2. PICK b \in Ridable(feed) :
            trip = TripIdx(feed, b) /\ patterns[q].stops = StopSeq(feed, b)
      BY DEF TimetableIInv, GroupingInv, GroupedOK
    <2>3. a = b
      BY <1>1, <2>1, <2>2, TripOfIndex
    <2> QED BY <1>2, <2>1, <2>2, <2>3 DEF TimetableIInv, GroupingInv
  <1> QED BY <1>2 DEF TimetableIInv, GroupingInv, TripsPartitioned

(* What a pattern that is laid out holds.                                  *)
LEMMA LaidOutFacts ==
  ASSUME TimetableIInv, NEW p \in LaidOut
  PROVE  /\ p \in DOMAIN patterns
         /\ patterns[p].trips \in Sorted(feed, tripsByPattern[p])
         /\ patterns[p].trips \in Seq(Nat)
         /\ DOMAIN patterns[p].trips = 1..Len(patterns[p].trips)
         /\ Len(patterns[p].trips) = Cardinality(tripsByPattern[p])
         /\ {patterns[p].trips[i] : i \in DOMAIN patterns[p].trips} = tripsByPattern[p]
         /\ DOMAIN patterns[p].stops = 1..Len(patterns[p].stops)
         /\ Len(patterns[p].stops) \in Nat \ {0}
         /\ Len(patterns[p].arrivals) = Len(patterns[p].trips) * Len(patterns[p].stops)
         /\ \A i \in DOMAIN patterns[p].trips :
              patterns[p].serviceIDs[i] = feed.trips[TripIDs(feed, patterns[p].trips[i])].service
         /\ \A i \in DOMAIN patterns[p].trips, j \in DOMAIN patterns[p].stops :
              /\ Arrival(patterns[p], i - 1, j - 1) = Int32(TimesOf(feed, patterns[p].trips[i])[j].arr)
              /\ Departure(patterns[p], i - 1, j - 1) = Int32(TimesOf(feed, patterns[p].trips[i])[j].dep)
  <1> DEFINE trips == patterns[p].trips
             stops == patterns[p].stops
  <1>1. p \in DOMAIN patterns /\ feed \in Feeds
    BY DEF LaidOut, TimetableIInv, TypeOK
  <1>2. trips \in Sorted(feed, tripsByPattern[p])
    BY DEF TimetableIInv, LayoutInv, LayoutOK
  <1>3. /\ tripsByPattern[p] \in SUBSET Nat
        /\ IsFiniteSet(tripsByPattern[p])
    BY <1>1, ElementOfSeq DEF TimetableIInv, TypeOK, GroupingInv, GroupedOK
  <1>4. stops \in Seq(Nat) \ {<<>>}
    <2>1. patterns[p] \in Pattern
      BY <1>1, ElementOfSeq DEF TimetableIInv, TypeOK
    <2> QED BY <2>1 DEF Pattern
  <1>5. /\ trips \in Seq(Nat) /\ Len(trips) = Cardinality(tripsByPattern[p])
        /\ DOMAIN trips = 1..Len(trips)
        /\ \A i \in 1..Len(trips) : trips[i] \in tripsByPattern[p]
        /\ \A t \in tripsByPattern[p] : \E i \in 1..Len(trips) : trips[i] = t
    <2> HIDE DEF trips
    <2> QED BY <1>2, <1>3, SortedSeq
  <1>6. \A i \in 1..Len(trips) :
          TimesOf(feed, trips[i]) \in Seq(StopTime)
            /\ Len(TimesOf(feed, trips[i])) = Len(stops)
    BY <1>1, <1>5, TimesFit
  <1>7. DOMAIN stops = 1..Len(stops) /\ Len(stops) \in Nat \ {0}
    BY <1>4, EmptySeq
  <1>8. \A time \in {"arr", "dep"} :
          LET flat == Flat(feed, trips, Len(stops), time)
          IN  /\ Len(flat) = Len(trips) * Len(stops)
              /\ \A i \in 1..Len(trips), j \in 1..Len(stops) :
                   flat[(i - 1) * Len(stops) + (j - 1) + 1] = Int32(TimesOf(feed, trips[i])[j][time])
    <2> DEFINE n == Len(stops)
    <2>1. n \in Nat \ {0} /\ trips \in Seq(Nat)
      BY <1>5, <1>7
    <2>2. \A i \in 1..Len(trips) :
            TimesOf(feed, trips[i]) \in Seq(StopTime)
              /\ Len(TimesOf(feed, trips[i])) = n
      BY <1>6
    <2> HIDE DEF n, trips, stops
    <2>3. ASSUME NEW time \in {"arr", "dep"}
          PROVE  LET flat == Flat(feed, trips, n, time)
                 IN  /\ Len(flat) = Len(trips) * n
                     /\ \A i \in 1..Len(trips), j \in 1..n :
                          flat[(i - 1) * n + (j - 1) + 1] = Int32(TimesOf(feed, trips[i])[j][time])
      <3> DEFINE flat == Flat(feed, trips, n, time)
      <3>1. feed \in Feeds
        BY <1>1
      <3>2. /\ Len(flat) = Len(trips) * n
            /\ \A i \in 1..Len(trips), j \in 1..n :
                 flat[(i - 1) * n + (j - 1) + 1] = Int32(TimesOf(feed, trips[i])[j][time])
        BY <2>1, <2>2, <3>1, FlatReads, ZenonT(60)
      <3> QED BY <3>2
    <2> QED BY <2>3 DEF n
  <1>9. /\ patterns[p].arrivals = Flat(feed, trips, Len(stops), "arr")
        /\ patterns[p].departures = Flat(feed, trips, Len(stops), "dep")
    <2>1. patterns[p] = LaidOutBy(feed, stops, trips)
      BY DEF TimetableIInv, LayoutInv, LayoutOK
    <2>2. /\ LaidOutBy(feed, stops, trips).arrivals = Flat(feed, trips, Len(stops), "arr")
          /\ LaidOutBy(feed, stops, trips).departures = Flat(feed, trips, Len(stops), "dep")
      BY DEF LaidOutBy
    <2> QED BY <2>1, <2>2
  <1>10. {trips[i] : i \in DOMAIN trips} = tripsByPattern[p]
    BY <1>5
  <1>11. ASSUME NEW i \in DOMAIN trips, NEW j \in DOMAIN stops
         PROVE  /\ Arrival(patterns[p], i - 1, j - 1) = Int32(TimesOf(feed, trips[i])[j].arr)
                /\ Departure(patterns[p], i - 1, j - 1) = Int32(TimesOf(feed, trips[i])[j].dep)
    <2>1. i \in 1..Len(trips) /\ j \in 1..Len(stops)
      BY <1>5, <1>7
    <2> QED BY <1>8, <1>9, <2>1 DEF Arrival, Departure
  <1>12. Len(patterns[p].arrivals) = Len(trips) * Len(stops)
    BY <1>8, <1>9
  <1>13. ASSUME NEW i \in DOMAIN trips
         PROVE  patterns[p].serviceIDs[i] = feed.trips[TripIDs(feed, trips[i])].service
    <2>1. patterns[p] = LaidOutBy(feed, stops, trips)
      BY DEF TimetableIInv, LayoutInv, LayoutOK
    <2>2. LaidOutBy(feed, stops, trips).serviceIDs[i] = ServiceOf(feed, trips[i])
      BY <1>5 DEF LaidOutBy
    <2> QED BY <2>1, <2>2 DEF ServiceOf
  <1> QED BY <1>1, <1>2, <1>5, <1>7, <1>10, <1>11, <1>12, <1>13

LEMMA LaidOutTimes ==
  ASSUME TimetableIInv, NEW p \in LaidOut,
         NEW i \in DOMAIN patterns[p].trips, NEW j \in DOMAIN patterns[p].stops
  PROVE  /\ Arrival(patterns[p], i - 1, j - 1) = Int32(TimesOf(feed, patterns[p].trips[i])[j].arr)
         /\ Departure(patterns[p], i - 1, j - 1) = Int32(TimesOf(feed, patterns[p].trips[i])[j].dep)
  <1>1. \A q \in LaidOut : \A k \in DOMAIN patterns[q].trips, l \in DOMAIN patterns[q].stops :
          /\ Arrival(patterns[q], k - 1, l - 1) = Int32(TimesOf(feed, patterns[q].trips[k])[l].arr)
          /\ Departure(patterns[q], k - 1, l - 1) = Int32(TimesOf(feed, patterns[q].trips[k])[l].dep)
    BY LaidOutFacts, Zenon
  <1> QED BY <1>1, Zenon

(* The stop times of the trips of a laid out pattern. *)
LEMMA LaidOutTyped ==
  ASSUME TimetableIInv, NEW p \in LaidOut,
         NEW i \in DOMAIN patterns[p].trips, NEW j \in DOMAIN patterns[p].stops
  PROVE  TimesOf(feed, patterns[p].trips[i])[j] \in StopTime
  <1> DEFINE times == TimesOf(feed, patterns[p].trips[i])
  <1>1. patterns[p].trips[i] \in tripsByPattern[p] /\ p \in DOMAIN patterns
    BY LaidOutFacts
  <1>2. times \in Seq(StopTime) /\ j \in 1..Len(times)
    BY <1>1, TimesFit, LaidOutFacts
  <1> HIDE DEF times
  <1>3. times[j] \in StopTime
    BY <1>2, ElementOfSeq
  <1> QED BY <1>3 DEF times

(* Pattern p holds the time of a trip at a position, if it fits. *)
StoredAt(p, i, j) ==
  LET st == TimesOf(feed, patterns[p].trips[i])[j]
  IN  /\ Fits(st.arr) => Arrival(patterns[p], i - 1, j - 1) = st.arr
      /\ Fits(st.dep) => Departure(patterns[p], i - 1, j - 1) = st.dep

LEMMA StoredTime ==
  ASSUME TimetableIInv, NEW p \in LaidOut,
         NEW i \in DOMAIN patterns[p].trips, NEW j \in DOMAIN patterns[p].stops
  PROVE  StoredAt(p, i, j)
  <1> DEFINE st == TimesOf(feed, patterns[p].trips[i])[j]
  <1>1. st.arr \in Int /\ st.dep \in Int
    BY LaidOutTyped DEF StopTime
  <1>2. /\ Arrival(patterns[p], i - 1, j - 1) = Int32(st.arr)
        /\ Departure(patterns[p], i - 1, j - 1) = Int32(st.dep)
    BY LaidOutTimes
  <1> HIDE DEF st
  <1>3. /\ Fits(st.arr) => Arrival(patterns[p], i - 1, j - 1) = st.arr
        /\ Fits(st.dep) => Departure(patterns[p], i - 1, j - 1) = st.dep
    BY <1>1, <1>2, Int32Keeps
  <1> QED BY <1>3 DEF StoredAt, st

LEMMA StoredOnce == TimetableIInv => TimesStoredOnce
  <1> SUFFICES ASSUME TimetableIInv, NEW p \in LaidOut
               PROVE  /\ {patterns[p].trips[i] : i \in DOMAIN patterns[p].trips} = tripsByPattern[p]
                      /\ Len(patterns[p].trips) = Cardinality(tripsByPattern[p])
                      /\ Len(patterns[p].arrivals) = Len(patterns[p].trips) * Len(patterns[p].stops)
                      /\ \A i \in DOMAIN patterns[p].trips :
                           patterns[p].serviceIDs[i]
                             = feed.trips[TripIDs(feed, patterns[p].trips[i])].service
                      /\ \A i \in DOMAIN patterns[p].trips : \A j \in DOMAIN patterns[p].stops :
                           StoredAt(p, i, j)
    BY Zenon DEF TimesStoredOnce, StoredAt
  <1>1. \A i \in DOMAIN patterns[p].trips : \A j \in DOMAIN patterns[p].stops : StoredAt(p, i, j)
    BY StoredTime
  <1> QED BY <1>1, LaidOutFacts

LEMMA InOrder == TimetableIInv => TripsInOrder
  <1> SUFFICES ASSUME TimetableIInv, NEW p \in LaidOut,
                      NEW i \in DOMAIN patterns[p].trips, NEW j \in DOMAIN patterns[p].trips, i < j,
                      Fits(FirstDeparture(feed, patterns[p].trips[i])),
                      Fits(FirstDeparture(feed, patterns[p].trips[j]))
               PROVE  Departure(patterns[p], i - 1, 0) <= Departure(patterns[p], j - 1, 0)
    BY DEF TripsInOrder
  <1> DEFINE trips == patterns[p].trips
             first(k) == FirstDeparture(feed, trips[k])
  <1>1. Before(feed, trips[i], trips[j])
    BY LaidOutFacts DEF Sorted
  <1>2. 1 \in DOMAIN patterns[p].stops
    <2>1. DOMAIN patterns[p].stops = 1..Len(patterns[p].stops) /\ Len(patterns[p].stops) \in Nat \ {0}
      BY LaidOutFacts
    <2> QED BY <2>1
  <1>3. ASSUME NEW k \in DOMAIN trips, Fits(first(k))
        PROVE  first(k) \in Int /\ Departure(patterns[p], k - 1, 0) = first(k)
    <2>1. first(k) \in Int
      BY <1>2, LaidOutTyped DEF FirstDeparture, StopTime
    <2>2. Departure(patterns[p], k - 1, 1 - 1) = Int32(first(k))
      BY <1>2, LaidOutTimes DEF FirstDeparture
    <2>3. 1 - 1 = 0
      OBVIOUS
    <2> QED BY <1>3, <2>1, <2>2, <2>3, Int32Keeps
  <1>4. /\ first(i) \in Int /\ Departure(patterns[p], i - 1, 0) = first(i)
        /\ first(j) \in Int /\ Departure(patterns[p], j - 1, 0) = first(j)
    BY <1>3
  <1> QED BY <1>1, <1>4 DEF Before

-----------------------------------------------------------------------------
(***************************************************************************)
(* The index.                                                              *)
(***************************************************************************)
Entry == [pattern : Nat, pos : Nat]

LEMMA PatternFacts ==
  ASSUME TimetableIInv
  PROVE  /\ Len(patterns) \in Nat /\ DOMAIN patterns = 1..Len(patterns)
         /\ at.pattern \in Nat \ {0} /\ at.pos \in Nat \ {0}
         /\ \A p \in DOMAIN patterns :
              /\ Len(patterns[p].stops) \in Nat \ {0}
              /\ DOMAIN patterns[p].stops = 1..Len(patterns[p].stops)
  <1>1. patterns \in Seq(Pattern) /\ at \in [pattern : Nat \ {0}, pos : Nat \ {0}]
    BY DEF TimetableIInv, TypeOK
  <1>2. ASSUME NEW p \in DOMAIN patterns
        PROVE  /\ Len(patterns[p].stops) \in Nat \ {0}
               /\ DOMAIN patterns[p].stops = 1..Len(patterns[p].stops)
    <2>1. patterns[p] \in Pattern
      BY <1>1, <1>2, ElementOfSeq
    <2>2. patterns[p].stops \in Seq(Nat) \ {<<>>}
      BY <2>1 DEF Pattern
    <2> QED BY <2>2, EmptySeq
  <1> QED BY <1>1, <1>2

(* Visits of a scan come in the order of their places.                     *)
LEMMA VisitsInOrder ==
  ASSUME TimetableIInv,
         NEW p \in DOMAIN patterns, NEW i \in DOMAIN patterns[p].stops, Indexed(p, i, at)
  PROVE  /\ Visit(p, i) \in Entry
         /\ Earlier(Visit(p, i), Visit(at.pattern, at.pos))
  <1>1. p \in Nat \ {0} /\ i \in Nat \ {0} /\ at.pattern \in Nat \ {0} /\ at.pos \in Nat \ {0}
    BY PatternFacts
  <1> QED BY <1>1 DEF Indexed, Visit, Entry, Earlier

(* Before the index is built, its parts are empty.                         *)
LEMMA IndexStarts == TimetableIInv /\ IndexInv /\ EndLayout => IndexInv'
  <1> SUFFICES ASSUME TimetableIInv, IndexInv, EndLayout PROVE IndexInv'
    OBVIOUS
  <1>1. pc' = "index" /\ at' = [pattern |-> 1, pos |-> 1] /\ UNCHANGED <<patterns, stopPatterns>>
        /\ \A s \in DOMAIN stopPatterns : stopPatterns[s] = <<>>
    BY DEF EndLayout, IndexInv
  <1>2. ASSUME NEW p \in DOMAIN patterns, NEW i \in DOMAIN patterns[p].stops
        PROVE  ~Indexed(p, i, at')
    <2>1. p \in Nat \ {0} /\ i \in Nat \ {0}
      BY PatternFacts
    <2> QED BY <1>1, <2>1 DEF Indexed
  <1>3. <<>> \in Seq(Entry) /\ DOMAIN <<>> = {}
    BY EmptySeq
  <1>4. \A s \in DOMAIN stopPatterns : EntriesOK(s, patterns, stopPatterns'[s], at')
    BY <1>1, <1>2, <1>3 DEF EntriesOK, Entry
  <1> QED BY <1>1, <1>2, <1>4 DEF IndexInv

(* One visit adds one entry, behind those there are (build.go:108-113).    *)
LEMMA IndexGrows ==
  ASSUME TimetableIInv, IndexInv, pc = "index", pc' = "index",
         at.pattern \in DOMAIN patterns, at.pos \in DOMAIN patterns[at.pattern].stops,
         patterns[at.pattern].stops[at.pos] \in DOMAIN stopPatterns,
         stopPatterns' = [stopPatterns EXCEPT ![patterns[at.pattern].stops[at.pos]] =
                            Append(@, Visit(at.pattern, at.pos))],
         at' = [at EXCEPT !.pos = @ + 1],
         patterns' = patterns
  PROVE  IndexInv'
  <1> DEFINE p == at.pattern
             pos == at.pos
             s == patterns[p].stops[pos]
             v == Visit(p, pos)
  <1>1. /\ p \in Nat \ {0} /\ pos \in Nat \ {0} /\ at'.pattern = p /\ at'.pos = pos + 1
    <2>1. at \in [pattern : Nat \ {0}, pos : Nat \ {0}]
      BY DEF TimetableIInv, TypeOK
    <2> QED BY <2>1
  <1>2. \A q \in DOMAIN patterns : \A i \in DOMAIN patterns[q].stops :
          Indexed(q, i, at') <=> Indexed(q, i, at) \/ (q = p /\ i = pos)
    <2> TAKE q \in DOMAIN patterns
    <2> TAKE i \in DOMAIN patterns[q].stops
    <2>1. q \in Nat /\ i \in Nat
      BY PatternFacts
    <2> QED BY <1>1, <2>1 DEF Indexed
  <1>3. \A t \in DOMAIN stopPatterns : EntriesOK(t, patterns, stopPatterns[t], at)
    BY DEF IndexInv
  <1>4. v \in Entry
    BY <1>1 DEF Visit, Entry
  <1>5. \A q \in DOMAIN patterns : \A i \in DOMAIN patterns[q].stops :
          Indexed(q, i, at) => Earlier(Visit(q, i), v)
    BY VisitsInOrder
  <1>6. p \in DOMAIN patterns /\ pos \in DOMAIN patterns[p].stops /\ s \in DOMAIN stopPatterns
        /\ stopPatterns' = [stopPatterns EXCEPT ![s] = Append(stopPatterns[s], v)]
    OBVIOUS
  <1>7. patterns[p].stops[pos] = s /\ Visit(p, pos) = v
    OBVIOUS
  <1> HIDE DEF p, pos, s, v
  <1>8. ASSUME NEW t \in DOMAIN stopPatterns, t # s
        PROVE  EntriesOK(t, patterns, stopPatterns'[t], at')
    <2>1. stopPatterns'[t] = stopPatterns[t]
      BY <1>6, <1>8
    <2>2. EntriesOK(t, patterns, stopPatterns[t], at)
      BY <1>3
    <2>3. \A q \in DOMAIN patterns : \A i \in DOMAIN patterns[q].stops :
            patterns[q].stops[i] = t => (Indexed(q, i, at') <=> Indexed(q, i, at))
      BY <1>2, <1>7, <1>8
    <2> DEFINE entries == stopPatterns[t]
    <2>4. \A k \in DOMAIN entries :
            \E q \in DOMAIN patterns : \E i \in DOMAIN patterns[q].stops :
              patterns[q].stops[i] = t /\ Indexed(q, i, at') /\ entries[k] = Visit(q, i)
      <3> TAKE k \in DOMAIN entries
      <3>1. PICK q \in DOMAIN patterns : \E i \in DOMAIN patterns[q].stops :
              patterns[q].stops[i] = t /\ Indexed(q, i, at) /\ entries[k] = Visit(q, i)
        BY <2>2 DEF EntriesOK
      <3> HIDE DEF entries
      <3> QED BY <2>3, <3>1
    <2>5. \A q \in DOMAIN patterns : \A i \in DOMAIN patterns[q].stops :
            patterns[q].stops[i] = t /\ Indexed(q, i, at') => \E k \in DOMAIN entries : entries[k] = Visit(q, i)
      BY <2>2, <2>3 DEF EntriesOK
    <2>6. /\ entries \in Seq([pattern : Nat, pos : Nat])
          /\ \A k, l \in DOMAIN entries : k < l => Earlier(entries[k], entries[l])
      BY <2>2 DEF EntriesOK
    <2> HIDE DEF entries
    <2>7. EntriesOK(t, patterns, entries, at')
      BY <2>4, <2>5, <2>6 DEF EntriesOK
    <2> QED BY <2>1, <2>7 DEF entries
  <1>9. EntriesOK(s, patterns, stopPatterns'[s], at')
    <2> DEFINE old == stopPatterns[s]
               new == stopPatterns'[s]
    <2>1. new = Append(old, v)
      BY <1>6
    <2>2. EntriesOK(s, patterns, stopPatterns[s], at) /\ old \in Seq(Entry)
      BY <1>3, <1>6 DEF EntriesOK, Entry
    <2>3. /\ new \in Seq(Entry) /\ Len(new) = Len(old) + 1 /\ Len(old) \in Nat
          /\ \A k \in 1..Len(old) : new[k] = old[k]
          /\ new[Len(old) + 1] = v
      <3> HIDE DEF old, new
      <3> QED BY <1>4, <2>1, <2>2, AppendProperties
    <2>4. DOMAIN old = 1..Len(old) /\ DOMAIN new = 1..Len(old) \cup {Len(old) + 1}
      <3> HIDE DEF old, new
      <3> QED BY <2>2, <2>3
    <2>5. \A k \in DOMAIN old :
            \E q \in DOMAIN patterns : \E i \in DOMAIN patterns[q].stops :
              patterns[q].stops[i] = s /\ Indexed(q, i, at) /\ old[k] = Visit(q, i)
      BY <2>2 DEF EntriesOK
    <2>6. \A q \in DOMAIN patterns : \A i \in DOMAIN patterns[q].stops :
            patterns[q].stops[i] = s /\ Indexed(q, i, at) => \E k \in DOMAIN old : old[k] = Visit(q, i)
      BY <2>2 DEF EntriesOK
    <2>7. \A k, l \in DOMAIN old : k < l => Earlier(old[k], old[l])
      BY <2>2 DEF EntriesOK
    <2> HIDE DEF old, new
    <2>8. ASSUME NEW k \in DOMAIN new
          PROVE  \E q \in DOMAIN patterns : \E i \in DOMAIN patterns[q].stops :
                   patterns[q].stops[i] = s /\ Indexed(q, i, at') /\ new[k] = Visit(q, i)
      <3>1. CASE k \in DOMAIN old
        <4>1. PICK q \in DOMAIN patterns : \E i \in DOMAIN patterns[q].stops :
                patterns[q].stops[i] = s /\ Indexed(q, i, at) /\ old[k] = Visit(q, i)
          BY <2>5, <3>1
        <4>2. PICK i \in DOMAIN patterns[q].stops :
                patterns[q].stops[i] = s /\ Indexed(q, i, at) /\ old[k] = Visit(q, i)
          BY <4>1
        <4> QED BY <1>2, <2>3, <2>4, <3>1, <4>2
      <3>2. CASE k = Len(old) + 1
        BY <1>2, <1>6, <1>7, <2>3, <3>2
      <3> QED BY <2>4, <2>8, <3>1, <3>2
    <2>9. ASSUME NEW q \in DOMAIN patterns, NEW i \in DOMAIN patterns[q].stops,
                 patterns[q].stops[i] = s, Indexed(q, i, at')
          PROVE  \E k \in DOMAIN new : new[k] = Visit(q, i)
      <3>1. CASE Indexed(q, i, at)
        <4>1. PICK k \in DOMAIN old : old[k] = Visit(q, i)
          BY <2>6, <2>9, <3>1
        <4> QED BY <2>3, <2>4, <4>1
      <3>2. CASE q = p /\ i = pos
        BY <1>7, <2>3, <2>4, <3>2
      <3> QED BY <1>2, <2>9, <3>1, <3>2
    <2>10. ASSUME NEW k \in DOMAIN new, NEW l \in DOMAIN new, k < l
           PROVE  Earlier(new[k], new[l])
      <3>1. k \in DOMAIN old /\ new[k] = old[k]
        BY <2>3, <2>4, <2>10
      <3>2. CASE l \in DOMAIN old
        BY <2>3, <2>4, <2>7, <2>10, <3>1, <3>2
      <3>3. CASE l = Len(old) + 1
        <4>1. PICK q \in DOMAIN patterns : \E i \in DOMAIN patterns[q].stops :
                patterns[q].stops[i] = s /\ Indexed(q, i, at) /\ old[k] = Visit(q, i)
          BY <2>5, <3>1
        <4>2. PICK i \in DOMAIN patterns[q].stops :
                patterns[q].stops[i] = s /\ Indexed(q, i, at) /\ old[k] = Visit(q, i)
          BY <4>1
        <4> QED BY <1>5, <2>3, <3>1, <3>3, <4>2
      <3> QED BY <2>4, <3>2, <3>3
    <2> QED BY <2>3, <2>8, <2>9, <2>10 DEF EntriesOK, Entry, new
  <1>10. \A q \in DOMAIN patterns : \A i \in DOMAIN patterns[q].stops :
           Indexed(q, i, at') => patterns[q].stops[i] \in DOMAIN stopPatterns
    <2>1. \A q \in DOMAIN patterns : \A i \in DOMAIN patterns[q].stops :
            Indexed(q, i, at) => patterns[q].stops[i] \in DOMAIN stopPatterns
      BY DEF IndexInv
    <2> QED BY <1>2, <1>6, <1>7, <2>1
  <1>11. DOMAIN stopPatterns' = DOMAIN stopPatterns
    BY <1>6
  <1>12. \A t \in DOMAIN stopPatterns' : EntriesOK(t, patterns, stopPatterns'[t], at')
    BY <1>8, <1>9, <1>11
  <1> QED BY <1>10, <1>11, <1>12 DEF IndexInv

LEMMA IndexKept == TimetableIInv /\ IndexInv /\ [Next]_vars => IndexInv'
  <1> SUFFICES ASSUME TimetableIInv, IndexInv, [Next]_vars PROVE IndexInv'
    OBVIOUS
  <1>1. CASE GroupTrip \/ EndGrouping \/ LayoutPattern
    <2>1. pc' \in {"group", "layout"} /\ pc \in {"group", "layout"} /\ stopPatterns' = stopPatterns
      BY <1>1 DEF GroupTrip, EndGrouping, LayoutPattern
    <2> QED BY <2>1 DEF IndexInv
  <1>2. CASE EndLayout
    BY <1>2, IndexStarts
  <1>3. CASE IndexVisit
    <2>1. /\ pc = "index" /\ patterns' = patterns
          /\ at.pattern <= Len(patterns) /\ at.pos <= Len(patterns[at.pattern].stops)
      BY <1>3 DEF IndexVisit
    <2>2. at.pattern \in DOMAIN patterns
      BY <2>1, PatternFacts
    <2>3. at.pos \in DOMAIN patterns[at.pattern].stops
      BY <2>1, <2>2, PatternFacts
    <2>4. CASE UNCHANGED pc
      <3>1. /\ patterns[at.pattern].stops[at.pos] \in DOMAIN stopPatterns
            /\ stopPatterns' = [stopPatterns EXCEPT ![patterns[at.pattern].stops[at.pos]] =
                                  Append(@, Visit(at.pattern, at.pos))]
            /\ at' = [at EXCEPT !.pos = @ + 1]
        BY <1>3, <2>1, <2>4 DEF IndexVisit
      <3> QED BY <2>1, <2>2, <2>3, <2>4, <3>1, IndexGrows
    <2>5. CASE pc' = "panic"
      <3>1. UNCHANGED <<stopPatterns, at>>
        BY <1>3, <2>1, <2>5 DEF IndexVisit
      <3> QED BY <2>1, <2>5, <3>1 DEF IndexInv, EntriesOK, Indexed
    <2> QED BY <1>3, <2>4, <2>5 DEF IndexVisit
  <1>4. CASE NextPattern
    <2>1. /\ pc = "index" /\ pc' = "index" /\ UNCHANGED <<patterns, stopPatterns>>
          /\ at' = [pattern |-> at.pattern + 1, pos |-> 1]
          /\ at.pos > Len(patterns[at.pattern].stops)
      BY <1>4 DEF NextPattern
    <2>2. ASSUME NEW p \in DOMAIN patterns, NEW i \in DOMAIN patterns[p].stops
          PROVE  Indexed(p, i, at') <=> Indexed(p, i, at)
      <3>1. p \in Nat /\ i \in Nat \ {0} /\ i <= Len(patterns[p].stops) /\ Len(patterns[p].stops) \in Nat
            /\ at.pattern \in Nat /\ at.pos \in Nat
        BY PatternFacts
      <3> QED BY <2>1, <3>1 DEF Indexed
    <2> QED BY <2>1, <2>2 DEF IndexInv, EntriesOK
  <1>5. CASE EndBuild
    <2>1. pc = "index" /\ pc' = "done" /\ at.pattern > Len(patterns)
          /\ UNCHANGED <<at, patterns, stopPatterns>>
      BY <1>5 DEF EndBuild
    <2> QED BY <2>1 DEF IndexInv, EntriesOK, Indexed
  <1>6. CASE UNCHANGED vars
    BY <1>6 DEF vars, IndexInv, EntriesOK, Indexed
  <1> QED BY <1>1, <1>2, <1>3, <1>4, <1>5, <1>6 DEF Next, Step, Ended

LEMMA IndexInvariantHolds == Spec => []IndexInv
  <1>1. Init => IndexInv
    BY DEF Init, IndexInv
  <1> QED BY <1>1, IndexKept, TimetableInvariantHolds, PTL DEF Spec

LEMMA AllIndexed ==
  ASSUME TimetableIInv, IndexInv, pc = "done",
         NEW p \in DOMAIN patterns, NEW i \in DOMAIN patterns[p].stops
  PROVE  Indexed(p, i, at) /\ patterns[p].stops[i] \in DOMAIN stopPatterns
  <1>1. p \in Nat /\ p <= Len(patterns) /\ Len(patterns) \in Nat /\ at.pattern \in Nat
    BY PatternFacts
  <1>2. Indexed(p, i, at)
    BY <1>1 DEF IndexInv, Indexed
  <1> QED BY <1>2 DEF IndexInv

LEMMA ExactAtEnd == TimetableIInv /\ IndexInv => IndexExact
  <1> SUFFICES ASSUME TimetableIInv, IndexInv, pc = "done", NEW s \in DOMAIN stopPatterns
               PROVE  LET entries == stopPatterns[s]
                      IN  /\ {entries[i] : i \in DOMAIN entries} =
                               UNION {{Visit(p, i) : i \in {j \in DOMAIN patterns[p].stops : patterns[p].stops[j] = s}} :
                                        p \in DOMAIN patterns}
                          /\ \A i, j \in DOMAIN entries : i < j => Earlier(entries[i], entries[j])
    BY DEF IndexExact
  <1> DEFINE entries == stopPatterns[s]
             visits == UNION {{Visit(p, i) : i \in {j \in DOMAIN patterns[p].stops : patterns[p].stops[j] = s}} :
                                p \in DOMAIN patterns}
  <1>1. EntriesOK(s, patterns, stopPatterns[s], at)
    BY DEF IndexInv
  <1>2. \A i, j \in DOMAIN entries : i < j => Earlier(entries[i], entries[j])
    BY <1>1 DEF EntriesOK
  <1>3. ASSUME NEW k \in DOMAIN entries PROVE entries[k] \in visits
    <2>1. PICK p \in DOMAIN patterns : \E i \in DOMAIN patterns[p].stops :
            patterns[p].stops[i] = s /\ entries[k] = Visit(p, i)
      BY <1>1 DEF EntriesOK
    <2> QED BY <2>1
  <1>4. ASSUME NEW v \in visits PROVE \E k \in DOMAIN entries : entries[k] = v
    <2>1. PICK p \in DOMAIN patterns : \E i \in DOMAIN patterns[p].stops : patterns[p].stops[i] = s /\ v = Visit(p, i)
      OBVIOUS
    <2>2. PICK i \in DOMAIN patterns[p].stops : patterns[p].stops[i] = s /\ v = Visit(p, i)
      BY <2>1
    <2>3. Indexed(p, i, at)
      BY AllIndexed
    <2> QED BY <1>1, <2>2, <2>3 DEF EntriesOK
  <1> HIDE DEF visits, entries
  <1>5. {entries[k] : k \in DOMAIN entries} = visits
    BY <1>3, <1>4
  <1> QED BY <1>2, <1>5 DEF visits, entries

(* The times the engine reads are those of the feed.                       *)
LEMMA SuitsEngine == TimetableIInv /\ IndexInv => PatternsSuitEngine
  <1> SUFFICES ASSUME TimetableIInv, IndexInv, pc = "done", WellTimed(feed), TimesFitIn(feed),
                      NEW p \in DOMAIN patterns
               PROVE  Engine!PatternOK(EnginePattern(patterns[p]))
    BY DEF PatternsSuitEngine
  <1> DEFINE stops == patterns[p].stops
             trips == patterns[p].trips
             n == Len(stops)
  <1>1. p \in LaidOut /\ feed \in Feeds
    BY DEF LaidOut, TimetableIInv, TypeOK
  <1>2. stops \in Seq(DOMAIN stopPatterns) /\ stops # <<>> /\ n \in Nat \ {0} /\ DOMAIN stops = 1..n
    <2>1. patterns[p] \in Pattern
      BY ElementOfSeq DEF TimetableIInv, TypeOK
    <2>2. stops \in Seq(Nat) /\ stops # <<>>
      BY <2>1 DEF Pattern
    <2>3. \A i \in DOMAIN stops : stops[i] \in DOMAIN stopPatterns
      BY AllIndexed
    <2>4. n \in Nat \ {0} /\ DOMAIN stops = 1..n
      BY PatternFacts
    <2>5. stops = [i \in 1..n |-> stops[i]]
      BY <2>2
    <2> HIDE DEF stops, n
    <2>6. [i \in 1..n |-> stops[i]] \in Seq(DOMAIN stopPatterns)
      BY <2>3, <2>4
    <2> QED BY <2>2, <2>4, <2>5, <2>6
  <1>3. DOMAIN trips = 1..Len(trips) /\ trips \in Seq(Nat)
    BY <1>1, LaidOutFacts
  <1>4. ASSUME NEW t \in DOMAIN trips
        PROVE  \E id \in Ridable(feed) :
                 /\ Len(feed.times[id]) = n
                 /\ \A j \in 1..n :
                      /\ Arrival(patterns[p], t - 1, j - 1) = feed.times[id][j].arr
                      /\ Departure(patterns[p], t - 1, j - 1) = feed.times[id][j].dep
    <2>1. trips[t] \in tripsByPattern[p]
      BY <1>1, LaidOutFacts
    <2>2. PICK id \in Ridable(feed) : trips[t] = TripIdx(feed, id)
      BY <2>1 DEF TimetableIInv, GroupingInv, GroupedOK
    <2>3. TimesOf(feed, trips[t]) = feed.times[id]
      BY <1>1, <2>2, TripOfIndex DEF TimesOf
    <2>4. Len(feed.times[id]) = n
      BY <2>1, <2>3, TimesFit
    <2>5. \A j \in 1..n :
            /\ Arrival(patterns[p], t - 1, j - 1) = feed.times[id][j].arr
            /\ Departure(patterns[p], t - 1, j - 1) = feed.times[id][j].dep
      <3> TAKE j \in 1..n
      <3>1. j \in DOMAIN patterns[p].stops
        BY <1>2
      <3>2. /\ Arrival(patterns[p], t - 1, j - 1) = Int32(feed.times[id][j].arr)
            /\ Departure(patterns[p], t - 1, j - 1) = Int32(feed.times[id][j].dep)
        BY <1>1, <2>3, <3>1, LaidOutTimes
      <3>3. feed.times[id][j] \in StopTime
        BY <1>1, <2>3, <3>1, LaidOutTyped
      <3>4. feed.times[id][j].arr \in Int /\ feed.times[id][j].dep \in Int
        BY <3>3 DEF StopTime
      <3>5. j \in DOMAIN feed.times[id]
        BY <1>1, <2>4, FeedFacts
      <3>6. Fits(feed.times[id][j].arr) /\ Fits(feed.times[id][j].dep)
        BY <3>5 DEF TimesFitIn
      <3> QED BY <3>2, <3>4, <3>6, Int32Keeps
    <2> QED BY <2>4, <2>5
  <1> HIDE DEF stops, trips, n
  <1>5. ASSUME NEW t \in DOMAIN trips
        PROVE  /\ EngineTrip(patterns[p], t).arr \in [1..n -> Int]
               /\ EngineTrip(patterns[p], t).dep \in [1..n -> Int]
               /\ \A i, j \in 1..n :
                    i < j => EngineTrip(patterns[p], t).dep[i] <= EngineTrip(patterns[p], t).arr[j]
    <2>1. PICK id \in Ridable(feed) :
            /\ Len(feed.times[id]) = n
            /\ \A j \in 1..n :
                 /\ Arrival(patterns[p], t - 1, j - 1) = feed.times[id][j].arr
                 /\ Departure(patterns[p], t - 1, j - 1) = feed.times[id][j].dep
      BY <1>4, <1>5
    <2>2. feed.times[id] \in Seq(StopTime)
      BY <1>1, FeedFacts
    <2>3. \A j \in 1..n : feed.times[id][j] \in StopTime
      BY <2>1, <2>2, ElementOfSeq
    <2>4. \A j \in 1..n : feed.times[id][j].arr \in Int /\ feed.times[id][j].dep \in Int
      BY <2>3 DEF StopTime
    <2>5. DOMAIN feed.times[id] = 1..n
      BY <2>1, <2>2
    <2>6. \A i, j \in 1..n : i < j => feed.times[id][i].dep <= feed.times[id][j].arr
      BY <2>5 DEF WellTimed
    <2>7. /\ EngineTrip(patterns[p], t).arr = [j \in 1..n |-> Arrival(patterns[p], t - 1, j - 1)]
          /\ EngineTrip(patterns[p], t).dep = [j \in 1..n |-> Departure(patterns[p], t - 1, j - 1)]
      BY DEF EngineTrip, n, stops
    <2>8. \A j \in 1..n :
            /\ EngineTrip(patterns[p], t).arr[j] = feed.times[id][j].arr
            /\ EngineTrip(patterns[p], t).dep[j] = feed.times[id][j].dep
      BY <2>1, <2>7
    <2>9. /\ EngineTrip(patterns[p], t).arr \in [1..n -> Int]
          /\ EngineTrip(patterns[p], t).dep \in [1..n -> Int]
      <3>1. \A j \in 1..n :
              /\ Arrival(patterns[p], t - 1, j - 1) \in Int
              /\ Departure(patterns[p], t - 1, j - 1) \in Int
        BY <2>1, <2>4
      <3> QED BY <2>7, <3>1, Zenon
    <2> QED BY <2>6, <2>8, <2>9
  <1>6. /\ EnginePattern(patterns[p]).stops = stops
        /\ DOMAIN EnginePattern(patterns[p]).trips = DOMAIN trips
        /\ \A t \in DOMAIN trips : EnginePattern(patterns[p]).trips[t] = EngineTrip(patterns[p], t)
    BY DEF EnginePattern, stops, trips
  <1> DEFINE ep == EnginePattern(patterns[p])
  <1> HIDE DEF ep
  <1>7. /\ ep.stops \in Seq(DOMAIN stopPatterns) /\ ep.stops # <<>> /\ Len(ep.stops) = n
    BY <1>2, <1>6 DEF ep, n
  <1>8. \A t \in DOMAIN ep.trips :
          /\ t \in Nat \ {0}
          /\ ep.trips[t].arr \in [1..n -> Int]
          /\ ep.trips[t].dep \in [1..n -> Int]
          /\ \A i, j \in 1..n : i < j => ep.trips[t].dep[i] <= ep.trips[t].arr[j]
    <2> TAKE t \in DOMAIN ep.trips
    <2>1. t \in DOMAIN trips /\ ep.trips[t] = EngineTrip(patterns[p], t)
      BY <1>6 DEF ep
    <2> HIDE DEF ep
    <2> QED BY <1>3, <1>5, <2>1
  <1>9. Engine!PatternOK(ep)
    BY <1>7, <1>8 DEF Engine!PatternOK
  <1> QED BY <1>9 DEF ep

-----------------------------------------------------------------------------
(* Every variable of Build keeps its type.                                 *)
THEOREM BuildKeepsTypes == Spec => []TypeOK
  <1>1. TimetableIInv => TypeOK
    BY DEF TimetableIInv
  <1> QED BY <1>1, TimetableInvariantHolds, PTL

(* Patterns hold trips by their exact stop sequence, for any feed whose    *)
(* stop times name known stops (build.go:50-74).                           *)
THEOREM PatternsHoldTheirTrips == Spec => []PatternsFollowTrips
  BY FollowsStops, TimetableInvariantHolds, PTL

(* Every trip grouped is in one pattern and in one only.                   *)
THEOREM TripsArePartitioned == Spec => []TripsPartitioned
  BY Partitioned, TimetableInvariantHolds, PTL

(* Pattern.Arrival and Pattern.Departure return the times of the feed that *)
(* an int32 holds, and each trip is laid out once (build.go:89-102).       *)
THEOREM TimesAreStored == Spec => []TimesStoredOnce
  BY StoredOnce, TimetableInvariantHolds, PTL

(* The index of patterns by stop is exact, for stops visited more than     *)
(* once and patterns of any length (build.go:106-114).                     *)
THEOREM IndexIsExact == Spec => []IndexExact
  BY ExactAtEnd, IndexInvariantHolds, TimetableInvariantHolds, PTL

(* What the engine's theorems assume of patterns, Build provides when the  *)
(* times of the feed are in order and fit.                                 *)
THEOREM BuiltPatternsSuitEngine == Spec => []PatternsSuitEngine
  BY SuitsEngine, IndexInvariantHolds, TimetableInvariantHolds, PTL

(* The trips of a pattern are stored in the order of their first           *)
(* departures, those that an int32 holds.                                  *)
THEOREM TripsAreInOrder == Spec => []TripsInOrder
  BY InOrder, TimetableInvariantHolds, PTL

-----------------------------------------------------------------------------
(***************************************************************************)
(* slices.BinarySearch.  The least of the positions in a window that are   *)
(* its end or not below x is what the halving of the window computes.      *)
(***************************************************************************)
IsLeast(p, S) == p \in S /\ \A q \in S : p <= q

LEMMA LeastExists ==
  ASSUME NEW S, S \subseteq Nat, S # {}
  PROVE  \E p : IsLeast(p, S)
  <1>1. PICK p \in S : \A q \in S : ~(<<q, p>> \in OpToRel(<, Nat))
    BY NatLessThanWellFounded, WFMin
  <1>2. \A q \in S : ~(q < p)
    BY <1>1 DEF OpToRel
  <1>3. p \in Nat /\ \A q \in S : q \in Nat
    OBVIOUS
  <1> QED BY <1>2, <1>3 DEF IsLeast

IsAscending(s) == \A i, j \in DOMAIN s : i < j => s[i] < s[j]

NotBelow(s, x, a, b) == {p \in a..b : p = b \/ s[p] >= x}

(* The window from a to b contains its middle, and so does not shrink past *)
(* the position looked for.                                                *)
LEMMA HalvesKeepLeast ==
  ASSUME NEW s \in Seq(Nat), IsAscending(s), NEW x \in Nat,
         NEW a \in 1..Len(s) + 1, NEW b \in 1..Len(s) + 1, a < b,
         NEW m, m = (a + b) \div 2
  PROVE  /\ m \in 1..Len(s) /\ a <= m /\ m < b
         /\ s[m] < x => NotBelow(s, x, a, b) = NotBelow(s, x, m + 1, b)
         /\ ~(s[m] < x) => \A p : IsLeast(p, NotBelow(s, x, a, m)) => IsLeast(p, NotBelow(s, x, a, b))
  <1>1. m \in Nat /\ a <= m /\ m < b /\ b <= Len(s) + 1 /\ Len(s) \in Nat /\ 1 <= a
    OBVIOUS
  <1>2. m \in 1..Len(s) /\ a <= m /\ m < b
    BY <1>1
  <1>3. \A p \in 1..Len(s) : s[p] \in Nat
    OBVIOUS
  <1>4. \A p \in 1..Len(s) : p <= m => s[p] <= s[m]
    <2> TAKE p \in 1..Len(s)
    <2> HAVE p <= m
    <2>1. p < m => s[p] < s[m]
      BY <1>2 DEF IsAscending
    <2>2. s[p] \in Nat /\ s[m] \in Nat /\ (p < m \/ p = m)
      BY <1>1, <1>2, <1>3
    <2> QED BY <2>1, <2>2
  <1>5. ASSUME s[m] < x
        PROVE  NotBelow(s, x, a, b) = NotBelow(s, x, m + 1, b)
    <2>1. ASSUME NEW p \in a..b, p = b \/ s[p] >= x PROVE p \in (m + 1)..b
      <3>1. CASE p = b
        BY <1>1, <3>1
      <3>2. CASE p # b
        <4>1. p \in 1..Len(s) /\ p \in Nat
          BY <1>1, <3>2
        <4>2. ~(p <= m)
          BY <1>2, <1>3, <1>4, <1>5, <2>1, <3>2, <4>1
        <4> QED BY <1>1, <4>1, <4>2
      <3> QED BY <3>1, <3>2
    <2>2. \A p \in (m + 1)..b : p \in a..b
      BY <1>1
    <2> QED BY <2>1, <2>2 DEF NotBelow
  <1>6. ASSUME ~(s[m] < x), NEW p, IsLeast(p, NotBelow(s, x, a, m))
        PROVE  IsLeast(p, NotBelow(s, x, a, b))
    <2>1. s[m] >= x
      BY <1>2, <1>3, <1>6
    <2>2. p \in a..m /\ s[p] >= x
      BY <1>6, <2>1 DEF IsLeast, NotBelow
    <2>3. p \in NotBelow(s, x, a, b)
      BY <1>1, <2>2 DEF NotBelow
    <2>4. ASSUME NEW q \in NotBelow(s, x, a, b) PROVE p <= q
      <3>1. q \in a..b /\ (q = b \/ s[q] >= x)
        BY DEF NotBelow
      <3>2. CASE q <= m
        <4>1. q \in NotBelow(s, x, a, m)
          BY <1>1, <3>1, <3>2 DEF NotBelow
        <4> QED BY <1>6, <4>1 DEF IsLeast
      <3>3. CASE ~(q <= m)
        BY <1>1, <2>2, <3>1, <3>3
      <3> QED BY <3>2, <3>3
    <2> QED BY <2>3, <2>4 DEF IsLeast
  <1> QED BY <1>2, <1>5, <1>6

(* The recursion has a solution, hence the function is what it says. *)
LEMMA SearchUnfolds ==
  ASSUME NEW s \in Seq(Nat), IsAscending(s), NEW x \in Nat
  PROVE  BinarySearch(s, x) = [w \in Windows(s) |-> Halved(s, x, BinarySearch(s, x), w)]
  <1> DEFINE Least(S) == CHOOSE p : IsLeast(p, S)
             g == [w \in Windows(s) |->
                     IF w[1] >= w[2] THEN w[1] ELSE Least(NotBelow(s, x, w[1], w[2]))]
             Solves(f) == f = [w \in Windows(s) |-> Halved(s, x, f, w)]
  <1>1. \A S : (\E p : IsLeast(p, S)) => IsLeast(Least(S), S)
    OBVIOUS
  <1>2. \A S, p, q : S \subseteq Nat /\ IsLeast(p, S) /\ IsLeast(q, S) => p = q
    BY DEF IsLeast
  <1>3. \A a, b \in 1..Len(s) + 1 :
          a <= b => /\ NotBelow(s, x, a, b) \subseteq Nat
                    /\ \E p : IsLeast(p, NotBelow(s, x, a, b))
    <2> TAKE a, b \in 1..Len(s) + 1
    <2> HAVE a <= b
    <2>1. b \in NotBelow(s, x, a, b) /\ NotBelow(s, x, a, b) \subseteq Nat
      BY DEF NotBelow
    <2> QED BY <2>1, LeastExists
  <1>4. ASSUME NEW w \in Windows(s) PROVE g[w] = Halved(s, x, g, w)
    <2> DEFINE a == w[1]
               b == w[2]
               m == (a + b) \div 2
    <2>1. a \in 1..Len(s) + 1 /\ b \in 1..Len(s) + 1 /\ Middle(w) = m
      BY DEF Windows, Middle
    <2>2. CASE a >= b
      BY <2>2 DEF Halved
    <2>3. CASE a < b
      <3>1. /\ m \in 1..Len(s) /\ a <= m /\ m < b
            /\ s[m] < x => NotBelow(s, x, a, b) = NotBelow(s, x, m + 1, b)
            /\ ~(s[m] < x) => \A p : IsLeast(p, NotBelow(s, x, a, m)) => IsLeast(p, NotBelow(s, x, a, b))
        BY <2>1, <2>3, HalvesKeepLeast
      <3>2. g[w] = Least(NotBelow(s, x, a, b))
        BY <2>1, <2>3
      <3>3. \A c, d \in 1..Len(s) + 1 : c <= d => g[<<c, d>>] = Least(NotBelow(s, x, c, d))
        <4> TAKE c, d \in 1..Len(s) + 1
        <4> HAVE c <= d
        <4>1. <<c, d>> \in Windows(s)
          BY DEF Windows
        <4>2. CASE c < d
          BY <4>1, <4>2
        <4>3. CASE c = d
          <5>1. g[<<c, d>>] = c
            BY <4>1, <4>3
          <5>2. IsLeast(c, NotBelow(s, x, c, d))
            BY <4>3 DEF IsLeast, NotBelow
          <5>3. IsLeast(Least(NotBelow(s, x, c, d)), NotBelow(s, x, c, d)) /\ NotBelow(s, x, c, d) \subseteq Nat
            BY <1>1, <1>3
          <5> HIDE DEF Least, g
          <5> QED BY <1>2, <5>1, <5>2, <5>3
        <4> QED BY <4>2, <4>3
      <3> HIDE DEF g
      <3>4. CASE s[m] < x
        <4>1. m + 1 \in 1..Len(s) + 1 /\ m + 1 <= b
          BY <2>1, <3>1
        <4>2. g[<<m + 1, b>>] = Least(NotBelow(s, x, m + 1, b))
          BY <2>1, <3>3, <4>1
        <4>3. Halved(s, x, g, w) = g[<<m + 1, b>>]
          BY <2>1, <2>3, <3>4 DEF Halved
        <4> QED BY <3>1, <3>2, <3>4, <4>2, <4>3
      <3>5. CASE ~(s[m] < x)
        <4>1. m \in 1..Len(s) + 1
          BY <3>1
        <4>2. g[<<a, m>>] = Least(NotBelow(s, x, a, m))
          BY <2>1, <3>1, <3>3, <4>1
        <4>3. Halved(s, x, g, w) = g[<<a, m>>]
          BY <2>1, <2>3, <3>5 DEF Halved
        <4>4. IsLeast(Least(NotBelow(s, x, a, m)), NotBelow(s, x, a, b))
          BY <1>1, <1>3, <2>1, <3>1, <3>5, <4>1
        <4>5. IsLeast(Least(NotBelow(s, x, a, b)), NotBelow(s, x, a, b)) /\ NotBelow(s, x, a, b) \subseteq Nat
          BY <1>1, <1>3, <2>1, <2>3
        <4> HIDE DEF Least
        <4> QED BY <1>2, <3>2, <4>2, <4>3, <4>4, <4>5
      <3> QED BY <3>4, <3>5
    <2> QED BY <2>1, <2>2, <2>3
  <1>5. Solves(g)
    <2>1. g = [w \in Windows(s) |-> g[w]]
      OBVIOUS
    <2> HIDE DEF g
    <2> QED BY <1>4, <2>1
  <1>6. BinarySearch(s, x) = CHOOSE f : Solves(f)
    BY DEF BinarySearch
  <1> HIDE DEF Solves, g
  <1>7. Solves(BinarySearch(s, x))
    BY <1>5, <1>6
  <1> QED BY <1>7 DEF Solves

LEMMA SearchFindsLeast ==
  ASSUME NEW s \in Seq(Nat), IsAscending(s), NEW x \in Nat,
         NEW a \in 1..Len(s) + 1, NEW b \in 1..Len(s) + 1, a <= b
  PROVE  IsLeast(BinarySearch(s, x)[<<a, b>>], NotBelow(s, x, a, b))
  <1> DEFINE f == BinarySearch(s, x)
             N == 1..Len(s) + 1
             Right(c, d) == IsLeast(f[<<c, d>>], NotBelow(s, x, c, d))
             Wrong == {n \in Nat : \E c, d \in N : c <= d /\ n = d - c /\ ~Right(c, d)}
  <1>1. \A c, d \in N : f[<<c, d>>] = Halved(s, x, f, <<c, d>>)
    <2> TAKE c, d \in N
    <2>1. <<c, d>> \in Windows(s)
      BY DEF Windows
    <2>2. f = [w \in Windows(s) |-> Halved(s, x, f, w)]
      BY SearchUnfolds
    <2> HIDE DEF f
    <2> QED BY <2>1, <2>2
  <1> HIDE DEF f
  <1>2. ASSUME Wrong # {} PROVE FALSE
    <2>1. PICK n : IsLeast(n, Wrong)
      BY <1>2, LeastExists
    <2>2. PICK c \in N, d \in N : c <= d /\ n = d - c /\ ~Right(c, d)
      BY <2>1 DEF IsLeast
    <2>3. \A e, h \in N : e <= h /\ h - e < d - c => Right(e, h)
      <3> TAKE e, h \in N
      <3> HAVE e <= h /\ h - e < d - c
      <3>1. h - e \in Nat /\ n \in Nat
        BY <2>1 DEF IsLeast
      <3>2. ~(n <= h - e)
        BY <2>2, <3>1
      <3>3. h - e \notin Wrong
        BY <2>1, <3>2 DEF IsLeast
      <3> QED BY <3>1, <3>3
    <2>4. CASE c = d
      <3>1. f[<<c, d>>] = c
        <4>1. f[<<c, d>>] = Halved(s, x, f, <<c, d>>)
          BY <1>1
        <4>2. c >= d
          BY <2>4
        <4> QED BY <4>1, <4>2 DEF Halved
      <3>2. IsLeast(c, NotBelow(s, x, c, d))
        BY <2>4 DEF IsLeast, NotBelow
      <3> QED BY <2>2, <3>1, <3>2
    <2>5. CASE c < d
      <3> DEFINE m == (c + d) \div 2
      <3>1. /\ m \in 1..Len(s) /\ c <= m /\ m < d
            /\ s[m] < x => NotBelow(s, x, c, d) = NotBelow(s, x, m + 1, d)
            /\ ~(s[m] < x) => \A p : IsLeast(p, NotBelow(s, x, c, m)) => IsLeast(p, NotBelow(s, x, c, d))
        BY <2>5, HalvesKeepLeast
      <3>2. f[<<c, d>>] = IF s[m] < x THEN f[<<m + 1, d>>] ELSE f[<<c, m>>]
        BY <1>1, <2>5 DEF Halved, Middle
      <3>3. CASE s[m] < x
        <4>1. m + 1 \in N /\ m + 1 <= d /\ d - (m + 1) < d - c
          BY <3>1
        <4>2. Right(m + 1, d)
          BY <2>3, <4>1
        <4> QED BY <2>2, <3>1, <3>2, <3>3, <4>2
      <3>4. CASE ~(s[m] < x)
        <4>1. m \in N /\ m - c < d - c
          BY <3>1
        <4>2. Right(c, m)
          BY <2>3, <3>1, <4>1
        <4> QED BY <2>2, <3>1, <3>2, <3>4, <4>2
      <3> QED BY <3>3, <3>4
    <2> QED BY <2>2, <2>4, <2>5
  <1>3. b - a \in Nat /\ b - a \notin Wrong
    <2>1. b - a \in Nat
      OBVIOUS
    <2>2. Wrong = {}
      BY <1>2
    <2> QED BY <2>1, <2>2
  <1> QED BY <1>3 DEF f

(* In an ascending slice what is there is found, and nothing else. *)
LEMMA FoundMeansThere ==
  ASSUME NEW s \in Seq(Nat), IsAscending(s), NEW x \in Nat
  PROVE  Found(s, x) <=> \E i \in DOMAIN s : s[i] = x
  <1> DEFINE n == Len(s)
             i == BinarySearch(s, x)[<<1, n + 1>>]
  <1>1. n \in Nat /\ DOMAIN s = 1..n /\ \A j \in 1..n : s[j] \in Nat
    OBVIOUS
  <1>2. IsLeast(i, NotBelow(s, x, 1, n + 1))
    BY <1>1, SearchFindsLeast
  <1>3. Found(s, x) <=> i <= n /\ s[i] = x
    BY DEF Found
  <1> HIDE DEF n, i
  <1>4. i \in 1..(n + 1) /\ (i = n + 1 \/ s[i] >= x)
    BY <1>2 DEF IsLeast, NotBelow
  <1>5. ASSUME NEW j \in 1..n, s[j] = x PROVE i <= n /\ s[i] = x
    <2>1. j \in NotBelow(s, x, 1, n + 1)
      BY <1>1, <1>5 DEF NotBelow
    <2>2. i <= j
      BY <1>2, <2>1 DEF IsLeast
    <2>3. i \in 1..n /\ s[i] >= x
      BY <1>1, <1>4, <2>2
    <2>4. i < j => s[i] < s[j]
      BY <1>1, <2>3 DEF IsAscending
    <2>5. i = j \/ i < j
      BY <1>1, <2>2, <2>3
    <2> QED BY <1>1, <1>5, <2>3, <2>4, <2>5
  <1>6. i <= n => i \in 1..n
    BY <1>1, <1>4
  <1> QED BY <1>1, <1>3, <1>5, <1>6

-----------------------------------------------------------------------------
(***************************************************************************)
(* sortedKeys: a finite set of numbers has an ascending slice.             *)
(***************************************************************************)
LEMMA AscendingLists ==
  ASSUME NEW S, IsFiniteSet(S), S \subseteq Nat
  PROVE  /\ Ascending(S) \in Seq(Nat)
         /\ IsAscending(Ascending(S))
         /\ \A x : x \in S <=> \E i \in DOMAIN Ascending(S) : Ascending(S)[i] = x
  <1> DEFINE c == Cardinality(S)
             r == [x \in S |-> Rank(S, x) + 1]
  <1>1. c \in Nat
    BY FS_CardinalityType
  <1>2. ASSUME NEW x \in S PROVE Rank(S, x) + 1 \in 1..c
    <2> DEFINE B == {y \in S : y < x}
    <2>1. B \in SUBSET S /\ x \notin B
      OBVIOUS
    <2>2. Cardinality(B) <= c /\ Cardinality(B) # c /\ Cardinality(B) \in Nat
      <3> HIDE DEF B
      <3> QED BY <2>1, FS_Subset, FS_CardinalityType
    <2>3. Rank(S, x) = Cardinality(B)
      BY DEF Rank
    <2> HIDE DEF B, c
    <2> QED BY <1>1, <2>2, <2>3
  <1>3. \A x, y \in S : r[x] = r[y] => x = y
    <2> TAKE x, y \in S
    <2> HAVE r[x] = r[y]
    <2>1. Rank(S, x) \in Nat /\ Rank(S, y) \in Nat
      BY RankType
    <2>2. Rank(S, x) = Rank(S, y)
      BY <2>1
    <2> QED BY <2>2, RankInjective
  <1>4. r \in Surjection(S, 1..c)
    <2>1. r \in [S -> 1..c]
      BY <1>2
    <2>2. IsFiniteSet(1..c) /\ Cardinality(1..c) = c
      BY <1>1, FS_Interval
    <2> DEFINE D == 1..c
    <2> HIDE DEF r, D
    <2>3. r \in Injection(S, D)
      BY <1>3, <2>1 DEF Injection, IsInjective, D
    <2>4. r \in Surjection(S, D)
      BY <2>2, <2>3, FS_Injection DEF D
    <2> QED BY <2>4 DEF D
  <1>5. \A i \in 1..c : \E x \in S : r[x] = i
    <2> HIDE DEF r
    <2> QED BY <1>4 DEF Surjection
  <1> DEFINE list == [i \in 1..c |-> CHOOSE x \in S : r[x] = i]
             Sorts(s) == \A i, j \in DOMAIN s : i < j => s[i] < s[j]
  <1>6. \A i \in 1..c : list[i] \in S /\ r[list[i]] = i
    <2> HIDE DEF r
    <2> QED BY <1>5
  <1>7. list \in [1..c -> S] /\ Sorts(list)
    <2>1. list \in [1..c -> S]
      BY <1>6
    <2>2. ASSUME NEW i \in 1..c, NEW j \in 1..c, i < j PROVE list[i] < list[j]
      <3> DEFINE p == list[i]
                 q == list[j]
      <3>1. p \in S /\ q \in S /\ Rank(S, p) + 1 = i /\ Rank(S, q) + 1 = j
        BY <1>6
      <3> HIDE DEF p, q
      <3>2. p \in Nat /\ q \in Nat /\ Rank(S, p) \in Nat /\ Rank(S, q) \in Nat
        BY <3>1, RankType
      <3>3. q < p => Rank(S, q) < Rank(S, p)
        BY <3>1, RankIncreases
      <3>4. p < q
        BY <1>1, <2>2, <3>1, <3>2, <3>3
      <3> QED BY <3>4 DEF p, q
    <2> HIDE DEF list
    <2> QED BY <2>1, <2>2
  <1> DEFINE s == Ascending(S)
  <1>8. s = CHOOSE l \in [1..c -> S] : Sorts(l)
    BY DEF Ascending
  <1> HIDE DEF list, Sorts, s
  <1>9. s \in [1..c -> S] /\ Sorts(s)
    BY <1>7, <1>8
  <1>10. s \in Seq(Nat) /\ DOMAIN s = 1..c
    <2>1. s \in [1..c -> Nat]
      BY <1>9
    <2> QED BY <1>1, <2>1, SeqDef
  <1>11. IsAscending(s)
    BY <1>9 DEF Sorts, IsAscending
  <1>12. \A x \in S : \E i \in 1..c : s[i] = x
    <2> DEFINE D == 1..c
    <2>1. \A i, j \in D : s[i] = s[j] => i = j
      <3> TAKE i, j \in D
      <3>1. s[i] \in Nat /\ s[j] \in Nat /\ (i < j => s[i] < s[j]) /\ (j < i => s[j] < s[i])
        BY <1>9, <1>10, <1>11 DEF IsAscending
      <3> QED BY <1>1, <3>1
    <2>2. IsFiniteSet(D) /\ Cardinality(D) = c
      BY <1>1, FS_Interval
    <2>3. s \in [D -> S]
      BY <1>9
    <2> HIDE DEF D
    <2>4. s \in Injection(D, S)
      BY <2>1, <2>3 DEF Injection, IsInjective
    <2>5. s \in Surjection(D, S)
      BY <2>2, <2>4, FS_Injection
    <2> QED BY <2>5 DEF Surjection, D
  <1>13. \A x : x \in S <=> \E i \in DOMAIN s : s[i] = x
    BY <1>9, <1>10, <1>12
  <1> QED BY <1>10, <1>11, <1>13 DEF s

(* A service answers alike before and after its dates are sorted. *)
LEMMA SortedServiceAgrees ==
  ASSUME NEW svc \in [weekdays : SUBSET (0..6), start : Nat, end : Nat, added : SUBSET Nat, removed : SUBSET Nat],
         IsFiniteSet(svc.added), IsFiniteSet(svc.removed), NEW date \in Nat
  PROVE  ActiveOn(SortedService(svc), date) <=> FeedActiveOn(svc, date)
  <1> DEFINE sorted == SortedService(svc)
  <1>1. /\ sorted.added = Ascending(svc.added) /\ sorted.removed = Ascending(svc.removed)
        /\ sorted.start = svc.start /\ sorted.end = svc.end /\ sorted.weekdays = svc.weekdays
    BY DEF SortedService
  <1>2. svc.added \subseteq Nat /\ svc.removed \subseteq Nat
    OBVIOUS
  <1> HIDE DEF sorted
  <1>3. Found(sorted.added, date) <=> date \in svc.added
    BY <1>1, <1>2, AscendingLists, FoundMeansThere
  <1>4. Found(sorted.removed, date) <=> date \in svc.removed
    BY <1>1, <1>2, AscendingLists, FoundMeansThere
  <1>5. InWeek(sorted, date) <=> InWeek(svc, date)
    BY <1>1 DEF InWeek
  <1> QED BY <1>3, <1>4, <1>5 DEF ActiveOn, FeedActiveOn, sorted

LEMMA ServicesAreSorted ==
  Spec => [](pc = "done" => services = [id \in DOMAIN feed.services |-> SortedService(feed.services[id])])
  <1> DEFINE I == pc = "done" => services = [id \in DOMAIN feed.services |-> SortedService(feed.services[id])]
  <1>1. Init => I
    BY DEF Init
  <1>2. I /\ [Next]_vars => I'
    <2> SUFFICES ASSUME I, [Next]_vars PROVE I'
      OBVIOUS
    <2>1. CASE EndBuild
      BY <2>1 DEF EndBuild
    <2>2. CASE GroupTrip \/ EndGrouping \/ LayoutPattern \/ EndLayout \/ IndexVisit \/ NextPattern
      <3>1. pc' # "done"
        BY <2>2 DEF GroupTrip, EndGrouping, LayoutPattern, EndLayout, IndexVisit, NextPattern
      <3> QED BY <3>1
    <2>3. CASE UNCHANGED vars
      BY <2>3 DEF vars
    <2> QED BY <2>1, <2>2, <2>3 DEF Next, Step, Ended
  <1> QED BY <1>1, <1>2, PTL DEF Spec

(***************************************************************************)
(* timetable.Service.ActiveOn, which searches sorted slices, and           *)
(* gtfs.Service.ActiveOn, which looks into maps, agree on every date       *)
(* (timetable.go:137-146, build.go).                                       *)
(***************************************************************************)
THEOREM ServicesRunAlike == Spec => []ServicesAgree
  <1>1. ASSUME TypeOK,
               pc = "done" => services = [id \in DOMAIN feed.services |-> SortedService(feed.services[id])]
        PROVE  ServicesAgree
    <2> SUFFICES ASSUME pc = "done", NEW date \in Dates
                 PROVE  ActiveServices(services, date)
                          = {id \in DOMAIN feed.services : FeedActiveOn(feed.services[id], date)}
      BY DEF ServicesAgree
    <2>1. date \in Nat
      BY DatesAssumption
    <2>2. ASSUME NEW id \in DOMAIN feed.services
          PROVE  ActiveOn(services[id], date) <=> FeedActiveOn(feed.services[id], date)
      <3>1. services[id] = SortedService(feed.services[id])
        BY <1>1
      <3>2. /\ feed.services[id] \in [weekdays : SUBSET (0..6), start : Nat, end : Nat,
                                      added : SUBSET Nat, removed : SUBSET Nat]
            /\ IsFiniteSet(feed.services[id].added) /\ IsFiniteSet(feed.services[id].removed)
        BY <1>1, FeedsAssumption DEF TypeOK, ServicesOK
      <3> QED BY <2>1, <3>1, <3>2, SortedServiceAgrees
    <2>3. DOMAIN services = DOMAIN feed.services
      BY <1>1
    <2> QED BY <2>2, <2>3 DEF ActiveServices
  <1> QED BY <1>1, ServicesAreSorted, BuildKeepsTypes, PTL

=============================================================================
