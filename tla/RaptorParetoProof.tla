------------------------- MODULE RaptorParetoProof -------------------------
(***************************************************************************)
(* The answer is the Pareto set: on a network in order raptor.Engine.Query *)
(* implements ParetoQuery.                                                 *)
(*                                                                         *)
(* The textbook recurrence is unfolded first, and its operators described  *)
(* by the rides and walks they take the best of.  Then the steps of a call *)
(* are shown to keep Faithful: no label is earlier than the recurrence's,  *)
(* and none is later unless the target is reached as early already.  A     *)
(* round thus reports exactly what the recurrence finds in it.             *)
(***************************************************************************)
EXTENDS RaptorTransfersProof

(***************************************************************************)
(* The recurrence of the promise, one round at a time.                     *)
(***************************************************************************)
Start(in) == [s \in Stops |-> IF s = in.source THEN in.depTime ELSE Infinity]

Onward(in, at) ==
  LET next == Promise!OnFoot(in, Promise!ByRide(in, at))
  IN  [s \in Stops |-> Promise!Min({at[s], next[s]})]

UpTo(in, m, g) ==
  g = [n \in 0..m |-> IF n = 0 THEN Promise!OnFoot(in, Start(in)) ELSE Onward(in, g[n - 1])]

LEMMA RecurrenceExists ==
  ASSUME NEW in
  PROVE  \E g : UpTo(in, MaxRounds, g)
  <1> DEFINE Missing == {m \in Nat : ~\E g : UpTo(in, m, g)}
  <1>1. SUFFICES ASSUME Missing # {} PROVE FALSE
    BY ConstantsAssumption
  <1>2. PICK m \in Missing : \A l \in Missing : ~(<<l, m>> \in OpToRel(<, Nat))
    BY <1>1, NatLessThanWellFounded, WFMin
  <1>3. m \in Nat /\ \A l \in Missing : ~(l < m)
    BY <1>2 DEF OpToRel
  <1>4. CASE m = 0
    <2> DEFINE g == [n \in 0..0 |-> Promise!OnFoot(in, Start(in))]
    <2>1. UpTo(in, 0, g)
      BY DEF UpTo
    <2> QED
      BY <1>2, <1>4, <2>1
  <1>5. CASE m # 0
    <2>1. m - 1 \in Nat /\ m - 1 \notin Missing
      BY <1>3, <1>5
    <2>2. PICK f : UpTo(in, m - 1, f)
      BY <2>1
    <2> DEFINE base == Promise!OnFoot(in, Start(in))
               step(at) == Onward(in, at)
               g == [n \in 0..m |-> IF n = 0 THEN base ELSE step(f[n - 1])]
    <2>3. f = [n \in 0..(m - 1) |-> IF n = 0 THEN base ELSE step(f[n - 1])]
      BY <2>2 DEF UpTo
    <2> HIDE DEF base, step
    <2>4. \A n \in 0..(m - 1) : f[n] = g[n]
      BY <1>3, <2>3
    <2>5. g = [n \in 0..m |-> IF n = 0 THEN base ELSE step(g[n - 1])]
      <3>1. \A n \in 0..m : n # 0 => n - 1 \in 0..(m - 1)
        BY <1>3
      <3>2. \A n \in 0..m : n # 0 => step(f[n - 1]) = step(g[n - 1])
        BY <3>1, <2>4
      <3> QED
        BY <3>2
    <2>6. UpTo(in, m, g)
      BY <2>5 DEF UpTo, base, step
    <2> QED
      BY <1>2, <2>6
  <1> QED
    BY <1>4, <1>5

LEMMA EarliestUnfolds ==
  ASSUME NEW in
  PROVE  /\ Promise!Earliest(in)[0] = Promise!OnFoot(in, Start(in))
         /\ \A n \in 1..MaxRounds :
              Promise!Earliest(in)[n] = Onward(in, Promise!Earliest(in)[n - 1])
  <1>1. UpTo(in, MaxRounds, Promise!Earliest(in))
    <2>1. Promise!Earliest(in) = CHOOSE g : UpTo(in, MaxRounds, g)
      BY DEF Promise!Earliest, UpTo, Onward, Start
    <2> QED
      BY <2>1, RecurrenceExists
  <1>2. MaxRounds \in Nat
    BY ConstantsAssumption
  <1> DEFINE g == Promise!Earliest(in)
             base == Promise!OnFoot(in, Start(in))
             step(at) == Onward(in, at)
  <1>3. g = [n \in 0..MaxRounds |-> IF n = 0 THEN base ELSE step(g[n - 1])]
    BY <1>1 DEF UpTo
  <1> HIDE DEF g, base, step
  <1>4. g[0] = base /\ \A n \in 1..MaxRounds : g[n] = step(g[n - 1])
    BY <1>2, <1>3
  <1> QED
    BY <1>4 DEF g, base, step

(***************************************************************************)
(* What the operators of the recurrence return.                            *)
(***************************************************************************)
LEMMA LeastOf ==
  ASSUME NEW S, S # {}, NEW low \in Int, \A x \in S : x \in Int /\ x >= low
  PROVE  Promise!Min(S) \in S /\ \A x \in S : Promise!Min(S) <= x
  <1> DEFINE T == {x - low : x \in S}
  <1>1. T \subseteq Nat /\ T # {}
    OBVIOUS
  <1>2. PICK d \in T : \A e \in T : ~(<<e, d>> \in OpToRel(<, Nat))
    BY <1>1, NatLessThanWellFounded, WFMin
  <1>3. \A e \in T : ~(e < d)
    BY <1>1, <1>2 DEF OpToRel
  <1>4. PICK x \in S : d = x - low
    BY <1>2
  <1>5. \A y \in S : x <= y
    <2> SUFFICES ASSUME NEW y \in S PROVE x <= y
      OBVIOUS
    <2>1. y - low \in T
      OBVIOUS
    <2>2. ~(y - low < x - low)
      BY <1>3, <1>4, <2>1
    <2> QED
      BY <2>2
  <1>6. x \in S /\ \A y \in S : x =< y
    BY <1>5
  <1> HIDE DEF T
  <1> QED
    BY <1>6 DEF Promise!Min

(* Labels of stops. *)
Labelling(in, at) == at \in [Stops -> Int] /\ \A s \in Stops : at[s] \in in.depTime..Infinity

WalkTo(in, at, t, v) ==
  \E s \in Stops : Foot(in, s, t) /\ at[s] < Infinity /\ v = at[s] + in.foot[<<s, t>>]

LEMMA OnFootMeaning ==
  ASSUME NEW in, InputOK(in), NEW at, Labelling(in, at), NEW t \in Stops
  PROVE  LET v == Promise!OnFoot(in, at)[t]
         IN  /\ v \in in.depTime..Infinity
             /\ v = at[t] \/ WalkTo(in, at, t, v)
             /\ v <= at[t]
             /\ \A w : WalkTo(in, at, t, w) => v <= w
  <1> DEFINE S == {at[t]} \cup {at[s] + in.foot[<<s, t>>] :
                                s \in {u \in Stops : Foot(in, u, t) /\ at[u] < Infinity}}
             v == Promise!OnFoot(in, at)[t]
  <1>1. v = Promise!Min(S)
    BY DEF Promise!OnFoot, Promise!Foot, Foot
  <1>2. in.depTime \in Int /\ at[t] \in in.depTime..Infinity
    BY DEF InputOK, Labelling
  <1>3. \A w : w \in S <=> w = at[t] \/ WalkTo(in, at, t, w)
    BY DEF WalkTo
  <1>4. \A w : WalkTo(in, at, t, w) => w \in Int /\ w >= in.depTime
    <2> SUFFICES ASSUME NEW w, NEW s \in Stops, Foot(in, s, t), w = at[s] + in.foot[<<s, t>>]
                 PROVE  w \in Int /\ w >= in.depTime
      BY DEF WalkTo
    <2>1. in.foot[<<s, t>>] \in Nat
      BY DEF InputOK
    <2>2. at[s] \in Int /\ at[s] >= in.depTime
      BY <1>2 DEF Labelling
    <2> QED
      BY <1>2, <2>1, <2>2
  <1> HIDE DEF S, v
  <1>5. \A w \in S : w \in Int /\ w >= in.depTime
    BY <1>2, <1>3, <1>4
  <1>6. S # {}
    BY <1>3
  <1>7. v \in S /\ \A w \in S : v <= w
    BY <1>1, <1>2, <1>5, <1>6, LeastOf
  <1>8. /\ v = at[t] \/ WalkTo(in, at, t, v)
        /\ v <= at[t]
        /\ \A w : WalkTo(in, at, t, w) => v <= w
    BY <1>3, <1>7
  <1>9. v \in in.depTime..Infinity
    BY <1>2, <1>5, <1>7, <1>8, ConstantsAssumption
  <1> QED
    BY <1>8, <1>9 DEF v

(* Run r, caught at position i of pattern p when ready, stops at t as j. *)
RideTo(p, i, j, r, ready, t) ==
  /\ i \in DOMAIN p.stops /\ j \in DOMAIN p.stops /\ i < j
  /\ p.stops[j] = t
  /\ ready[p.stops[i]] < Infinity
  /\ r \in Catchable(p, i, ready[p.stops[i]])

LEMMA ByRideMeaning ==
  ASSUME NEW in, InputOK(in), NEW ready, Labelling(in, ready), NEW t \in Stops
  PROVE  LET v == Promise!ByRide(in, ready)[t]
         IN  /\ v \in in.depTime..Infinity
             /\ \/ v = Infinity
                \/ \E pi \in DOMAIN in.patterns : \E i, j, r :
                     /\ RideTo(in.patterns[pi], i, j, r, ready, t)
                     /\ v = Arrival(in.patterns[pi], r, j)
             /\ \A pi \in DOMAIN in.patterns : \A i, j, r :
                  RideTo(in.patterns[pi], i, j, r, ready, t) => v <= Arrival(in.patterns[pi], r, j)
  <1> DEFINE boarded(p, i) == IF ready[p.stops[i]] < Infinity
                              THEN Catchable(p, i, ready[p.stops[i]]) ELSE {}
             rides(p) ==
               UNION {{Arrival(p, r, j) : r \in UNION {boarded(p, i) : i \in 1..(j - 1)}} :
                      j \in {j \in DOMAIN p.stops : p.stops[j] = t}}
             S == {Infinity} \cup UNION {rides(in.patterns[pi]) : pi \in DOMAIN in.patterns}
             v == Promise!ByRide(in, ready)[t]
  <1>1. v = Promise!Min(S)
    <2>1. \A p, i, time : Promise!Catchable(p, i, time) = Catchable(p, i, time)
      BY DEF Promise!Catchable, Catchable, Promise!Runs, Runs, Promise!Departure, Departure
    <2>2. \A p, r, j : Promise!Arrival(p, r, j) = Arrival(p, r, j)
      BY DEF Promise!Arrival, Arrival
    <2> DEFINE boardedAs(p, i) == IF ready[p.stops[i]] < Infinity
                                  THEN Promise!Catchable(p, i, ready[p.stops[i]]) ELSE {}
               ridesAs(p) ==
                 UNION {{Promise!Arrival(p, r, j) : r \in UNION {boardedAs(p, i) : i \in 1..(j - 1)}} :
                        j \in {j \in DOMAIN p.stops : p.stops[j] = t}}
    <2>3. v = Promise!Min({Infinity} \cup UNION {ridesAs(in.patterns[pi]) : pi \in DOMAIN in.patterns})
      BY DEF Promise!ByRide
    <2>4. \A p, i : boardedAs(p, i) = boarded(p, i)
      BY <2>1
    <2> HIDE DEF boardedAs, boarded
    <2>5. \A p : ridesAs(p) = rides(p)
      BY <2>2, <2>4
    <2> HIDE DEF ridesAs, rides, v
    <2> QED
      BY <2>3, <2>5
  <1>2. ASSUME NEW pi \in DOMAIN in.patterns
        PROVE  \A w : w \in rides(in.patterns[pi]) <=>
                 \E i, j, r : /\ RideTo(in.patterns[pi], i, j, r, ready, t)
                              /\ w = Arrival(in.patterns[pi], r, j)
    <2> DEFINE p == in.patterns[pi]
    <2>1. DOMAIN p.stops = 1..Len(p.stops) /\ Len(p.stops) \in Nat
      BY PatternShape DEF InputOK
    <2>2. \A j \in DOMAIN p.stops : \A i : i \in 1..(j - 1) <=> i \in DOMAIN p.stops /\ i < j
      BY <2>1
    <2> HIDE DEF p
    <2> QED
      BY <2>2 DEF RideTo, p
  <1>3. ASSUME NEW pi \in DOMAIN in.patterns, NEW i, NEW j, NEW r,
               RideTo(in.patterns[pi], i, j, r, ready, t)
        PROVE  Arrival(in.patterns[pi], r, j) \in Int /\ Arrival(in.patterns[pi], r, j) >= in.depTime
    <2> DEFINE p == in.patterns[pi]
    <2>1. PatternOK(p) /\ in.depTime \in Int
      BY DEF InputOK
    <2>2. /\ i \in DOMAIN p.stops /\ j \in DOMAIN p.stops /\ i < j /\ r \in Runs(p)
          /\ Departure(p, r, i) >= ready[p.stops[i]]
      BY <1>3 DEF RideTo, Catchable
    <2>3. p.stops[i] \in Stops
      BY <2>1, <2>2, PatternShape
    <2> HIDE DEF p
    <2>4. ready[p.stops[i]] \in Int /\ ready[p.stops[i]] >= in.depTime
      BY <2>1, <2>3 DEF Labelling
    <2>5. /\ Departure(p, r, i) \in Int /\ Arrival(p, r, j) \in Int
          /\ Departure(p, r, i) <= Arrival(p, r, j)
      BY <2>1, <2>2, RunsType, RideForward
    <2> QED
      BY <2>1, <2>2, <2>4, <2>5 DEF p
  <1>4. \A w : w \in S <=> \/ w = Infinity
                           \/ \E pi \in DOMAIN in.patterns : w \in rides(in.patterns[pi])
    <2> HIDE DEF rides
    <2> QED
      OBVIOUS
  <1> HIDE DEF S, v, rides
  <1>5. \A w \in S : w \in Int /\ w >= in.depTime
    BY <1>2, <1>3, <1>4, ConstantsAssumption DEF InputOK
  <1>6. Infinity \in S /\ in.depTime \in Int
    BY <1>4 DEF InputOK
  <1>7. v \in S /\ \A w \in S : v <= w
    BY <1>1, <1>5, <1>6, LeastOf
  <1>8. \/ v = Infinity
        \/ \E pi \in DOMAIN in.patterns : \E i, j, r :
             /\ RideTo(in.patterns[pi], i, j, r, ready, t)
             /\ v = Arrival(in.patterns[pi], r, j)
    BY <1>2, <1>4, <1>7
  <1>9. \A pi \in DOMAIN in.patterns : \A i, j, r :
          RideTo(in.patterns[pi], i, j, r, ready, t) => v <= Arrival(in.patterns[pi], r, j)
    BY <1>2, <1>4, <1>7
  <1>10. v \in in.depTime..Infinity
    BY <1>5, <1>6, <1>7, ConstantsAssumption
  <1> QED
    BY <1>8, <1>9, <1>10 DEF v

LEMMA OnFootLabels ==
  ASSUME NEW in, InputOK(in), NEW at, Labelling(in, at)
  PROVE  Labelling(in, Promise!OnFoot(in, at))
  <1> DEFINE f == Promise!OnFoot(in, at)
  <1>1. f = [t \in Stops |-> f[t]]
    BY DEF Promise!OnFoot
  <1>2. \A t \in Stops : f[t] \in in.depTime..Infinity
    BY OnFootMeaning
  <1>3. in.depTime \in Int /\ Infinity \in Int
    BY ConstantsAssumption DEF InputOK
  <1> HIDE DEF f
  <1>4. f \in [Stops -> Int]
    BY <1>1, <1>2, <1>3
  <1> QED
    BY <1>2, <1>4 DEF Labelling, f

LEMMA ByRideLabels ==
  ASSUME NEW in, InputOK(in), NEW ready, Labelling(in, ready)
  PROVE  Labelling(in, Promise!ByRide(in, ready))
  <1> DEFINE f == Promise!ByRide(in, ready)
  <1>1. f = [t \in Stops |-> f[t]]
    BY DEF Promise!ByRide
  <1>2. \A t \in Stops : f[t] \in in.depTime..Infinity
    BY ByRideMeaning
  <1>3. in.depTime \in Int /\ Infinity \in Int
    BY ConstantsAssumption DEF InputOK
  <1> HIDE DEF f
  <1>4. f \in [Stops -> Int]
    BY <1>1, <1>2, <1>3
  <1> QED
    BY <1>2, <1>4 DEF Labelling, f

LEMMA OnwardMeaning ==
  ASSUME NEW in, InputOK(in), NEW at, Labelling(in, at)
  PROVE  LET next == Promise!OnFoot(in, Promise!ByRide(in, at))
         IN  /\ Labelling(in, next)
             /\ Labelling(in, Onward(in, at))
             /\ \A s \in Stops : /\ Onward(in, at)[s] <= at[s]
                                 /\ Onward(in, at)[s] <= next[s]
                                 /\ Onward(in, at)[s] \in {at[s], next[s]}
  <1> DEFINE next == Promise!OnFoot(in, Promise!ByRide(in, at))
  <1>1. Labelling(in, next)
    BY ByRideLabels, OnFootLabels
  <1>2. in.depTime \in Int /\ Infinity \in Int
    BY ConstantsAssumption DEF InputOK
  <1>3. Onward(in, at) = [s \in Stops |-> Promise!Min({at[s], next[s]})]
    BY DEF Onward
  <1> HIDE DEF next
  <1>4. ASSUME NEW s \in Stops
        PROVE  /\ Promise!Min({at[s], next[s]}) \in {at[s], next[s]}
               /\ Promise!Min({at[s], next[s]}) <= at[s]
               /\ Promise!Min({at[s], next[s]}) <= next[s]
               /\ {at[s], next[s]} \subseteq in.depTime..Infinity
    <2>1. {at[s], next[s]} \subseteq in.depTime..Infinity
      BY <1>1 DEF Labelling
    <2>2. \A x \in {at[s], next[s]} : x \in Int /\ x >= in.depTime
      BY <1>2, <2>1
    <2> QED
      BY <1>2, <2>1, <2>2, LeastOf
  <1>5. \A s \in Stops : Onward(in, at)[s] \in in.depTime..Infinity
    BY <1>3, <1>4
  <1>6. Onward(in, at) \in [Stops -> Int]
    BY <1>2, <1>3, <1>4
  <1> QED
    BY <1>1, <1>3, <1>4, <1>5, <1>6 DEF Labelling, next

LEMMA PromisedLabels ==
  ASSUME NEW in, InputOK(in)
  PROVE  /\ \A n \in 0..MaxRounds : Labelling(in, Promise!Earliest(in)[n])
         /\ Labelling(in, Start(in))
  <1> DEFINE E(n) == Promise!Earliest(in)[n]
             Missing == {n \in Nat : n \in 0..MaxRounds /\ ~Labelling(in, E(n))}
  <1>1. Labelling(in, Start(in))
    BY ConstantsAssumption DEF Start, Labelling, InputOK
  <1>2. E(0) = Promise!OnFoot(in, Start(in)) /\ \A n \in 1..MaxRounds : E(n) = Onward(in, E(n - 1))
    BY EarliestUnfolds
  <1> HIDE DEF E
  <1>3. Missing = {}
    <2> SUFFICES ASSUME Missing # {} PROVE FALSE
      OBVIOUS
    <2>1. PICK m \in Missing : \A l \in Missing : ~(<<l, m>> \in OpToRel(<, Nat))
      BY NatLessThanWellFounded, WFMin
    <2>2. m \in Nat /\ m \in 0..MaxRounds /\ ~Labelling(in, E(m)) /\ \A l \in Missing : ~(l < m)
      BY <2>1 DEF OpToRel
    <2>3. CASE m = 0
      BY <1>1, <1>2, <2>2, <2>3, OnFootLabels
    <2>4. CASE m # 0
      <3>1. m \in 1..MaxRounds /\ m - 1 \in Nat /\ m - 1 \in 0..MaxRounds
        BY <2>2, <2>4, ConstantsAssumption
      <3>2. Labelling(in, E(m - 1))
        BY <2>2, <3>1
      <3> QED
        BY <1>2, <2>2, <3>1, <3>2, OnwardMeaning
    <2> QED
      BY <2>3, <2>4
  <1>4. \A n \in 0..MaxRounds : Labelling(in, E(n))
    BY <1>3, ConstantsAssumption
  <1> QED
    BY <1>1, <1>4 DEF E

(***************************************************************************)
(* Who is ready earlier can take every ride, and two walks in a row are no *)
(* shorter than one.                                                       *)
(***************************************************************************)
LEMMA ReadyEarlier ==
  ASSUME NEW in, InputOK(in), NEW ready, Labelling(in, ready), NEW sooner, Labelling(in, sooner),
         \A s \in Stops : sooner[s] <= ready[s],
         NEW pi \in DOMAIN in.patterns, NEW i, NEW j, NEW r, NEW t,
         RideTo(in.patterns[pi], i, j, r, ready, t)
  PROVE  RideTo(in.patterns[pi], i, j, r, sooner, t)
  <1> DEFINE p == in.patterns[pi]
  <1>1. PatternOK(p)
    BY DEF InputOK
  <1>2. i \in DOMAIN p.stops /\ r \in Runs(p)
    BY DEF RideTo, Catchable
  <1>3. p.stops[i] \in Stops
    BY <1>1, <1>2, PatternShape
  <1> HIDE DEF p
  <1>4. /\ Departure(p, r, i) \in Int /\ ready[p.stops[i]] \in Int /\ sooner[p.stops[i]] \in Int
        /\ sooner[p.stops[i]] <= ready[p.stops[i]]
    BY <1>1, <1>2, <1>3, RunsType DEF Labelling
  <1>5. ready[p.stops[i]] < Infinity /\ r \in Catchable(p, i, ready[p.stops[i]])
    BY DEF RideTo, p
  <1>6. sooner[p.stops[i]] < Infinity /\ r \in Catchable(p, i, sooner[p.stops[i]])
    BY <1>4, <1>5, ConstantsAssumption DEF Catchable
  <1> QED
    BY <1>6 DEF RideTo, p

LEMMA WalkOn ==
  ASSUME NEW in, InputOK(in), WalksClosed(in), NEW at, Labelling(in, at),
         NEW s \in Stops, NEW t \in Stops, Foot(in, s, t)
  PROVE  Promise!OnFoot(in, at)[t] <= Promise!OnFoot(in, at)[s] + in.foot[<<s, t>>]
  <1> DEFINE v == Promise!OnFoot(in, at)[s]
             w == Promise!OnFoot(in, at)[t]
             d == in.foot[<<s, t>>]
  <1> SUFFICES w <= v + d
    OBVIOUS
  <1>1. d \in Nat /\ at[s] \in Int /\ at[t] \in Int /\ at[t] <= Infinity
    BY ConstantsAssumption DEF InputOK, Labelling
  <1>2. /\ v \in Int /\ w \in Int
        /\ v = at[s] \/ WalkTo(in, at, s, v)
        /\ w <= at[t]
        /\ \A x : WalkTo(in, at, t, x) => w <= x
    BY OnFootMeaning
  <1> HIDE DEF v, w, d
  <1>3. CASE v = at[s]
    <2>1. CASE at[s] < Infinity
      <3>1. WalkTo(in, at, t, at[s] + d)
        BY <2>1 DEF WalkTo, d
      <3> QED
        BY <1>2, <1>3, <3>1
    <2>2. CASE ~(at[s] < Infinity)
      BY <1>1, <1>2, <1>3, <2>2, ConstantsAssumption
    <2> QED
      BY <2>1, <2>2
  <1>4. CASE WalkTo(in, at, s, v)
    <2>1. PICK u \in Stops : Foot(in, u, s) /\ at[u] < Infinity /\ v = at[u] + in.foot[<<u, s>>]
      BY <1>4 DEF WalkTo
    <2>2. in.foot[<<u, s>>] \in Nat /\ at[u] \in Int
      BY <2>1 DEF InputOK, Labelling
    <2>3. CASE u = t
      BY <1>1, <1>2, <2>1, <2>2, <2>3
    <2>4. CASE u # t
      <3>1. Foot(in, u, t) /\ in.foot[<<u, t>>] <= in.foot[<<u, s>>] + d
        BY <2>1, <2>4 DEF WalksClosed, d
      <3>2. WalkTo(in, at, t, at[u] + in.foot[<<u, t>>])
        BY <2>1, <3>1 DEF WalkTo
      <3>3. in.foot[<<u, t>>] \in Nat
        BY <3>1 DEF InputOK
      <3>4. w <= at[u] + in.foot[<<u, t>>]
        BY <1>2, <3>2
      <3> QED
        BY <1>1, <1>2, <2>1, <2>2, <3>1, <3>3, <3>4
    <2> QED
      BY <2>3, <2>4
  <1> QED
    BY <1>2, <1>3, <1>4

(***************************************************************************)
(* A round that leaves no ride and no walk untaken, but for target         *)
(* pruning, takes labels that were complete to the recurrence's next ones. *)
(***************************************************************************)
NoLater(at, promised, best) == \A s \in Stops : at[s] <= promised[s] \/ best <= promised[s]

NoWalkLeft(in, times, best) ==
  \A s, t \in Stops : Foot(in, s, t) =>
    times[t] <= times[s] + in.foot[<<s, t>>] \/ best <= times[s] + in.foot[<<s, t>>]

LEMMA RoundCompletes ==
  ASSUME NEW in, InputOK(in),
         NEW ready, Labelling(in, ready), NEW times, Labelling(in, times),
         NEW at, Labelling(in, at), NEW best \in Int, best <= Infinity,
         \A s \in Stops : times[s] <= ready[s],
         NoLater(ready, at, best),
         \A pi \in DOMAIN in.patterns : \A i \in DOMAIN in.patterns[pi].stops :
           Exhausted(in.patterns[pi], i, ready, times, best),
         NoWalkLeft(in, times, best)
  PROVE  NoLater(times, Onward(in, at), best)
  <1> DEFINE rides == Promise!ByRide(in, at)
             next == Promise!OnFoot(in, rides)
             onward == Onward(in, at)
  <1>1. Labelling(in, rides) /\ Labelling(in, next) /\ in.depTime \in Int /\ Infinity \in Int
    BY ByRideLabels, OnFootLabels, ConstantsAssumption DEF InputOK
  <1>2. \A s \in Stops : onward[s] \in {at[s], next[s]}
    BY OnwardMeaning
  <1>3. \A s \in Stops : /\ times[s] \in Int /\ times[s] <= Infinity
                         /\ ready[s] \in Int /\ at[s] \in Int /\ at[s] <= Infinity
                         /\ rides[s] \in Int
    BY <1>1 DEF Labelling
  <1>4. ASSUME NEW t \in Stops
        PROVE  times[t] <= rides[t] \/ best <= rides[t]
    <2>1. CASE rides[t] = Infinity
      BY <1>3, <2>1
    <2>2. CASE rides[t] # Infinity
      <3>1. PICK pi \in DOMAIN in.patterns : \E i, j, r :
              /\ RideTo(in.patterns[pi], i, j, r, at, t)
              /\ rides[t] = Arrival(in.patterns[pi], r, j)
        BY <2>2, ByRideMeaning
      <3> DEFINE p == in.patterns[pi]
      <3>2. PICK i, j, r : RideTo(p, i, j, r, at, t) /\ rides[t] = Arrival(p, r, j)
        BY <3>1
      <3> DEFINE u == p.stops[i]
      <3>3. /\ PatternOK(p) /\ i \in DOMAIN p.stops /\ j \in DOMAIN p.stops /\ i < j
            /\ p.stops[j] = t /\ at[u] < Infinity /\ r \in Catchable(p, i, at[u]) /\ r \in Runs(p)
        BY <3>2 DEF RideTo, InputOK, Catchable
      <3>4. u \in Stops
        BY <3>3, PatternShape
      <3>5. Exhausted(p, i, ready, times, best)
        BY <3>3
      <3>6. ready[u] <= at[u] \/ best <= at[u]
        BY <3>4 DEF NoLater
      <3>7. rides[t] = Arrival(p, r, j)
        BY <3>2
      <3> HIDE DEF p, u, rides
      <3>8. /\ Departure(p, r, i) \in Int /\ Arrival(p, r, j) \in Int
            /\ Departure(p, r, i) <= Arrival(p, r, j) /\ Departure(p, r, i) >= at[u]
        BY <3>3, RunsType, RideForward DEF Catchable
      <3>9. CASE best <= at[u]
        BY <1>3, <3>4, <3>7, <3>8, <3>9
      <3>10. CASE ready[u] <= at[u]
        <4>1. ready[u] < Infinity
          BY <1>1, <1>3, <3>3, <3>4, <3>10
        <4>2. r \in Catchable(p, i, ready[u])
          BY <1>3, <3>3, <3>4, <3>8, <3>10 DEF Catchable
        <4>3. NoGain(p, r, j, times, best)
          BY <3>3, <3>5, <4>1, <4>2 DEF Exhausted, u
        <4> QED
          BY <3>3, <3>7, <4>3 DEF NoGain
      <3> QED
        BY <3>6, <3>9, <3>10
    <2> QED
      BY <2>1, <2>2
  <1> HIDE DEF rides
  <1>5. ASSUME NEW t \in Stops
        PROVE  times[t] <= next[t] \/ best <= next[t]
    <2>1. CASE next[t] = rides[t]
      BY <1>4, <2>1
    <2>2. CASE WalkTo(in, rides, t, next[t])
      <3>1. PICK s \in Stops : /\ Foot(in, s, t) /\ rides[s] < Infinity
                               /\ next[t] = rides[s] + in.foot[<<s, t>>]
        BY <2>2 DEF WalkTo
      <3>2. in.foot[<<s, t>>] \in Nat
        BY <3>1 DEF InputOK
      <3>3. times[s] <= rides[s] \/ best <= rides[s]
        BY <1>4
      <3>4. \/ times[t] <= times[s] + in.foot[<<s, t>>]
            \/ best <= times[s] + in.foot[<<s, t>>]
        BY <3>1 DEF NoWalkLeft
      <3> HIDE DEF next
      <3> QED
        BY <1>3, <3>1, <3>2, <3>3, <3>4
    <2> QED
      BY <1>1, <2>1, <2>2, OnFootMeaning
  <1>6. ASSUME NEW s \in Stops
        PROVE  times[s] <= at[s] \/ best <= at[s]
    <2>1. ready[s] <= at[s] \/ best <= at[s]
      BY DEF NoLater
    <2> QED
      BY <1>3, <2>1
  <1> HIDE DEF next, onward
  <1>7. \A s \in Stops : times[s] <= onward[s] \/ best <= onward[s]
    BY <1>2, <1>5, <1>6
  <1> QED
    BY <1>7 DEF NoLater, onward

-----------------------------------------------------------------------------
(***************************************************************************)
(* What a scan exhausts, of any pattern, labels and position.              *)
(***************************************************************************)
LEMMA ExhaustedStays ==
  ASSUME NEW p, PatternOK(p), NEW i \in DOMAIN p.stops, NEW ready, NEW other,
         NEW times \in [Stops -> Int], NEW later \in [Stops -> Int],
         NEW best \in Int, NEW least \in Int, least <= best,
         \A s \in Stops : later[s] <= times[s],
         other[p.stops[i]] = ready[p.stops[i]],
         Exhausted(p, i, ready, times, best)
  PROVE  Exhausted(p, i, other, later, least)
  <1> SUFFICES ASSUME ready[p.stops[i]] < Infinity,
                      NEW r \in Catchable(p, i, ready[p.stops[i]]),
                      NEW j \in DOMAIN p.stops, i < j
               PROVE  NoGain(p, r, j, later, least)
    BY DEF Exhausted
  <1>1. NoGain(p, r, j, times, best) /\ r \in Runs(p)
    BY DEF Exhausted, Catchable
  <1> QED
    BY <1>1, NoGainStays

LEMMA ExhaustedIsUnderway ==
  ASSUME NEW p, NEW i, NEW ready, NEW times, NEW best, NEW q, NEW pos,
         Exhausted(p, i, ready, times, best)
  PROVE  Underway(p, i, ready, times, best, q, pos)
  BY DEF Exhausted, Underway

LEMMA UnderwayIsExhausted ==
  ASSUME NEW p, PatternOK(p), NEW i, NEW ready, NEW times, NEW best, NEW q,
         Underway(p, i, ready, times, best, q, Len(p.stops) + 1)
  PROVE  Exhausted(p, i, ready, times, best)
  <1>1. \A j \in DOMAIN p.stops : ~(j >= Len(p.stops) + 1)
    BY PatternShape
  <1> QED
    BY <1>1 DEF Underway, Exhausted

(* A rider who changes to an earlier run is not overtaken. *)
LEMMA ScanKeepsUnderway ==
  ASSUME NEW p, PatternOK(p), NoOvertaking(p),
         NEW pos \in DOMAIN p.stops, NEW i \in 1..(pos - 1), NEW ready,
         NEW times \in [Stops -> Int], NEW later \in [Stops -> Int],
         NEW best \in Int, NEW least \in Int, least <= best,
         \A s \in Stops : later[s] <= times[s],
         NEW q, q.trip # NoTrip => q \in Runs(p) /\ NoGain(p, q, pos, later, least),
         NEW n,
         \/ n = q
         \/ /\ n \in Runs(p)
            /\ q.trip # NoTrip => Departure(p, n, pos) < Departure(p, q, pos),
         Underway(p, i, ready, times, best, q, pos)
  PROVE  Underway(p, i, ready, later, least, n, pos + 1)
  <1> SUFFICES ASSUME ready[p.stops[i]] < Infinity,
                      NEW r \in Catchable(p, i, ready[p.stops[i]]),
                      NEW j \in DOMAIN p.stops, i < j
               PROVE  \/ NoGain(p, r, j, later, least)
                      \/ j >= pos + 1 /\ n.trip # NoTrip /\ Ahead(p, n, r, pos + 1)
    BY DEF Underway
  <1>1. /\ DOMAIN p.stops = 1..Len(p.stops) /\ Len(p.stops) \in Nat
        /\ p.stops[j] \in Stops /\ r \in Runs(p)
    BY PatternShape DEF Catchable
  <1>2. CASE NoGain(p, r, j, times, best)
    BY <1>1, <1>2, NoGainStays
  <1>3. CASE j >= pos /\ q.trip # NoTrip /\ Ahead(p, q, r, pos)
    <2>1. q \in Runs(p) /\ NoGain(p, q, pos, later, least)
      BY <1>3
    <2>2. \A m \in DOMAIN p.stops : Arrival(p, q, m) \in Int /\ Arrival(p, r, m) \in Int
      BY <1>1, <2>1, RunsType
    <2>3. CASE j = pos
      <3>1. Arrival(p, q, pos) <= Arrival(p, r, pos)
        BY <1>1, <1>3 DEF Ahead
      <3> QED
        BY <1>1, <2>1, <2>2, <2>3, <3>1 DEF NoGain
    <2>4. CASE j # pos
      <3>1. j >= pos + 1
        BY <1>1, <1>3, <2>4
      <3>2. CASE n = q
        BY <1>1, <1>3, <3>1, <3>2 DEF Ahead
      <3>3. CASE n # q
        <4>1. n \in Runs(p) /\ Departure(p, n, pos) < Departure(p, q, pos)
          BY <1>3, <3>3
        <4>2. n.trip # NoTrip /\ \A m \in DOMAIN p.stops : Arrival(p, n, m) \in Int
          BY <4>1, RunsType
        <4>3. \A m \in DOMAIN p.stops : m >= pos + 1 => Arrival(p, n, m) <= Arrival(p, q, m)
          BY <1>1, <2>1, <4>1 DEF NoOvertaking
        <4>4. \A m \in DOMAIN p.stops : m >= pos + 1 => Arrival(p, q, m) <= Arrival(p, r, m)
          BY <1>1, <1>3 DEF Ahead
        <4>5. Ahead(p, n, r, pos + 1)
          BY <2>2, <4>2, <4>3, <4>4 DEF Ahead
        <4> QED
          BY <3>1, <4>2, <4>5
      <3> QED
        BY <3>2, <3>3
    <2> QED
      BY <2>3, <2>4
  <1> QED
    BY <1>2, <1>3 DEF Underway

LEMMA EarlierIsAhead ==
  ASSUME NEW p, PatternOK(p), NoOvertaking(p), NoTiedMerge(p), NEW pos \in DOMAIN p.stops,
         NEW q \in Runs(p), NEW r \in Runs(p), Departure(p, q, pos) <= Departure(p, r, pos)
  PROVE  Ahead(p, q, r, pos + 1)
  <1> SUFFICES ASSUME NEW m \in DOMAIN p.stops, m >= pos + 1
               PROVE  Arrival(p, q, m) <= Arrival(p, r, m)
    BY DEF Ahead
  <1>1. /\ pos < m
        /\ Departure(p, q, pos) \in Int /\ Departure(p, r, pos) \in Int
        /\ Arrival(p, q, m) \in Int /\ Arrival(p, r, m) \in Int
    BY PatternShape, RunsType
  <1>2. CASE Departure(p, q, pos) < Departure(p, r, pos)
    BY <1>1, <1>2 DEF NoOvertaking
  <1>3. CASE Departure(p, q, pos) = Departure(p, r, pos)
    <2>1. Arrival(p, q, m) = Arrival(p, r, m)
      BY <1>1, <1>3 DEF NoTiedMerge
    <2> QED
      BY <1>1, <2>1
  <1> QED
    BY <1>1, <1>2, <1>3

(* The seat the scan goes on in is as good as any a rider could take here. *)
LEMMA ScanExhaustsHere ==
  ASSUME NEW p, PatternOK(p), NoOvertaking(p), NoTiedMerge(p),
         NEW pos \in DOMAIN p.stops, NEW ready \in [Stops -> Int],
         NEW later, NEW least \in Int, least <= Infinity,
         NEW q, q.trip # NoTrip => q \in Runs(p),
         NEW n,
         \/ /\ n = q
            /\ \A r \in Runs(p) : EarliestTrip(p, pos, ready[p.stops[pos]], r) =>
                 q.trip # NoTrip /\ ~(Departure(p, r, pos) < Departure(p, q, pos))
         \/ n \in Runs(p) /\ EarliestTrip(p, pos, ready[p.stops[pos]], n)
  PROVE  Underway(p, pos, ready, later, least, n, pos + 1)
  <1> SUFFICES ASSUME NEW r \in Catchable(p, pos, ready[p.stops[pos]]),
                      NEW j \in DOMAIN p.stops, pos < j
               PROVE  \/ NoGain(p, r, j, later, least)
                      \/ j >= pos + 1 /\ n.trip # NoTrip /\ Ahead(p, n, r, pos + 1)
    BY DEF Underway
  <1>1. /\ p.stops[pos] \in Stops /\ ready[p.stops[pos]] \in Int /\ r \in Runs(p)
        /\ Infinity \in Int /\ j >= pos + 1
    <2>1. DOMAIN p.stops = 1..Len(p.stops) /\ Len(p.stops) \in Nat /\ p.stops[pos] \in Stops
      BY PatternShape
    <2>2. r \in Runs(p)
      BY DEF Catchable
    <2>3. ready[p.stops[pos]] \in Int
      BY <2>1
    <2>4. j >= pos + 1
      BY <2>1
    <2>5. Infinity \in Int
      BY ConstantsAssumption
    <2> QED
      BY <2>1, <2>2, <2>3, <2>4, <2>5
  <1>2. /\ Departure(p, r, pos) \in Int /\ Arrival(p, r, j) \in Int
        /\ Departure(p, r, pos) <= Arrival(p, r, j)
    BY <1>1, RunsType, RideForward
  <1>3. CASE ~(Departure(p, r, pos) < Infinity)
    BY <1>1, <1>2, <1>3 DEF NoGain
  <1>4. CASE Departure(p, r, pos) < Infinity
    <2>1. PICK e \in Runs(p) : /\ EarliestTrip(p, pos, ready[p.stops[pos]], e)
                               /\ Departure(p, e, pos) <= Departure(p, r, pos)
      BY <1>1, <1>4, EarliestExists
    <2>2. n \in Runs(p) /\ Departure(p, n, pos) <= Departure(p, e, pos)
      <3>1. CASE n = q /\ q.trip # NoTrip /\ ~(Departure(p, e, pos) < Departure(p, q, pos))
        <4>1. Departure(p, n, pos) \in Int /\ Departure(p, e, pos) \in Int
          BY <2>1, <3>1, RunsType
        <4> QED
          BY <3>1, <4>1
      <3>2. CASE n \in Runs(p) /\ EarliestTrip(p, pos, ready[p.stops[pos]], n)
        <4>1. Departure(p, n, pos) \in Int /\ Departure(p, e, pos) \in Int
          BY <2>1, <3>2, RunsType
        <4>2. e \in Catchable(p, pos, ready[p.stops[pos]])
          BY <2>1 DEF EarliestTrip
        <4> QED
          BY <3>2, <4>1, <4>2 DEF EarliestTrip
      <3> QED
        BY <2>1, <3>1, <3>2
    <2>3. /\ Departure(p, n, pos) \in Int /\ Departure(p, e, pos) \in Int /\ n.trip # NoTrip
      BY <2>1, <2>2, RunsType
    <2>4. Departure(p, n, pos) <= Departure(p, r, pos)
      BY <1>2, <2>1, <2>2, <2>3
    <2> QED
      BY <1>1, <2>2, <2>3, <2>4, EarlierIsAhead
  <1> QED
    BY <1>3, <1>4

-----------------------------------------------------------------------------
(***************************************************************************)
(* A call keeps to the promise.  First what every step starts from.        *)
(***************************************************************************)
LEMMA LabelFacts ==
  ASSUME IInv
  PROVE  /\ TypeInv /\ InputOK(input) /\ input.target \in Stops /\ input.source \in Stops
         /\ input.depTime \in Int /\ Infinity \in Int /\ k \in 0..MaxRounds /\ k \in Nat
         /\ Labelling(input, tau) /\ Labelling(input, tauPrev)
         /\ tau \in [Stops -> Int] /\ tauPrev \in [Stops -> Int]
         /\ \A s \in Stops : /\ tau[s] \in Int /\ tauPrev[s] \in Int
                             /\ tau[s] <= Infinity /\ tauPrev[s] <= Infinity
         /\ bestTargetArrival \in Int
         /\ InRound => k - 1 \in 0..MaxRounds /\ k \in 1..MaxRounds
         /\ \A n \in 0..MaxRounds : Labelling(input, Promised(n))
         /\ \A n \in 0..MaxRounds : \A s \in Stops : Promised(n)[s] \in Int
  <1>1. /\ TypeInv /\ InputOK(input) /\ input.target \in Stops /\ input.source \in Stops
        /\ input.depTime \in Int /\ Infinity \in Int /\ k \in 0..MaxRounds /\ k \in Nat
        /\ tau \in [Stops -> Int] /\ tauPrev \in [Stops -> Int] /\ bestTargetArrival \in Int
    <2>1. /\ TypeInv /\ InputOK(input) /\ input.target \in Stops /\ input.source \in Stops
          /\ input.depTime \in Int /\ Infinity \in Int /\ k \in 0..MaxRounds /\ k \in Nat
      BY Numbers DEF IInv
    <2>2. tau \in [Stops -> Int] /\ tauPrev \in [Stops -> Int] /\ bestTargetArrival \in Int
      BY <2>1 DEF TypeInv, TypeOK
    <2> QED
      BY <2>1, <2>2
  <1>2. Labelling(input, tau) /\ Labelling(input, tauPrev)
    BY <1>1 DEF IInv, LabelsInv, Labelling
  <1>3. \A s \in Stops : /\ tau[s] \in Int /\ tauPrev[s] \in Int
                         /\ tau[s] <= Infinity /\ tauPrev[s] <= Infinity
    BY <1>1, <1>2 DEF Labelling
  <1>4. \A n \in 0..MaxRounds : Labelling(input, Promised(n))
    BY <1>1, PromisedLabels DEF Promised
  <1>5. \A n \in 0..MaxRounds : \A s \in Stops : Promised(n)[s] \in Int
    BY <1>4 DEF Labelling
  <1>6. InRound => k - 1 \in 0..MaxRounds /\ k \in 1..MaxRounds
    BY <1>1, ConstantsAssumption DEF InRound, MidRound, TypeInv, RoundsInv
  <1> QED
    BY <1>1, <1>2, <1>3, <1>4, <1>5, <1>6

LEMMA ImprovementKeepsExhausted ==
  ASSUME TypeInv, TypeInv', Improvement, Climbs, input' = input, tauPrev' = tauPrev,
         NEW pi \in DOMAIN input.patterns, NEW i \in DOMAIN input.patterns[pi].stops,
         ExhaustedAt(pi, i)
  PROVE  ExhaustedAt(pi, i)'
  <1> DEFINE p == input.patterns[pi]
  <1>1. /\ PatternOK(p) /\ tau \in [Stops -> Int] /\ tau' \in [Stops -> Int]
        /\ bestTargetArrival \in Int /\ bestTargetArrival' \in Int
        /\ bestTargetArrival' <= bestTargetArrival
    BY PatternFacts DEF TypeInv, TypeOK, Climbs
  <1>2. \A s \in Stops : tau'[s] <= tau[s]
    BY <1>1 DEF Improvement
  <1>3. Exhausted(p, i, tauPrev, tau, bestTargetArrival)
    BY DEF ExhaustedAt
  <1> HIDE DEF p
  <1>4. i \in DOMAIN p.stops
    BY DEF p
  <1>5. Exhausted(p, i, tauPrev, tau', bestTargetArrival')
    BY <1>1, <1>2, <1>3, <1>4, ExhaustedStays
  <1> QED
    BY <1>5 DEF ExhaustedAt, p

LEMMA ImprovementKeepsRested ==
  ASSUME IInv, IInv', Improvement, bestTargetArrival' <= bestTargetArrival, input' = input,
         NEW s \in Stops, tau'[s] = tau[s], Rested(s)
  PROVE  Rested(s)'
  <1> SUFFICES ASSUME NEW t \in WalkFrom(s)
               PROVE  \/ tau'[t] <= tau'[s] + input.foot[<<s, t>>]
                      \/ bestTargetArrival' <= tau'[s] + input.foot[<<s, t>>]
    BY DEF Rested, WalkFrom, WalkArr
  <1>1. t \in Stops /\ input.foot[<<s, t>>] \in Nat
    BY LabelFacts, WalkFacts
  <1>2. tau[t] <= tau[s] + input.foot[<<s, t>>] \/ bestTargetArrival <= tau[s] + input.foot[<<s, t>>]
    BY DEF Rested, WalkArr
  <1>3. /\ tau[s] \in Int /\ tau[t] \in Int /\ tau'[t] \in Int /\ tau'[t] <= tau[t]
        /\ bestTargetArrival \in Int /\ bestTargetArrival' \in Int
        /\ bestTargetArrival' <= bestTargetArrival
    <2>1. bestTargetArrival \in Int /\ bestTargetArrival' \in Int
      BY DEF IInv, TypeInv, TypeOK
    <2>2. tau \in [Stops -> Int] /\ tau' \in [Stops -> Int]
      BY DEF IInv, TypeInv, TypeOK
    <2>3. tau'[t] <= tau[t]
      BY <1>1, <2>2 DEF Improvement
    <2> QED
      BY <1>1, <2>1, <2>2, <2>3
  <1> QED
    BY <1>1, <1>2, <1>3

LEMMA ImprovementKeepsComplete ==
  ASSUME IInv, IInv', Climbs, CompleteInv, MidRound, MidRound',
         k' = k, input' = input, tauPrev' = tauPrev
  PROVE  CompleteInv'
  <1>1. /\ bestTargetArrival \in Int /\ bestTargetArrival' \in Int
        /\ bestTargetArrival' <= bestTargetArrival
    BY DEF IInv, TypeInv, TypeOK, Climbs
  <1>2. k - 1 \in 0..MaxRounds
    BY LabelFacts DEF InRound
  <1>3. ASSUME NEW s \in Stops
        PROVE  tauPrev[s] <= Promised(k - 1)[s] \/ bestTargetArrival' <= Promised(k - 1)[s]
    <2>1. tauPrev[s] <= Promised(k - 1)[s] \/ bestTargetArrival <= Promised(k - 1)[s]
      BY DEF CompleteInv
    <2>2. Promised(k - 1)[s] \in Int
      BY <1>2, LabelFacts
    <2> QED
      BY <1>1, <2>1, <2>2
  <1>4. Promised(k - 1)' = Promised(k - 1)
    BY DEF Promised
  <1> QED
    BY <1>3, <1>4 DEF CompleteInv, MidRound

(* The target's label and what a round knows of it. *)
LEMMA ImprovementKeepsExact ==
  ASSUME IInv, IInv', Improvement, MarkedInv, ExactInv, MidRound, MidRound',
         k' = k, input' = input, tauPrev' = tauPrev,
         bestTargetArrival' \in {tau'[input.target], Infinity}
  PROVE  ExactInv'
  <1>1. /\ input.target \in Stops
        /\ tau[input.target] \in Int /\ tau'[input.target] \in Int /\ tauPrev[input.target] \in Int
        /\ tau[input.target] <= tauPrev[input.target]
    <2>1. input.target \in Stops /\ tau[input.target] \in Int /\ tauPrev[input.target] \in Int
      BY LabelFacts
    <2>2. tau'[input.target] \in Int
      BY <2>1 DEF Improvement
    <2> QED
      BY <2>1, <2>2 DEF MarkedInv, InRound
  <1>2. improvedTarget <=> tau[input.target] < tauPrev[input.target]
    BY DEF ExactInv
  <1>3. improvedTarget' <=> improvedTarget \/ tau'[input.target] < tau[input.target]
    BY DEF Improvement
  <1>4. tau'[input.target] = tau[input.target] \/ tau'[input.target] < tau[input.target]
    BY <1>1 DEF Improvement
  <1>5. improvedTarget' <=> tau'[input.target] < tauPrev[input.target]
    BY <1>1, <1>2, <1>3, <1>4
  <1>6. tauPrev[input.target] = Promised(k - 1)[input.target]
    BY DEF ExactInv, InRound
  <1>7. Promised(k - 1)' = Promised(k - 1)
    BY DEF Promised
  <1>8. pc' # "reconstruct"
    BY DEF MidRound
  <1> QED
    BY <1>5, <1>6, <1>7, <1>8 DEF ExactInv, InRound

(***************************************************************************)
(* The scan.                                                               *)
(***************************************************************************)
LEMMA AlightFacts ==
  ASSUME IInv, ExactInv, pc = "scan", Alight(Scanned), Improvement
  PROVE  /\ bestTargetArrival' \in {tau'[input.target], Infinity}
         /\ \A s \in Stops : tau'[s] # tau[s] =>
              /\ Riding /\ s = Scanned.stops[scan.pos]
              /\ tau'[s] = Arrival(Scanned, scan.run, scan.pos)
  <1> DEFINE leg == RideLeg(Scanned)
  <1>1. tau \in [Stops -> Int] /\ input.target \in Stops
    BY LabelFacts
  <1>2. Riding => /\ leg.to \in Stops /\ leg.to = Scanned.stops[scan.pos]
                  /\ leg.arr = Arrival(Scanned, scan.run, scan.pos)
    BY RideLegType DEF IInv, Leg
  <1>3. CASE ~(Riding /\ Improves(leg.arr, leg.to, bestTargetArrival))
    <2>1. UNCHANGED labels
      BY <1>3 DEF Alight
    <2> QED
      BY <1>1, <2>1 DEF labels, ExactInv
  <1>4. CASE Riding /\ Improves(leg.arr, leg.to, bestTargetArrival)
    <2>1. /\ tau' = [tau EXCEPT ![leg.to] = leg.arr]
          /\ bestTargetArrival' = IF leg.to = input.target THEN leg.arr ELSE bestTargetArrival
      BY <1>4 DEF Alight
    <2> HIDE DEF leg
    <2>2. tau'[leg.to] = leg.arr /\ \A s \in Stops : s # leg.to => tau'[s] = tau[s]
      BY <1>1, <1>2, <1>4, <2>1
    <2>3. bestTargetArrival' \in {tau'[input.target], Infinity}
      BY <1>1, <2>1, <2>2 DEF ExactInv
    <2> QED
      BY <1>2, <1>4, <2>2, <2>3
  <1> QED
    BY <1>3, <1>4

LEMMA ScanStopStarts ==
  ASSUME IInv, IInv', InOrder(input), Faithful, ScanStop
  PROVE  /\ UNCHANGED <<input, k, queue, todo, tauPrev, trace, journeys>>
         /\ pc = "scan" /\ MidRound /\ MidRound' /\ InRound /\ pc' \in {"scan", "pick"}
         /\ TypeInv /\ TypeInv' /\ Improvement /\ Climbs /\ Alight(Scanned)
         /\ scan.pattern \in DOMAIN input.patterns
         /\ PatternOK(Scanned) /\ NoTiedMerge(Scanned) /\ NoOvertaking(Scanned)
         /\ scan.pos \in DOMAIN Scanned.stops
         /\ DOMAIN Scanned.stops = 1..Len(Scanned.stops) /\ Len(Scanned.stops) \in Nat
         /\ \A i \in DOMAIN Scanned.stops : Scanned.stops[i] \in Stops
         /\ tau \in [Stops -> Int] /\ tau' \in [Stops -> Int] /\ tauPrev \in [Stops -> Int]
         /\ bestTargetArrival \in Int /\ bestTargetArrival' \in Int
         /\ bestTargetArrival' <= bestTargetArrival /\ bestTargetArrival' <= Infinity
         /\ \A s \in Stops : tau'[s] <= tau[s]
         /\ \A s \in Stops : s \in marked' <=> s \in marked \/ tau'[s] < tau[s]
         /\ Riding =>
              /\ scan.run \in Runs(Scanned)
              /\ NoGain(Scanned, scan.run, scan.pos, tau', bestTargetArrival')
              /\ \A t : t = Scanned.stops[scan.pos] =>
                   RideTo(Scanned, scan.boardPos, scan.pos, scan.run, tauPrev, t)
  <1>1. /\ UNCHANGED <<input, k, queue, todo, tauPrev, trace, journeys>>
        /\ pc = "scan" /\ MidRound /\ MidRound' /\ InRound /\ pc' \in {"scan", "pick"}
        /\ TypeInv /\ TypeInv' /\ Alight(Scanned)
    BY ScanStopMoves DEF IInv, ScanStop, MidRound, InRound
  <1>2. Improvement
    BY <1>1, AlightImproves
  <1>3. /\ scan.pattern \in DOMAIN input.patterns
        /\ PatternOK(Scanned) /\ NoTiedMerge(Scanned) /\ NoOvertaking(Scanned)
        /\ scan.pos \in DOMAIN Scanned.stops
        /\ DOMAIN Scanned.stops = 1..Len(Scanned.stops) /\ Len(Scanned.stops) \in Nat
        /\ \A i \in DOMAIN Scanned.stops : Scanned.stops[i] \in Stops
    BY <1>1, PatternFacts DEF TypeInv, TypeOK, RoundsInv, Scanned, InOrder
  <1>4. ASSUME Riding
        PROVE  /\ scan.run \in Runs(Scanned)
               /\ RideTo(Scanned, scan.boardPos, scan.pos, scan.run, tauPrev,
                         Scanned.stops[scan.pos])
               /\ scan.boardPos \in DOMAIN Scanned.stops
    <2>1. scan.run \in Runs(Scanned) /\ scan.boardPos \in 1..(scan.pos - 1)
      BY <1>1, <1>4 DEF TypeInv, RoundsInv
    <2>2. scan.boardPos \in DOMAIN Scanned.stops /\ scan.boardPos < scan.pos
      BY <1>3, <2>1
    <2>3. /\ tauPrev[Scanned.stops[scan.boardPos]] < Infinity
          /\ scan.run \in Catchable(Scanned, scan.boardPos, tauPrev[Scanned.stops[scan.boardPos]])
      BY <1>1, <1>4 DEF Faithful, SeatInv
    <2> QED
      BY <1>3, <2>1, <2>2, <2>3 DEF RideTo
  <1>5. ASSUME Riding, ~Fresh(input.source, parents, k - 1, Scanned.stops[scan.boardPos])
        PROVE  NoGain(Scanned, scan.run, scan.pos, tau, bestTargetArrival)
    <2>1. RideTo(Scanned, scan.boardPos, scan.pos, scan.run, tauPrev, Scanned.stops[scan.pos])
      BY <1>4, <1>5
    <2>2. ExhaustedAt(scan.pattern, scan.boardPos)
      BY <1>1, <1>3, <1>4, <1>5 DEF Faithful, BoardingInv, Scanned
    <2> QED
      BY <2>1, <2>2 DEF ExhaustedAt, Exhausted, RideTo, Scanned
  <1>6. Climbs /\ (Riding => NoGain(Scanned, scan.run, scan.pos, tau', bestTargetArrival'))
    BY <1>1, <1>2, <1>5, AlightClimbs
  <1>7. /\ tau \in [Stops -> Int] /\ tau' \in [Stops -> Int] /\ tauPrev \in [Stops -> Int]
        /\ bestTargetArrival \in Int /\ bestTargetArrival' \in Int
    BY <1>1 DEF TypeInv, TypeOK
  <1>8. \A s \in Stops : tau'[s] <= tau[s]
    BY <1>2, <1>7 DEF Improvement
  <1>9. bestTargetArrival <= Infinity
    BY LabelFacts DEF Faithful, ExactInv
  <1>10. bestTargetArrival' <= bestTargetArrival /\ bestTargetArrival' <= Infinity
    BY <1>6, <1>7, <1>9, LabelFacts DEF Climbs
  <1>11. \A s \in Stops : s \in marked' <=> s \in marked \/ tau'[s] < tau[s]
    BY <1>6 DEF Climbs
  <1> QED
    BY <1>1, <1>2, <1>3, <1>4, <1>6, <1>7, <1>8, <1>10, <1>11

LEMMA ScanStopUnderway ==
  ASSUME IInv, IInv', InOrder(input), Faithful, ScanStop, NEW n, GoesOnIn(n),
         NEW i \in 1..scan.pos
  PROVE  Underway(Scanned, i, tauPrev, tau', bestTargetArrival', n, scan.pos + 1)
  <1> DEFINE p == Scanned  q == scan.run  pos == scan.pos  best == bestTargetArrival
             least == bestTargetArrival'  later == tau'
  <1>1. /\ PatternOK(p) /\ NoTiedMerge(p) /\ NoOvertaking(p)
        /\ pos \in DOMAIN p.stops
        /\ DOMAIN p.stops = 1..Len(p.stops) /\ Len(p.stops) \in Nat
        /\ tau \in [Stops -> Int] /\ later \in [Stops -> Int] /\ tauPrev \in [Stops -> Int]
        /\ best \in Int /\ least \in Int /\ least <= best /\ least <= Infinity
        /\ \A s \in Stops : later[s] <= tau[s]
        /\ q.trip # NoTrip => q \in Runs(p) /\ NoGain(p, q, pos, later, least)
    BY ScanStopStarts DEF Riding
  <1>2. CASE i \in 1..(pos - 1)
    <2>1. Underway(p, i, tauPrev, tau, best, q, pos)
      BY <1>2, ScanStopStarts DEF Faithful, SeatInv
    <2>2. \/ n = q
          \/ /\ n \in Runs(p)
             /\ q.trip # NoTrip => Departure(p, n, pos) < Departure(p, q, pos)
      BY DEF GoesOnIn, BoardsHere, Riding
    <2> HIDE DEF p, q, pos, best, least, later
    <2>3. Underway(p, i, tauPrev, later, least, n, pos + 1)
      BY <1>1, <1>2, <2>1, <2>2, ScanKeepsUnderway
    <2> QED
      BY <2>3 DEF p, q, pos, best, least, later
  <1>3. CASE i = pos
    <2>1. \/ /\ n = q
             /\ \A r \in Runs(p) : EarliestTrip(p, pos, tauPrev[p.stops[pos]], r) =>
                  q.trip # NoTrip /\ ~(Departure(p, r, pos) < Departure(p, q, pos))
          \/ n \in Runs(p) /\ EarliestTrip(p, pos, tauPrev[p.stops[pos]], n)
      BY DEF GoesOnIn, StaysHere, BoardsHere, Riding
    <2> HIDE DEF p, q, pos, best, least, later
    <2>2. Underway(p, pos, tauPrev, later, least, n, pos + 1)
      BY <1>1, <2>1, ScanExhaustsHere
    <2> QED
      BY <1>3, <2>2 DEF p, q, pos, best, least, later
  <1>4. i \in 1..(pos - 1) \/ i = pos
    <2>1. pos \in Nat
      BY <1>1
    <2> QED
      BY <2>1
  <1> QED
    BY <1>2, <1>3, <1>4

LEMMA ScanStopSeat ==
  ASSUME IInv, IInv', InOrder(input), Faithful, ScanStop, NEW n, GoesOnIn(n)
  PROVE  SeatInv'
  <1> SUFFICES ASSUME pc' = "scan" PROVE SeatInv'
    BY DEF SeatInv
  <1>1. /\ scan'.pattern = scan.pattern /\ scan'.pos = scan.pos + 1 /\ scan'.run = n
        /\ Scanned' = Scanned /\ input' = input /\ tauPrev' = tauPrev /\ scan.pos \in Nat
    <2>1. scan'.run = n
      BY DEF GoesOnIn, StaysHere, BoardsHere
    <2>2. input' = input /\ tauPrev' = tauPrev /\ scan.pos \in Nat
      BY ScanStopStarts
    <2>3. scan'.pattern = scan.pattern /\ scan'.pos = scan.pos + 1
      BY ScanStopTurns DEF IInv
    <2> QED
      BY <2>1, <2>2, <2>3 DEF Scanned
  <1>2. ASSUME NEW i \in 1..(scan'.pos - 1)
        PROVE  Underway(Scanned, i, tauPrev, tau', bestTargetArrival', n, scan.pos + 1)
    <2>1. i \in 1..scan.pos
      BY <1>1
    <2> QED
      BY <2>1, ScanStopUnderway
  <1>3. ASSUME Riding'
        PROVE  LET ready == tauPrev[Scanned.stops[scan'.boardPos]]
               IN  ready < Infinity /\ n \in Catchable(Scanned, scan'.boardPos, ready)
    <2>1. CASE n = scan.run /\ StaysHere
      <3>1. scan'.boardPos = scan.boardPos /\ Riding
        BY <1>1, <1>3, <2>1 DEF StaysHere, Riding
      <3> QED
        BY <2>1, <3>1, ScanStopStarts DEF RideTo
    <2>2. CASE n \in Runs(Scanned) /\ BoardsHere(n)
      <3> DEFINE stop == Scanned.stops[scan.pos]
      <3>1. /\ scan'.boardPos = scan.pos /\ n \in Catchable(Scanned, scan.pos, tauPrev[stop])
            /\ Departure(Scanned, n, scan.pos) < Infinity
        BY <2>2 DEF BoardsHere, EarliestTrip
      <3>2. Departure(Scanned, n, scan.pos) \in Int /\ tauPrev[stop] \in Int /\ Infinity \in Int
        BY <2>2, ScanStopStarts, RunsType, LabelFacts
      <3>3. Departure(Scanned, n, scan.pos) >= tauPrev[stop]
        BY <3>1 DEF Catchable
      <3> HIDE DEF stop
      <3>4. tauPrev[stop] < Infinity
        BY <3>1, <3>2, <3>3
      <3> QED
        BY <3>1, <3>4 DEF stop
    <2> QED
      BY <2>1, <2>2 DEF GoesOnIn
  <1> QED
    BY <1>1, <1>2, <1>3 DEF SeatInv

LEMMA ScanStopBoarding ==
  ASSUME IInv, IInv', InOrder(input), Faithful, ScanStop, NEW n, GoesOnIn(n)
  PROVE  BoardingInv'
  <1>1. /\ input' = input /\ k' = k /\ tauPrev' = tauPrev /\ queue' = queue /\ pc = "scan"
        /\ TypeInv /\ TypeInv' /\ Improvement /\ Climbs /\ MidRound /\ MidRound'
        /\ pc' \in {"scan", "pick"}
    BY ScanStopStarts
  <1>2. ASSUME NEW pi \in DOMAIN input.patterns, NEW i \in DOMAIN input.patterns[pi].stops,
               ~Fresh(input.source, parents', k - 1, input.patterns[pi].stops[i])
        PROVE  ExhaustedAt(pi, i)'
    <2>1. input.patterns[pi].stops[i] \in Stops
      BY <1>1, PatternFacts DEF TypeInv, TypeOK
    <2>2. ~Fresh(input.source, parents, k - 1, input.patterns[pi].stops[i])
      BY <1>1, <1>2, <2>1, FreshBefore
    <2>3. ExhaustedAt(pi, i)
      BY <1>1, <2>2 DEF Faithful, BoardingInv
    <2> QED
      BY <1>1, <2>3, ImprovementKeepsExhausted
  <1>3. ASSUME NEW pi \in DOMAIN input.patterns, ScannedThrough(pi)',
               NEW i \in DOMAIN input.patterns[pi].stops
        PROVE  ExhaustedAt(pi, i)'
    <2>1. /\ \A e \in queue : e[1] # pi
          /\ pc' = "scan" => pi # scan'.pattern
      BY <1>1, <1>3 DEF ScannedThrough
    <2>2. CASE pi # scan.pattern
      <3>1. ScannedThrough(pi)
        BY <1>1, <2>1, <2>2 DEF ScannedThrough
      <3>2. ExhaustedAt(pi, i)
        BY <1>1, <3>1 DEF Faithful, BoardingInv
      <3> QED
        BY <1>1, <3>2, ImprovementKeepsExhausted
    <2>3. CASE pi = scan.pattern
      <3>1. scan.pos = Len(Scanned.stops) /\ input.patterns[pi] = Scanned
        BY <1>1, <2>1, <2>3, ScanStopTurns DEF Scanned
      <3>2. PatternOK(Scanned) /\ DOMAIN Scanned.stops = 1..Len(Scanned.stops)
        BY ScanStopStarts
      <3>3. i \in 1..scan.pos
        BY <3>1, <3>2
      <3>4. Underway(Scanned, i, tauPrev, tau', bestTargetArrival', n, Len(Scanned.stops) + 1)
        BY <3>1, <3>3, ScanStopUnderway
      <3>5. Exhausted(Scanned, i, tauPrev, tau', bestTargetArrival')
        BY <3>2, <3>4, UnderwayIsExhausted
      <3> QED
        BY <1>1, <3>1, <3>5 DEF ExhaustedAt
    <2> QED
      BY <2>2, <2>3
  <1> QED
    BY <1>1, <1>2, <1>3 DEF BoardingInv

LEMMA ScanStopSound ==
  ASSUME IInv, IInv', InOrder(input), Faithful, ScanStop
  PROVE  SoundInv'
  <1> DEFINE at == Promised(k - 1)
             rides == Promise!ByRide(input, at)
  <1>1. /\ input' = input /\ k' = k /\ tauPrev' = tauPrev /\ pc = "scan" /\ MidRound /\ MidRound'
        /\ pc' \in {"scan", "pick"} /\ scan.pattern \in DOMAIN input.patterns
        /\ \A s \in Stops : s \in marked' <=> s \in marked \/ tau'[s] < tau[s]
        /\ \A s \in Stops : tau'[s] <= tau[s]
        /\ tau \in [Stops -> Int] /\ tau' \in [Stops -> Int]
    BY ScanStopStarts
  <1>2. /\ InputOK(input) /\ Labelling(input, at) /\ Labelling(input, tauPrev)
        /\ input.depTime \in Int /\ Infinity \in Int
    BY <1>1, LabelFacts DEF InRound
  <1>3. \A s \in Stops : at[s] <= tauPrev[s] /\ (s \in marked => rides[s] <= tau[s])
    BY <1>1 DEF Faithful, SoundInv
  <1>4. ASSUME NEW s \in Stops, s \in marked'
        PROVE  rides[s] <= tau'[s]
    <2>1. CASE tau'[s] = tau[s]
      <3>1. s \in marked
        BY <1>1, <1>4, <2>1
      <3> QED
        BY <1>3, <2>1, <3>1
    <2>2. CASE tau'[s] # tau[s]
      <3>1. /\ Riding /\ s = Scanned.stops[scan.pos]
            /\ tau'[s] = Arrival(Scanned, scan.run, scan.pos)
        BY <1>1, <2>2, AlightFacts, ScanStopStarts DEF Faithful
      <3>2. RideTo(input.patterns[scan.pattern], scan.boardPos, scan.pos, scan.run, tauPrev, s)
        BY <3>1, ScanStopStarts DEF Scanned
      <3>3. RideTo(input.patterns[scan.pattern], scan.boardPos, scan.pos, scan.run, at, s)
        BY <1>1, <1>2, <1>3, <3>2, ReadyEarlier
      <3>4. rides[s] <= Arrival(input.patterns[scan.pattern], scan.run, scan.pos)
        BY <1>1, <1>2, <3>3, ByRideMeaning
      <3> QED
        BY <3>1, <3>4 DEF Scanned
    <2> QED
      BY <2>1, <2>2
  <1>5. Promised(k - 1)' = at
    BY <1>1 DEF Promised
  <1> QED
    BY <1>1, <1>3, <1>4, <1>5 DEF SoundInv, MidRound

LEMMA ScanStopFaithful ==
  ASSUME IInv, IInv', InOrder(input), Faithful, ScanStop
  PROVE  Faithful'
  <1>1. PICK n : GoesOnIn(n)
    BY ScanStopTurns DEF GoesOnIn, IInv
  <1>2. SeatInv' /\ BoardingInv' /\ SoundInv'
    BY <1>1, ScanStopSeat, ScanStopBoarding, ScanStopSound
  <1>3. Rungs'
    BY ScanStopStarts, ScanStopRungs DEF Faithful
  <1>4. WalkingInv'
    <2> SUFFICES ASSUME NEW s \in Stops, s \notin marked' PROVE Rested(s)'
      BY ScanStopStarts DEF WalkingInv
    <2>1. s \notin marked /\ tau'[s] = tau[s]
      BY ScanStopStarts
    <2>2. Rested(s)
      BY <2>1, ScanStopStarts DEF Faithful, WalkingInv
    <2> QED
      BY <2>1, <2>2, ScanStopStarts, ImprovementKeepsRested
  <1>5. CompleteInv'
    BY ScanStopStarts, ImprovementKeepsComplete DEF Faithful
  <1>6. ExactInv'
    <2>1. bestTargetArrival' \in {tau'[input.target], Infinity}
      BY ScanStopStarts, AlightFacts DEF Faithful
    <2> QED
      BY <2>1, ScanStopStarts, ImprovementKeepsExact DEF Faithful, Rungs
  <1> QED
    BY <1>2, <1>3, <1>4, <1>5, <1>6 DEF Faithful

(***************************************************************************)
(* The footpath phase.  Whoever walks on from where a walk has just led    *)
(* gets there no earlier than by the direct walk, which is taken already.  *)
(***************************************************************************)
LEMMA RelaxedFrom ==
  ASSUME IInv, NEW u \in Stops, Relax(u), TypeInv', input' = input
  PROVE  /\ bestTargetArrival' = IF tau'[input.target] # tau[input.target]
                                 THEN tau'[input.target] ELSE bestTargetArrival
         /\ bestTargetArrival' <= bestTargetArrival
         /\ tau'[u] = tau[u]
         /\ \A t \in WalkFrom(u) :
              tau'[t] <= WalkArr(u, t) \/ bestTargetArrival' <= WalkArr(u, t)
         /\ \A t \in Stops : tau'[t] # tau[t] => Foot(input, u, t) /\ tau'[t] = WalkArr(u, t)
  <1>1. /\ TypeInv /\ input.target \in Stops /\ tau \in [Stops -> Int] /\ tau' \in [Stops -> Int]
        /\ bestTargetArrival \in Int /\ tauBest = tau /\ InputOK(input)
    BY LabelFacts DEF TypeInv, TypeOK, IInv, LabelsInv
  <1>2. \A t \in WalkFrom(u) : t \in Stops /\ t # u /\ WalkArr(u, t) \in Int
    <2> SUFFICES ASSUME NEW t \in WalkFrom(u)
                 PROVE  t \in Stops /\ t # u /\ WalkArr(u, t) \in Int
      OBVIOUS
    <2>1. t \in Stops /\ t # u /\ input.foot[<<u, t>>] \in Nat
      BY <1>1, WalkFacts
    <2>2. tau[u] \in Int
      BY <1>1
    <2> QED
      BY <2>1, <2>2 DEF WalkArr
  <1>3. \A t \in Stops : tau'[t] = IF t \in Walks(u) THEN WalkArr(u, t) ELSE tau[t]
    BY DEF Relax
  <1>4. bestTargetArrival' = IF ReachesTarget(u) THEN WalkArr(u, input.target)
                             ELSE bestTargetArrival
    BY DEF Relax
  <1>5. \A t \in Walks(u) : t \in WalkFrom(u)
    BY DEF Walks
  <1>6. ReachesTarget(u) => /\ input.target \in WalkFrom(u)
                            /\ WalkArr(u, input.target) < tau[input.target]
                            /\ WalkArr(u, input.target) < bestTargetArrival
    BY <1>1 DEF ReachesTarget, Improves
  <1>7. input.target \in Walks(u) <=> ReachesTarget(u)
    <2> DEFINE target == input.target
    <2>1. target \in Nat
      BY <1>1, ConstantsAssumption
    <2> HIDE DEF target
    <2>2. ~(target < target)
      BY <2>1
    <2> QED
      BY <2>2 DEF Walks, ReachesTarget, target
  <1>8. bestTargetArrival' = IF tau'[input.target] # tau[input.target]
                             THEN tau'[input.target] ELSE bestTargetArrival
    <2>1. CASE ReachesTarget(u)
      <3>1. tau'[input.target] = WalkArr(u, input.target)
        BY <1>1, <1>3, <1>7, <2>1
      <3>2. WalkArr(u, input.target) # tau[input.target]
        BY <1>1, <1>2, <1>6, <2>1
      <3> QED
        BY <1>4, <2>1, <3>1, <3>2
    <2>2. CASE ~ReachesTarget(u)
      BY <1>1, <1>3, <1>4, <1>7, <2>2
    <2> QED
      BY <2>1, <2>2
  <1>9. tau'[u] = tau[u]
    BY <1>2, <1>3, <1>5
  <1>10. bestTargetArrival' <= bestTargetArrival /\ bestTargetArrival' \in Int
    BY <1>1, <1>2, <1>4, <1>6
  <1>11. ASSUME NEW t \in WalkFrom(u)
         PROVE  tau'[t] <= WalkArr(u, t) \/ bestTargetArrival' <= WalkArr(u, t)
    <2>1. t \in Stops /\ WalkArr(u, t) \in Int /\ tau[t] \in Int
      BY <1>1, <1>2
    <2>2. CASE t \in Walks(u)
      BY <1>3, <2>1, <2>2
    <2>3. CASE t \notin Walks(u) /\ ReachesTarget(u) /\ input.target < t
      <3>1. ~Improves(WalkArr(u, t), t, WalkArr(u, input.target))
        BY <2>3 DEF Walks
      <3>2. WalkArr(u, input.target) \in Int
        BY <1>2, <1>6, <2>3
      <3> QED
        BY <1>1, <1>3, <1>4, <2>1, <2>3, <3>1, <3>2 DEF Improves
    <2>4. CASE t \notin Walks(u) /\ ~(ReachesTarget(u) /\ input.target < t)
      <3>1. ~Improves(WalkArr(u, t), t, bestTargetArrival)
        BY <2>4 DEF Walks
      <3> QED
        BY <1>1, <1>3, <1>10, <2>1, <2>4, <3>1 DEF Improves
    <2> QED
      BY <2>2, <2>3, <2>4
  <1>12. ASSUME NEW t \in Stops, tau'[t] # tau[t]
         PROVE  Foot(input, u, t) /\ tau'[t] = WalkArr(u, t)
    BY <1>3, <1>5, <1>12 DEF WalkFrom
  <1> QED
    BY <1>8, <1>9, <1>10, <1>11, <1>12

LEMMA WalkFromStopWalking ==
  ASSUME IInv, IInv', WalksClosed(input), WalkingInv, WalkFromStop
  PROVE  WalkingInv'
  <1>1. /\ UNCHANGED <<input, k>> /\ pc = "walk" /\ pc' = "walk" /\ TypeInv /\ TypeInv'
        /\ InputOK(input) /\ tau \in [Stops -> Int] /\ tau' \in [Stops -> Int]
        /\ bestTargetArrival' \in Int
    BY LabelFacts DEF IInv, WalkFromStop, TypeInv, TypeOK
  <1>2. PICK u \in todo : Relax(u) /\ todo' = todo \ {u}
    BY DEF WalkFromStop
  <1>3. u \in Stops
    BY <1>1 DEF TypeInv, TypeOK
  <1>4. Improvement
    BY <1>1, <1>2, <1>3, RelaxImproves
  <1>5. /\ bestTargetArrival' <= bestTargetArrival
        /\ tau'[u] = tau[u]
        /\ \A t \in WalkFrom(u) :
             tau'[t] <= WalkArr(u, t) \/ bestTargetArrival' <= WalkArr(u, t)
        /\ \A t \in Stops : tau'[t] # tau[t] => Foot(input, u, t) /\ tau'[t] = WalkArr(u, t)
    BY <1>1, <1>2, <1>3, RelaxedFrom
  <1> SUFFICES ASSUME NEW s \in Stops, s \notin todo' PROVE Rested(s)'
    BY <1>1 DEF WalkingInv
  <1>6. \A v, t : WalkArr(v, t)' = tau'[v] + input.foot[<<v, t>>]
    BY <1>1 DEF WalkArr
  <1>7. WalkFrom(s)' = WalkFrom(s) /\ \A t \in WalkFrom(s) : t \in Stops /\ Foot(input, s, t)
    BY <1>1 DEF WalkFrom
  <1>8. CASE s = u
    <2>1. \A t : WalkArr(u, t)' = WalkArr(u, t)
      BY <1>5, <1>6 DEF WalkArr
    <2> QED
      BY <1>5, <1>7, <1>8, <2>1 DEF Rested
  <1>9. CASE s # u /\ tau'[s] = tau[s]
    <2>1. Rested(s)
      BY <1>1, <1>2, <1>9 DEF WalkingInv
    <2> QED
      BY <1>1, <1>4, <1>5, <1>9, <2>1, ImprovementKeepsRested
  <1>10. CASE s # u /\ tau'[s] # tau[s]
    <2>1. Foot(input, u, s) /\ tau'[s] = tau[u] + input.foot[<<u, s>>]
      BY <1>5, <1>10 DEF WalkArr
    <2>2. ASSUME NEW t \in WalkFrom(s)
          PROVE  \/ tau'[t] <= tau'[s] + input.foot[<<s, t>>]
                 \/ bestTargetArrival' <= tau'[s] + input.foot[<<s, t>>]
      <3>1. /\ input.foot[<<u, s>>] \in Nat /\ input.foot[<<s, t>>] \in Nat
            /\ t \in Stops /\ Foot(input, s, t)
        BY <1>3, <1>1, <1>7, <2>1 DEF InputOK
      <3>2. tau[u] \in Int /\ tau'[t] \in Int
        BY <1>3, <1>1, <3>1
      <3>3. CASE t = u
        BY <1>5, <2>1, <3>1, <3>2, <3>3
      <3>4. CASE t # u
        <4>1. /\ Foot(input, u, t) /\ t \in WalkFrom(u)
              /\ input.foot[<<u, t>>] <= input.foot[<<u, s>>] + input.foot[<<s, t>>]
          BY <1>3, <1>1, <2>1, <3>1, <3>4 DEF WalksClosed, WalkFrom
        <4>2. input.foot[<<u, t>>] \in Nat
          BY <1>3, <1>1, <3>1, <4>1 DEF InputOK
        <4>3. \/ tau'[t] <= tau[u] + input.foot[<<u, t>>]
              \/ bestTargetArrival' <= tau[u] + input.foot[<<u, t>>]
          BY <1>5, <4>1 DEF WalkArr
        <4> DEFINE a == input.foot[<<u, t>>]
                   b == input.foot[<<u, s>>]
                   c == input.foot[<<s, t>>]
        <4>4. /\ a \in Nat /\ b \in Nat /\ c \in Nat /\ a <= b + c
              /\ tau'[s] = tau[u] + b
              /\ tau'[t] <= tau[u] + a \/ bestTargetArrival' <= tau[u] + a
          BY <2>1, <3>1, <4>1, <4>2, <4>3
        <4> SUFFICES tau'[t] <= tau'[s] + c \/ bestTargetArrival' <= tau'[s] + c
          OBVIOUS
        <4> HIDE DEF a, b, c
        <4> QED
          BY <1>1, <3>2, <4>4
      <3> QED
        BY <3>3, <3>4
    <2> QED
      BY <1>6, <1>7, <2>2 DEF Rested
  <1> QED
    BY <1>8, <1>9, <1>10

LEMMA WalkFromStopFaithful ==
  ASSUME IInv, IInv', InOrder(input), Faithful, WalkFromStop
  PROVE  Faithful'
  <1>1. /\ UNCHANGED <<input, pc, k, queue, scan, tauPrev, trace, journeys>>
        /\ pc = "walk" /\ pc' = "walk" /\ MidRound /\ MidRound' /\ InRound /\ TypeInv /\ TypeInv'
    BY DEF IInv, WalkFromStop, MidRound, InRound
  <1>2. Improvement /\ Climbs /\ Rungs'
    BY WalkFromStopFacts DEF Faithful
  <1>3. PICK u \in todo : Relax(u) /\ todo' = todo \ {u}
    BY DEF WalkFromStop
  <1>4. u \in Stops /\ u \in marked
    BY <1>1, <1>3 DEF TypeInv, TypeOK, Faithful, Rungs, MarkedInv
  <1>5. /\ bestTargetArrival' \in {tau'[input.target], Infinity}
        /\ \A t \in Stops : tau'[t] # tau[t] => Foot(input, u, t) /\ tau'[t] = WalkArr(u, t)
    BY <1>1, <1>3, <1>4, RelaxedFrom DEF Faithful, ExactInv
  <1>6. /\ InputOK(input) /\ WalksClosed(input) /\ tau \in [Stops -> Int] /\ tau' \in [Stops -> Int]
        /\ bestTargetArrival' \in Int
    BY <1>1, LabelFacts DEF TypeInv, TypeOK, InOrder
  <1>7. SeatInv'
    BY <1>1 DEF SeatInv
  <1>8. BoardingInv'
    <2>1. \A pi \in DOMAIN input.patterns : \A i \in DOMAIN input.patterns[pi].stops :
            ExhaustedAt(pi, i)
      BY <1>1 DEF Faithful, BoardingInv, ScannedThrough
    <2>2. \A pi \in DOMAIN input.patterns : \A i \in DOMAIN input.patterns[pi].stops :
            ExhaustedAt(pi, i)'
      BY <1>1, <1>2, <2>1, ImprovementKeepsExhausted
    <2> QED
      BY <1>1, <2>2 DEF BoardingInv
  <1>9. WalkingInv'
    BY <1>6, WalkFromStopWalking DEF Faithful
  <1>10. SoundInv'
    <2> DEFINE at == Promised(k - 1)
               rides == Promise!ByRide(input, at)
               foot == Promise!OnFoot(input, rides)
    <2>1. Labelling(input, at)
      BY <1>1, LabelFacts
    <2>2. Labelling(input, rides) /\ Labelling(input, foot)
      BY <1>6, <2>1, ByRideLabels, OnFootLabels
    <2>3. \A s \in Stops : at[s] <= tauPrev[s] /\ (s \in marked => foot[s] <= tau[s])
      BY <1>1 DEF Faithful, SoundInv
    <2>4. \A s \in Stops : Foot(input, u, s) => foot[s] <= foot[u] + input.foot[<<u, s>>]
      BY <1>4, <1>6, <2>2, WalkOn
    <2>5. \A s \in Stops : foot[s] \in Int
      BY <2>2 DEF Labelling
    <2>6. ASSUME NEW s \in Stops, s \in marked' PROVE foot[s] <= tau'[s]
      <3> HIDE DEF at, rides, foot
      <3>1. CASE tau'[s] = tau[s]
        <4>1. s \in marked
          BY <1>2, <1>6, <2>6, <3>1 DEF Climbs
        <4> QED
          BY <2>3, <3>1, <4>1
      <3>2. CASE tau'[s] # tau[s]
        <4>1. Foot(input, u, s) /\ tau'[s] = tau[u] + input.foot[<<u, s>>]
          BY <1>5, <3>2 DEF WalkArr
        <4>2. input.foot[<<u, s>>] \in Nat
          BY <1>4, <1>6, <4>1 DEF InputOK
        <4>3. foot[s] <= foot[u] + input.foot[<<u, s>>] /\ foot[u] <= tau[u]
          BY <1>4, <2>3, <2>4, <4>1
        <4>4. foot[s] \in Int /\ foot[u] \in Int /\ tau[u] \in Int
          BY <1>4, <1>6, <2>5
        <4> QED
          BY <4>1, <4>2, <4>3, <4>4
      <3> QED
        BY <3>1, <3>2
    <2>7. Promised(k - 1)' = at
      BY <1>1 DEF Promised
    <2> QED
      BY <1>1, <2>3, <2>6, <2>7 DEF SoundInv, MidRound
  <1>11. CompleteInv' /\ ExactInv'
    BY <1>1, <1>2, <1>5, ImprovementKeepsComplete, ImprovementKeepsExact DEF Faithful, Rungs
  <1> QED
    BY <1>2, <1>7, <1>8, <1>9, <1>10, <1>11 DEF Faithful

(***************************************************************************)
(* The steps of a round that change no label.                              *)
(***************************************************************************)
LEMMA StartWalkFaithful ==
  ASSUME IInv, IInv', Faithful, StartWalk
  PROVE  Faithful'
  <1> USE DEF StartWalk, labels
  <1>1. /\ UNCHANGED <<input, k, queue, tau, tauPrev, marked, bestTargetArrival, improvedTarget>>
        /\ UNCHANGED parents
        /\ pc = "pick" /\ pc' = "walk" /\ queue = {} /\ todo' = marked
        /\ MidRound /\ MidRound' /\ InRound /\ InRound'
    BY DEF MidRound, InRound
  <1>2. Rungs'
    BY StartWalkRungs DEF Faithful
  <1>3. \A pi \in DOMAIN input.patterns : \A i \in DOMAIN input.patterns[pi].stops :
          ExhaustedAt(pi, i)
    BY <1>1 DEF Faithful, BoardingInv, ScannedThrough
  <1>4. BoardingInv'
    BY <1>1, <1>3 DEF BoardingInv, ExhaustedAt
  <1>5. SeatInv'
    BY <1>1 DEF SeatInv
  <1>6. WalkingInv'
    BY <1>1 DEF Faithful, WalkingInv, Rested, WalkFrom, WalkArr
  <1>7. SoundInv'
    <2> DEFINE at == Promised(k - 1)
               rides == Promise!ByRide(input, at)
               foot == Promise!OnFoot(input, rides)
    <2>1. /\ InputOK(input) /\ Labelling(input, at)
          /\ \A s \in Stops : tau[s] \in Int
      BY <1>1, LabelFacts
    <2>2. Labelling(input, rides) /\ Labelling(input, foot)
      BY <2>1, ByRideLabels, OnFootLabels
    <2>3. \A s \in Stops : at[s] <= tauPrev[s] /\ (s \in marked => rides[s] <= tau[s])
      BY <1>1 DEF Faithful, SoundInv
    <2>4. \A s \in Stops : foot[s] <= rides[s] /\ foot[s] \in Int /\ rides[s] \in Int
      BY <2>1, <2>2, OnFootMeaning DEF Labelling
    <2>5. \A s \in Stops : s \in marked => foot[s] <= tau[s]
      BY <2>1, <2>3, <2>4
    <2>6. Promised(k - 1)' = at
      BY <1>1 DEF Promised
    <2> QED
      BY <1>1, <2>3, <2>5, <2>6 DEF SoundInv, MidRound
  <1>8. CompleteInv' /\ ExactInv'
    BY <1>1 DEF Faithful, CompleteInv, ExactInv, Promised
  <1> QED
    BY <1>2, <1>4, <1>5, <1>6, <1>7, <1>8 DEF Faithful

LEMMA PickPatternFaithful ==
  ASSUME IInv, IInv', Faithful, PickPattern
  PROVE  Faithful'
  <1>1. /\ UNCHANGED <<input, k, tau, tauPrev, marked, bestTargetArrival, improvedTarget>>
        /\ UNCHANGED parents
        /\ pc = "pick" /\ pc' = "scan"
        /\ MidRound /\ MidRound' /\ InRound /\ InRound'
    BY DEF PickPattern, labels, MidRound, InRound
  <1>2. PICK e \in queue : /\ queue' = queue \ {e}
                           /\ scan' = [IdleScan EXCEPT !.pattern = e[1], !.pos = e[2]]
    BY DEF PickPattern
  <1>3. scan'.pattern = e[1] /\ scan'.pos = e[2] /\ scan'.run = NoRun
    BY <1>2 DEF IdleScan
  <1>4. Rungs'
    BY PickPatternRungs DEF Faithful
  <1>5. BoardingInv'
    <2>1. \A pi \in DOMAIN input.patterns : ScannedThrough(pi)' => ScannedThrough(pi)
      BY <1>1, <1>2, <1>3 DEF ScannedThrough
    <2> QED
      BY <1>1, <2>1 DEF Faithful, BoardingInv, ExhaustedAt
  <1>6. SeatInv'
    <2>1. e[1] \in DOMAIN input.patterns /\ e[2] \in DOMAIN input.patterns[e[1]].stops
      BY LabelFacts DEF TypeInv, TypeOK
    <2> DEFINE p == input.patterns[e[1]]
    <2>2. Scanned' = p
      BY <1>1, <1>3 DEF Scanned
    <2>3. \A i \in 1..(e[2] - 1) : i \in DOMAIN p.stops
      <3>1. DOMAIN p.stops = 1..Len(p.stops) /\ Len(p.stops) \in Nat
        BY <2>1, LabelFacts, PatternFacts
      <3>2. e[2] \in DOMAIN p.stops
        BY <2>1
      <3> HIDE DEF p
      <3> QED
        BY <3>1, <3>2
    <2>4. \A i \in 1..(e[2] - 1) : ExhaustedAt(e[1], i)
      BY <1>1, <2>1, <2>3 DEF Faithful, Rungs, QueueInv, BoardingInv
    <2>5. \A i \in 1..(e[2] - 1) :
            Underway(p, i, tauPrev, tau, bestTargetArrival, NoRun, e[2])
      BY <2>4, ExhaustedIsUnderway DEF ExhaustedAt
    <2>6. ~Riding'
      BY <1>3 DEF Riding, NoRun
    <2> HIDE DEF p
    <2> QED
      BY <1>1, <1>3, <2>2, <2>5, <2>6 DEF SeatInv
  <1>7. WalkingInv'
    BY <1>1 DEF Faithful, WalkingInv, Rested, WalkFrom, WalkArr
  <1>8. SoundInv' /\ CompleteInv' /\ ExactInv'
    BY <1>1 DEF Faithful, SoundInv, CompleteInv, ExactInv, Promised
  <1> QED
    BY <1>4, <1>5, <1>6, <1>7, <1>8 DEF Faithful

(* The target's label is the promised one between rounds. *)
LEMMA TargetIsExact ==
  ASSUME IInv, NEW n \in 0..MaxRounds, bestTargetArrival \in {tau[input.target], Infinity},
         \A s \in Stops : Promised(n)[s] <= tau[s],
         \A s \in Stops : tau[s] <= Promised(n)[s] \/ bestTargetArrival <= Promised(n)[s]
  PROVE  tau[input.target] = Promised(n)[input.target]
  <1> DEFINE t == input.target
  <1>1. /\ t \in Stops /\ tau[t] \in Int /\ Promised(n)[t] \in Int /\ Infinity \in Int
        /\ tau[t] <= Infinity
    BY LabelFacts
  <1>2. Promised(n)[t] <= tau[t] /\ (tau[t] <= Promised(n)[t] \/ bestTargetArrival <= Promised(n)[t])
    BY <1>1
  <1> HIDE DEF t
  <1> QED
    BY <1>1, <1>2 DEF t

LEMMA StartRoundFaithful ==
  ASSUME IInv, IInv', Faithful, StartRound
  PROVE  Faithful'
  <1>1. /\ UNCHANGED <<input, tau, tauPrev, bestTargetArrival, parents>>
        /\ pc = "round" /\ pc' = "pick" /\ k' = k + 1 /\ queue' = QueueOf(marked) /\ marked' = {}
        /\ improvedTarget' = FALSE
        /\ MidRound' /\ InRound' /\ TypeInv /\ k \in 0..MaxRounds /\ k \in Nat
    BY LabelFacts DEF StartRound, MidRound, InRound
  <1>2. k' - 1 = k /\ tauPrev = tau
    BY <1>1 DEF Faithful, Rungs, MarkedInv
  <1>3. Rungs'
    BY StartRoundRungs DEF Faithful
  <1>4. \A pi \in DOMAIN input.patterns : \A i \in DOMAIN input.patterns[pi].stops :
          input.patterns[pi].stops[i] \notin marked => ExhaustedAt(pi, i)
    BY <1>1 DEF Faithful, BoardingInv, ScannedThrough
  <1>5. BoardingInv'
    <2>1. \A pi \in DOMAIN input.patterns : \A i \in DOMAIN input.patterns[pi].stops :
            ~Fresh(input.source, parents, k, input.patterns[pi].stops[i]) => ExhaustedAt(pi, i)
      <3>1. \A pi \in DOMAIN input.patterns : \A i \in DOMAIN input.patterns[pi].stops :
              input.patterns[pi].stops[i] \in Stops
        BY LabelFacts, PatternFacts
      <3> QED
        BY <1>1, <1>4, <3>1 DEF Faithful, Rungs, MarkedInv
    <2>2. ASSUME NEW pi \in DOMAIN input.patterns, ScannedThrough(pi)',
                 NEW i \in DOMAIN input.patterns[pi].stops
          PROVE  ExhaustedAt(pi, i)
      <3>1. \A e \in QueueOf(marked) : e[1] # pi
        BY <1>1, <2>2 DEF ScannedThrough
      <3>2. input.patterns[pi].stops[i] \notin marked
        BY <1>1, <3>1, QueueCovers
      <3> QED
        BY <1>4, <3>2
    <2> QED
      BY <1>1, <1>2, <2>1, <2>2 DEF BoardingInv, ExhaustedAt
  <1>6. SeatInv'
    BY <1>1 DEF SeatInv
  <1>7. WalkingInv'
    BY <1>1 DEF Faithful, WalkingInv, Rested, WalkFrom, WalkArr
  <1>8. Promised(k - 1)' = Promised(k)
    BY <1>1, <1>2 DEF Promised
  <1>9. SoundInv' /\ CompleteInv'
    BY <1>1, <1>2, <1>8 DEF Faithful, SoundInv, CompleteInv, MidRound
  <1>10. ExactInv'
    <2>1. tau[input.target] = Promised(k)[input.target]
      BY <1>1, TargetIsExact DEF Faithful, ExactInv, SoundInv, CompleteInv
    <2>2. ~(tau[input.target] < tau[input.target])
      <3>1. tau[input.target] \in Int
        BY LabelFacts
      <3> QED
        BY <3>1
    <2> QED
      BY <1>1, <1>2, <1>8, <2>1, <2>2 DEF Faithful, ExactInv
  <1> QED
    BY <1>3, <1>5, <1>6, <1>7, <1>9, <1>10 DEF Faithful

(***************************************************************************)
(* The end of a round: everything it could take has been taken.            *)
(***************************************************************************)
LEMMA RoundKeepsPromise ==
  ASSUME IInv, Faithful, pc = "walk", todo = {}
  PROVE  /\ \A s \in Stops : Promised(k)[s] <= tau[s]
         /\ \A s \in Stops : tau[s] <= Promised(k)[s] \/ bestTargetArrival <= Promised(k)[s]
  <1> DEFINE at == Promised(k - 1)
             next == Promise!OnFoot(input, Promise!ByRide(input, at))
             onward == Onward(input, at)
  <1>1. /\ MidRound /\ InRound /\ InputOK(input) /\ k \in 1..MaxRounds /\ k - 1 \in 0..MaxRounds
        /\ Labelling(input, tau) /\ Labelling(input, tauPrev) /\ Labelling(input, at)
        /\ \A s \in Stops : tau[s] \in Int /\ tauPrev[s] \in Int /\ tau[s] <= Infinity
        /\ bestTargetArrival \in Int /\ input.target \in Stops /\ Infinity \in Int
    BY LabelFacts DEF MidRound, InRound
  <1>2. Promised(k) = onward
    BY <1>1, EarliestUnfolds DEF Promised
  <1>3. /\ Labelling(input, next) /\ Labelling(input, onward)
        /\ \A s \in Stops : onward[s] <= at[s] /\ onward[s] <= next[s]
    BY <1>1, OnwardMeaning
  <1>4. \A s \in Stops : /\ at[s] <= tauPrev[s]
                         /\ s \in marked => next[s] <= tau[s]
                         /\ s \notin marked => tau[s] = tauPrev[s]
                         /\ tau[s] <= tauPrev[s]
                         /\ tauPrev[s] <= at[s] \/ bestTargetArrival <= at[s]
    BY <1>1 DEF Faithful, SoundInv, CompleteInv, Rungs, MarkedInv
  <1>5. NoLater(tauPrev, at, bestTargetArrival)
    BY <1>4 DEF NoLater
  <1>6. \A s \in Stops : at[s] \in Int /\ next[s] \in Int /\ onward[s] \in Int
    BY <1>1, <1>3 DEF Labelling
  <1>7. \A pi \in DOMAIN input.patterns : \A i \in DOMAIN input.patterns[pi].stops :
          Exhausted(input.patterns[pi], i, tauPrev, tau, bestTargetArrival)
    BY DEF Faithful, BoardingInv, ScannedThrough, ExhaustedAt
  <1>8. NoWalkLeft(input, tau, bestTargetArrival)
    BY DEF Faithful, WalkingInv, Rested, NoWalkLeft, WalkFrom, WalkArr
  <1>9. bestTargetArrival <= Infinity
    BY <1>1 DEF Faithful, ExactInv
  <1>10. \A s \in Stops : tau[s] <= tauPrev[s]
    BY <1>4
  <1> HIDE DEF at, next
  <1>11. NoLater(tau, onward, bestTargetArrival)
    BY <1>1, <1>5, <1>7, <1>8, <1>9, <1>10, RoundCompletes
  <1> HIDE DEF onward
  <1>12. ASSUME NEW s \in Stops PROVE onward[s] <= tau[s]
    <2>1. CASE s \in marked
      BY <1>1, <1>3, <1>4, <1>6, <2>1
    <2>2. CASE s \notin marked
      BY <1>1, <1>3, <1>4, <1>6, <2>2
    <2> QED
      BY <2>1, <2>2
  <1> QED
    BY <1>2, <1>11, <1>12 DEF NoLater

(* Rolling the labels keeps what was exhausted where they did not change.  *)
LEMMA RollKeepsBoarding ==
  ASSUME IInv, IInv', Rungs, BoardingInv, pc \in {"walk", "reconstruct"}, pc' = "round",
         input' = input, tau' = tau, tauPrev' = tau, marked' = marked,
         bestTargetArrival' = bestTargetArrival
  PROVE  BoardingInv'
  <1> SUFFICES ASSUME NEW pi \in DOMAIN input.patterns,
                      NEW i \in DOMAIN input.patterns[pi].stops,
                      input.patterns[pi].stops[i] \notin marked
               PROVE  ExhaustedAt(pi, i)'
    BY DEF BoardingInv, MidRound
  <1> DEFINE p == input.patterns[pi]
  <1>1. /\ PatternOK(p) /\ tau \in [Stops -> Int] /\ bestTargetArrival \in Int
        /\ p.stops[i] \in Stops /\ i \in DOMAIN p.stops
    BY LabelFacts, PatternFacts
  <1>2. Exhausted(p, i, tauPrev, tau, bestTargetArrival)
    BY DEF BoardingInv, ScannedThrough, ExhaustedAt
  <1>3. tau[p.stops[i]] = tauPrev[p.stops[i]]
    BY <1>1 DEF Rungs, MarkedInv, InRound, MidRound
  <1>4. \A s \in Stops : tau[s] <= tau[s]
    BY <1>1
  <1>5. bestTargetArrival <= bestTargetArrival
    BY <1>1
  <1> HIDE DEF p
  <1>6. Exhausted(p, i, tau, tau, bestTargetArrival)
    BY <1>1, <1>2, <1>3, <1>4, <1>5, ExhaustedStays
  <1> QED
    BY <1>6 DEF ExhaustedAt, p

LEMMA EndRoundFaithful ==
  ASSUME IInv, IInv', Faithful, EndRound
  PROVE  Faithful'
  <1>1. /\ UNCHANGED <<input, k, tau, marked, bestTargetArrival, improvedTarget, parents, todo>>
        /\ pc = "walk" /\ todo = {} /\ MidRound /\ InRound
        /\ \/ improvedTarget /\ pc' = "reconstruct" /\ tauPrev' = tauPrev
           \/ ~improvedTarget /\ pc' = "round" /\ tauPrev' = tau
    BY DEF EndRound, labels, MidRound, InRound
  <1>2. Rungs'
    BY EndRoundRungs DEF Faithful
  <1>3. BoardingInv'
    <2>1. CASE pc' = "reconstruct"
      <3>1. tauPrev' = tauPrev
        BY <1>1, <2>1
      <3>2. \A pi \in DOMAIN input.patterns : \A i \in DOMAIN input.patterns[pi].stops :
              ExhaustedAt(pi, i)
        BY <1>1 DEF Faithful, BoardingInv, ScannedThrough
      <3> QED
        BY <1>1, <2>1, <3>1, <3>2 DEF BoardingInv, ExhaustedAt, MidRound
    <2>2. CASE pc' = "round"
      BY <1>1, <2>2, RollKeepsBoarding DEF Faithful
    <2> QED
      BY <1>1, <2>1, <2>2
  <1>4. SeatInv'
    BY <1>1 DEF SeatInv
  <1>5. WalkingInv'
    BY <1>1 DEF Faithful, WalkingInv, Rested, WalkFrom, WalkArr
  <1>6. Promised(k)' = Promised(k) /\ Promised(k - 1)' = Promised(k - 1)
    BY <1>1 DEF Promised
  <1>7. SoundInv' /\ CompleteInv'
    BY <1>1, <1>6, RoundKeepsPromise DEF SoundInv, CompleteInv, MidRound
  <1>8. ExactInv'
    BY <1>1, <1>6 DEF Faithful, ExactInv, InRound, MidRound
  <1> QED
    BY <1>2, <1>3, <1>4, <1>5, <1>7, <1>8 DEF Faithful

LEMMA FollowParentFaithful ==
  ASSUME IInv, IInv', Faithful, FollowParent
  PROVE  Faithful'
  <1>1. /\ UNCHANGED <<input, k, tau, tauPrev, marked, bestTargetArrival, improvedTarget,
                       parents, queue, scan, todo>>
        /\ pc = "reconstruct" /\ pc' \in {"reconstruct", "cycle", "noparent"}
    <2>1. TypeInv
      BY DEF IInv
    <2>2. pc' \in {"reconstruct", "cycle", "noparent"}
      BY <2>1, FollowParentMoves DEF Follows
    <2> QED
      BY <2>2 DEF FollowParent, labels
  <1>2. Rungs'
    BY FollowParentRungs DEF Faithful
  <1>3. BoardingInv' /\ SeatInv'
    BY <1>1 DEF Faithful, BoardingInv, SeatInv, ExhaustedAt, ScannedThrough, MidRound
  <1>4. WalkingInv'
    BY <1>1 DEF Faithful, WalkingInv, Rested, WalkFrom, WalkArr
  <1>5. SoundInv' /\ CompleteInv' /\ ExactInv'
    BY <1>1 DEF Faithful, SoundInv, CompleteInv, ExactInv, Promised, InRound, MidRound
  <1> QED
    BY <1>2, <1>3, <1>4, <1>5 DEF Faithful

LEMMA EmitJourneyFaithful ==
  ASSUME IInv, IInv', Faithful, EmitJourney
  PROVE  Faithful'
  <1>1. /\ UNCHANGED <<input, k, tau, marked, bestTargetArrival, improvedTarget, parents>>
        /\ pc = "reconstruct" /\ pc' = "round" /\ tauPrev' = tau /\ Rungs'
    <2>1. Rungs' /\ pc' = "round" /\ tauPrev' = tau
      BY EmitJourneyRungs DEF Faithful
    <2> QED
      BY <2>1 DEF EmitJourney, labels
  <1>2. BoardingInv'
    BY <1>1, RollKeepsBoarding DEF Faithful
  <1>3. SeatInv'
    BY <1>1 DEF SeatInv
  <1>4. WalkingInv'
    BY <1>1 DEF Faithful, WalkingInv, Rested, WalkFrom, WalkArr
  <1>5. SoundInv' /\ CompleteInv' /\ ExactInv'
    BY <1>1 DEF Faithful, SoundInv, CompleteInv, ExactInv, Promised, InRound, MidRound
  <1> QED
    BY <1>1, <1>2, <1>3, <1>4, <1>5 DEF Faithful

(***************************************************************************)
(* Seeding starts from what the promise starts from.                       *)
(***************************************************************************)
LEMMA SeedLabels ==
  ASSUME IInv, IInv', Seed
  PROVE  \A s \in Stops : tau'[s] = Promise!OnFoot(input, Start(input))[s]
  <1> DEFINE source == input.source
             foot == Promise!OnFoot(input, Start(input))
  <1>1. /\ InputOK(input) /\ source \in Stops /\ Infinity \in Int /\ input.depTime \in Int
        /\ Labelling(input, Start(input)) /\ input.depTime < Infinity
    BY LabelFacts, PromisedLabels DEF InputOK
  <1>2. ASSUME NEW s \in Stops, NEW v
        PROVE  WalkTo(input, Start(input), s, v) <=>
                 s \in WalkFrom(source) /\ v = input.depTime + input.foot[<<source, s>>]
    <2>1. \A u \in Stops : /\ Start(input)[u] < Infinity <=> u = source
                           /\ u = source => Start(input)[u] = input.depTime
      BY <1>1 DEF Start
    <2> HIDE DEF source
    <2> QED
      BY <1>1, <2>1 DEF WalkTo, WalkFrom
  <1>3. ASSUME NEW s \in Stops
        PROVE  /\ foot[s] \in input.depTime..Infinity
               /\ foot[s] = Start(input)[s] \/ WalkTo(input, Start(input), s, foot[s])
               /\ foot[s] <= Start(input)[s]
               /\ \A w : WalkTo(input, Start(input), s, w) => foot[s] <= w
    BY <1>1, OnFootMeaning
  <1>4. \A s \in WalkFrom(source) : s \in Stops /\ s # source /\ input.foot[<<source, s>>] \in Nat
    BY <1>1, WalkFacts
  <1>5. \A s \in Stops : Start(input)[s] = IF s = source THEN input.depTime ELSE Infinity
    BY DEF Start
  <1> SUFFICES ASSUME NEW s \in Stops PROVE tau'[s] = foot[s]
    OBVIOUS
  <1> HIDE DEF foot
  <1>6. CASE s = source
    <2>1. tau'[s] = input.depTime
      BY <1>6 DEF Seed
    <2>2. ~WalkTo(input, Start(input), s, foot[s])
      BY <1>2, <1>4, <1>6
    <2> QED
      BY <1>3, <1>5, <1>6, <2>1, <2>2
  <1>7. CASE s # source /\ s \in Seeds
    <2> DEFINE arr == input.depTime + input.foot[<<source, s>>]
    <2>1. tau'[s] = arr
      BY <1>7 DEF Seed
    <2>2. s \in WalkFrom(source) /\ arr < Infinity
      BY <1>7 DEF Seeds
    <2>3. WalkTo(input, Start(input), s, arr)
      BY <1>2, <2>2
    <2>4. arr \in Int
      BY <1>1, <1>4, <2>2
    <2>5. foot[s] <= arr /\ foot[s] \in Int
      BY <1>1, <1>3, <2>3
    <2>6. WalkTo(input, Start(input), s, foot[s]) => foot[s] = arr
      BY <1>2
    <2> HIDE DEF arr
    <2> QED
      BY <1>1, <1>3, <1>5, <1>7, <2>1, <2>2, <2>4, <2>5, <2>6
  <1>8. CASE s # source /\ s \notin Seeds
    <2>1. tau'[s] = Infinity
      BY <1>8 DEF Seed
    <2>2. WalkTo(input, Start(input), s, foot[s]) => ~(foot[s] < Infinity)
      BY <1>2, <1>8 DEF Seeds
    <2>3. foot[s] \in Int /\ foot[s] <= Infinity
      BY <1>1, <1>3
    <2> QED
      BY <1>1, <1>3, <1>5, <1>8, <2>1, <2>2, <2>3
  <1> QED
    BY <1>6, <1>7, <1>8

LEMMA SeedWalking ==
  ASSUME IInv, IInv', WalksClosed(input), Seed
  PROVE  WalkingInv'
  <1>1. input' = input /\ InputOK(input)
    BY LabelFacts DEF Seed
  <1> SUFFICES ASSUME NEW s \in Stops PROVE Rested(s)'
    BY DEF WalkingInv
  <1>2. ASSUME NEW t \in WalkFrom(s) PROVE tau'[t] <= tau'[s] + input.foot[<<s, t>>]
    <2>1. t \in Stops /\ Foot(input, s, t)
      BY DEF WalkFrom
    <2>2. Labelling(input, Start(input))
      BY <1>1, PromisedLabels
    <2>3. Promise!OnFoot(input, Start(input))[t]
            <= Promise!OnFoot(input, Start(input))[s] + input.foot[<<s, t>>]
      BY <1>1, <2>1, <2>2, WalkOn
    <2> QED
      BY <2>1, <2>3, SeedLabels
  <1> QED
    BY <1>1, <1>2 DEF Rested, WalkFrom, WalkArr

LEMMA SeedFaithful ==
  ASSUME IInv, IInv', InOrder(input), Faithful, Seed
  PROVE  Faithful'
  <1>1. /\ UNCHANGED <<input, k, bestTargetArrival>>
        /\ pc = "seed" /\ pc' = "round" /\ k = 0 /\ tauPrev' = tau'
        /\ marked' = {input.source} \cup Seeds
        /\ \A s \in Stops : tau[s] = Infinity
        /\ InputOK(input) /\ input.target \in Stops /\ Infinity \in Int
    BY LabelFacts DEF Seed, TypeInv, RoundsInv
  <1>2. 0 \in 0..MaxRounds
    BY ConstantsAssumption
  <1>3. Rungs'
    BY SeedRungs DEF Faithful
  <1>4. \A s \in Stops : tau'[s] = Promised(0)[s]
    BY SeedLabels, EarliestUnfolds DEF Promised
  <1>5. Promised(k)' = Promised(0)
    BY <1>1 DEF Promised
  <1>6. \A s \in Stops : tau'[s] \in Int
    BY <1>2, <1>4, LabelFacts
  <1>7. SoundInv' /\ CompleteInv'
    <2>1. \A s \in Stops : tau'[s] <= tau'[s]
      BY <1>6
    <2> QED
      BY <1>1, <1>4, <1>5, <2>1 DEF SoundInv, CompleteInv, MidRound
  <1>8. ExactInv'
    BY <1>1 DEF Faithful, ExactInv, InRound, MidRound
  <1>9. SeatInv'
    BY <1>1 DEF SeatInv
  <1>10. BoardingInv'
    <2>1. \A s \in Stops : s \notin marked' => tau'[s] = Infinity
      BY <1>1 DEF Seed
    <2>2. ~(Infinity < Infinity)
      BY <1>1
    <2>3. \A pi \in DOMAIN input.patterns : \A i \in DOMAIN input.patterns[pi].stops :
            input.patterns[pi].stops[i] \in Stops
      BY <1>1, PatternFacts
    <2> QED
      BY <1>1, <2>1, <2>2, <2>3 DEF BoardingInv, ExhaustedAt, Exhausted, MidRound
  <1>11. WalkingInv'
    BY SeedWalking DEF InOrder
  <1> QED
    BY <1>3, <1>7, <1>8, <1>9, <1>10, <1>11 DEF Faithful

LEMMA FinishFaithful == Faithful /\ Finish => Faithful'
  <1> SUFFICES ASSUME Faithful, Finish PROVE Faithful'
    OBVIOUS
  <1>1. Rungs'
    BY FinishRungs DEF Faithful
  <1>2. /\ UNCHANGED <<input, tau, tauPrev, bestTargetArrival>>
        /\ pc = "round" /\ pc' = "done"
    BY DEF Finish, labels
  <1>3. BoardingInv' /\ SeatInv' /\ SoundInv' /\ CompleteInv' /\ ExactInv'
    BY <1>2 DEF Faithful, BoardingInv, SeatInv, SoundInv, CompleteInv, ExactInv, ScannedThrough,
       InRound, MidRound
  <1>4. WalkingInv'
    BY <1>2 DEF Faithful, WalkingInv, Rested, WalkFrom, WalkArr
  <1> QED
    BY <1>1, <1>3, <1>4 DEF Faithful

LEMMA StutterFaithful == Faithful /\ UNCHANGED vars => Faithful'
  <1> SUFFICES ASSUME Faithful, UNCHANGED vars PROVE Faithful'
    OBVIOUS
  <1>1. Rungs'
    BY StutterRungs DEF Faithful
  <1>2. BoardingInv' /\ SeatInv'
    BY DEF vars, Faithful, BoardingInv, SeatInv, ScannedThrough, ExhaustedAt, MidRound, Riding,
       Scanned
  <1>3. WalkingInv'
    BY DEF vars, Faithful, WalkingInv, Rested, WalkFrom, WalkArr
  <1>4. SoundInv' /\ CompleteInv' /\ ExactInv'
    BY DEF vars, Faithful, SoundInv, CompleteInv, ExactInv, Promised, InRound, MidRound
  <1> QED
    BY <1>1, <1>2, <1>3, <1>4 DEF Faithful

LEMMA InitFaithful == Init => FaithfulInv
  <1> SUFFICES ASSUME Init PROVE Faithful
    BY DEF FaithfulInv
  <1>1. RoundsInv
    BY InitType DEF TypeInv
  <1>2. StepwiseInv
    BY <1>1 DEF Init, RoundsInv, StepwiseInv
  <1> QED
    BY <1>2 DEF Init, Faithful, Rungs, MarkedInv, QueueInv, RidesInv, BoardingInv, SeatInv,
       WalkingInv, SoundInv, CompleteInv, ExactInv, ScannedThrough, InRound, MidRound

LEMMA InputKept == [Next]_vars => input' = input
  BY DEF Next, vars, Seed, StartRound, Finish, PickPattern, ScanStop, StartWalk, WalkFromStop,
     EndRound, FollowParent, EmitJourney, Returned

LEMMA FaithfulKept == IInv /\ IInv' /\ FaithfulInv /\ [Next]_vars => FaithfulInv'
  <1> SUFFICES ASSUME IInv, IInv', FaithfulInv, [Next]_vars, InOrder(input)' PROVE Faithful'
    BY DEF FaithfulInv
  <1>1. InOrder(input) /\ Faithful
    BY InputKept DEF FaithfulInv
  <1> QED
    BY <1>1, SeedFaithful, StartRoundFaithful, FinishFaithful, PickPatternFaithful,
       ScanStopFaithful, StartWalkFaithful, WalkFromStopFaithful, EndRoundFaithful,
       FollowParentFaithful, EmitJourneyFaithful, StutterFaithful DEF Next, Returned

-----------------------------------------------------------------------------
(***************************************************************************)
(* Where walks are closed: what a step of the scan records, and what a     *)
(* recorded leg tells.                                                     *)
(***************************************************************************)
Rode(leg) ==
  /\ leg \in Leg /\ ~IsWalk(leg)
  /\ tau'[leg.to] = leg.arr /\ parents'[k][leg.to] = ParentOf(leg, k - 1)
  /\ \A s \in Stops : s # leg.to => tau'[s] = tau[s] /\ parents'[k][s] = parents[k][s]
  /\ marked' = marked \cup {leg.to}
  /\ leg.arr < tau[leg.to] /\ leg.arr < bestTargetArrival
  /\ bestTargetArrival' = IF leg.to = input.target THEN leg.arr ELSE bestTargetArrival
  /\ improvedTarget' = (improvedTarget \/ leg.to = input.target)

LEMMA AlightRides ==
  ASSUME IInv, pc = "scan", Alight(Scanned), TypeInv'
  PROVE  UNCHANGED labels \/ \E leg : Rode(leg)
  <1> DEFINE leg == RideLeg(Scanned)
  <1>1. /\ TypeInv /\ k \in 0..MaxRounds
        /\ tau \in [Stops -> Int] /\ tauBest = tau
        /\ parents \in [0..MaxRounds -> [Stops -> Parent]]
    BY DEF IInv, LabelsInv, TypeInv, TypeOK
  <1>2. CASE ~(Riding /\ Improves(leg.arr, leg.to, bestTargetArrival))
    BY <1>2 DEF Alight
  <1>3. CASE Riding /\ Improves(leg.arr, leg.to, bestTargetArrival)
    <2>1. leg \in Leg /\ leg.to \in Stops /\ ~IsWalk(leg)
      BY <1>1, <1>3, RideLegType DEF Leg, IsWalk, Riding
    <2>2. /\ tau' = [tau EXCEPT ![leg.to] = leg.arr]
          /\ parents' = [parents EXCEPT ![k][leg.to] = ParentOf(leg, k - 1)]
          /\ marked' = marked \cup {leg.to}
          /\ bestTargetArrival' = IF leg.to = input.target THEN leg.arr ELSE bestTargetArrival
          /\ improvedTarget' = (improvedTarget \/ leg.to = input.target)
          /\ leg.arr < tau[leg.to] /\ leg.arr < bestTargetArrival
      BY <1>1, <1>3 DEF Alight, Improves
    <2> HIDE DEF leg
    <2>3. tau'[leg.to] = leg.arr /\ parents'[k][leg.to] = ParentOf(leg, k - 1)
      BY <1>1, <2>1, <2>2
    <2>4. \A s \in Stops : s # leg.to => tau'[s] = tau[s] /\ parents'[k][s] = parents[k][s]
      BY <1>1, <2>1, <2>2
    <2> QED
      BY <2>1, <2>2, <2>3, <2>4 DEF Rode
  <1> QED
    BY <1>2, <1>3

LEMMA LegForward ==
  ASSUME InputOK(input), NEW leg \in Leg, LegOK(input, leg)
  PROVE  leg.dep <= leg.arr
  <1>1. leg.dep \in Int /\ leg.arr \in Int /\ leg.from \in Stops /\ leg.to \in Stops
    BY DEF Leg
  <1>2. CASE WalkOK(input, leg)
    <2>1. input.foot[<<leg.from, leg.to>>] \in Nat
      BY <1>1, <1>2 DEF WalkOK, InputOK
    <2> QED
      BY <1>1, <1>2, <2>1 DEF WalkOK
  <1>3. CASE RideOK(input, leg)
    <2> DEFINE p == input.patterns[leg.pattern]
    <2>1. PatternOK(p)
      BY <1>3 DEF RideOK, InputOK
    <2>2. PICK i, j \in DOMAIN p.stops :
            /\ i < j /\ leg.run \in Catchable(p, i, input.depTime)
            /\ leg.dep = Departure(p, leg.run, i) /\ leg.arr = Arrival(p, leg.run, j)
      BY <1>3 DEF RideOK
    <2>3. leg.run \in Runs(p)
      BY <2>2 DEF Catchable
    <2> HIDE DEF p
    <2> QED
      BY <2>1, <2>2, <2>3, RideForward
  <1> QED
    BY <1>2, <1>3 DEF LegOK

LEMMA WalkedLeg ==
  ASSUME IInv, NEW r \in 0..MaxRounds, NEW s \in Stops, Walked(r, s)
  PROVE  LET leg == parents[r][s].leg
         IN  /\ leg.from \in Stops /\ leg.dep \in Int
             /\ Foot(input, leg.from, s) /\ input.foot[<<leg.from, s>>] \in Nat
             /\ leg.arr = leg.dep + input.foot[<<leg.from, s>>]
  <1> DEFINE leg == parents[r][s].leg
  <1>1. InputOK(input) /\ leg \in Leg /\ leg.from \in Stops /\ leg.dep \in Int
    BY Numbers DEF IInv
  <1>2. leg.to = s /\ LegOK(input, leg) /\ IsWalk(leg)
    BY DEF IInv, ParentsInv, ParentOK, Walked
  <1>3. WalkOK(input, leg)
    BY <1>2 DEF LegOK, IsWalk
  <1>4. Foot(input, leg.from, s) /\ leg.arr = leg.dep + input.foot[<<leg.from, s>>]
    BY <1>2, <1>3 DEF WalkOK
  <1>5. input.foot[<<leg.from, s>>] \in Nat
    BY <1>1, <1>4 DEF InputOK
  <1> QED
    BY <1>1, <1>4, <1>5

(***************************************************************************)
(* The steps, one by one.                                                  *)
(***************************************************************************)
LEMMA SeedDirect ==
  ASSUME IInv, IInv', WalksClosed(input), Direct, Seed
  PROVE  Direct'
  <1>1. /\ pc = "seed" /\ pc' = "round" /\ k' = 0 /\ UNCHANGED <<input, journeys>>
        /\ \A r \in 0..MaxRounds, s \in Stops : ~parents[r][s].set
        /\ parents \in [0..MaxRounds -> [Stops -> Parent]]
    BY LabelFacts DEF Seed, TypeInv, RoundsInv, TypeOK
  <1>2. WalkingInv'
    BY SeedWalking
  <1>3. HopsInv'
    <2> SUFFICES ASSUME NEW r \in 0..MaxRounds, NEW s \in Stops, parents'[r][s].set
                 PROVE  HopOK(r, s)'
      BY <1>1 DEF HopsInv
    <2>1. r = 0 /\ s \in Seeds
      BY <1>1 DEF Seed
    <2>2. 0 \in 0..MaxRounds
      BY <2>1
    <2>3. \E arr : parents'[0][s] = ParentOf(WalkLeg(input.source, s, input.depTime, arr), 0)
      BY <1>1, <2>1, <2>2 DEF Seed
    <2> QED
      BY <1>1, <2>1, <2>3 DEF HopOK, ParentOf, WalkLeg, NoRun, IsWalk
  <1>4. CurrentInv' /\ ShortInv'
    BY <1>1 DEF CurrentInv, ShortInv, MidRound, Improved
  <1> QED
    BY <1>1, <1>2, <1>3, <1>4 DEF Direct

LEMMA StartRoundDirect ==
  ASSUME IInv, IInv', Direct, StartRound
  PROVE  Direct'
  <1>1. /\ UNCHANGED <<input, tau, bestTargetArrival, parents, journeys>>
        /\ pc = "round" /\ pc' = "pick" /\ k' = k + 1 /\ marked' = {}
        /\ improvedTarget' = FALSE /\ k \in Nat
    BY LabelFacts DEF StartRound
  <1>2. \A s \in Stops : ~parents[k'][s].set
    <2>1. k' \in 0..MaxRounds /\ ~(k' <= k)
      BY <1>1 DEF IInv, TypeInv, TypeOK
    <2> QED
      BY <2>1 DEF IInv, ParentsInv, ParentOK
  <1>3. WalkingInv' /\ HopsInv'
    BY <1>1 DEF Direct, WalkingInv, HopsInv, HopOK, Walked, Rested, WalkFrom, WalkArr
  <1>4. CurrentInv' /\ ShortInv'
    BY <1>1, <1>2 DEF CurrentInv, ShortInv, Walked, MidRound, Improved
  <1> QED
    BY <1>1, <1>3, <1>4 DEF Direct

LEMMA QuietDirect ==
  ASSUME IInv, Direct, Finish \/ PickPattern \/ StartWalk \/ UNCHANGED vars
  PROVE  Direct'
  <1>1. UNCHANGED <<input, k, tau, bestTargetArrival, improvedTarget, parents, marked, journeys, trace>>
    BY DEF Finish, PickPattern, StartWalk, labels, vars
  <1>2. HopsInv'
    BY <1>1 DEF Direct, HopsInv, HopOK, Walked
  <1>3. CASE Finish
    <2>1. pc = "round" /\ pc' = "done"
      BY <1>3 DEF Finish
    <2> QED
      BY <1>1, <1>2, <2>1 DEF Direct, WalkingInv, Rested, WalkFrom, WalkArr, CurrentInv, ShortInv,
         MidRound, Improved
  <1>4. CASE PickPattern
    <2>1. pc = "pick" /\ pc' = "scan"
      BY <1>4 DEF PickPattern
    <2>2. WalkingInv' /\ CurrentInv'
      BY <1>1, <2>1 DEF Direct, WalkingInv, Rested, WalkFrom, WalkArr, CurrentInv, Walked,
         MidRound, Improved
    <2> QED
      BY <1>1, <1>2, <2>1, <2>2 DEF Direct, ShortInv
  <1>5. CASE StartWalk
    <2>1. pc = "pick" /\ pc' = "walk" /\ todo' = marked
      BY <1>5 DEF StartWalk
    <2>2. WalkingInv'
      BY <1>1, <2>1 DEF Direct, WalkingInv, Rested, WalkFrom, WalkArr
    <2>3. CurrentInv'
      <3>1. \A s \in todo' : parents[k][s].set
        BY <2>1 DEF IInv, TypeInv, TypeOK, Direct, CurrentInv
      <3>2. \A s \in Stops : ~Walked(k, s)' /\ (parents[k][s].set => parents[k][s].leg.arr = tau[s])
        BY <1>1, <2>1 DEF Direct, CurrentInv, Walked, MidRound
      <3>3. Improved' => bestTargetArrival' = tau'[input'.target]
        BY <1>1, <2>1 DEF Direct, CurrentInv, MidRound, Improved
      <3> QED
        BY <1>1, <2>1, <3>1, <3>2, <3>3 DEF CurrentInv
    <2> QED
      BY <1>1, <1>2, <2>1, <2>2, <2>3 DEF Direct, ShortInv
  <1>6. CASE UNCHANGED vars
    BY <1>6 DEF vars, Direct, WalkingInv, Rested, WalkFrom, WalkArr, HopsInv, HopOK, CurrentInv,
       ShortInv, Walked, MidRound, Improved
  <1> QED
    BY <1>3, <1>4, <1>5, <1>6

LEMMA ScanStopDirect ==
  ASSUME IInv, IInv', Direct, ScanStop
  PROVE  Direct'
  <1>1. /\ UNCHANGED <<input, k, queue, todo, tauPrev, trace, journeys>>
        /\ pc = "scan" /\ pc' \in {"scan", "pick"} /\ MidRound /\ MidRound'
        /\ TypeInv /\ TypeInv' /\ Alight(Scanned) /\ Improvement
    <2>1. TypeInv /\ TypeInv'
      BY DEF IInv
    <2>2. pc' \in {"scan", "pick"}
      BY <2>1, ScanStopMoves
    <2> QED
      BY <2>1, <2>2, AlightImproves DEF ScanStop, MidRound
  <1>2. CASE UNCHANGED labels
    <2>1. UNCHANGED <<tau, parents, marked, bestTargetArrival, improvedTarget>>
      BY <1>2 DEF labels
    <2>2. WalkingInv' /\ HopsInv'
      BY <1>1, <2>1 DEF Direct, WalkingInv, Rested, WalkFrom, WalkArr, HopsInv, HopOK, Walked
    <2>3. CurrentInv'
      BY <1>1, <2>1 DEF Direct, CurrentInv, Walked, MidRound, Improved
    <2> QED
      BY <1>1, <2>2, <2>3 DEF Direct, ShortInv
  <1>3. ASSUME NEW leg, Rode(leg)
        PROVE  Direct'
    <2>1. /\ leg.to \in Stops /\ k \in 0..MaxRounds /\ MaxRounds \in Nat /\ k > 0
          /\ leg.arr \in Int /\ tau \in [Stops -> Int] /\ tau' \in [Stops -> Int]
          /\ bestTargetArrival \in Int /\ bestTargetArrival' <= bestTargetArrival
          /\ parents \in [0..MaxRounds -> [Stops -> Parent]] /\ input.target \in Stops
          /\ bestTargetArrival' \in Int
      <3>1. /\ k \in 0..MaxRounds /\ MaxRounds \in Nat /\ k > 0 /\ input.target \in Stops
        BY <1>1, Numbers DEF TypeInv, RoundsInv
      <3>2. /\ tau \in [Stops -> Int] /\ tau' \in [Stops -> Int] /\ bestTargetArrival \in Int
            /\ bestTargetArrival' \in Int
            /\ parents \in [0..MaxRounds -> [Stops -> Parent]]
        BY <1>1 DEF TypeInv, TypeOK
      <3>3. leg.to \in Stops /\ leg.arr \in Int
        BY <1>3 DEF Rode, Leg
      <3> QED
        BY <1>3, <3>1, <3>2, <3>3 DEF Rode
    <2>2. /\ parents'[k][leg.to].set /\ parents'[k][leg.to].leg = leg
          /\ parents'[k][leg.to].prevRound = k - 1
          /\ \A s \in Stops : s # leg.to => parents'[k][s] = parents[k][s]
          /\ \A r \in 0..MaxRounds, s \in Stops : r # k => parents'[r][s] = parents[r][s]
      BY <1>1, <1>3 DEF Rode, ParentOf, Improvement
    <2>3. \A s \in Stops : ~Walked(k, s)' /\ ~Walked(k, s)
      BY <1>1, <1>3, <2>2 DEF Direct, CurrentInv, Walked, Rode
    <2>4. WalkingInv'
      <3> SUFFICES ASSUME NEW s \in Stops, s \notin marked' PROVE Rested(s)'
        BY <1>1 DEF WalkingInv
      <3>1. s \notin marked /\ tau'[s] = tau[s]
        BY <1>3 DEF Rode
      <3>2. Rested(s)
        BY <1>1, <3>1 DEF Direct, WalkingInv
      <3> QED
        BY <1>1, <2>1, <3>1, <3>2, ImprovementKeepsRested
    <2>5. HopsInv'
      <3> SUFFICES ASSUME NEW r \in 0..MaxRounds, NEW s \in Stops, parents'[r][s].set
                   PROVE  HopOK(r, s)'
        BY <1>1 DEF HopsInv
      <3>1. CASE r # k
        <4>1. parents[r][s].leg.from \in Stops /\ parents[r][s].leg.arr \in Int
          BY <1>1, Numbers
        <4>2. parents'[r][s] = parents[r][s] /\ \A u \in Stops : parents'[r][u] = parents[r][u]
          BY <2>2, <3>1
        <4>3. Walked(r, parents[r][s].leg.from)' => Walked(r, parents[r][s].leg.from)
          BY <4>1, <4>2 DEF Walked
        <4>4. bestTargetArrival < parents[r][s].leg.arr => bestTargetArrival' < parents[r][s].leg.arr
          BY <2>1, <4>1
        <4> QED
          BY <1>1, <4>1, <4>2, <4>3, <4>4 DEF Direct, HopsInv, HopOK
      <3>2. CASE r = k /\ s = leg.to
        BY <1>3, <2>1, <2>2, <3>2 DEF Rode, HopOK
      <3>3. CASE r = k /\ s # leg.to
        <4>1. parents'[r][s] = parents[r][s] /\ ~IsWalk(parents[r][s].leg)
          BY <2>2, <2>3, <3>3 DEF Walked
        <4> QED
          BY <2>2, <3>3, <4>1 DEF Direct, HopsInv, HopOK
      <3> QED
        BY <3>1, <3>2, <3>3
    <2>6. CurrentInv'
      <3>1. \A s \in Stops : parents'[k][s].set => parents'[k][s].leg.arr = tau'[s]
        BY <1>1, <1>3, <2>2 DEF Direct, CurrentInv, Rode
      <3>2. \A s \in Stops : s \in marked' => parents'[k][s].set
        BY <1>1, <1>3, <2>2 DEF Direct, CurrentInv, Rode
      <3>3. Improved' => bestTargetArrival' = tau'[input.target]
        <4>1. Improved' <=> improvedTarget \/ leg.to = input.target
          BY <1>1, <1>3 DEF Improved, Rode
        <4>2. CASE leg.to = input.target
          BY <1>3, <4>2 DEF Rode
        <4>3. CASE leg.to # input.target
          BY <1>1, <1>3, <2>1, <4>1, <4>3 DEF Rode, Direct, CurrentInv, Improved
        <4> QED
          BY <4>2, <4>3
      <3> QED
        BY <1>1, <2>3, <3>1, <3>2, <3>3 DEF CurrentInv
    <2> QED
      BY <1>1, <2>4, <2>5, <2>6 DEF Direct, ShortInv
  <1> QED
    BY <1>1, <1>2, <1>3, AlightRides

(***************************************************************************)
(* A stop that was walked to is not walked on from: the walk from where    *)
(* the rider set out is as good, and that stop is rested.                  *)
(***************************************************************************)
LEMMA WalksLeaveRides ==
  ASSUME IInv, WalksClosed(input), Direct, pc = "walk", NEW u \in todo, NEW s \in Walks(u)
  PROVE  /\ s \in Stops /\ WalkArr(u, s) < bestTargetArrival
         /\ ~Walked(k, u)
  <1>1. /\ TypeInv /\ MidRound /\ k \in 0..MaxRounds /\ u \in Stops /\ tauBest = tau
        /\ InputOK(input) /\ bestTargetArrival \in Int /\ \A t \in Stops : tau[t] \in Int
    BY LabelFacts DEF IInv, LabelsInv, TypeInv, TypeOK, MidRound
  <1>2. /\ s \in Stops /\ s # u /\ Foot(input, u, s) /\ input.foot[<<u, s>>] \in Nat
        /\ WalkArr(u, s) = tau[u] + input.foot[<<u, s>>]
        /\ WalkArr(u, s) < tau[s] /\ WalkArr(u, s) \in Int
    BY <1>1, WalksFacts
  <1>3. WalkArr(u, s) < bestTargetArrival
    <2>1. CASE ReachesTarget(u) /\ input.target < s
      <3>1. WalkArr(u, s) < WalkArr(u, input.target) /\ WalkArr(u, input.target) < bestTargetArrival
        BY <2>1 DEF Walks, ReachesTarget, Improves
      <3>2. WalkArr(u, input.target) \in Int
        <4>1. input.target \in Stops /\ input.foot[<<u, input.target>>] \in Nat
          BY <1>1, <2>1, WalkFacts DEF ReachesTarget
        <4> QED
          BY <1>1, <4>1 DEF WalkArr
      <3> QED
        BY <1>1, <1>2, <3>1, <3>2
    <2>2. CASE ~(ReachesTarget(u) /\ input.target < s)
      BY <2>2 DEF Walks, Improves
    <2> QED
      BY <2>1, <2>2
  <1>4. ASSUME Walked(k, u)
        PROVE  FALSE
    <2> DEFINE v == parents[k][u].leg.from
    <2>1. /\ v \in Stops /\ Foot(input, v, u) /\ input.foot[<<v, u>>] \in Nat
          /\ tau[u] = parents[k][u].leg.dep + input.foot[<<v, u>>]
          /\ parents[k][u].leg.dep \in Int
          /\ v \notin todo /\ tau[v] <= parents[k][u].leg.dep
      <3>1. parents[k][u].leg.arr = tau[u] /\ v \notin todo /\ tau[v] <= parents[k][u].leg.dep
        BY <1>1, <1>4 DEF Direct, CurrentInv, Walked
      <3> QED
        BY <1>1, <1>4, <3>1, WalkedLeg
    <2>2. Rested(v)
      BY <2>1 DEF Direct, WalkingInv
    <2>3. tau[v] + input.foot[<<v, u>>] <= tau[u]
      <3> HIDE DEF v
      <3> QED
        BY <1>1, <2>1
    <2>4. CASE v = s
      <3> HIDE DEF v
      <3> QED
        BY <1>1, <1>2, <2>1, <2>3, <2>4
    <2>5. CASE v # s
      <3>1. Foot(input, v, s) /\ input.foot[<<v, s>>] <= input.foot[<<v, u>>] + input.foot[<<u, s>>]
        BY <1>1, <1>2, <2>1, <2>5 DEF WalksClosed
      <3>2. input.foot[<<v, s>>] \in Nat
        BY <1>1, <1>2, <2>1, <3>1 DEF InputOK
      <3>3. \/ tau[s] <= tau[v] + input.foot[<<v, s>>]
            \/ bestTargetArrival <= tau[v] + input.foot[<<v, s>>]
        BY <1>2, <2>2, <3>1 DEF Rested, WalkFrom, WalkArr
      <3> HIDE DEF v
      <3>4. tau[v] \in Int /\ tau[u] \in Int /\ tau[s] \in Int
        BY <1>1, <1>2, <2>1
      <3>5. tau[v] + input.foot[<<v, s>>] <= WalkArr(u, s)
        BY <1>2, <2>1, <2>3, <3>1, <3>2, <3>4
      <3> QED
        BY <1>1, <1>2, <1>3, <3>2, <3>3, <3>4, <3>5
    <2> QED
      BY <2>4, <2>5
  <1> QED
    BY <1>2, <1>3, <1>4

(* A stop that others were walked to from may be improved on foot later;   *)
(* these then arrive after the target does.                                *)
LEMMA OvertakenWalks ==
  ASSUME IInv, WalksClosed(input), Direct, pc = "walk", NEW u \in todo, Relax(u), TypeInv',
         input' = input, NEW s \in Stops, Walked(k, s), s \notin Walks(u),
         parents[k][s].leg.from \in Walks(u)
  PROVE  bestTargetArrival' < parents[k][s].leg.arr
  <1> DEFINE w == parents[k][s].leg.from
  <1>1. /\ TypeInv /\ MidRound /\ k \in 0..MaxRounds /\ u \in Stops /\ tauBest = tau
        /\ InputOK(input) /\ bestTargetArrival' \in Int
        /\ \A t \in Stops : tau[t] \in Int
    BY LabelFacts DEF IInv, LabelsInv, TypeInv, TypeOK, MidRound
  <1>2. /\ w \in Stops /\ Foot(input, u, w) /\ input.foot[<<u, w>>] \in Nat
        /\ WalkArr(u, w) = tau[u] + input.foot[<<u, w>>] /\ WalkArr(u, w) < tau[w]
    BY <1>1, WalksFacts
  <1>3. /\ Foot(input, w, s) /\ input.foot[<<w, s>>] \in Nat
        /\ tau[s] = parents[k][s].leg.dep + input.foot[<<w, s>>]
        /\ parents[k][s].leg.dep \in Int /\ tau[w] <= parents[k][s].leg.dep
        /\ parents[k][s].leg.arr = tau[s]
    <2>1. parents[k][s].leg.arr = tau[s] /\ tau[w] <= parents[k][s].leg.dep
      BY <1>1 DEF Direct, CurrentInv, Walked
    <2> QED
      BY <1>1, <2>1, WalkedLeg
  <1>4. u # s
    BY WalksLeaveRides
  <1>5. /\ Foot(input, u, s)
        /\ input.foot[<<u, s>>] <= input.foot[<<u, w>>] + input.foot[<<w, s>>]
    BY <1>1, <1>2, <1>3, <1>4 DEF WalksClosed
  <1>6. input.foot[<<u, s>>] \in Nat
    BY <1>1, <1>5 DEF InputOK
  <1>7. tau[u] \in Int /\ tau[w] \in Int /\ tau[s] \in Int
    BY <1>1, <1>2
  <1>8. tau[u] + input.foot[<<u, s>>] < tau[s]
    <2> DEFINE a == input.foot[<<u, w>>]
               b == input.foot[<<w, s>>]
               c == input.foot[<<u, s>>]
    <2>1. /\ a \in Nat /\ b \in Nat /\ c \in Nat /\ c <= a + b /\ tau[u] + a < tau[w]
          /\ tau[w] + b <= tau[s]
      BY <1>2, <1>3, <1>5, <1>6, <1>7
    <2> SUFFICES tau[u] + c < tau[s]
      OBVIOUS
    <2> HIDE DEF a, b, c, w
    <2> QED
      BY <1>7, <2>1
  <1>9. \/ tau[s] <= tau[u] + input.foot[<<u, s>>]
        \/ bestTargetArrival' <= tau[u] + input.foot[<<u, s>>]
    <2>1. s \in WalkFrom(u)
      BY <1>5 DEF WalkFrom
    <2>2. tau'[s] = tau[s]
      BY DEF Relax
    <2> QED
      BY <1>1, <2>1, <2>2, RelaxedFrom DEF WalkArr
  <1> QED
    BY <1>1, <1>3, <1>6, <1>7, <1>8, <1>9

LEMMA WalkFromStopDirect ==
  ASSUME IInv, IInv', WalksClosed(input), Direct, WalkFromStop
  PROVE  Direct'
  <1>1. /\ UNCHANGED <<input, pc, k, trace, journeys>> /\ pc = "walk"
        /\ MidRound /\ MidRound' /\ TypeInv /\ TypeInv' /\ k > 0
        /\ k \in 0..MaxRounds /\ MaxRounds \in Nat /\ input.target \in Stops
        /\ tau \in [Stops -> Int] /\ tau' \in [Stops -> Int]
        /\ parents \in [0..MaxRounds -> [Stops -> Parent]]
        /\ bestTargetArrival \in Int /\ bestTargetArrival' \in Int
    BY Numbers DEF IInv, WalkFromStop, MidRound, TypeInv, TypeOK, RoundsInv
  <1>2. PICK u \in todo : Relax(u) /\ todo' = todo \ {u}
    BY DEF WalkFromStop
  <1>3. u \in Stops /\ parents[k][u].set
    BY <1>1 DEF TypeInv, TypeOK, Direct, CurrentInv
  <1>4. Improvement
    BY <1>1, <1>2, <1>3, RelaxImproves
  <1>5. /\ bestTargetArrival' <= bestTargetArrival /\ tau'[u] = tau[u]
        /\ bestTargetArrival' = IF tau'[input.target] # tau[input.target]
                                THEN tau'[input.target] ELSE bestTargetArrival
    BY <1>1, <1>2, <1>3, RelaxedFrom
  <1>6. /\ \A r \in 0..MaxRounds, s \in Stops : r # k => parents'[r][s] = parents[r][s]
        /\ \A s \in Stops : s \notin Walks(u) => tau'[s] = tau[s] /\ parents'[k][s] = parents[k][s]
        /\ \A s \in Stops : tau'[s] <= tau[s]
    <2>1. \A s \in Stops : s \notin Walks(u) => tau'[s] = tau[s] /\ parents'[k][s] = parents[k][s]
      BY <1>1, <1>2 DEF Relax
    <2> QED
      BY <1>1, <1>4, <2>1 DEF Improvement
  <1>7. ASSUME NEW s \in Walks(u)
        PROVE  /\ tau'[s] = WalkArr(u, s) /\ parents'[k][s].set
               /\ parents'[k][s].prevRound = k /\ IsWalk(parents'[k][s].leg)
               /\ parents'[k][s].leg.from = u /\ parents'[k][s].leg.dep = tau[u]
               /\ parents'[k][s].leg.arr = WalkArr(u, s)
               /\ ~Walked(k, u)
    <2>1. s \in Stops /\ ~Walked(k, u)
      BY <1>1, <1>2, WalksLeaveRides
    <2>2. tau'[s] = WalkArr(u, s)
      BY <1>2, <2>1 DEF Relax
    <2>3. parents'[k][s] = ParentOf(WalkLeg(u, s, tau[u], WalkArr(u, s)), k)
      BY <1>1, <1>2, <2>1 DEF Relax
    <2> QED
      BY <2>1, <2>2, <2>3 DEF ParentOf, WalkLeg, NoRun, IsWalk
  <1>8. u \notin Walks(u)
    BY <1>1, <1>3, WalksFacts
  <1>9. WalkingInv'
    BY WalkFromStopWalking DEF Direct
  <1>10. HopsInv'
    <2> SUFFICES ASSUME NEW r \in 0..MaxRounds, NEW s \in Stops, parents'[r][s].set
                 PROVE  HopOK(r, s)'
      BY <1>1 DEF HopsInv
    <2>1. CASE r # k
      <3>1. parents[r][s].leg.from \in Stops /\ parents[r][s].leg.arr \in Int
        BY <1>1, Numbers
      <3>2. parents'[r][s] = parents[r][s] /\ \A t \in Stops : parents'[r][t] = parents[r][t]
        BY <1>6, <2>1
      <3>3. Walked(r, parents[r][s].leg.from)' => Walked(r, parents[r][s].leg.from)
        BY <3>1, <3>2 DEF Walked
      <3>4. bestTargetArrival < parents[r][s].leg.arr => bestTargetArrival' < parents[r][s].leg.arr
        BY <1>1, <1>5, <3>1
      <3> QED
        BY <1>1, <3>1, <3>2, <3>3, <3>4 DEF Direct, HopsInv, HopOK
    <2>2. CASE r = k /\ s \in Walks(u)
      <3>1. parents'[k][u] = parents[k][u]
        BY <1>3, <1>6, <1>8
      <3>2. parents'[k][s].leg.from = u /\ ~Walked(k, u)'
        BY <1>1, <1>7, <2>2, <3>1 DEF Walked
      <3> QED
        BY <1>1, <1>3, <1>7, <2>2, <3>1, <3>2 DEF HopOK
    <2>3. CASE r = k /\ s \notin Walks(u)
      <3> DEFINE w == parents[k][s].leg.from
      <3>1. parents'[k][s] = parents[k][s] /\ w \in Stops /\ parents[k][s].leg.arr \in Int
        BY <1>1, <1>6, <2>3, Numbers
      <3>2. HopOK(k, s) /\ parents[k][s].set
        BY <1>1, <2>3, <3>1 DEF Direct, HopsInv
      <3>3. IsWalk(parents[k][s].leg) => parents[k][w].set
        BY <1>1, <3>2 DEF HopOK
      <3>4. CASE w \in Walks(u)
        <4>1. IsWalk(parents[k][s].leg) => bestTargetArrival' < parents[k][s].leg.arr
          BY <1>1, <1>2, <2>3, <3>2, <3>4, OvertakenWalks DEF Walked
        <4>2. parents'[k][w].set
          BY <1>7, <3>4
        <4> QED
          BY <1>1, <2>3, <3>1, <3>2, <4>1, <4>2 DEF HopOK
      <3>5. CASE w \notin Walks(u)
        <4>1. parents'[k][w] = parents[k][w]
          BY <1>6, <3>1, <3>5
        <4>2. Walked(k, w)' => Walked(k, w)
          BY <1>1, <3>1, <4>1 DEF Walked
        <4>3. bestTargetArrival < parents[k][s].leg.arr => bestTargetArrival' < parents[k][s].leg.arr
          BY <1>1, <1>5, <3>1
        <4> QED
          BY <1>1, <2>3, <3>1, <3>2, <4>1, <4>2, <4>3 DEF HopOK
      <3> QED
        BY <3>4, <3>5
    <2> QED
      BY <2>1, <2>2, <2>3
  <1>11. CurrentInv'
    <2>1. ASSUME NEW s \in Stops, parents'[k][s].set
          PROVE  parents'[k][s].leg.arr = tau'[s]
      <3>1. CASE s \in Walks(u)
        BY <1>7, <3>1
      <3>2. CASE s \notin Walks(u)
        BY <1>1, <1>6, <2>1, <3>2 DEF Direct, CurrentInv
      <3> QED
        BY <3>1, <3>2
    <2>2. ASSUME NEW s \in todo'
          PROVE  parents'[k][s].set
      <3>1. s \in Stops /\ parents[k][s].set
        BY <1>1, <1>2 DEF TypeInv, TypeOK, Direct, CurrentInv
      <3> QED
        BY <1>6, <1>7, <3>1
    <2>3. ASSUME NEW s \in Stops, Walked(k, s)'
          PROVE  LET leg == parents'[k][s].leg
                 IN  leg.from \notin todo' /\ tau'[leg.from] <= leg.dep
      <3>1. CASE s \in Walks(u)
        <4>1. tau[u] \in Int
          BY <1>1, <1>3
        <4> QED
          BY <1>2, <1>5, <1>7, <3>1, <4>1
      <3>2. CASE s \notin Walks(u)
        <4> DEFINE leg == parents[k][s].leg
        <4>1. parents'[k][s] = parents[k][s] /\ Walked(k, s)
          BY <1>1, <1>6, <2>3, <3>2 DEF Walked
        <4>2. leg.from \notin todo /\ tau[leg.from] <= leg.dep
          BY <1>1, <4>1 DEF Direct, CurrentInv
        <4>3. leg.from \in Stops /\ leg.dep \in Int
          BY <1>1, Numbers
        <4> HIDE DEF leg
        <4>4. tau'[leg.from] <= leg.dep
          BY <1>1, <1>6, <4>2, <4>3
        <4> QED
          BY <1>2, <4>1, <4>2, <4>4 DEF leg
      <3> QED
        BY <3>1, <3>2
    <2>4. Improved' => bestTargetArrival' = tau'[input.target]
      <3>1. CASE tau'[input.target] # tau[input.target]
        BY <1>5, <3>1
      <3>2. CASE tau'[input.target] = tau[input.target]
        <4>1. improvedTarget' => improvedTarget
          BY <1>1, <1>4, <3>2 DEF Improvement
        <4> QED
          BY <1>1, <1>5, <3>2, <4>1 DEF Improved, Direct, CurrentInv
      <3> QED
        BY <3>1, <3>2
    <2> QED
      BY <1>1, <2>1, <2>2, <2>3, <2>4 DEF CurrentInv
  <1> QED
    BY <1>1, <1>9, <1>10, <1>11 DEF Direct, ShortInv

LEMMA EndRoundDirect ==
  ASSUME IInv, IInv', Direct, EndRound
  PROVE  Direct'
  <1>1. /\ UNCHANGED <<input, k, tau, bestTargetArrival, improvedTarget, parents, journeys>>
        /\ pc = "walk" /\ todo = {} /\ MidRound
        /\ \/ improvedTarget /\ pc' = "reconstruct" /\ trace' = [IdleTrace(input) EXCEPT !.round = k]
           \/ ~improvedTarget /\ pc' = "round"
        /\ k \in Int
    BY LabelFacts DEF EndRound, labels, MidRound
  <1>2. WalkingInv' /\ HopsInv'
    BY <1>1 DEF Direct, WalkingInv, Rested, WalkFrom, WalkArr, HopsInv, HopOK, Walked
  <1>3. CurrentInv'
    BY <1>1 DEF Direct, CurrentInv, MidRound, Improved
  <1>4. ShortInv'
    <2> SUFFICES ASSUME pc' = "reconstruct" PROVE ShortInv'
      BY DEF ShortInv
    <2>1. trace'.rev = <<>> /\ trace'.round = k
      BY <1>1 DEF IdleTrace
    <2>2. Len(trace'.rev) = 0
      BY <2>1
    <2> QED
      BY <1>1, <2>1, <2>2 DEF ShortInv, NoWalkFollows
  <1> QED
    BY <1>1, <1>2, <1>3, <1>4 DEF Direct

(***************************************************************************)
(* The leg reconstruct follows arrives no later than the target is         *)
(* reached, and is no walk if it is followed after one.                    *)
(***************************************************************************)
LEMMA FollowedLeg ==
  ASSUME IInv, ImproveInv, Direct, pc = "reconstruct", trace.stop # input.source,
         NEW r \in 0..trace.round, Follows(r)
  PROVE  LET leg == parents[r][trace.stop].leg
             n   == Len(trace.rev)
         IN  /\ leg \in Leg /\ r \in 0..MaxRounds /\ HopOK(r, trace.stop)
             /\ leg.arr <= tau[input.target]
             /\ n > 0 /\ IsWalk(trace.rev[n]) => ~IsWalk(leg)
  <1> DEFINE stop == trace.stop  round == trace.round  rev == trace.rev  n == Len(rev)
             leg == parents[r][stop].leg
  <1>1. /\ TypeInv /\ ParentsInv /\ InputOK(input)
        /\ stop \in Stops /\ round \in 0..MaxRounds /\ MaxRounds \in Nat
        /\ rev \in Seq(Leg) /\ n \in Nat /\ TraceOf(rev, stop, round)
        /\ tau[input.target] \in Int
    <2>1. TypeInv /\ ParentsInv /\ TraceOf(rev, stop, round)
      BY DEF IInv, TraceInv
    <2>2. stop \in Stops /\ round \in 0..MaxRounds /\ rev \in Seq(Leg)
      BY <2>1 DEF TypeInv, TypeOK
    <2> HIDE DEF stop, round, rev
    <2> QED
      BY <2>1, <2>2, Numbers
  <1>2. /\ r \in 0..MaxRounds /\ leg \in Leg /\ leg.arr \in Int
        /\ LastSet(stop, round, r) /\ parents[r][stop].set
    BY <1>1, Numbers DEF Follows, LastSet
  <1>3. HopOK(r, stop)
    BY <1>1, <1>2 DEF Direct, HopsInv
  <1>4. CASE n = 0
    <2>1. trace.rev = <<>>
      BY <1>1, <1>4
    <2>2. stop = input.target /\ round = k /\ TargetParent
      BY <2>1 DEF ImproveInv
    <2>3. r = k
      BY <1>1, <1>2, <2>2 DEF LastSet, TargetParent
    <2> QED
      BY <1>1, <1>2, <1>3, <1>4, <2>2, <2>3 DEF TargetParent
  <1>5. CASE n > 0
    <2>1. /\ rev # <<>> /\ rev[n] \in Leg /\ rev[n].dep \in Int /\ rev[n].arr \in Int
          /\ LegOK(input, rev[n]) /\ n \in 1..n
      <3> HIDE DEF stop, round, rev
      <3>1. n \in 1..n /\ rev # <<>> /\ rev[n] \in Leg
        BY <1>1, <1>5
      <3> QED
        BY <1>1, <3>1 DEF TraceOf, Leg
    <2>2. rev[n].dep <= rev[n].arr
      BY <1>1, <2>1, LegForward
    <2>3. rev[n].arr <= tau[input.target]
      BY <2>1 DEF Direct, ShortInv
    <2>4. PICK q \in 0..round : parents[q][stop].set /\ parents[q][stop].leg.arr <= rev[n].dep
      BY <1>1, <2>1 DEF TraceOf, ReachedBy, ReachedVia
    <2>5. leg.arr <= rev[n].dep
      <3> HIDE DEF stop, round, rev, n
      <3> QED
        BY <1>1, <1>2, <2>1, <2>4, LastSetInTime
    <2>6. IsWalk(rev[n]) => ~IsWalk(leg)
      <3> SUFFICES ASSUME IsWalk(rev[n]) PROVE ~IsWalk(leg)
        OBVIOUS
      <3>1. parents[round][stop].set /\ ~Walked(round, stop)
        BY <1>5 DEF Direct, ShortInv
      <3>2. r = round
        BY <1>1, <1>2, <3>1 DEF LastSet
      <3> QED
        BY <3>1, <3>2 DEF Walked
    <2> HIDE DEF leg, rev, n
    <2>7. leg.arr <= tau[input.target]
      BY <1>1, <1>2, <2>1, <2>2, <2>3, <2>5
    <2> QED
      BY <1>2, <1>3, <2>6, <2>7 DEF leg, rev, n
  <1> QED
    BY <1>1, <1>4, <1>5

LEMMA FollowParentDirect ==
  ASSUME IInv, IInv', ImproveInv, Direct, FollowParent
  PROVE  Direct'
  <1>1. /\ UNCHANGED <<input, k, tau, bestTargetArrival, improvedTarget, parents, journeys>>
        /\ pc = "reconstruct" /\ trace.stop # input.source /\ TypeInv
        /\ k \in 0..MaxRounds /\ MaxRounds \in Nat
        /\ trace.rev \in Seq(Leg) /\ Len(trace.rev) \in Nat /\ trace.round \in 0..MaxRounds
        /\ tau[input.target] \in Int
    <2>1. /\ UNCHANGED <<input, k, tau, bestTargetArrival, improvedTarget, parents, journeys>>
          /\ pc = "reconstruct" /\ trace.stop # input.source /\ TypeInv
      BY DEF IInv, FollowParent, labels
    <2>2. trace.rev \in Seq(Leg) /\ trace.round \in 0..MaxRounds
      BY <2>1 DEF TypeInv, TypeOK
    <2> QED
      BY <2>1, <2>2, Numbers
  <1>2. PICK r \in 0..trace.round : Follows(r)
    <2>1. pc' # "noparent"
      BY DEF IInv, ReconstructionFindsParents
    <2> QED
      BY <1>1, <2>1, FollowParentMoves
  <1> DEFINE p == parents[r][trace.stop]  leg == p.leg  u == leg.from
             n == Len(trace.rev)  more == trace'.rev
  <1>3. /\ leg \in Leg /\ leg.arr \in Int /\ r \in 0..MaxRounds /\ HopOK(r, trace.stop)
        /\ leg.arr <= tau[input.target]
        /\ n > 0 /\ IsWalk(trace.rev[n]) => ~IsWalk(leg)
    BY <1>1, <1>2, FollowedLeg DEF Leg
  <1>4. /\ trace'.stop = u /\ trace'.round = p.prevRound /\ more = Append(trace.rev, leg)
        /\ pc' \in {"cycle", "reconstruct"}
    BY <1>2 DEF Follows
  <1>5. /\ Len(more) = n + 1 /\ more[n + 1] = leg
        /\ \A i \in 1..n : more[i] = trace.rev[i]
    <2> HIDE DEF leg
    <2> QED
      BY <1>1, <1>3, <1>4
  <1>6. /\ \A i \in 1..n : trace.rev[i].arr <= tau[input.target]
        /\ NoWalkFollows(trace.rev)
        /\ IF n > 0 /\ IsWalk(trace.rev[n])
           THEN n <= 2 * (k - trace.round) + 1
           ELSE n <= 2 * (k - trace.round)
    BY <1>1 DEF Direct, ShortInv
  <1>7. WalkingInv' /\ HopsInv' /\ CurrentInv'
    BY <1>1, <1>4 DEF Direct, WalkingInv, Rested, WalkFrom, WalkArr, HopsInv, HopOK, Walked,
       CurrentInv, MidRound, Improved
  <1>8. /\ \A i \in 1..(n + 1) : more[i].arr <= tau[input.target]
        /\ NoWalkFollows(more)
    <2> HIDE DEF leg, n, more
    <2>1. n \in Nat
      BY <1>1 DEF n
    <2>2. \A i \in 1..(n + 1) : more[i].arr <= tau[input.target]
      BY <1>3, <1>5, <1>6, <2>1
    <2>3. ASSUME NEW i \in 1..n, IsWalk(more[i])
          PROVE  ~IsWalk(more[i + 1])
      <3>1. CASE i = n
        BY <1>3, <1>5, <2>1, <2>3, <3>1
      <3>2. CASE i # n
        <4>1. i \in 1..(n - 1) /\ i + 1 \in 1..n
          BY <2>1, <3>2
        <4> QED
          BY <1>5, <1>6, <2>3, <4>1 DEF NoWalkFollows, n
      <3> QED
        BY <3>1, <3>2
    <2>4. Len(more) - 1 = n
      BY <1>5, <2>1
    <2> QED
      BY <2>2, <2>3, <2>4 DEF NoWalkFollows
  <1>9. IF IsWalk(leg)
        THEN /\ n + 1 <= 2 * (k - p.prevRound) + 1
             /\ u = input.source \/ (parents[p.prevRound][u].set /\ ~Walked(p.prevRound, u))
        ELSE n + 1 <= 2 * (k - p.prevRound)
    <2>1. CASE IsWalk(leg)
      <3>1. p.prevRound = r /\ n <= 2 * (k - trace.round)
        BY <1>3, <1>6, <2>1 DEF HopOK
      <3>2. n + 1 <= 2 * (k - r) + 1
        <4> HIDE DEF n
        <4> QED
          BY <1>1, <1>3, <3>1 DEF n
      <3>3. u = input.source \/ (parents[r][u].set /\ (Walked(r, u) => bestTargetArrival < leg.arr))
        BY <1>3, <2>1 DEF HopOK
      <3>4. bestTargetArrival = tau[input.target]
        BY <1>1 DEF Direct, CurrentInv, Improved
      <3>5. ~(bestTargetArrival < leg.arr)
        <4> HIDE DEF leg
        <4> QED
          BY <1>1, <1>3, <3>4
      <3> QED
        BY <2>1, <3>1, <3>2, <3>3, <3>5
    <2>2. CASE ~IsWalk(leg)
      <3>1. p.prevRound = r - 1 /\ n <= 2 * (k - trace.round) + 1
        <4>1. n \in Nat
          BY <1>1
        <4> QED
          BY <1>1, <1>3, <1>6, <2>2, <4>1 DEF HopOK
      <3>2. n + 1 <= 2 * (k - (r - 1))
        <4> HIDE DEF n
        <4> QED
          BY <1>1, <1>3, <3>1 DEF n
      <3> QED
        BY <2>2, <3>1, <3>2
    <2> QED
      BY <2>1, <2>2
  <1>10. pc' # "cycle"
    <2>1. n + 1 <= 2 * (k - p.prevRound) + 1 /\ p.prevRound \in 0..MaxRounds
      <3>1. p.prevRound \in 0..MaxRounds
        BY <1>1, <1>3, Numbers DEF TypeInv, TypeOK
      <3> HIDE DEF p, n
      <3> QED
        BY <1>1, <1>9, <3>1 DEF n
    <2>2. ~(n + 1 > LegLimit)
      <3> HIDE DEF p, n
      <3> QED
        BY <1>1, <2>1 DEF LegLimit, n
    <2>3. pc' = "cycle" => Len(more) > LegLimit
      BY <1>1, <1>2 DEF FollowParent
    <2> QED
      BY <1>5, <2>2, <2>3
  <1>11. ShortInv'
    <2> SUFFICES ASSUME pc' = "reconstruct" PROVE ShortInv'
      BY DEF ShortInv
    <2> HIDE DEF p, leg, u, n, more
    <2>1. n \in Nat /\ (n + 1) > 0
      BY <1>1 DEF n
    <2> QED
      BY <1>1, <1>4, <1>5, <1>8, <1>9, <2>1 DEF ShortInv, Walked, more
  <1> QED
    BY <1>1, <1>7, <1>10, <1>11 DEF Direct

LEMMA EmitJourneyDirect ==
  ASSUME IInv, IInv', ImproveInv, Direct, EmitJourney
  PROVE  Direct'
  <1> DEFINE j == JourneyOf(trace.rev)  n == Len(trace.rev)
             legs == [i \in 1..n |-> trace.rev[n + 1 - i]]
  <1>1. /\ UNCHANGED <<input, k, tau, bestTargetArrival, improvedTarget, parents>>
        /\ pc = "reconstruct" /\ pc' = "round" /\ journeys' = Append(journeys, j)
        /\ j \in Journey /\ journeys \in Seq(Journey)
        /\ trace.rev \in Seq(Leg) /\ n \in Nat
    <2>1. /\ UNCHANGED <<input, k, tau, bestTargetArrival, improvedTarget, parents>>
          /\ pc = "reconstruct" /\ TypeInv
      BY DEF IInv, EmitJourney, labels
    <2>2. trace.rev \in Seq(Leg) /\ journeys \in Seq(Journey)
      BY <2>1 DEF TypeInv, TypeOK
    <2> QED
      BY <2>1, <2>2, JourneyArrives
  <1>2. NoWalkFollows(j.legs)
    <2>1. /\ legs \in Seq(Leg) /\ Len(legs) = n /\ j.legs = legs
          /\ \A i \in 1..n : n + 1 - i \in 1..n /\ legs[i] = trace.rev[n + 1 - i]
      BY <1>1, ReversedLegs DEF JourneyOf
    <2>2. \A i \in 1..(n - 1) : IsWalk(trace.rev[i]) => ~IsWalk(trace.rev[i + 1])
      BY <1>1 DEF Direct, ShortInv, NoWalkFollows
    <2> HIDE DEF j, legs, n
    <2>3. ASSUME NEW i \in 1..(n - 1), IsWalk(legs[i]), IsWalk(legs[i + 1])
          PROVE  FALSE
      <3>1. /\ i \in 1..n /\ i + 1 \in 1..n /\ n - i \in 1..(n - 1)
            /\ n + 1 - i = (n - i) + 1 /\ n + 1 - (i + 1) = n - i
        BY <1>1
      <3>2. legs[i] = trace.rev[n + 1 - i] /\ legs[i + 1] = trace.rev[n + 1 - (i + 1)]
        BY <2>1, <3>1, Zenon
      <3>3. IsWalk(trace.rev[n - i]) /\ IsWalk(trace.rev[(n - i) + 1])
        BY <2>3, <3>1, <3>2, Zenon
      <3> QED
        BY <2>2, <3>1, <3>3, Zenon
    <2> QED
      BY <2>1, <2>3 DEF NoWalkFollows
  <1>3. \A i \in DOMAIN journeys' : NoWalkFollows(journeys'[i].legs)
    <2> HIDE DEF j, legs, n
    <2> DEFINE m == Len(journeys)
    <2>1. j \in Journey /\ journeys \in Seq(Journey) /\ journeys' = Append(journeys, j)
      BY <1>1
    <2>2. m \in Nat /\ DOMAIN journeys = 1..m /\ DOMAIN journeys' = 1..(m + 1)
      BY <2>1
    <2>3. journeys'[m + 1] = j /\ \A i \in 1..m : journeys'[i] = journeys[i]
      BY <2>1
    <2> HIDE DEF m
    <2>4. \A i \in 1..(m + 1) : i = m + 1 \/ i \in 1..m
      BY <2>2
    <2> QED
      BY <1>2, <2>2, <2>3, <2>4 DEF Direct
  <1>4. WalkingInv' /\ HopsInv' /\ CurrentInv'
    BY <1>1 DEF Direct, WalkingInv, Rested, WalkFrom, WalkArr, HopsInv, HopOK, Walked,
       CurrentInv, MidRound, Improved
  <1> QED
    BY <1>1, <1>3, <1>4 DEF Direct, ShortInv

LEMMA InitDirect == Init => DirectInv
  <1> SUFFICES ASSUME Init PROVE Direct
    BY DEF DirectInv
  <1>1. RoundsInv
    BY InitType DEF TypeInv
  <1>2. HopsInv
    BY <1>1 DEF Init, RoundsInv, HopsInv
  <1> QED
    BY <1>2 DEF Init, Direct, WalkingInv, CurrentInv, ShortInv, MidRound, Improved

LEMMA DirectKept == IInv /\ IInv' /\ ImproveInv /\ DirectInv /\ [Next]_vars => DirectInv'
  <1> SUFFICES ASSUME IInv, IInv', ImproveInv, DirectInv, [Next]_vars, WalksClosed(input)'
               PROVE  Direct'
    BY DEF DirectInv
  <1>1. WalksClosed(input) /\ Direct
    BY InputKept DEF DirectInv, WalksClosed
  <1> QED
    BY <1>1, SeedDirect, StartRoundDirect, QuietDirect, ScanStopDirect, WalkFromStopDirect,
       EndRoundDirect, FollowParentDirect, EmitJourneyDirect DEF Next, Returned

-----------------------------------------------------------------------------
(***************************************************************************)
(* All the invariants of a call hold together, whatever the network and    *)
(* the order in which Go iterates its maps: in particular, a call on a     *)
(* network in order never has a label earlier than the recurrence allows,  *)
(* and never one later but for target pruning.                             *)
(***************************************************************************)
THEOREM InvariantsHold == Spec => []InductiveInv
  <1>1. Init => InductiveInv
    BY InitInv, InitImprove, InitLadder, InitFaithful, InitDirect DEF InductiveInv
  <1>2. InductiveInv /\ IInv' /\ [Next]_vars => InductiveInv'
    BY OrderKept, LadderKept, FaithfulKept, DirectKept DEF InductiveInv
  <1> QED
    BY <1>1, <1>2, InvariantHolds, PTL DEF Spec

(***************************************************************************)
(* Where walks are transitively closed no journey walks twice in a row,    *)
(* although a stop improved on foot may be walked from again in the same   *)
(* round (raptor.go:200): reconstruct follows at most 2k + 1 legs and      *)
(* never gives up at its limit (raptor.go:259), nor for want of a parent.  *)
(***************************************************************************)
THEOREM ReconstructionAlwaysSucceeds == Spec => []ReconstructionSucceeds
  <1>1. InductiveInv => ReconstructionSucceeds
    BY DEF InductiveInv, IInv, DirectInv, Direct, ReconstructionSucceeds
  <1> QED
    BY <1>1, InvariantsHold, PTL

-----------------------------------------------------------------------------
(***************************************************************************)
(* The answer is the promised one, round by round.                         *)
(***************************************************************************)
Answer ==
  [i \in DOMAIN journeys |->
     [transfers |-> journeys[i].transfers, arrival |-> journeys[i].arrival]]

PromisedBest(n) == Promised(n)[input.target]

LEMMA AnswerGrows ==
  ASSUME TypeInv, NEW j \in Journey, journeys' = Append(journeys, j)
  PROVE  Answer' = Append(Answer, [transfers |-> j.transfers, arrival |-> j.arrival])
  <1> DEFINE n == Len(journeys)
             entry(x) == [transfers |-> x.transfers, arrival |-> x.arrival]
  <1>1. /\ journeys \in Seq(Journey) /\ n \in Nat /\ DOMAIN journeys = 1..n
        /\ DOMAIN journeys' = 1..(n + 1) /\ journeys'[n + 1] = j
        /\ \A i \in 1..n : journeys'[i] = journeys[i]
    BY DEF TypeInv, TypeOK
  <1>2. Answer = [i \in 1..n |-> entry(journeys[i])]
    BY <1>1 DEF Answer
  <1>3. Answer' = [i \in 1..(n + 1) |-> entry(journeys'[i])]
    BY <1>1 DEF Answer
  <1> HIDE DEF n, entry
  <1>4. Len(Answer) = n
    BY <1>1, <1>2
  <1>5. Append(Answer, entry(j)) = [i \in 1..(n + 1) |-> IF i = n + 1 THEN entry(j) ELSE Answer[i]]
    BY <1>1, <1>2, <1>4
  <1>6. ASSUME NEW i \in 1..(n + 1)
        PROVE  entry(journeys'[i]) = IF i = n + 1 THEN entry(j) ELSE Answer[i]
    <2>1. CASE i = n + 1
      BY <1>1, <2>1
    <2>2. CASE i # n + 1
      <3>1. i \in 1..n
        BY <1>1, <2>2
      <3> QED
        BY <1>1, <1>2, <2>2, <3>1
    <2> QED
      BY <2>1, <2>2
  <1>7. Answer' = Append(Answer, entry(j))
    BY <1>3, <1>5, <1>6
  <1> QED
    BY <1>7 DEF entry

(* What a round promises for the target is what it found.                  *)
LEMMA RoundAnswers ==
  ASSUME IInv, Faithful, \/ pc = "walk" /\ todo = {}
                         \/ pc = "reconstruct"
  PROVE  /\ k \in 1..MaxRounds
         /\ tau[input.target] = PromisedBest(k)
         /\ tauPrev[input.target] = PromisedBest(k - 1)
         /\ tau[input.target] <= tauPrev[input.target]
         /\ pc = "walk" => (improvedTarget <=> tau[input.target] < tauPrev[input.target])
         /\ pc = "reconstruct" => tau[input.target] < tauPrev[input.target]
  <1>1. InRound /\ (pc = "walk" => MidRound)
    BY DEF InRound, MidRound
  <1>2. k \in 1..MaxRounds /\ k \in 0..MaxRounds /\ input.target \in Stops
    BY <1>1, LabelFacts
  <1>3. /\ \A s \in Stops : Promised(k)[s] <= tau[s]
        /\ \A s \in Stops : tau[s] <= Promised(k)[s] \/ bestTargetArrival <= Promised(k)[s]
    <2>1. CASE pc = "walk" /\ todo = {}
      BY <2>1, RoundKeepsPromise
    <2>2. CASE pc = "reconstruct"
      BY <2>2 DEF Faithful, SoundInv, CompleteInv
    <2> QED
      BY <2>1, <2>2
  <1>4. tau[input.target] = PromisedBest(k)
    BY <1>2, <1>3, TargetIsExact DEF Faithful, ExactInv, PromisedBest
  <1> QED
    BY <1>1, <1>2, <1>4 DEF Faithful, ExactInv, Rungs, MarkedInv, PromisedBest

(* When a round improved nothing, neither would any later one.             *)
LEMMA NothingLeftToFind ==
  ASSUME IInv, Faithful, Finish
  PROVE  \A n \in k..MaxRounds : PromisedBest(n) = PromisedBest(k)
  <1>1. /\ pc = "round" /\ k \in 0..MaxRounds /\ MaxRounds \in Nat /\ InputOK(input)
        /\ Labelling(input, tau) /\ bestTargetArrival \in Int
        /\ input.target \in Stops /\ Infinity \in Int
        /\ \A s \in Stops : tau[s] \in Int /\ tau[s] <= Infinity
    BY LabelFacts, ConstantsAssumption DEF Finish
  <1>2. bestTargetArrival \in {tau[input.target], Infinity} /\ tauPrev = tau
    BY <1>1 DEF Faithful, ExactInv, Rungs, MarkedInv
  <1>3. bestTargetArrival <= Infinity
    BY <1>1, <1>2
  <1> DEFINE Kept(n) == /\ \A s \in Stops : Promised(n)[s] <= tau[s]
                        /\ NoLater(tau, Promised(n), bestTargetArrival)
  <1>4. Kept(k)
    BY <1>1 DEF Faithful, SoundInv, CompleteInv, NoLater
  <1>5. ASSUME marked = {}, NEW n \in 1..MaxRounds, n - 1 \in 0..MaxRounds, Kept(n - 1)
        PROVE  Kept(n)
    <2> DEFINE at == Promised(n - 1)
               onward == Onward(input, at)
    <2>1. Promised(n) = onward
      BY EarliestUnfolds DEF Promised
    <2>2. Labelling(input, at) /\ \A s \in Stops : at[s] \in Int
      BY <1>5, LabelFacts
    <2>3. \A s \in Stops : onward[s] <= at[s] /\ onward[s] \in Int
      BY <1>1, <2>2, OnwardMeaning DEF Labelling
    <2>4. \A pi \in DOMAIN input.patterns : \A i \in DOMAIN input.patterns[pi].stops :
            Exhausted(input.patterns[pi], i, tau, tau, bestTargetArrival)
      BY <1>1, <1>2, <1>5 DEF Faithful, BoardingInv, ScannedThrough, ExhaustedAt
    <2>5. NoWalkLeft(input, tau, bestTargetArrival)
      BY <1>1 DEF Faithful, WalkingInv, Rested, NoWalkLeft, WalkFrom, WalkArr
    <2>6. \A s \in Stops : tau[s] <= tau[s] /\ at[s] <= tau[s]
      BY <1>1, <1>5
    <2>7. NoLater(tau, at, bestTargetArrival)
      BY <1>5
    <2> HIDE DEF at
    <2>8. NoLater(tau, onward, bestTargetArrival)
      BY <1>1, <1>3, <2>2, <2>4, <2>5, <2>6, <2>7, RoundCompletes
    <2> HIDE DEF onward
    <2>9. \A s \in Stops : onward[s] <= tau[s]
      BY <1>1, <2>2, <2>3, <2>6
    <2> QED
      BY <2>1, <2>8, <2>9
  <1>6. \A n \in 0..MaxRounds : Kept(n) => tau[input.target] = PromisedBest(n)
    BY <1>2, TargetIsExact DEF NoLater, PromisedBest
  <1> HIDE DEF Kept
  <1>7. \A n \in k..MaxRounds : Kept(n)
    <2>1. CASE ~(k < MaxRounds)
      <3>1. \A n \in k..MaxRounds : n = k
        BY <1>1, <2>1
      <3> QED
        BY <1>4, <3>1
    <2>2. CASE marked = {}
      <3> DEFINE Lost == {n \in k..MaxRounds : ~Kept(n)}
      <3>1. SUFFICES ASSUME Lost # {} PROVE FALSE
        OBVIOUS
      <3>2. Lost \subseteq Nat
        BY <1>1
      <3>3. PICK m \in Lost : \A n \in Lost : ~(<<n, m>> \in OpToRel(<, Nat))
        BY <3>1, <3>2, NatLessThanWellFounded, WFMin
      <3>4. m \in k..MaxRounds /\ ~Kept(m) /\ m \in Nat /\ \A n \in Lost : ~(n < m)
        BY <3>2, <3>3 DEF OpToRel
      <3>5. m # k
        BY <1>4, <3>4
      <3>6. m - 1 \in k..MaxRounds /\ m - 1 < m /\ m \in 1..MaxRounds /\ m - 1 \in 0..MaxRounds
        BY <1>1, <3>4, <3>5
      <3>7. Kept(m - 1)
        BY <3>4, <3>6
      <3> QED
        BY <1>5, <2>2, <3>4, <3>6, <3>7
    <2> QED
      BY <2>1, <2>2 DEF Finish, MoreRounds
  <1>8. \A n \in k..MaxRounds : n \in 0..MaxRounds
    BY <1>1
  <1> QED
    BY <1>1, <1>4, <1>6, <1>7, <1>8

(* The round the promise is in.                                            *)
PromisedRound == IF pc \in {"seed", "round", "done"} THEN k ELSE k - 1

LEMMA Mapping ==
  /\ UNCHANGED <<input, PromisedRound, Answer, pc = "done">> => UNCHANGED Promise!vars
  /\ Promise!Round <=>
       /\ pc # "done" /\ PromisedRound < MaxRounds
       /\ PromisedRound' = PromisedRound + 1
       /\ Answer' = IF PromisedBest(PromisedRound + 1) < PromisedBest(PromisedRound)
                    THEN Append(Answer, [transfers |-> PromisedRound,
                                         arrival |-> PromisedBest(PromisedRound + 1)])
                    ELSE Answer
       /\ input' = input /\ (pc = "done")' = (pc = "done")
  /\ Promise!Return <=>
       /\ pc # "done"
       /\ \A n \in PromisedRound..MaxRounds : PromisedBest(n) = PromisedBest(PromisedRound)
       /\ (pc = "done")'
       /\ UNCHANGED <<input, PromisedRound, Answer>>
  BY DEF Promise!vars, Promise!Round, Promise!Return, Promise!Best, PromisedRound, Answer,
     PromisedBest, Promised

LEMMA StepKeepsPromise ==
  ASSUME InductiveInv, InductiveInv', [Next]_vars, InOrder(input)
  PROVE  Promise!Next \/ UNCHANGED Promise!vars
  <1> USE DEF InductiveInv
  <1>1. Faithful /\ TypeInv /\ k \in 0..MaxRounds /\ k \in Nat /\ MaxRounds \in Nat
    BY LabelFacts, ConstantsAssumption DEF FaithfulInv
  <1>2. input' = input
    BY InputKept
  <1>3. CASE Seed \/ StartRound \/ PickPattern \/ StartWalk \/ WalkFromStop \/ UNCHANGED vars
    <2>1. CASE Seed
      BY <1>2, <2>1, Mapping DEF Seed, Answer, PromisedRound
    <2>2. CASE StartRound
      <3>1. pc = "round" /\ pc' = "pick" /\ k' = k + 1 /\ journeys' = journeys
        BY <2>2 DEF StartRound
      <3>2. k' - 1 = k
        BY <1>1, <3>1
      <3> QED
        BY <1>2, <3>1, <3>2, Mapping DEF Answer, PromisedRound
    <2>3. CASE PickPattern \/ StartWalk \/ WalkFromStop
      <3>1. /\ pc \in {"pick", "walk"} /\ pc' \in {"scan", "walk"}
            /\ UNCHANGED <<journeys, k>>
        BY <2>3 DEF PickPattern, StartWalk, WalkFromStop
      <3> QED
        BY <1>2, <3>1, Mapping DEF Answer, PromisedRound
    <2>4. CASE UNCHANGED vars
      BY <1>2, <2>4, Mapping DEF vars, Answer, PromisedRound
    <2> QED
      BY <1>3, <2>1, <2>2, <2>3, <2>4
  <1>4. CASE ScanStop
    <2>1. pc = "scan" /\ pc' \in {"scan", "pick"} /\ UNCHANGED <<journeys, k>>
      BY <1>1, <1>4, ScanStopMoves DEF ScanStop
    <2> QED
      BY <1>2, <2>1, Mapping DEF Answer, PromisedRound
  <1>5. CASE FollowParent
    <2>1. pc = "reconstruct" /\ pc' \in {"reconstruct", "cycle", "noparent"}
      BY <1>1, <1>5, FollowParentMoves DEF Follows, FollowParent
    <2>2. UNCHANGED <<journeys, k>>
      BY <1>5 DEF FollowParent
    <2> QED
      BY <1>2, <2>1, <2>2, Mapping DEF Answer, PromisedRound
  <1>6. CASE EndRound /\ improvedTarget
    <2>1. pc = "walk" /\ pc' = "reconstruct" /\ UNCHANGED <<journeys, k>>
      BY <1>6 DEF EndRound
    <2> QED
      BY <1>2, <2>1, Mapping DEF Answer, PromisedRound
  <1>7. CASE EndRound /\ ~improvedTarget
    <2>1. pc = "walk" /\ todo = {} /\ pc' = "round" /\ UNCHANGED <<journeys, k>>
      BY <1>7 DEF EndRound
    <2>2. /\ k \in 1..MaxRounds
          /\ PromisedBest(k) = tau[input.target] /\ PromisedBest(k - 1) = tauPrev[input.target]
          /\ ~(tau[input.target] < tauPrev[input.target])
      BY <1>1, <1>7, <2>1, RoundAnswers
    <2>3. PromisedRound = k - 1 /\ PromisedRound + 1 = k /\ PromisedRound' = k
      BY <1>1, <2>1 DEF PromisedRound
    <2>4. Answer' = Answer
      BY <2>1 DEF Answer
    <2>5. ~(PromisedBest(k) < PromisedBest(k - 1))
      BY <2>2
    <2>6. k - 1 < MaxRounds
      BY <1>1, <2>2
    <2>7. Promise!Round
      BY <1>2, <2>1, <2>3, <2>4, <2>5, <2>6, Mapping
    <2> QED
      BY <2>7 DEF Promise!Next
  <1>8. CASE EmitJourney
    <2> DEFINE j == JourneyOf(trace.rev)
    <2>1. pc = "reconstruct" /\ k' = k
      BY <1>8 DEF EmitJourney
    <2>2. /\ journeys' = Append(journeys, j) /\ pc' = "round"
          /\ j \in Journey /\ j.arrival = tau[input.target]
      BY <1>8, JourneyArrives
    <2>3. j.transfers = k - 1
      BY <1>1, <1>8, EmitJourneyRungs DEF Faithful
    <2>4. /\ k \in 1..MaxRounds
          /\ PromisedBest(k) = tau[input.target] /\ PromisedBest(k - 1) = tauPrev[input.target]
          /\ tau[input.target] < tauPrev[input.target]
      BY <1>1, <2>1, RoundAnswers
    <2> HIDE DEF j
    <2>5. PromisedRound = k - 1 /\ PromisedRound + 1 = k /\ PromisedRound' = k
      BY <1>1, <2>1, <2>2 DEF PromisedRound
    <2>6. Answer' = Append(Answer, [transfers |-> k - 1, arrival |-> PromisedBest(k)])
      BY <1>1, <2>2, <2>3, <2>4, AnswerGrows
    <2>7. k - 1 < MaxRounds
      BY <1>1, <2>4
    <2>8. PromisedBest(k) < PromisedBest(k - 1)
      BY <2>4
    <2>9. Promise!Round
      BY <1>2, <2>1, <2>2, <2>5, <2>6, <2>7, <2>8, Mapping
    <2> QED
      BY <2>9 DEF Promise!Next
  <1>9. CASE Finish
    <2>1. pc = "round" /\ pc' = "done" /\ UNCHANGED <<journeys, k>>
      BY <1>9 DEF Finish
    <2>2. \A n \in k..MaxRounds : PromisedBest(n) = PromisedBest(k)
      BY <1>1, <1>9, NothingLeftToFind
    <2>3. PromisedRound = k /\ PromisedRound' = k /\ Answer' = Answer
      BY <2>1 DEF PromisedRound, Answer
    <2>4. Promise!Return
      BY <1>2, <2>1, <2>2, <2>3, Mapping
    <2> QED
      BY <2>4 DEF Promise!Next
  <1> QED
    BY <1>3, <1>4, <1>5, <1>6, <1>7, <1>8, <1>9 DEF Next, Returned

(***************************************************************************)
(* On a network in order, whatever its size, a call answers with exactly   *)
(* the Pareto set of the textbook recurrence, round by round, although it  *)
(* skips patterns, boards each run it meets only when that leaves earlier, *)
(* prunes by the target and keeps one label per stop (raptor.go:79).       *)
(***************************************************************************)
THEOREM AnswersArePareto == Spec => AnswersPareto
  <1>1. Init => (InOrder(input) => Promise!Init)
    <2> SUFFICES ASSUME Init PROVE Promise!Init
      OBVIOUS
    <2>1. Answer = <<>>
      BY DEF Init, Answer
    <2> QED
      BY <2>1 DEF Init, Promise!Init, Answer
  <1>2. InductiveInv /\ InductiveInv' /\ [Next]_vars
          => [InOrder(input) => Promise!Next]_(Promise!vars)
    BY StepKeepsPromise
  <1> QED
    BY <1>1, <1>2, InvariantsHold, PTL DEF Spec, AnswersPareto

=============================================================================
