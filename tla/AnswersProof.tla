---------------------------- MODULE AnswersProof ----------------------------
(***************************************************************************)
(* Proofs about what the handlers of internal/api answer, for any stops,   *)
(* names and requests: that a search by normalized texts finds the stops   *)
(* whose words hold the words asked for, that a resolved text is the stop  *)
(* it means, and that every answer is right.                               *)
(*                                                                         *)
(* Normalize writes the words of a text with a space between any two.  A   *)
(* normalized text is found in another exactly where its words are found,  *)
(* in order, in the words of the other: the bulk of the module shows that, *)
(* position by position.                                                   *)
(***************************************************************************)
EXTENDS ApiMeaning, FiniteSetTheorems, SequenceTheorems, WellFoundedInduction, TLAPS

-----------------------------------------------------------------------------
(***************************************************************************)
(* Times of day as text.                                                   *)
(***************************************************************************)
LEMMA Hours ==
  ASSUME NEW a \in Nat
  PROVE  a \div 3600 \in Nat /\ a % 3600 \in 0..3599 /\ a = 3600 * (a \div 3600) + (a % 3600)
  OBVIOUS

LEMMA Minutes ==
  ASSUME NEW a \in Nat
  PROVE  a \div 60 \in Nat /\ a % 60 \in 0..59 /\ a = 60 * (a \div 60) + (a % 60)
  OBVIOUS

LEMMA SplitSeconds ==
  ASSUME NEW sec \in Nat
  PROVE  /\ sec \div 3600 \in Nat
         /\ (sec % 3600) \div 60 \in 0..59
         /\ sec % 60 \in 0..59
         /\ (sec \div 3600) * 3600 + ((sec % 3600) \div 60) * 60 + (sec % 60) = sec
  <1> DEFINE h == sec \div 3600
             r == sec % 3600
             m == r \div 60
             t == r % 60
             n == sec \div 60
             s == sec % 60
             k == n - 60 * h - m
  <1>1. h \in Nat /\ r \in 0..3599 /\ sec = 3600 * h + r
    BY Hours
  <1>2. r \in Nat
    BY <1>1
  <1>3. m \in Nat /\ t \in 0..59 /\ r = 60 * m + t
    <2> HIDE DEF r
    <2> QED BY <1>2, Minutes
  <1>4. n \in Nat /\ s \in 0..59 /\ sec = 60 * n + s
    BY Minutes
  <1> HIDE DEF h, r, m, t, n, s
  <1>5. k \in Int /\ 60 * k = t - s
    BY <1>1, <1>3, <1>4
  <1> HIDE DEF k
  <1>6. t = s
    BY <1>3, <1>4, <1>5
  <1>7. h \in Nat /\ m \in 0..59 /\ s \in 0..59 /\ h * 3600 + m * 60 + s = sec
    BY <1>1, <1>3, <1>4, <1>6
  <1> QED BY <1>7 DEF h, r, m, s

(* Whatever time a client is told, it reads as ParseTime would read it,    *)
(* and means the second it was made from, however many days on.            *)
THEOREM ClockReadsBack ==
  ASSUME NEW sec \in Nat
  PROVE  IsTime(ClockOf(sec)) /\ Seconds(ClockOf(sec)) = sec
  <1> DEFINE h == sec \div 3600
             m == (sec % 3600) \div 60
             s == sec % 60
  <1>1. /\ h \in Nat /\ m \in 0..59 /\ s \in 0..59
        /\ h * 3600 + m * 60 + s = sec
    BY SplitSeconds
  <1>2. ClockOf(sec) = <<1 * h, 1 * m, 1 * s>>
    BY DEF ClockOf
  <1> HIDE DEF h, m, s
  <1>3. ClockOf(sec) = <<h, m, s>>
    BY <1>1, <1>2
  <1> QED BY <1>1, <1>3 DEF IsTime, Seconds

(* The planner's text and its mark name that second too.                   *)
THEOREM PlannerReadsBack ==
  ASSUME NEW sec \in Nat
  PROVE  LET p == PlannerClock(sec)
         IN  /\ IsTime(p.clock)
             /\ Seconds(p.clock) + (IF p.plus1d THEN DaySeconds ELSE 0) = sec
  <1>1. CASE NextDay(sec)
    <2>1. sec - DaySeconds \in Nat
      BY <1>1 DEF NextDay, DaySeconds
    <2>2. IsTime(ClockOf(sec - DaySeconds)) /\ Seconds(ClockOf(sec - DaySeconds)) = sec - DaySeconds
      BY <2>1, ClockReadsBack
    <2>3. DaySeconds \in Nat
      BY DEF DaySeconds
    <2> QED BY <1>1, <2>2, <2>3 DEF PlannerClock
  <1>2. CASE ~NextDay(sec)
    <2>1. IsTime(ClockOf(sec)) /\ Seconds(ClockOf(sec)) = sec
      BY ClockReadsBack
    <2> QED BY <1>2, <2>1 DEF PlannerClock
  <1> QED BY <1>1, <1>2

-----------------------------------------------------------------------------
(***************************************************************************)
(* Intervals, least elements and places in an order.                       *)
(***************************************************************************)
LEMMA IntervalInduction ==
  ASSUME NEW low \in Int, NEW high \in Int, NEW S,
         low \in S, \A n \in low..(high - 1) : n \in S => n + 1 \in S
  PROVE  low..high \subseteq S
  <1> DEFINE Missing == {d \in Nat : low + d <= high /\ low + d \notin S}
  <1>1. SUFFICES ASSUME Missing # {} PROVE FALSE
    <2> SUFFICES ASSUME NEW n \in low..high, n \notin S PROVE Missing # {}
      BY <1>1
    <2>1. n - low \in Nat /\ low + (n - low) = n
      OBVIOUS
    <2>2. n - low \in Missing
      BY <2>1
    <2> QED BY <2>2
  <1>2. PICK d \in Missing : \A e \in Missing : ~(<<e, d>> \in OpToRel(<, Nat))
    BY <1>1, NatLessThanWellFounded, WFMin
  <1>3. d \in Nat /\ \A e \in Missing : ~(e < d)
    BY <1>2 DEF OpToRel
  <1>4. d # 0
    <2>1. low + d \notin S
      BY <1>2
    <2> QED BY <2>1
  <1>5. d - 1 \in Nat /\ d - 1 \notin Missing
    BY <1>3, <1>4
  <1>6. low + d <= high /\ low + d \notin S
    BY <1>2
  <1>7. low + (d - 1) \in S
    BY <1>3, <1>5, <1>6
  <1>8. low + (d - 1) \in low..(high - 1) /\ low + (d - 1) + 1 = low + d
    BY <1>3, <1>5, <1>6
  <1> QED BY <1>6, <1>7, <1>8

LEMMA LeastOf ==
  ASSUME NEW S, S # {}, S \subseteq Nat
  PROVE  Min(S) \in S /\ \A x \in S : Min(S) <= x
  <1>1. PICK d \in S : \A e \in S : ~(<<e, d>> \in OpToRel(<, Nat))
    BY NatLessThanWellFounded, WFMin
  <1>2. \A e \in S : ~(e < d)
    BY <1>1 DEF OpToRel
  <1>3. ASSUME NEW e \in S PROVE d =< e
    <2>1. d \in Nat /\ e \in Nat /\ ~(e < d)
      BY <1>1, <1>2
    <2> QED BY <2>1
  <1> QED BY <1>1, <1>3 DEF Min

LEMMA GreatestOf ==
  ASSUME NEW S, S # {}, NEW h \in Nat, S \subseteq 0..h
  PROVE  Max(S) \in S /\ \A x \in S : Max(S) >= x
  <1> DEFINE T == {h - x : x \in S}
  <1>1. T \subseteq Nat /\ T # {}
    <2>1. PICK x \in S : TRUE
      OBVIOUS
    <2>2. h - x \in T
      OBVIOUS
    <2>3. \A y \in S : h - y \in Nat
      OBVIOUS
    <2> QED BY <2>2, <2>3
  <1>2. PICK d \in T : \A e \in T : d <= e
    <2> HIDE DEF T
    <2> QED BY <1>1, LeastOf
  <1>3. PICK x \in S : d = h - x
    BY <1>2
  <1>4. \A y \in S : x >= y
    <2> SUFFICES ASSUME NEW y \in S PROVE x >= y
      OBVIOUS
    <2>1. d <= h - y
      BY <1>2
    <2> QED BY <1>3, <2>1
  <1> QED BY <1>3, <1>4 DEF Max

LEMMA LeastOfTwo ==
  ASSUME NEW a \in Int, NEW b \in Int
  PROVE  Min({a, b}) = IF a < b THEN a ELSE b
  <1> DEFINE m == IF a < b THEN a ELSE b
  <1>1. m \in {a, b} /\ \A y \in {a, b} : m =< y
    OBVIOUS
  <1>2. \A x \in {a, b} : (\A y \in {a, b} : x =< y) => x = m
    OBVIOUS
  <1> QED BY <1>1, <1>2 DEF Min

(* How many elements come before m in the order over. *)
Place(S, over, m) == Cardinality({l \in S : <<l, m>> \in over})

Order(S, over) ==
  /\ \A x, y, z \in S : <<x, y>> \in over /\ <<y, z>> \in over => <<x, z>> \in over
  /\ \A x \in S : <<x, x>> \notin over
  /\ \A x, y \in S : x # y => <<x, y>> \in over \/ <<y, x>> \in over

LEMMA Places ==
  ASSUME NEW S, IsFiniteSet(S), NEW over, Order(S, over)
  PROVE  /\ Cardinality(S) \in Nat
         /\ \A x \in S : Place(S, over, x) \in 0..(Cardinality(S) - 1)
         /\ \A x, y \in S : <<x, y>> \in over <=> Place(S, over, x) < Place(S, over, y)
         /\ \A x, y \in S : Place(S, over, x) = Place(S, over, y) => x = y
         /\ \A n \in Nat : n < Cardinality(S) => \E x \in S : Place(S, over, x) = n
  <1> DEFINE Under(x) == {l \in S : <<l, x>> \in over}
             p(x) == Cardinality(Under(x))
             N == Cardinality(S)
  <1>1. N \in Nat
    BY FS_CardinalityType
  <1>2. ASSUME NEW x \in S PROVE p(x) \in 0..(N - 1) /\ IsFiniteSet(Under(x))
    <2>1. Under(x) \in SUBSET S /\ x \notin Under(x)
      BY DEF Order
    <2>2. IsFiniteSet(Under(x)) /\ p(x) <= N /\ p(x) # N
      <3> HIDE DEF Under
      <3>1. IsFiniteSet(Under(x)) /\ p(x) <= N /\ (N = p(x) => S = Under(x))
        BY <2>1, FS_Subset
      <3> QED BY <2>1, <3>1
    <2>3. p(x) \in Nat
      BY <2>2, FS_CardinalityType
    <2> QED BY <1>1, <2>2, <2>3
  <1>3. ASSUME NEW x \in S, NEW y \in S, <<x, y>> \in over PROVE p(x) < p(y)
    <2>1. Under(x) \in SUBSET Under(y) /\ x \in Under(y) /\ x \notin Under(x)
      BY <1>3 DEF Order
    <2>2. IsFiniteSet(Under(y)) /\ p(x) \in Nat /\ p(y) \in Nat
      BY <1>2
    <2>3. p(x) <= p(y) /\ p(x) # p(y)
      <3> HIDE DEF Under
      <3>1. p(x) <= p(y) /\ (p(y) = p(x) => Under(y) = Under(x))
        BY <2>1, <2>2, FS_Subset
      <3> QED BY <2>1, <3>1
    <2> QED BY <2>2, <2>3
  <1> HIDE DEF Under
  <1>4. ASSUME NEW x \in S, NEW y \in S PROVE <<x, y>> \in over <=> p(x) < p(y)
    <2>1. p(x) \in Int /\ p(y) \in Int
      BY <1>2
    <2>2. CASE x = y
      BY <2>1, <2>2 DEF Order
    <2>3. CASE <<x, y>> \in over
      BY <1>3, <2>3
    <2>4. CASE <<y, x>> \in over
      <3>1. p(y) < p(x) /\ <<x, y>> \notin over
        BY <1>3, <2>4 DEF Order
      <3> QED BY <2>1, <3>1
    <2> QED BY <2>2, <2>3, <2>4 DEF Order
  <1>5. ASSUME NEW x \in S, NEW y \in S, p(x) = p(y) PROVE x = y
    <2>1. p(x) \in Int
      BY <1>2
    <2>2. ~(p(x) < p(y)) /\ ~(p(y) < p(x))
      BY <1>5, <2>1
    <2> QED BY <1>3, <2>2 DEF Order
  <1>6. \A n \in 0..(N - 1) : \E x \in S : p(x) = n
    <2> DEFINE f == [x \in S |-> p(x)]
               T == 0..(N - 1)
    <2>1. f \in [S -> T] /\ \A x, y \in S : f[x] = f[y] => x = y
      BY <1>2, <1>5
    <2>2. f \in Injection(S, T)
      <3> HIDE DEF f, T
      <3> QED BY <2>1 DEF Injection, IsInjective
    <2>3. IsFiniteSet(T) /\ Cardinality(T) = N
      <3>1. IsFiniteSet(T) /\ Cardinality(T) = IF 0 > N - 1 THEN 0 ELSE N - 1 - 0 + 1
        BY <1>1, FS_Interval
      <3>2. (IF 0 > N - 1 THEN 0 ELSE N - 1 - 0 + 1) = N
        BY <1>1
      <3> QED BY <3>1, <3>2
    <2>4. f \in Surjection(S, T)
      <3> HIDE DEF f, T
      <3> QED BY <2>2, <2>3, FS_Injection
    <2>5. \A n \in T : \E x \in S : f[x] = n
      <3> HIDE DEF f, T
      <3> QED BY <2>4 DEF Surjection
    <2> QED BY <2>5
  <1>7. \A x : Place(S, over, x) = p(x)
    BY DEF Place, Under
  <1> HIDE DEF p, N
  <1>8. Cardinality(S) = N
    BY DEF N
  <1>9. \A n \in Nat : n < N => n \in 0..(N - 1)
    BY <1>1
  <1> QED BY <1>1, <1>2, <1>4, <1>5, <1>6, <1>7, <1>8, <1>9

-----------------------------------------------------------------------------
(***************************************************************************)
(* A set of numbers, listed in order.                                      *)
(***************************************************************************)
Lists(beg, M, S) ==
  /\ M \in Nat
  /\ beg \in [1..M -> S]
  /\ \A x \in S : \E n \in 1..M : beg[n] = x
  /\ \A m, n \in 1..M : m < n => beg[m] < beg[n]

LEMMA ListsApart ==
  ASSUME NEW S \in SUBSET Nat, NEW M, NEW beg, Lists(beg, M, S),
         NEW m \in 1..M, NEW n \in 1..M
  PROVE  /\ beg[m] \in Nat /\ beg[n] \in Nat
         /\ m < n <=> beg[m] < beg[n]
         /\ m = n <=> beg[m] = beg[n]
  <1>1. beg[m] \in Nat /\ beg[n] \in Nat /\ m \in Nat /\ n \in Nat
    <2>1. beg \in [1..M -> S] /\ M \in Nat
      BY DEF Lists
    <2>2. beg[m] \in S /\ beg[n] \in S
      BY <2>1
    <2>3. \A x \in S : x \in Nat
      OBVIOUS
    <2>4. m \in Nat /\ n \in Nat
      BY <2>1
    <2> QED BY <2>2, <2>3, <2>4
  <1>2. (m < n => beg[m] < beg[n]) /\ (n < m => beg[n] < beg[m])
    BY DEF Lists
  <1> QED BY <1>1, <1>2

LEMMA InOrder ==
  ASSUME NEW S, IsFiniteSet(S), NEW over, Order(S, over)
  PROVE  \E M \in Nat : \E f \in [1..M -> S] :
           /\ \A x \in S : \E n \in 1..M : f[n] = x
           /\ \A m, n \in 1..M : m < n => <<f[m], f[n]>> \in over
  <1> DEFINE M == Cardinality(S)
             at(n) == CHOOSE x \in S : Place(S, over, x) = n - 1
             f == [n \in 1..M |-> at(n)]
  <1> HIDE DEF M, at, f
  <1>1. /\ M \in Nat
        /\ \A x \in S : Place(S, over, x) \in 0..(M - 1)
        /\ \A x, y \in S : <<x, y>> \in over <=> Place(S, over, x) < Place(S, over, y)
        /\ \A x, y \in S : Place(S, over, x) = Place(S, over, y) => x = y
        /\ \A n \in Nat : n < M => \E x \in S : Place(S, over, x) = n
    BY Places DEF M
  <1>2. ASSUME NEW n \in 1..M PROVE at(n) \in S /\ Place(S, over, at(n)) = n - 1
    <2>1. n - 1 \in Nat /\ n - 1 < M
      BY <1>1
    <2>2. \E x \in S : Place(S, over, x) = n - 1
      BY <1>1, <2>1
    <2> QED BY <2>2 DEF at
  <1>3. ASSUME NEW x \in S PROVE \E n \in 1..M : at(n) = x
    <2> DEFINE n == Place(S, over, x) + 1
    <2>1. n \in 1..M /\ Place(S, over, x) = n - 1
      BY <1>1
    <2> HIDE DEF n
    <2>2. at(n) \in S /\ Place(S, over, at(n)) = n - 1
      BY <1>2, <2>1
    <2>3. Place(S, over, at(n)) = Place(S, over, x)
      BY <2>1, <2>2
    <2> QED BY <1>1, <2>1, <2>2, <2>3
  <1>4. ASSUME NEW m \in 1..M, NEW n \in 1..M, m < n PROVE <<at(m), at(n)>> \in over
    <2>1. Place(S, over, at(m)) < Place(S, over, at(n))
      BY <1>2, <1>4
    <2> QED BY <1>1, <1>2, <2>1
  <1>5. /\ f \in [1..M -> S]
        /\ \A x \in S : \E n \in 1..M : f[n] = x
        /\ \A m, n \in 1..M : m < n => <<f[m], f[n]>> \in over
    BY <1>2, <1>3, <1>4 DEF f
  <1> QED BY <1>1, <1>5

LEMMA ListExists ==
  ASSUME NEW S \in SUBSET Nat, IsFiniteSet(S)
  PROVE  \E M, beg : Lists(beg, M, S)
  <1> DEFINE over == {p \in S \X S : p[1] < p[2]}
  <1>1. \A x, y \in S : <<x, y>> \in over <=> x < y
    OBVIOUS
  <1>2. Order(S, over)
    <2> HIDE DEF over
    <2>1. \A x, y \in S : x \in Nat /\ y \in Nat
      OBVIOUS
    <2>2. \A x, y, z \in S : <<x, y>> \in over /\ <<y, z>> \in over => <<x, z>> \in over
      <3> SUFFICES ASSUME NEW x \in S, NEW y \in S, NEW z \in S, x < y, y < z PROVE x < z
        BY <1>1
      <3>1. x \in Nat /\ y \in Nat /\ z \in Nat
        OBVIOUS
      <3> QED BY <3>1
    <2>3. \A x \in S : <<x, x>> \notin over
      BY <1>1, <2>1
    <2>4. \A x, y \in S : x # y => <<x, y>> \in over \/ <<y, x>> \in over
      BY <1>1, <2>1
    <2> QED BY <2>2, <2>3, <2>4 DEF Order
  <1> HIDE DEF over
  <1>3. PICK M \in Nat : \E f \in [1..M -> S] :
           /\ \A x \in S : \E n \in 1..M : f[n] = x
           /\ \A m, n \in 1..M : m < n => <<f[m], f[n]>> \in over
    BY <1>2, InOrder
  <1>4. PICK beg \in [1..M -> S] :
           /\ \A x \in S : \E n \in 1..M : beg[n] = x
           /\ \A m, n \in 1..M : m < n => <<beg[m], beg[n]>> \in over
    BY <1>3
  <1>5. \A m, n \in 1..M : m < n => beg[m] < beg[n]
    BY <1>1, <1>4
  <1>6. Lists(beg, M, S)
    BY <1>3, <1>4, <1>5 DEF Lists
  <1> QED BY <1>6

LEMMA ListedSize ==
  ASSUME NEW S \in SUBSET Nat, NEW M, NEW beg, Lists(beg, M, S)
  PROVE  IsFiniteSet(S) /\ Cardinality(S) = M
  <1>1. beg \in Injection(1..M, S)
    <2>1. ASSUME NEW m \in 1..M, NEW n \in 1..M, beg[m] = beg[n] PROVE m = n
      BY <2>1, ListsApart
    <2> QED BY <2>1 DEF Lists, Injection, IsInjective
  <1>2. beg \in Surjection(1..M, S)
    BY DEF Lists, Surjection
  <1>3. ExistsBijection(1..M, S)
    BY <1>1, <1>2 DEF ExistsBijection, Bijection
  <1> QED BY <1>3, FS_CountingElements, FS_NatBijection DEF Lists

Below(S, x) == {l \in S : l < x}

LEMMA ListedBelow ==
  ASSUME NEW S \in SUBSET Nat, NEW M, NEW beg, Lists(beg, M, S), NEW n \in 1..M
  PROVE  Cardinality(Below(S, beg[n])) = n - 1
  <1> DEFINE T == {l \in S : l < beg[n]}
             f == [m \in 1..(n - 1) |-> beg[m]]
  <1>1. M \in Nat /\ n \in Nat /\ n - 1 \in Nat
    BY DEF Lists
  <1>2. ASSUME NEW m \in 1..(n - 1) PROVE m \in 1..M /\ f[m] = beg[m] /\ f[m] \in T
    <2>1. m \in 1..M /\ m < n
      BY <1>1
    <2>2. beg[m] \in S /\ beg[m] < beg[n]
      BY <2>1 DEF Lists
    <2> QED BY <2>1, <2>2
  <1>3. ASSUME NEW x \in T PROVE \E m \in 1..(n - 1) : f[m] = x
    <2>1. PICK m \in 1..M : beg[m] = x
      BY DEF Lists
    <2>2. m < n
      BY <2>1, ListsApart
    <2>3. m \in 1..(n - 1)
      BY <1>1, <2>2
    <2> QED BY <2>1, <2>3
  <1>4. ASSUME NEW k \in 1..(n - 1), NEW m \in 1..(n - 1), f[k] = f[m] PROVE k = m
    <2>1. k \in 1..M /\ m \in 1..M /\ beg[k] = beg[m]
      BY <1>2, <1>4
    <2> QED BY <2>1, ListsApart
  <1> HIDE DEF T
  <1>5. f \in [1..(n - 1) -> T]
    BY <1>2
  <1> HIDE DEF f
  <1>6. f \in Injection(1..(n - 1), T) /\ f \in Surjection(1..(n - 1), T)
    BY <1>3, <1>4, <1>5 DEF Injection, IsInjective, Surjection
  <1>7. ExistsBijection(1..(n - 1), T)
    BY <1>6 DEF ExistsBijection, Bijection
  <1>8. Cardinality(T) = n - 1
    BY <1>1, <1>7, FS_CountingElements
  <1> QED BY <1>8 DEF T, Below

LEMMA ListedAt ==
  ASSUME NEW S \in SUBSET Nat, NEW M, NEW beg, Lists(beg, M, S), NEW n \in 1..M
  PROVE  (CHOOSE i \in S : Cardinality(Below(S, i)) = n - 1) = beg[n]
  <1>1. beg[n] \in S
    BY DEF Lists
  <1>2. \A m \in 1..M : Cardinality(Below(S, beg[m])) = m - 1
    BY ListedBelow
  <1>3. ASSUME NEW i \in S, Cardinality(Below(S, i)) = n - 1 PROVE i = beg[n]
    <2>1. PICK m \in 1..M : beg[m] = i
      BY DEF Lists
    <2>2. m - 1 = n - 1
      BY <1>2, <1>3, <2>1
    <2>3. m = n
      <3>1. m \in Int /\ n \in Int
        BY DEF Lists
      <3> QED BY <2>2, <3>1
    <2> QED BY <2>1, <2>3
  <1> QED BY <1>1, <1>2, <1>3

-----------------------------------------------------------------------------
(***************************************************************************)
(* Where the words of a text begin and end.                                *)
(***************************************************************************)
Solid(s) == {i \in DOMAIN s : s[i] \in DOMAIN Lower}

Begins(s) == {i \in Solid(s) : i - 1 \notin Solid(s)}

EndOf(s, i) == Min({j \in Solid(s) : j >= i /\ j + 1 \notin Solid(s)})

WordAt(s, i) == [n \in 1..(EndOf(s, i) - i + 1) |-> Lower[s[i + n - 1]]]

LEMMA TextFacts ==
  ASSUME NEW s \in Text
  PROVE  /\ Len(s) \in Nat /\ DOMAIN s = 1..Len(s)
         /\ Solid(s) \subseteq 1..Len(s) /\ Begins(s) \subseteq 1..Len(s)
         /\ IsFiniteSet(Begins(s))
         /\ \A i \in Solid(s) : s[i] \in DOMAIN Lower /\ Lower[s[i]] \in Chars \ {Space}
  <1>1. Len(s) \in Nat /\ DOMAIN s = 1..Len(s)
    BY DEF Text
  <1>2. Solid(s) \subseteq 1..Len(s) /\ Begins(s) \subseteq 1..Len(s)
    BY <1>1 DEF Solid, Begins
  <1>3. IsFiniteSet(Begins(s))
    <2>1. IsFiniteSet(1..Len(s)) /\ Begins(s) \in SUBSET (1..Len(s))
      BY <1>1, <1>2, FS_Interval
    <2> QED BY <2>1, FS_Subset
  <1>4. \A i \in Solid(s) : s[i] \in DOMAIN Lower /\ Lower[s[i]] \in Chars \ {Space}
    BY StopSearchAssumption DEF Solid
  <1> QED BY <1>1, <1>2, <1>3, <1>4

LEMMA EndFacts ==
  ASSUME NEW s \in Text, NEW i \in Solid(s)
  PROVE  /\ EndOf(s, i) \in Solid(s) /\ EndOf(s, i) \in i..Len(s)
         /\ EndOf(s, i) + 1 \notin Solid(s)
         /\ i..EndOf(s, i) \subseteq Solid(s)
         /\ \A j \in Solid(s) : j >= i /\ j + 1 \notin Solid(s) => EndOf(s, i) <= j
  <1> DEFINE C == {j \in Solid(s) : j >= i /\ j + 1 \notin Solid(s)}
             e == EndOf(s, i)
  <1>1. Len(s) \in Nat /\ Solid(s) \subseteq 1..Len(s) /\ Solid(s) \subseteq 0..Len(s)
    BY TextFacts
  <1>2. C # {}
    <2>1. Max(Solid(s)) \in Solid(s) /\ \A x \in Solid(s) : Max(Solid(s)) >= x
      BY <1>1, GreatestOf
    <2> DEFINE h == Max(Solid(s))
    <2>2. h \in Nat /\ h >= i /\ h \in Solid(s) /\ \A x \in Solid(s) : h >= x
      BY <1>1, <2>1
    <2> HIDE DEF h
    <2>3. h + 1 \notin Solid(s)
      BY <2>2
    <2>4. h \in C
      BY <2>2, <2>3
    <2> QED BY <2>4
  <1>3. C \subseteq Nat
    BY <1>1
  <1>4. e \in C /\ \A j \in C : e <= j
    <2>1. e = Min(C)
      BY DEF EndOf
    <2> HIDE DEF C, e
    <2> QED BY <1>2, <1>3, <2>1, LeastOf
  <1> HIDE DEF e
  <1>5. i..e \subseteq Solid(s)
    <2>1. i \in Nat /\ e \in Nat
      BY <1>1, <1>4
    <2>2. ASSUME NEW n \in i..(e - 1), n \in Solid(s) PROVE n + 1 \in Solid(s)
      <3>1. n >= i /\ ~(e <= n)
        BY <2>1
      <3>2. n \notin C
        BY <1>4, <3>1
      <3> QED BY <2>2, <3>1, <3>2
    <2> HIDE DEF C
    <2> QED BY <2>1, <2>2, IntervalInduction
  <1>6. e \in i..Len(s)
    BY <1>1, <1>4
  <1> QED BY <1>4, <1>5, <1>6 DEF e

(* The n-th word is the one that begins at the n-th beginning.             *)
LEMMA WordsListed ==
  ASSUME NEW s \in Text, NEW M, NEW beg, Lists(beg, M, Begins(s))
  PROVE  Words(s) = [n \in 1..M |-> WordAt(s, beg[n])]
  <1> DEFINE S == Begins(s)
  <1>1. S \subseteq Nat
    BY TextFacts
  <1>2. Words(s) = [n \in 1..Cardinality(S) |->
                      WordAt(s, CHOOSE i \in S : Cardinality(Below(S, i)) = n - 1)]
    BY DEF Words, Below, Begins, Solid, WordAt, EndOf
  <1> HIDE DEF S
  <1>3. Lists(beg, M, S)
    BY DEF S
  <1>4. Cardinality(S) = M
    BY <1>1, <1>3, ListedSize
  <1>5. \A n \in 1..M : (CHOOSE i \in S : Cardinality(Below(S, i)) = n - 1) = beg[n]
    BY <1>1, <1>3, ListedAt
  <1> QED BY <1>2, <1>4, <1>5

LEMMA WordFacts ==
  ASSUME NEW s \in Text, NEW i \in Begins(s)
  PROVE  LET w == WordAt(s, i)
         IN  /\ Len(w) = EndOf(s, i) - i + 1 /\ Len(w) \in Nat \ {0}
             /\ w \in Seq(Chars)
             /\ \A j \in 1..Len(w) : /\ i + j - 1 \in Solid(s)
                                     /\ w[j] = Lower[s[i + j - 1]]
                                     /\ w[j] # Space
  <1> DEFINE k == EndOf(s, i) - i + 1
             w == WordAt(s, i)
  <1>1. i \in Solid(s) /\ i \in Nat
    <2>1. i \in Solid(s)
      BY DEF Begins
    <2> QED BY <2>1, TextFacts
  <1>2. EndOf(s, i) \in i..Len(s) /\ Len(s) \in Nat
    BY <1>1, EndFacts, TextFacts
  <1>3. k \in Nat \ {0}
    BY <1>1, <1>2
  <1>4. ASSUME NEW j \in 1..k PROVE i + j - 1 \in Solid(s) /\ Lower[s[i + j - 1]] \in Chars \ {Space}
    <2>1. i + j - 1 \in i..EndOf(s, i)
      BY <1>1, <1>2
    <2>2. i + j - 1 \in Solid(s)
      BY <1>1, <2>1, EndFacts
    <2> QED BY <2>2, TextFacts
  <1> HIDE DEF k
  <1>5. w = [j \in 1..k |-> Lower[s[i + j - 1]]]
    BY DEF WordAt, k
  <1> HIDE DEF w
  <1>6. w \in Seq(Chars) /\ Len(w) = k
    BY <1>3, <1>4, <1>5
  <1> QED BY <1>3, <1>4, <1>5, <1>6 DEF w, k

-----------------------------------------------------------------------------
(***************************************************************************)
(* Normalize, character by character.                                      *)
(***************************************************************************)
Write(s, b, n) ==
  IF s[n] \in DOMAIN Lower THEN Append(b, Lower[s[n]])
  ELSE IF b = <<>> \/ Last(b) = Space THEN b ELSE Append(b, Space)

Writes(s, m, out) ==
  out = [n \in 0..m |-> IF n = 0 THEN <<>> ELSE Write(s, out[n - 1], n)]

LEMMA WritesExists ==
  ASSUME NEW s, NEW h \in Nat
  PROVE  \E out : Writes(s, h, out)
  <1> DEFINE Done == {m \in Nat : \E out : Writes(s, m, out)}
  <1>1. 0 \in Done
    <2> DEFINE out == [n \in 0..0 |-> <<>>]
    <2>1. Writes(s, 0, out)
      BY DEF Writes
    <2> QED BY <2>1
  <1>2. ASSUME NEW m \in 0..(h - 1), m \in Done PROVE m + 1 \in Done
    <2>1. PICK f : Writes(s, m, f)
      BY <1>2
    <2> DEFINE g == [n \in 0..(m + 1) |-> IF n = 0 THEN <<>> ELSE Write(s, f[n - 1], n)]
    <2>2. m \in Nat
      OBVIOUS
    <2>3. f = [n \in 0..m |-> IF n = 0 THEN <<>> ELSE Write(s, f[n - 1], n)]
      BY <2>1 DEF Writes
    <2>4. \A n \in 0..m : f[n] = g[n]
      BY <2>2, <2>3
    <2>5. \A n \in 0..(m + 1) : n # 0 => n - 1 \in 0..m
      BY <2>2
    <2>6. \A n \in 0..(m + 1) : n # 0 => Write(s, f[n - 1], n) = Write(s, g[n - 1], n)
      BY <2>4, <2>5
    <2>7. g = [n \in 0..(m + 1) |-> IF n = 0 THEN <<>> ELSE Write(s, g[n - 1], n)]
      BY <2>6
    <2>8. Writes(s, m + 1, g)
      BY <2>7 DEF Writes
    <2> QED BY <2>2, <2>8
  <1> HIDE DEF Done
  <1>3. 0..h \subseteq Done
    BY <1>1, <1>2, IntervalInduction
  <1>4. h \in Done
    BY <1>3
  <1> QED BY <1>4 DEF Done

Trimmed(b) == IF b # <<>> /\ Last(b) = Space THEN Front(b) ELSE b

LEMMA NormalizeWrites ==
  ASSUME NEW s \in Text
  PROVE  \E out : /\ out[0] = <<>>
                  /\ \A n \in 1..Len(s) : out[n] = Write(s, out[n - 1], n)
                  /\ Normalize(s) = Trimmed(out[Len(s)])
  <1>1. Len(s) \in Nat
    BY TextFacts
  <1> DEFINE out == CHOOSE g : Writes(s, Len(s), g)
  <1>2. Normalize(s) = Trimmed(out[Len(s)])
    BY DEF Normalize, Trimmed, Writes, Write
  <1>3. Writes(s, Len(s), out)
    BY <1>1, WritesExists
  <1> HIDE DEF out
  <1>4. out = [n \in 0..Len(s) |-> IF n = 0 THEN <<>> ELSE Write(s, out[n - 1], n)]
    BY <1>3 DEF Writes
  <1>5. out[0] = <<>> /\ \A n \in 1..Len(s) : out[n] = Write(s, out[n - 1], n)
    BY <1>1, <1>4
  <1> QED BY <1>2, <1>5

LEMMA AppendFacts ==
  ASSUME NEW b \in Text, NEW c \in Chars
  PROVE  /\ Append(b, c) \in Text /\ Append(b, c) # <<>>
         /\ Len(Append(b, c)) = Len(b) + 1 /\ Len(b) \in Nat
         /\ Last(Append(b, c)) = c
         /\ \A i \in 1..Len(b) : Append(b, c)[i] = b[i]
  <1> USE DEF Text
  <1>1. /\ Append(b, c) \in Seq(Chars) /\ Len(b) \in Nat
        /\ Len(Append(b, c)) = Len(b) + 1
        /\ Append(b, c)[Len(b) + 1] = c
        /\ \A i \in 1..Len(b) : Append(b, c)[i] = b[i]
    OBVIOUS
  <1>2. Append(b, c) # <<>>
    BY <1>1
  <1> QED BY <1>1, <1>2 DEF Last

(* What a character adds to what was written before.                       *)
Grows(s, out, n) ==
  /\ out[n] \in Text /\ out[n - 1] \in Text
  /\ n \in Solid(s) =>
       /\ Len(out[n]) = Len(out[n - 1]) + 1
       /\ Last(out[n]) = Lower[s[n]]
  /\ n \notin Solid(s) /\ n - 1 \in Solid(s) =>
       /\ Len(out[n]) = Len(out[n - 1]) + 1
       /\ Last(out[n]) = Space
  /\ n \notin Solid(s) /\ n - 1 \notin Solid(s) => out[n] = out[n - 1]
  /\ \A i \in 1..Len(out[n - 1]) : out[n][i] = out[n - 1][i]

LEMMA WritesGrow ==
  ASSUME NEW s \in Text, NEW out, out[0] = <<>>,
         \A n \in 1..Len(s) : out[n] = Write(s, out[n - 1], n)
  PROVE  \A n \in 1..Len(s) : Grows(s, out, n)
  <1> DEFINE Open(n) == out[n] # <<>> /\ Last(out[n]) # Space
             S == {n \in 0..Len(s) : /\ out[n] \in Text
                                     /\ n \in Solid(s) <=> Open(n)}
  <1>1. Len(s) \in Nat /\ DOMAIN s = 1..Len(s) /\ Solid(s) \subseteq 1..Len(s)
    BY TextFacts
  <1>2. 0 \in S
    <2>1. <<>> \in Text
      BY DEF Text
    <2>2. 0 \notin Solid(s)
      BY <1>1
    <2> QED BY <1>1, <2>1, <2>2
  <1>3. Space \in Chars
    BY StopSearchAssumption
  <1>4. ASSUME NEW n \in 1..Len(s), n - 1 \in S PROVE n \in S /\ Grows(s, out, n)
    <2> DEFINE b == out[n - 1]
               c == Lower[s[n]]
    <2>1. b \in Text /\ (n - 1 \in Solid(s) <=> b # <<>> /\ Last(b) # Space)
      BY <1>4
    <2>2. out[n] = Write(s, b, n)
      OBVIOUS
    <2> HIDE DEF b
    <2>3. CASE n \in Solid(s)
      <3>1. out[n] = Append(b, c) /\ c \in Chars /\ c # Space
        <4>1. s[n] \in DOMAIN Lower /\ c \in Chars \ {Space}
          BY <2>3, TextFacts
        <4> QED BY <2>2, <4>1 DEF Write
      <3> HIDE DEF c
      <3>2. /\ out[n] \in Text /\ out[n] # <<>> /\ Last(out[n]) = c
            /\ Len(out[n]) = Len(b) + 1
            /\ \A i \in 1..Len(b) : out[n][i] = b[i]
        BY <2>1, <3>1, AppendFacts
      <3>3. n \in 0..Len(s) /\ Last(out[n]) # Space
        BY <1>1, <3>1, <3>2
      <3>4. n \in S
        BY <2>3, <3>2, <3>3
      <3> QED BY <2>1, <2>3, <3>2, <3>4 DEF Grows, b, c
    <2>4. CASE n \notin Solid(s) /\ n - 1 \in Solid(s)
      <3>1. out[n] = Append(b, Space)
        <4>1. s[n] \notin DOMAIN Lower
          BY <1>1, <2>4 DEF Solid
        <4> QED BY <2>1, <2>2, <2>4, <4>1 DEF Write
      <3>2. /\ out[n] \in Text /\ out[n] # <<>> /\ Last(out[n]) = Space
            /\ Len(out[n]) = Len(b) + 1
            /\ \A i \in 1..Len(b) : out[n][i] = b[i]
        BY <1>3, <2>1, <3>1, AppendFacts
      <3>3. n \in 0..Len(s)
        BY <1>1
      <3>4. n \in S
        BY <2>4, <3>2, <3>3
      <3> QED BY <2>1, <2>4, <3>2, <3>4 DEF Grows, b
    <2>5. CASE n \notin Solid(s) /\ n - 1 \notin Solid(s)
      <3>1. out[n] = b
        <4>1. s[n] \notin DOMAIN Lower
          BY <1>1, <2>5 DEF Solid
        <4> QED BY <2>1, <2>2, <2>5, <4>1 DEF Write
      <3>2. n \in S
        BY <1>1, <2>1, <2>5, <3>1
      <3> QED BY <2>1, <2>5, <3>1, <3>2 DEF Grows, b
    <2> QED BY <2>3, <2>4, <2>5
  <1>5. 0..Len(s) \subseteq S
    <2>1. ASSUME NEW n \in 0..(Len(s) - 1), n \in S PROVE n + 1 \in S
      <3>1. n + 1 \in 1..Len(s) /\ (n + 1) - 1 = n
        BY <1>1
      <3> HIDE DEF S
      <3> QED BY <1>4, <2>1, <3>1
    <2> DEFINE h == Len(s)
    <2> HIDE DEF S
    <2>2. h \in Int
      BY <1>1
    <2>3. \A n \in 0..(h - 1) : n \in S => n + 1 \in S
      BY <2>1
    <2> HIDE DEF h
    <2>4. 0..h \subseteq S
      BY <1>2, <2>2, <2>3, IntervalInduction
    <2> QED BY <2>4 DEF h
  <1>6. \A n \in 1..Len(s) : n - 1 \in S
    <2> HIDE DEF S
    <2>1. \A n \in 1..Len(s) : n - 1 \in 0..Len(s)
      BY <1>1
    <2> QED BY <1>5, <2>1
  <1> HIDE DEF S
  <1> QED BY <1>4, <1>6

-----------------------------------------------------------------------------
(***************************************************************************)
(* A normalized text: its words with one space between any two.            *)
(***************************************************************************)
Written(s, out) ==
  /\ out[0] = <<>>
  /\ \A n \in 1..Len(s) : Grows(s, out, n)

LEMMA WrittenStays ==
  ASSUME NEW s \in Text, NEW out, Written(s, out), NEW m \in 0..Len(s)
  PROVE  \A n \in m..Len(s) :
           /\ out[n] \in Text /\ Len(out[n]) \in Nat /\ Len(out[m]) <= Len(out[n])
           /\ \A i \in 1..Len(out[m]) : out[n][i] = out[m][i]
  <1> DEFINE h == Len(s)
             S == {n \in m..h : /\ out[n] \in Text /\ Len(out[m]) <= Len(out[n])
                                /\ \A i \in 1..Len(out[m]) : out[n][i] = out[m][i]}
  <1>1. h \in Nat /\ m \in Nat /\ \A b \in Text : Len(b) \in Nat
    BY TextFacts
  <1>2. \A n \in 1..h : Grows(s, out, n)
    BY DEF Written
  <1> HIDE DEF h
  <1>3. \A n \in 0..h : out[n] \in Text
    <2> SUFFICES ASSUME NEW n \in 0..h PROVE out[n] \in Text
      OBVIOUS
    <2>1. CASE n = 0
      <3>1. <<>> \in Text
        BY DEF Text
      <3> QED BY <2>1, <3>1 DEF Written
    <2>2. CASE n # 0
      <3>1. n \in 1..h
        BY <1>1, <2>2
      <3> QED BY <1>2, <3>1 DEF Grows
    <2> QED BY <2>1, <2>2
  <1>4. m \in 0..h /\ m \in m..h
    BY <1>1 DEF h
  <1>5. m \in S
    BY <1>1, <1>3, <1>4
  <1>6. ASSUME NEW n \in m..(h - 1), n \in S PROVE n + 1 \in S
    <2> DEFINE k == n + 1
    <2>1. k \in 1..h /\ k - 1 = n /\ k \in m..h /\ k \in 0..h /\ n \in 0..h
      BY <1>1, <1>4
    <2> HIDE DEF k
    <2>2. Grows(s, out, k)
      BY <1>2, <2>1
    <2>3. /\ Len(out[n]) \in Nat /\ Len(out[k]) \in Nat /\ Len(out[m]) \in Nat
          /\ Len(out[n]) <= Len(out[k])
          /\ \A i \in 1..Len(out[n]) : out[k][i] = out[n][i]
      <3>1. Len(out[n]) \in Nat /\ Len(out[k]) \in Nat /\ Len(out[m]) \in Nat
        BY <1>1, <1>3, <1>4, <2>1
      <3>2. Len(out[k]) = Len(out[n]) + 1 \/ out[k] = out[n]
        BY <2>1, <2>2 DEF Grows
      <3>3. \A i \in 1..Len(out[n]) : out[k][i] = out[n][i]
        BY <2>1, <2>2 DEF Grows
      <3> QED BY <3>1, <3>2, <3>3
    <2>4. Len(out[m]) <= Len(out[n]) /\ \A i \in 1..Len(out[m]) : out[n][i] = out[m][i]
      BY <1>6
    <2>5. Len(out[m]) <= Len(out[k])
      BY <2>3, <2>4
    <2>6. \A i \in 1..Len(out[m]) : out[k][i] = out[m][i]
      <3> SUFFICES ASSUME NEW i \in 1..Len(out[m]) PROVE out[k][i] = out[m][i]
        OBVIOUS
      <3>1. i \in 1..Len(out[n])
        BY <2>3, <2>4
      <3> QED BY <2>3, <2>4, <3>1
    <2>7. out[k] \in Text
      BY <1>3, <2>1
    <2>8. k \in S
      BY <2>1, <2>5, <2>6, <2>7
    <2> QED BY <2>8 DEF k
  <1>7. m..h \subseteq S
    <2>1. m \in Int /\ h \in Int /\ \A n \in m..(h - 1) : n \in S => n + 1 \in S
      BY <1>1, <1>6
    <2> HIDE DEF S
    <2> QED BY <1>5, <2>1, IntervalInduction
  <1> QED BY <1>1, <1>7 DEF h

(* Characters that are dropped.                                            *)
LEMMA GapStays ==
  ASSUME NEW s \in Text, NEW out, Written(s, out), NEW a \in Nat, NEW b \in Nat,
         a <= b, b <= Len(s), \A n \in a..b : n \notin Solid(s)
  PROVE  out[b] = out[a]
  <1> DEFINE S == {n \in a..b : out[n] = out[a]}
  <1>1. Len(s) \in Nat
    BY TextFacts
  <1>2. ASSUME NEW n \in a..(b - 1), n \in S PROVE n + 1 \in S
    <2> DEFINE k == n + 1
    <2>1. k \in 1..Len(s) /\ k - 1 = n /\ k \in a..b /\ n \in a..b
      BY <1>1
    <2> HIDE DEF k
    <2>2. out[k] = out[n]
      BY <2>1 DEF Written, Grows
    <2>3. k \in S
      BY <1>2, <2>1, <2>2
    <2> QED BY <2>3 DEF k
  <1>3. a \in S
    OBVIOUS
  <1> HIDE DEF S
  <1>4. \A n \in a..(b - 1) : n \in S => n + 1 \in S
    BY <1>2
  <1>5. a..b \subseteq S
    BY <1>3, <1>4, IntervalInduction
  <1>6. b \in S
    BY <1>5
  <1> QED BY <1>6 DEF S

(* Characters that are kept.                                               *)
LEMMA RunGrows ==
  ASSUME NEW s \in Text, NEW out, Written(s, out), NEW a \in Nat \ {0}, NEW b \in Nat,
         a <= b, b <= Len(s), \A n \in a..b : n \in Solid(s)
  PROVE  \A n \in (a - 1)..b : Len(out[n]) = Len(out[a - 1]) + (n - (a - 1))
  <1> DEFINE z == a - 1
             S == {n \in z..b : Len(out[n]) = Len(out[z]) + (n - z)}
  <1>1. Len(s) \in Nat /\ z \in Nat /\ z < b /\ z \in 0..Len(s)
    BY TextFacts
  <1>2. \A n \in z..b : Len(out[n]) \in Nat
    <2> SUFFICES ASSUME NEW n \in z..b PROVE Len(out[n]) \in Nat
      OBVIOUS
    <2>1. n \in z..Len(s)
      BY <1>1
    <2> HIDE DEF z
    <2> QED BY <1>1, <2>1, WrittenStays
  <1>3. \A n \in (z + 1)..b : n \in Solid(s)
    OBVIOUS
  <1> HIDE DEF z
  <1>4. ASSUME NEW n \in z..(b - 1), n \in S PROVE n + 1 \in S
    <2> DEFINE k == n + 1
    <2>1. k \in 1..Len(s) /\ k - 1 = n /\ k \in z..b /\ n \in z..b /\ k \in (z + 1)..b
      BY <1>1
    <2> HIDE DEF k
    <2>2. Len(out[k]) = Len(out[n]) + 1
      BY <1>3, <2>1 DEF Written, Grows
    <2>3. /\ Len(out[n]) = Len(out[z]) + (n - z)
          /\ Len(out[z]) \in Int /\ Len(out[n]) \in Int /\ n \in Int /\ z \in Int /\ k = n + 1
      BY <1>1, <1>2, <1>4, <2>1 DEF k
    <2>4. Len(out[k]) = Len(out[z]) + (k - z)
      <3>1. \A l, o, p \in Int : l = o + (n - z) /\ p = l + 1 => p = o + (k - z)
        BY <2>3
      <3>2. Len(out[k]) \in Int
        BY <2>2, <2>3
      <3> QED BY <2>2, <2>3, <3>1, <3>2
    <2>5. k \in S
      BY <2>1, <2>4
    <2> QED BY <2>5 DEF k
  <1>5. z \in S
    <2>1. z \in z..b /\ z - z = 0 /\ Len(out[z]) \in Nat
      BY <1>1, <1>2
    <2> QED BY <2>1
  <1> HIDE DEF S
  <1>6. z \in Int /\ b \in Int /\ \A n \in z..(b - 1) : n \in S => n + 1 \in S
    BY <1>1, <1>4
  <1>7. z..b \subseteq S
    BY <1>5, <1>6, IntervalInduction
  <1> QED BY <1>7 DEF S, z

(* After a separator only separators follow, up to where a word begins.    *)
LEMMA GapHolds ==
  ASSUME NEW s \in Text, NEW a \in Nat, NEW b \in Nat, a <= b, a \notin Solid(s),
         \A n \in (a + 1)..b : n \notin Begins(s)
  PROVE  \A n \in a..b : n \notin Solid(s)
  <1> DEFINE S == {n \in a..b : n \notin Solid(s)}
  <1>1. a \in S
    OBVIOUS
  <1>2. ASSUME NEW n \in a..(b - 1), n \in S PROVE n + 1 \in S
    <2> DEFINE k == n + 1
    <2>1. k \in (a + 1)..b /\ k - 1 = n /\ k \in a..b /\ n \notin Solid(s)
      BY <1>2
    <2> HIDE DEF k
    <2>2. k \notin Solid(s)
      BY <2>1 DEF Begins
    <2>3. k \in S
      BY <2>1, <2>2
    <2> QED BY <2>3 DEF k
  <1> HIDE DEF S
  <1>3. \A n \in a..(b - 1) : n \in S => n + 1 \in S
    BY <1>2
  <1>4. a..b \subseteq S
    BY <1>1, <1>3, IntervalInduction
  <1> QED BY <1>4 DEF S

(* Word m of W is read in N after off[m] characters, with a space behind   *)
(* it if it is not the last.                                               *)
Spells(N, W, off, m) ==
  /\ off[m] \in Nat /\ off[m + 1] \in Nat
  /\ Len(W[m]) \in Nat \ {0}
  /\ off[m + 1] = off[m] + Len(W[m]) + 1
  /\ \A j \in 1..Len(W[m]) : N[off[m] + j] = W[m][j] /\ W[m][j] # Space
  /\ m # Len(W) => N[off[m + 1]] = Space

(* N is the words W with a space between any two.                          *)
Joins(N, W, off) ==
  /\ N \in Text /\ Len(W) \in Nat
  /\ off \in [1..(Len(W) + 1) -> Nat] /\ off[1] = 0
  /\ Len(N) = IF Len(W) = 0 THEN 0 ELSE off[Len(W) + 1] - 1
  /\ \A m \in 1..Len(W) : W[m] \in Seq(Chars) /\ Spells(N, W, off, m)

(* Where each word is written.                                             *)
LEMMA WordsApart ==
  ASSUME NEW s \in Text, NEW M, NEW beg, Lists(beg, M, Begins(s)), NEW m \in 1..M
  PROVE  LET e == EndOf(s, beg[m])
         IN  /\ beg[m] \in Begins(s) /\ beg[m] \in Solid(s) /\ beg[m] \in 1..Len(s)
             /\ e \in beg[m]..Len(s) /\ \A i \in beg[m]..e : i \in Solid(s)
             /\ beg[m] - 1 \notin Solid(s)
             /\ m # M => /\ beg[m + 1] - 1 > e /\ beg[m + 1] \in 1..Len(s)
                         /\ \A i \in (e + 1)..(beg[m + 1] - 1) : i \notin Solid(s)
             /\ m = M => \A i \in (e + 1)..Len(s) : i \notin Solid(s)
             /\ m = 1 => \A i \in 0..(beg[m] - 1) : i \notin Solid(s)
  <1> DEFINE e == EndOf(s, beg[m])
             S == Begins(s)
  <1>1. M \in Nat /\ beg[m] \in S /\ m \in Nat
    BY DEF Lists
  <1>2. beg[m] \in Solid(s) /\ beg[m] - 1 \notin Solid(s)
    BY <1>1 DEF Begins
  <1>3. Len(s) \in Nat /\ Solid(s) \subseteq 1..Len(s) /\ S \in SUBSET Nat /\ S \subseteq 1..Len(s)
    BY TextFacts
  <1>4. beg[m] \in 1..Len(s)
    BY <1>1, <1>3
  <1>5. e \in beg[m]..Len(s) /\ e + 1 \notin Solid(s) /\ beg[m]..e \subseteq Solid(s)
    BY <1>2, EndFacts
  <1> HIDE DEF e, S
  <1>6. e \in Nat /\ beg[m] \in Nat /\ e >= beg[m] /\ e <= Len(s)
    BY <1>3, <1>4, <1>5
  <1>7. \A k \in 1..M : beg[k] \in S /\ (m < k <=> beg[m] < beg[k])
    BY <1>1, <1>3, ListsApart DEF Lists, S
  <1>8. ASSUME m # M
        PROVE  /\ beg[m + 1] - 1 > e /\ beg[m + 1] \in 1..Len(s)
               /\ \A i \in (e + 1)..(beg[m + 1] - 1) : i \notin Solid(s)
    <2> DEFINE b == beg[m + 1]
    <2>1. m + 1 \in 1..M /\ m < m + 1
      BY <1>1, <1>8
    <2>2. b \in S /\ beg[m] < b
      BY <1>7, <2>1
    <2>3. b \in Solid(s) /\ b - 1 \notin Solid(s)
      BY <2>2 DEF Begins, S
    <2>4. b \in 1..Len(s)
      BY <1>3, <2>2
    <2> HIDE DEF b
    <2>5. ~(b - 1 \in beg[m]..e)
      BY <1>5, <2>3
    <2>6. b # e + 1
      BY <1>5, <2>3
    <2>7. b - 1 > e
      BY <1>6, <2>2, <2>4, <2>5, <2>6
    <2>8. ASSUME NEW n \in (e + 1 + 1)..(b - 1) PROVE n \notin S
      <3> SUFFICES ASSUME n \in S PROVE FALSE
        OBVIOUS
      <3>1. PICK k \in 1..M : beg[k] = n
        BY DEF Lists, S
      <3>2. beg[m] < beg[k] /\ beg[k] < b
        BY <1>6, <2>4, <3>1
      <3>3. m < k
        BY <1>7, <3>2
      <3>4. k = m + 1 \/ m + 1 < k
        BY <1>1, <3>3
      <3>5. k # m + 1
        BY <2>4, <3>2 DEF b
      <3>6. b < beg[k]
        BY <2>1, <3>4, <3>5 DEF Lists, b
      <3> QED BY <1>3, <1>6, <2>4, <3>1, <3>2, <3>6
    <2>9. e + 1 \in Nat /\ b - 1 \in Nat /\ e + 1 <= b - 1 /\ \A n \in (e + 1 + 1)..(b - 1) : n \notin Begins(s)
      BY <1>6, <2>4, <2>7, <2>8 DEF S
    <2>10. \A i \in (e + 1)..(b - 1) : i \notin Solid(s)
      BY <1>5, <2>9, GapHolds
    <2> QED BY <2>4, <2>7, <2>10 DEF b
  <1>9. ASSUME m = M PROVE \A i \in (e + 1)..Len(s) : i \notin Solid(s)
    <2>1. CASE e = Len(s)
      BY <1>3, <2>1
    <2>2. CASE e < Len(s)
      <3>1. ASSUME NEW n \in (e + 1 + 1)..Len(s) PROVE n \notin S
        <4> SUFFICES ASSUME n \in S PROVE FALSE
          OBVIOUS
        <4>1. PICK k \in 1..M : beg[k] = n
          BY DEF Lists, S
        <4>2. beg[m] < beg[k]
          BY <1>6, <4>1
        <4>3. m < k
          BY <1>7, <4>2
        <4> QED BY <1>1, <1>9, <4>3
      <3>2. e + 1 \in Nat /\ e + 1 <= Len(s) /\ \A n \in (e + 1 + 1)..Len(s) : n \notin Begins(s)
        BY <1>3, <1>6, <2>2, <3>1 DEF S
      <3> QED BY <1>3, <1>5, <3>2, GapHolds
    <2> QED BY <1>3, <1>6, <2>1, <2>2
  <1>10. ASSUME m = 1 PROVE \A i \in 0..(beg[m] - 1) : i \notin Solid(s)
    <2> DEFINE b == beg[m] - 1
    <2>1. 0 \notin Solid(s) /\ b \in Nat /\ 0 <= b
      BY <1>3, <1>4
    <2>2. ASSUME NEW n \in (0 + 1)..b PROVE n \notin S
      <3> SUFFICES ASSUME n \in S PROVE FALSE
        OBVIOUS
      <3>1. PICK k \in 1..M : beg[k] = n
        BY DEF Lists, S
      <3>2. beg[k] < beg[m]
        BY <1>6, <3>1
      <3>3. k = 1 \/ m < k
        BY <1>1, <1>10
      <3>4. m < k => beg[m] < beg[k]
        BY <1>7
      <3> QED BY <1>6, <1>10, <3>1, <3>2, <3>3, <3>4
    <2>3. \A n \in (0 + 1)..b : n \notin Begins(s)
      BY <2>2 DEF S
    <2> HIDE DEF b
    <2>4. \A i \in 0..b : i \notin Solid(s)
      BY <2>1, <2>3, GapHolds
    <2> QED BY <2>4 DEF b
  <1>11. \A i \in beg[m]..e : i \in Solid(s)
    BY <1>5
  <1> QED BY <1>1, <1>2, <1>4, <1>5, <1>8, <1>9, <1>10, <1>11 DEF e, S

(* The characters of the m-th word, and the space after it, in what is     *)
(* written by the end.                                                     *)
InPlace(s, out, beg, M, m) ==
  LET e == EndOf(s, beg[m])
      w == WordAt(s, beg[m])
      F == out[Len(s)]
      o == Len(out[beg[m] - 1])
  IN  /\ o \in Nat /\ Len(out[e]) = o + Len(w) /\ Len(out[e]) <= Len(F)
      /\ Last(out[e]) # Space
      /\ \A j \in 1..Len(w) : F[o + j] = w[j]
      /\ m # M => /\ Len(out[beg[m + 1] - 1]) = Len(out[e]) + 1
                  /\ Len(out[beg[m + 1] - 1]) <= Len(F)
                  /\ F[Len(out[e]) + 1] = Space
      /\ m = M => \/ F = out[e]
                  \/ Last(F) = Space /\ Len(F) = Len(out[e]) + 1
      /\ m = 1 => o = 0

LEMMA WordWritten ==
  ASSUME NEW s \in Text, NEW out, Written(s, out),
         NEW M, NEW beg, Lists(beg, M, Begins(s)), NEW m \in 1..M
  PROVE  InPlace(s, out, beg, M, m)
  <1> DEFINE e == EndOf(s, beg[m])
             w == WordAt(s, beg[m])
             h == Len(s)
             F == out[h]
             b == beg[m]
             o == Len(out[b - 1])
             next == beg[m + 1] - 1
  <1>1. /\ b \in Begins(s) /\ b \in Solid(s) /\ b \in 1..h
        /\ e \in b..h /\ \A i \in b..e : i \in Solid(s)
        /\ m # M => /\ next > e /\ beg[m + 1] \in 1..h
                    /\ \A i \in (e + 1)..next : i \notin Solid(s)
        /\ m = M => \A i \in (e + 1)..h : i \notin Solid(s)
        /\ m = 1 => \A i \in 0..(b - 1) : i \notin Solid(s)
    BY WordsApart
  <1>2. /\ Len(w) = e - b + 1 /\ Len(w) \in Nat \ {0}
        /\ \A j \in 1..Len(w) : /\ b + j - 1 \in Solid(s)
                                /\ w[j] = Lower[s[b + j - 1]] /\ w[j] # Space
    BY <1>1, WordFacts
  <1>3. h \in Nat /\ \A n \in 1..h : Grows(s, out, n)
    BY TextFacts DEF Written
  <1>4. ASSUME NEW k \in 0..h, NEW n \in k..h
        PROVE  /\ Len(out[k]) \in Nat /\ Len(out[n]) \in Nat /\ Len(out[k]) <= Len(out[n])
               /\ \A i \in 1..Len(out[k]) : out[n][i] = out[k][i]
    <2>1. k \in k..h
      BY <1>3
    <2> QED BY <2>1, WrittenStays
  <1> HIDE DEF e, w, h, b, next
  <1>5. b \in Nat \ {0} /\ e \in Nat /\ b <= e /\ e <= h
    BY <1>1, <1>3
  <1>6. \A n \in (b - 1)..e : Len(out[n]) = o + (n - (b - 1))
    <2>1. b \in Nat \ {0} /\ e \in Nat /\ b <= e /\ e <= Len(s)
      BY <1>5 DEF h
    <2>2. \A i \in b..e : i \in Solid(s)
      BY <1>1
    <2> QED BY <2>1, <2>2, RunGrows
  <1>7. o \in Nat
    <2>1. b - 1 \in 0..h /\ h \in (b - 1)..h
      BY <1>1, <1>3, <1>5
    <2> QED BY <1>4, <2>1
  <1> HIDE DEF o
  <1>8. Len(out[e]) = o + Len(w)
    <2>1. e \in (b - 1)..e /\ e - (b - 1) = Len(w)
      BY <1>2, <1>5
    <2> QED BY <1>6, <2>1
  <1>9. e \in 0..h /\ h \in e..h
    BY <1>3, <1>5
  <1>10. Len(out[e]) <= Len(F) /\ Len(out[e]) \in Nat
    BY <1>4, <1>9
  <1>11. ASSUME NEW j \in 1..Len(w) PROVE F[o + j] = w[j] /\ Last(out[b + j - 1]) = w[j]
    <2> DEFINE k == b + j - 1
    <2>1. k \in (b - 1)..e /\ k \in 1..h /\ k \in 0..h /\ h \in k..h /\ k - (b - 1) = j
      BY <1>2, <1>3, <1>5
    <2>2. k \in Solid(s) /\ w[j] = Lower[s[k]]
      BY <1>2
    <2> HIDE DEF k
    <2>3. Len(out[k]) = o + j
      BY <1>6, <2>1
    <2>4. Last(out[k]) = w[j]
      BY <1>3, <2>1, <2>2 DEF Grows
    <2>5. Len(out[k]) \in 1..Len(out[k])
      BY <1>7, <2>3
    <2>6. F[Len(out[k])] = out[k][Len(out[k])]
      BY <1>4, <2>1, <2>5
    <2> QED BY <2>3, <2>4, <2>6 DEF Last, k
  <1>12. Last(out[e]) # Space
    <2>1. Len(w) \in 1..Len(w) /\ b + Len(w) - 1 = e
      BY <1>2, <1>5
    <2> QED BY <1>2, <1>11, <2>1
  <1>13. ASSUME e + 1 \in 1..h, e + 1 \notin Solid(s)
         PROVE  /\ Len(out[e + 1]) = Len(out[e]) + 1 /\ Last(out[e + 1]) = Space
                /\ F[Len(out[e]) + 1] = Space
                /\ Len(out[e + 1]) <= Len(F)
    <2>1. e \in b..e /\ (e + 1) - 1 = e
      BY <1>5
    <2>2. e \in Solid(s)
      BY <1>1, <2>1
    <2>3. Len(out[e + 1]) = Len(out[e]) + 1 /\ Last(out[e + 1]) = Space
      BY <1>3, <1>13, <2>1, <2>2 DEF Grows
    <2> DEFINE k == e + 1
    <2>4. k \in 0..h /\ h \in k..h
      BY <1>3, <1>13
    <2> HIDE DEF k
    <2>5. Len(out[k]) = Len(out[e]) + 1 /\ out[k][Len(out[k])] = Space
      BY <2>3 DEF Last, k
    <2>6. Len(out[k]) \in 1..Len(out[k])
      BY <1>10, <2>5
    <2>7. F[Len(out[k])] = out[k][Len(out[k])] /\ Len(out[k]) <= Len(F)
      BY <1>4, <2>4, <2>6
    <2> QED BY <2>3, <2>5, <2>7 DEF k
  <1>14. ASSUME m # M
         PROVE  Len(out[next]) = Len(out[e]) + 1 /\ Len(out[next]) <= Len(F) /\ F[Len(out[e]) + 1] = Space
    <2>1. next \in Nat /\ next <= h /\ e + 1 <= next /\ e + 1 \in Nat
      BY <1>1, <1>3, <1>5, <1>14 DEF next
    <2>2. \A i \in (e + 1)..next : i \notin Solid(s)
      BY <1>1, <1>14
    <2>3. e + 1 \in 1..h /\ e + 1 \in (e + 1)..next
      BY <1>3, <1>5, <2>1
    <2>4. out[next] = out[e + 1]
      BY <2>1, <2>2, GapStays DEF h
    <2>5. e + 1 \notin Solid(s)
      BY <2>2, <2>3
    <2> QED BY <1>13, <2>3, <2>4, <2>5
  <1>15. ASSUME m = M PROVE F = out[e] \/ (Last(F) = Space /\ Len(F) = Len(out[e]) + 1)
    <2>1. CASE e = h
      BY <2>1
    <2>2. CASE e # h
      <3>1. e + 1 \in 1..h /\ e + 1 \in Nat /\ e + 1 \in (e + 1)..h /\ e + 1 <= h /\ h <= h
        BY <1>3, <1>5, <2>2
      <3>2. \A i \in (e + 1)..h : i \notin Solid(s)
        BY <1>1, <1>15
      <3>3. F = out[e + 1]
        BY <1>3, <3>1, <3>2, GapStays DEF h
      <3> QED BY <1>13, <3>1, <3>2, <3>3
    <2> QED BY <2>1, <2>2
  <1>16. ASSUME m = 1 PROVE o = 0
    <2>1. \A i \in 0..(b - 1) : i \notin Solid(s)
      BY <1>1, <1>16
    <2>2. 0 \in Nat /\ b - 1 \in Nat /\ 0 <= b - 1 /\ b - 1 <= h
      BY <1>3, <1>5
    <2>3. out[b - 1] = out[0]
      BY <2>1, <2>2, GapStays DEF h
    <2> QED BY <2>3 DEF o, Written
  <1> QED BY <1>7, <1>8, <1>10, <1>11, <1>12, <1>14, <1>15, <1>16 DEF InPlace, e, w, h, b, o, next

LEMMA NormalizeJoins ==
  ASSUME NEW s \in Text
  PROVE  \E off : Joins(Normalize(s), Words(s), off)
  <1>1. IsFiniteSet(Begins(s)) /\ Begins(s) \in SUBSET Nat /\ Len(s) \in Nat
    BY TextFacts
  <1>2. PICK M, beg : Lists(beg, M, Begins(s))
    BY <1>1, ListExists
  <1>3. PICK out : /\ out[0] = <<>>
                   /\ \A n \in 1..Len(s) : out[n] = Write(s, out[n - 1], n)
                   /\ Normalize(s) = Trimmed(out[Len(s)])
    BY NormalizeWrites
  <1>4. Written(s, out)
    BY <1>3, WritesGrow DEF Written
  <1> DEFINE W == Words(s)
             F == out[Len(s)]
             N == Normalize(s)
             o(m) == Len(out[beg[m] - 1])
             e(m) == EndOf(s, beg[m])
             fin(m) == Len(out[e(m)])
  <1>5. M \in Nat /\ W = [n \in 1..M |-> WordAt(s, beg[n])]
    <2>1. M \in Nat
      BY <1>2 DEF Lists
    <2> QED BY <1>2, <2>1, WordsListed
  <1> HIDE DEF W
  <1>6. Len(W) = M /\ \A m \in 1..M : W[m] = WordAt(s, beg[m])
    BY <1>5
  <1>7. F \in Text /\ Len(F) \in Nat
    <2>1. Len(s) \in 0..Len(s) /\ Len(s) \in Len(s)..Len(s)
      BY <1>1
    <2> QED BY <1>4, <2>1, WrittenStays
  <1>8. ASSUME NEW m \in 1..M
        PROVE  /\ o(m) \in Nat /\ fin(m) = o(m) + Len(W[m]) /\ fin(m) <= Len(F)
               /\ Last(out[e(m)]) # Space
               /\ \A j \in 1..Len(W[m]) : F[o(m) + j] = W[m][j]
               /\ m # M => o(m + 1) = fin(m) + 1 /\ o(m + 1) <= Len(F) /\ F[fin(m) + 1] = Space
               /\ m = M => F = out[e(m)] \/ (Last(F) = Space /\ Len(F) = fin(m) + 1)
               /\ m = 1 => o(m) = 0
    <2>1. W[m] = WordAt(s, beg[m])
      BY <1>6
    <2> DEFINE w == WordAt(s, beg[m])
    <2>2. /\ o(m) \in Nat /\ fin(m) = o(m) + Len(w) /\ fin(m) <= Len(F)
          /\ Last(out[e(m)]) # Space
          /\ \A j \in 1..Len(w) : F[o(m) + j] = w[j]
          /\ m # M => o(m + 1) = fin(m) + 1 /\ o(m + 1) <= Len(F) /\ F[fin(m) + 1] = Space
          /\ m = M => F = out[e(m)] \/ (Last(F) = Space /\ Len(F) = fin(m) + 1)
          /\ m = 1 => o(m) = 0
      <3>1. InPlace(s, out, beg, M, m)
        BY <1>2, <1>4, WordWritten
      <3> QED BY <3>1 DEF InPlace
    <2> HIDE DEF w, o, e, fin, F
    <2>3. W[m] = w
      BY <2>1 DEF w
    <2> QED BY <2>2, <2>3
  <1>9. ASSUME NEW m \in 1..M
        PROVE  /\ Len(W[m]) \in Nat \ {0} /\ W[m] \in Seq(Chars)
               /\ \A j \in 1..Len(W[m]) : W[m][j] # Space
    <2>1. beg[m] \in Begins(s)
      BY <1>2 DEF Lists
    <2> QED BY <1>6, <2>1, WordFacts
  <1> HIDE DEF o, e, fin, F
  <1>10. CASE M = 0
    <2>1. Begins(s) = {}
      <3>1. 1..M = {}
        BY <1>10
      <3> QED BY <1>2, <3>1 DEF Lists
    <2>2. 0 \notin Solid(s) /\ 0 \in Nat /\ 0 <= Len(s) /\ \A n \in (0 + 1)..Len(s) : n \notin Begins(s)
      BY <1>1, <2>1, TextFacts
    <2>3. \A n \in 0..Len(s) : n \notin Solid(s)
      BY <1>1, <2>2, GapHolds
    <2>4. F = out[0]
      <3>1. Len(s) <= Len(s)
        BY <1>1
      <3> QED BY <1>1, <1>4, <2>2, <2>3, <3>1, GapStays DEF F
    <2>5. N = <<>>
      BY <1>3, <2>4 DEF Trimmed, F
    <2> DEFINE off == [m \in 1..1 |-> 0]
    <2>6. off \in [1..(0 + 1) -> Nat] /\ off[1] = 0
      OBVIOUS
    <2>7. N \in Text /\ Len(N) = 0
      BY <2>5 DEF Text
    <2> HIDE DEF off, N
    <2>8. Joins(N, W, off)
      BY <1>6, <1>10, <2>6, <2>7 DEF Joins
    <2> QED BY <2>8 DEF N, W
  <1>11. CASE M # 0
    <2>1. M \in 1..M /\ 1 \in 1..M /\ M + 1 \in 1..(M + 1)
      BY <1>5, <1>11
    <2>2. N \in Text /\ Len(N) = fin(M) /\ fin(M) \in Nat /\ \A i \in 1..fin(M) : N[i] = F[i]
      <3>1. N = Trimmed(F)
        BY <1>3 DEF F
      <3>2. o(M) \in Nat /\ fin(M) = o(M) + Len(W[M]) /\ Len(W[M]) \in Nat \ {0}
        BY <1>8, <1>9, <2>1
      <3>3. fin(M) \in Nat \ {0}
        BY <3>2
      <3>4. CASE F = out[e(M)]
        <4>1. Last(F) # Space
          BY <1>8, <2>1, <3>4
        <4>2. N = F /\ Len(F) = fin(M)
          BY <3>1, <3>4, <4>1 DEF Trimmed, fin
        <4> QED BY <1>7, <3>3, <4>2
      <3>5. CASE Last(F) = Space /\ Len(F) = fin(M) + 1
        <4>1. F # <<>>
          BY <3>3, <3>5
        <4>2. N = SubSeq(F, 1, Len(F) - 1)
          BY <3>1, <3>5, <4>1 DEF Trimmed, Front
        <4>3. Len(F) - 1 = fin(M)
          BY <3>3, <3>5
        <4>4. N = SubSeq(F, 1, fin(M))
          BY <4>2, <4>3
        <4>5. F \in Seq(Chars) /\ fin(M) \in 1..Len(F)
          BY <1>7, <3>3, <3>5 DEF Text
        <4> HIDE DEF N
        <4>6. N \in Seq(Chars) /\ Len(N) = fin(M) /\ \A i \in 1..fin(M) : N[i] = F[i]
          BY <3>3, <4>4, <4>5
        <4> QED BY <3>3, <4>6 DEF Text
      <3> QED BY <1>8, <2>1, <3>4, <3>5
    <2> HIDE DEF N
    <2> DEFINE off == [m \in 1..(M + 1) |-> IF m = M + 1 THEN fin(M) + 1 ELSE o(m)]
    <2>3. \A m \in 1..M : m \in 1..(M + 1) /\ m # M + 1 /\ m + 1 \in 1..(M + 1)
      BY <1>5
    <2>4. \A m \in 1..M : off[m] = o(m) /\ off[m + 1] = fin(m) + 1
      <3> SUFFICES ASSUME NEW m \in 1..M PROVE off[m] = o(m) /\ off[m + 1] = fin(m) + 1
        OBVIOUS
      <3>1. off[m] = o(m)
        BY <2>3
      <3>2. CASE m = M
        BY <2>1, <3>1, <3>2
      <3>3. CASE m # M
        <4>1. m + 1 # M + 1 /\ m + 1 \in 1..(M + 1)
          BY <1>5, <2>3, <3>3
        <4>2. off[m + 1] = o(m + 1)
          BY <4>1
        <4> QED BY <1>8, <3>1, <3>3, <4>2
      <3> QED BY <3>2, <3>3
    <2>5. off \in [1..(M + 1) -> Nat]
      <3>1. ASSUME NEW m \in 1..(M + 1), m # M + 1 PROVE o(m) \in Nat
        <4>1. m \in 1..M
          BY <1>5, <3>1
        <4> QED BY <1>8, <4>1
      <3>2. fin(M) + 1 \in Nat
        BY <2>2
      <3> QED BY <3>1, <3>2
    <2>6. off[M + 1] = fin(M) + 1
      BY <2>1
    <2> HIDE DEF off
    <2>7. off[1] = 0
      BY <1>8, <2>1, <2>4
    <2>8. ASSUME NEW m \in 1..M PROVE fin(m) <= fin(M) /\ (m # M => fin(m) + 1 <= fin(M))
      <3> DEFINE S == {k \in m..M : fin(m) <= fin(k) /\ (m # k => fin(m) + 1 <= fin(k))}
      <3>1. \A k \in 1..M : fin(k) \in Nat
        <4> SUFFICES ASSUME NEW k \in 1..M PROVE fin(k) \in Nat
          OBVIOUS
        <4>1. o(k) \in Nat /\ Len(W[k]) \in Nat /\ fin(k) = o(k) + Len(W[k])
          BY <1>8, <1>9
        <4> QED BY <4>1
      <3>2. m \in S
        BY <1>5, <3>1
      <3>3. ASSUME NEW k \in m..(M - 1), k \in S PROVE k + 1 \in S
        <4> DEFINE l == k + 1
        <4>1. k \in 1..M /\ l \in 1..M /\ k # M /\ l \in m..M /\ m # l
          BY <1>5
        <4> HIDE DEF l
        <4>2. o(l) = fin(k) + 1
          BY <1>8, <4>1 DEF l
        <4>3. fin(l) = o(l) + Len(W[l]) /\ Len(W[l]) \in Nat
          BY <1>8, <1>9, <4>1
        <4>4. fin(m) + 1 <= fin(l)
          BY <3>1, <3>3, <4>1, <4>2, <4>3
        <4>5. fin(m) <= fin(l)
          BY <3>1, <4>1, <4>4
        <4>6. l \in S
          BY <4>1, <4>4, <4>5
        <4> QED BY <4>6 DEF l
      <3> HIDE DEF S
      <3>4. m \in Int /\ M \in Int /\ \A k \in m..(M - 1) : k \in S => k + 1 \in S
        BY <1>5, <3>3
      <3>5. m..M \subseteq S
        BY <3>2, <3>4, IntervalInduction
      <3>6. M \in m..M
        BY <1>5
      <3>7. M \in S
        BY <3>5, <3>6
      <3> QED BY <3>7 DEF S
    <2>9. ASSUME NEW m \in 1..M
          PROVE  Spells(N, W, off, m)
      <3>1. /\ o(m) \in Nat /\ fin(m) = o(m) + Len(W[m]) /\ Len(W[m]) \in Nat
            /\ fin(m) <= fin(M) /\ fin(M) \in Nat
        BY <1>8, <1>9, <2>2, <2>8
      <3>2. off[m + 1] = off[m] + Len(W[m]) + 1
        BY <2>4, <3>1
      <3>3. ASSUME NEW j \in 1..Len(W[m]) PROVE N[off[m] + j] = W[m][j]
        <4>1. o(m) + j \in 1..fin(M)
          BY <3>1
        <4>2. N[o(m) + j] = F[o(m) + j]
          BY <2>2, <4>1
        <4> QED BY <1>8, <2>4, <4>2
      <3>4. ASSUME m # M PROVE N[off[m + 1]] = Space
        <4>1. fin(m) + 1 \in 1..fin(M)
          BY <2>8, <3>1, <3>4
        <4>2. N[fin(m) + 1] = F[fin(m) + 1]
          BY <2>2, <4>1
        <4> QED BY <1>8, <2>4, <3>4, <4>2
      <3>5. off[m] \in Nat /\ off[m + 1] \in Nat
        BY <2>3, <2>5
      <3> QED BY <1>6, <1>9, <3>2, <3>3, <3>4, <3>5 DEF Spells
    <2>10. Len(N) = off[M + 1] - 1
      BY <2>2, <2>6
    <2>11. Joins(N, W, off)
      BY <1>5, <1>6, <1>9, <1>11, <2>2, <2>5, <2>7, <2>9, <2>10 DEF Joins
    <2> QED BY <2>11 DEF N, W
  <1> QED BY <1>10, <1>11

-----------------------------------------------------------------------------
(***************************************************************************)
(* A text found in another: words found in words.                          *)
(***************************************************************************)
LEMMA WordsSequence ==
  ASSUME NEW s \in Text
  PROVE  /\ Len(Words(s)) \in Nat /\ DOMAIN Words(s) = 1..Len(Words(s))
         /\ Words(s) = [m \in 1..Len(Words(s)) |-> Words(s)[m]]
         /\ Words(s) = <<>> <=> Len(Words(s)) = 0
  <1> DEFINE W == Words(s)
  <1>1. IsFiniteSet(Begins(s)) /\ Begins(s) \in SUBSET Nat
    BY TextFacts
  <1>2. PICK M, beg : Lists(beg, M, Begins(s))
    BY <1>1, ListExists
  <1>3. M \in Nat
    BY <1>2 DEF Lists
  <1>4. W = [n \in 1..M |-> WordAt(s, beg[n])]
    BY <1>2, WordsListed
  <1> HIDE DEF W
  <1>5. Len(W) = M /\ DOMAIN W = 1..M
    BY <1>3, <1>4
  <1>6. M = 0 <=> W = <<>>
    BY <1>3, <1>4
  <1>7. W = [m \in 1..M |-> W[m]]
    BY <1>4
  <1> QED BY <1>3, <1>5, <1>6, <1>7 DEF W

LEMMA JoinFacts ==
  ASSUME NEW N, NEW W, NEW off, Joins(N, W, off), Len(W) # 0
  PROVE  /\ Len(W) \in Nat \ {0} /\ Len(N) \in Nat /\ off[1] = 0
         /\ \A m \in 1..(Len(W) + 1) : off[m] \in Nat
         /\ off[Len(W) + 1] = Len(N) + 1
         /\ \A m \in 1..Len(W) : Spells(N, W, off, m) /\ W[m] \in Seq(Chars)
  <1>1. Len(W) \in Nat \ {0} /\ N \in Text
    BY DEF Joins
  <1>2. Len(N) \in Nat
    BY <1>1 DEF Text
  <1>3. off \in [1..(Len(W) + 1) -> Nat] /\ off[1] = 0 /\ Len(N) = off[Len(W) + 1] - 1
    BY DEF Joins
  <1>4. \A m \in 1..(Len(W) + 1) : off[m] \in Nat
    BY <1>3
  <1>5. off[Len(W) + 1] = Len(N) + 1
    <2>1. Len(W) + 1 \in 1..(Len(W) + 1)
      BY <1>1
    <2>2. off[Len(W) + 1] \in Nat
      BY <1>4, <2>1
    <2> QED BY <1>3, <2>2
  <1>6. \A m \in 1..Len(W) : Spells(N, W, off, m) /\ W[m] \in Seq(Chars)
    BY DEF Joins
  <1> QED BY <1>1, <1>2, <1>3, <1>4, <1>5, <1>6

LEMMA OffsetsGrow ==
  ASSUME NEW N, NEW W, NEW off, Joins(N, W, off), Len(W) # 0, NEW m \in 1..(Len(W) + 1)
  PROVE  \A k \in m..(Len(W) + 1) : off[m] <= off[k]
  <1> DEFINE L == Len(W) + 1
             S == {k \in m..L : off[m] <= off[k]}
  <1>1. L \in Nat /\ m \in Nat /\ m \in 1..L /\ m \in m..L /\ \A k \in 1..L : off[k] \in Nat
    BY JoinFacts
  <1>2. m \in S
    BY <1>1
  <1>3. ASSUME NEW k \in m..(L - 1), k \in S PROVE k + 1 \in S
    <2>1. k \in 1..Len(W) /\ k \in 1..L /\ k + 1 \in 1..L /\ k + 1 \in m..L
      BY <1>1
    <2>2. off[k + 1] = off[k] + Len(W[k]) + 1 /\ Len(W[k]) \in Nat
      BY <2>1, JoinFacts DEF Spells
    <2>3. off[m] <= off[k] /\ off[m] \in Nat /\ off[k] \in Nat /\ off[k + 1] \in Nat
      BY <1>1, <1>3, <2>1
    <2>4. off[m] <= off[k + 1]
      BY <2>2, <2>3
    <2> QED BY <2>1, <2>4
  <1> HIDE DEF S, L
  <1>4. \A k \in m..(L - 1) : k \in S => k + 1 \in S
    BY <1>3
  <1>5. m..L \subseteq S
    <2>1. m \in Int /\ L \in Int
      BY <1>1
    <2> QED BY <1>2, <1>4, <2>1, IntervalInduction
  <1> QED BY <1>5 DEF S, L

(* Every position is one of a word or of the space after it.               *)
Covers(W, off, m, p) ==
  \/ \E j \in 1..Len(W[m]) : p = off[m] + j
  \/ m # Len(W) /\ p = off[m + 1]

LEMMA JoinCovers ==
  ASSUME NEW N, NEW W, NEW off, Joins(N, W, off), Len(W) # 0, NEW p \in 1..Len(N)
  PROVE  \E m \in 1..Len(W) : Covers(W, off, m, p)
  <1> DEFINE L == Len(W) + 1
             In(m) == \/ \E j \in 1..Len(W[m]) : p = off[m] + j
                      \/ m # Len(W) /\ p = off[m + 1]
             S == {k \in 1..L : (p <= off[k] /\ k # L) \/ p < off[k] => \E m \in 1..Len(W) : In(m)}
  <1>1. Len(W) \in Nat \ {0} /\ Len(N) \in Nat /\ off[1] = 0 /\ p \in Nat \ {0} /\ p <= Len(N) /\ off[L] = Len(N) + 1
    BY JoinFacts
  <1>2. \A k \in 1..L : off[k] \in Nat
    BY JoinFacts
  <1>3. 1 \in S
    <2>1. ~(p <= off[1]) /\ ~(p < off[1]) /\ 1 \in 1..L
      BY <1>1
    <2> QED BY <2>1
  <1>4. ASSUME NEW k \in 1..(L - 1), k \in S PROVE k + 1 \in S
    <2>1. k \in 1..Len(W) /\ k \in 1..L /\ k + 1 \in 1..L /\ k # L /\ k \in Nat
      BY <1>1
    <2>2. off[k + 1] = off[k] + Len(W[k]) + 1 /\ Len(W[k]) \in Nat /\ off[k] \in Nat /\ off[k + 1] \in Nat
      BY <2>1, JoinFacts DEF Spells
    <2>3. ASSUME (p <= off[k + 1] /\ k + 1 # L) \/ p < off[k + 1] PROVE \E m \in 1..Len(W) : In(m)
      <3>1. CASE p <= off[k]
        BY <1>4, <2>1, <3>1
      <3>2. CASE p > off[k] /\ p < off[k + 1]
        <4>1. p - off[k] \in 1..Len(W[k]) /\ p = off[k] + (p - off[k])
          BY <1>1, <2>2, <3>2
        <4>2. In(k)
          BY <4>1
        <4> QED BY <2>1, <4>2
      <3>3. CASE p = off[k + 1] /\ k + 1 # L
        <4>1. k # Len(W)
          BY <1>1, <2>1, <3>3
        <4> QED BY <2>1, <3>3, <4>1
      <3> QED BY <1>1, <2>2, <2>3, <3>1, <3>2, <3>3
    <2> QED BY <2>1, <2>3
  <1>5. L \in Int /\ 1 \in Int /\ \A k \in 1..(L - 1) : k \in S => k + 1 \in S
    BY <1>1, <1>4
  <1>6. L \in 1..L /\ p < off[L]
    BY <1>1
  <1> HIDE DEF S, L
  <1>7. 1..L \subseteq S
    BY <1>3, <1>5, IntervalInduction
  <1>8. L \in S
    BY <1>6, <1>7
  <1>9. \E m \in 1..Len(W) : In(m)
    BY <1>6, <1>8 DEF S
  <1> QED BY <1>9 DEF Covers

(* Q is read in N after its first a characters.                            *)
Occurs(Q, N, a) ==
  a + Len(Q) <= Len(N) /\ \A i \in 1..Len(Q) : N[a + i] = Q[i]

(* The words w are read in the words v from the one after the k-th on, the *)
(* first of them after c characters of it.                                 *)
After(c, m) == IF m = 1 THEN c ELSE 0

Read(w, v, k, c) ==
  \A m \in 1..Len(w) :
    /\ After(c, m) + Len(w[m]) <= Len(v[k + m])
    /\ \A j \in 1..Len(w[m]) : v[k + m][After(c, m) + j] = w[m][j]
    /\ m # Len(w) => After(c, m) + Len(w[m]) = Len(v[k + m])

LEMMA SpellsWithin ==
  ASSUME NEW N, NEW W, NEW off, Joins(N, W, off), Len(W) # 0, NEW m \in 1..Len(W)
  PROVE  /\ off[m] \in Nat /\ Len(W[m]) \in Nat \ {0} /\ Len(N) \in Nat
         /\ off[m] + Len(W[m]) <= Len(N)
         /\ \A j \in 1..Len(W[m]) : N[off[m] + j] = W[m][j] /\ W[m][j] # Space
         /\ off[m + 1] = off[m] + Len(W[m]) + 1
         /\ m = Len(W) => off[m] + Len(W[m]) = Len(N)
         /\ m # Len(W) => /\ off[m] + Len(W[m]) < Len(N)
                          /\ N[off[m] + Len(W[m]) + 1] = Space
  <1> DEFINE L == Len(W)
             l == Len(W[m])
             n == Len(N)
             o == off[m]
  <1>1. L \in Nat \ {0} /\ n \in Nat /\ m \in Nat /\ m <= L
    BY JoinFacts
  <1>2. off[L + 1] = n + 1
    BY JoinFacts
  <1>3. Spells(N, W, off, m)
    BY JoinFacts
  <1>4. /\ o \in Nat /\ l \in Nat \ {0} /\ off[m + 1] = o + l + 1
        /\ \A j \in 1..l : N[o + j] = W[m][j] /\ W[m][j] # Space
        /\ m # L => N[o + l + 1] = Space
    BY <1>3 DEF Spells
  <1>5. ASSUME m # L PROVE off[m + 1] <= n
    <2>1. m + 1 \in 1..L
      BY <1>1, <1>5
    <2>2. Spells(N, W, off, m + 1)
      BY <2>1, JoinFacts
    <2>3. off[m + 1] \in Nat /\ Len(W[m + 1]) \in Nat \ {0} /\ off[m + 1 + 1] = off[m + 1] + Len(W[m + 1]) + 1
      BY <2>2 DEF Spells
    <2>4. m + 1 + 1 \in 1..(L + 1) /\ L + 1 \in (m + 1 + 1)..(L + 1)
      BY <1>1, <2>1
    <2>5. off[m + 1 + 1] <= off[L + 1]
      BY <2>4, OffsetsGrow
    <2>6. off[m + 1] + Len(W[m + 1]) + 1 <= n + 1
      BY <1>2, <2>3, <2>5
    <2> HIDE DEF n
    <2> QED BY <1>1, <2>3, <2>6
  <1>6. m = L => o + l + 1 = n + 1
    BY <1>2, <1>4
  <1> HIDE DEF L, l, n, o
  <1>7. (m = L => o + l = n) /\ (m # L => o + l < n) /\ o + l <= n
    <2>1. CASE m = L
      BY <1>1, <1>4, <1>6, <2>1
    <2>2. CASE m # L
      BY <1>1, <1>4, <1>5, <2>2
    <2> QED BY <2>1, <2>2
  <1> QED BY <1>1, <1>4, <1>7 DEF L, l, n, o

(* A space follows every word but the last.                                *)
LEMMA SpaceAfter ==
  ASSUME NEW N, NEW W, NEW off, Joins(N, W, off), Len(W) # 0, NEW m \in 1..Len(W),
         m # Len(W)
  PROVE  /\ off[m] + Len(W[m]) < Len(N)
         /\ N[off[m] + Len(W[m]) + 1] = Space
  BY SpellsWithin

(* A word of Q read in N where a word of N has gone on for b characters.   *)
LEMMA AlignedWord ==
  ASSUME NEW Q, NEW w, NEW oq, Joins(Q, w, oq), Len(w) # 0,
         NEW N, NEW v, NEW on, Joins(N, v, on), Len(v) # 0,
         NEW a \in Nat, Occurs(Q, N, a),
         NEW m \in 1..Len(w), NEW l \in 1..Len(v),
         NEW b \in Nat, b < Len(v[l]), on[l] + b = a + oq[m]
  PROVE  /\ b + Len(w[m]) <= Len(v[l])
         /\ \A j \in 1..Len(w[m]) : v[l][b + j] = w[m][j]
         /\ m # Len(w) => /\ b + Len(w[m]) = Len(v[l]) /\ l # Len(v)
                          /\ on[l + 1] = a + oq[m + 1]
  <1> DEFINE LQ == Len(Q)
             LN == Len(N)
             y == w[m]
             ly == Len(w[m])
             q == oq[m]
             x == v[l]
             lx == Len(v[l])
             o == on[l]
  <1>1. /\ q \in Nat /\ ly \in Nat \ {0} /\ LQ \in Nat /\ q + ly <= LQ
        /\ \A j \in 1..ly : Q[q + j] = y[j] /\ y[j] # Space
        /\ oq[m + 1] = q + ly + 1
    BY SpellsWithin
  <1>2. ASSUME m # Len(w) PROVE q + ly < LQ /\ Q[q + ly + 1] = Space
    BY <1>2, SpaceAfter
  <1>3. /\ o \in Nat /\ lx \in Nat \ {0} /\ LN \in Nat
        /\ \A j \in 1..lx : N[o + j] = x[j] /\ x[j] # Space
        /\ on[l + 1] = o + lx + 1
        /\ o + lx = LN \/ N[o + lx + 1] = Space
        /\ l = Len(v) => o + lx = LN
    BY SpellsWithin
  <1>4. a + LQ <= LN /\ \A i \in 1..LQ : N[a + i] = Q[i]
    BY DEF Occurs
  <1>5. b < lx /\ o + b = a + q
    OBVIOUS
  <1> HIDE DEF LQ, LN, y, ly, q, x, lx, o
  <1>6. b + ly <= lx
    <2> SUFFICES ASSUME b + ly > lx PROVE FALSE
      BY <1>1, <1>3
    <2> DEFINE i == lx - b + 1
    <2>1. i \in 1..ly /\ q + i \in 1..LQ /\ a + (q + i) = o + lx + 1 /\ o + lx + 1 <= LN
      <3>1. i \in 1..ly
        BY <1>1, <1>3, <1>5
      <3>2. q + i \in 1..LQ
        BY <1>1, <3>1
      <3>3. a + (q + i) = o + lx + 1
        <4>1. a \in Nat /\ q \in Nat /\ b \in Nat /\ o \in Nat /\ lx \in Nat
          BY <1>1, <1>3
        <4>2. a + q = o + b
          BY <1>5
        <4> QED BY <4>1, <4>2
      <3>4. a + (q + i) <= LN
        BY <1>1, <1>3, <1>4, <3>2
      <3> QED BY <3>1, <3>2, <3>3, <3>4
    <2> HIDE DEF i
    <2>2. N[o + lx + 1] = Q[q + i] /\ Q[q + i] = y[i] /\ y[i] # Space
      BY <1>1, <1>4, <2>1
    <2> QED BY <1>3, <2>1, <2>2
  <1>7. ASSUME NEW j \in 1..ly PROVE x[b + j] = y[j]
    <2>1. b + j \in 1..lx
      BY <1>1, <1>3, <1>6
    <2>2. q + j \in 1..LQ
      BY <1>1
    <2>3. o + (b + j) = a + (q + j)
      BY <1>1, <1>3, <1>5
    <2>4. N[o + (b + j)] = x[b + j] /\ N[a + (q + j)] = Q[q + j] /\ Q[q + j] = y[j]
      BY <1>1, <1>3, <1>4, <2>1, <2>2
    <2> QED BY <2>3, <2>4
  <1>8. ASSUME m # Len(w) PROVE b + ly = lx /\ l # Len(v) /\ on[l + 1] = a + oq[m + 1]
    <2>1. q + ly + 1 \in 1..LQ
      BY <1>2, <1>1, <1>8
    <2>2. N[a + (q + ly + 1)] = Space
      BY <1>2, <1>4, <1>8, <2>1
    <2>3. b + ly = lx
      <3> SUFFICES ASSUME b + ly < lx PROVE FALSE
        BY <1>1, <1>3, <1>6
      <3>1. b + ly + 1 \in 1..lx
        BY <1>1, <1>3
      <3>2. o + (b + ly + 1) = a + (q + ly + 1)
        BY <1>1, <1>3, <1>5
      <3>3. N[o + (b + ly + 1)] # Space
        BY <1>3, <3>1
      <3> QED BY <2>2, <3>2, <3>3
    <2>4. o + lx + 1 = a + (q + ly + 1)
      BY <1>1, <1>3, <1>5, <2>3
    <2>5. a + (q + ly + 1) <= LN
      BY <1>1, <1>3, <1>4, <2>1
    <2>6. o + lx # LN
      BY <1>3, <2>4, <2>5
    <2> QED BY <1>1, <1>3, <2>3, <2>4, <2>6
  <1> QED BY <1>6, <1>7, <1>8 DEF y, ly, x, lx

LEMMA OccursRead ==
  ASSUME NEW Q, NEW w, NEW oq, Joins(Q, w, oq), Len(w) # 0,
         NEW N, NEW v, NEW on, Joins(N, v, on), Len(v) # 0,
         NEW a \in Nat, Occurs(Q, N, a)
  PROVE  \E k \in Nat, c \in Nat :
           /\ k + Len(w) <= Len(v) /\ Read(w, v, k, c)
           /\ a = 0 => k = 0 /\ c = 0
  <1> DEFINE K == Len(w)
             V == Len(v)
  <1>1. /\ K \in Nat \ {0} /\ oq[1] = 0 /\ V \in Nat \ {0} /\ on[1] = 0
    BY JoinFacts
  <1>2. a + 1 \in 1..Len(N) /\ N[a + 1] # Space
    <2>1. 1 \in 1..K
      BY <1>1
    <2>2. /\ Len(w[1]) \in Nat \ {0} /\ Len(Q) \in Nat /\ oq[1] + Len(w[1]) <= Len(Q)
          /\ \A j \in 1..Len(w[1]) : Q[oq[1] + j] = w[1][j] /\ w[1][j] # Space
      BY <2>1, SpellsWithin
    <2>3. 1 \in 1..Len(w[1]) /\ oq[1] + 1 = 1 /\ 1 \in 1..Len(Q)
      BY <1>1, <2>2
    <2>4. Q[1] # Space
      BY <2>2, <2>3
    <2>5. N[a + 1] = Q[1] /\ a + Len(Q) <= Len(N)
      BY <2>3 DEF Occurs
    <2>6. Len(N) \in Nat
      BY JoinFacts
    <2> QED BY <2>2, <2>3, <2>4, <2>5, <2>6
  <1>3. PICK l \in 1..V : \/ \E j \in 1..Len(v[l]) : a + 1 = on[l] + j
                          \/ l # V /\ a + 1 = on[l + 1]
    <2>1. \E m \in 1..V : Covers(v, on, m, a + 1)
      BY <1>2, JoinCovers
    <2> QED BY <2>1 DEF Covers
  <1>4. /\ on[l] \in Nat /\ Len(v[l]) \in Nat \ {0}
        /\ on[l + 1] = on[l] + Len(v[l]) + 1
        /\ l # V => N[on[l] + Len(v[l]) + 1] = Space
    BY SpellsWithin
  <1>5. PICK j0 \in 1..Len(v[l]) : a + 1 = on[l] + j0
    BY <1>2, <1>3, <1>4
  <1> DEFINE k == l - 1
             c == j0 - 1
  <1>6. k \in Nat /\ c \in Nat /\ c < Len(v[l]) /\ on[l] + c = a /\ k + 1 = l
    <2>1. l \in Nat \ {0} /\ j0 \in Nat \ {0} /\ j0 <= Len(v[l])
      BY <1>1, <1>4
    <2> QED BY <1>4, <1>5, <2>1
  <1> HIDE DEF k, c
  <1>7. ASSUME a = 0 PROVE k = 0 /\ c = 0
    <2>1. on[l] = 0 /\ c = 0
      BY <1>4, <1>6, <1>7
    <2>2. CASE l = 1
      BY <1>6, <2>1, <2>2
    <2>3. CASE l # 1
      <3> DEFINE z == l - 1
      <3>1. z \in 1..V /\ z + 1 = l
        BY <1>1, <2>3
      <3> HIDE DEF z
      <3>2. on[z] \in Nat /\ Len(v[z]) \in Nat /\ on[z + 1] = on[z] + Len(v[z]) + 1
        BY <3>1, SpellsWithin
      <3> QED BY <2>1, <3>1, <3>2
    <2> QED BY <2>2, <2>3
  <1> DEFINE Fits(m) == /\ After(c, m) + Len(w[m]) <= Len(v[k + m])
                        /\ \A j \in 1..Len(w[m]) : v[k + m][After(c, m) + j] = w[m][j]
                        /\ m # K => After(c, m) + Len(w[m]) = Len(v[k + m])
             Lies(m) == /\ k + m <= V /\ After(c, m) < Len(v[k + m])
                        /\ on[k + m] + After(c, m) = a + oq[m]
             S == {m \in 1..K : Lies(m)}
  <1>8. Lies(1)
    <2>1. After(c, 1) = c
      BY DEF After
    <2>2. k + 1 = l /\ l <= V /\ a + oq[1] = a
      BY <1>1, <1>6
    <2> QED BY <1>6, <2>1, <2>2
  <1>9. ASSUME NEW m \in 1..K, Lies(m)
        PROVE  Fits(m) /\ (m # K => Lies(m + 1))
    <2> DEFINE g == k + m
               b == After(c, m)
    <2>1. g \in 1..V /\ b \in Nat /\ m \in Nat
      BY <1>1, <1>6, <1>9 DEF After
    <2>2. b < Len(v[g]) /\ on[g] + b = a + oq[m]
      BY <1>9
    <2> HIDE DEF g, b
    <2>3. /\ b + Len(w[m]) <= Len(v[g])
          /\ \A j \in 1..Len(w[m]) : v[g][b + j] = w[m][j]
          /\ m # K => b + Len(w[m]) = Len(v[g]) /\ g # V /\ on[g + 1] = a + oq[m + 1]
      BY <2>1, <2>2, AlignedWord
    <2>4. ASSUME m # K PROVE Lies(m + 1)
      <3>1. k + (m + 1) = g + 1 /\ g + 1 \in 1..V /\ m + 1 # 1 /\ m + 1 \in 1..K
        BY <1>1, <1>6, <2>1, <2>3, <2>4 DEF g
      <3>2. After(c, m + 1) = 0
        BY <3>1 DEF After
      <3>3. Len(v[g + 1]) \in Nat \ {0} /\ on[g + 1] \in Nat
        BY <3>1, SpellsWithin
      <3>4. on[g + 1] + 0 = a + oq[m + 1]
        BY <2>3, <2>4, <3>3
      <3> QED BY <3>1, <3>2, <3>3, <3>4
    <2> QED BY <2>3, <2>4 DEF g, b
  <1>10. \A m \in 1..K : Lies(m)
    <2>1. \A m \in 1..(K - 1) : m \in S => m + 1 \in S
      <3> SUFFICES ASSUME NEW m \in 1..(K - 1), m \in S PROVE m + 1 \in S
        OBVIOUS
      <3>1. m \in 1..K /\ m # K /\ m + 1 \in 1..K
        BY <1>1
      <3>2. Lies(m)
        OBVIOUS
      <3> HIDE DEF Lies, Fits
      <3>3. Lies(m + 1)
        BY <1>9, <3>1, <3>2
      <3> QED BY <3>1, <3>3
    <2>2. 1 \in Int /\ K \in Int
      BY <1>1
    <2>3. 1 \in S
      <3> HIDE DEF Lies
      <3>1. 1 \in 1..K
        BY <1>1
      <3> QED BY <1>8, <3>1
    <2> HIDE DEF S, K
    <2>4. 1..K \subseteq S
      BY <2>1, <2>2, <2>3, IntervalInduction
    <2>5. \A m \in S : Lies(m)
      BY DEF S
    <2> QED BY <2>4, <2>5
  <1>11. Read(w, v, k, c)
    <2>1. \A m \in 1..K : Fits(m)
      <3> HIDE DEF Lies, Fits
      <3> QED BY <1>9, <1>10
    <2> QED BY <2>1 DEF Read
  <1>12. k + K <= V
    <2>1. K \in 1..K
      BY <1>1
    <2> QED BY <1>10, <2>1
  <1> QED BY <1>6, <1>7, <1>11, <1>12

LEMMA Aligned ==
  ASSUME NEW o \in Nat, NEW b \in Nat, NEW a \in Nat, NEW q \in Nat, NEW l \in Nat, o + b = a + q
  PROVE  o + (b + l) = a + (q + l) /\ o + (b + l) + 1 = a + (q + l + 1)
  OBVIOUS

LEMMA ReadOccurs ==
  ASSUME NEW Q, NEW w, NEW oq, Joins(Q, w, oq), Len(w) # 0,
         NEW N, NEW v, NEW on, Joins(N, v, on), Len(v) # 0,
         NEW k \in Nat, NEW c \in Nat, k + Len(w) <= Len(v), Read(w, v, k, c)
  PROVE  on[k + 1] + c \in Nat /\ Occurs(Q, N, on[k + 1] + c)
  <1> DEFINE K == Len(w)
             V == Len(v)
             a == on[k + 1] + c
             Lies(m) == on[k + m] + After(c, m) = a + oq[m]
             S == {m \in 1..K : Lies(m)}
  <1>1. /\ K \in Nat \ {0} /\ V \in Nat \ {0} /\ oq[1] = 0
        /\ k + K <= V /\ k + 1 \in 1..V
    BY JoinFacts
  <1>2. on[k + 1] \in Nat /\ a \in Nat
    BY <1>1, SpellsWithin
  <1>3. Lies(1)
    BY <1>1, <1>2 DEF After
  <1> HIDE DEF a
  <1>4. ASSUME NEW m \in 1..K
        PROVE  /\ k + m \in 1..V /\ m \in Nat /\ After(c, m) \in Nat
               /\ on[k + m] \in Nat /\ oq[m] \in Nat /\ Len(w[m]) \in Nat \ {0} /\ Len(v[k + m]) \in Nat
               /\ on[k + m + 1] = on[k + m] + Len(v[k + m]) + 1
               /\ oq[m + 1] = oq[m] + Len(w[m]) + 1
               /\ After(c, m) + Len(w[m]) <= Len(v[k + m])
               /\ m # K => After(c, m) + Len(w[m]) = Len(v[k + m])
    <2>1. k + m \in 1..V /\ m \in Nat /\ After(c, m) \in Nat
      BY <1>1 DEF After
    <2>2. /\ After(c, m) + Len(w[m]) <= Len(v[k + m])
          /\ m # K => After(c, m) + Len(w[m]) = Len(v[k + m])
      BY DEF Read
    <2>3. on[k + m] \in Nat /\ Len(v[k + m]) \in Nat /\ on[k + m + 1] = on[k + m] + Len(v[k + m]) + 1
      BY <2>1, SpellsWithin
    <2>4. oq[m] \in Nat /\ Len(w[m]) \in Nat \ {0} /\ oq[m + 1] = oq[m] + Len(w[m]) + 1
      BY SpellsWithin
    <2> QED BY <2>1, <2>2, <2>3, <2>4
  <1>5. ASSUME NEW m \in 1..K, Lies(m), m # K PROVE Lies(m + 1)
    <2>1. /\ on[k + m + 1] = on[k + m] + Len(v[k + m]) + 1
          /\ After(c, m) + Len(w[m]) = Len(v[k + m])
          /\ oq[m + 1] = oq[m] + Len(w[m]) + 1
          /\ on[k + m] \in Nat /\ oq[m] \in Nat /\ Len(w[m]) \in Nat /\ After(c, m) \in Nat /\ m \in Nat \ {0}
      BY <1>4, <1>5
    <2>2. After(c, m + 1) = 0 /\ k + (m + 1) = k + m + 1
      BY <2>1 DEF After
    <2>3. on[k + m] + After(c, m) = a + oq[m]
      BY <1>5
    <2>4. on[k + m] + (After(c, m) + Len(w[m])) + 1 = a + (oq[m] + Len(w[m]) + 1)
      <3> DEFINE o == on[k + m]
                 within == After(c, m)
                 start == oq[m]
                 long == Len(w[m])
      <3>1. o \in Nat /\ within \in Nat /\ start \in Nat /\ long \in Nat /\ a \in Nat
        BY <1>2, <2>1
      <3>2. o + within = a + start
        BY <2>3
      <3> HIDE DEF o, within, start, long
      <3>3. o + (within + long) + 1 = a + (start + long + 1)
        BY <3>1, <3>2, Aligned
      <3> QED BY <3>3 DEF o, within, start, long
    <2>5. on[k + m + 1] = a + oq[m + 1]
      BY <2>1, <2>4
    <2>6. on[k + m + 1] \in Nat
      <3>1. on[k + m] \in Nat /\ Len(v[k + m]) \in Nat /\ on[k + m + 1] = on[k + m] + Len(v[k + m]) + 1
        BY <1>4
      <3> QED BY <3>1
    <2>7. on[k + m + 1] + 0 = a + oq[m + 1]
      BY <2>5, <2>6
    <2> QED BY <2>2, <2>7
  <1>6. ASSUME NEW m \in 1..K PROVE Lies(m)
    <2>1. ASSUME NEW n \in 1..(K - 1), n \in S PROVE n + 1 \in S
      <3>1. n \in 1..K /\ n # K /\ n + 1 \in 1..K
        BY <1>1
      <3>2. Lies(n)
        BY <2>1
      <3> HIDE DEF Lies
      <3> QED BY <1>5, <3>1, <3>2
    <2>2. 1 \in S /\ 1 \in Int /\ K \in Int
      <3> HIDE DEF Lies
      <3> QED BY <1>1, <1>3
    <2> HIDE DEF S
    <2>3. 1..K \subseteq S
      BY <2>1, <2>2, IntervalInduction
    <2>4. m \in S
      BY <2>3
    <2> QED BY <2>4 DEF S
  <1>7. a + Len(Q) <= Len(N)
    <2>1. K \in 1..K /\ Len(Q) \in Nat /\ Len(N) \in Nat
      BY <1>1, JoinFacts
    <2>2. oq[K] + Len(w[K]) = Len(Q)
      BY <2>1, SpellsWithin
    <2>3. on[k + K] + Len(v[k + K]) <= Len(N)
      BY <1>4, <2>1, SpellsWithin
    <2>4. on[k + K] + After(c, K) = a + oq[K]
      BY <1>6, <2>1
    <2>5. /\ on[k + K] \in Nat /\ oq[K] \in Nat /\ After(c, K) \in Nat
          /\ Len(w[K]) \in Nat /\ Len(v[k + K]) \in Nat
          /\ After(c, K) + Len(w[K]) <= Len(v[k + K])
      BY <1>4, <2>1
    <2>6. on[k + K] + (After(c, K) + Len(w[K])) = a + (oq[K] + Len(w[K]))
      <3> DEFINE o == on[k + K]
                 within == After(c, K)
                 start == oq[K]
                 long == Len(w[K])
      <3>1. o \in Nat /\ within \in Nat /\ start \in Nat /\ long \in Nat /\ a \in Nat
        BY <1>2, <2>5
      <3>2. o + within = a + start
        BY <2>4
      <3> HIDE DEF o, within, start, long
      <3>3. o + (within + long) = a + (start + long)
        BY <3>1, <3>2, Aligned
      <3> QED BY <3>3 DEF o, within, start, long
    <2>7. on[k + K] + (After(c, K) + Len(w[K])) <= on[k + K] + Len(v[k + K])
      BY <2>5
    <2> QED BY <2>1, <2>2, <2>3, <2>5, <2>6, <2>7
  <1>8. ASSUME NEW i \in 1..Len(Q) PROVE N[a + i] = Q[i]
    <2>1. PICK m \in 1..K : Covers(w, oq, m, i)
      BY JoinCovers
    <2> DEFINE g == k + m
               b == After(c, m)
    <2>2. /\ g \in 1..V /\ b \in Nat /\ on[g] \in Nat /\ oq[m] \in Nat
          /\ b + Len(w[m]) <= Len(v[g]) /\ Len(w[m]) \in Nat \ {0} /\ Len(v[g]) \in Nat
      BY <1>4
    <2>3. on[g] + b = a + oq[m]
      BY <1>6
    <2>4. \A j \in 1..Len(w[m]) : v[g][b + j] = w[m][j]
      BY DEF Read
    <2>5. m # K => b + Len(w[m]) = Len(v[g]) /\ g # V
      BY <1>1, <1>4
    <2>6. \A j \in 1..Len(v[g]) : N[on[g] + j] = v[g][j]
      BY <2>2, SpellsWithin
    <2>7. \A j \in 1..Len(w[m]) : Q[oq[m] + j] = w[m][j]
      BY SpellsWithin
    <2> HIDE DEF g, b
    <2>8. CASE \E j \in 1..Len(w[m]) : i = oq[m] + j
      <3>1. PICK j \in 1..Len(w[m]) : i = oq[m] + j
        BY <2>8
      <3>2. on[g] + (b + j) = a + i /\ b + j \in 1..Len(v[g])
        <4>1. j \in Nat \ {0} /\ j <= Len(w[m])
          BY <2>2
        <4>2. on[g] + (b + j) = a + (oq[m] + j)
          <5> DEFINE o == on[g]
                     within == b
                     start == oq[m]
                     long == j
          <5>1. o \in Nat /\ within \in Nat /\ start \in Nat /\ long \in Nat /\ a \in Nat
            BY <1>2, <2>2, <4>1
          <5>2. o + within = a + start
            BY <2>3
          <5> HIDE DEF o, within, start, long
          <5>3. o + (within + long) = a + (start + long)
            BY <5>1, <5>2, Aligned
          <5> QED BY <5>3 DEF o, within, start, long
        <4>3. b + j \in 1..Len(v[g])
          BY <2>2, <4>1
        <4> QED BY <3>1, <4>2, <4>3
      <3>3. N[on[g] + (b + j)] = v[g][b + j] /\ v[g][b + j] = w[m][j] /\ Q[i] = w[m][j]
        BY <2>4, <2>6, <2>7, <3>1, <3>2
      <3> QED BY <3>2, <3>3
    <2>9. CASE m # K /\ i = oq[m + 1]
      <3>1. Q[oq[m] + Len(w[m]) + 1] = Space /\ oq[m + 1] = oq[m] + Len(w[m]) + 1
        BY <2>9, SpellsWithin
      <3>2. b + Len(w[m]) = Len(v[g]) /\ g # V
        BY <2>5, <2>9
      <3>3. N[on[g] + Len(v[g]) + 1] = Space
        BY <2>2, <3>2, SpaceAfter
      <3>4. on[g] + (b + Len(w[m])) + 1 = a + (oq[m] + Len(w[m]) + 1)
        <4> DEFINE o == on[g]
                   within == b
                   start == oq[m]
                   long == Len(w[m])
        <4>1. o \in Nat /\ within \in Nat /\ start \in Nat /\ long \in Nat /\ a \in Nat
          BY <1>2, <2>2
        <4>2. o + within = a + start
          BY <2>3
        <4> HIDE DEF o, within, start, long
        <4>3. o + (within + long) + 1 = a + (start + long + 1)
          BY <4>1, <4>2, Aligned
        <4> QED BY <4>3 DEF o, within, start, long
      <3>5. on[g] + Len(v[g]) + 1 = a + i
        BY <2>9, <3>1, <3>2, <3>4
      <3> QED BY <2>9, <3>1, <3>3, <3>5
    <2> QED BY <2>1, <2>8, <2>9 DEF Covers
  <1>9. on[k + 1] + c = a
    BY DEF a
  <1> QED BY <1>2, <1>7, <1>8, <1>9 DEF Occurs

(* The words of a sequence of texts, read in others, found as ApiMeaning   *)
(* says it.                                                                *)
LEMMA ReadFound ==
  ASSUME NEW w, NEW v, Len(w) \in Nat \ {0}, DOMAIN w = 1..Len(w), Len(v) \in Nat,
         NEW k \in Nat, k + Len(w) <= Len(v),
         \A m \in 1..Len(w) : w[m] \in Seq(Chars) /\ Len(w[m]) # 0,
         \A m \in 1..Len(v) : v[m] \in Seq(Chars),
         NEW c \in Nat, NEW deep \in BOOLEAN, Read(w, v, k, c), c = 0 \/ deep
  PROVE  FoundAfter(w, v, k, deep)
  <1>1. ASSUME NEW m \in DOMAIN w
        PROVE  \E a \in 0..(Len(v[k + m]) - Len(w[m])) :
                 /\ SubSeq(v[k + m], a + 1, a + Len(w[m])) = w[m]
                 /\ a # 0 => m = 1 /\ deep
                 /\ a + Len(w[m]) # Len(v[k + m]) => m = Len(w)
    <2> DEFINE a == After(c, m)
               x == v[k + m]
               y == w[m]
    <2>1. m \in 1..Len(w) /\ k + m \in 1..Len(v)
      OBVIOUS
    <2>2. x \in Seq(Chars) /\ y \in Seq(Chars) /\ Len(x) \in Nat /\ Len(y) \in Nat \ {0} /\ a \in Nat
      BY <2>1, LenProperties DEF After
    <2>3. /\ a + Len(y) <= Len(x) /\ \A j \in 1..Len(y) : x[a + j] = y[j]
          /\ m # Len(w) => a + Len(y) = Len(x)
      BY <2>1 DEF Read
    <2>4. a # 0 => m = 1 /\ deep
      BY DEF After
    <2> HIDE DEF a, x, y
    <2>5. SubSeq(x, a + 1, a + Len(y)) = y
      <3>1. /\ a + 1 \in 1..(Len(x) + 1) /\ a + Len(y) \in a..Len(x)
            /\ (a + 1) + Len(y) - 1 = a + Len(y) /\ a + Len(y) - (a + 1) + 1 = Len(y)
        BY <2>2, <2>3
      <3> DEFINE z == SubSeq(x, a + 1, a + Len(y))
      <3>2. z \in Seq(Chars) /\ Len(z) = Len(y) /\ \A j \in 1..Len(y) : z[j] = x[a + 1 + j - 1]
        BY <2>2, <2>3, <3>1, SubSeqProperties
      <3>3. \A j \in 1..Len(y) : a + 1 + j - 1 = a + j
        BY <2>2
      <3> HIDE DEF z
      <3>4. \A j \in 1..Len(y) : z[j] = y[j]
        BY <2>3, <3>2, <3>3
      <3>5. z = y
        BY <2>2, <3>2, <3>4, SeqEqual
      <3> QED BY <3>5 DEF z
    <2>6. a \in 0..(Len(x) - Len(y))
      BY <2>2, <2>3
    <2> QED BY <2>3, <2>4, <2>5, <2>6 DEF x, y
  <1> QED BY <1>1 DEF FoundAfter

LEMMA FoundRead ==
  ASSUME NEW w, NEW v, Len(w) \in Nat \ {0}, DOMAIN w = 1..Len(w), Len(v) \in Nat,
         NEW k \in Nat, k + Len(w) <= Len(v),
         \A m \in 1..Len(w) : w[m] \in Seq(Chars) /\ Len(w[m]) # 0,
         \A m \in 1..Len(v) : v[m] \in Seq(Chars),
         NEW deep \in BOOLEAN, FoundAfter(w, v, k, deep)
  PROVE  \E c \in Nat : Read(w, v, k, c) /\ (c = 0 \/ deep)
  <1> DEFINE At(m, a) == /\ SubSeq(v[k + m], a + 1, a + Len(w[m])) = w[m]
                         /\ a # 0 => m = 1 /\ deep
                         /\ a + Len(w[m]) # Len(v[k + m]) => m = Len(w)
  <1>1. \A m \in 1..Len(w) : \E a \in 0..(Len(v[k + m]) - Len(w[m])) : At(m, a)
    BY DEF FoundAfter
  <1> HIDE DEF At
  <1>2. 1 \in 1..Len(w) /\ k + 1 \in 1..Len(v)
    OBVIOUS
  <1>3. PICK c \in 0..(Len(v[k + 1]) - Len(w[1])) : At(1, c)
    BY <1>1, <1>2
  <1>4. c \in Nat
    OBVIOUS
  <1>5. c = 0 \/ deep
    BY <1>3 DEF At
  <1>6. ASSUME NEW m \in 1..Len(w)
        PROVE  /\ After(c, m) + Len(w[m]) <= Len(v[k + m])
               /\ \A j \in 1..Len(w[m]) : v[k + m][After(c, m) + j] = w[m][j]
               /\ m # Len(w) => After(c, m) + Len(w[m]) = Len(v[k + m])
    <2> DEFINE x == v[k + m]
               y == w[m]
    <2>1. PICK a \in 0..(Len(x) - Len(y)) : At(m, a) /\ (m = 1 => a = c)
      <3>1. CASE m = 1
        BY <1>3, <3>1
      <3>2. CASE m # 1
        BY <1>1, <3>2
      <3> QED BY <3>1, <3>2
    <2>2. After(c, m) = a
      BY <2>1 DEF After, At
    <2>3. k + m \in 1..Len(v)
      OBVIOUS
    <2>4. x \in Seq(Chars) /\ y \in Seq(Chars) /\ Len(x) \in Nat /\ Len(y) \in Nat \ {0}
      BY <2>3, LenProperties
    <2>5. /\ SubSeq(x, a + 1, a + Len(y)) = y
          /\ a + Len(y) # Len(x) => m = Len(w)
      BY <2>1 DEF At
    <2> HIDE DEF x, y
    <2>6. a \in Nat /\ a + Len(y) <= Len(x)
      BY <2>4
    <2> DEFINE z == SubSeq(x, a + 1, a + Len(y))
    <2>7. \A j \in 1..Len(y) : z[j] = x[a + 1 + j - 1]
      <3>1. /\ a + 1 \in 1..(Len(x) + 1) /\ a + Len(y) \in a..Len(x)
            /\ (a + 1) + Len(y) - 1 = a + Len(y) /\ a + Len(y) - (a + 1) + 1 = Len(y)
        BY <2>4, <2>6
      <3> QED BY <2>4, <2>6, <3>1, SubSeqProperties
    <2>8. \A j \in 1..Len(y) : a + 1 + j - 1 = a + j
      BY <2>6
    <2>9. \A j \in 1..Len(y) : x[a + j] = y[j]
      BY <2>5, <2>7, <2>8
    <2> QED BY <2>2, <2>5, <2>6, <2>9 DEF x, y
  <1>7. Read(w, v, k, c)
    BY <1>6 DEF Read
  <1> QED BY <1>4, <1>5, <1>7

LEMMA WordsPlain ==
  ASSUME NEW N, NEW w, NEW off, Joins(N, w, off), Len(w) # 0
  PROVE  /\ Len(w) \in Nat \ {0} /\ N \in Text /\ Len(N) \in Nat \ {0}
         /\ \A m \in 1..Len(w) : w[m] \in Seq(Chars) /\ Len(w[m]) # 0
  <1>1. Len(w) \in Nat \ {0} /\ Len(N) \in Nat /\ \A m \in 1..Len(w) : Spells(N, w, off, m) /\ w[m] \in Seq(Chars)
    BY JoinFacts
  <1>2. \A m \in 1..Len(w) : Len(w[m]) # 0
    BY <1>1 DEF Spells
  <1>3. N \in Text
    BY DEF Joins
  <1>4. Len(w) \in 1..Len(w)
    BY <1>1
  <1>5. off[Len(w)] \in Nat /\ Len(w[Len(w)]) \in Nat \ {0} /\ off[Len(w)] + Len(w[Len(w)]) <= Len(N)
    BY <1>4, SpellsWithin
  <1>6. Len(N) # 0
    BY <1>1, <1>5
  <1> QED BY <1>1, <1>2, <1>3, <1>6

LEMMA FoundOccurs ==
  ASSUME NEW Q, NEW w, NEW oq, Joins(Q, w, oq), Len(w) # 0, DOMAIN w = 1..Len(w),
         NEW N, NEW v, NEW on, Joins(N, v, on), Len(v) # 0
  PROVE  /\ Starts(w, v) <=> Occurs(Q, N, 0)
         /\ Inside(w, v) <=> \E a \in Nat : Occurs(Q, N, a)
  <1>1. /\ Len(w) \in Nat \ {0} /\ \A m \in 1..Len(w) : w[m] \in Seq(Chars) /\ Len(w[m]) # 0
        /\ Len(v) \in Nat \ {0} /\ \A m \in 1..Len(v) : v[m] \in Seq(Chars)
    BY WordsPlain
  <1>2. on[1] = 0 /\ on[0 + 1] + 0 = 0
    BY JoinFacts
  <1>3. ASSUME Starts(w, v) PROVE Occurs(Q, N, 0)
    <2>1. Len(w) <= Len(v) /\ FoundAfter(w, v, 0, FALSE)
      BY <1>3 DEF Starts
    <2>2. 0 + Len(w) <= Len(v)
      BY <1>1, <2>1
    <2>3. 0 \in Nat /\ FALSE \in BOOLEAN
      OBVIOUS
    <2>4. PICK c \in Nat : Read(w, v, 0, c) /\ (c = 0 \/ FALSE)
      BY <1>1, <2>1, <2>2, <2>3, FoundRead
    <2>5. Read(w, v, 0, 0)
      BY <2>4
    <2>6. Occurs(Q, N, on[0 + 1] + 0)
      BY <2>2, <2>3, <2>5, ReadOccurs
    <2> QED BY <1>2, <2>6
  <1>4. ASSUME Occurs(Q, N, 0) PROVE Starts(w, v)
    <2>1. 0 \in Nat /\ FALSE \in BOOLEAN
      OBVIOUS
    <2>2. PICK k \in Nat, c \in Nat :
            k + Len(w) <= Len(v) /\ Read(w, v, k, c) /\ (0 = 0 => k = 0 /\ c = 0)
      BY <1>4, <2>1, OccursRead
    <2>3. 0 + Len(w) <= Len(v) /\ Read(w, v, 0, 0)
      BY <2>2
    <2>4. FoundAfter(w, v, 0, FALSE)
      BY <1>1, <2>1, <2>3, ReadFound
    <2>5. Len(w) <= Len(v)
      BY <1>1, <2>3
    <2> QED BY <2>4, <2>5 DEF Starts
  <1>5. ASSUME Inside(w, v) PROVE \E a \in Nat : Occurs(Q, N, a)
    <2>1. PICK k \in 0..(Len(v) - Len(w)) : FoundAfter(w, v, k, TRUE)
      BY <1>5 DEF Inside
    <2>2. k \in Nat /\ k + Len(w) <= Len(v) /\ TRUE \in BOOLEAN
      BY <1>1
    <2>3. PICK c \in Nat : Read(w, v, k, c)
      BY <1>1, <2>1, <2>2, FoundRead
    <2>4. on[k + 1] + c \in Nat /\ Occurs(Q, N, on[k + 1] + c)
      BY <2>2, <2>3, ReadOccurs
    <2> QED BY <2>4
  <1>6. ASSUME NEW a \in Nat, Occurs(Q, N, a) PROVE Inside(w, v)
    <2>1. PICK k \in Nat, c \in Nat : k + Len(w) <= Len(v) /\ Read(w, v, k, c)
      BY <1>6, OccursRead
    <2>2. TRUE \in BOOLEAN
      OBVIOUS
    <2>3. FoundAfter(w, v, k, TRUE)
      BY <1>1, <2>1, <2>2, ReadFound
    <2>4. k \in 0..(Len(v) - Len(w))
      BY <1>1, <2>1
    <2> QED BY <2>3, <2>4 DEF Inside
  <1> QED BY <1>3, <1>4, <1>5, <1>6

LEMMA PartOf ==
  ASSUME NEW N \in Text, NEW b \in Nat, NEW l \in Nat, b + l <= Len(N)
  PROVE  /\ SubSeq(N, b + 1, b + l) \in Text /\ Len(SubSeq(N, b + 1, b + l)) = l
         /\ \A j \in 1..l : SubSeq(N, b + 1, b + l)[j] = N[b + j]
  <1>1. Len(N) \in Nat /\ \A i \in 1..Len(N) : N[i] \in Chars
    BY DEF Text
  <1>2. \A i \in (b + 1)..(b + l) : N[i] \in Chars
    BY <1>1
  <1>3. b + 1 \in Int /\ b + l \in Int /\ (b + l) - (b + 1) + 1 = l /\ (b + 1 <= b + l <=> l # 0)
    OBVIOUS
  <1>4. /\ SubSeq(N, b + 1, b + l) \in Seq(Chars)
        /\ Len(SubSeq(N, b + 1, b + l)) = IF b + 1 <= b + l THEN (b + l) - (b + 1) + 1 ELSE 0
        /\ \A i \in 1..((b + l) - (b + 1) + 1) : SubSeq(N, b + 1, b + l)[i] = N[b + 1 + i - 1]
    BY <1>2, <1>3, SubSeqProperties
  <1>5. \A j \in 1..l : b + 1 + j - 1 = b + j
    OBVIOUS
  <1> QED BY <1>3, <1>4, <1>5 DEF Text

LEMMA HeadOf ==
  ASSUME NEW N \in Text, NEW l \in Nat, l <= Len(N)
  PROVE  /\ SubSeq(N, 1, l) \in Text /\ Len(SubSeq(N, 1, l)) = l
         /\ \A j \in 1..l : SubSeq(N, 1, l)[j] = N[0 + j]
  <1>1. 0 \in Nat /\ 0 + l = l /\ 0 + 1 = 1
    OBVIOUS
  <1>2. /\ SubSeq(N, 0 + 1, 0 + l) \in Text /\ Len(SubSeq(N, 0 + 1, 0 + l)) = l
        /\ \A j \in 1..l : SubSeq(N, 0 + 1, 0 + l)[j] = N[0 + j]
    <2>1. 0 + l <= Len(N)
      BY <1>1
    <2> QED BY <1>1, <2>1, PartOf
  <1> QED BY <1>1, <1>2

LEMMA PrefixOccurs ==
  ASSUME NEW Q \in Text, NEW N \in Text
  PROVE  IsPrefix(Q, N) <=> Occurs(Q, N, 0)
  <1>1. Len(Q) \in Nat /\ Len(N) \in Nat
    BY DEF Text
  <1>2. ASSUME Len(Q) <= Len(N)
        PROVE  SubSeq(Q, 1, Len(Q)) = SubSeq(N, 1, Len(Q)) <=> \A i \in 1..Len(Q) : N[0 + i] = Q[i]
    <2> DEFINE x == SubSeq(Q, 1, Len(Q))
               y == SubSeq(N, 1, Len(Q))
    <2>1. Len(Q) <= Len(Q)
      BY <1>1
    <2>2. x \in Text /\ Len(x) = Len(Q) /\ \A j \in 1..Len(Q) : x[j] = Q[0 + j]
      BY <1>1, <2>1, HeadOf
    <2>3. y \in Text /\ Len(y) = Len(Q) /\ \A j \in 1..Len(Q) : y[j] = N[0 + j]
      BY <1>1, <1>2, HeadOf
    <2>4. \A j \in 1..Len(Q) : Q[0 + j] = Q[j]
      BY <1>1
    <2> HIDE DEF x, y
    <2>5. x = y <=> \A i \in 1..Len(Q) : x[i] = y[i]
      BY <2>2, <2>3, SeqEqual DEF Text
    <2>6. x = y <=> \A i \in 1..Len(Q) : N[0 + i] = Q[i]
      BY <2>2, <2>3, <2>4, <2>5
    <2> QED BY <2>6 DEF x, y
  <1>3. Len(Q) <= Len(N) <=> 0 + Len(Q) <= Len(N)
    BY <1>1
  <1> QED BY <1>2, <1>3 DEF IsPrefix, Occurs

LEMMA WithinOccurs ==
  ASSUME NEW Q \in Text, NEW N \in Text, Len(Q) # 0
  PROVE  (\E i \in 1..Len(N) : IsPrefix(Q, SubSeq(N, i, Len(N)))) <=> (\E a \in Nat : Occurs(Q, N, a))
  <1>1. Len(Q) \in Nat \ {0} /\ Len(N) \in Nat
    BY DEF Text
  <1>2. ASSUME NEW a \in Nat, a + 1 <= Len(N)
        PROVE  IsPrefix(Q, SubSeq(N, a + 1, Len(N))) <=> Occurs(Q, N, a)
    <2> DEFINE l == Len(N) - a
               z == SubSeq(N, a + 1, Len(N))
    <2>1. l \in Nat /\ a + l = Len(N)
      BY <1>1, <1>2
    <2> HIDE DEF l
    <2>2. z \in Text /\ Len(z) = l /\ \A j \in 1..l : z[j] = N[a + j]
      <3>1. a + l <= Len(N)
        BY <1>1, <2>1
      <3>2. /\ SubSeq(N, a + 1, a + l) \in Text /\ Len(SubSeq(N, a + 1, a + l)) = l
            /\ \A j \in 1..l : SubSeq(N, a + 1, a + l)[j] = N[a + j]
        BY <2>1, <3>1, PartOf
      <3> QED BY <2>1, <3>2
    <2> HIDE DEF z
    <2>3. IsPrefix(Q, z) <=> Occurs(Q, z, 0)
      BY <2>2, PrefixOccurs
    <2>4. 0 + Len(Q) <= l <=> a + Len(Q) <= Len(N)
      BY <1>1, <2>1
    <2>5. ASSUME a + Len(Q) <= Len(N), NEW i \in 1..Len(Q)
          PROVE  z[0 + i] = N[a + i]
      <3>1. i \in 1..l /\ 0 + i = i
        BY <1>1, <2>1, <2>5
      <3> QED BY <2>2, <3>1
    <2>6. Occurs(Q, z, 0) <=> Occurs(Q, N, a)
      BY <2>2, <2>4, <2>5 DEF Occurs
    <2> QED BY <2>3, <2>6 DEF z
  <1>3. ASSUME NEW i \in 1..Len(N), IsPrefix(Q, SubSeq(N, i, Len(N)))
        PROVE  \E a \in Nat : Occurs(Q, N, a)
    <2> DEFINE a == i - 1
    <2>1. a \in Nat /\ a + 1 = i /\ a + 1 <= Len(N)
      BY <1>1
    <2> HIDE DEF a
    <2> QED BY <1>2, <1>3, <2>1
  <1>4. ASSUME NEW a \in Nat, Occurs(Q, N, a)
        PROVE  \E i \in 1..Len(N) : IsPrefix(Q, SubSeq(N, i, Len(N)))
    <2>1. a + 1 <= Len(N) /\ a + 1 \in 1..Len(N)
      BY <1>1, <1>4 DEF Occurs
    <2> QED BY <1>2, <1>4, <2>1
  <1> QED BY <1>3, <1>4

(* The ranks of a name for a query are the ways its words are found.       *)
LEMMA NormalizedEmpty ==
  ASSUME NEW s \in Text
  PROVE  Normalize(s) \in Text /\ (Normalize(s) = <<>> <=> Words(s) = <<>>)
  <1> DEFINE N == Normalize(s)
             w == Words(s)
  <1>1. PICK off : Joins(N, w, off)
    BY NormalizeJoins
  <1>2. w = <<>> <=> Len(w) = 0
    BY WordsSequence
  <1> HIDE DEF N, w
  <1>3. N \in Text
    BY <1>1 DEF Joins
  <1>4. N = <<>> <=> Len(N) = 0
    BY <1>3, EmptySeq DEF Text
  <1>5. CASE Len(w) = 0
    <2>1. Len(N) = 0
      BY <1>1, <1>5 DEF Joins
    <2> QED BY <1>2, <1>3, <1>4, <1>5, <2>1 DEF N, w
  <1>6. CASE Len(w) # 0
    <2>1. Len(N) # 0
      BY <1>1, <1>6, WordsPlain
    <2> QED BY <1>2, <1>3, <1>4, <1>6, <2>1 DEF N, w
  <1> QED BY <1>5, <1>6 DEF N, w

LEMMA SameWords ==
  ASSUME NEW Q, NEW w, NEW oq, Joins(Q, w, oq), Len(w) # 0,
         DOMAIN w = 1..Len(w), w = [m \in 1..Len(w) |-> w[m]],
         NEW N, NEW v, NEW on, Joins(N, v, on), Len(v) # 0,
         DOMAIN v = 1..Len(v), v = [m \in 1..Len(v) |-> v[m]]
  PROVE  w = v <=> N = Q
  <1>1. /\ Len(w) \in Nat \ {0} /\ Q \in Text /\ Len(Q) \in Nat
        /\ \A m \in 1..Len(w) : w[m] \in Seq(Chars) /\ Len(w[m]) # 0
        /\ Len(v) \in Nat \ {0} /\ N \in Text /\ Len(N) \in Nat
        /\ \A m \in 1..Len(v) : v[m] \in Seq(Chars) /\ Len(v[m]) # 0
    BY WordsPlain
  <1>2. ASSUME w = v PROVE N = Q
    <2>1. Read(w, v, 0, 0)
      <3>1. \A m \in 1..Len(w) : After(0, m) = 0 /\ 0 + m = m /\ Len(w[m]) \in Nat /\ 0 + Len(w[m]) = Len(w[m])
        BY <1>1, LenProperties DEF After
      <3>2. \A m \in 1..Len(w) : \A j \in 1..Len(w[m]) : 0 + j = j
        OBVIOUS
      <3>3. ASSUME NEW m \in 1..Len(w)
            PROVE  /\ After(0, m) + Len(w[m]) <= Len(v[0 + m])
                   /\ \A j \in 1..Len(w[m]) : v[0 + m][After(0, m) + j] = w[m][j]
                   /\ m # Len(w) => After(0, m) + Len(w[m]) = Len(v[0 + m])
        <4>1. After(0, m) = 0 /\ 0 + m = m /\ 0 + Len(w[m]) = Len(w[m]) /\ Len(w[m]) \in Nat
          BY <3>1
        <4>2. Len(v[m]) = Len(w[m])
          BY <1>2
        <4>3. Len(w[m]) <= Len(v[m])
          BY <4>1, <4>2
        <4>4. \A j \in 1..Len(w[m]) : v[m][0 + j] = w[m][j]
          BY <1>2, <3>2
        <4> QED BY <4>1, <4>2, <4>3, <4>4
      <3> QED BY <3>3 DEF Read
    <2>2. 0 \in Nat /\ 0 + Len(w) <= Len(v) /\ on[0 + 1] + 0 = 0
      BY <1>1, <1>2, JoinFacts
    <2>3. Occurs(Q, N, 0)
      BY <2>1, <2>2, ReadOccurs
    <2>4. Read(v, w, 0, 0)
      BY <1>2, <2>1
    <2>5. 0 + Len(v) <= Len(w) /\ oq[0 + 1] + 0 = 0
      BY <1>1, <1>2, JoinFacts
    <2>6. Occurs(N, Q, 0)
      <3>1. 0 \in Nat
        OBVIOUS
      <3>2. Occurs(N, Q, oq[0 + 1] + 0)
        BY <2>4, <2>5, <3>1, ReadOccurs
      <3> QED BY <2>5, <3>2
    <2>7. Len(N) = Len(Q) /\ \A i \in 1..Len(N) : 0 + i = i
      BY <1>1, <2>3, <2>6 DEF Occurs
    <2>8. \A i \in 1..Len(N) : N[i] = Q[i]
      BY <2>3, <2>7 DEF Occurs
    <2> QED BY <1>1, <2>7, <2>8, SeqEqual DEF Text
  <1>3. ASSUME N = Q PROVE w = v
    <2>1. Occurs(Q, N, 0) /\ Occurs(N, Q, 0)
      BY <1>1, <1>3 DEF Occurs
    <2>2. 0 \in Nat
      OBVIOUS
    <2>3. PICK k1 \in Nat, c1 \in Nat :
            k1 + Len(w) <= Len(v) /\ Read(w, v, k1, c1) /\ (0 = 0 => k1 = 0 /\ c1 = 0)
      BY <2>1, <2>2, OccursRead
    <2>4. PICK k2 \in Nat, c2 \in Nat :
            k2 + Len(v) <= Len(w) /\ Read(v, w, k2, c2) /\ (0 = 0 => k2 = 0 /\ c2 = 0)
      BY <2>1, <2>2, OccursRead
    <2>5. Read(w, v, 0, 0) /\ Read(v, w, 0, 0) /\ Len(w) = Len(v)
      <3>1. Read(w, v, 0, 0) /\ 0 + Len(w) <= Len(v)
        BY <2>3
      <3>2. Read(v, w, 0, 0) /\ 0 + Len(v) <= Len(w)
        BY <2>4
      <3>3. Len(w) = Len(v)
        <4> DEFINE K == Len(w)
                   V == Len(v)
        <4>1. K \in Nat /\ V \in Nat /\ 0 + K <= V /\ 0 + V <= K
          BY <1>1, <3>1, <3>2
        <4> HIDE DEF K, V
        <4>2. K = V
          BY <4>1
        <4> QED BY <4>2 DEF K, V
      <3> QED BY <3>1, <3>2, <3>3
    <2>6. ASSUME NEW m \in 1..Len(w) PROVE w[m] = v[m]
      <3>1. /\ After(0, m) = 0 /\ 0 + m = m /\ m \in 1..Len(v)
        BY <1>1, <2>5 DEF After
      <3>2. Len(w[m]) \in Nat /\ Len(v[m]) \in Nat /\ w[m] \in Seq(Chars) /\ v[m] \in Seq(Chars)
        BY <1>1, <3>1, LenProperties
      <3>3. 0 + Len(w[m]) <= Len(v[m]) /\ \A j \in 1..Len(w[m]) : v[m][0 + j] = w[m][j]
        BY <2>5, <3>1 DEF Read
      <3>4. 0 + Len(v[m]) <= Len(w[m])
        BY <2>5, <3>1 DEF Read
      <3>5. Len(w[m]) = Len(v[m])
        BY <3>2, <3>3, <3>4
      <3>6. \A j \in 1..Len(w[m]) : w[m][j] = v[m][j]
        BY <3>2, <3>3
      <3> QED BY <3>2, <3>5, <3>6, SeqEqual
    <2> QED BY <2>5, <2>6
  <1> QED BY <1>2, <1>3

(* The rank that Search gives a name (search.go:98-109), which it takes of *)
(* normalized strings, is the way the words asked for are found in it.     *)
THEOREM RankFinds ==
  ASSUME NEW s \in Text, NEW t \in Text, Words(s) # <<>>, Words(t) # <<>>
  PROVE  LET w == Words(s)
             v == Words(t)
             r == RankOf(Normalize(t), Normalize(s))
         IN  /\ r \in 0..3
             /\ r = 0 <=> Exactly(w, v)
             /\ r = 1 <=> Starts(w, v) /\ ~Exactly(w, v)
             /\ r = 2 <=> Inside(w, v) /\ ~Starts(w, v)
             /\ Exactly(w, v) => Starts(w, v)
             /\ Starts(w, v) => Inside(w, v)
  <1> DEFINE w == Words(s)
             v == Words(t)
             Q == Normalize(s)
             N == Normalize(t)
  <1>1. PICK oq : Joins(Q, w, oq)
    BY NormalizeJoins
  <1>2. PICK on : Joins(N, v, on)
    BY NormalizeJoins
  <1>3. Len(w) # 0 /\ DOMAIN w = 1..Len(w) /\ w = [m \in 1..Len(w) |-> w[m]]
    BY WordsSequence
  <1>4. Len(v) # 0 /\ DOMAIN v = 1..Len(v) /\ v = [m \in 1..Len(v) |-> v[m]]
    BY WordsSequence
  <1>5. Q \in Text /\ N \in Text /\ Len(Q) # 0
    <2> HIDE DEF w, v, Q, N
    <2> QED BY <1>1, <1>2, <1>3, <1>4, WordsPlain
  <1> HIDE DEF w, v, Q, N
  <1>6. w = v <=> N = Q
    BY <1>1, <1>2, <1>3, <1>4, SameWords
  <1>7. Starts(w, v) <=> IsPrefix(Q, N)
    <2>1. Starts(w, v) <=> Occurs(Q, N, 0)
      BY <1>1, <1>2, <1>3, <1>4, FoundOccurs
    <2> QED BY <1>5, <2>1, PrefixOccurs
  <1>8. Inside(w, v) <=> \E i \in 1..Len(N) : IsPrefix(Q, SubSeq(N, i, Len(N)))
    <2>1. Inside(w, v) <=> \E a \in Nat : Occurs(Q, N, a)
      BY <1>1, <1>2, <1>3, <1>4, FoundOccurs
    <2> QED BY <1>5, <2>1, WithinOccurs
  <1>9. N = Q => IsPrefix(Q, N)
    <2>1. SUFFICES ASSUME N = Q PROVE Occurs(Q, N, 0)
      BY <1>5, PrefixOccurs
    <2>2. Len(Q) \in Nat
      BY <1>5 DEF Text
    <2> QED BY <2>1, <2>2 DEF Occurs
  <1>10. IsPrefix(Q, N) => \E i \in 1..Len(N) : IsPrefix(Q, SubSeq(N, i, Len(N)))
    <2>1. Occurs(Q, N, 0) => \E a \in Nat : Occurs(Q, N, a)
      OBVIOUS
    <2> QED BY <1>5, <2>1, PrefixOccurs, WithinOccurs
  <1> DEFINE P == IsPrefix(Q, N)
             I == \E i \in 1..Len(N) : IsPrefix(Q, SubSeq(N, i, Len(N)))
             r == RankOf(N, Q)
  <1>11. r = CASE N = Q -> 0 [] N # Q /\ P -> 1 [] ~P /\ I -> 2 [] OTHER -> 3
    BY DEF RankOf, RankExact, RankPrefix, RankSubstring, NoMatch
  <1>12. (Exactly(w, v) <=> N = Q) /\ (Starts(w, v) <=> P) /\ (Inside(w, v) <=> I) /\ (N = Q => P) /\ (P => I)
    BY <1>6, <1>7, <1>8, <1>9, <1>10 DEF Exactly
  <1> HIDE DEF P, I, r
  <1>13. /\ r \in 0..3
         /\ r = 0 <=> Exactly(w, v)
         /\ r = 1 <=> Starts(w, v) /\ ~Exactly(w, v)
         /\ r = 2 <=> Inside(w, v) /\ ~Starts(w, v)
         /\ Exactly(w, v) => Starts(w, v)
         /\ Starts(w, v) => Inside(w, v)
    BY <1>11, <1>12
  <1> QED BY <1>13 DEF r, w, v, Q, N

(* The words of a text that is part of another, where nothing else is solid. *)
LEMMA ShiftedWords ==
  ASSUME NEW s \in Text, NEW t \in Text, NEW d \in Nat,
         \A j \in Int : j \in Solid(t) <=> d + j \in Solid(s),
         \A j \in Solid(t) : t[j] = s[d + j]
  PROVE  Words(t) = Words(s)
  <1>1. /\ Solid(s) \in SUBSET Nat /\ Solid(t) \in SUBSET Nat
        /\ Begins(s) \in SUBSET Nat /\ Begins(t) \in SUBSET Nat
        /\ IsFiniteSet(Begins(t))
        /\ \A i \in Solid(s) \cup Solid(t) : i \in Nat \ {0}
    <2>1. /\ Len(s) \in Nat /\ Solid(s) \subseteq 1..Len(s) /\ Begins(s) \subseteq 1..Len(s)
          /\ Len(t) \in Nat /\ Solid(t) \subseteq 1..Len(t) /\ Begins(t) \subseteq 1..Len(t)
          /\ IsFiniteSet(Begins(t))
      BY TextFacts
    <2>2. \A n \in Nat : \A i \in 1..n : i \in Nat \ {0}
      OBVIOUS
    <2>3. \A i \in Solid(s) \cup Solid(t) \cup Begins(s) \cup Begins(t) : i \in Nat \ {0}
      BY <2>1, <2>2
    <2> QED BY <2>1, <2>3
  <1>2. \A j \in Int : j \in Begins(t) <=> d + j \in Begins(s)
    <2> SUFFICES ASSUME NEW j \in Int PROVE j \in Begins(t) <=> d + j \in Begins(s)
      OBVIOUS
    <2>1. j - 1 \in Int /\ d + (j - 1) = d + j - 1
      OBVIOUS
    <2>2. j - 1 \in Solid(t) <=> d + j - 1 \in Solid(s)
      BY <2>1
    <2> QED BY <2>2 DEF Begins
  <1>3. ASSUME NEW i \in Begins(s) PROVE \E j \in Begins(t) : d + j = i
    <2> DEFINE j == i - d
    <2>1. j \in Int /\ d + j = i
      BY <1>1
    <2> HIDE DEF j
    <2>2. j \in Begins(t)
      BY <1>2, <2>1
    <2> QED BY <2>1, <2>2
  <1>4. PICK M, beg : Lists(beg, M, Begins(t))
    BY <1>1, ListExists
  <1>5. /\ M \in Nat /\ beg \in [1..M -> Begins(t)]
        /\ \A x \in Begins(t) : \E n \in 1..M : beg[n] = x
        /\ \A m, n \in 1..M : m < n => beg[m] < beg[n]
        /\ \A n \in 1..M : beg[n] \in Begins(t) /\ beg[n] \in Nat
    BY <1>1, <1>4 DEF Lists
  <1> DEFINE out == [n \in 1..M |-> d + beg[n]]
  <1>6. Lists(out, M, Begins(s))
    <2>1. out \in [1..M -> Begins(s)]
      <3>1. \A n \in 1..M : d + beg[n] \in Begins(s)
        BY <1>2, <1>5
      <3> QED BY <3>1
    <2>2. \A x \in Begins(s) : \E n \in 1..M : out[n] = x
      BY <1>3, <1>5
    <2>3. \A m, n \in 1..M : m < n => out[m] < out[n]
      BY <1>5
    <2> HIDE DEF out
    <2> QED BY <1>5, <2>1, <2>2, <2>3 DEF Lists
  <1>7. Words(t) = [n \in 1..M |-> WordAt(t, beg[n])]
    BY <1>4, WordsListed
  <1>8. Words(s) = [n \in 1..M |-> WordAt(s, out[n])]
    <2> HIDE DEF out
    <2> QED BY <1>6, WordsListed
  <1>9. ASSUME NEW j \in Begins(t) PROVE WordAt(t, j) = WordAt(s, d + j)
    <2> DEFINE e == EndOf(t, j)
               f == EndOf(s, d + j)
    <2>1. j \in Solid(t) /\ d + j \in Solid(s) /\ j \in Nat \ {0} /\ d + j \in Nat
      <3>1. j \in Solid(t)
        BY DEF Begins
      <3>2. j \in Nat \ {0} /\ j \in Int
        BY <1>1, <3>1
      <3> QED BY <3>1, <3>2
    <2>2. /\ e \in Solid(t) /\ e \in j..Len(t) /\ e + 1 \notin Solid(t)
          /\ j..e \subseteq Solid(t)
          /\ \A x \in Solid(t) : x >= j /\ x + 1 \notin Solid(t) => e <= x
      BY <2>1, EndFacts
    <2>3. /\ f \in Solid(s) /\ f \in (d + j)..Len(s) /\ f + 1 \notin Solid(s)
          /\ \A x \in Solid(s) : x >= d + j /\ x + 1 \notin Solid(s) => f <= x
      BY <2>1, EndFacts
    <2>4. e \in Nat /\ e >= j /\ f \in Nat /\ f >= d + j
      BY <1>1, <2>1, <2>2, <2>3
    <2> HIDE DEF e, f
    <2>5. f <= d + e
      <3>1. d + e \in Solid(s) /\ d + (e + 1) \notin Solid(s)
        BY <2>2, <2>4
      <3>2. d + e + 1 = d + (e + 1) /\ d + e >= d + j
        BY <2>1, <2>4
      <3>3. d + e + 1 \notin Solid(s)
        BY <3>1, <3>2
      <3> QED BY <2>3, <3>1, <3>2, <3>3
    <2>6. e <= f - d
      <3> DEFINE g == f - d
      <3>1. g \in Int /\ d + g = f /\ d + (g + 1) = f + 1 /\ g >= j
        BY <2>1, <2>4
      <3> HIDE DEF g
      <3>2. g \in Solid(t)
        BY <2>3, <3>1
      <3>3. d + (g + 1) \notin Solid(s)
        <4>1. f + 1 \notin Solid(s)
          BY <2>3
        <4> QED BY <3>1, <4>1
      <3>4. g + 1 \in Int
        BY <3>1
      <3>5. g + 1 \notin Solid(t)
        BY <3>3, <3>4
      <3>6. e <= g
        BY <2>2, <3>1, <3>2, <3>5
      <3> QED BY <3>6 DEF g
    <2>7. f - (d + j) + 1 = e - j + 1
      BY <2>1, <2>4, <2>5, <2>6
    <2>8. ASSUME NEW n \in 1..(e - j + 1) PROVE Lower[t[j + n - 1]] = Lower[s[d + j + n - 1]]
      <3>1. j + n - 1 \in j..e /\ d + (j + n - 1) = d + j + n - 1
        BY <2>1, <2>4
      <3>2. t[j + n - 1] = s[d + (j + n - 1)]
        BY <2>2, <3>1
      <3> QED BY <3>1, <3>2
    <2>9. [n \in 1..(e - j + 1) |-> Lower[t[j + n - 1]]] = [n \in 1..(f - (d + j) + 1) |-> Lower[s[d + j + n - 1]]]
      BY <2>7, <2>8
    <2> QED BY <2>9 DEF WordAt, e, f
  <1>10. \A n \in 1..M : WordAt(t, beg[n]) = WordAt(s, out[n])
    BY <1>5, <1>9
  <1> HIDE DEF out
  <1> QED BY <1>7, <1>8, <1>10

LEMMA TrimmedWords ==
  ASSUME NEW s \in Text
  PROVE  TrimSpace(s) \in Text /\ Words(TrimSpace(s)) = Words(s)
  <1> DEFINE S == {i \in DOMAIN s : s[i] # Space}
             t == TrimSpace(s)
  <1>1. Len(s) \in Nat /\ DOMAIN s = 1..Len(s)
    BY TextFacts
  <1>2. \A i \in Solid(s) : i \in S /\ i \in Int
    BY <1>1, StopSearchAssumption DEF Solid
  <1>3. CASE S = {}
    <2>1. t = <<>>
      BY <1>3 DEF TrimSpace
    <2>2. t \in Text /\ Len(t) = 0
      BY <2>1 DEF Text
    <2>3. Solid(s) = {}
      BY <1>2, <1>3
    <2>4. Solid(t) = {}
      BY <2>2, TextFacts
    <2> HIDE DEF t
    <2>5. 0 \in Nat /\ \A j \in Int : j \in Solid(t) <=> 0 + j \in Solid(s)
      BY <2>3, <2>4
    <2>6. \A j \in Solid(t) : t[j] = s[0 + j]
      BY <2>4
    <2>7. Words(t) = Words(s)
      BY <2>2, <2>5, <2>6, ShiftedWords
    <2> QED BY <2>2, <2>7 DEF t
  <1>4. CASE S # {}
    <2> DEFINE low == Min(S)
               high == Max(S)
               d == low - 1
               l == high - d
    <2>1. S \subseteq Nat /\ S \subseteq 0..Len(s)
      BY <1>1
    <2>2. low \in S /\ \A i \in S : low <= i
      <3> HIDE DEF S
      <3> QED BY <1>4, <2>1, LeastOf
    <2>3. high \in S /\ \A i \in S : high >= i
      <3> HIDE DEF S
      <3> QED BY <1>1, <1>4, <2>1, GreatestOf
    <2>4. t = SubSeq(s, low, high)
      BY <1>4 DEF TrimSpace
    <2>5. low \in 1..Len(s) /\ high \in 1..Len(s) /\ low <= high
      BY <1>1, <2>2, <2>3
    <2> HIDE DEF low, high
    <2>6. d \in Nat /\ l \in Nat /\ d + 1 = low /\ d + l = high /\ d + l <= Len(s)
      BY <1>1, <2>5
    <2> HIDE DEF d, l, t
    <2>7. /\ SubSeq(s, d + 1, d + l) \in Text /\ Len(SubSeq(s, d + 1, d + l)) = l
          /\ \A j \in 1..l : SubSeq(s, d + 1, d + l)[j] = s[d + j]
      BY <2>6, PartOf
    <2>8. t \in Text /\ Len(t) = l /\ \A j \in 1..l : t[j] = s[d + j]
      BY <2>4, <2>6, <2>7
    <2>9. DOMAIN t = 1..l
      BY <2>8, TextFacts
    <2>10. ASSUME NEW j \in Int PROVE j \in Solid(t) <=> d + j \in Solid(s)
      <3>1. ASSUME j \in Solid(t) PROVE d + j \in Solid(s)
        <4>1. j \in 1..l /\ t[j] \in DOMAIN Lower
          BY <2>9, <3>1 DEF Solid
        <4>2. d + j \in 1..Len(s)
          BY <1>1, <2>6, <4>1
        <4> QED BY <1>1, <2>8, <4>1, <4>2 DEF Solid
      <3>2. ASSUME d + j \in Solid(s) PROVE j \in Solid(t)
        <4>1. d + j \in S /\ s[d + j] \in DOMAIN Lower
          BY <1>2, <3>2 DEF Solid
        <4>2. low <= d + j /\ d + j <= high /\ low \in Int /\ high \in Int
          BY <2>2, <2>3, <2>5, <4>1
        <4>3. j \in 1..l
          BY <2>6, <4>2
        <4> QED BY <2>8, <2>9, <4>1, <4>3 DEF Solid
      <3> QED BY <3>1, <3>2
    <2>11. \A j \in Solid(t) : t[j] = s[d + j]
      BY <2>8, <2>9 DEF Solid
    <2>12. Words(t) = Words(s)
      BY <2>6, <2>8, <2>10, <2>11, ShiftedWords
    <2> QED BY <2>8, <2>12 DEF t
  <1> QED BY <1>3, <1>4

-----------------------------------------------------------------------------
(***************************************************************************)
(* What a search finds, and in which order.                                *)
(***************************************************************************)
RankIn(tt, text, i) == RankOf(Normalize(tt.names[i]), Normalize(text))

FoundStops(tt, text) == UNION {Tier(tt, text, r) : r \in 0..2}

Over(tt, text, i, j) ==
  \/ RankIn(tt, text, i) < RankIn(tt, text, j)
  \/ RankIn(tt, text, i) = RankIn(tt, text, j) /\ Len(tt.names[i]) < Len(tt.names[j])
  \/ RankIn(tt, text, i) = RankIn(tt, text, j) /\ Len(tt.names[i]) = Len(tt.names[j]) /\ i < j

Preference(tt, text) ==
  {p \in FoundStops(tt, text) \X FoundStops(tt, text) : Over(tt, text, p[1], p[2])}

LEMMA NamesPlain ==
  ASSUME NEW tt, StopsNamed(tt)
  PROVE  /\ Len(tt.ids) \in Nat
         /\ DOMAIN tt.ids = 1..Len(tt.ids) /\ DOMAIN tt.names = 1..Len(tt.ids)
         /\ \A i \in 1..Len(tt.ids) : tt.names[i] \in Text /\ Len(tt.names[i]) \in Nat
  <1>1. tt.ids \in Seq(Text) /\ tt.names \in Seq(Text) /\ Len(tt.names) = Len(tt.ids)
    BY DEF StopsNamed
  <1>2. /\ Len(tt.ids) \in Nat /\ DOMAIN tt.ids = 1..Len(tt.ids)
        /\ DOMAIN tt.names = 1..Len(tt.ids) /\ tt.names \in [1..Len(tt.ids) -> Text]
    BY <1>1, LenProperties
  <1>3. \A i \in 1..Len(tt.ids) : tt.names[i] \in Text
    BY <1>2
  <1> QED BY <1>2, <1>3, TextFacts

LEMMA TierRank ==
  ASSUME NEW tt, StopsNamed(tt), NEW text \in Text, NEW r \in 0..2
  PROVE  Tier(tt, text, r) =
           {i \in Named(tt) : Words(text) # <<>> /\ RankIn(tt, text, i) = r}
  <1> SUFFICES ASSUME NEW i \in Named(tt), Words(text) # <<>>
               PROVE  i \in Tier(tt, text, r) <=> RankIn(tt, text, i) = r
    BY DEF Tier
  <1>1. tt.names[i] \in Text /\ Words(tt.names[i]) # <<>>
    BY NamesPlain DEF Named
  <1> DEFINE w == Words(text)
             v == Words(tt.names[i])
             k == RankIn(tt, text, i)
  <1>2. /\ k = 0 <=> Exactly(w, v)
        /\ k = 1 <=> Starts(w, v) /\ ~Exactly(w, v)
        /\ k = 2 <=> Inside(w, v) /\ ~Starts(w, v)
    BY <1>1, RankFinds DEF RankIn
  <1>3. i \in Tier(tt, text, r) <=>
          CASE r = 0 -> Exactly(w, v)
            [] r = 1 -> Starts(w, v) /\ ~Exactly(w, v)
            [] r = 2 -> Inside(w, v) /\ ~Starts(w, v)
    BY DEF Tier
  <1> HIDE DEF w, v, k
  <1>4. CASE r = 0
    BY <1>2, <1>3, <1>4 DEF k
  <1>5. CASE r = 1
    BY <1>2, <1>3, <1>5 DEF k
  <1>6. CASE r = 2
    BY <1>2, <1>3, <1>6 DEF k
  <1> QED BY <1>4, <1>5, <1>6

LEMMA FoundRanks ==
  ASSUME NEW tt, StopsNamed(tt), NEW text \in Text
  PROVE  /\ FoundStops(tt, text) = {i \in Named(tt) : Words(text) # <<>> /\ RankIn(tt, text, i) # NoMatch}
         /\ FoundStops(tt, text) \in SUBSET (1..Len(tt.ids))
         /\ IsFiniteSet(FoundStops(tt, text))
         /\ \A i \in FoundStops(tt, text) :
              /\ RankIn(tt, text, i) \in 0..2
              /\ i \in Tier(tt, text, RankIn(tt, text, i))
              /\ (CHOOSE r \in 0..2 : i \in Tier(tt, text, r)) = RankIn(tt, text, i)
  <1>1. \A r \in 0..2 : Tier(tt, text, r) =
           {i \in Named(tt) : Words(text) # <<>> /\ RankIn(tt, text, i) = r}
    BY TierRank
  <1>2. ASSUME NEW i \in Named(tt), Words(text) # <<>>
        PROVE  RankIn(tt, text, i) \in 0..3
    <2>1. tt.names[i] \in Text /\ Words(tt.names[i]) # <<>>
      BY NamesPlain DEF Named
    <2> QED BY <1>2, <2>1, RankFinds DEF RankIn
  <1>3. FoundStops(tt, text) = {i \in Named(tt) : Words(text) # <<>> /\ RankIn(tt, text, i) # NoMatch}
    <2>1. ASSUME NEW i \in FoundStops(tt, text)
          PROVE  i \in Named(tt) /\ Words(text) # <<>> /\ RankIn(tt, text, i) # NoMatch
      <3>1. PICK r \in 0..2 : i \in Tier(tt, text, r)
        BY DEF FoundStops
      <3> QED BY <1>1, <3>1 DEF NoMatch
    <2>2. ASSUME NEW i \in Named(tt), Words(text) # <<>>, RankIn(tt, text, i) # NoMatch
          PROVE  i \in FoundStops(tt, text)
      <3>1. RankIn(tt, text, i) \in 0..2
        BY <1>2, <2>2 DEF NoMatch
      <3>2. i \in Tier(tt, text, RankIn(tt, text, i))
        BY <1>1, <2>2, <3>1
      <3> QED BY <3>1, <3>2 DEF FoundStops
    <2> QED BY <2>1, <2>2
  <1>4. FoundStops(tt, text) \in SUBSET (1..Len(tt.ids))
    BY <1>3, NamesPlain DEF Named
  <1>5. IsFiniteSet(FoundStops(tt, text))
    <2>1. IsFiniteSet(1..Len(tt.ids))
      BY NamesPlain, FS_Interval
    <2> QED BY <1>4, <2>1, FS_Subset
  <1>6. ASSUME NEW i \in FoundStops(tt, text)
        PROVE  /\ RankIn(tt, text, i) \in 0..2
               /\ i \in Tier(tt, text, RankIn(tt, text, i))
               /\ (CHOOSE r \in 0..2 : i \in Tier(tt, text, r)) = RankIn(tt, text, i)
    <2>1. i \in Named(tt) /\ Words(text) # <<>> /\ RankIn(tt, text, i) # NoMatch
      BY <1>3
    <2>2. RankIn(tt, text, i) \in 0..2
      BY <1>2, <2>1 DEF NoMatch
    <2>3. \A r \in 0..2 : i \in Tier(tt, text, r) <=> r = RankIn(tt, text, i)
      BY <1>1, <2>1
    <2> DEFINE k == RankIn(tt, text, i)
    <2> HIDE DEF k
    <2>4. k \in 0..2 /\ \A r \in 0..2 : i \in Tier(tt, text, r) <=> r = k
      BY <2>2, <2>3 DEF k
    <2>5. (CHOOSE r \in 0..2 : i \in Tier(tt, text, r)) = k
      BY <2>4
    <2> QED BY <2>4, <2>5 DEF k
  <1> QED BY <1>3, <1>4, <1>5, <1>6

LEMMA PreferenceOrders ==
  ASSUME NEW tt, StopsNamed(tt), NEW text \in Text
  PROVE  /\ Order(FoundStops(tt, text), Preference(tt, text))
         /\ \A i, j \in FoundStops(tt, text) : <<i, j>> \in Preference(tt, text) <=> Over(tt, text, i, j)
  <1> DEFINE S == FoundStops(tt, text)
             P == Preference(tt, text)
             k(i) == RankIn(tt, text, i)
             l(i) == Len(tt.names[i])
  <1>1. \A i, j \in S : <<i, j>> \in P <=> Over(tt, text, i, j)
    BY DEF Preference
  <1>2. \A i \in S : k(i) \in Nat /\ l(i) \in Nat /\ i \in Nat
    <2>1. \A i \in S : k(i) \in 0..2 /\ i \in 1..Len(tt.ids)
      BY FoundRanks
    <2>2. \A i \in 1..Len(tt.ids) : l(i) \in Nat /\ i \in Nat
      BY NamesPlain
    <2> QED BY <2>1, <2>2
  <1>3. \A i, j : Over(tt, text, i, j) <=> \/ k(i) < k(j)
                                           \/ k(i) = k(j) /\ l(i) < l(j)
                                           \/ k(i) = k(j) /\ l(i) = l(j) /\ i < j
    BY DEF Over
  <1> HIDE DEF S, P, k, l
  <1>4. \A x, y, z \in S : <<x, y>> \in P /\ <<y, z>> \in P => <<x, z>> \in P
    BY <1>1, <1>2, <1>3
  <1>5. \A x \in S : <<x, x>> \notin P
    BY <1>1, <1>2, <1>3
  <1>6. \A x, y \in S : x # y => <<x, y>> \in P \/ <<y, x>> \in P
    BY <1>1, <1>2, <1>3
  <1> QED BY <1>1, <1>4, <1>5, <1>6 DEF Order, S, P

(* A one-to-one image has as many elements.                                *)
LEMMA ImageSize ==
  ASSUME NEW S, IsFiniteSet(S), NEW f, NEW T,
         \A x \in S : f[x] \in T, \A y \in T : \E x \in S : y = f[x],
         \A x, y \in S : f[x] = f[y] => x = y
  PROVE  IsFiniteSet(T) /\ Cardinality(T) = Cardinality(S)
  <1> DEFINE g == [x \in S |-> f[x]]
  <1>1. g \in [S -> T] /\ \A x \in S : g[x] = f[x]
    OBVIOUS
  <1> HIDE DEF g
  <1>2. g \in Bijection(S, T)
    <2>1. \A x, y \in S : g[x] = g[y] => x = y
      BY <1>1
    <2>2. \A y \in T : \E x \in S : g[x] = y
      BY <1>1
    <2> QED BY <1>1, <2>1, <2>2 DEF Bijection, Injection, Surjection, IsInjective
  <1>3. ExistsBijection(S, T)
    BY <1>2 DEF ExistsBijection
  <1> QED BY <1>3, FS_Bijection

Matched(tt, text) == {Match(tt, Normalize(text), i) : i \in FoundStops(tt, text)}

LEMMA MatchFacts ==
  ASSUME NEW tt, NEW text, NEW i
  PROVE  /\ Match(tt, Normalize(text), i)[1] = RankIn(tt, text, i)
         /\ Match(tt, Normalize(text), i)[2] = Len(tt.names[i])
         /\ Match(tt, Normalize(text), i)[3] = i
  BY DEF Match, RankIn

LEMMA BeforeOver ==
  ASSUME NEW tt, NEW text, NEW i, NEW j
  PROVE  Before(Match(tt, Normalize(text), i), Match(tt, Normalize(text), j)) <=> Over(tt, text, i, j)
  <1> DEFINE x == Match(tt, Normalize(text), i)
             y == Match(tt, Normalize(text), j)
  <1>1. /\ x[1] = RankIn(tt, text, i) /\ x[2] = Len(tt.names[i]) /\ x[3] = i
        /\ y[1] = RankIn(tt, text, j) /\ y[2] = Len(tt.names[j]) /\ y[3] = j
    BY MatchFacts
  <1> HIDE DEF x, y
  <1> DEFINE B(n) == x[n] < y[n] /\ \A l \in 1..(n - 1) : x[l] = y[l]
  <1>2. Before(x, y) <=> B(1) \/ B(2) \/ B(3)
    <2> HIDE DEF B
    <2>1. Before(x, y) <=> \E n \in 1..3 : B(n)
      BY DEF Before, B
    <2> QED BY <2>1
  <1>3. B(1) <=> x[1] < y[1]
    OBVIOUS
  <1>4. B(2) <=> x[2] < y[2] /\ x[1] = y[1]
    OBVIOUS
  <1>5. B(3) <=> x[3] < y[3] /\ x[1] = y[1] /\ x[2] = y[2]
    OBVIOUS
  <1>6. Before(x, y) <=> Over(tt, text, i, j)
    <2> HIDE DEF B
    <2> QED BY <1>1, <1>2, <1>3, <1>4, <1>5 DEF Over
  <1> QED BY <1>6 DEF x, y

LEMMA HitsAreMatched ==
  ASSUME NEW tt, StopsNamed(tt), NEW text \in Text
  PROVE  Matched(tt, text) =
           IF Normalize(text) = <<>> THEN {}
           ELSE {m \in {Match(tt, Normalize(text), i) :
                          i \in {i \in DOMAIN tt.names : Normalize(tt.names[i]) # <<>>}} : m[1] # NoMatch}
  <1>1. Named(tt) = {i \in DOMAIN tt.names : Normalize(tt.names[i]) # <<>>}
    <2>1. \A i \in DOMAIN tt.names : tt.names[i] \in Text
      BY NamesPlain
    <2> QED BY <2>1, NormalizedEmpty DEF Named
  <1>2. Normalize(text) = <<>> <=> Words(text) = <<>>
    BY NormalizedEmpty
  <1>3. FoundStops(tt, text) = {i \in Named(tt) : Words(text) # <<>> /\ RankIn(tt, text, i) # NoMatch}
    BY FoundRanks
  <1>4. \A i : Match(tt, Normalize(text), i)[1] = RankIn(tt, text, i)
    BY MatchFacts
  <1> QED BY <1>1, <1>2, <1>3, <1>4 DEF Matched

Standing(tt, text, m) == Cardinality({l \in Matched(tt, text) : Before(l, m)})

LEMMA MatchedStanding ==
  ASSUME NEW tt, StopsNamed(tt), NEW text \in Text
  PROVE  /\ Cardinality(Matched(tt, text)) = Cardinality(FoundStops(tt, text))
         /\ \A i \in FoundStops(tt, text) :
              Standing(tt, text, Match(tt, Normalize(text), i)) = Place(FoundStops(tt, text), Preference(tt, text), i)
  <1> DEFINE F == FoundStops(tt, text)
             H == Matched(tt, text)
             P == Preference(tt, text)
             f == [i \in F |-> Match(tt, Normalize(text), i)]
  <1>1. IsFiniteSet(F)
    BY FoundRanks
  <1>2. /\ \A i \in F : f[i] = Match(tt, Normalize(text), i) /\ f[i][3] = i
        /\ \A i \in F : f[i] \in H
        /\ \A y \in H : \E i \in F : y = f[i]
    BY MatchFacts DEF Matched
  <1>3. \A i, j \in F : Before(f[i], f[j]) <=> <<i, j>> \in P
    <2>1. \A i, j \in F : Before(f[i], f[j]) <=> Over(tt, text, i, j)
      BY <1>2, BeforeOver
    <2>2. \A i, j \in F : <<i, j>> \in P <=> Over(tt, text, i, j)
      BY PreferenceOrders
    <2> QED BY <2>1, <2>2
  <1> HIDE DEF F, H, P, f
  <1>4. \A i, j \in F : f[i] = f[j] => i = j
    BY <1>2
  <1>5. Cardinality(H) = Cardinality(F)
    BY <1>1, <1>2, <1>4, ImageSize
  <1>6. ASSUME NEW i \in F PROVE Cardinality({l \in H : Before(l, f[i])}) = Place(F, P, i)
    <2> DEFINE S == {l \in F : <<l, i>> \in P}
               T == {l \in H : Before(l, f[i])}
    <2>1. IsFiniteSet(S)
      BY <1>1, FS_Subset
    <2>2. /\ \A x \in S : f[x] \in T
          /\ \A y \in T : \E x \in S : y = f[x]
          /\ \A x, y \in S : f[x] = f[y] => x = y
      BY <1>2, <1>3, <1>4
    <2> HIDE DEF S, T
    <2>3. Cardinality(T) = Cardinality(S)
      BY <2>1, <2>2, ImageSize
    <2> QED BY <2>3 DEF S, T, Place
  <1>7. \A i \in F : Standing(tt, text, f[i]) = Place(F, P, i)
    BY <1>6 DEF Standing, H
  <1> QED BY <1>2, <1>5, <1>7 DEF F, H, P

(* What Search returns: the stops found, each at its place.                *)
Count(tt, text, limit) ==
  IF Cardinality(FoundStops(tt, text)) < limit THEN Cardinality(FoundStops(tt, text)) ELSE limit

Gives(tt, text, limit, at) ==
  LET k == Count(tt, text, limit)
  IN  /\ at \in [1..k -> FoundStops(tt, text)]
      /\ Search(tt, text, limit) = [p \in 1..k |-> Match(tt, Normalize(text), at[p])]
      /\ \A p \in 1..k : Place(FoundStops(tt, text), Preference(tt, text), at[p]) = p - 1

LEMMA SearchUnfolds ==
  ASSUME NEW tt, StopsNamed(tt), NEW text \in Text, NEW limit \in Nat
  PROVE  Search(tt, text, limit) =
           [p \in 1..Count(tt, text, limit) |->
              CHOOSE m \in Matched(tt, text) : Standing(tt, text, m) = p - 1]
  <1> DEFINE q    == Normalize(text)
             all  == {Match(tt, q, i) : i \in {i \in DOMAIN tt.names : Normalize(tt.names[i]) # <<>>}}
             hits == IF q = <<>> THEN {} ELSE {m \in all : m[1] # NoMatch}
             n    == Cardinality(hits)
  <1>1. hits = Matched(tt, text)
    BY HitsAreMatched
  <1>2. Search(tt, text, limit) =
          [place \in 1..(IF n < limit THEN n ELSE limit) |->
             CHOOSE m \in hits : Cardinality({l \in hits : Before(l, m)}) = place - 1]
    BY DEF Search
  <1> HIDE DEF hits
  <1>3. (IF n < limit THEN n ELSE limit) = Count(tt, text, limit)
    BY <1>1, MatchedStanding DEF Count
  <1>4. \A m : Cardinality({l \in hits : Before(l, m)}) = Standing(tt, text, m)
    BY <1>1 DEF Standing
  <1>5. ASSUME NEW p \in 1..Count(tt, text, limit)
        PROVE  (CHOOSE m \in hits : Cardinality({l \in hits : Before(l, m)}) = p - 1)
                 = CHOOSE m \in Matched(tt, text) : Standing(tt, text, m) = p - 1
    BY <1>1, <1>4
  <1> QED BY <1>2, <1>3, <1>5

LEMMA SearchGives ==
  ASSUME NEW tt, StopsNamed(tt), NEW text \in Text, NEW limit \in Nat
  PROVE  \E at : Gives(tt, text, limit, at)
  <1> DEFINE F == FoundStops(tt, text)
             H == Matched(tt, text)
             P == Preference(tt, text)
             k == Count(tt, text, limit)
             n == Cardinality(F)
             place(i) == Place(F, P, i)
             best(p) == CHOOSE i \in F : place(i) = p - 1
             at == [p \in 1..k |-> best(p)]
             M(i) == Match(tt, Normalize(text), i)
  <1>1. IsFiniteSet(F) /\ Order(F, P)
    BY FoundRanks, PreferenceOrders
  <1>2. /\ n \in Nat
        /\ \A x, y \in F : place(x) = place(y) => x = y
        /\ \A p \in Nat : p < n => \E x \in F : place(x) = p
    BY <1>1, Places
  <1>3. k \in Nat /\ k <= n
    BY <1>2 DEF Count
  <1>4. ASSUME NEW p \in 1..k PROVE best(p) \in F /\ place(best(p)) = p - 1
    <2>1. p - 1 \in Nat /\ p - 1 < n
      BY <1>2, <1>3
    <2>2. \E x \in F : place(x) = p - 1
      BY <1>2, <2>1
    <2> QED BY <2>2
  <1>5. \A i \in F : Standing(tt, text, M(i)) = place(i)
    BY MatchedStanding
  <1>6. H = {M(i) : i \in F}
    BY DEF Matched
  <1>7. Search(tt, text, limit) = [p \in 1..k |-> CHOOSE m \in H : Standing(tt, text, m) = p - 1]
    BY SearchUnfolds
  <1> HIDE DEF F, H, P, k, n, place, best, M
  <1>8. ASSUME NEW p \in 1..k
        PROVE  (CHOOSE m \in H : Standing(tt, text, m) = p - 1) = M(best(p))
    <2>1. M(best(p)) \in H /\ Standing(tt, text, M(best(p))) = p - 1
      BY <1>4, <1>5, <1>6
    <2>2. ASSUME NEW m \in H, Standing(tt, text, m) = p - 1 PROVE m = M(best(p))
      <3>1. PICK i \in F : m = M(i)
        BY <1>6
      <3>2. place(i) = p - 1
        BY <1>5, <2>2, <3>1
      <3>3. i = best(p)
        BY <1>2, <1>4, <3>2
      <3> QED BY <3>1, <3>3
    <2> QED BY <2>1, <2>2
  <1>9. Search(tt, text, limit) = [p \in 1..k |-> M(best(p))]
    BY <1>7, <1>8
  <1>10. at \in [1..k -> F] /\ \A p \in 1..k : at[p] = best(p) /\ place(at[p]) = p - 1
    BY <1>4
  <1> HIDE DEF at
  <1>11. Search(tt, text, limit) = [p \in 1..k |-> M(at[p])]
    BY <1>9, <1>10
  <1>12. Gives(tt, text, limit, at)
    BY <1>10, <1>11 DEF Gives, F, P, k, M, place
  <1> QED BY <1>12

-----------------------------------------------------------------------------
(***************************************************************************)
(* The stop a text stands for.                                             *)
(***************************************************************************)
BestTier(tt, text) ==
  LET tiers == {r \in 0..2 : Tier(tt, text, r) # {}}
  IN  IF tiers = {} THEN {} ELSE Tier(tt, text, Min(tiers))

LEMMA BestFacts ==
  ASSUME NEW tt, StopsNamed(tt), NEW text \in Text
  PROVE  /\ FoundStops(tt, text) = {} => BestTier(tt, text) = {}
         /\ FoundStops(tt, text) # {} =>
              \E b \in 0..2 :
                /\ BestTier(tt, text) = {i \in FoundStops(tt, text) : RankIn(tt, text, i) = b}
                /\ BestTier(tt, text) # {}
                /\ \A i \in FoundStops(tt, text) : b <= RankIn(tt, text, i)
  <1> DEFINE F == FoundStops(tt, text)
             k(i) == RankIn(tt, text, i)
             tiers == {r \in 0..2 : Tier(tt, text, r) # {}}
  <1>1. \A i \in F : k(i) \in 0..2 /\ i \in Tier(tt, text, k(i))
    BY FoundRanks
  <1>2. ASSUME NEW r \in 0..2 PROVE Tier(tt, text, r) = {i \in F : k(i) = r}
    <2>1. Tier(tt, text, r) \subseteq F
      BY DEF FoundStops
    <2>2. \A i \in Tier(tt, text, r) : k(i) = r
      BY TierRank
    <2> HIDE DEF F, k
    <2>3. \A i \in F : k(i) = r => i \in Tier(tt, text, r)
      BY <1>1
    <2> QED BY <2>1, <2>2, <2>3
  <1>3. BestTier(tt, text) = IF tiers = {} THEN {} ELSE Tier(tt, text, Min(tiers))
    BY DEF BestTier
  <1> HIDE DEF F, k
  <1>4. CASE F = {}
    <2>1. tiers = {}
      BY <1>2, <1>4
    <2> QED BY <1>3, <1>4, <2>1 DEF F
  <1>5. CASE F # {}
    <2>1. PICK x \in F : TRUE
      BY <1>5
    <2>2. k(x) \in tiers
      BY <1>1
    <2>3. tiers # {} /\ tiers \subseteq Nat /\ tiers \subseteq 0..2
      BY <2>2
    <2> DEFINE b == Min(tiers)
    <2>4. b \in tiers /\ \A r \in tiers : b <= r
      <3> HIDE DEF tiers
      <3> QED BY <2>3, LeastOf
    <2> HIDE DEF b
    <2>5. b \in 0..2 /\ Tier(tt, text, b) # {}
      BY <2>4
    <2>6. BestTier(tt, text) = Tier(tt, text, b)
      BY <1>3, <2>3 DEF b
    <2>7. \A i \in F : b <= k(i)
      BY <1>1, <2>4
    <2>8. BestTier(tt, text) = {i \in F : k(i) = b}
      BY <1>2, <2>5, <2>6
    <2> QED BY <1>5, <2>5, <2>6, <2>7, <2>8 DEF F, k
  <1> QED BY <1>4, <1>5 DEF F

(* What a name is resolved to: matches are those of Search.                *)
Settles(tt, text, at) ==
  LET k == Count(tt, text, ResolveLimit)
      B == BestTier(tt, text)
      unique == k = 1 \/ RankIn(tt, text, at[1]) < RankIn(tt, text, at[2])
  IN  /\ k \in Nat
      /\ k = 0 => B = {}
      /\ k # 0 /\ unique => B = {at[1]}
      /\ k # 0 /\ ~unique =>
           /\ k > 1 /\ IsFiniteSet(B) /\ Cardinality(B) > 1
           /\ Cardinality(B) <= ResolveLimit => \A i \in B : \E p \in 1..k : at[p] = i

LEMMA NameSettles ==
  ASSUME NEW tt, StopsNamed(tt), NEW text \in Text, NEW at, Gives(tt, text, ResolveLimit, at)
  PROVE  Settles(tt, text, at)
  <1> DEFINE F == FoundStops(tt, text)
             P == Preference(tt, text)
             B == BestTier(tt, text)
             k == Count(tt, text, ResolveLimit)
             n == Cardinality(F)
             place(i) == Place(F, P, i)
             rank(i) == RankIn(tt, text, i)
             unique == k = 1 \/ rank(at[1]) < rank(at[2])
  <1>1. IsFiniteSet(F) /\ Order(F, P) /\ \A i \in F : rank(i) \in 0..2
    BY FoundRanks, PreferenceOrders
  <1>2. /\ n \in Nat
        /\ \A i \in F : place(i) \in 0..(n - 1)
        /\ \A i, j \in F : <<i, j>> \in P <=> place(i) < place(j)
        /\ \A i, j \in F : place(i) = place(j) => i = j
    BY <1>1, Places
  <1>3. ResolveLimit \in Nat /\ ResolveLimit > 1
    BY StopSearchAssumption
  <1>4. k = IF n < ResolveLimit THEN n ELSE ResolveLimit
    BY DEF Count
  <1>5. at \in [1..k -> F] /\ \A p \in 1..k : place(at[p]) = p - 1
    BY DEF Gives
  <1>6. n = 0 <=> F = {}
    BY <1>1, FS_EmptySet
  <1>7. \A i, j \in F : <<i, j>> \in P => rank(i) <= rank(j)
    <2>1. \A i, j \in F : <<i, j>> \in P <=> Over(tt, text, i, j)
      BY PreferenceOrders
    <2> QED BY <1>1, <2>1 DEF Over
  <1>8. F = {} => B = {}
    BY BestFacts
  <1>9. F # {} => \E b \in 0..2 : /\ B = {i \in F : rank(i) = b}
                                  /\ B # {}
                                  /\ \A i \in F : b <= rank(i)
    BY BestFacts
  <1> HIDE DEF F, P, B, k, n, place, rank, unique
  <1>10. k \in Nat /\ (k = 0 <=> F = {}) /\ (k # ResolveLimit => k = n) /\ k <= n /\ k <= ResolveLimit
    BY <1>2, <1>3, <1>4, <1>6
  <1>11. ASSUME k # 0
         PROVE  /\ unique => B = {at[1]}
                /\ ~unique => /\ k > 1 /\ IsFiniteSet(B) /\ Cardinality(B) > 1
                              /\ Cardinality(B) <= ResolveLimit => \A i \in B : \E p \in 1..k : at[p] = i
    <2>1. PICK b \in 0..2 : B = {i \in F : rank(i) = b} /\ B # {} /\ \A i \in F : b <= rank(i)
      BY <1>9, <1>10, <1>11
    <2>2. 1 \in 1..k /\ at[1] \in F /\ place(at[1]) = 0
      BY <1>5, <1>10, <1>11
    <2>3. at[1] \in B
      <3>1. PICK x \in B : TRUE
        BY <2>1
      <3>2. x \in F /\ rank(x) = b
        BY <2>1
      <3>3. CASE x = at[1]
        BY <3>3
      <3>4. CASE x # at[1]
        <4>1. place(x) # 0 /\ place(x) \in 0..(n - 1)
          BY <1>2, <2>2, <3>2, <3>4
        <4>2. place(at[1]) < place(x)
          BY <1>2, <2>2, <4>1
        <4>3. rank(at[1]) <= rank(x)
          BY <1>2, <1>7, <2>2, <3>2, <4>2
        <4>4. rank(at[1]) \in 0..2 /\ b <= rank(at[1])
          BY <1>1, <2>1, <2>2
        <4>5. rank(at[1]) = b
          BY <3>2, <4>3, <4>4
        <4> QED BY <2>1, <2>2, <4>5
      <3> QED BY <3>3, <3>4
    <2>4. rank(at[1]) = b
      BY <2>1, <2>3
    <2>5. ASSUME NEW i \in B, i # at[1], k = 1 PROVE FALSE
      <3>1. n = 1 /\ place(i) \in 0..(n - 1)
        BY <1>2, <1>3, <1>10, <2>1, <2>5
      <3>2. place(i) = 0
        BY <3>1
      <3> QED BY <1>2, <2>1, <2>2, <2>5, <3>2
    <2>6. ASSUME k # 1
          PROVE  /\ 2 \in 1..k /\ at[2] \in F /\ place(at[2]) = 1 /\ at[1] # at[2]
                 /\ rank(at[2]) \in 0..2 /\ b <= rank(at[2])
      <3>1. 2 \in 1..k
        BY <1>10, <1>11, <2>6
      <3>2. at[2] \in F /\ place(at[2]) = 1
        BY <1>5, <3>1
      <3>3. at[1] # at[2]
        BY <2>2, <3>2
      <3> QED BY <1>1, <2>1, <3>1, <3>2, <3>3
    <2>7. ASSUME NEW i \in B, i # at[1], k # 1, b < rank(at[2]) PROVE FALSE
      <3>1. i \in F /\ rank(i) = b
        BY <2>1
      <3>2. i # at[2] /\ place(i) \in 0..(n - 1) /\ place(i) # 0
        BY <1>2, <2>2, <2>7, <2>6, <3>1
      <3>3. place(i) # 1
        BY <1>2, <2>6, <2>7, <3>1, <3>2
      <3>4. 1 < place(i)
        BY <1>2, <3>2, <3>3
      <3>5. rank(at[2]) <= rank(i)
        BY <1>2, <1>7, <2>6, <2>7, <3>1, <3>4
      <3> QED BY <2>6, <2>7, <3>1, <3>5
    <2>8. ASSUME unique PROVE B = {at[1]}
      <3>1. k = 1 \/ (k # 1 /\ b < rank(at[2]))
        BY <2>4, <2>8 DEF unique
      <3> QED BY <2>3, <2>5, <2>7, <3>1
    <2>9. ASSUME ~unique
          PROVE  /\ k > 1 /\ IsFiniteSet(B) /\ Cardinality(B) > 1
                 /\ Cardinality(B) <= ResolveLimit => \A i \in B : \E p \in 1..k : at[p] = i
      <3>1. k # 1 /\ ~(b < rank(at[2]))
        BY <2>4, <2>9 DEF unique
      <3>2. k > 1
        BY <1>10, <1>11, <3>1
      <3>3. at[2] \in B
        <4>1. rank(at[2]) = b
          BY <2>6, <3>1
        <4> QED BY <2>1, <2>6, <3>1, <4>1
      <3>4. IsFiniteSet(B) /\ Cardinality(B) \in Nat
        <4>1. B \in SUBSET F
          BY <2>1
        <4> QED BY <1>1, <4>1, FS_Subset, FS_CardinalityType
      <3>5. Cardinality(B) # 0 /\ Cardinality(B) # 1
        <4>1. Cardinality(B) # 0
          BY <2>1, <3>4, FS_EmptySet
        <4>2. Cardinality(B) # 1
          <5> SUFFICES ASSUME Cardinality(B) = 1 PROVE FALSE
            OBVIOUS
          <5>1. \E x : B = {x}
            BY <3>4, FS_Singleton
          <5> QED BY <2>3, <2>6, <3>1, <3>3, <5>1
        <4> QED BY <4>1, <4>2
      <3>6. ASSUME Cardinality(B) <= ResolveLimit, NEW i \in B PROVE \E p \in 1..k : at[p] = i
        <4> DEFINE U == {j \in F : <<j, i>> \in P}
        <4>1. i \in F /\ rank(i) = b
          BY <2>1
        <4>2. U \in SUBSET (B \ {i})
          <5> SUFFICES ASSUME NEW j \in U PROVE j \in B \ {i}
            OBVIOUS
          <5>1. j \in F /\ <<j, i>> \in P
            OBVIOUS
          <5>2. rank(j) <= rank(i) /\ b <= rank(j) /\ rank(j) \in 0..2
            BY <1>1, <1>7, <2>1, <4>1, <5>1
          <5>3. rank(j) = b
            BY <4>1, <5>2
          <5>4. j # i
            BY <1>2, <4>1, <5>1
          <5> QED BY <2>1, <5>1, <5>3, <5>4
        <4>3. IsFiniteSet(B \ {i}) /\ Cardinality(B \ {i}) = Cardinality(B) - 1
          BY <3>4, FS_RemoveElement
        <4>4. place(i) <= Cardinality(B) - 1
          <5>1. Cardinality(U) <= Cardinality(B \ {i})
            <6> HIDE DEF U
            <6> QED BY <4>2, <4>3, FS_Subset
          <5> QED BY <4>3, <5>1 DEF place, Place
        <4>5. place(i) \in 0..(n - 1)
          BY <1>2, <4>1
        <4> DEFINE p == place(i) + 1
        <4>6. p \in 1..k /\ p - 1 = place(i)
          <5>1. place(i) < ResolveLimit /\ place(i) < n /\ place(i) \in Nat
            BY <1>2, <1>3, <3>4, <3>6, <4>4, <4>5
          <5> QED BY <1>2, <1>3, <1>4, <5>1
        <4> HIDE DEF p
        <4>7. at[p] \in F /\ place(at[p]) = place(i)
          BY <1>5, <4>6
        <4>8. at[p] = i
          BY <1>2, <4>1, <4>7
        <4> QED BY <4>6, <4>8
      <3> QED BY <3>2, <3>4, <3>5, <3>6
    <2> QED BY <2>8, <2>9
  <1>12. k = 0 => B = {}
    BY <1>8, <1>10
  <1> QED BY <1>10, <1>11, <1>12 DEF Settles, B, k, rank, unique

LEMMA EmptyWords == Words(<<>>) = <<>>
  <1>1. <<>> \in Text /\ Len(<<>>) = 0
    BY DEF Text
  <1>2. PICK out : out[0] = <<>> /\ Normalize(<<>>) = Trimmed(out[Len(<<>>)])
    BY <1>1, NormalizeWrites
  <1>3. Normalize(<<>>) = <<>>
    BY <1>1, <1>2 DEF Trimmed
  <1> QED BY <1>1, <1>3, NormalizedEmpty

(* A stop a text can mean has a name, and by its id is a stop of its own.  *)
LEMMA NamedStops ==
  ASSUME NEW tt, StopsNamed(tt), NEW i \in Named(tt)
  PROVE  i \in DOMAIN tt.ids /\ i \in DOMAIN tt.names /\ tt.names[i] # <<>>
  <1>1. i \in DOMAIN tt.names /\ Words(tt.names[i]) # <<>>
    BY DEF Named
  <1> QED BY <1>1, NamesPlain, EmptyWords

(* What Resolve may make of a text that means some stops.                  *)
Understood(tt, text, r) ==
  LET M == Means(tt, text)
  IN  \/ /\ r.err = "none"
         /\ M = {r.stop} /\ r.stop \in DOMAIN tt.ids
         /\ tt.names[r.stop] # <<>> \/ tt.ids[r.stop] # <<>>
      \/ r.err = "notfound" /\ M = {}
      \/ /\ r.err = "ambiguous"
         /\ IsFiniteSet(M) /\ Cardinality(M) > 1
         /\ Len(r.candidates) \in Nat /\ Len(r.candidates) > 1 /\ DOMAIN r.candidates = 1..Len(r.candidates)
         /\ \A n \in DOMAIN r.candidates : r.candidates[n] \in Named(tt)
         /\ Cardinality(M) <= ResolveLimit =>
              \A i \in M : \E n \in DOMAIN r.candidates : r.candidates[n] = i

LEMMA Listing ==
  ASSUME NEW k \in Nat, NEW f, f = [p \in 1..k |-> f[p]]
  PROVE  Len(f) = k /\ DOMAIN f = 1..k /\ (f = <<>> <=> k = 0)
  <1>1. DOMAIN f = 1..k
    OBVIOUS
  <1>2. \A p \in 1..k : f[p] \in {f[x] : x \in 1..k}
    OBVIOUS
  <1>3. f \in Seq({f[x] : x \in 1..k})
    BY <1>2, IsASeq
  <1>4. Len(f) \in Nat /\ DOMAIN f = 1..Len(f)
    BY <1>3, LenProperties
  <1>5. Len(f) = k
    BY <1>1, <1>4
  <1>6. f = <<>> <=> Len(f) = 0
    BY <1>3, EmptySeq
  <1> QED BY <1>1, <1>5, <1>6

LEMMA SearchListing ==
  ASSUME NEW tt, StopsNamed(tt), NEW text \in Text, NEW limit \in Nat, NEW at, Gives(tt, text, limit, at)
  PROVE  LET s == Search(tt, text, limit)
             k == Count(tt, text, limit)
         IN  /\ k \in Nat /\ Len(s) = k /\ DOMAIN s = 1..k /\ (s = <<>> <=> k = 0)
             /\ \A p \in 1..k : /\ at[p] \in FoundStops(tt, text) /\ at[p] \in Named(tt)
                                /\ s[p][1] = RankIn(tt, text, at[p]) /\ s[p][3] = at[p]
  <1> DEFINE s == Search(tt, text, limit)
             k == Count(tt, text, limit)
  <1>1. k \in Nat
    <2>1. Cardinality(FoundStops(tt, text)) \in Nat
      BY FoundRanks, FS_CardinalityType
    <2> QED BY <2>1 DEF Count
  <1>2. s = [p \in 1..k |-> Match(tt, Normalize(text), at[p])] /\ at \in [1..k -> FoundStops(tt, text)]
    BY DEF Gives
  <1> HIDE DEF s, k
  <1>3. s = [p \in 1..k |-> s[p]]
    BY <1>2
  <1>4. Len(s) = k /\ DOMAIN s = 1..k /\ (s = <<>> <=> k = 0)
    BY <1>1, <1>3, Listing
  <1>5. ASSUME NEW p \in 1..k
        PROVE  /\ at[p] \in FoundStops(tt, text) /\ at[p] \in Named(tt)
               /\ s[p][1] = RankIn(tt, text, at[p]) /\ s[p][3] = at[p]
    <2>1. at[p] \in FoundStops(tt, text) /\ s[p] = Match(tt, Normalize(text), at[p])
      BY <1>2
    <2>2. at[p] \in Named(tt)
      BY <2>1, FoundRanks
    <2> QED BY <2>1, <2>2, MatchFacts
  <1> QED BY <1>1, <1>4, <1>5 DEF s, k

LEMMA Resolves ==
  ASSUME NEW tt, StopsNamed(tt), NEW text \in Text, TrimSpace(text) # <<>>
  PROVE  Understood(tt, text, Resolve(tt, text))
  <1> DEFINE t == TrimSpace(text)
             byId == {i \in DOMAIN tt.ids : tt.ids[i] = t}
             s == Search(tt, t, ResolveLimit)
             k == Count(tt, t, ResolveLimit)
             rank(i) == RankIn(tt, t, i)
             M == Means(tt, text)
             r == Resolve(tt, text)
             B == BestTier(tt, t)
  <1>1. t \in Text /\ Words(t) = Words(text)
    BY TrimmedWords
  <1>2. B = BestTier(tt, text)
    BY <1>1 DEF BestTier, Tier
  <1>3. M = IF byId # {} THEN byId ELSE B
    BY <1>2 DEF Means, BestTier
  <1>4. r = IF byId # {} THEN Resolved(CHOOSE i \in byId : TRUE)
            ELSE IF s = <<>> THEN Unresolved("notfound", <<>>)
            ELSE IF Len(s) = 1 \/ s[1][1] < s[2][1] THEN Resolved(s[1][3])
            ELSE Unresolved("ambiguous", s)
    BY DEF Resolve
  <1>5. ResolveLimit \in Nat
    BY StopSearchAssumption
  <1>6. PICK at : Gives(tt, t, ResolveLimit, at)
    BY <1>1, <1>5, SearchGives
  <1>7. /\ k \in Nat /\ Len(s) = k /\ DOMAIN s = 1..k /\ (s = <<>> <=> k = 0)
        /\ \A p \in 1..k : at[p] \in Named(tt) /\ s[p][1] = rank(at[p]) /\ s[p][3] = at[p]
    BY <1>1, <1>5, <1>6, SearchListing
  <1>8. Settles(tt, t, at)
    BY <1>1, <1>6, NameSettles
  <1>9. /\ k = 0 => B = {}
        /\ k # 0 /\ (k = 1 \/ rank(at[1]) < rank(at[2])) => B = {at[1]}
        /\ k # 0 /\ ~(k = 1 \/ rank(at[1]) < rank(at[2])) =>
             /\ k > 1 /\ IsFiniteSet(B) /\ Cardinality(B) > 1
             /\ Cardinality(B) <= ResolveLimit => \A i \in B : \E p \in 1..k : at[p] = i
    BY <1>8 DEF Settles
  <1> HIDE DEF t, s, k, rank, M, r, B
  <1>10. CASE byId # {}
    <2> DEFINE i == CHOOSE i \in byId : TRUE
    <2>1. i \in byId
      BY <1>10
    <2> HIDE DEF i
    <2>2. \A j \in byId : j = i
      BY <2>1 DEF StopsNamed
    <2>3. M = {i}
      BY <1>3, <1>10, <2>1, <2>2
    <2>4. r = Resolved(i)
      BY <1>4, <1>10 DEF i
    <2>5. r.err = "none" /\ r.stop = i
      BY <2>4 DEF Resolved
    <2>6. i \in DOMAIN tt.ids /\ tt.ids[i] # <<>>
      BY <2>1 DEF t
    <2> QED BY <2>3, <2>5, <2>6 DEF Understood, M, r
  <1>11. CASE byId = {} /\ k = 0
    <2>1. r = Unresolved("notfound", <<>>) /\ M = {}
      BY <1>3, <1>4, <1>7, <1>9, <1>11
    <2>2. r.err = "notfound"
      BY <2>1 DEF Unresolved
    <2> QED BY <2>1, <2>2 DEF Understood, M, r
  <1>12. CASE byId = {} /\ k # 0
    <2>1. 1 \in 1..k /\ s # <<>> /\ s[1][1] = rank(at[1]) /\ s[1][3] = at[1] /\ at[1] \in Named(tt)
      BY <1>7, <1>12
    <2>2. k # 1 => 2 \in 1..k /\ s[2][1] = rank(at[2])
      BY <1>7, <1>12
    <2>3. CASE k = 1 \/ rank(at[1]) < rank(at[2])
      <3>1. Len(s) = 1 \/ s[1][1] < s[2][1]
        BY <1>7, <2>1, <2>2, <2>3
      <3>2. r = Resolved(at[1]) /\ M = {at[1]}
        BY <1>3, <1>4, <1>9, <1>12, <2>1, <2>3, <3>1
      <3>3. r.err = "none" /\ r.stop = at[1]
        BY <3>2 DEF Resolved
      <3>4. at[1] \in DOMAIN tt.ids /\ tt.names[at[1]] # <<>>
        BY <2>1, NamedStops
      <3> QED BY <3>2, <3>3, <3>4 DEF Understood, M, r
    <2>4. CASE ~(k = 1 \/ rank(at[1]) < rank(at[2]))
      <3>1. ~(Len(s) = 1 \/ s[1][1] < s[2][1])
        BY <1>7, <2>1, <2>2, <2>4
      <3>2. r = Unresolved("ambiguous", s) /\ M = B
        BY <1>3, <1>4, <1>12, <2>1, <3>1
      <3> DEFINE c == r.candidates
      <3>3. r.err = "ambiguous" /\ c = [n \in 1..k |-> s[n][3]]
        BY <1>7, <3>2 DEF Unresolved, StopsOf
      <3> HIDE DEF c
      <3>4. c = [n \in 1..k |-> c[n]] /\ \A n \in 1..k : c[n] = at[n]
        BY <1>7, <3>3
      <3>5. Len(c) = k /\ DOMAIN c = 1..k
        BY <1>7, <3>4, Listing
      <3>6. /\ k > 1 /\ IsFiniteSet(M) /\ Cardinality(M) > 1
            /\ Cardinality(M) <= ResolveLimit => \A i \in M : \E p \in 1..k : c[p] = i
        BY <1>9, <1>12, <2>4, <3>2, <3>4
      <3>7. /\ r.err = "ambiguous"
            /\ IsFiniteSet(M) /\ Cardinality(M) > 1
            /\ Len(c) \in Nat /\ Len(c) > 1 /\ DOMAIN c = 1..Len(c)
            /\ \A n \in DOMAIN c : c[n] \in Named(tt)
            /\ Cardinality(M) <= ResolveLimit => \A i \in M : \E n \in DOMAIN c : c[n] = i
        BY <1>7, <3>3, <3>4, <3>5, <3>6
      <3> QED BY <3>7 DEF Understood, c, M, r
    <2> QED BY <2>3, <2>4
  <1> QED BY <1>10, <1>11, <1>12

-----------------------------------------------------------------------------
(***************************************************************************)
(* The answers of the handlers.                                            *)
(***************************************************************************)
LEMMA PreferredGiven ==
  ASSUME NEW tt, StopsNamed(tt), NEW text \in Text, NEW limit \in Nat, NEW refs,
         refs = [n \in DOMAIN Search(tt, text, limit) |->
                   [id   |-> tt.ids[Search(tt, text, limit)[n][3]],
                    name |-> tt.names[Search(tt, text, limit)[n][3]]]]
  PROVE  Preferred(tt, text, refs, limit)
  <1> DEFINE F == FoundStops(tt, text)
             P == Preference(tt, text)
             s == Search(tt, text, limit)
             k == Count(tt, text, limit)
             rank(i) == CHOOSE r \in 0..2 : i \in Tier(tt, text, r)
             over(i, j) == \/ rank(i) < rank(j)
                           \/ rank(i) = rank(j) /\ Len(tt.names[i]) < Len(tt.names[j])
                           \/ rank(i) = rank(j) /\ Len(tt.names[i]) = Len(tt.names[j]) /\ i < j
  <1>1. PICK at : Gives(tt, text, limit, at)
    BY SearchGives
  <1>2. /\ k \in Nat /\ DOMAIN s = 1..k
        /\ \A p \in 1..k : at[p] \in F /\ at[p] \in Named(tt) /\ s[p][3] = at[p]
    BY <1>1, SearchListing
  <1>3. \A p \in 1..k : Place(F, P, at[p]) = p - 1
    BY <1>1 DEF Gives
  <1>4. \A i \in F : rank(i) = RankIn(tt, text, i)
    BY FoundRanks
  <1>5. \A i, j \in F : over(i, j) <=> <<i, j>> \in P
    <2>1. \A i, j \in F : over(i, j) <=> Over(tt, text, i, j)
      BY <1>4 DEF Over
    <2> QED BY <2>1, PreferenceOrders
  <1>6. refs = [n \in 1..k |-> [id |-> tt.ids[s[n][3]], name |-> tt.names[s[n][3]]]]
    BY <1>2
  <1>7. Cardinality(F) \in Nat
    BY FoundRanks, FS_CardinalityType
  <1>8. Preferred(tt, text, refs, limit) <=>
          /\ Len(refs) = Min({limit, Cardinality(F)})
          /\ \A n \in DOMAIN refs :
               \E i \in F : IsRef(tt, refs[n], i) /\ Cardinality({j \in F : over(j, i)}) = n - 1
    BY DEF Preferred, FoundStops
  <1>9. k = Min({limit, Cardinality(F)})
    <2>1. Min({limit, Cardinality(F)}) = IF limit < Cardinality(F) THEN limit ELSE Cardinality(F)
      BY <1>7, LeastOfTwo
    <2> QED BY <1>7, <2>1 DEF Count
  <1> HIDE DEF F, P, s, k, rank, over
  <1>10. refs = [n \in 1..k |-> refs[n]]
    BY <1>6
  <1>11. Len(refs) = k /\ DOMAIN refs = 1..k
    BY <1>2, <1>10, Listing
  <1>12. ASSUME NEW n \in 1..k
         PROVE  \E i \in F : IsRef(tt, refs[n], i) /\ Cardinality({j \in F : over(j, i)}) = n - 1
    <2>1. at[n] \in F /\ at[n] \in Named(tt) /\ s[n][3] = at[n]
      BY <1>2
    <2>2. refs[n] = [id |-> tt.ids[at[n]], name |-> tt.names[at[n]]]
      BY <1>6, <2>1
    <2>3. IsRef(tt, refs[n], at[n])
      BY <2>1, <2>2, NamedStops DEF IsRef
    <2>4. {j \in F : over(j, at[n])} = {j \in F : <<j, at[n]>> \in P}
      BY <1>5, <2>1
    <2>5. Cardinality({j \in F : <<j, at[n]>> \in P}) = n - 1
      BY <1>3 DEF Place
    <2> QED BY <2>1, <2>3, <2>4, <2>5
  <1> QED BY <1>8, <1>9, <1>11, <1>12

LEMMA StopsAnswered ==
  ASSUME NEW tt, StopsNamed(tt), NEW ask, ask.q \in Text, ask.limit \in Int \cup {Absent, Malformed}
  PROVE  StopsAnswer(tt, ask, StopsReply(tt, ask))
  <1> DEFINE bad   == ask.limit # Absent /\ (ask.limit = Malformed \/ ask.limit < 1)
             asked == IF ask.limit = Absent THEN DefaultStopLimit ELSE ask.limit
             limit == IF ask.limit = Absent THEN DefaultStopLimit
                      ELSE IF ask.limit < MaxStopLimit THEN ask.limit ELSE MaxStopLimit
             s     == Search(tt, ask.q, limit)
             refs  == [n \in DOMAIN s |-> [id |-> tt.ids[s[n][3]], name |-> tt.names[s[n][3]]]]
             reply == StopsReply(tt, ask)
             blank == TrimSpace(ask.q) = <<>>
  <1>1. reply = IF blank THEN Error(400, "q", <<>>)
                ELSE IF bad THEN Error(400, "limit", <<>>)
                ELSE [status |-> 200, stops |-> refs]
    BY DEF StopsReply
  <1>2. StopsAnswer(tt, ask, reply) <=>
          IF blank \/ ask.limit = Malformed \/ (ask.limit # Absent /\ ask.limit < 1)
          THEN reply.status = 400
          ELSE /\ reply.status = 200
               /\ Preferred(tt, ask.q, reply.stops, Min({MaxStopLimit, asked}))
    BY DEF StopsAnswer
  <1>3. blank \/ bad <=> blank \/ ask.limit = Malformed \/ (ask.limit # Absent /\ ask.limit < 1)
    BY ApiAssumption
  <1>4. ~bad => limit \in Nat /\ limit = Min({MaxStopLimit, asked})
    <2> SUFFICES ASSUME ~bad PROVE limit \in Nat /\ limit = Min({MaxStopLimit, asked})
      OBVIOUS
    <2>1. asked \in Nat /\ MaxStopLimit \in Nat /\ DefaultStopLimit \in Nat /\ DefaultStopLimit <= MaxStopLimit
      BY ApiAssumption
    <2>2. Min({MaxStopLimit, asked}) = IF MaxStopLimit < asked THEN MaxStopLimit ELSE asked
      BY <2>1, LeastOfTwo
    <2>3. limit = IF MaxStopLimit < asked THEN MaxStopLimit ELSE asked
      BY <2>1
    <2> HIDE DEF asked, limit
    <2> QED BY <2>1, <2>2, <2>3
  <1> HIDE DEF bad, limit, asked, blank, reply
  <1>5. limit \in Nat => Preferred(tt, ask.q, refs, limit)
    BY PreferredGiven
  <1> HIDE DEF refs
  <1>6. CASE blank \/ bad
    <2>1. reply.status = 400
      BY <1>1, <1>6 DEF Error
    <2> QED BY <1>2, <1>3, <1>6, <2>1 DEF reply
  <1>7. CASE ~(blank \/ bad)
    <2>1. reply = [status |-> 200, stops |-> refs]
      BY <1>1, <1>7
    <2>2. reply.status = 200 /\ reply.stops = refs
      BY <2>1
    <2>3. Preferred(tt, ask.q, refs, Min({MaxStopLimit, asked}))
      BY <1>4, <1>5, <1>7
    <2> QED BY <1>2, <1>3, <1>7, <2>2, <2>3 DEF reply
  <1> QED BY <1>6, <1>7

LEMMA Modulo ==
  ASSUME NEW x \in Nat, NEW m \in Nat \ {0}, x < m
  PROVE  x % m = x
  OBVIOUS

(* A time of day that fits is asked as it stands.                          *)
LEMMA TimeFits ==
  ASSUME NEW n \in Nat, n < Width
  PROVE  Int32(n) = n
  <1>1. Width \in Nat \ {0}
    BY ApiAssumption
  <1> DEFINE x == n + Width
             m == 2 * Width
  <1>2. x \in Nat /\ m \in Nat \ {0} /\ x < m
    BY <1>1
  <1> HIDE DEF x, m
  <1>3. x % m = x
    BY <1>2, Modulo
  <1>4. x - Width = n
    BY <1>1 DEF x
  <1> QED BY <1>3, <1>4 DEF Int32, Narrow, x, m

LEMMA AskedTime ==
  ASSUME NEW ask, ask.at \in Seq(Int), ask.at # <<>>
  PROVE  /\ ParsesAt(ask) <=> IsTime(ask.at)
         /\ ParsesAt(ask) => Seconds(ask.at) \in Nat
  <1> DEFINE at == ask.at
  <1>1. ASSUME IsTime(at) PROVE Seconds(at) \in Nat
    <2>1. Len(at) = 3 /\ at[1] >= 0 /\ at[2] \in 0..59 /\ at[3] \in 0..59
      BY <1>1 DEF IsTime
    <2>2. at \in [1..3 -> Int]
      BY <2>1, LenProperties
    <2>3. at[1] \in Int
      BY <2>2
    <2> DEFINE h == at[1]
               m == at[2]
               s == at[3]
    <2>4. h >= 0 /\ h \in Int /\ m \in 0..59 /\ s \in 0..59
      BY <2>1, <2>3
    <2> HIDE DEF h, m, s
    <2>5. h * 3600 + m * 60 + s \in Nat
      BY <2>4
    <2>6. at[1] * 3600 + at[2] * 60 + at[3] \in Nat
      BY <2>5 DEF h, m, s
    <2> QED BY <2>6 DEF Seconds
  <1> QED BY <1>1 DEF ParsesAt

(* An error is answered for a text that means no stop, or several.         *)
LEMMA MisunderstoodAnswered ==
  ASSUME NEW tt, StopsNamed(tt), NEW text, NEW param, NEW r, Understood(tt, text, r), r.err # "none"
  PROVE  LET reply == ResolveError(tt, param, r)
             hard  == Means(tt, text)
         IN  /\ hard = {} /\ Cardinality(hard) = 0 /\ reply.status = 404
             \/ /\ hard # {} /\ Cardinality(hard) > 1 /\ reply.status = 400
                /\ Len(reply.candidates) > 1
                /\ \A n \in DOMAIN reply.candidates :
                     \E i \in DOMAIN tt.ids : IsRef(tt, reply.candidates[n], i)
                /\ \A i \in hard : Cardinality(hard) <= ResolveLimit =>
                     \E n \in DOMAIN reply.candidates : IsRef(tt, reply.candidates[n], i)
  <1> DEFINE reply == ResolveError(tt, param, r)
             hard  == Means(tt, text)
             c     == r.candidates
             refs  == [n \in DOMAIN c |-> [id |-> tt.ids[c[n]], name |-> tt.names[c[n]]]]
  <1>1. \/ r.err = "notfound" /\ hard = {}
        \/ /\ r.err = "ambiguous"
           /\ IsFiniteSet(hard) /\ Cardinality(hard) > 1
           /\ Len(c) \in Nat /\ Len(c) > 1 /\ DOMAIN c = 1..Len(c)
           /\ \A n \in DOMAIN c : c[n] \in Named(tt)
           /\ Cardinality(hard) <= ResolveLimit => \A i \in hard : \E n \in DOMAIN c : c[n] = i
    BY DEF Understood
  <1> HIDE DEF hard, c
  <1>2. CASE r.err = "notfound"
    <2>1. reply = Error(404, param, <<>>) /\ hard = {}
      BY <1>1, <1>2 DEF ResolveError
    <2>2. reply.status = 404 /\ Cardinality(hard) = 0
      BY <2>1, FS_EmptySet DEF Error
    <2> QED BY <2>1, <2>2 DEF hard
  <1>3. CASE r.err # "notfound"
    <2>1. /\ r.err = "ambiguous"
          /\ Cardinality(hard) > 1
          /\ Len(c) \in Nat /\ Len(c) > 1 /\ DOMAIN c = 1..Len(c)
          /\ \A n \in DOMAIN c : c[n] \in Named(tt)
          /\ Cardinality(hard) <= ResolveLimit => \A i \in hard : \E n \in DOMAIN c : c[n] = i
      BY <1>1, <1>3
    <2>2. hard # {}
      <3> SUFFICES ASSUME hard = {} PROVE FALSE
        OBVIOUS
      <3>1. Cardinality(hard) = 0
        BY FS_EmptySet
      <3> QED BY <2>1, <3>1
    <2>3. reply = Error(400, param, refs)
      BY <2>1 DEF ResolveError, c
    <2>4. reply.status = 400 /\ reply.candidates = refs
      BY <2>3 DEF Error
    <2>5. refs = [n \in 1..Len(c) |-> [id |-> tt.ids[c[n]], name |-> tt.names[c[n]]]]
      BY <2>1
    <2> HIDE DEF refs, reply
    <2>6. refs = [n \in 1..Len(c) |-> refs[n]]
      BY <2>5
    <2>7. Len(refs) = Len(c) /\ DOMAIN refs = DOMAIN c
      BY <2>1, <2>6, Listing
    <2>8. ASSUME NEW n \in DOMAIN c
          PROVE  c[n] \in DOMAIN tt.ids /\ IsRef(tt, refs[n], c[n])
      <3>1. refs[n] = [id |-> tt.ids[c[n]], name |-> tt.names[c[n]]] /\ c[n] \in Named(tt)
        BY <2>1, <2>5
      <3> QED BY <3>1, NamedStops DEF IsRef
    <2>9. /\ hard # {} /\ Cardinality(hard) > 1 /\ reply.status = 400
          /\ Len(refs) > 1
          /\ \A n \in DOMAIN refs : \E i \in DOMAIN tt.ids : IsRef(tt, refs[n], i)
          /\ \A i \in hard : Cardinality(hard) <= ResolveLimit => \E n \in DOMAIN refs : IsRef(tt, refs[n], i)
      BY <2>1, <2>2, <2>4, <2>7, <2>8
    <2> QED BY <2>4, <2>9 DEF hard, reply
  <1> QED BY <1>2, <1>3

(* A journey's times are those of the engine, and read back.               *)
LEMMA RideReads ==
  ASSUME NEW tt, NEW ask, NEW from, NEW to, NEW dep \in Nat, Seconds(ask.at) = dep, NEW r \in Rides,
         TimesFit(ask)
  PROVE  ReadableTimes(ask, ToWireJourney(tt, Ride(from, to, dep, r)))
  <1> DEFINE j == Ride(from, to, dep, r)
             w == ToWireJourney(tt, j)
             d == dep + r[1]
             a == dep + r[1] + r[2]
  <1>1. d \in Nat /\ a \in Nat /\ dep <= d /\ d + (a - d) = a
    <2>1. r[1] \in Nat /\ r[2] \in Nat
      BY ApiAssumption
    <2> QED BY <2>1
  <1>2. j.departure = d /\ j.arrival = a /\ Int32(a - d) = a - d
    <2>1. a < Width /\ Width \in Nat
      BY ApiAssumption DEF TimesFit
    <2>2. d < Width /\ a - d \in Nat /\ a - d < Width
      <3>1. r[1] \in Nat /\ r[2] \in Nat
        BY ApiAssumption
      <3> QED BY <2>1, <3>1
    <2>3. j.departure = Int32(d) /\ j.arrival = Int32(a)
      BY DEF Ride
    <2> HIDE DEF j, d, a
    <2> QED BY <1>1, <2>1, <2>2, <2>3, TimeFits
  <1> HIDE DEF j, d, a
  <1>3. /\ w.departure = ClockOf(d) /\ w.arrival = ClockOf(a)
        /\ w.departureSeconds = d /\ w.arrivalSeconds = a /\ w.durationSeconds = a - d
        /\ w.nextDay = NextDay(a)
    BY <1>2 DEF ToWireJourney
  <1> HIDE DEF w
  <1>4. IsTime(ClockOf(d)) /\ Seconds(ClockOf(d)) = d /\ IsTime(ClockOf(a)) /\ Seconds(ClockOf(a)) = a
    BY <1>1, ClockReadsBack
  <1>5. NextDay(a) <=> ClockOf(a)[1] >= 24
    <2>1. ClockOf(a)[1] = 1 * (a \div 3600)
      BY <1>1 DEF ClockOf
    <2>2. a \div 3600 \in Nat /\ a % 3600 \in 0..3599 /\ a = 3600 * (a \div 3600) + (a % 3600)
      BY <1>1, Hours
    <2> DEFINE h == a \div 3600
               m == a % 3600
    <2>3. h \in Nat /\ m \in 0..3599 /\ a = 3600 * h + m
      BY <2>2
    <2> HIDE DEF h, m
    <2>4. a >= 86400 <=> h >= 24
      BY <1>1, <2>3
    <2>5. ClockOf(a)[1] = h
      <3>1. 1 * h = h
        BY <2>3
      <3> QED BY <2>1, <3>1 DEF h
    <2> QED BY <2>4, <2>5 DEF NextDay, DaySeconds
  <1>6. ReadableTimes(ask, w)
    BY <1>1, <1>3, <1>4, <1>5 DEF ReadableTimes
  <1> QED BY <1>6 DEF w, j

(* What is told of what the engine finds between two stops it knows.       *)
WellTold(tt, ask, from, to, reply) ==
  /\ reply.status = 200
  /\ IsRef(tt, reply.origin, from) /\ IsRef(tt, reply.destination, to)
  /\ AtFits(ask) => Seconds(reply.departAfter) = Seconds(ask.at)
  /\ \A n \in DOMAIN reply.journeys : Readable(tt, ask, from, to, reply.journeys[n])
  /\ ~Trips(tt, ask.date) => reply.note
  /\ reply.note => reply.journeys = <<>>

LEMMA FoundAnswered ==
  ASSUME NEW tt, NEW ask, NEW from \in DOMAIN tt.ids, NEW to \in DOMAIN tt.ids,
         Seconds(ask.at) \in Nat, ask.date # Malformed,
         IsRef(tt, StopRef(tt, from), from), IsRef(tt, StopRef(tt, to), to),
         NEW q \in Query(tt, from, to, Int32(Seconds(ask.at)), ask.date)
  PROVE  \/ q.failed /\ from # to /\ Trips(tt, ask.date)
         \/ ~q.failed /\ WellTold(tt, ask, from, to, Routed(tt, ask, from, to, q.journeys))
  <1> DEFINE reply == Routed(tt, ask, from, to, q.journeys)
             dep == Int32(Seconds(ask.at))
  <1>1. \/ q = Result(FALSE, <<>>)
        \/ q = Result(TRUE, <<>>) /\ from # to /\ Trips(tt, ask.date)
        \/ Trips(tt, ask.date) /\ \E r \in Rides : q = Result(FALSE, <<Ride(from, to, dep, r)>>)
    <2>1. {from, to} \in SUBSET DOMAIN tt.ids
      OBVIOUS
    <2> QED BY <2>1 DEF Query
  <1>2. CASE q.failed
    BY <1>1, <1>2 DEF Result
  <1>3. AtFits(ask) => dep = Seconds(ask.at) /\ Seconds(ClockOf(dep)) = Seconds(ask.at)
    BY TimeFits, ClockReadsBack DEF AtFits
  <1>4. /\ reply.status = 200
        /\ reply.origin = StopRef(tt, from) /\ reply.destination = StopRef(tt, to)
        /\ reply.departAfter = ClockOf(dep)
        /\ reply.journeys = [n \in DOMAIN q.journeys |-> ToWireJourney(tt, q.journeys[n])]
        /\ reply.note = (q.journeys = <<>> /\ ~InFeedWindow(tt.services, ask.date))
    BY DEF Routed
  <1>5. ~Trips(tt, ask.date) => ~InFeedWindow(tt.services, ask.date)
    BY DEF Trips
  <1> HIDE DEF reply, dep
  <1>6. CASE q = Result(FALSE, <<>>)
    <2>1. q.journeys = <<>>
      BY <1>6 DEF Result
    <2>2. DOMAIN q.journeys = {}
      BY <2>1
    <2>3. reply.journeys = [n \in {} |-> ToWireJourney(tt, q.journeys[n])]
      BY <1>4, <2>2
    <2>4. reply.journeys = <<>>
      <3>1. DOMAIN reply.journeys = 1..0
        BY <2>3
      <3>2. reply.journeys = [p \in 1..0 |-> reply.journeys[p]]
        BY <2>3, <3>1
      <3> QED BY <3>2, Listing
    <2>5. DOMAIN reply.journeys = {}
      BY <2>3
    <2>6. ~q.failed
      BY <1>6 DEF Result
    <2> QED BY <1>3, <1>4, <1>5, <2>1, <2>4, <2>5, <2>6 DEF WellTold, reply
  <1>7. CASE Trips(tt, ask.date) /\ \E r \in Rides : q = Result(FALSE, <<Ride(from, to, dep, r)>>)
    <2>1. PICK r \in Rides : q = Result(FALSE, <<Ride(from, to, dep, r)>>)
      BY <1>7
    <2> DEFINE j == Ride(from, to, dep, r)
    <2>2. q.journeys = <<j>> /\ ~q.failed
      BY <2>1 DEF Result
    <2>3. Readable(tt, ask, from, to, ToWireJourney(tt, j))
      <3>1. /\ ToWireJourney(tt, j).from = StopRef(tt, from)
            /\ ToWireJourney(tt, j).to = StopRef(tt, to)
        BY DEF ToWireJourney, Ride
      <3>2. TimesFit(ask) => dep = Seconds(ask.at)
        BY <1>3 DEF TimesFit
      <3>3. TimesFit(ask) => ReadableTimes(ask, ToWireJourney(tt, j))
        BY <3>2, RideReads
      <3> HIDE DEF j
      <3> QED BY <3>1, <3>3 DEF Readable
    <2> HIDE DEF j
    <2>4. DOMAIN q.journeys = {1} /\ q.journeys[1] = j /\ q.journeys # <<>>
      BY <2>2
    <2>5. DOMAIN reply.journeys = {1} /\ reply.journeys[1] = ToWireJourney(tt, j)
      BY <1>4, <2>4
    <2>6. \A n \in DOMAIN reply.journeys : Readable(tt, ask, from, to, reply.journeys[n])
      BY <2>3, <2>5
    <2>7. ~reply.note
      BY <1>4, <2>4
    <2> QED BY <1>3, <1>4, <1>7, <2>2, <2>6, <2>7 DEF WellTold, reply
  <1>8. q = Result(TRUE, <<>>) => q.failed
    BY DEF Result
  <1> QED BY <1>1, <1>2, <1>6, <1>7, <1>8

LEMMA ReferredTo ==
  ASSUME NEW tt, NEW i, tt.names[i] # <<>> \/ tt.ids[i] # <<>>
  PROVE  IsRef(tt, StopRef(tt, i), i)
  BY DEF IsRef, StopRef

(* The stop a text is resolved to is the one it means.                     *)
LEMMA UnderstoodStop ==
  ASSUME NEW tt, NEW text, NEW r, Understood(tt, text, r), r.err = "none"
  PROVE  /\ Means(tt, text) = {r.stop} /\ Cardinality(Means(tt, text)) = 1
         /\ r.stop \in DOMAIN tt.ids /\ IsRef(tt, StopRef(tt, r.stop), r.stop)
  <1>1. /\ Means(tt, text) = {r.stop} /\ r.stop \in DOMAIN tt.ids
        /\ tt.names[r.stop] # <<>> \/ tt.ids[r.stop] # <<>>
    BY DEF Understood
  <1>2. Cardinality({r.stop}) = 1
    BY FS_Singleton
  <1> QED BY <1>1, <1>2, ReferredTo

LEMMA MisunderstoodCount ==
  ASSUME NEW tt, NEW text, NEW r, Understood(tt, text, r), r.err # "none"
  PROVE  Cardinality(Means(tt, text)) # 1
  <1>1. CASE Means(tt, text) = {}
    <2>1. Cardinality(Means(tt, text)) = 0
      BY <1>1, FS_EmptySet
    <2> QED BY <2>1
  <1>2. CASE Means(tt, text) # {}
    <2>1. Cardinality(Means(tt, text)) > 1
      BY <1>2 DEF Understood
    <2> QED BY <2>1
  <1> QED BY <1>1, <1>2

LEMMA RouteAnswered ==
  ASSUME NEW tt, StopsNamed(tt), NEW ask,
         ask.from \in Text, ask.to \in Text, ask.at \in Seq(Int),
         NEW reply \in RouteReplies(tt, ask)
  PROVE  RouteAnswer(tt, ask, reply)
  <1> DEFINE rf   == Resolve(tt, ask.from)
             rt   == Resolve(tt, ask.to)
             from == Means(tt, ask.from)
             to   == Means(tt, ask.to)
             hard == IF Cardinality(from) # 1 THEN from ELSE to
             dep  == Int32(Seconds(ask.at))
             missing == MissingParams(ask)
             answer(q) == IF q.failed THEN Error(500, "query", <<>>)
                          ELSE Routed(tt, ask, rf.stop, rt.stop, q.journeys)
             found == Query(tt, rf.stop, rt.stop, dep, ask.date)
             Hard400 == /\ reply.status = 400
                        /\ Len(reply.candidates) > 1
                        /\ \A n \in DOMAIN reply.candidates :
                             \E i \in DOMAIN tt.ids : IsRef(tt, reply.candidates[n], i)
                        /\ \A i \in hard : Cardinality(hard) <= ResolveLimit =>
                             \E n \in DOMAIN reply.candidates : IsRef(tt, reply.candidates[n], i)
             Fine == \/ reply.status = 500 /\ from # to /\ Trips(tt, ask.date)
                     \/ /\ reply.status = 200
                        /\ \A i \in from : IsRef(tt, reply.origin, i)
                        /\ \A i \in to : IsRef(tt, reply.destination, i)
                        /\ AtFits(ask) => Seconds(reply.departAfter) = Seconds(ask.at)
                        /\ \A n \in DOMAIN reply.journeys, i \in from, k \in to :
                             Readable(tt, ask, i, k, reply.journeys[n])
                        /\ ~Trips(tt, ask.date) => reply.note
                        /\ reply.note => reply.journeys = <<>>
  <1>1. RouteAnswer(tt, ask, reply) <=>
          CASE ~WellFormed(ask) -> reply.status = 400
            [] WellFormed(ask) /\ hard = {} -> reply.status = 404
            [] WellFormed(ask) /\ Cardinality(hard) > 1 -> Hard400
            [] OTHER -> Fine
    BY DEF RouteAnswer
  <1>2. reply \in (IF missing # {} THEN {Error(400, p, <<>>) : p \in missing}
                   ELSE IF ~ParsesAt(ask) THEN {Error(400, "at", <<>>)}
                   ELSE IF ask.date = Malformed THEN {Error(400, "date", <<>>)}
                   ELSE IF rf.err # "none" THEN {ResolveError(tt, "from", rf)}
                   ELSE IF rt.err # "none" THEN {ResolveError(tt, "to", rt)}
                   ELSE {answer(q) : q \in found})
    BY DEF RouteReplies
  <1>3. missing = {} <=> /\ TrimSpace(ask.from) # <<>> /\ TrimSpace(ask.to) # <<>>
                         /\ ask.at # <<>> /\ ask.date # NoDate
    BY DEF MissingParams
  <1>4. WellFormed(ask) <=> missing = {} /\ ParsesAt(ask) /\ ask.date # Malformed
    BY <1>3, AskedTime DEF WellFormed
  <1>5. CASE ~WellFormed(ask)
    <2> HIDE DEF rf, rt, answer, found, missing, Hard400, Fine, hard, from, to
    <2>1. \E p : reply = Error(400, p, <<>>)
      BY <1>2, <1>4, <1>5
    <2>2. reply.status = 400
      BY <2>1 DEF Error
    <2> QED BY <1>1, <1>5, <2>2
  <1>6. CASE WellFormed(ask)
    <2>1. /\ TrimSpace(ask.from) # <<>> /\ TrimSpace(ask.to) # <<>> /\ ask.at # <<>>
          /\ ParsesAt(ask) /\ ask.date # Malformed
      BY <1>3, <1>4, <1>6
    <2>2. Seconds(ask.at) \in Nat
      BY <2>1, AskedTime
    <2>3. Understood(tt, ask.from, rf) /\ Understood(tt, ask.to, rt)
      BY <2>1, Resolves
    <2>4. reply \in (IF rf.err # "none" THEN {ResolveError(tt, "from", rf)}
                     ELSE IF rt.err # "none" THEN {ResolveError(tt, "to", rt)}
                     ELSE {answer(q) : q \in found})
      BY <1>2, <1>4, <1>6
    <2> HIDE DEF rf, rt, found, missing, answer, dep
    <2>5. ASSUME NEW text, NEW r, NEW param, Understood(tt, text, r), r.err # "none",
                 hard = Means(tt, text), reply = ResolveError(tt, param, r)
          PROVE  RouteAnswer(tt, ask, reply)
      <3>1. \/ hard = {} /\ Cardinality(hard) = 0 /\ reply.status = 404
            \/ hard # {} /\ Cardinality(hard) > 1 /\ Hard400
        <4> HIDE DEF from, to
        <4> QED BY <2>5, MisunderstoodAnswered
      <3> HIDE DEF hard, Hard400, Fine
      <3> QED BY <1>1, <1>6, <3>1
    <2>6. CASE rf.err # "none"
      <3>1. reply = ResolveError(tt, "from", rf)
        BY <2>4, <2>6
      <3>2. Cardinality(from) # 1
        BY <2>3, <2>6, MisunderstoodCount
      <3>3. hard = Means(tt, ask.from)
        BY <3>2
      <3> HIDE DEF hard
      <3> QED BY <2>3, <2>5, <2>6, <3>1, <3>3
    <2>7. CASE rf.err = "none" /\ rt.err # "none"
      <3>1. reply = ResolveError(tt, "to", rt)
        BY <2>4, <2>7
      <3>2. Cardinality(from) = 1
        BY <2>3, <2>7, UnderstoodStop
      <3>3. hard = Means(tt, ask.to)
        BY <3>2
      <3> HIDE DEF hard
      <3> QED BY <2>3, <2>5, <2>7, <3>1, <3>3
    <2>8. CASE rf.err = "none" /\ rt.err = "none"
      <3>1. PICK q \in found : reply = answer(q)
        BY <2>4, <2>8
      <3>2. /\ from = {rf.stop} /\ Cardinality(from) = 1
            /\ rf.stop \in DOMAIN tt.ids /\ IsRef(tt, StopRef(tt, rf.stop), rf.stop)
        BY <2>3, <2>8, UnderstoodStop
      <3>3. /\ to = {rt.stop} /\ Cardinality(to) = 1
            /\ rt.stop \in DOMAIN tt.ids /\ IsRef(tt, StopRef(tt, rt.stop), rt.stop)
        BY <2>3, <2>8, UnderstoodStop
      <3> HIDE DEF from, to
      <3>4. hard = {rt.stop} /\ Cardinality(hard) = 1
        BY <3>2, <3>3
      <3> DEFINE told == Routed(tt, ask, rf.stop, rt.stop, q.journeys)
      <3>5. \/ q.failed /\ rf.stop # rt.stop /\ Trips(tt, ask.date)
            \/ ~q.failed /\ WellTold(tt, ask, rf.stop, rt.stop, told)
        <4>1. q \in Query(tt, rf.stop, rt.stop, Int32(Seconds(ask.at)), ask.date)
          BY DEF found, dep
        <4> QED BY <2>1, <2>2, <3>2, <3>3, <4>1, FoundAnswered
      <3>6. reply = IF q.failed THEN Error(500, "query", <<>>) ELSE told
        BY <3>1 DEF answer
      <3> HIDE DEF told
      <3>7. Fine
        <4>1. CASE q.failed
          <5>1. reply.status = 500
            BY <3>6, <4>1 DEF Error
          <5> QED BY <3>2, <3>3, <3>5, <4>1, <5>1
        <4>2. CASE ~q.failed
          BY <3>2, <3>3, <3>5, <3>6, <4>2 DEF WellTold
        <4> QED BY <4>1, <4>2
      <3> HIDE DEF hard, Fine, Hard400
      <3>8. hard # {} /\ ~(Cardinality(hard) > 1)
        BY <3>4
      <3> QED BY <1>1, <1>6, <3>7, <3>8
    <2> QED BY <2>6, <2>7, <2>8
  <1> QED BY <1>5, <1>6

(* Every answer to a request is right: the stops a text means and no       *)
(* others, the best matches in order, clock times that read back where     *)
(* they fit an int32, and the status the documentation of handleRoute      *)
(* gives, a failure of the engine only where there are journeys to find;   *)
(* for any timetable of named stops and any request.                       *)
THEOREM AnswersAreRight ==
  ASSUME NEW tt, StopsNamed(tt), NEW ask, IsRequest(ask),
         NEW reply \in Replies(tt, ask)
  PROVE  RightAnswer(tt, ask, reply)
  <1>1. CASE ask.kind = "healthz"
    <2>1. reply = Healthz
      BY <1>1 DEF Replies
    <2> QED BY <1>1, <2>1 DEF Healthz, RightAnswer
  <1>2. CASE ask.kind = "stops"
    <2>1. reply = StopsReply(tt, ask)
      BY <1>2 DEF Replies
    <2>2. ask.q \in Text /\ ask.limit \in Int \cup {Absent, Malformed}
      BY <1>2 DEF IsRequest
    <2> QED BY <1>2, <2>1, <2>2, StopsAnswered DEF RightAnswer
  <1>3. CASE ask.kind = "route"
    <2>1. reply \in RouteReplies(tt, ask)
      BY <1>3 DEF Replies
    <2>2. ask.from \in Text /\ ask.to \in Text /\ ask.at \in Seq(Int)
      BY <1>3 DEF IsRequest
    <2>3. RouteAnswer(tt, ask, reply)
      BY <2>1, <2>2, RouteAnswered
    <2> QED BY <1>3, <2>3 DEF RightAnswer
  <1> QED BY <1>1, <1>2, <1>3 DEF IsRequest

=============================================================================
