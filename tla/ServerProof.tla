---------------------------- MODULE ServerProof -----------------------------
(***************************************************************************)
(* Proofs about the server process, for any number of clients, any         *)
(* requests and any timetable; and first about transfers.Generate, which   *)
(* it runs before it listens, for any service area, any radius and any     *)
(* stops.                                                                  *)
(***************************************************************************)
EXTENDS ServerProperties, AnswersProof

-----------------------------------------------------------------------------
(***************************************************************************)
(* Numbers.                                                                *)
(***************************************************************************)
LEMMA SquaresGrow ==
  ASSUME NEW a \in Nat, NEW b \in Nat, a * a <= b * b
  PROVE  a <= b
  <1>1. ASSUME a >= b + 1 PROVE FALSE
    <2>1. a * a >= (b + 1) * (b + 1)
      BY <1>1
    <2> QED BY <2>1
  <1> QED BY <1>1

LEMMA ProductsGrow ==
  ASSUME NEW a \in Nat, NEW b \in Nat, NEW x \in Nat, NEW y \in Nat, a <= x, b <= y
  PROVE  a * b <= x * y
  <1>1. a * b <= x * b
    OBVIOUS
  <1>2. x * b <= x * y
    OBVIOUS
  <1> QED BY <1>1, <1>2

LEMMA DivisionFacts ==
  ASSUME NEW a \in Int, NEW d \in Nat \ {0}
  PROVE  /\ a \div d \in Int
         /\ d * (a \div d) <= a
         /\ a < d * (a \div d) + d
  OBVIOUS

(* Two coordinates less than a cell apart are in one cell or in two that   *)
(* are next to each other, on either side of zero.                         *)
LEMMA CellsApart ==
  ASSUME NEW a \in Int, NEW b \in Int, NEW d \in Nat \ {0}, Magnitude(a - b) <= d - 1
  PROVE  (b \div d) - (a \div d) \in -1..1
  <1> DEFINE p == a \div d
             q == b \div d
  <1>1. p \in Int /\ q \in Int /\ d * p <= a /\ a < d * p + d /\ d * q <= b /\ b < d * q + d
    BY DivisionFacts
  <1>2. a - b <= d - 1 /\ b - a <= d - 1
    BY DEF Magnitude
  <1> HIDE DEF p, q
  <1>3. ~(q - p >= 2)
    <2>1. ASSUME q - p >= 2 PROVE FALSE
      <3>1. d * q >= d * p + 2 * d
        BY <2>1, <1>1
      <3> QED BY <3>1, <1>1, <1>2
    <2> QED BY <2>1
  <1>4. ~(p - q >= 2)
    <2>1. ASSUME p - q >= 2 PROVE FALSE
      <3>1. d * p >= d * q + 2 * d
        BY <2>1, <1>1
      <3> QED BY <3>1, <1>1, <1>2
    <2> QED BY <2>1
  <1>5. q - p \in -1..1
    BY <1>1, <1>3, <1>4
  <1> QED BY <1>5 DEF p, q

LEMMA BagOfUnion ==
  ASSUME NEW S, NEW T, S \cap T = {}
  PROVE  SetToBag(S) (+) SetToBag(T) = SetToBag(S \cup T)
  BY DEF SetToBag, (+)

-----------------------------------------------------------------------------
(***************************************************************************)
(* The map.                                                                *)
(***************************************************************************)
LEMMA UsableFacts ==
  ASSUME NEW s \in Surveys, NEW i \in Usable(s)
  PROVE  /\ i \in Nat /\ i \in s.stops
         /\ s.lat[i] \in MinLat..MaxLat /\ s.lon[i] \in Int
  <1>1. i \in s.stops /\ i \in Nat /\ InServiceArea(s, i)
    BY SurveysAssumption DEF Usable
  <1>2. s.lat[i] \in Int \cup {NaN} /\ s.lon[i] \in Int \cup {NaN}
    BY <1>1, SurveysAssumption
  <1> QED BY <1>1, <1>2, FootpathsAssumption DEF InServiceArea

LEMMA CosFacts ==
  /\ Poleward \in MinLat..MaxLat
  /\ \A a \in MinLat..MaxLat : Cos[a] \in Nat \ {0} /\ Cos[Poleward] <= Cos[a]
  /\ CellLat \in Nat \ {0}
  /\ CellLon \in Nat \ {0}
  <1>1. Poleward \in MinLat..MaxLat
    BY FootpathsAssumption DEF Poleward
  <1>2. \A a \in MinLat..MaxLat : Magnitude(a) <= Magnitude(Poleward)
    BY FootpathsAssumption DEF Poleward, Magnitude
  <1>3. \A a \in MinLat..MaxLat : Cos[a] \in Nat \ {0} /\ Cos[Poleward] <= Cos[a]
    BY <1>1, <1>2, FootpathsAssumption
  <1>4. CellLat \in Nat \ {0}
    BY FootpathsAssumption DEF CellLat
  <1>5. MaxMeters * Unit \in Nat /\ Cos[Poleward] \in Nat \ {0}
    BY <1>1, <1>3, FootpathsAssumption
  <1> DEFINE w == (MaxMeters * Unit) \div Cos[Poleward]
  <1>6. w \in Int /\ MaxMeters * Unit < Cos[Poleward] * w + Cos[Poleward]
    <2> HIDE DEF w
    <2> DEFINE n == MaxMeters * Unit
               r == Cos[Poleward]
    <2>1. n \in Int /\ r \in Nat \ {0} /\ w = n \div r
      BY <1>5 DEF w
    <2> HIDE DEF n, r
    <2>2. w \in Int /\ n < r * w + r
      BY <2>1, DivisionFacts
    <2> QED BY <2>2 DEF n, r
  <1> HIDE DEF w
  <1>7. w >= 0
    <2>1. ASSUME w <= -1 PROVE FALSE
      <3>1. Cos[Poleward] * w <= -Cos[Poleward]
        BY <2>1, <1>5, <1>6
      <3>2. Cos[Poleward] * w \in Int
        BY <1>5, <1>6
      <3> QED BY <3>1, <3>2, <1>5, <1>6
    <2> QED BY <2>1, <1>6
  <1>8. CellLon \in Nat \ {0}
    BY <1>6, <1>7 DEF CellLon, w
  <1> QED BY <1>1, <1>3, <1>4, <1>8

(* Stops within MaxMeters of each other are less than a cell apart in both *)
(* directions, wherever in the area they are.                              *)
LEMMA CellsSpanReach ==
  ASSUME NEW s \in Surveys, NEW i \in Usable(s), NEW j \in Usable(s), Within(s, i, j)
  PROVE  /\ Magnitude(s.lat[i] - s.lat[j]) <= CellLat - 1
         /\ Magnitude(s.lon[i] - s.lon[j]) <= CellLon - 1
  <1> DEFINE x == Magnitude(s.lat[i] - s.lat[j])
             y == Magnitude(s.lon[i] - s.lon[j])
             p == Cos[s.lat[i]]
             q == Cos[s.lat[j]]
             r == Cos[Poleward]
             m == Unit * MaxMeters
  <1>1. /\ s.lat[i] \in MinLat..MaxLat /\ s.lon[i] \in Int
        /\ s.lat[j] \in MinLat..MaxLat /\ s.lon[j] \in Int
    BY UsableFacts
  <1>2. x \in Nat /\ y \in Nat
    BY <1>1, FootpathsAssumption DEF Magnitude
  <1>3. p \in Nat /\ q \in Nat /\ r \in Nat \ {0} /\ r <= p /\ r <= q
    BY <1>1, CosFacts
  <1>4. Unit \in Nat \ {0} /\ MaxMeters \in Nat /\ m \in Nat
    BY FootpathsAssumption
  <1>5. /\ Square(Unit * (s.lat[i] - s.lat[j])) = (Unit * x) * (Unit * x)
        /\ Square(s.lon[i] - s.lon[j]) = y * y
    BY <1>1, <1>4, FootpathsAssumption DEF Square, Magnitude
  <1>6. (Unit * x) * (Unit * x) + (p * q) * (y * y) <= m * m
    BY <1>5 DEF Within, Haversine, Square
  <1> HIDE DEF x, y, p, q, r, m
  <1>7. Unit * x \in Nat /\ (Unit * x) * (Unit * x) \in Nat /\ p * q \in Nat /\ y * y \in Nat
          /\ (p * q) * (y * y) \in Nat /\ m * m \in Nat
    BY <1>2, <1>3, <1>4
  <1>8. x <= MaxMeters
    <2>1. (Unit * x) * (Unit * x) <= m * m
      BY <1>6, <1>7
    <2>2. Unit * x <= m
      BY <2>1, <1>4, <1>7, SquaresGrow
    <2>3. Unit * x <= Unit * MaxMeters
      BY <2>2 DEF m
    <2>4. ASSUME x >= MaxMeters + 1 PROVE FALSE
      <3>1. Unit * x >= Unit * MaxMeters + Unit
        BY <2>4, <1>2, <1>4
      <3> QED BY <3>1, <2>3, <1>4, <1>7
    <2> QED BY <2>4, <1>2, <1>4
  <1>9. r * y <= m
    <2>1. r * r <= p * q
      BY <1>3, ProductsGrow
    <2>2. r * r \in Nat
      BY <1>3
    <2>3. (r * r) * (y * y) <= (p * q) * (y * y)
      BY <2>1, <2>2, <1>7, ProductsGrow
    <2>4. (r * y) * (r * y) = (r * r) * (y * y)
      BY <1>2, <1>3
    <2>5. r * y \in Nat /\ (r * y) * (r * y) \in Nat
      BY <1>2, <1>3
    <2>6. (r * y) * (r * y) <= m * m
      BY <2>3, <2>4, <2>5, <1>6, <1>7
    <2> QED BY <2>5, <2>6, <1>4, SquaresGrow
  <1>10. y <= m \div r
    <2>1. m \div r \in Int /\ m < r * (m \div r) + r
      BY <1>3, <1>4, DivisionFacts
    <2>2. ASSUME y >= (m \div r) + 1 PROVE FALSE
      <3>1. r * y >= r * (m \div r) + r
        BY <2>1, <2>2, <1>2, <1>3
      <3>2. r * y \in Int /\ r * (m \div r) \in Int
        BY <2>1, <1>2, <1>3
      <3> QED BY <3>1, <3>2, <2>1, <1>9, <1>3, <1>4
    <2> QED BY <2>1, <2>2, <1>2
  <1>11. CellLon - 1 = m \div r /\ CellLat - 1 = MaxMeters
    <2>1. m = MaxMeters * Unit
      BY <1>4 DEF m
    <2>2. m \div r \in Int
      BY <1>3, <1>4, DivisionFacts
    <2>3. CellLon = (m \div r) + 1
      BY <2>1 DEF CellLon, r
    <2> QED BY <2>2, <2>3, <1>4 DEF CellLat
  <1> QED BY <1>8, <1>10, <1>11 DEF x, y

(* The cell of a stop within reach is among the nine (generate.go:67-70).  *)
LEMMA CellsAdjoin ==
  ASSUME NEW s \in Surveys, NEW i \in Usable(s), NEW j \in Usable(s), Within(s, i, j)
  PROVE  CellOf(s, j) \in Neighbourhood(CellOf(s, i))
  <1> DEFINE dr == (s.lat[j] \div CellLat) - (s.lat[i] \div CellLat)
             dc == (s.lon[j] \div CellLon) - (s.lon[i] \div CellLon)
  <1>1. /\ s.lat[i] \in Int /\ s.lon[i] \in Int
        /\ s.lat[j] \in Int /\ s.lon[j] \in Int
    BY UsableFacts, FootpathsAssumption
  <1>2. CellLat \in Nat \ {0} /\ CellLon \in Nat \ {0}
    BY CosFacts
  <1>3. dr \in -1..1
    BY <1>1, <1>2, CellsSpanReach, CellsApart
  <1>4. dc \in -1..1
    BY <1>1, <1>2, CellsSpanReach, CellsApart
  <1>5. /\ s.lat[i] \div CellLat \in Int /\ s.lat[j] \div CellLat \in Int
        /\ s.lon[i] \div CellLon \in Int /\ s.lon[j] \div CellLon \in Int
    BY <1>1, <1>2, DivisionFacts
  <1>6. /\ s.lat[j] \div CellLat = (s.lat[i] \div CellLat) + dr
        /\ s.lon[j] \div CellLon = (s.lon[i] \div CellLon) + dc
    BY <1>5
  <1> HIDE DEF dr, dc
  <1>7. CellOf(s, j) = <<CellOf(s, i)[1] + dr, CellOf(s, i)[2] + dc>>
    BY <1>6 DEF CellOf
  <1> QED BY <1>3, <1>4, <1>7 DEF Neighbourhood

-----------------------------------------------------------------------------
(***************************************************************************)
(* Links.                                                                  *)
(***************************************************************************)
(* The links a comparison with all usable stops finds from the lower side. *)
LowerLinks(s, i) == UNION {Pair(s, i, j) : j \in {j \in Usable(s) : j > i /\ Within(s, i, j)}}

LinksFrom(s, T) == UNION {LowerLinks(s, i) : i \in T}

LEMMA LinkFields ==
  ASSUME NEW i, NEW j, NEW t
  PROVE  Link(i, j, t).from = i /\ Link(i, j, t).to = j /\ Link(i, j, t).seconds = t
  BY DEF Link

LEMMA FoundLinks ==
  ASSUME NEW s \in Surveys, NEW T, T \subseteq Usable(s), NEW e
  PROVE  e \in LinksFrom(s, T) <=>
           \E i \in T, j \in Usable(s) :
             /\ j > i /\ Within(s, i, j)
             /\ \/ e = Link(i, j, WalkSeconds(s, i, j))
                \/ e = Link(j, i, WalkSeconds(s, i, j))
  <1>1. \A i, j : e \in Pair(s, i, j) <=> \/ e = Link(i, j, WalkSeconds(s, i, j))
                                          \/ e = Link(j, i, WalkSeconds(s, i, j))
    BY DEF Pair
  <1>2. e \in LinksFrom(s, T) <=>
          \E i \in T, j \in Usable(s) : j > i /\ Within(s, i, j) /\ e \in Pair(s, i, j)
    BY DEF LinksFrom, LowerLinks
  <1> QED BY <1>1, <1>2

(* No link is found from two stops.                                        *)
LEMMA FoundOnce ==
  ASSUME NEW s \in Surveys, NEW T, T \subseteq Usable(s), NEW i \in Usable(s), i \notin T
  PROVE  LinksFrom(s, T) \cap LinksFrom(s, {i}) = {}
  <1> SUFFICES ASSUME NEW e, e \in LinksFrom(s, T), e \in LinksFrom(s, {i})
               PROVE  FALSE
    OBVIOUS
  <1>1. PICK k \in T, l \in Usable(s) :
          /\ l > k
          /\ \/ e = Link(k, l, WalkSeconds(s, k, l))
             \/ e = Link(l, k, WalkSeconds(s, k, l))
    BY FoundLinks
  <1>2. {i} \subseteq Usable(s)
    OBVIOUS
  <1>3. PICK j \in Usable(s) :
          /\ j > i
          /\ \/ e = Link(i, j, WalkSeconds(s, i, j))
             \/ e = Link(j, i, WalkSeconds(s, i, j))
    BY <1>2, FoundLinks
  <1>4. (e.from = k /\ e.to = l) \/ (e.from = l /\ e.to = k)
    BY <1>1, LinkFields
  <1>5. (e.from = i /\ e.to = j) \/ (e.from = j /\ e.to = i)
    BY <1>3, LinkFields
  <1>6. i \in Nat /\ j \in Nat /\ k \in Nat /\ l \in Nat /\ k # i
    BY UsableFacts
  <1> QED BY <1>1, <1>3, <1>4, <1>5, <1>6

LEMMA FoundGrows ==
  ASSUME NEW s, NEW T, NEW i
  PROVE  /\ LinksFrom(s, T \cup {i}) = LinksFrom(s, T) \cup LinksFrom(s, {i})
         /\ LinksFrom(s, {i}) = LowerLinks(s, i)
  BY DEF LinksFrom

(* The links of any usable stops are paired.                               *)
LEMMA FoundPaired ==
  ASSUME NEW s \in Surveys, NEW T, T \subseteq Usable(s), NEW e \in LinksFrom(s, T)
  PROVE  /\ e.from # e.to
         /\ Link(e.to, e.from, e.seconds) \in LinksFrom(s, T)
         /\ \A f \in LinksFrom(s, T) : e.from = f.from /\ e.to = f.to => e = f
  <1>1. PICK i \in T, j \in Usable(s) :
          /\ j > i /\ Within(s, i, j)
          /\ \/ e = Link(i, j, WalkSeconds(s, i, j))
             \/ e = Link(j, i, WalkSeconds(s, i, j))
    BY FoundLinks
  <1> DEFINE t == WalkSeconds(s, i, j)
             back == Link(e.to, e.from, e.seconds)
  <1>2. e.seconds = t /\ ((e.from = i /\ e.to = j) \/ (e.from = j /\ e.to = i))
    BY <1>1, LinkFields
  <1>3. i \in Nat /\ j \in Nat
    BY UsableFacts
  <1>4. e.from # e.to
    BY <1>1, <1>2, <1>3
  <1>5. back = Link(i, j, t) \/ back = Link(j, i, t)
    BY <1>2
  <1>6. back \in LinksFrom(s, T)
    <2> HIDE DEF back
    <2> QED BY <1>1, <1>5, FoundLinks
  <1>7. ASSUME NEW f \in LinksFrom(s, T), e.from = f.from, e.to = f.to
        PROVE  e = f
    <2>1. PICK k \in T, l \in Usable(s) :
            /\ l > k
            /\ \/ f = Link(k, l, WalkSeconds(s, k, l))
               \/ f = Link(l, k, WalkSeconds(s, k, l))
      BY FoundLinks
    <2>2. (f.from = k /\ f.to = l) \/ (f.from = l /\ f.to = k)
      BY <2>1, LinkFields
    <2>3. k \in Nat /\ l \in Nat
      BY UsableFacts
    <2>4. k = i /\ l = j
      BY <1>1, <1>2, <1>3, <1>7, <2>1, <2>2, <2>3
    <2>5. (e = Link(i, j, t) /\ e.from = i) \/ (e = Link(j, i, t) /\ e.from = j)
      BY <1>1, LinkFields
    <2>6. (f = Link(i, j, t) /\ f.from = i) \/ (f = Link(j, i, t) /\ f.from = j)
      BY <2>1, <2>4, LinkFields
    <2> QED BY <1>1, <1>3, <1>7, <2>5, <2>6
  <1> QED BY <1>4, <1>6, <1>7

-----------------------------------------------------------------------------
(***************************************************************************)
(* The inductive invariant: what each loop has done so far.                *)
(***************************************************************************)
Unusable(s) == s.stops \ Usable(s)

(* The stops with coordinates in the area that this loop has visited.      *)
Visited == Usable(survey) \ rest

Filtered ==
  /\ valid = Visited
  /\ skipped = Cardinality(Unusable(survey) \ rest)

Bucketed(visited) == \A c : Stored(grid, c) = {i \in visited : CellOf(survey, i) = c}

Scanned(visited) == paths = SetToBag(LinksFrom(survey, visited))

FootpathsIInv ==
  /\ survey \in Surveys
  /\ step \in {"filter", "bucket", "scan", "done"}
  /\ rest \subseteq (IF step = "filter" THEN survey.stops ELSE Usable(survey))
  /\ step = "filter" => Filtered
  /\ step # "filter" => valid = Usable(survey) /\ skipped = Cardinality(Unusable(survey))
  /\ step = "filter" => grid = << >>
  /\ step = "bucket" => Bucketed(Visited)
  /\ step \in {"scan", "done"} => Bucketed(Usable(survey))
  /\ step \in {"filter", "bucket"} => Scanned({})
  /\ step = "scan" => Scanned(Visited)
  /\ step = "done" => Scanned(Usable(survey))

LEMMA EmptyBagOfLinks == EmptyBag = SetToBag(LinksFrom(survey, {}))
  <1>1. LinksFrom(survey, {}) = {}
    BY DEF LinksFrom
  <1> QED BY <1>1 DEF EmptyBag, SetToBag

LEMMA FootpathsInit ==
  ASSUME GenerateInit
  PROVE  FootpathsIInv
  <1>1. Usable(survey) \subseteq survey.stops
    BY DEF Usable
  <1>2. Visited = {} /\ Unusable(survey) \ rest = {}
    BY <1>1 DEF GenerateInit, Visited, Unusable
  <1>3. Filtered
    BY <1>2, FS_EmptySet DEF GenerateInit, Filtered
  <1>4. Scanned({})
    BY EmptyBagOfLinks DEF GenerateInit, Scanned
  <1> QED BY <1>3, <1>4 DEF GenerateInit, FootpathsIInv

LEMMA FilterStopKeeps ==
  ASSUME FootpathsIInv, NEW i \in rest, FilterStop(i)
  PROVE  FootpathsIInv'
  <1>1. /\ survey' = survey /\ survey \in Surveys /\ step = "filter" /\ step' = "filter"
        /\ rest \subseteq survey.stops /\ rest' = rest \ {i} /\ i \in survey.stops
        /\ grid' = << >> /\ paths' = paths
        /\ Filtered /\ Scanned({})
    BY DEF FootpathsIInv, FilterStop, Visit
  <1>2. IsFiniteSet(survey.stops)
    BY <1>1, SurveysAssumption
  <1>3. IsFiniteSet(Unusable(survey) \ rest) /\ i \notin Unusable(survey) \ rest
    BY <1>2, FS_Subset DEF Unusable
  <1>4. Filtered'
    <2>1. CASE InServiceArea(survey, i)
      <3>1. i \in Usable(survey)
        BY <1>1, <2>1 DEF Usable
      <3>2. valid' = valid \cup {i} /\ skipped' = skipped
        BY <2>1 DEF FilterStop
      <3>3. Usable(survey) \ rest' = (Usable(survey) \ rest) \cup {i}
        BY <3>1, <1>1
      <3>4. Unusable(survey) \ rest' = Unusable(survey) \ rest
        BY <3>1, <1>1 DEF Unusable
      <3> QED BY <1>1, <3>2, <3>3, <3>4 DEF Filtered, Visited
    <2>2. CASE ~InServiceArea(survey, i)
      <3>1. i \in Unusable(survey) /\ i \notin Usable(survey)
        BY <1>1, <2>2 DEF Usable, Unusable
      <3>2. valid' = valid /\ skipped' = skipped + 1
        BY <2>2 DEF FilterStop
      <3>3. Usable(survey) \ rest' = Usable(survey) \ rest
        BY <3>1, <1>1
      <3>4. Unusable(survey) \ rest' = (Unusable(survey) \ rest) \cup {i}
        BY <3>1, <1>1
      <3>5. Cardinality(Unusable(survey) \ rest') = Cardinality(Unusable(survey) \ rest) + 1
        BY <1>3, <3>4, FS_AddElement
      <3> QED BY <1>1, <3>2, <3>3, <3>5 DEF Filtered, Visited
    <2> QED BY <2>1, <2>2
  <1>5. Scanned({})'
    BY <1>1 DEF Scanned
  <1> QED BY <1>1, <1>4, <1>5 DEF FootpathsIInv

LEMMA BucketStopKeeps ==
  ASSUME FootpathsIInv, NEW i \in rest, BucketStop(i)
  PROVE  FootpathsIInv'
  <1> DEFINE c == CellOf(survey, i)
  <1>1. /\ survey' = survey /\ survey \in Surveys /\ step = "bucket" /\ step' = "bucket"
        /\ rest \subseteq Usable(survey) /\ rest' = rest \ {i} /\ i \in Usable(survey)
        /\ valid' = valid /\ skipped' = skipped /\ paths' = paths
        /\ valid = Usable(survey) /\ skipped = Cardinality(Unusable(survey))
        /\ Bucketed(Visited) /\ Scanned({})
    BY DEF FootpathsIInv, BucketStop, Visit
  <1>2. grid' = [d \in DOMAIN grid \cup {c} |-> IF d = c THEN Stored(grid, c) \cup {i} ELSE grid[d]]
    BY DEF BucketStop
  <1>3. Visited' = Visited \cup {i}
    BY <1>1 DEF Visited
  <1> HIDE DEF c
  <1>4. \A d : Stored(grid', d) = IF d = c THEN Stored(grid, d) \cup {i} ELSE Stored(grid, d)
    BY <1>2 DEF Stored
  <1>5. Bucketed(Visited)'
    <2> SUFFICES ASSUME NEW d
                 PROVE  Stored(grid', d) = {j \in Visited' : CellOf(survey', j) = d}
      BY DEF Bucketed
    <2>1. Stored(grid, d) = {j \in Visited : CellOf(survey, j) = d}
      BY <1>1 DEF Bucketed
    <2>2. {j \in Visited \cup {i} : CellOf(survey, j) = d} =
            {j \in Visited : CellOf(survey, j) = d} \cup (IF d = c THEN {i} ELSE {})
      BY DEF c
    <2> QED BY <1>1, <1>3, <1>4, <2>1, <2>2
  <1>6. Scanned({})'
    BY <1>1 DEF Scanned
  <1> QED BY <1>1, <1>5, <1>6 DEF FootpathsIInv

(* The nine cells hold every stop the comparison of all pairs would find.  *)
LEMMA LinksAreFound ==
  ASSUME survey \in Surveys, Bucketed(Usable(survey)), NEW i \in Usable(survey)
  PROVE  LinksOf(i) = LowerLinks(survey, i)
  <1>1. ASSUME NEW j \in Nearby(i)
        PROVE  j \in Usable(survey)
    BY DEF Nearby, Bucketed
  <1>2. ASSUME NEW j \in Usable(survey), Within(survey, i, j)
        PROVE  j \in Nearby(i)
    <2>1. CellOf(survey, j) \in Neighbourhood(CellOf(survey, i))
      BY <1>2, CellsAdjoin
    <2>2. j \in Stored(grid, CellOf(survey, j))
      BY DEF Bucketed
    <2> QED BY <2>1, <2>2 DEF Nearby
  <1>3. {j \in Nearby(i) : j > i /\ Within(survey, i, j)}
          = {j \in Usable(survey) : j > i /\ Within(survey, i, j)}
    BY <1>1, <1>2
  <1> QED BY <1>3 DEF LinksOf, LowerLinks

LEMMA ScanAroundKeeps ==
  ASSUME FootpathsIInv, NEW i \in rest, ScanAround(i)
  PROVE  FootpathsIInv'
  <1>1. /\ survey' = survey /\ survey \in Surveys /\ step = "scan" /\ step' = "scan"
        /\ rest \subseteq Usable(survey) /\ rest' = rest \ {i} /\ i \in Usable(survey)
        /\ valid' = valid /\ skipped' = skipped /\ grid' = grid
        /\ valid = Usable(survey) /\ skipped = Cardinality(Unusable(survey))
        /\ Bucketed(Usable(survey)) /\ Scanned(Visited)
        /\ paths' = paths (+) SetToBag(LinksOf(i))
    BY DEF FootpathsIInv, ScanAround, Visit
  <1>2. Visited' = Visited \cup {i} /\ i \notin Visited /\ Visited \subseteq Usable(survey)
    BY <1>1 DEF Visited
  <1>3. LinksOf(i) = LinksFrom(survey, {i})
    BY <1>1, LinksAreFound, FoundGrows
  <1>4. LinksFrom(survey, Visited) \cap LinksFrom(survey, {i}) = {}
    BY <1>1, <1>2, FoundOnce
  <1>5. paths' = SetToBag(LinksFrom(survey, Visited) \cup LinksFrom(survey, {i}))
    BY <1>1, <1>3, <1>4, BagOfUnion DEF Scanned
  <1>6. Scanned(Visited)'
    BY <1>1, <1>2, <1>5, FoundGrows DEF Scanned
  <1>7. Bucketed(Usable(survey))'
    BY <1>1 DEF Bucketed
  <1> QED BY <1>1, <1>6, <1>7 DEF FootpathsIInv

LEMMA EndLoopKeeps ==
  ASSUME FootpathsIInv, EndLoop
  PROVE  FootpathsIInv'
  <1>1. /\ survey' = survey /\ survey \in Surveys
        /\ valid' = valid /\ skipped' = skipped /\ grid' = grid /\ paths' = paths
        /\ rest = {} /\ rest' = valid /\ step' = NextLoop[step]
        /\ step \in {"filter", "bucket", "scan"}
    BY DEF FootpathsIInv, EndLoop
  <1>2. Visited = Usable(survey)
    BY <1>1 DEF Visited
  <1>3. valid = Usable(survey) /\ skipped = Cardinality(Unusable(survey))
    BY <1>1, <1>2 DEF FootpathsIInv, Filtered
  <1>4. Visited' = {}
    BY <1>1, <1>3 DEF Visited
  <1>5. CASE step = "filter"
    <2>1. step' = "bucket"
      BY <1>1, <1>5 DEF NextLoop
    <2>2. grid' = << >> /\ Scanned({})
      BY <1>1, <1>5 DEF FootpathsIInv
    <2>3. \A d : Stored(grid', d) = {}
      BY <2>2 DEF Stored
    <2>4. Bucketed(Visited)'
      BY <1>4, <2>3 DEF Bucketed
    <2>5. Scanned({})'
      BY <1>1, <2>2 DEF Scanned
    <2> QED BY <1>1, <1>3, <2>1, <2>4, <2>5 DEF FootpathsIInv
  <1>6. CASE step = "bucket"
    <2>1. step' = "scan"
      BY <1>1, <1>6 DEF NextLoop
    <2>2. Bucketed(Usable(survey)) /\ Scanned({})
      BY <1>2, <1>6 DEF FootpathsIInv
    <2>3. Bucketed(Usable(survey))' /\ Scanned(Visited)'
      BY <1>1, <1>4, <2>2 DEF Bucketed, Scanned
    <2> QED BY <1>1, <1>3, <2>1, <2>3 DEF FootpathsIInv
  <1>7. CASE step = "scan"
    <2>1. step' = "done"
      BY <1>1, <1>7 DEF NextLoop
    <2>2. Bucketed(Usable(survey)) /\ Scanned(Usable(survey))
      BY <1>2, <1>7 DEF FootpathsIInv
    <2>3. Bucketed(Usable(survey))' /\ Scanned(Usable(survey))'
      BY <1>1, <2>2 DEF Bucketed, Scanned
    <2> QED BY <1>1, <1>3, <2>1, <2>3 DEF FootpathsIInv
  <1> QED BY <1>1, <1>5, <1>6, <1>7

LEMMA FootpathsStep ==
  ASSUME FootpathsIInv, [GenerateNext]_generateVars
  PROVE  FootpathsIInv'
  <1>1. CASE UNCHANGED generateVars
    BY <1>1 DEF generateVars, FootpathsIInv, Filtered, Bucketed, Scanned, Visited
  <1>2. CASE GenerateNext
    BY <1>2, FilterStopKeeps, BucketStopKeeps, ScanAroundKeeps, EndLoopKeeps DEF GenerateNext
  <1> QED BY <1>1, <1>2

LEMMA FootpathsInvariant == GenerateSpec => []FootpathsIInv
  <1>1. GenerateInit => FootpathsIInv
    BY FootpathsInit
  <1>2. FootpathsIInv /\ [GenerateNext]_generateVars => FootpathsIInv'
    BY FootpathsStep
  <1> QED BY <1>1, <1>2, PTL DEF GenerateSpec

-----------------------------------------------------------------------------
(***************************************************************************)
(* Theorems                                                                *)
(***************************************************************************)
LEMMA FoundExact ==
  ASSUME FootpathsIInv
  PROVE  FootpathsExact
  <1> SUFFICES ASSUME step = "done"
               PROVE  /\ paths = SetToBag(AllPairs(survey))
                      /\ skipped = Cardinality(survey.stops \ Usable(survey))
    BY DEF FootpathsExact
  <1>1. AllPairs(survey) = LinksFrom(survey, Usable(survey))
    BY DEF AllPairs, LinksFrom, LowerLinks
  <1> QED BY <1>1 DEF FootpathsIInv, Scanned, Unusable

LEMMA LinksArePaired ==
  ASSUME FootpathsIInv
  PROVE  LinksPaired
  <1>1. PICK T : T \subseteq Usable(survey) /\ paths = SetToBag(LinksFrom(survey, T))
    <2>1. Visited \subseteq Usable(survey) /\ {} \subseteq Usable(survey)
      BY DEF Visited
    <2>2. Scanned({}) \/ Scanned(Visited) \/ Scanned(Usable(survey))
      BY DEF FootpathsIInv
    <2> QED BY <2>1, <2>2 DEF Scanned
  <1>2. DOMAIN paths = LinksFrom(survey, T) /\ \A e \in DOMAIN paths : paths[e] = 1
    BY <1>1 DEF SetToBag
  <1>3. survey \in Surveys
    BY DEF FootpathsIInv
  <1> QED BY <1>1, <1>2, <1>3, FoundPaired DEF LinksPaired

(* In a service area of any latitudes, with any radius and however many    *)
(* stops, the scan of nine cells finds what a comparison of all pairs      *)
(* would: Generate's grid loses nothing and repeats nothing.               *)
THEOREM GridFindsAllPairs == GenerateSpec => []FootpathsExact
  <1>1. FootpathsIInv => FootpathsExact
    BY FoundExact
  <1> QED BY <1>1, FootpathsInvariant, PTL

(* At any moment every link has its way back, of the same time.            *)
THEOREM LinksComeInPairs == GenerateSpec => []LinksPaired
  <1>1. FootpathsIInv => LinksPaired
    BY LinksArePaired
  <1> QED BY <1>1, FootpathsInvariant, PTL

-----------------------------------------------------------------------------
(***************************************************************************)
(* The inductive invariant.                                                *)
(***************************************************************************)
Started == main \in {"notify", "wait", "shutdown"}

(* How far main has come, what it has made by then, and what it has        *)
(* started.                                                                *)
MainOrder ==
  /\ survey = SurveyOf(deployment.tt)
  /\ main # "load" => deployment.readable
  /\ Started => step = "done"
  /\ listener # "none" => Started
  /\ listener = "closed" => main = "shutdown"
  /\ main = "shutdown" => signalled /\ listener # "serving"
  /\ \A c \in Clients : conn[c] # Off => listener \in {"serving", "closed"}

(* What a shutdown waits for, by the time it has waited.                   *)
Awaited(c) ==
  /\ conn[c].pc = "new" => conn[c].age >= grace
  /\ conn[c].pc = "idle" => grace = 0
  /\ conn[c].pc = "handling" => grace <= HeaderLimit
  /\ conn[c].pc = "writing" => conn[c].age >= grace - HeaderLimit

ShutdownWaits ==
  /\ main # "shutdown" => grace = 0
  /\ \A c \in Clients : Awaited(c)

ServerIInv == TypeOK /\ FootpathsIInv /\ MainOrder /\ ShutdownWaits

-----------------------------------------------------------------------------
LEMMA OffFacts ==
  /\ Off.pc = "off" /\ Off.age = 0
  /\ Grace = 2 /\ HeaderLimit = 1 /\ WriteLimit = 6
  BY DEF Off, Grace, HeaderLimit, WriteLimit

LEMMA ConnFacts ==
  ASSUME TypeOK, NEW c \in Clients
  PROVE  /\ conn[c].pc \in {"off", "new", "idle", "handling", "writing"}
         /\ conn[c].age \in Nat
         /\ conn[c].pc = "off" <=> conn[c] = Off
         /\ conn[c].pc = "new" => conn[c] \in [pc : {"new"}, age : 0..HeaderLimit]
         /\ conn[c].pc = "writing" =>
              conn[c] \in [pc : {"writing"}, age : 0..WriteLimit, ask : deployment.asks[c],
                           reply : {conn[c].reply}]
         /\ conn[c].pc = "handling" =>
              conn[c] \in [pc : {"handling"}, age : {0}, ask : deployment.asks[c]]
  BY OffFacts DEF TypeOK

LEMMA ServerInitHolds ==
  ASSUME ServerInit
  PROVE  ServerIInv
  <1>1. FootpathsIInv
    BY FootpathsInit DEF ServerInit
  <1>2. TypeOK
    <2>1. conn = [c \in Clients |-> Off] /\ grace = 0 /\ grace \in 0..Grace
      BY OffFacts DEF ServerInit
    <2>2. DOMAIN conn = Clients /\ \A c \in Clients : conn[c] = Off
      BY <2>1
    <2>3. /\ deployment \in Deployments /\ main \in MainPc
          /\ listener \in {"none", "starting", "serving", "closed"}
          /\ signalled \in BOOLEAN /\ status \in {Up, Killed, Stopped, Failed}
      BY DEF ServerInit, MainPc
    <2> QED BY <2>1, <2>2, <2>3 DEF TypeOK
  <1>3. MainOrder
    BY DEF ServerInit, MainOrder, Started
  <1>4. ShutdownWaits
    BY OffFacts DEF ServerInit, ShutdownWaits, Awaited
  <1> QED BY <1>1, <1>2, <1>3, <1>4 DEF ServerIInv

(***************************************************************************)
(* Steps of main, which leave the connections alone.                       *)
(***************************************************************************)
LEMMA FootpathsStay ==
  ASSUME FootpathsIInv, UNCHANGED generateVars
  PROVE  FootpathsIInv'
  BY FootpathsStep

LEMMA MainKeeps ==
  ASSUME ServerIInv,
         LoadTimetable \/ Spawn \/ NotifyContext \/ ShutdownDone \/ ShutdownFails
           \/ Signal \/ Listen \/ ListenFails
  PROVE  ServerIInv'
  <1>1. UNCHANGED <<generateVars, deployment, grace, conn>>
    BY DEF LoadTimetable, Spawn, NotifyContext, ShutdownDone, ShutdownFails, Signal, Listen, ListenFails
  <1>2. FootpathsIInv'
    BY <1>1, FootpathsStay DEF ServerIInv
  <1>3. survey' = survey /\ step' = step
    BY <1>1 DEF generateVars
  <1>4. main' = "shutdown" <=> main = "shutdown"
    BY DEF LoadTimetable, Spawn, NotifyContext, ShutdownDone, ShutdownFails, Signal, Listen, ListenFails
  <1>5. TypeOK'
    BY <1>1 DEF ServerIInv, TypeOK, MainPc, LoadTimetable, Spawn, NotifyContext, ShutdownDone,
                ShutdownFails, Signal, Listen, ListenFails, Up, Killed, Stopped, Failed
  <1>6. MainOrder'
    BY <1>1, <1>3 DEF ServerIInv, TypeOK, MainPc, MainOrder, Started, LoadTimetable, Spawn, NotifyContext,
                ShutdownDone, ShutdownFails, Signal, Listen, ListenFails
  <1>7. ShutdownWaits'
    BY <1>1, <1>4 DEF ServerIInv, ShutdownWaits, Awaited
  <1> QED BY <1>2, <1>5, <1>6, <1>7 DEF ServerIInv

LEMMA GenerateKeeps ==
  ASSUME ServerIInv, Generate
  PROVE  ServerIInv'
  <1>1. UNCHANGED <<deployment, main, listener, signalled, grace, conn, status>> /\ main = "generate"
    BY DEF Generate, serverVars
  <1>2. FootpathsIInv'
    BY FootpathsStep DEF ServerIInv, Generate
  <1>3. survey' = survey
    BY DEF Generate, GenerateNext, FilterStop, BucketStop, ScanAround, EndLoop, Visit
  <1>4. TypeOK'
    BY <1>1 DEF ServerIInv, TypeOK
  <1>5. MainOrder'
    BY <1>1, <1>3 DEF ServerIInv, MainOrder, Started
  <1>6. ShutdownWaits'
    BY <1>1 DEF ServerIInv, ShutdownWaits, Awaited
  <1> QED BY <1>2, <1>4, <1>5, <1>6 DEF ServerIInv

LEMMA ShutdownKeeps ==
  ASSUME ServerIInv, Shutdown
  PROVE  ServerIInv'
  <1>1. /\ UNCHANGED <<generateVars, deployment, signalled, grace, conn, status>>
        /\ main = "wait" /\ signalled /\ main' = "shutdown"
        /\ listener' = IF listener = "serving" THEN "closed" ELSE listener
    BY DEF Shutdown
  <1>2. FootpathsIInv'
    BY <1>1, FootpathsStay DEF ServerIInv
  <1>3. TypeOK'
    BY <1>1 DEF ServerIInv, TypeOK, MainPc
  <1>4. survey' = survey /\ step' = step
    BY <1>1 DEF generateVars
  <1>5. MainOrder'
    BY <1>1, <1>4 DEF ServerIInv, MainOrder, Started
  <1>6. ShutdownWaits'
    BY <1>1 DEF ServerIInv, ShutdownWaits, Awaited
  <1> QED BY <1>2, <1>3, <1>5, <1>6 DEF ServerIInv

(***************************************************************************)
(* Steps of a connection.                                                  *)
(***************************************************************************)
(* What a connection may become.                                           *)
Allowed(c, state) ==
  /\ \/ state = Off
     \/ state = [pc |-> "new", age |-> 0] /\ listener = "serving"
     \/ state = [pc |-> "idle", age |-> 0] /\ main # "shutdown"
     \/ state \in [pc : {"handling"}, age : {0}, ask : deployment.asks[c]] /\ grace <= HeaderLimit
     \/ state \in [pc : {"writing"}, age : {0}, ask : deployment.asks[c], reply : {state.reply}]
          /\ grace <= HeaderLimit
  /\ state # Off => listener \in {"serving", "closed"}

LEMMA BecomesKeeps ==
  ASSUME ServerIInv, NEW c \in Clients, NEW state, Allowed(c, state), Becomes(c, state)
  PROVE  ServerIInv'
  <1>1. /\ UNCHANGED <<generateVars, deployment, main, listener, signalled, grace, status>>
        /\ conn' = [conn EXCEPT ![c] = state]
        /\ DOMAIN conn = Clients
    BY DEF Becomes, ServerIInv, TypeOK
  <1>2. FootpathsIInv'
    BY <1>1, FootpathsStay DEF ServerIInv
  <1>3. DOMAIN conn' = Clients /\ \A d \in Clients : conn'[d] = IF d = c THEN state ELSE conn[d]
    BY <1>1
  <1>4. TypeOK'
    <2>1. \/ state = Off
          \/ state \in [pc : {"new"}, age : 0..HeaderLimit]
          \/ state \in [pc : {"idle"}, age : {0}]
          \/ state \in [pc : {"handling"}, age : {0}, ask : deployment.asks[c]]
          \/ state \in [pc : {"writing"}, age : 0..WriteLimit, ask : deployment.asks[c],
                        reply : {state.reply}]
      BY OffFacts DEF Allowed
    <2> QED BY <1>1, <1>3, <2>1 DEF ServerIInv, TypeOK
  <1>5. survey' = survey /\ step' = step
    BY <1>1 DEF generateVars
  <1>6. MainOrder'
    BY <1>1, <1>3, <1>5 DEF ServerIInv, MainOrder, Started, Allowed
  <1>7. ShutdownWaits'
    <2>1. grace \in Nat /\ grace' = grace /\ main' = main
      BY <1>1, OffFacts DEF ServerIInv, TypeOK
    <2>2. Awaited(c)'
      <3>1. conn'[c] = state
        BY <1>3
      <3>2. main # "shutdown" => grace = 0
        BY DEF ServerIInv, ShutdownWaits
      <3>3. listener = "serving" => main # "shutdown"
        BY DEF ServerIInv, MainOrder
      <3>4. /\ state.pc = "new" => grace = 0 /\ state.age = 0
            /\ state.pc = "idle" => grace = 0
            /\ state.pc = "handling" => grace <= HeaderLimit
            /\ state.pc = "writing" => grace <= HeaderLimit /\ state.age = 0
        BY <3>2, <3>3, OffFacts DEF Allowed
      <3> QED BY <3>1, <3>4, <2>1, OffFacts DEF Awaited
    <2>3. ASSUME NEW d \in Clients, d # c PROVE Awaited(d)'
      <3>1. conn'[d] = conn[d] /\ Awaited(d)
        BY <1>3, <2>3 DEF ServerIInv, ShutdownWaits
      <3> QED BY <3>1, <2>1 DEF Awaited
    <2> QED BY <2>1, <2>2, <2>3 DEF ServerIInv, ShutdownWaits
  <1> QED BY <1>2, <1>4, <1>6, <1>7 DEF ServerIInv

LEMMA ConnectionKeeps ==
  ASSUME ServerIInv, NEW c \in Clients,
         \/ Accept(c) \/ ReadRequest(c) \/ Handle(c)
         \/ Delivered(c) \/ Hangup(c) \/ TimeOut(c) \/ CloseIdle(c)
  PROVE  ServerIInv'
  <1>1. Awaited(c) /\ grace \in Nat
    BY OffFacts DEF ServerIInv, ShutdownWaits, TypeOK
  <1>2. conn[c].pc # "off" => listener \in {"serving", "closed"}
    BY OffFacts DEF ServerIInv, MainOrder
  <1>3. Allowed(c, Off)
    BY DEF Allowed
  <1>4. CASE Accept(c)
    <2> DEFINE s == [pc |-> "new", age |-> 0]
    <2>1. Becomes(c, s) /\ Allowed(c, s)
      BY <1>4 DEF Accept, Allowed
    <2> HIDE DEF s
    <2> QED BY <2>1, BecomesKeeps
  <1>5. CASE ReadRequest(c)
    <2>1. PICK ask \in deployment.asks[c] : Becomes(c, [pc |-> "handling", age |-> 0, ask |-> ask])
      BY <1>5 DEF ReadRequest
    <2> DEFINE s == [pc |-> "handling", age |-> 0, ask |-> ask]
    <2>2. grace <= HeaderLimit
      <3>1. conn[c].pc = "new" => conn[c].age \in 0..HeaderLimit
        BY ConnFacts DEF ServerIInv
      <3>2. conn[c].pc \in {"new", "idle"}
        BY <1>5 DEF ReadRequest
      <3> QED BY <3>1, <3>2, <1>1, OffFacts DEF Awaited
    <2>3. conn[c].pc # "off"
      BY <1>5 DEF ReadRequest
    <2>4. s \in [pc : {"handling"}, age : {0}, ask : deployment.asks[c]]
      OBVIOUS
    <2>5. Becomes(c, s)
      BY <2>1
    <2> HIDE DEF s
    <2>6. Allowed(c, s)
      BY <1>2, <2>2, <2>3, <2>4 DEF Allowed
    <2> QED BY <2>5, <2>6, BecomesKeeps
  <1>6. CASE Handle(c)
    <2>1. PICK reply : Becomes(c, [pc |-> "writing", age |-> 0, ask |-> conn[c].ask, reply |-> reply])
      BY <1>6 DEF Handle
    <2> DEFINE s == [pc |-> "writing", age |-> 0, ask |-> conn[c].ask, reply |-> reply]
    <2>2. conn[c].pc = "handling"
      BY <1>6 DEF Handle
    <2>3. conn[c].ask \in deployment.asks[c] /\ grace <= HeaderLimit
      BY <1>1, <2>2, ConnFacts DEF ServerIInv, Awaited
    <2>4. s \in [pc : {"writing"}, age : {0}, ask : deployment.asks[c], reply : {s.reply}]
      BY <2>3
    <2>5. Becomes(c, s)
      BY <2>1
    <2> HIDE DEF s
    <2>6. Allowed(c, s)
      BY <1>2, <2>2, <2>3, <2>4 DEF Allowed
    <2> QED BY <2>5, <2>6, BecomesKeeps
  <1>7. CASE Delivered(c)
    <2> DEFINE s == IF main = "shutdown" THEN Off ELSE [pc |-> "idle", age |-> 0]
    <2>1. Becomes(c, s) /\ conn[c].pc = "writing"
      BY <1>7 DEF Delivered
    <2>2. Allowed(c, s)
      BY <1>2, <2>1 DEF Allowed
    <2> HIDE DEF s
    <2> QED BY <2>1, <2>2, BecomesKeeps
  <1>8. CASE Hangup(c) \/ TimeOut(c) \/ CloseIdle(c)
    <2>1. Becomes(c, Off)
      BY <1>8 DEF Hangup, TimeOut, CloseIdle
    <2> QED BY <1>3, <2>1, BecomesKeeps
  <1> QED BY <1>4, <1>5, <1>6, <1>7, <1>8

(***************************************************************************)
(* Time.                                                                   *)
(***************************************************************************)
LEMMA TickKeeps ==
  ASSUME ServerIInv, Tick
  PROVE  ServerIInv'
  <1> USE OffFacts
  <1>1. /\ UNCHANGED <<generateVars, deployment, main, listener, signalled, status>>
        /\ \A c \in Clients : ~Due(c)
        /\ main = "shutdown" => grace < Grace
        /\ grace' = IF main = "shutdown" THEN grace + 1 ELSE grace
        /\ conn' = [c \in Clients |-> IF conn[c].pc \in {"new", "writing"}
                                      THEN [conn[c] EXCEPT !.age = @ + 1] ELSE conn[c]]
    BY DEF Tick
  <1>2. FootpathsIInv'
    BY <1>1, FootpathsStay DEF ServerIInv
  <1>3. grace \in Nat /\ grace' \in 0..Grace
    BY <1>1 DEF ServerIInv, TypeOK
  <1>4. ASSUME NEW c \in Clients
        PROVE  /\ \/ conn'[c] = conn[c] /\ conn[c].pc \in {"off", "idle"}
                       /\ (conn[c].pc = "idle" => main # "shutdown")
                  \/ conn'[c] \in [pc : {"new"}, age : 0..HeaderLimit]
                       /\ conn[c].pc = "new" /\ conn'[c].age = conn[c].age + 1
                  \/ conn'[c] \in [pc : {"writing"}, age : 0..WriteLimit, ask : deployment.asks[c],
                                   reply : {conn'[c].reply}]
                       /\ conn[c].pc = "writing" /\ conn'[c].age = conn[c].age + 1
    <2>1. ~Due(c)
      BY <1>1
    <2>2. CASE conn[c].pc = "new"
      <3>1. conn[c] \in [pc : {"new"}, age : 0..HeaderLimit] /\ conn[c].age < HeaderLimit
        BY <2>1, <2>2, ConnFacts DEF ServerIInv, Due
      <3>2. conn'[c] = [conn[c] EXCEPT !.age = @ + 1]
        BY <1>1, <2>2
      <3>3. conn'[c] \in [pc : {"new"}, age : 0..HeaderLimit] /\ conn'[c].age = conn[c].age + 1
        BY <3>1, <3>2
      <3> QED BY <2>2, <3>3
    <2>3. CASE conn[c].pc = "writing"
      <3>1. /\ conn[c] \in [pc : {"writing"}, age : 0..WriteLimit, ask : deployment.asks[c],
                            reply : {conn[c].reply}]
            /\ conn[c].age < WriteLimit
        BY <2>1, <2>3, ConnFacts DEF ServerIInv, Due
      <3>2. conn'[c] = [conn[c] EXCEPT !.age = @ + 1]
        BY <1>1, <2>3
      <3>3. conn'[c].age = conn[c].age + 1 /\ conn'[c].reply = conn[c].reply
        BY <3>1, <3>2
      <3>4. conn'[c] \in [pc : {"writing"}, age : 0..WriteLimit, ask : deployment.asks[c],
                          reply : {conn[c].reply}]
        BY <3>1, <3>2
      <3> QED BY <2>3, <3>3, <3>4
    <2>4. CASE conn[c].pc \notin {"new", "writing"}
      <3>1. conn'[c] = conn[c]
        BY <1>1, <2>4
      <3>2. conn[c].pc \in {"off", "idle"}
        BY <2>1, <2>4, ConnFacts DEF ServerIInv, Due
      <3> QED BY <2>1, <3>1, <3>2 DEF Due
    <2> QED BY <2>2, <2>3, <2>4
  <1>5. TypeOK'
    <2>1. DOMAIN conn' = Clients
      BY <1>1
    <2>2. ASSUME NEW c \in Clients
          PROVE  \/ conn'[c] = Off
                 \/ conn'[c] \in [pc : {"new"}, age : 0..HeaderLimit]
                 \/ conn'[c] \in [pc : {"idle"}, age : {0}]
                 \/ conn'[c] \in [pc : {"writing"}, age : 0..WriteLimit, ask : deployment.asks[c],
                                  reply : {conn'[c].reply}]
      BY <1>4 DEF ServerIInv, TypeOK
    <2> QED BY <1>1, <1>3, <2>1, <2>2 DEF ServerIInv, TypeOK
  <1>6. survey' = survey /\ step' = step
    BY <1>1 DEF generateVars
  <1>7. MainOrder'
    <2>1. ASSUME NEW c \in Clients, conn'[c] # Off PROVE conn[c] # Off
      BY <1>4, <2>1
    <2> QED BY <1>1, <1>6, <2>1 DEF ServerIInv, MainOrder, Started
  <1>8. ShutdownWaits'
    <2>1. ASSUME NEW c \in Clients PROVE Awaited(c)'
      <3>1. Awaited(c) /\ (main # "shutdown" => grace = 0)
        BY DEF ServerIInv, ShutdownWaits
      <3>2. conn[c].age \in Nat
        BY ConnFacts DEF ServerIInv
      <3>3. CASE conn'[c] = conn[c] /\ conn[c].pc \in {"off", "idle"} /\ (conn[c].pc = "idle" => main # "shutdown")
        BY <1>1, <3>1, <3>3 DEF Awaited
      <3>4. CASE conn'[c].pc = "new" /\ conn[c].pc = "new" /\ conn'[c].age = conn[c].age + 1
        BY <1>1, <1>3, <3>1, <3>2, <3>4 DEF Awaited
      <3>5. CASE conn'[c].pc = "writing" /\ conn[c].pc = "writing" /\ conn'[c].age = conn[c].age + 1
        BY <1>1, <1>3, <3>1, <3>2, <3>5 DEF Awaited
      <3> QED BY <1>4, <3>3, <3>4, <3>5
    <2> QED BY <1>1, <2>1 DEF ServerIInv, ShutdownWaits
  <1> QED BY <1>2, <1>5, <1>7, <1>8 DEF ServerIInv

LEMMA ServerStep ==
  ASSUME ServerIInv, [Next]_vars
  PROVE  ServerIInv'
  <1>1. CASE UNCHANGED vars
    <2>1. UNCHANGED generateVars /\ UNCHANGED <<deployment, main, listener, signalled, grace, conn, status>>
      BY <1>1 DEF vars, serverVars
    <2>2. FootpathsIInv'
      BY <2>1, FootpathsStay DEF ServerIInv
    <2>3. survey' = survey /\ step' = step
      BY <2>1 DEF generateVars
    <2> QED BY <2>1, <2>2, <2>3 DEF ServerIInv, TypeOK, MainOrder, Started, ShutdownWaits, Awaited
  <1>2. CASE Next
    BY <1>2, MainKeeps, GenerateKeeps, ShutdownKeeps, TickKeeps, ConnectionKeeps DEF Next, Main
  <1> QED BY <1>1, <1>2

LEMMA ServerInvariant == Spec => []ServerIInv
  <1>1. ServerInit => ServerIInv
    BY ServerInitHolds
  <1>2. ServerIInv /\ [Next]_vars => ServerIInv'
    BY ServerStep
  <1> QED BY <1>1, <1>2, PTL DEF Spec

-----------------------------------------------------------------------------
(***************************************************************************)
(* Theorems                                                                *)
(***************************************************************************)
(* Every variable keeps its type, and no timer runs past its timeout.      *)
THEOREM ServerKeepsTypes == Spec => []TypeOK
  <1>1. ServerIInv => TypeOK
    BY DEF ServerIInv
  <1> QED BY <1>1, ServerInvariant, PTL

(* Whatever the coordinates of the timetable and however many stops it     *)
(* has, no connection is accepted before all its footpaths are there.      *)
THEOREM NobodyIsServedEarly == Spec => []ServesWhenReady
  <1>1. ServerIInv => ServesWhenReady
    <2> SUFFICES ASSUME ServerIInv, NEW c \in Clients, conn[c].pc # "off"
                 PROVE  /\ deployment.readable
                        /\ step = "done"
                        /\ paths = SetToBag(AllPairs(SurveyOf(deployment.tt)))
      BY DEF ServesWhenReady
    <2>1. step = "done" /\ deployment.readable /\ survey = SurveyOf(deployment.tt)
      BY OffFacts DEF ServerIInv, MainOrder, Started
    <2>2. FootpathsExact
      BY FoundExact DEF ServerIInv
    <2> QED BY <2>1, <2>2 DEF FootpathsExact
  <1> QED BY <1>1, ServerInvariant, PTL

(* However many clients there are and whatever they do, a shutdown cuts    *)
(* off only calls whose client has not taken the answer for five seconds.  *)
THEOREM ShutdownSparesCalls == Spec => OnlySlowReadersCut
  <1> DEFINE Cut == status = Up /\ status' # Up /\ main = "shutdown"
             Slow(c) == conn[c].pc = "writing" /\ conn[c].age >= Grace - HeaderLimit
  <1>1. ServerIInv /\ [Next]_vars => [Cut => \A c \in Clients : InFlight(c) => Slow(c)]_vars
    <2> SUFFICES ASSUME ServerIInv, Next, Cut, NEW c \in Clients, InFlight(c)
                 PROVE  Slow(c)
      OBVIOUS
    <2>1. main = "shutdown" /\ signalled /\ listener # "serving"
      BY DEF ServerIInv, MainOrder
    <2>2. Awaited(c) /\ grace \in Nat
      BY OffFacts DEF ServerIInv, ShutdownWaits, TypeOK
    <2>3. conn[c].pc \in {"handling", "writing"} /\ listener = "closed"
      BY <2>1, OffFacts DEF InFlight, ServerIInv, MainOrder
    <2>4. ShutdownDone \/ ShutdownFails
      BY <2>1, <2>3 DEF Next, Main, LoadTimetable, Generate, serverVars, Spawn, NotifyContext, Shutdown,
                 Signal, Listen, ListenFails, Tick, Accept, ReadRequest, Handle, Delivered, Hangup,
                 TimeOut, CloseIdle, Becomes
    <2>5. ShutdownFails
      BY <2>3, <2>4 DEF ShutdownDone
    <2>6. grace >= 2
      BY <2>5, OffFacts DEF ShutdownFails
    <2>7. conn[c].age \in Nat
      BY ConnFacts DEF ServerIInv
    <2> QED BY <2>2, <2>3, <2>6, <2>7, OffFacts DEF Awaited
  <1> QED BY <1>1, ServerInvariant, PTL DEF Spec, OnlySlowReadersCut

-----------------------------------------------------------------------------
(***************************************************************************)
(* What cmd/route and the API say of the same question.                    *)
(***************************************************************************)
LEMMA ResolveBlank ==
  ASSUME NEW tt, NEW text, TrimSpace(text) = <<>>
  PROVE  Resolve(tt, text).err # "none"
  BY DEF Resolve, Unresolved

LEMMA TrimEmpty == TrimSpace(<<>>) = <<>>
  BY DEF TrimSpace

LEMMA ErrorFacts ==
  ASSUME NEW code, NEW what, NEW candidates
  PROVE  Error(code, what, candidates).status = code
  BY DEF Error

LEMMA ResolveErrorFails ==
  ASSUME NEW tt, NEW param, NEW r
  PROVE  ResolveError(tt, param, r).status \in {400, 404}
  BY DEF ResolveError, Error

(* The clock of the API and the planner's with its mark name one second,   *)
(* before midnight of the first day, after it, or before its start.        *)
LEMMA ClocksAgree ==
  ASSUME NEW sec \in Int
  PROVE  LET p == PlannerClock(sec)
         IN  Seconds(p.clock) + (IF p.plus1d THEN DaySeconds ELSE 0) = Seconds(ClockOf(sec))
  <1>1. CASE sec >= 0
    <2>1. sec \in Nat
      BY <1>1
    <2> QED BY <2>1, ClockReadsBack, PlannerReadsBack
  <1>2. CASE sec < 0
    <2>1. NextDay(sec) = FALSE
      BY <1>2 DEF NextDay, DaySeconds
    <2> DEFINE h == -1 * ((-sec) \div 3600)
               m == -1 * (((-sec) % 3600) \div 60)
               s == -1 * ((-sec) % 60)
    <2>2. ClockOf(sec) = <<h, m, s>>
      BY <1>2 DEF ClockOf
    <2>3. h \in Int /\ m \in Int /\ s \in Int
      <3>1. -sec \in Nat
        BY <1>2
      <3>2. /\ (-sec) \div 3600 \in Nat /\ ((-sec) % 3600) \div 60 \in 0..59
            /\ (-sec) % 60 \in 0..59
        BY <3>1, SplitSeconds
      <3> QED BY <3>2
    <2> HIDE DEF h, m, s
    <2>4. Seconds(ClockOf(sec)) \in Int
      BY <2>2, <2>3 DEF Seconds
    <2>5. PlannerClock(sec) = [clock |-> ClockOf(sec), plus1d |-> FALSE]
      BY <2>1 DEF PlannerClock
    <2> QED BY <2>4, <2>5
  <1> QED BY <1>1, <1>2

LEMMA Int32Typed ==
  ASSUME NEW n \in Int
  PROVE  Int32(n) \in Int
  BY ApiAssumption DEF Int32, Narrow

LEMMA JourneyTimes ==
  ASSUME NEW tt, NEW from, NEW to, NEW dep, NEW date, dep \in Int,
         NEW q \in Query(tt, from, to, dep, date), NEW n \in DOMAIN q.journeys
  PROVE  q.journeys[n].departure \in Int /\ q.journeys[n].arrival \in Int
  <1>1. PICK r \in Rides : q = Result(FALSE, <<Ride(from, to, dep, r)>>)
    BY DEF Query, Result
  <1>2. r[1] \in Int /\ r[2] \in Int
    BY ApiAssumption
  <1>3. q.journeys[n] = Ride(from, to, dep, r)
    BY <1>1 DEF Result
  <1>4. dep + r[1] \in Int /\ dep + r[1] + r[2] \in Int
    BY <1>2
  <1> QED BY <1>3, <1>4, Int32Typed DEF Ride

LEMMA RefusalsHeard ==
  /\ \A r : r.status # 200 => ReplyHeard(r) = Refused
  /\ \A p : p.exit # 0 => PlanHeard(p) = Refused
  <1>1. ASSUME NEW r, r.status # 200 PROVE ReplyHeard(r) = Refused
    BY <1>1, Zenon DEF ReplyHeard
  <1>2. ASSUME NEW p, p.exit # 0 PROVE PlanHeard(p) = Refused
    BY <1>2, Zenon DEF PlanHeard
  <1> QED BY <1>1, <1>2

(* The answers of the API and of the planner to one result of the engine   *)
(* read the same.                                                          *)
LEMMA FoundAlike ==
  ASSUME NEW tt, NEW ask, ask.at \in Seq(Int), ParsesAt(ask), ask.at # <<>>, NEW from, NEW to,
         NEW q \in Query(tt, from, to, Int32(Seconds(ask.at)), ask.date), ~q.failed
  PROVE  ReplyHeard(Routed(tt, ask, from, to, q.journeys))
           = PlanHeard([exit |-> 0, options |-> [n \in DOMAIN q.journeys |-> Option(tt, q.journeys[n])]])
  <1> DEFINE reply == Routed(tt, ask, from, to, q.journeys)
             plan  == [exit |-> 0, options |-> [n \in DOMAIN q.journeys |-> Option(tt, q.journeys[n])]]
             time(p) == Seconds(p.clock) + (IF p.plus1d THEN DaySeconds ELSE 0)
             read(j) == [from |-> j.from.name, to |-> j.to.name,
                         departure |-> Seconds(j.departure), arrival |-> Seconds(j.arrival)]
             told(o) == [from |-> o.from, to |-> o.to,
                         departure |-> time(o.departure), arrival |-> time(o.arrival)]
  <1>1. /\ reply.status = 200
        /\ reply.journeys = [n \in DOMAIN q.journeys |-> ToWireJourney(tt, q.journeys[n])]
    BY DEF Routed
  <1>2. ASSUME NEW n \in DOMAIN q.journeys
        PROVE  read(ToWireJourney(tt, q.journeys[n])) = told(Option(tt, q.journeys[n]))
    <2>1. Int32(Seconds(ask.at)) \in Int
      <3>1. Seconds(ask.at) \in Int
        BY DEF ParsesAt, IsTime, Seconds
      <3> QED BY <3>1, Int32Typed
    <2> DEFINE j == q.journeys[n]
    <2>2. j.departure \in Int /\ j.arrival \in Int
      BY <2>1, JourneyTimes
    <2> HIDE DEF j
    <2>3. /\ Option(tt, j).from = StopRef(tt, j.from).name
          /\ Option(tt, j).to = StopRef(tt, j.to).name
          /\ Option(tt, j).departure = PlannerClock(j.departure)
          /\ Option(tt, j).arrival = PlannerClock(j.arrival)
      BY DEF Option
    <2>4. /\ ToWireJourney(tt, j).from = StopRef(tt, j.from)
          /\ ToWireJourney(tt, j).to = StopRef(tt, j.to)
          /\ ToWireJourney(tt, j).departure = ClockOf(j.departure)
          /\ ToWireJourney(tt, j).arrival = ClockOf(j.arrival)
      BY DEF ToWireJourney
    <2>5. /\ time(PlannerClock(j.departure)) = Seconds(ClockOf(j.departure))
          /\ time(PlannerClock(j.arrival)) = Seconds(ClockOf(j.arrival))
      BY <2>2, ClocksAgree
    <2> HIDE DEF time
    <2>6. read(ToWireJourney(tt, j)) = told(Option(tt, j))
      BY <2>3, <2>4, <2>5
    <2> QED BY <2>6 DEF j
  <1>3. ReplyHeard(reply) = Heard(TRUE, [n \in DOMAIN q.journeys |-> read(ToWireJourney(tt, q.journeys[n]))])
    <2>1. ReplyHeard(reply) = Heard(TRUE, [n \in DOMAIN reply.journeys |-> read(reply.journeys[n])])
      BY <1>1, Zenon DEF ReplyHeard
    <2> HIDE DEF reply, read
    <2>2. [n \in DOMAIN reply.journeys |-> read(reply.journeys[n])]
            = [n \in DOMAIN q.journeys |-> read(ToWireJourney(tt, q.journeys[n]))]
      BY <1>1
    <2> QED BY <2>1, <2>2
  <1>4. PlanHeard(plan) = Heard(TRUE, [n \in DOMAIN q.journeys |-> told(Option(tt, q.journeys[n]))])
    BY DEF PlanHeard
  <1> HIDE DEF reply, plan, read, told
  <1>5. [n \in DOMAIN q.journeys |-> read(ToWireJourney(tt, q.journeys[n]))]
          = [n \in DOMAIN q.journeys |-> told(Option(tt, q.journeys[n]))]
    BY <1>2
  <1>6. ReplyHeard(reply) = PlanHeard(plan)
    BY <1>3, <1>4, <1>5
  <1> QED BY <1>6 DEF reply, plan

(* The planner refuses exactly where the API does, and where it does not   *)
(* each has one answer to every result of the engine.                      *)
LEMMA SameAnswers ==
  ASSUME NEW tt, NEW ask, ask.at \in Seq(Int)
  PROVE  {ReplyHeard(r) : r \in RouteReplies(tt, ask)} = {PlanHeard(p) : p \in Plans(tt, ask)}
  <1> DEFINE from == Resolve(tt, ask.from)
             to == Resolve(tt, ask.to)
             found == Query(tt, from.stop, to.stop, Int32(Seconds(ask.at)), ask.date)
             answer(q) == IF q.failed THEN Error(500, "query", <<>>)
                          ELSE Routed(tt, ask, from.stop, to.stop, q.journeys)
             plan(q) == IF q.failed THEN Exits(1)
                        ELSE [exit |-> 0,
                              options |-> [n \in DOMAIN q.journeys |-> Option(tt, q.journeys[n])]]
             missing == \/ ask.from = <<>> \/ ask.to = <<>> \/ ask.at = <<>> \/ ask.date = NoDate
             unknown == from.err # "none" \/ to.err # "none"
  <1>1. Plans(tt, ask) = IF missing THEN {Exits(2)}
                         ELSE IF ~ParsesAt(ask) THEN {Exits(2)}
                         ELSE IF unknown THEN {Exits(2)}
                         ELSE {plan(q) : q \in found}
    BY DEF Plans
  <1>2. RouteReplies(tt, ask) =
          IF MissingParams(ask) # {} THEN {Error(400, p, <<>>) : p \in MissingParams(ask)}
          ELSE IF ~ParsesAt(ask) THEN {Error(400, "at", <<>>)}
          ELSE IF ask.date = Malformed THEN {Error(400, "date", <<>>)}
          ELSE IF from.err # "none" THEN {ResolveError(tt, "from", from)}
          ELSE IF to.err # "none" THEN {ResolveError(tt, "to", to)}
          ELSE {answer(q) : q \in found}
    BY DEF RouteReplies
  <1>3. MissingParams(ask) # {} => missing \/ unknown
    <2>1. TrimSpace(ask.from) = <<>> \/ TrimSpace(ask.to) = <<>> => unknown
      BY ResolveBlank
    <2> QED BY <2>1 DEF MissingParams
  <1>4. MissingParams(ask) = {} => ~missing
    <2>1. MissingParams(ask) = {} =>
            TrimSpace(ask.from) # <<>> /\ TrimSpace(ask.to) # <<>> /\ ask.at # <<>> /\ ask.date # NoDate
      BY DEF MissingParams
    <2> QED BY <2>1, TrimEmpty
  <1>5. /\ PlanHeard(Exits(1)) = Refused /\ PlanHeard(Exits(2)) = Refused
        /\ \A code \in {400, 404, 500} : \A r : r.status = code => ReplyHeard(r) = Refused
    BY RefusalsHeard DEF Exits
  <1>6. \A q \in found : q.failed => plan(q) = Exits(1) /\ PlanHeard(plan(q)) = Refused
    BY <1>5
  <1>7. \A q \in found : q.failed => ReplyHeard(answer(q)) = Refused
    BY <1>5, ErrorFacts
  <1>8. ask.date = Malformed => found = {Result(TRUE, <<>>)} /\ \A q \in found : q.failed
    BY DEF Query, Result
  <1> HIDE DEF from, to, found, answer, plan, missing, unknown
  <1>9. CASE MissingParams(ask) # {} \/ ~ParsesAt(ask) \/ ask.date = Malformed \/ unknown
    <2>1. /\ RouteReplies(tt, ask) # {}
          /\ \A r \in RouteReplies(tt, ask) : r.status \in {400, 404}
      <3>1. CASE MissingParams(ask) # {}
        BY <1>2, <3>1, ErrorFacts
      <3>2. CASE MissingParams(ask) = {} /\ ~ParsesAt(ask)
        BY <1>2, <3>2, ErrorFacts
      <3>3. CASE MissingParams(ask) = {} /\ ParsesAt(ask) /\ ask.date = Malformed
        BY <1>2, <3>3, ErrorFacts
      <3>4. CASE MissingParams(ask) = {} /\ ParsesAt(ask) /\ ask.date # Malformed /\ unknown
        <4>1. \E param, r : RouteReplies(tt, ask) = {ResolveError(tt, param, r)}
          <5>1. RouteReplies(tt, ask) = IF from.err # "none" THEN {ResolveError(tt, "from", from)}
                                        ELSE {ResolveError(tt, "to", to)}
            BY <1>2, <3>4 DEF unknown
          <5> QED BY <5>1
        <4> QED BY <4>1, ResolveErrorFails
      <3> QED BY <1>9, <3>1, <3>2, <3>3, <3>4
    <2>2. {ReplyHeard(r) : r \in RouteReplies(tt, ask)} = {Refused}
      BY <1>5, <2>1
    <2>3. \/ Plans(tt, ask) = {Exits(2)}
          \/ ask.date = Malformed /\ Plans(tt, ask) = {plan(q) : q \in found}
      BY <1>1, <1>3, <1>9
    <2>4. {PlanHeard(p) : p \in Plans(tt, ask)} = {Refused}
      BY <1>5, <1>6, <1>8, <2>3
    <2> QED BY <2>2, <2>4
  <1>10. CASE MissingParams(ask) = {} /\ ParsesAt(ask) /\ ask.date # Malformed /\ ~unknown
    <2>1. RouteReplies(tt, ask) = {answer(q) : q \in found}
      BY <1>2, <1>10 DEF unknown
    <2>2. Plans(tt, ask) = {plan(q) : q \in found} /\ ask.at # <<>>
      BY <1>1, <1>4, <1>10 DEF missing
    <2>3. ASSUME NEW q \in found
          PROVE  ReplyHeard(answer(q)) = PlanHeard(plan(q))
      <3>1. CASE q.failed
        BY <1>6, <1>7, <3>1
      <3>2. CASE ~q.failed
        <4>1. /\ answer(q) = Routed(tt, ask, from.stop, to.stop, q.journeys)
              /\ plan(q) = [exit |-> 0,
                            options |-> [n \in DOMAIN q.journeys |-> Option(tt, q.journeys[n])]]
          BY <3>2 DEF answer, plan
        <4>2. q \in Query(tt, from.stop, to.stop, Int32(Seconds(ask.at)), ask.date)
          BY DEF found
        <4>3. ReplyHeard(Routed(tt, ask, from.stop, to.stop, q.journeys))
                = PlanHeard([exit |-> 0, options |-> [n \in DOMAIN q.journeys |-> Option(tt, q.journeys[n])]])
          BY <1>10, <2>2, <3>2, <4>2, FoundAlike
        <4> QED BY <4>1, <4>3
      <3> QED BY <3>1, <3>2
    <2> QED BY <2>1, <2>2, <2>3
  <1> QED BY <1>9, <1>10

(* A reply being written is one the handler may give to the request it was *)
(* made for: nothing changes it, or the timetable, in between.             *)
ReplyMade(c) ==
  /\ conn[c].pc # "off" => c \in DOMAIN deployment.asks
  /\ conn[c].pc = "writing" => conn[c].reply \in Replies(deployment.tt, conn[c].ask)

RepliesMade == \A c \in Clients : ReplyMade(c)

LEMMA BecomesMade ==
  ASSUME ServerIInv, RepliesMade, NEW c \in Clients, NEW state, Becomes(c, state),
         state.pc # "off" => c \in DOMAIN deployment.asks,
         state.pc = "writing" => state.reply \in Replies(deployment.tt, state.ask)
  PROVE  RepliesMade'
  <1>1. deployment' = deployment /\ conn' = [conn EXCEPT ![c] = state] /\ DOMAIN conn = Clients
    BY DEF Becomes, ServerIInv, TypeOK
  <1> QED BY <1>1 DEF RepliesMade, ReplyMade

LEMMA MadeStep ==
  ASSUME ServerIInv, RepliesMade, [Next]_vars
  PROVE  RepliesMade'
  <1>1. ASSUME UNCHANGED <<deployment, conn>> PROVE RepliesMade'
    BY <1>1 DEF RepliesMade, ReplyMade
  <1>2. ASSUME NEW c \in Clients, Accept(c) PROVE RepliesMade'
    <2> DEFINE s == [pc |-> "new", age |-> 0]
    <2>1. Becomes(c, s) /\ s.pc = "new" /\ c \in DOMAIN deployment.asks
      BY <1>2 DEF Accept
    <2> HIDE DEF s
    <2> QED BY <2>1, BecomesMade
  <1>3. ASSUME NEW c \in Clients, ReadRequest(c) PROVE RepliesMade'
    <2>1. PICK ask \in deployment.asks[c] : Becomes(c, [pc |-> "handling", age |-> 0, ask |-> ask])
      BY <1>3 DEF ReadRequest
    <2> DEFINE s == [pc |-> "handling", age |-> 0, ask |-> ask]
    <2>2. s.pc = "handling" /\ Becomes(c, s)
      BY <2>1
    <2>3. c \in DOMAIN deployment.asks
      BY <1>3 DEF ReadRequest, RepliesMade, ReplyMade
    <2> HIDE DEF s
    <2> QED BY <2>2, <2>3, BecomesMade
  <1>4. ASSUME NEW c \in Clients, Handle(c) PROVE RepliesMade'
    <2>1. PICK reply \in Replies(deployment.tt, conn[c].ask) :
            Becomes(c, [pc |-> "writing", age |-> 0, ask |-> conn[c].ask, reply |-> reply])
      BY <1>4 DEF Handle
    <2> DEFINE s == [pc |-> "writing", age |-> 0, ask |-> conn[c].ask, reply |-> reply]
    <2>2. s.ask = conn[c].ask /\ s.reply = reply /\ Becomes(c, s)
      BY <2>1
    <2>3. c \in DOMAIN deployment.asks
      BY <1>4 DEF Handle, RepliesMade, ReplyMade
    <2> HIDE DEF s
    <2> QED BY <2>1, <2>2, <2>3, BecomesMade
  <1>5. ASSUME NEW c \in Clients, Delivered(c) PROVE RepliesMade'
    <2> DEFINE s == IF main = "shutdown" THEN Off ELSE [pc |-> "idle", age |-> 0]
    <2>1. Becomes(c, s) /\ s.pc # "writing" /\ c \in DOMAIN deployment.asks
      BY <1>5, OffFacts DEF Delivered, RepliesMade, ReplyMade
    <2> HIDE DEF s
    <2> QED BY <2>1, BecomesMade
  <1>6. ASSUME NEW c \in Clients, Hangup(c) \/ TimeOut(c) \/ CloseIdle(c) PROVE RepliesMade'
    <2>1. Becomes(c, Off)
      BY <1>6 DEF Hangup, TimeOut, CloseIdle
    <2> QED BY <2>1, OffFacts, BecomesMade
  <1>7. CASE Tick
    <2>1. deployment' = deployment
      BY <1>7 DEF Tick
    <2>2. ASSUME NEW c \in Clients PROVE ReplyMade(c)'
      <3>1. conn'[c] = IF conn[c].pc \in {"new", "writing"} THEN [conn[c] EXCEPT !.age = @ + 1] ELSE conn[c]
        BY <1>7 DEF Tick
      <3>2. conn'[c].pc = conn[c].pc
        BY <3>1, ConnFacts DEF ServerIInv
      <3>3. conn[c].pc = "writing" => conn'[c].ask = conn[c].ask /\ conn'[c].reply = conn[c].reply
        BY <3>1, ConnFacts DEF ServerIInv
      <3>4. ReplyMade(c)
        BY DEF RepliesMade
      <3> QED BY <2>1, <3>2, <3>3, <3>4 DEF ReplyMade
    <2> QED BY <2>2 DEF RepliesMade
  <1>8. CASE \/ LoadTimetable \/ Generate \/ Spawn \/ NotifyContext \/ Shutdown \/ ShutdownDone
             \/ ShutdownFails \/ Signal \/ Listen \/ ListenFails \/ UNCHANGED vars
    BY <1>1, <1>8 DEF LoadTimetable, Generate, Spawn, NotifyContext, Shutdown, ShutdownDone,
                      ShutdownFails, Signal, Listen, ListenFails, vars, serverVars
  <1> QED BY <1>2, <1>3, <1>4, <1>5, <1>6, <1>7, <1>8 DEF Next, Main

LEMMA RepliesAlwaysMade == Spec => []RepliesMade
  <1>1. ServerInit => RepliesMade
    BY OffFacts DEF ServerInit, RepliesMade, ReplyMade
  <1> QED BY <1>1, MadeStep, ServerInvariant, PTL DEF Spec

(* Whatever text, time and date they are asked with, of whatever timetable *)
(* and footpaths, cmd/route and the API have the same answers to give:     *)
(* both refuse, or the stops and the seconds of the journeys are the same. *)
THEOREM PlannerAlwaysAgrees == Spec => []PlannerAgrees
  <1>1. ServerIInv /\ RepliesMade => PlannerAgrees
    <2> SUFFICES ASSUME ServerIInv, RepliesMade, NEW c \in Clients,
                        conn[c].pc = "writing", conn[c].ask.kind = "route"
                 PROVE  SamePlan(deployment.tt, conn[c].ask, conn[c].reply)
      BY DEF PlannerAgrees
    <2>1. c \in DOMAIN deployment.asks /\ conn[c].reply \in Replies(deployment.tt, conn[c].ask)
      BY DEF RepliesMade, ReplyMade
    <2>2. conn[c].reply \in RouteReplies(deployment.tt, conn[c].ask)
      BY <2>1 DEF Replies
    <2>3. deployment \in Deployments /\ conn[c].ask \in deployment.asks[c]
      BY ConnFacts DEF ServerIInv, TypeOK
    <2>4. IsRequest(conn[c].ask)
      BY <2>1, <2>3, DeploymentsAssumption
    <2>5. conn[c].ask.at \in Seq(Int)
      BY <2>4 DEF IsRequest
    <2>6. {ReplyHeard(r) : r \in RouteReplies(deployment.tt, conn[c].ask)}
            = {PlanHeard(p) : p \in Plans(deployment.tt, conn[c].ask)}
      BY <2>5, SameAnswers
    <2>7. RouteReplies(deployment.tt, conn[c].ask) \cup {conn[c].reply}
            = RouteReplies(deployment.tt, conn[c].ask)
      BY <2>2
    <2> QED BY <2>6, <2>7 DEF SamePlan
  <1> QED BY <1>1, RepliesAlwaysMade, ServerInvariant, PTL

-----------------------------------------------------------------------------
(***************************************************************************)
(* The server implements Service.                                          *)
(***************************************************************************)
Dialogue == [c \in Clients |-> DialogueOf(c)]

LEMMA DialogueFacts ==
  /\ \A c \in Clients : Dialogue[c] = DialogueOf(c)
  /\ \A c \in Clients : conn[c].pc \notin {"handling", "writing"} => Dialogue[c] = [state |-> "silent"]
  /\ \A c \in Clients : conn[c].pc = "handling" =>
       Dialogue[c] = [state |-> "asked", ask |-> Question(deployment.tt, conn[c].ask)]
  /\ \A c \in Clients : conn[c].pc = "writing" =>
       Dialogue[c] = [state |-> "answered", ask |-> Question(deployment.tt, conn[c].ask), reply |-> conn[c].reply]
  <1>1. \A c \in Clients : Dialogue[c] = DialogueOf(c)
    BY DEF Dialogue
  <1> QED BY <1>1 DEF DialogueOf

LEMMA OneDialogue ==
  ASSUME ServerIInv, NEW c \in Clients, NEW state, Becomes(c, state)
  PROVE  /\ Dialogue' = [Dialogue EXCEPT ![c] = Dialogue'[c]]
         /\ conn'[c] = state /\ deployment' = deployment
  <1>1. deployment' = deployment /\ conn' = [conn EXCEPT ![c] = state] /\ DOMAIN conn = Clients
    BY DEF Becomes, ServerIInv, TypeOK
  <1>2. conn'[c] = state /\ \A d \in Clients : d # c => conn'[d] = conn[d]
    BY <1>1
  <1>3. \A d \in Clients : d # c => DialogueOf(d)' = DialogueOf(d)
    BY <1>1, <1>2 DEF DialogueOf
  <1> QED BY <1>1, <1>2, <1>3 DEF Dialogue

LEMMA DialogueFactsNext ==
  /\ \A c \in Clients : conn'[c].pc \notin {"handling", "writing"} => Dialogue'[c] = [state |-> "silent"]
  /\ \A c \in Clients : conn'[c].pc = "handling" =>
       Dialogue'[c] = [state |-> "asked", ask |-> Question(deployment'.tt, conn'[c].ask)]
  /\ \A c \in Clients : conn'[c].pc = "writing" =>
       Dialogue'[c] = [state |-> "answered", ask |-> Question(deployment'.tt, conn'[c].ask),
                       reply |-> conn'[c].reply]
  <1>1. \A c \in Clients : Dialogue'[c] = DialogueOf(c)'
    BY DEF Dialogue
  <1> QED BY <1>1 DEF DialogueOf, Question

(* A connection that ends up without a call ends a dialogue, or none.      *)
LEMMA SilentStep ==
  ASSUME ServerIInv, NEW c \in Clients, NEW state, Becomes(c, state),
         state.pc \notin {"handling", "writing"}
  PROVE  [Dialogues!Next]_Dialogue
  <1>1. Dialogue' = [Dialogue EXCEPT ![c] = [state |-> "silent"]]
    BY OneDialogue, DialogueFactsNext
  <1>2. CASE Dialogue[c] = [state |-> "silent"]
    <2>1. Dialogue' = Dialogue
      BY <1>1, <1>2 DEF Dialogue
    <2> QED BY <2>1
  <1>3. CASE Dialogue[c] # [state |-> "silent"]
    <2>1. Dialogues!End(c)
      BY <1>1, <1>3 DEF Dialogues!End, Dialogues!Silent, Dialogue
    <2> QED BY <2>1 DEF Dialogues!Next
  <1> QED BY <1>2, <1>3

LEMMA DialogueStep ==
  ASSUME ServerIInv, RepliesMade, [Next]_vars
  PROVE  [Dialogues!Next]_Dialogue
  <1>1. CASE UNCHANGED <<deployment, conn>>
    BY <1>1 DEF Dialogue, DialogueOf
  <1>2. CASE Tick
    <2>1. deployment' = deployment
      BY <1>2 DEF Tick
    <2>2. ASSUME NEW c \in Clients PROVE DialogueOf(c)' = DialogueOf(c)
      <3>1. conn'[c] = IF conn[c].pc \in {"new", "writing"} THEN [conn[c] EXCEPT !.age = @ + 1] ELSE conn[c]
        BY <1>2 DEF Tick
      <3>2. CASE conn[c].pc = "new"
        <4>1. conn'[c].pc = "new"
          BY <3>1, <3>2, ConnFacts DEF ServerIInv
        <4> QED BY <3>2, <4>1 DEF DialogueOf
      <3>3. CASE conn[c].pc = "writing"
        <4>1. conn'[c].pc = "writing" /\ conn'[c].ask = conn[c].ask /\ conn'[c].reply = conn[c].reply
          BY <3>1, <3>3, ConnFacts DEF ServerIInv
        <4> QED BY <2>1, <3>3, <4>1 DEF DialogueOf
      <3>4. CASE conn[c].pc \notin {"new", "writing"}
        <4>1. conn'[c] = conn[c]
          BY <3>1, <3>4
        <4> QED BY <2>1, <4>1 DEF DialogueOf
      <3> QED BY <3>2, <3>3, <3>4
    <2> QED BY <2>2 DEF Dialogue
  <1>3. ASSUME NEW c \in Clients, ReadRequest(c)
        PROVE  [Dialogues!Next]_Dialogue
    <2>1. PICK ask \in deployment.asks[c] : Becomes(c, [pc |-> "handling", age |-> 0, ask |-> ask])
      BY <1>3 DEF ReadRequest
    <2> DEFINE s == [pc |-> "handling", age |-> 0, ask |-> ask]
    <2>2. s.pc = "handling" /\ Becomes(c, s)
      BY <2>1
    <2> HIDE DEF s
    <2>3. Dialogue[c] = [state |-> "silent"]
      BY <1>3, DialogueFacts DEF ReadRequest
    <2> DEFINE q == Question(deployment'.tt, conn'[c].ask)
    <2>4. Dialogue'[c] = [state |-> "asked", ask |-> q] /\ Dialogue' = [Dialogue EXCEPT ![c] = Dialogue'[c]]
      BY <2>2, OneDialogue, DialogueFactsNext
    <2> HIDE DEF q
    <2>5. Dialogues!Accept(c)
      <3>1. /\ Dialogue[c] = [state |-> "silent"]
            /\ Dialogue'[c].state = "asked"
            /\ Dialogue' = [Dialogue EXCEPT ![c] = [state |-> "asked", ask |-> Dialogue'[c].ask]]
        BY <2>3, <2>4
      <3> QED BY <3>1 DEF Dialogues!Accept, Dialogues!Silent, Dialogues!Asked, Dialogue
    <2> QED BY <2>5 DEF Dialogues!Next
  <1>4. ASSUME NEW c \in Clients, Handle(c)
        PROVE  [Dialogues!Next]_Dialogue
    <2>1. PICK reply \in Replies(deployment.tt, conn[c].ask) :
            Becomes(c, [pc |-> "writing", age |-> 0, ask |-> conn[c].ask, reply |-> reply])
      BY <1>4 DEF Handle
    <2> DEFINE s == [pc |-> "writing", age |-> 0, ask |-> conn[c].ask, reply |-> reply]
               q == Question(deployment.tt, conn[c].ask)
    <2>2. s.pc = "writing" /\ s.ask = conn[c].ask /\ s.reply = reply /\ Becomes(c, s)
      BY <2>1
    <2> HIDE DEF s
    <2>3. conn[c].pc = "handling" /\ Dialogue[c] = [state |-> "asked", ask |-> q]
      BY <1>4, DialogueFacts DEF Handle
    <2>4. conn'[c] = s /\ deployment' = deployment /\ Dialogue' = [Dialogue EXCEPT ![c] = Dialogue'[c]]
      BY <2>2, OneDialogue
    <2>5. Dialogue'[c] = [state |-> "answered", ask |-> q, reply |-> reply]
      BY <2>2, <2>4, DialogueFactsNext
    <2>6. /\ deployment \in Deployments /\ conn[c].ask \in deployment.asks[c]
          /\ c \in DOMAIN deployment.asks
      BY <2>3, ConnFacts DEF ServerIInv, TypeOK, RepliesMade, ReplyMade
    <2>7. StopsNamed(deployment.tt) /\ IsRequest(conn[c].ask)
      BY <2>6, DeploymentsAssumption
    <2>8. RightAnswer(deployment.tt, conn[c].ask, reply)
      BY <2>1, <2>7, AnswersAreRight
    <2>9. RightToQuestion(q, reply)
      BY <2>8 DEF RightToQuestion, Question
    <2> HIDE DEF q
    <2>10. Dialogues!Answer(c)
      <3>1. /\ Dialogue[c].state = "asked"
            /\ Dialogue'[c].state = "answered"
            /\ RightToQuestion(Dialogue[c].ask, Dialogue'[c].reply)
            /\ Dialogue' = [Dialogue EXCEPT ![c] =
                 [state |-> "answered", ask |-> Dialogue[c].ask, reply |-> Dialogue'[c].reply]]
        BY <2>3, <2>4, <2>5, <2>9
      <3> QED BY <3>1 DEF Dialogues!Answer, Dialogues!Answered, Dialogue
    <2> QED BY <2>10 DEF Dialogues!Next
  <1>5. ASSUME NEW c \in Clients, Accept(c)
        PROVE  [Dialogues!Next]_Dialogue
    <2> DEFINE s == [pc |-> "new", age |-> 0]
    <2>1. Becomes(c, s) /\ s.pc \notin {"handling", "writing"}
      BY <1>5 DEF Accept
    <2> HIDE DEF s
    <2> QED BY <2>1, SilentStep
  <1>6. ASSUME NEW c \in Clients, Delivered(c)
        PROVE  [Dialogues!Next]_Dialogue
    <2> DEFINE s == IF main = "shutdown" THEN Off ELSE [pc |-> "idle", age |-> 0]
    <2>1. Becomes(c, s) /\ s.pc \notin {"handling", "writing"}
      BY <1>6, OffFacts DEF Delivered
    <2> HIDE DEF s
    <2> QED BY <2>1, SilentStep
  <1>7. ASSUME NEW c \in Clients, Hangup(c) \/ TimeOut(c) \/ CloseIdle(c)
        PROVE  [Dialogues!Next]_Dialogue
    <2>1. Becomes(c, Off) /\ Off.pc \notin {"handling", "writing"}
      BY <1>7, OffFacts DEF Hangup, TimeOut, CloseIdle
    <2> QED BY <2>1, SilentStep
  <1>8. CASE \/ LoadTimetable \/ Generate \/ Spawn \/ NotifyContext \/ Shutdown \/ ShutdownDone
             \/ ShutdownFails \/ Signal \/ Listen \/ ListenFails \/ UNCHANGED vars
    BY <1>1, <1>8 DEF LoadTimetable, Generate, Spawn, NotifyContext, Shutdown, ShutdownDone,
                      ShutdownFails, Signal, Listen, ListenFails, vars, serverVars
  <1> QED BY <1>2, <1>3, <1>4, <1>5, <1>6, <1>7, <1>8 DEF Next, Main

(* Every accepted request is answered once, with a right answer to that    *)
(* request, or lost with its connection, however many calls overlap: an    *)
(* answer is to the request of its own connection, and neither other       *)
(* clients nor a shutdown change it.                                       *)
THEOREM AnswersKeepToTheirRequests == Spec => RepliesRight
  <1>1. ServerInit => Dialogues!Init
    BY OffFacts DEF ServerInit, Dialogues!Init, Dialogues!Silent, DialogueOf
  <1>2. ServerIInv /\ RepliesMade /\ [Next]_vars => [Dialogues!Next]_Dialogue
    BY DialogueStep
  <1>3. ServerIInv /\ RepliesMade /\ [Next]_vars => [Dialogues!Next]_([c \in Clients |-> DialogueOf(c)])
    BY <1>2 DEF Dialogue
  <1> QED BY <1>1, <1>3, ServerInvariant, RepliesAlwaysMade, PTL DEF Spec, RepliesRight, Dialogues!Spec

=============================================================================
