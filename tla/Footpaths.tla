----------------------------- MODULE Footpaths ------------------------------
(***************************************************************************)
(* transfers.Generate: walking links between all stops within MaxMeters of *)
(* each other, found with a grid instead of by comparing all pairs.        *)
(*                                                                         *)
(* Latitudes and longitudes are integers; one step of latitude is a metre. *)
(* Angles of a few hundred metres are taken for their sine, which turns    *)
(* the haversine formula into                                              *)
(*     d^2 = dlat^2 + cos(lat1) cos(lat2) dlon^2                           *)
(* and Cos gives the cosine of a latitude in parts of Unit.                *)
(***************************************************************************)
EXTENDS Integers, FiniteSets, Bags

CONSTANTS
  Surveys,                          \* the coordinates Generate may be called with
  MinLat, MaxLat, MinLon, MaxLon,   \* the service area
  Unit, Cos,
  MaxMeters, WalkSpeed,
  NaN                               \* a coordinate no comparison holds of

Magnitude(x) == IF x < 0 THEN -x ELSE x

ASSUME FootpathsAssumption ==
  /\ MinLat \in Int /\ MaxLat \in Int /\ MinLon \in Int /\ MaxLon \in Int
  /\ MinLat <= MaxLat
  /\ NaN \notin Int
  /\ Unit \in Nat \ {0} /\ MaxMeters \in Nat \ {0} /\ WalkSpeed \in Nat \ {0}
  /\ \A a \in MinLat..MaxLat : Cos[a] \in Nat \ {0}
  /\ \A a, b \in MinLat..MaxLat : Magnitude(a) <= Magnitude(b) => Cos[b] <= Cos[a]

ASSUME SurveysAssumption ==
  \A s \in Surveys :
    /\ s.stops \subseteq Nat /\ IsFiniteSet(s.stops)
    /\ s.lat \in [s.stops -> Int \cup {NaN}]
    /\ s.lon \in [s.stops -> Int \cup {NaN}]

VARIABLES
  survey,    \* the arguments lats and lons
  step,      \* the loop Generate is in
  rest,      \* the stops this loop has still to visit
  valid,     \* stops with usable coordinates
  skipped,
  grid,      \* stops by cell
  paths      \* the footpaths found, a bag: a link could be there twice

generateVars == <<survey, step, rest, valid, skipped, grid, paths>>

-----------------------------------------------------------------------------
InServiceArea(s, i) ==
  /\ s.lat[i] # NaN /\ s.lon[i] # NaN
  /\ s.lat[i] >= MinLat /\ s.lat[i] <= MaxLat
  /\ s.lon[i] >= MinLon /\ s.lon[i] <= MaxLon

Square(x) == x * x

(* The square of the distance in parts of Unit. *)
Haversine(s, i, j) ==
  Square(Unit * (s.lat[i] - s.lat[j]))
    + Cos[s.lat[i]] * Cos[s.lat[j]] * Square(s.lon[i] - s.lon[j])

Within(s, i, j) == Haversine(s, i, j) <= Square(Unit * MaxMeters)

(* The walking time, rounded up. *)
WalkSeconds(s, i, j) ==
  CHOOSE t \in 0..MaxMeters :
    /\ Haversine(s, i, j) <= Square(Unit * WalkSpeed * t)
    /\ t = 0 \/ Haversine(s, i, j) > Square(Unit * WalkSpeed * (t - 1))

(***************************************************************************)
(* Cells span MaxMeters at the most poleward latitude of the area and a    *)
(* margin more, and so at least MaxMeters everywhere.                      *)
(***************************************************************************)
(* Mutant: the cells are measured where they are widest. *)
Equatorward == IF Magnitude(MinLat) < Magnitude(MaxLat) THEN MinLat ELSE MaxLat

Poleward == IF Magnitude(MinLat) < Magnitude(MaxLat) THEN MaxLat ELSE MinLat

CellLat == MaxMeters + 1

CellLon == (MaxMeters * Unit) \div Cos[Poleward] + 1

CellOf(s, i) == <<s.lat[i] \div CellLat, s.lon[i] \div CellLon>>

Stored(g, c) == IF c \in DOMAIN g THEN g[c] ELSE {}

Neighbourhood(c) == {<<c[1] + dr, c[2] + dc>> : dr, dc \in -1..1}

Nearby(i) == UNION {Stored(grid, c) : c \in Neighbourhood(CellOf(survey, i))}

Link(i, j, t) == [from |-> i, to |-> j, seconds |-> t]

Pair(s, i, j) == {Link(i, j, WalkSeconds(s, i, j)), Link(j, i, WalkSeconds(s, i, j))}

(* Mutant: one link of each pair. *)
LinksOneWay(i) ==
  {Link(i, j, WalkSeconds(survey, i, j)) : j \in {j \in Nearby(i) : j > i /\ Within(survey, i, j)}}

(* Each pair is handled once, from its lower side. *)
LinksOf(i) == UNION {Pair(survey, i, j) : j \in {j \in Nearby(i) : j > i /\ Within(survey, i, j)}}

-----------------------------------------------------------------------------
GenerateInit ==
  /\ survey \in Surveys
  /\ step = "filter"
  /\ rest = survey.stops
  /\ valid = {}
  /\ skipped = 0
  /\ grid = << >>
  /\ paths = EmptyBag

(* The loops visit stops in ascending order. *)
Visit(loop, i) ==
  /\ step = loop
  /\ i \in rest /\ \A j \in rest : i <= j
  /\ rest' = rest \ {i}
  /\ UNCHANGED <<survey, step>>

FilterStop(i) ==
  /\ Visit("filter", i)
  /\ IF InServiceArea(survey, i)
     THEN valid' = valid \cup {i} /\ UNCHANGED skipped
     ELSE skipped' = skipped + 1 /\ UNCHANGED valid
  /\ UNCHANGED <<grid, paths>>

BucketStop(i) ==
  LET c == CellOf(survey, i)
  IN  /\ Visit("bucket", i)
      /\ grid' = [d \in DOMAIN grid \cup {c} |->
                    IF d = c THEN Stored(grid, c) \cup {i} ELSE grid[d]]
      /\ UNCHANGED <<valid, skipped, paths>>

ScanAround(i) ==
  /\ Visit("scan", i)
  /\ paths' = paths (+) SetToBag(LinksOf(i))
  /\ UNCHANGED <<valid, skipped, grid>>

NextLoop == [filter |-> "bucket", bucket |-> "scan", scan |-> "done"]

EndLoop ==
  /\ step # "done" /\ rest = {}
  /\ step' = NextLoop[step]
  /\ rest' = valid
  /\ UNCHANGED <<survey, valid, skipped, grid, paths>>

GenerateNext ==
  \/ \E i \in rest : FilterStop(i) \/ BucketStop(i) \/ ScanAround(i)
  \/ EndLoop

GenerateSpec == GenerateInit /\ [][GenerateNext]_generateVars

-----------------------------------------------------------------------------
Usable(s) == {i \in s.stops : InServiceArea(s, i)}

(* What Generate is to find, by comparing all pairs. *)
AllPairs(s) ==
  UNION {UNION {Pair(s, i, j) : j \in {j \in Usable(s) : j > i /\ Within(s, i, j)}} :
         i \in Usable(s)}

(* Generate finds every pair of stops within MaxMeters, and no other, in   *)
(* each direction once, whichever cells the two stops fall in; it skips    *)
(* stops out of the area, as it does those whose coordinate is no number.  *)
FootpathsExact ==
  step = "done" =>
    /\ paths = SetToBag(AllPairs(survey))
    /\ skipped = Cardinality(survey.stops \ Usable(survey))

(* At any moment the links are what raptor.New and Query take them for: a  *)
(* function of the two stops, never of a stop and itself, that has the     *)
(* way back wherever it has the way there, and takes as long.              *)
LinksPaired ==
  \A e \in DOMAIN paths :
    /\ paths[e] = 1
    /\ e.from # e.to
    /\ Link(e.to, e.from, e.seconds) \in DOMAIN paths
    /\ \A f \in DOMAIN paths : e.from = f.from /\ e.to = f.to => e = f

=============================================================================
