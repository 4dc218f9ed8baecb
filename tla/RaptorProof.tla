---------------------------- MODULE RaptorProof ----------------------------
(***************************************************************************)
(* Proofs about raptor.Engine.Query, for every network and every query:    *)
(* the variables keep their types, every journey returned can be ridden    *)
(* and arrives earlier than the one before, and reconstruct never misses a *)
(* parent.  The argument is in RaptorInvariant: both halves of a round     *)
(* only ever improve labels, and an improvement keeps every stop reached   *)
(* that was reached before.                                                *)
(***************************************************************************)
EXTENDS RaptorInvariant, FiniteSetTheorems, WellFoundedInduction, TLAPS

USE DEF Foot

-----------------------------------------------------------------------------
(***************************************************************************)
(* Types.                                                                  *)
(***************************************************************************)
LEMMA RunsType ==
  ASSUME NEW p, PatternOK(p), NEW r \in Runs(p), NEW i \in DOMAIN p.stops
  PROVE  /\ r \in Run
         /\ r.trip # NoTrip
         /\ r.trip \in DOMAIN p.trips
         /\ Departure(p, r, i) \in Int
         /\ Arrival(p, r, i) \in Int
  <1>1. DOMAIN p.stops = 1..Len(p.stops)
    BY DEF PatternOK
  <1>2. r.trip \in DOMAIN p.trips /\ r.off \in {0, -Day} /\ r = [trip |-> r.trip, off |-> r.off]
    BY DEF Runs
  <1>3. r.trip \in Nat \ {0} /\ p.trips[r.trip].arr[i] \in Int /\ p.trips[r.trip].dep[i] \in Int
    BY <1>1, <1>2 DEF PatternOK
  <1>4. Day \in Nat
    BY ConstantsAssumption
  <1> QED
    BY <1>2, <1>3, <1>4 DEF Run, NoTrip, Departure, Arrival

(***************************************************************************)
(* A ride never arrives before it departs.                                 *)
(***************************************************************************)
LEMMA RideForward ==
  ASSUME NEW p, PatternOK(p), NEW r \in Runs(p),
         NEW i \in DOMAIN p.stops, NEW j \in DOMAIN p.stops, i < j
  PROVE  Departure(p, r, i) <= Arrival(p, r, j)
  <1>1. DOMAIN p.stops = 1..Len(p.stops)
    BY DEF PatternOK
  <1>2. r.trip \in DOMAIN p.trips /\ r.off \in {0, -Day}
    BY DEF Runs
  <1>3. /\ p.trips[r.trip].dep[i] <= p.trips[r.trip].arr[j]
        /\ p.trips[r.trip].dep[i] \in Int /\ p.trips[r.trip].arr[j] \in Int
    BY <1>1, <1>2 DEF PatternOK
  <1> QED
    BY <1>2, <1>3, ConstantsAssumption DEF Departure, Arrival

LEMMA InitType == Init => TypeInv
  <1> SUFFICES ASSUME Init PROVE TypeInv
    OBVIOUS
  <1>1. InputOK(input)
    BY InputsAssumption DEF Init
  <1>2. input.source \in Stops /\ input.target \in Stops
    BY <1>1 DEF InputOK
  <1>3. Infinity \in Nat /\ Day \in Nat /\ MaxRounds \in Nat
    BY ConstantsAssumption
  <1>4. NoParent(input) \in Parent /\ ~NoParent(input).set
    BY <1>2, <1>3 DEF NoParent, Parent, Leg, Run, NoRun, NoTrip
  <1>5. IdleTrace(input) \in [stop : Stops, round : 0..MaxRounds, rev : Seq(Leg)]
    BY <1>2, <1>3 DEF IdleTrace
  <1>6. IdleScan \in [pattern : Nat, pos : Nat, run : Run, boardPos : Nat, boardDep : Int]
    BY <1>3 DEF IdleScan, Run, NoRun, NoTrip
  <1>7. TypeOK
    <2>1. parents \in [0..MaxRounds -> [Stops -> Parent]]
      BY <1>4 DEF Init
    <2>2. tau \in [Stops -> Int] /\ tauPrev \in [Stops -> Int] /\ tauBest \in [Stops -> Int]
      BY <1>3 DEF Init
    <2>3. \A e \in queue : e[1] \in DOMAIN input.patterns
                          /\ e[2] \in DOMAIN input.patterns[e[1]].stops
      BY DEF Init
    <2>4. pc \in Pc /\ k \in 0..MaxRounds /\ bestTargetArrival \in Int
          /\ marked \subseteq Stops /\ todo \subseteq Stops
      BY <1>3 DEF Init, Pc
    <2>5. improvedTarget \in BOOLEAN
      BY Zenon DEF Init
    <2>6. journeys \in Seq(Journey)
      BY DEF Init
    <2>7. /\ scan \in [pattern : Nat, pos : Nat, run : Run, boardPos : Nat, boardDep : Int]
          /\ trace \in [stop : Stops, round : 0..MaxRounds, rev : Seq(Leg)]
      BY <1>5, <1>6 DEF Init
    <2> QED
      BY <1>1, <2>1, <2>2, <2>3, <2>4, <2>5, <2>6, <2>7 DEF TypeOK
  <1>8. RoundsInv
    BY <1>3, <1>4 DEF Init, RoundsInv, MidRound
  <1> QED
    BY <1>7, <1>8 DEF TypeInv

LEMMA PatternFacts ==
  ASSUME InputOK(input), NEW pi \in DOMAIN input.patterns
  PROVE  LET p == input.patterns[pi]
         IN  /\ pi \in Nat
             /\ PatternOK(p)
             /\ Len(p.stops) \in Nat
             /\ DOMAIN p.stops = 1..Len(p.stops)
             /\ \A i \in DOMAIN p.stops : p.stops[i] \in Stops
  <1> DEFINE p == input.patterns[pi]
  <1>1. pi \in Nat /\ PatternOK(p)
    BY DEF InputOK
  <1> HIDE DEF p
  <1>2. p.stops \in Seq(Stops)
    BY <1>1 DEF PatternOK
  <1> QED
    BY <1>1, <1>2 DEF p

LEMMA WalkFacts ==
  ASSUME InputOK(input), NEW s \in Stops, NEW t \in WalkFrom(s)
  PROVE  t \in Stops /\ t # s /\ input.foot[<<s, t>>] \in Nat
  BY DEF InputOK, WalkFrom

LEMMA WalkLegType ==
  ASSUME NEW s \in Stops, NEW t \in Stops, NEW dep \in Int, NEW arr \in Int
  PROVE  WalkLeg(s, t, dep, arr) \in Leg
  BY ConstantsAssumption DEF WalkLeg, Leg, NoRun, NoTrip, Run

LEMMA ParentOfType ==
  ASSUME NEW leg \in Leg, NEW r \in 0..MaxRounds
  PROVE  ParentOf(leg, r) \in Parent
  BY DEF ParentOf, Parent

(***************************************************************************)
(* One row of parents is replaced.                                         *)
(***************************************************************************)
LEMMA RowType ==
  ASSUME parents \in [0..MaxRounds -> [Stops -> Parent]],
         NEW r \in 0..MaxRounds, NEW row \in [Stops -> Parent],
         parents' = [parents EXCEPT ![r] = row]
  PROVE  parents' \in [0..MaxRounds -> [Stops -> Parent]]
  OBVIOUS

LEMMA SeedType == TypeInv /\ Seed => TypeInv'
  <1> SUFFICES ASSUME TypeInv, Seed PROVE TypeInv'
    OBVIOUS
  <1> USE DEF TypeInv
  <1>1. InputOK(input) /\ input' = input
    BY DEF TypeOK, Seed
  <1>2. input.source \in Stops /\ input.depTime \in Nat /\ Infinity \in Nat /\ MaxRounds \in Nat
    BY <1>1, ConstantsAssumption DEF InputOK
  <1> DEFINE arr(t) == IF t = input.source THEN input.depTime
                       ELSE input.depTime + input.foot[<<input.source, t>>]
  <1>3. \A t \in Seeds : t \in Stops /\ arr(t) \in Int
    BY <1>1, <1>2, WalkFacts DEF Seeds
  <1>4. tau' \in [Stops -> Int] /\ tauPrev' \in [Stops -> Int] /\ tauBest' \in [Stops -> Int]
    BY <1>2, <1>3 DEF Seed
  <1>5. \A s \in Seeds :
          ParentOf(WalkLeg(input.source, s, input.depTime, arr(s)), 0) \in Parent
    BY <1>2, <1>3, WalkLegType, ParentOfType
  <1> DEFINE row == [s \in Stops |->
                       IF s \in Seeds
                       THEN ParentOf(WalkLeg(input.source, s, input.depTime, arr(s)), 0)
                       ELSE parents[0][s]]
  <1>6. parents' \in [0..MaxRounds -> [Stops -> Parent]]
    <2>1. parents \in [0..MaxRounds -> [Stops -> Parent]] /\ 0 \in 0..MaxRounds
      <3>1. parents \in [0..MaxRounds -> [Stops -> Parent]]
        BY DEF TypeOK
      <3> QED
        BY <1>2, <3>1
    <2>2. row \in [Stops -> Parent]
      BY <1>5, <2>1
    <2>3. parents' = [parents EXCEPT ![0] = row]
      BY DEF Seed
    <2> QED
      BY <2>1, <2>2, <2>3, RowType
  <1>7. marked' \subseteq Stops
    BY <1>2, <1>3 DEF Seed
  <1>8. TypeOK'
    BY <1>1, <1>4, <1>6, <1>7 DEF TypeOK, Seed, Pc
  <1>9. RoundsInv'
    BY DEF Seed, RoundsInv, MidRound
  <1> QED
    BY <1>8, <1>9

LEMMA StartRoundType == TypeInv /\ StartRound => TypeInv'
  <1> SUFFICES ASSUME TypeInv, StartRound PROVE TypeInv'
    OBVIOUS
  <1>1. k' = k + 1 /\ k' \in 0..MaxRounds /\ k' > 0
    BY ConstantsAssumption DEF TypeInv, TypeOK, StartRound, MoreRounds
  <1>2. \A e \in queue' : /\ e[1] \in DOMAIN input.patterns
                          /\ e[2] \in DOMAIN input.patterns[e[1]].stops
    BY DEF StartRound, QueueOf
  <1>3. improvedTarget' \in BOOLEAN
    BY Zenon DEF StartRound
  <1>4. TypeOK'
    BY <1>1, <1>2, <1>3 DEF TypeInv, TypeOK, StartRound, Pc
  <1>5. RoundsInv'
    BY <1>1 DEF StartRound, RoundsInv, MidRound
  <1> QED
    BY <1>4, <1>5 DEF TypeInv

LEMMA FinishType == TypeInv /\ Finish => TypeInv'
  BY DEF TypeInv, TypeOK, RoundsInv, MidRound, Finish, labels, Pc

LEMMA PickPatternType == TypeInv /\ PickPattern => TypeInv'
  <1> SUFFICES ASSUME TypeInv, PickPattern PROVE TypeInv'
    OBVIOUS
  <1>1. PICK e \in queue : /\ queue' = queue \ {e}
                           /\ scan' = [IdleScan EXCEPT !.pattern = e[1], !.pos = e[2]]
    BY DEF PickPattern
  <1>2. /\ e[1] \in DOMAIN input.patterns
        /\ e[2] \in DOMAIN input.patterns[e[1]].stops
        /\ InputOK(input)
    BY DEF TypeInv, TypeOK
  <1>3. e[1] \in Nat /\ e[2] \in Nat
    BY <1>2, PatternFacts
  <1> DEFINE p == e[1]  i == e[2]
  <1>4. scan' = [pattern |-> p, pos |-> i, run |-> NoRun, boardPos |-> 0, boardDep |-> 0]
    BY <1>1 DEF IdleScan
  <1>5. NoRun \in Run /\ NoRun.trip = NoTrip
    BY ConstantsAssumption DEF NoRun, NoTrip, Run
  <1>6. /\ scan' \in [pattern : Nat, pos : Nat, run : Run, boardPos : Nat, boardDep : Int]
        /\ scan'.pattern = p /\ scan'.pos = i /\ ~Riding'
    <2> HIDE DEF p, i
    <2>1. p \in Nat /\ i \in Nat
      BY <1>3 DEF p, i
    <2> QED
      BY <1>4, <1>5, <2>1 DEF Riding
  <1>7. TypeOK'
    BY <1>1, <1>6 DEF TypeInv, TypeOK, PickPattern, labels, Pc
  <1>8. RoundsInv'
    BY <1>2, <1>6 DEF TypeInv, RoundsInv, PickPattern, labels, MidRound, Scanned
  <1> QED
    BY <1>7, <1>8 DEF TypeInv

(***************************************************************************)
(* The leg a rider would alight from.                                      *)
(***************************************************************************)
LEMMA RideLegType ==
  ASSUME TypeInv, pc = "scan", Riding
  PROVE  /\ RideLeg(Scanned) \in Leg
         /\ RideLeg(Scanned).to = Scanned.stops[scan.pos]
         /\ RideLeg(Scanned).from = Scanned.stops[scan.boardPos]
         /\ RideLeg(Scanned).dep = scan.boardDep
         /\ RideLeg(Scanned).arr = Arrival(Scanned, scan.run, scan.pos)
         /\ RideLeg(Scanned).run = scan.run
         /\ RideLeg(Scanned).pattern = scan.pattern
  <1>1. /\ scan.pattern \in DOMAIN input.patterns
        /\ scan.pos \in DOMAIN Scanned.stops
        /\ scan.boardPos \in 1..(scan.pos - 1)
        /\ scan.run \in Runs(Scanned)
        /\ InputOK(input)
        /\ scan.boardDep \in Int
    BY DEF TypeInv, TypeOK, RoundsInv
  <1>2. /\ PatternOK(Scanned)
        /\ scan.pattern \in Nat
        /\ DOMAIN Scanned.stops = 1..Len(Scanned.stops)
        /\ Len(Scanned.stops) \in Nat
        /\ \A i \in DOMAIN Scanned.stops : Scanned.stops[i] \in Stops
    BY <1>1, PatternFacts DEF Scanned
  <1>3. scan.boardPos \in DOMAIN Scanned.stops
    BY <1>1, <1>2
  <1>4. scan.run \in Run /\ Arrival(Scanned, scan.run, scan.pos) \in Int
    BY <1>1, <1>2, RunsType
  <1> QED
    BY <1>1, <1>2, <1>3, <1>4 DEF RideLeg, Leg

LEMMA AlightType ==
  ASSUME TypeInv, pc = "scan", Alight(Scanned)
  PROVE  /\ tau' \in [Stops -> Int]
         /\ tauBest' \in [Stops -> Int]
         /\ parents' \in [0..MaxRounds -> [Stops -> Parent]]
         /\ marked' \subseteq Stops
         /\ bestTargetArrival' \in Int
         /\ improvedTarget' \in BOOLEAN
  <1> DEFINE leg == RideLeg(Scanned)
  <1>1. /\ tau \in [Stops -> Int] /\ tauBest \in [Stops -> Int]
        /\ parents \in [0..MaxRounds -> [Stops -> Parent]]
        /\ marked \subseteq Stops /\ bestTargetArrival \in Int
        /\ improvedTarget \in BOOLEAN
    BY DEF TypeInv, TypeOK
  <1>2. CASE Riding /\ Improves(leg.arr, leg.to, bestTargetArrival)
    <2>1. leg \in Leg /\ leg.to \in Stops /\ leg.arr \in Int
      BY <1>2, RideLegType DEF Leg
    <2>2. k \in 0..MaxRounds /\ k > 0 /\ MaxRounds \in Nat
      BY ConstantsAssumption DEF TypeInv, TypeOK, RoundsInv, MidRound
    <2>3. k - 1 \in 0..MaxRounds
      BY <2>2
    <2>4. ParentOf(leg, k - 1) \in Parent
      BY <2>1, <2>3, ParentOfType
    <2>5. /\ tau' = [tau EXCEPT ![leg.to] = leg.arr]
          /\ tauBest' = [tauBest EXCEPT ![leg.to] = leg.arr]
          /\ parents' = [parents EXCEPT ![k][leg.to] = ParentOf(leg, k - 1)]
          /\ marked' = marked \cup {leg.to}
          /\ bestTargetArrival' = IF leg.to = input.target THEN leg.arr
                                  ELSE bestTargetArrival
      BY <1>2 DEF Alight
    <2>6. improvedTarget' \in BOOLEAN
      BY <1>2, <1>1, Zenon DEF Alight
    <2> HIDE DEF leg
    <2>7. parents' \in [0..MaxRounds -> [Stops -> Parent]]
      BY <1>1, <2>1, <2>2, <2>4, <2>5
    <2> QED
      BY <1>1, <2>1, <2>5, <2>6, <2>7
  <1>3. CASE ~(Riding /\ Improves(leg.arr, leg.to, bestTargetArrival))
    BY <1>1, <1>3 DEF Alight, labels
  <1> QED
    BY <1>2, <1>3

(***************************************************************************)
(* What the second half of ScanStop does to the locals of the loop.        *)
(***************************************************************************)
BoardedHere(r) ==
  /\ Boards(Scanned, r)
  /\ scan'.run = r
  /\ scan'.boardPos = scan.pos
  /\ scan'.boardDep = Departure(Scanned, r, scan.pos)

SameSeat ==
  scan'.run = scan.run /\ scan'.boardPos = scan.boardPos /\ scan'.boardDep = scan.boardDep

LEMMA ScanStopMoves ==
  ASSUME TypeInv, ScanStop
  PROVE  /\ scan' \in [pattern : Nat, pos : Nat, run : Run, boardPos : Nat, boardDep : Int]
         /\ pc' \in {"scan", "pick"}
         /\ pc' = "scan" => /\ scan'.pattern = scan.pattern
                            /\ scan'.pos = scan.pos + 1
                            /\ scan.pos < Len(Scanned.stops)
                            /\ SameSeat \/ \E r \in Runs(Scanned) : BoardedHere(r)
  <1> DEFINE Scan == [pattern : Nat, pos : Nat, run : Run, boardPos : Nat, boardDep : Int]
  <1>1. /\ scan \in Scan
        /\ scan.pos \in Nat
        /\ scan.pos \in DOMAIN Scanned.stops
        /\ PatternOK(Scanned)
    BY PatternFacts DEF TypeInv, TypeOK, RoundsInv, ScanStop, Scanned
  <1>2. IdleScan \in Scan
    BY ConstantsAssumption DEF IdleScan, NoRun, NoTrip, Run
  <1>3. ASSUME NEW next \in Scan, ScanOn(Scanned, next)
        PROVE  /\ scan' \in Scan
               /\ pc' \in {"scan", "pick"}
               /\ pc' = "scan" => /\ scan' = [next EXCEPT !.pos = scan.pos + 1]
                                  /\ scan.pos < Len(Scanned.stops)
    <2>1. CASE scan.pos < Len(Scanned.stops)
      <3>1. scan' = [next EXCEPT !.pos = scan.pos + 1] /\ pc' = "scan"
        BY <1>3, <2>1 DEF ScanOn
      <3>2. [next EXCEPT !.pos = scan.pos + 1] \in Scan
        BY <1>1
      <3> HIDE DEF Scan
      <3> QED
        BY <2>1, <3>1, <3>2
    <2>2. CASE ~(scan.pos < Len(Scanned.stops))
      <3>1. scan' = IdleScan /\ pc' = "pick"
        BY <1>3, <2>2 DEF ScanOn
      <3> QED
        BY <1>2, <3>1
    <2> QED
      BY <2>1, <2>2
  <1>4. CASE Board(Scanned)
    <2>1. PICK r \in Runs(Scanned) :
            /\ Boards(Scanned, r)
            /\ ScanOn(Scanned, [scan EXCEPT !.run = r, !.boardPos = scan.pos,
                                 !.boardDep = Departure(Scanned, r, scan.pos)])
      BY <1>4 DEF Board
    <2> DEFINE next == [scan EXCEPT !.run = r, !.boardPos = scan.pos,
                                    !.boardDep = Departure(Scanned, r, scan.pos)]
    <2>2. r \in Run /\ Departure(Scanned, r, scan.pos) \in Int
      BY <1>1, RunsType
    <2>3. /\ next \in Scan
          /\ next.pattern = scan.pattern /\ next.run = r /\ next.boardPos = scan.pos
          /\ next.boardDep = Departure(Scanned, r, scan.pos)
      BY <1>1, <2>2
    <2> HIDE DEF next
    <2>4. ScanOn(Scanned, next)
      BY <2>1 DEF next
    <2> QED
      BY <1>3, <2>1, <2>3, <2>4 DEF BoardedHere
  <1>5. CASE StayOn(Scanned)
    BY <1>1, <1>3, <1>5 DEF StayOn, SameSeat
  <1> QED
    BY <1>4, <1>5 DEF ScanStop

LEMMA ScanStopType == TypeInv /\ ScanStop => TypeInv'
  <1> SUFFICES ASSUME TypeInv, ScanStop PROVE TypeInv'
    OBVIOUS
  <1>1. /\ tau' \in [Stops -> Int]
        /\ tauBest' \in [Stops -> Int]
        /\ parents' \in [0..MaxRounds -> [Stops -> Parent]]
        /\ marked' \subseteq Stops
        /\ bestTargetArrival' \in Int
        /\ improvedTarget' \in BOOLEAN
    BY AlightType DEF ScanStop
  <1>2. TypeOK'
    BY <1>1, ScanStopMoves DEF TypeInv, TypeOK, ScanStop, Pc
  <1>3. /\ scan.pattern \in DOMAIN input.patterns
        /\ scan.pos \in DOMAIN Scanned.stops
        /\ Riding => scan.boardPos \in 1..(scan.pos - 1) /\ scan.run \in Runs(Scanned)
        /\ DOMAIN Scanned.stops = 1..Len(Scanned.stops)
        /\ Len(Scanned.stops) \in Nat
        /\ k > 0 /\ k' = k /\ input' = input
    BY PatternFacts DEF TypeInv, TypeOK, RoundsInv, ScanStop, MidRound, Scanned
  <1>4. ASSUME pc' = "scan"
        PROVE  /\ scan'.pattern = scan.pattern
               /\ scan'.pos \in DOMAIN Scanned.stops
               /\ Riding' => scan'.boardPos \in 1..(scan'.pos - 1) /\ scan'.run \in Runs(Scanned)
    <2>1. /\ scan'.pattern = scan.pattern
          /\ scan'.pos = scan.pos + 1
          /\ scan.pos < Len(Scanned.stops)
      BY <1>4, ScanStopMoves
    <2>2. CASE SameSeat
      BY <1>3, <2>1, <2>2 DEF SameSeat, Riding
    <2>3. CASE \E r \in Runs(Scanned) : BoardedHere(r)
      BY <1>3, <2>1, <2>3 DEF BoardedHere
    <2> QED
      BY <1>4, <2>2, <2>3, ScanStopMoves
  <1>5. pc' \in {"scan", "pick"}
    BY ScanStopMoves
  <1>6. RoundsInv'
    BY <1>3, <1>4, <1>5 DEF RoundsInv, MidRound, Scanned
  <1> QED
    BY <1>2, <1>6 DEF TypeInv

LEMMA StartWalkType == TypeInv /\ StartWalk => TypeInv'
  BY DEF TypeInv, TypeOK, RoundsInv, MidRound, StartWalk, labels, Pc

(***************************************************************************)
(* A walk that improves a label starts from a stop that has one.           *)
(***************************************************************************)
LEMMA WalksFacts ==
  ASSUME TypeInv, NEW s \in Stops, NEW t \in Walks(s)
  PROVE  /\ t \in Stops /\ t # s /\ Foot(input, s, t)
         /\ WalkArr(s, t) \in Int
         /\ WalkArr(s, t) = tau[s] + input.foot[<<s, t>>]
         /\ input.foot[<<s, t>>] \in Nat
         /\ WalkArr(s, t) < tauBest[t]
  <1>1. t \in WalkFrom(s) /\ WalkArr(s, t) < tauBest[t]
    BY DEF Walks, Improves
  <1>2. t \in Stops /\ t # s /\ input.foot[<<s, t>>] \in Nat
    BY <1>1, WalkFacts DEF TypeInv, TypeOK
  <1>3. tau[s] \in Int
    BY DEF TypeInv, TypeOK
  <1>4. Foot(input, s, t)
    BY <1>1 DEF WalkFrom
  <1>5. WalkArr(s, t) = tau[s] + input.foot[<<s, t>>]
    BY DEF WalkArr
  <1> QED
    BY <1>1, <1>2, <1>3, <1>4, <1>5

LEMMA RelaxType ==
  ASSUME TypeInv, NEW s \in Stops, Relax(s)
  PROVE  /\ tau' \in [Stops -> Int]
         /\ tauBest' \in [Stops -> Int]
         /\ parents' \in [0..MaxRounds -> [Stops -> Parent]]
         /\ marked' \subseteq Stops
         /\ bestTargetArrival' \in Int
         /\ improvedTarget' \in BOOLEAN
  <1>1. /\ tau \in [Stops -> Int] /\ tauBest \in [Stops -> Int]
        /\ parents \in [0..MaxRounds -> [Stops -> Parent]]
        /\ marked \subseteq Stops /\ bestTargetArrival \in Int
        /\ improvedTarget \in BOOLEAN /\ k \in 0..MaxRounds
    BY DEF TypeInv, TypeOK
  <1>2. tau' \in [Stops -> Int] /\ tauBest' \in [Stops -> Int]
    BY <1>1, WalksFacts DEF Relax
  <1>3. parents' \in [0..MaxRounds -> [Stops -> Parent]]
    <2> DEFINE entry(t) == ParentOf(WalkLeg(s, t, tau[s], WalkArr(s, t)), k)
               row == [t \in Stops |-> IF t \in Walks(s) THEN entry(t) ELSE parents[k][t]]
    <2>1. \A t \in Walks(s) : entry(t) \in Parent
      BY <1>1, WalksFacts, WalkLegType, ParentOfType
    <2>2. row \in [Stops -> Parent]
      BY <1>1, <2>1
    <2>3. parents' = [parents EXCEPT ![k] = row]
      BY DEF Relax
    <2> HIDE DEF row
    <2> QED
      BY <1>1, <2>2, <2>3, RowType
  <1>4. marked' \subseteq Stops
    BY <1>1, WalksFacts DEF Relax
  <1>5. bestTargetArrival' \in Int
    <2>1. CASE ReachesTarget(s)
      <3>1. input.target \in WalkFrom(s)
        BY <2>1 DEF ReachesTarget
      <3>2. input.foot[<<s, input.target>>] \in Nat
        BY <3>1, WalkFacts DEF TypeInv, TypeOK
      <3> QED
        BY <1>1, <2>1, <3>2 DEF Relax, WalkArr
    <2> QED
      BY <1>1, <2>1 DEF Relax
  <1>6. improvedTarget' \in BOOLEAN
    BY Zenon DEF Relax
  <1> QED
    BY <1>2, <1>3, <1>4, <1>5, <1>6

LEMMA WalkFromStopType == TypeInv /\ WalkFromStop => TypeInv'
  <1> SUFFICES ASSUME TypeInv, WalkFromStop PROVE TypeInv'
    OBVIOUS
  <1>1. PICK s \in todo : Relax(s) /\ todo' = todo \ {s}
    BY DEF WalkFromStop
  <1>2. s \in Stops
    BY DEF TypeInv, TypeOK
  <1>3. /\ tau' \in [Stops -> Int]
        /\ tauBest' \in [Stops -> Int]
        /\ parents' \in [0..MaxRounds -> [Stops -> Parent]]
        /\ marked' \subseteq Stops
        /\ bestTargetArrival' \in Int
        /\ improvedTarget' \in BOOLEAN
    BY <1>1, <1>2, RelaxType
  <1>4. TypeOK'
    BY <1>1, <1>3 DEF TypeInv, TypeOK, WalkFromStop, Pc
  <1>5. RoundsInv'
    BY DEF TypeInv, RoundsInv, WalkFromStop, MidRound
  <1> QED
    BY <1>4, <1>5 DEF TypeInv

LEMMA IdleTraceType ==
  ASSUME TypeInv
  PROVE  IdleTrace(input) \in [stop : Stops, round : 0..MaxRounds, rev : Seq(Leg)]
  BY ConstantsAssumption DEF TypeInv, TypeOK, InputOK, IdleTrace

LEMMA EndRoundType == TypeInv /\ EndRound => TypeInv'
  <1> SUFFICES ASSUME TypeInv, EndRound PROVE TypeInv'
    OBVIOUS
  <1>1. trace' \in [stop : Stops, round : 0..MaxRounds, rev : Seq(Leg)]
    BY IdleTraceType DEF TypeInv, TypeOK, EndRound
  <1>2. tauPrev' \in [Stops -> Int] /\ pc' \in {"reconstruct", "round"}
    BY DEF TypeInv, TypeOK, EndRound
  <1>3. TypeOK'
    BY <1>1, <1>2 DEF TypeInv, TypeOK, EndRound, labels, Pc
  <1>4. RoundsInv'
    BY <1>2 DEF TypeInv, RoundsInv, EndRound, labels, MidRound
  <1> QED
    BY <1>3, <1>4 DEF TypeInv

(***************************************************************************)
(* reconstruct follows the last parent that is set.                        *)
(***************************************************************************)
Follows(r) ==
  LET p == parents[r][trace.stop]
  IN  /\ LastSet(trace.stop, trace.round, r)
      /\ trace' = [stop |-> p.leg.from, round |-> p.prevRound, rev |-> Append(trace.rev, p.leg)]
      /\ pc' \in {"cycle", "reconstruct"}

LEMMA FollowParentMoves ==
  ASSUME TypeInv, FollowParent
  PROVE  \/ \E r \in 0..trace.round : Follows(r)
         \/ /\ \A r \in 0..trace.round : ~parents[r][trace.stop].set
            /\ pc' = "noparent" /\ trace' = trace
  BY DEF FollowParent, Follows

LEMMA FollowParentType == TypeInv /\ FollowParent => TypeInv'
  <1> SUFFICES ASSUME TypeInv, FollowParent PROVE TypeInv'
    OBVIOUS
  <1>1. /\ trace' \in [stop : Stops, round : 0..MaxRounds, rev : Seq(Leg)]
        /\ pc' \in {"cycle", "reconstruct", "noparent"}
    <2>1. /\ trace \in [stop : Stops, round : 0..MaxRounds, rev : Seq(Leg)]
          /\ parents \in [0..MaxRounds -> [Stops -> Parent]]
          /\ MaxRounds \in Nat
      BY ConstantsAssumption DEF TypeInv, TypeOK
    <2>2. ASSUME NEW r \in 0..trace.round, Follows(r)
          PROVE  trace' \in [stop : Stops, round : 0..MaxRounds, rev : Seq(Leg)]
      <3>1. parents[r][trace.stop] \in Parent
        BY <2>1
      <3>2. /\ parents[r][trace.stop].leg \in Leg
            /\ parents[r][trace.stop].leg.from \in Stops
            /\ parents[r][trace.stop].prevRound \in 0..MaxRounds
        BY <3>1 DEF Parent, Leg
      <3>3. Append(trace.rev, parents[r][trace.stop].leg) \in Seq(Leg)
        BY <2>1, <3>2
      <3> QED
        BY <2>2, <3>2, <3>3 DEF Follows
    <2> QED
      BY <2>1, <2>2, FollowParentMoves DEF Follows
  <1>2. TypeOK'
    BY <1>1 DEF TypeInv, TypeOK, FollowParent, labels, Pc
  <1>3. RoundsInv'
    BY <1>1 DEF TypeInv, RoundsInv, FollowParent, labels, MidRound
  <1> QED
    BY <1>2, <1>3 DEF TypeInv

(***************************************************************************)
(* A journey is the legs of the trace read backwards.                      *)
(***************************************************************************)
LEMMA ReversedLegs ==
  ASSUME NEW rev \in Seq(Leg)
  PROVE  LET n == Len(rev)
             legs == [i \in 1..n |-> rev[n + 1 - i]]
         IN  /\ legs \in Seq(Leg) /\ Len(legs) = n
             /\ \A i \in 1..n : n + 1 - i \in 1..n /\ legs[i] = rev[n + 1 - i]
  <1> DEFINE n == Len(rev)
             legs == [i \in 1..n |-> rev[n + 1 - i]]
  <1>1. n \in Nat
    OBVIOUS
  <1>2. \A i \in 1..n : n + 1 - i \in 1..n /\ rev[n + 1 - i] \in Leg
    BY <1>1
  <1>3. legs \in Seq(Leg)
    BY <1>1, <1>2
  <1> QED
    BY <1>1, <1>2, <1>3

LEMMA JourneyOfType ==
  ASSUME NEW rev \in Seq(Leg), rev # <<>>
  PROVE  JourneyOf(rev) \in Journey
  <1> DEFINE n == Len(rev)
             legs == [i \in 1..n |-> rev[n + 1 - i]]
  <1>1. n \in Nat /\ n > 0
    OBVIOUS
  <1>2. legs \in Seq(Leg) /\ Len(legs) = n
    BY ReversedLegs
  <1>3. TransitLegs(legs) \subseteq 1..n
    BY <1>2 DEF TransitLegs
  <1>4. Cardinality(TransitLegs(legs)) \in Nat
    <2>1. IsFiniteSet(1..n)
      BY <1>1, FS_Interval
    <2>2. IsFiniteSet(TransitLegs(legs))
      BY <1>3, <2>1, FS_Subset
    <2> HIDE DEF legs
    <2> QED
      BY <2>2, FS_CardinalityType
  <1>5. JourneyOf(rev) = [legs |-> legs, departure |-> legs[1].dep, arrival |-> legs[Len(legs)].arr,
                          transfers |-> Cardinality(TransitLegs(legs)) - 1]
    BY DEF JourneyOf
  <1> HIDE DEF legs
  <1>6. legs[1] \in Leg /\ legs[n] \in Leg
    BY <1>1, <1>2
  <1>7. legs[1].dep \in Int /\ legs[Len(legs)].arr \in Int
    BY <1>2, <1>6 DEF Leg
  <1> QED
    BY <1>2, <1>4, <1>5, <1>7 DEF Journey

LEMMA EmitJourneyType == TypeInv /\ EmitJourney => TypeInv'
  <1> SUFFICES ASSUME TypeInv, EmitJourney PROVE TypeInv'
    OBVIOUS
  <1>1. trace' \in [stop : Stops, round : 0..MaxRounds, rev : Seq(Leg)]
    BY IdleTraceType DEF TypeInv, TypeOK, EmitJourney
  <1>2. tauPrev' \in [Stops -> Int] /\ pc' \in {"panic", "round"}
    BY DEF TypeInv, TypeOK, EmitJourney
  <1>3. journeys' \in Seq(Journey)
    <2>1. journeys \in Seq(Journey) /\ trace.rev \in Seq(Leg)
      BY DEF TypeInv, TypeOK
    <2>2. trace.rev # <<>> => JourneyOf(trace.rev) \in Journey
      BY <2>1, JourneyOfType
    <2> QED
      BY <2>1, <2>2 DEF EmitJourney
  <1>4. TypeOK'
    BY <1>1, <1>2, <1>3 DEF TypeInv, TypeOK, EmitJourney, labels, Pc
  <1>5. RoundsInv'
    BY <1>2 DEF TypeInv, RoundsInv, EmitJourney, labels, MidRound
  <1> QED
    BY <1>4, <1>5 DEF TypeInv

LEMMA StutterType == TypeInv /\ UNCHANGED vars => TypeInv'
  BY DEF TypeInv, TypeOK, RoundsInv, MidRound, Scanned, Riding, vars

(***************************************************************************)
(* Every variable of a call keeps its type, and the locals of the loops    *)
(* stay within the arrays they index.                                      *)
(***************************************************************************)
THEOREM TypesHold == Spec => []TypeInv
  <1>1. TypeInv /\ [Next]_vars => TypeInv'
    BY SeedType, StartRoundType, FinishType, PickPatternType, ScanStopType, StartWalkType,
       WalkFromStopType, EndRoundType, FollowParentType, EmitJourneyType, StutterType
       DEF Next, Returned
  <1> QED
    BY <1>1, InitType, PTL DEF Spec

-----------------------------------------------------------------------------
(***************************************************************************)
(* What a step of a round records for a stop it improves.                  *)
(***************************************************************************)
Recorded(s) ==
  LET p == parents'[k][s]
  IN  /\ p.set
      /\ p.leg.to = s
      /\ LegOK(input, p.leg)
      /\ p.leg.dep >= input.depTime
      /\ p.leg.arr = tau'[s]
      /\ tau'[s] >= input.depTime
      /\ p.prevRound \in 0..k
      /\ ReachedVia(input.source, parents, p.prevRound, p.leg.from, p.leg.dep)

Improvement ==
  /\ tau' \in [Stops -> Int] /\ tauBest' = tau'
  /\ \A r \in 0..MaxRounds, s \in Stops : r # k => parents'[r][s] = parents[r][s]
  /\ \A s \in Stops :
       \/ tau'[s] = tau[s] /\ parents'[k][s] = parents[k][s]
       \/ tau'[s] < tau[s] /\ Recorded(s)
  /\ improvedTarget' <=> improvedTarget \/ tau'[input.target] < tau[input.target]

(* What the locals of the loops need not be known for. *)
RoundInv == TypeInv /\ LabelsInv /\ ParentsInv

LEMMA Numbers ==
  ASSUME TypeInv
  PROVE  /\ MaxRounds \in Nat /\ Infinity \in Nat /\ k \in 0..MaxRounds
         /\ InputOK(input) /\ input.depTime \in Nat
         /\ input.source \in Stops /\ input.target \in Stops
         /\ \A s \in Stops : tau[s] \in Int /\ tauPrev[s] \in Int
         /\ \A r \in 0..MaxRounds, s \in Stops :
              /\ parents[r][s].set \in BOOLEAN
              /\ parents[r][s].leg \in Leg
              /\ parents[r][s].leg.arr \in Int /\ parents[r][s].leg.dep \in Int
              /\ parents[r][s].leg.from \in Stops
              /\ parents[r][s].prevRound \in 0..MaxRounds
  <1>1. /\ MaxRounds \in Nat /\ Infinity \in Nat /\ k \in 0..MaxRounds
        /\ InputOK(input) /\ input.depTime \in Nat
        /\ input.source \in Stops /\ input.target \in Stops
        /\ \A s \in Stops : tau[s] \in Int /\ tauPrev[s] \in Int
    BY ConstantsAssumption DEF TypeInv, TypeOK, InputOK
  <1>2. \A r \in 0..MaxRounds, s \in Stops : parents[r][s] \in Parent
    <2>1. parents \in [0..MaxRounds -> [Stops -> Parent]]
      BY DEF TypeInv, TypeOK
    <2> QED
      BY <2>1
  <1> QED
    BY <1>1, <1>2 DEF Parent, Leg

LEMMA ReachedStays ==
  ASSUME RoundInv, Improvement,
         NEW r \in 0..MaxRounds, NEW s \in Stops, NEW time \in Int, ReachedBy(r, s, time)
  PROVE  ReachedVia(input.source, parents', r, s, time)
  <1>1. CASE s = input.source
    BY <1>1 DEF ReachedVia
  <1>2. CASE s # input.source
    <2>1. PICK q \in 0..r : parents[q][s].set /\ parents[q][s].leg.arr <= time
      BY <1>2 DEF ReachedBy, ReachedVia
    <2>2. q \in 0..MaxRounds
      BY Numbers DEF RoundInv
    <2>3. parents[q][s].leg.arr >= tau[s]
      BY <2>1, <2>2 DEF RoundInv, ParentsInv, ParentOK
    <2>4. parents'[q][s].set /\ parents'[q][s].leg.arr <= time
      <3>1. CASE parents'[q][s] = parents[q][s]
        BY <2>1, <3>1
      <3>2. CASE q = k /\ tau'[s] < tau[s] /\ Recorded(s)
        <4>1. tau'[s] \in Int /\ tau[s] \in Int /\ parents[q][s].leg.arr \in Int
          BY <2>2, <3>2, Numbers DEF RoundInv, Improvement
        <4> QED
          BY <2>1, <2>3, <3>2, <4>1 DEF Recorded
      <3> QED
        BY <2>2, <3>1, <3>2 DEF Improvement
    <2> QED
      BY <2>4 DEF ReachedVia
  <1> QED
    BY <1>1, <1>2

LEMMA ReachedLater ==
  ASSUME NEW source, NEW par, NEW s, NEW r \in Nat, NEW q \in r..MaxRounds,
         NEW early \in Int, NEW late \in Int, early <= late,
         \A n \in 0..MaxRounds : par[n][s].leg.arr \in Int,
         ReachedVia(source, par, r, s, early)
  PROVE  ReachedVia(source, par, q, s, late)
  <1>1. CASE s = source
    BY <1>1 DEF ReachedVia
  <1>2. CASE s # source
    <2>1. PICK n \in 0..r : par[n][s].set /\ par[n][s].leg.arr <= early
      BY <1>2 DEF ReachedVia
    <2>2. n \in 0..q /\ n \in 0..MaxRounds
      BY ConstantsAssumption
    <2>3. par[n][s].leg.arr <= late
      BY <2>1, <2>2
    <2> QED
      BY <2>1, <2>2, <2>3 DEF ReachedVia
  <1> QED
    BY <1>1, <1>2

LEMMA ImprovementKeepsLabels ==
  ASSUME RoundInv, Improvement, MidRound, MidRound', TypeInv',
         k' = k, input' = input, tauPrev' = tauPrev
  PROVE  LabelsInv'
  <1>1. tau'[input.source] = input.depTime
    <2>1. tau[input.source] = input.depTime /\ tau'[input.source] \in Int
      BY Numbers DEF RoundInv, LabelsInv, MidRound, Improvement
    <2> QED
      BY <2>1, Numbers DEF RoundInv, Improvement, Recorded
  <1>2. ASSUME NEW s \in Stops
        PROVE  /\ tau'[s] \in input.depTime..Infinity
               /\ tauPrev[s] \in input.depTime..Infinity
               /\ tau'[s] < Infinity => ReachedVia(input.source, parents', k, s, tau'[s])
               /\ tauPrev[s] < Infinity => ReachedVia(input.source, parents', k - 1, s, tauPrev[s])
    <2>1. /\ tau[s] \in input.depTime..Infinity /\ tauPrev[s] \in input.depTime..Infinity
          /\ tau[s] < Infinity => ReachedBy(k, s, tau[s])
          /\ tauPrev[s] < Infinity => ReachedBy(k - 1, s, tauPrev[s])
      BY DEF RoundInv, LabelsInv, MidRound, PrevRound
    <2>2. k - 1 \in 0..MaxRounds
      BY Numbers DEF RoundInv, TypeInv, RoundsInv
    <2>3. tauPrev[s] < Infinity => ReachedVia(input.source, parents', k - 1, s, tauPrev[s])
      BY <2>1, <2>2, ReachedStays, Numbers DEF RoundInv
    <2>4. CASE tau'[s] = tau[s]
      BY <2>1, <2>3, <2>4, ReachedStays, Numbers DEF RoundInv
    <2>5. CASE tau'[s] < tau[s] /\ Recorded(s)
      <3>1. tau'[s] \in input.depTime..Infinity
        BY <2>1, <2>5, Numbers DEF RoundInv, Improvement, Recorded
      <3>2. k \in 0..k
        BY Numbers DEF RoundInv
      <3>3. parents'[k][s].set /\ parents'[k][s].leg.arr <= tau'[s]
        BY <2>5, <3>1, Numbers DEF Recorded, RoundInv
      <3>4. ReachedVia(input.source, parents', k, s, tau'[s])
        BY <3>2, <3>3 DEF ReachedVia
      <3> QED
        BY <2>1, <2>3, <3>1, <3>4
    <2> QED
      BY <2>4, <2>5 DEF Improvement
  <1> QED
    BY <1>1, <1>2 DEF LabelsInv, Improvement, MidRound, PrevRound, ReachedBy, ReachedVia

LEMMA ImprovementKeepsParents ==
  ASSUME RoundInv, Improvement, TypeInv', k' = k, input' = input
  PROVE  ParentsInv'
  <1> SUFFICES ASSUME NEW r \in 0..MaxRounds, NEW s \in Stops, parents'[r][s].set
               PROVE  /\ ParentOK(r, s)'
                      /\ \A q \in 0..(r - 1) : parents'[q][s].set =>
                           parents'[r][s].leg.arr <= parents'[q][s].leg.arr
    BY DEF ParentsInv
  <1>1. /\ tau[s] \in Int /\ tau'[s] \in Int /\ tau'[s] <= tau[s]
        /\ \A q \in 0..MaxRounds : parents[q][s].leg.arr \in Int
    BY Numbers DEF RoundInv, Improvement
  <1>2. CASE parents'[r][s] = parents[r][s]
    <2>1. ParentOK(r, s) /\ \A q \in 0..(r - 1) :
            parents[q][s].set => parents[r][s].leg.arr <= parents[q][s].leg.arr
      BY <1>2 DEF RoundInv, ParentsInv
    <2>2. /\ parents[r][s].prevRound \in 0..MaxRounds /\ parents[r][s].leg.from \in Stops
          /\ parents[r][s].leg.dep \in Int
      BY Numbers DEF RoundInv
    <2>3. ReachedVia(input.source, parents', parents[r][s].prevRound, parents[r][s].leg.from, parents[r][s].leg.dep)
      BY <2>1, <2>2, ReachedStays DEF ParentOK
    <2>4. ParentOK(r, s)'
      BY <1>1, <1>2, <2>1, <2>3 DEF ParentOK, ReachedBy
    <2>5. r <= k
      BY <2>1 DEF ParentOK
    <2>6. \A q \in 0..(r - 1) : q # k /\ q \in 0..MaxRounds
      BY <2>5, Numbers DEF RoundInv
    <2>7. \A q \in 0..(r - 1) : parents'[q][s] = parents[q][s]
      BY <2>6 DEF Improvement
    <2> QED
      BY <1>2, <2>1, <2>4, <2>7
  <1>3. CASE r = k /\ tau'[s] < tau[s] /\ Recorded(s)
    <2> DEFINE p == parents'[k][s]
    <2>1. /\ p.prevRound \in 0..MaxRounds /\ p.leg.from \in Stops /\ p.leg.dep \in Int
      <3>1. parents' \in [0..MaxRounds -> [Stops -> Parent]]
        BY DEF TypeInv, TypeOK
      <3>2. p \in Parent
        BY <1>3, <3>1
      <3> QED
        BY <3>2 DEF Parent, Leg
    <2>2. ReachedVia(input.source, parents', p.prevRound, p.leg.from, p.leg.dep)
      BY <1>3, <2>1, ReachedStays DEF Recorded, ReachedBy
    <2>3. ParentOK(r, s)'
      BY <1>1, <1>3, <2>2, Numbers DEF ParentOK, ReachedBy, Recorded, RoundInv
    <2>4. ASSUME NEW q \in 0..(r - 1), parents'[q][s].set
          PROVE  p.leg.arr <= parents'[q][s].leg.arr
      <3>1. q \in 0..MaxRounds /\ q # k
        BY <1>3, Numbers DEF RoundInv
      <3>2. parents'[q][s] = parents[q][s]
        BY <3>1 DEF Improvement
      <3>3. parents[q][s].leg.arr >= tau[s]
        BY <2>4, <3>1, <3>2 DEF RoundInv, ParentsInv, ParentOK
      <3> QED
        BY <1>1, <1>3, <3>1, <3>2, <3>3 DEF Recorded
    <2> QED
      BY <1>3, <2>3, <2>4
  <1> QED
    BY <1>2, <1>3 DEF Improvement

-----------------------------------------------------------------------------
(***************************************************************************)
(* The two halves of a round are improvements.                             *)
(***************************************************************************)
LEMMA CatchableLater ==
  ASSUME NEW p, NEW i, NEW early \in Int, NEW late \in Int, early <= late,
         NEW r \in Catchable(p, i, late), Departure(p, r, i) \in Int
  PROVE  r \in Catchable(p, i, early)
  BY DEF Catchable

(***************************************************************************)
(* What alighting would record is a leg that exists, from a stop reached   *)
(* in time in the round before.                                            *)
(***************************************************************************)
LEMMA RideLegSound ==
  ASSUME IInv, pc = "scan", Riding
  PROVE  LET leg == RideLeg(Scanned)
         IN  /\ leg \in Leg /\ LegOK(input, leg)
             /\ leg.dep >= input.depTime /\ leg.arr >= input.depTime
             /\ ReachedBy(k - 1, leg.from, leg.dep)
             /\ k - 1 \in 0..k
  <1>1. /\ TypeInv /\ InputOK(input) /\ input.depTime \in Nat /\ k \in Nat /\ k > 0
        /\ scan.pattern \in DOMAIN input.patterns
        /\ scan.pos \in DOMAIN Scanned.stops
        /\ scan.boardPos \in 1..(scan.pos - 1)
        /\ scan.run \in Runs(Scanned)
    BY Numbers DEF IInv, TypeInv, RoundsInv, MidRound
  <1>2. /\ PatternOK(Scanned)
        /\ DOMAIN Scanned.stops = 1..Len(Scanned.stops)
        /\ Len(Scanned.stops) \in Nat
    BY <1>1, PatternFacts DEF Scanned
  <1>3. scan.boardPos \in DOMAIN Scanned.stops /\ scan.boardPos < scan.pos
    BY <1>1, <1>2
  <1>4. /\ scan.run \in Catchable(Scanned, scan.boardPos, input.depTime)
        /\ scan.boardDep = Departure(Scanned, scan.run, scan.boardPos)
        /\ ReachedBy(k - 1, Scanned.stops[scan.boardPos], scan.boardDep)
    BY DEF IInv, ScanInv
  <1> DEFINE leg == RideLeg(Scanned)
  <1>5. /\ leg \in Leg
        /\ leg.to = Scanned.stops[scan.pos]
        /\ leg.from = Scanned.stops[scan.boardPos]
        /\ leg.dep = scan.boardDep
        /\ leg.arr = Arrival(Scanned, scan.run, scan.pos)
        /\ leg.run = scan.run
        /\ leg.pattern = scan.pattern
    BY <1>1, RideLegType
  <1> HIDE DEF leg
  <1>6. LegOK(input, leg)
    <2>1. RideOK(input, leg)
      BY <1>1, <1>3, <1>4, <1>5 DEF RideOK, Scanned
    <2>2. leg.run.trip # NoTrip
      BY <1>1, <1>2, <1>5, RunsType
    <2> QED
      BY <2>1, <2>2 DEF LegOK
  <1>7. leg.dep >= input.depTime /\ leg.arr >= input.depTime
    <2>1. leg.dep <= leg.arr
      BY <1>1, <1>2, <1>3, <1>4, <1>5, RideForward
    <2>2. leg.dep >= input.depTime
      BY <1>4, <1>5 DEF Catchable
    <2>3. leg.dep \in Int /\ leg.arr \in Int
      BY <1>5 DEF Leg
    <2> QED
      BY <1>1, <2>1, <2>2, <2>3
  <1>8. ReachedBy(k - 1, leg.from, leg.dep) /\ k - 1 \in 0..k
    BY <1>1, <1>4, <1>5
  <1> QED
    BY <1>5, <1>6, <1>7, <1>8 DEF leg

LEMMA AlightImproves ==
  ASSUME IInv, pc = "scan", Alight(Scanned), TypeInv', k' = k, input' = input
  PROVE  Improvement
  <1> DEFINE leg == RideLeg(Scanned)
  <1>1. /\ TypeInv /\ k \in 0..MaxRounds /\ MaxRounds \in Nat
        /\ tau \in [Stops -> Int] /\ tauBest = tau /\ tau' \in [Stops -> Int]
        /\ parents \in [0..MaxRounds -> [Stops -> Parent]]
    BY ConstantsAssumption DEF IInv, LabelsInv, TypeInv, TypeOK
  <1>2. CASE ~(Riding /\ Improves(leg.arr, leg.to, bestTargetArrival))
    <2>1. UNCHANGED labels
      BY <1>2 DEF Alight
    <2>2. tau[input.target] \in Int
      BY <1>1, Numbers
    <2> QED
      BY <1>1, <2>1, <2>2 DEF labels, Improvement
  <1>3. CASE Riding /\ Improves(leg.arr, leg.to, bestTargetArrival)
    <2>1. /\ leg \in Leg /\ LegOK(input, leg)
          /\ leg.dep >= input.depTime /\ leg.arr >= input.depTime
          /\ ReachedBy(k - 1, leg.from, leg.dep)
          /\ k - 1 \in 0..k
      BY <1>3, RideLegSound
    <2>2. /\ tau' = [tau EXCEPT ![leg.to] = leg.arr]
          /\ tauBest' = [tauBest EXCEPT ![leg.to] = leg.arr]
          /\ parents' = [parents EXCEPT ![k][leg.to] = ParentOf(leg, k - 1)]
          /\ improvedTarget' = (improvedTarget \/ leg.to = input.target)
          /\ leg.arr < tau[leg.to]
      BY <1>1, <1>3 DEF Alight, Improves
    <2> HIDE DEF leg
    <2>3. leg.to \in Stops /\ leg.arr \in Int
      BY <2>1 DEF Leg
    <2>4. parents'[k][leg.to] = ParentOf(leg, k - 1) /\ tau'[leg.to] = leg.arr
      BY <1>1, <2>2, <2>3
    <2>5. tau'[leg.to] < tau[leg.to] /\ Recorded(leg.to)
      <3>1. /\ ParentOf(leg, k - 1).set /\ ParentOf(leg, k - 1).leg = leg
            /\ ParentOf(leg, k - 1).prevRound = k - 1
        BY DEF ParentOf
      <3> QED
        BY <2>1, <2>2, <2>4, <3>1 DEF Recorded, ReachedBy
    <2>6. \A s \in Stops : s # leg.to =>
            tau'[s] = tau[s] /\ \A r \in 0..MaxRounds : parents'[r][s] = parents[r][s]
      BY <1>1, <2>2, <2>3
    <2>7. \A r \in 0..MaxRounds : r # k => parents'[r] = parents[r]
      BY <1>1, <2>2
    <2>8. tauBest' = tau'
      BY <1>1, <2>2
    <2>9. improvedTarget' <=> improvedTarget \/ tau'[input.target] < tau[input.target]
      <3>1. input.target \in Stops /\ tau[input.target] \in Int
        BY <1>1, Numbers
      <3>2. CASE leg.to = input.target
        BY <2>2, <2>5, <3>2
      <3>3. CASE leg.to # input.target
        <4>1. ~(tau'[input.target] < tau[input.target])
          BY <2>6, <3>1, <3>3
        <4> QED
          BY <2>2, <3>3, <4>1
      <3> QED
        BY <3>2, <3>3
    <2> QED
      BY <1>1, <2>5, <2>6, <2>7, <2>8, <2>9 DEF Improvement
  <1> QED
    BY <1>2, <1>3

LEMMA WalkBounds ==
  ASSUME NEW low \in Nat, NEW high \in Nat, NEW walk \in Nat,
         NEW from \in low..high, NEW to \in low..high, NEW arr, arr = from + walk, arr < to
  PROVE  low <= from /\ from < high /\ low <= arr
  OBVIOUS

LEMMA RelaxImproves ==
  ASSUME IInv, pc = "walk", NEW s \in Stops, Relax(s), TypeInv', k' = k, input' = input
  PROVE  Improvement
  <1>1. /\ TypeInv /\ k \in 0..MaxRounds /\ MaxRounds \in Nat /\ Infinity \in Nat
        /\ tau \in [Stops -> Int] /\ tauBest = tau /\ tau' \in [Stops -> Int]
        /\ parents \in [0..MaxRounds -> [Stops -> Parent]]
        /\ input.depTime \in Nat
    BY ConstantsAssumption, Numbers DEF IInv, LabelsInv, TypeInv, TypeOK
  <1>2. tauBest' = tau'
    BY <1>1 DEF Relax
  <1>3. \A r \in 0..MaxRounds : r # k => parents'[r] = parents[r]
    BY <1>1 DEF Relax
  <1>4. ASSUME NEW t \in Stops, t \notin Walks(s)
        PROVE  tau'[t] = tau[t] /\ parents'[k][t] = parents[k][t]
    BY <1>1, <1>4 DEF Relax
  <1>5. ASSUME NEW t \in Walks(s)
        PROVE  tau'[t] < tau[t] /\ Recorded(t)
    <2> DEFINE leg == WalkLeg(s, t, tau[s], WalkArr(s, t))
    <2>1. /\ t \in Stops /\ t # s /\ Foot(input, s, t)
          /\ WalkArr(s, t) \in Int
          /\ WalkArr(s, t) = tau[s] + input.foot[<<s, t>>]
          /\ input.foot[<<s, t>>] \in Nat
          /\ WalkArr(s, t) < tau[t]
      BY <1>1, WalksFacts
    <2>2. tau'[t] = WalkArr(s, t) /\ parents'[k][t] = ParentOf(leg, k)
      BY <1>1, <2>1 DEF Relax
    <2>3. /\ tau[s] \in input.depTime..Infinity /\ tau[t] \in input.depTime..Infinity
          /\ tau[s] < Infinity => ReachedBy(k, s, tau[s])
      BY <2>1 DEF IInv, LabelsInv
    <2>4. ReachedBy(k, s, tau[s]) /\ tau[s] >= input.depTime /\ WalkArr(s, t) >= input.depTime
      <3>1. input.depTime <= tau[s] /\ tau[s] < Infinity /\ input.depTime <= WalkArr(s, t)
        <4> DEFINE walk == input.foot[<<s, t>>]  from == tau[s]  to == tau[t]  arr == WalkArr(s, t)
        <4>1. /\ arr = from + walk /\ walk \in Nat /\ arr < to
              /\ from \in input.depTime..Infinity /\ to \in input.depTime..Infinity
          BY <2>1, <2>3
        <4> HIDE DEF walk, from, to, arr
        <4>2. input.depTime <= from /\ from < Infinity /\ input.depTime <= arr
          BY <1>1, <4>1, WalkBounds
        <4> QED
          BY <4>2 DEF from, arr
      <3> QED
        BY <1>1, <2>1, <2>3, <3>1
    <2>5. /\ leg.from = s /\ leg.to = t /\ leg.dep = tau[s] /\ leg.arr = WalkArr(s, t)
          /\ leg.run.trip = NoTrip
      BY DEF WalkLeg, NoRun
    <2>6. LegOK(input, leg)
      BY <2>1, <2>5 DEF LegOK, WalkOK
    <2>7. ParentOf(leg, k).set /\ ParentOf(leg, k).leg = leg /\ ParentOf(leg, k).prevRound = k
      BY DEF ParentOf
    <2> HIDE DEF leg
    <2>8. k \in 0..k
      BY <1>1
    <2> QED
      BY <2>1, <2>2, <2>4, <2>5, <2>6, <2>7, <2>8 DEF Recorded, ReachedBy
  <1>6. improvedTarget' <=> improvedTarget \/ tau'[input.target] < tau[input.target]
    <2>1. input.target \in Stops /\ input.target \in Nat /\ tau[input.target] \in Int
      BY <1>1, Numbers, ConstantsAssumption
    <2>2. ReachesTarget(s) <=> input.target \in Walks(s)
      <3>1. ~(input.target < input.target)
        BY <2>1
      <3> QED
        BY <3>1 DEF ReachesTarget, Walks
    <2>3. CASE ReachesTarget(s)
      BY <1>5, <2>2, <2>3 DEF Relax
    <2>4. CASE ~ReachesTarget(s)
      <3>1. tau'[input.target] = tau[input.target]
        BY <1>4, <2>1, <2>2, <2>4
      <3>2. ~(tau'[input.target] < tau[input.target])
        BY <2>1, <3>1
      <3> QED
        BY <2>4, <3>2 DEF Relax
    <2> QED
      BY <2>3, <2>4
  <1> QED
    BY <1>1, <1>2, <1>3, <1>4, <1>5, <1>6 DEF Improvement

-----------------------------------------------------------------------------
(***************************************************************************)
(* The steps, one by one.                                                  *)
(***************************************************************************)
LEMMA InitInv == Init => IInv
  <1> SUFFICES ASSUME Init PROVE IInv
    OBVIOUS
  <1>1. TypeInv
    BY InitType
  <1>2. input.depTime \in Nat /\ input.depTime < Infinity /\ Infinity \in Nat
    BY <1>1, ConstantsAssumption DEF TypeInv, TypeOK, InputOK
  <1>3. LabelsInv
    BY <1>2 DEF Init, LabelsInv
  <1>4. ParentsInv
    BY <1>1 DEF Init, ParentsInv, TypeInv, RoundsInv
  <1> QED
    BY <1>1, <1>3, <1>4 DEF Init, IInv, ScanInv, TargetInv, MidRound, TraceInv,
       JourneysFeasible, ReconstructionFindsParents

LEMMA SeedInv == IInv /\ Seed => IInv'
  <1> SUFFICES ASSUME IInv, Seed PROVE IInv'
    OBVIOUS
  <1>1. /\ TypeInv /\ TypeInv'
        /\ MaxRounds \in Nat /\ Infinity \in Nat /\ k = 0 /\ k' = 0 /\ input' = input
        /\ input.depTime \in Nat /\ input.depTime < Infinity /\ InputOK(input)
        /\ input.source \in Stops
        /\ parents \in [0..MaxRounds -> [Stops -> Parent]]
    BY SeedType, ConstantsAssumption DEF IInv, TypeInv, TypeOK, RoundsInv, InputOK, Seed
  <1> DEFINE arr(t) == IF t = input.source THEN input.depTime
                       ELSE input.depTime + input.foot[<<input.source, t>>]
             leg(t) == WalkLeg(input.source, t, input.depTime, arr(t))
  <1>2. ASSUME NEW t \in Seeds
        PROVE  /\ t \in Stops /\ t # input.source /\ Foot(input, input.source, t)
               /\ arr(t) = input.depTime + input.foot[<<input.source, t>>]
               /\ arr(t) \in input.depTime..Infinity
               /\ tau'[t] = arr(t)
               /\ parents'[0][t] = ParentOf(leg(t), 0)
    <2>1. /\ t \in WalkFrom(input.source)
          /\ input.depTime + input.foot[<<input.source, t>>] < Infinity
      BY DEF Seeds
    <2>2. t \in Stops /\ t # input.source /\ input.foot[<<input.source, t>>] \in Nat
      BY <1>1, <2>1, WalkFacts
    <2>3. tau'[t] = arr(t)
      BY <2>2 DEF Seed
    <2>4. parents'[0][t] = ParentOf(leg(t), 0)
      BY <1>1, <2>2 DEF Seed
    <2> QED
      BY <1>1, <2>1, <2>2, <2>3, <2>4 DEF WalkFrom
  <1>3. ASSUME NEW s \in Stops, s \notin Seeds
        PROVE  /\ tau'[s] = IF s = input.source THEN input.depTime ELSE Infinity
               /\ parents'[0][s] = parents[0][s]
    BY <1>1, <1>3 DEF Seed
  <1>4. tau'[input.source] = input.depTime
    BY <1>1, <1>2, <1>3
  <1>5. ASSUME NEW r \in 0..MaxRounds, NEW s \in Stops, parents'[r][s].set
        PROVE  r = 0 /\ s \in Seeds
    <2>1. ~parents[r][s].set
      BY DEF IInv, TypeInv, RoundsInv, Seed
    <2>2. r # 0 => parents'[r] = parents[r]
      BY <1>1 DEF Seed
    <2> QED
      BY <1>3, <1>5, <2>1, <2>2
  <1>6. ASSUME NEW s \in Seeds
        PROVE  /\ parents'[0][s].set
               /\ parents'[0][s].leg.to = s /\ parents'[0][s].leg.from = input.source
               /\ LegOK(input, parents'[0][s].leg)
               /\ parents'[0][s].leg.dep = input.depTime
               /\ parents'[0][s].leg.arr = tau'[s]
               /\ parents'[0][s].prevRound = 0
    <2>1. /\ leg(s).from = input.source /\ leg(s).to = s /\ leg(s).dep = input.depTime
          /\ leg(s).arr = arr(s) /\ leg(s).run.trip = NoTrip
      BY DEF WalkLeg, NoRun
    <2>2. LegOK(input, leg(s))
      BY <1>2, <2>1 DEF LegOK, WalkOK
    <2>3. /\ ParentOf(leg(s), 0).set /\ ParentOf(leg(s), 0).leg = leg(s)
          /\ ParentOf(leg(s), 0).prevRound = 0
      BY DEF ParentOf
    <2> HIDE DEF leg
    <2> QED
      BY <1>2, <2>1, <2>2, <2>3
  <1>7. ParentsInv'
    <2> SUFFICES ASSUME NEW r \in 0..MaxRounds, NEW s \in Stops, parents'[r][s].set
                 PROVE  ParentOK(r, s)' /\ 0..(r - 1) = {}
      BY DEF ParentsInv
    <2>1. r = 0 /\ s \in Seeds
      BY <1>5
    <2>2. ReachedVia(input.source, parents', 0, input.source, input.depTime)
      BY DEF ReachedVia
    <2>3. tau'[s] \in Int
      BY <1>1 DEF TypeInv, TypeOK
    <2>4. ParentOK(r, s)'
      BY <1>1, <1>6, <2>1, <2>2, <2>3 DEF ParentOK, ReachedBy
    <2> QED
      BY <2>1, <2>4
  <1>8. LabelsInv'
    <2>1. ASSUME NEW s \in Stops
          PROVE  /\ tau'[s] \in input.depTime..Infinity
                 /\ tau'[s] < Infinity => ReachedVia(input.source, parents', 0, s, tau'[s])
      <3>1. CASE s \in Seeds
        <4>1. tau'[s] \in input.depTime..Infinity
          BY <1>2, <3>1
        <4>2. parents'[0][s].set /\ parents'[0][s].leg.arr <= tau'[s]
          BY <1>1, <1>6, <3>1, <4>1
        <4> QED
          BY <4>1, <4>2 DEF ReachedVia
      <3>2. CASE s \notin Seeds
        BY <1>1, <1>3, <3>2 DEF ReachedVia
      <3> QED
        BY <3>1, <3>2
    <2>2. tauBest' = tau' /\ tauPrev' = tau' /\ pc' = "round"
      BY DEF Seed
    <2> QED
      BY <1>1, <1>4, <2>1, <2>2 DEF LabelsInv, MidRound, PrevRound, ReachedBy
  <1> QED
    BY <1>1, <1>7, <1>8 DEF IInv, Seed, ScanInv, TargetInv, MidRound, TraceInv,
       JourneysFeasible, ReconstructionFindsParents

LEMMA StartRoundInv == IInv /\ StartRound => IInv'
  <1> SUFFICES ASSUME IInv, StartRound PROVE IInv'
    OBVIOUS
  <1>1. /\ TypeInv /\ TypeInv' /\ k' = k + 1 /\ k' - 1 = k /\ k' \in 0..MaxRounds /\ k \in Nat
        /\ MaxRounds \in Nat
        /\ UNCHANGED <<input, tau, tauBest, tauPrev, parents, trace, journeys>>
    BY StartRoundType, Numbers DEF IInv, StartRound, MoreRounds
  <1>2. ASSUME NEW s \in Stops, tau[s] < Infinity
        PROVE  ReachedVia(input.source, parents, k + 1, s, tau[s])
    <2>1. ReachedVia(input.source, parents, k, s, tau[s])
      BY <1>2 DEF IInv, LabelsInv, ReachedBy
    <2>2. /\ tau[s] \in Int /\ tau[s] <= tau[s]
          /\ \A n \in 0..MaxRounds : parents[n][s].leg.arr \in Int
      BY <1>1, Numbers
    <2>3. k + 1 \in k..MaxRounds
      BY <1>1
    <2> QED
      BY <1>1, <2>1, <2>2, <2>3, ReachedLater
  <1>3. LabelsInv'
    BY <1>1, <1>2 DEF IInv, LabelsInv, StartRound, MidRound, PrevRound, ReachedBy
  <1>4. ParentsInv'
    BY <1>1, Numbers DEF IInv, ParentsInv, ParentOK, ReachedBy
  <1> QED
    BY <1>1, <1>3, <1>4 DEF IInv, StartRound, ScanInv, TargetInv, TraceInv,
       JourneysFeasible, ReconstructionFindsParents

LEMMA FinishInv == IInv /\ Finish => IInv'
  <1> SUFFICES ASSUME IInv, Finish PROVE IInv'
    OBVIOUS
  <1>1. TypeInv' /\ UNCHANGED <<input, k, labels, tauPrev, journeys>> /\ pc' = "done" /\ pc = "round"
    BY FinishType DEF IInv, Finish
  <1>2. LabelsInv' /\ ParentsInv'
    BY <1>1 DEF IInv, LabelsInv, ParentsInv, ParentOK, ReachedBy, labels, MidRound
  <1> QED
    BY <1>1, <1>2 DEF IInv, ScanInv, TargetInv, MidRound, TraceInv,
       JourneysFeasible, ReconstructionFindsParents

LEMMA PickPatternInv == IInv /\ PickPattern => IInv'
  <1> SUFFICES ASSUME IInv, PickPattern PROVE IInv'
    OBVIOUS
  <1>1. /\ TypeInv' /\ UNCHANGED <<input, k, labels, tauPrev, journeys>>
        /\ pc' = "scan" /\ pc = "pick"
    BY PickPatternType DEF IInv, PickPattern
  <1>2. LabelsInv' /\ ParentsInv'
    BY <1>1 DEF IInv, LabelsInv, ParentsInv, ParentOK, ReachedBy, labels, MidRound, PrevRound
  <1>3. ~Riding'
    <2>1. PICK e \in queue : scan' = [IdleScan EXCEPT !.pattern = e[1], !.pos = e[2]]
      BY DEF PickPattern
    <2> QED
      BY <2>1 DEF IdleScan, NoRun, Riding
  <1> QED
    BY <1>1, <1>2, <1>3 DEF IInv, ScanInv, TargetInv, labels, MidRound, TraceInv,
       JourneysFeasible, ReconstructionFindsParents

LEMMA StartWalkInv == IInv /\ StartWalk => IInv'
  <1> SUFFICES ASSUME IInv, StartWalk PROVE IInv'
    OBVIOUS
  <1>1. /\ TypeInv' /\ UNCHANGED <<input, k, labels, tauPrev, journeys>>
        /\ pc' = "walk" /\ pc = "pick"
    BY StartWalkType DEF IInv, StartWalk
  <1>2. LabelsInv' /\ ParentsInv'
    BY <1>1 DEF IInv, LabelsInv, ParentsInv, ParentOK, ReachedBy, labels, MidRound, PrevRound
  <1> QED
    BY <1>1, <1>2 DEF IInv, ScanInv, TargetInv, labels, MidRound, TraceInv,
       JourneysFeasible, ReconstructionFindsParents

(***************************************************************************)
(* A step of a round that improves labels keeps the target's parent.       *)
(***************************************************************************)
LEMMA ImprovementKeepsTarget ==
  ASSUME IInv, Improvement, MidRound, TypeInv', k' = k, input' = input
  PROVE  TargetInv'
  <1> SUFFICES ASSUME improvedTarget'
               PROVE  input.target # input.source /\ parents'[k][input.target].set
    BY DEF TargetInv
  <1>1. /\ input.target \in Stops /\ input.source \in Stops /\ input.depTime \in Nat
        /\ tau[input.source] = input.depTime
        /\ \A s \in Stops : tau[s] \in Int /\ tau'[s] \in Int
    BY Numbers DEF IInv, LabelsInv, MidRound, Improvement
  <1>2. CASE improvedTarget
    BY <1>1, <1>2 DEF IInv, TargetInv, Improvement, Recorded
  <1>3. CASE tau'[input.target] < tau[input.target]
    BY <1>1, <1>3 DEF Improvement, Recorded
  <1> QED
    BY <1>2, <1>3 DEF Improvement

LEMMA ScanStopInv == IInv /\ ScanStop => IInv'
  <1> SUFFICES ASSUME IInv, ScanStop PROVE IInv'
    OBVIOUS
  <1>1. /\ TypeInv /\ TypeInv' /\ UNCHANGED <<input, k, tauPrev, journeys>>
        /\ pc = "scan" /\ pc' \in {"scan", "pick"}
        /\ Alight(Scanned)
    BY ScanStopType, ScanStopMoves DEF IInv, ScanStop
  <1>2. Improvement
    BY <1>1, AlightImproves
  <1>3. RoundInv /\ MidRound /\ MidRound'
    BY <1>1 DEF IInv, RoundInv, MidRound
  <1>4. LabelsInv' /\ ParentsInv' /\ TargetInv'
    BY <1>1, <1>2, <1>3, ImprovementKeepsLabels, ImprovementKeepsParents, ImprovementKeepsTarget
  <1>5. ScanInv'
    <2> SUFFICES ASSUME pc' = "scan", Riding'
                 PROVE  /\ scan'.run \in Catchable(Scanned, scan'.boardPos, input.depTime)
                        /\ scan'.boardDep = Departure(Scanned, scan'.run, scan'.boardPos)
                        /\ ReachedVia(input.source, parents', k - 1,
                                      Scanned.stops[scan'.boardPos], scan'.boardDep)
                        /\ Scanned' = Scanned
      BY <1>1 DEF ScanInv, ReachedBy
    <2>1. Scanned' = Scanned
      BY <1>1, ScanStopMoves DEF Scanned
    <2>2. /\ PatternOK(Scanned) /\ scan.pos \in DOMAIN Scanned.stops
          /\ DOMAIN Scanned.stops = 1..Len(Scanned.stops) /\ Len(Scanned.stops) \in Nat
          /\ \A i \in DOMAIN Scanned.stops : Scanned.stops[i] \in Stops
      BY <1>1, PatternFacts DEF TypeInv, TypeOK, RoundsInv, Scanned
    <2>3. k - 1 \in 0..MaxRounds
      BY <1>1, <1>3, Numbers DEF TypeInv, RoundsInv
    <2>4. CASE SameSeat
      <3>1. Riding
        BY <2>4 DEF SameSeat, Riding
      <3>2. /\ scan.run \in Catchable(Scanned, scan.boardPos, input.depTime)
            /\ scan.boardDep = Departure(Scanned, scan.run, scan.boardPos)
            /\ ReachedBy(k - 1, Scanned.stops[scan.boardPos], scan.boardDep)
        BY <1>1, <3>1 DEF IInv, ScanInv
      <3>3. scan.boardPos \in DOMAIN Scanned.stops /\ scan.boardDep \in Int
        <4>1. scan.boardPos \in 1..(scan.pos - 1)
          BY <1>1, <3>1 DEF TypeInv, RoundsInv
        <4>2. scan.boardDep \in Int
          BY <1>1 DEF TypeInv, TypeOK
        <4> QED
          BY <2>2, <4>1, <4>2
      <3>4. ReachedVia(input.source, parents', k - 1, Scanned.stops[scan.boardPos], scan.boardDep)
        BY <1>2, <1>3, <2>2, <2>3, <3>2, <3>3, ReachedStays
      <3> QED
        BY <2>1, <2>4, <3>2, <3>4 DEF SameSeat
    <2>5. CASE \E r \in Runs(Scanned) : BoardedHere(r)
      <3>1. PICK r \in Runs(Scanned) : BoardedHere(r)
        BY <2>5
      <3> DEFINE stop == Scanned.stops[scan.pos]
                 dep == Departure(Scanned, r, scan.pos)
      <3>2. /\ stop \in Stops /\ dep \in Int /\ tauPrev[stop] \in Int
            /\ input.depTime \in Nat /\ Infinity \in Nat
        BY <1>1, <2>2, RunsType, Numbers
      <3>3. tauPrev[stop] # Infinity /\ r \in Catchable(Scanned, scan.pos, tauPrev[stop])
        BY <3>1 DEF BoardedHere, Boards, Ready, EarliestTrip
      <3>4. /\ tauPrev[stop] \in input.depTime..Infinity
            /\ tauPrev[stop] < Infinity => ReachedBy(k - 1, stop, tauPrev[stop])
        BY <1>3, <3>2 DEF IInv, LabelsInv, PrevRound
      <3>5. input.depTime <= tauPrev[stop] /\ tauPrev[stop] < Infinity /\ dep >= tauPrev[stop]
        BY <3>2, <3>3, <3>4 DEF Catchable
      <3>6. r \in Catchable(Scanned, scan.pos, input.depTime)
        BY <3>2, <3>3, <3>5, CatchableLater
      <3>7. ReachedVia(input.source, parents', k - 1, stop, tauPrev[stop])
        BY <1>2, <1>3, <2>3, <3>2, <3>4, <3>5, ReachedStays
      <3>8. ReachedVia(input.source, parents', k - 1, stop, dep)
        <4>1. parents' \in [0..MaxRounds -> [Stops -> Parent]]
          BY <1>1 DEF TypeInv, TypeOK
        <4>2. \A n \in 0..MaxRounds : parents'[n][stop] \in Parent
          BY <3>2, <4>1
        <4>3. \A n \in 0..MaxRounds : parents'[n][stop].leg.arr \in Int
          BY <4>2 DEF Parent, Leg
        <4>4. k - 1 \in Nat /\ k - 1 \in (k - 1)..MaxRounds
          BY <2>3, ConstantsAssumption
        <4> HIDE DEF stop, dep
        <4> QED
          BY <3>2, <3>5, <3>7, <4>3, <4>4, ReachedLater
      <3> QED
        BY <2>1, <3>1, <3>6, <3>8 DEF BoardedHere
    <2> QED
      BY <1>1, <2>4, <2>5, ScanStopMoves
  <1> QED
    BY <1>1, <1>4, <1>5 DEF IInv, TraceInv, JourneysFeasible, ReconstructionFindsParents

LEMMA WalkFromStopInv == IInv /\ WalkFromStop => IInv'
  <1> SUFFICES ASSUME IInv, WalkFromStop PROVE IInv'
    OBVIOUS
  <1>1. /\ TypeInv /\ TypeInv' /\ UNCHANGED <<input, k, tauPrev, journeys>>
        /\ pc = "walk" /\ pc' = "walk"
    BY WalkFromStopType DEF IInv, WalkFromStop
  <1>2. PICK s \in todo : Relax(s)
    BY DEF WalkFromStop
  <1>3. s \in Stops
    BY <1>1 DEF TypeInv, TypeOK
  <1>4. Improvement
    BY <1>1, <1>2, <1>3, RelaxImproves
  <1>5. RoundInv /\ MidRound /\ MidRound'
    BY <1>1 DEF IInv, RoundInv, MidRound
  <1>6. LabelsInv' /\ ParentsInv' /\ TargetInv'
    BY <1>1, <1>4, <1>5, ImprovementKeepsLabels, ImprovementKeepsParents, ImprovementKeepsTarget
  <1> QED
    BY <1>1, <1>6 DEF IInv, ScanInv, TraceInv, JourneysFeasible, ReconstructionFindsParents

-----------------------------------------------------------------------------
(***************************************************************************)
(* The end of a round and reconstruct.                                     *)
(***************************************************************************)
LEMMA EndRoundInv == IInv /\ EndRound => IInv'
  <1> SUFFICES ASSUME IInv, EndRound PROVE IInv'
    OBVIOUS
  <1>1. /\ TypeInv /\ TypeInv' /\ UNCHANGED <<input, k, labels, journeys>> /\ pc = "walk"
        /\ k \in Nat
    BY EndRoundType, Numbers DEF IInv, EndRound
  <1>2. ParentsInv'
    BY <1>1 DEF IInv, ParentsInv, ParentOK, ReachedBy, labels
  <1>3. CASE improvedTarget
    <2>1. /\ pc' = "reconstruct" /\ tauPrev' = tauPrev
          /\ trace' = [stop |-> input.target, round |-> k, rev |-> <<>>]
      BY <1>3 DEF EndRound, IdleTrace
    <2>2. LabelsInv'
      BY <1>1, <2>1 DEF IInv, LabelsInv, ReachedBy, labels, MidRound
    <2>3. TraceInv'
      <3>1. input.target # input.source /\ parents[k][input.target].set
        BY <1>1, <1>3 DEF IInv, TargetInv, MidRound
      <3>2. k \in 0..k
        BY <1>1
      <3> QED
        BY <1>1, <2>1, <3>1, <3>2 DEF TraceInv, TraceOf, labels
    <2> QED
      BY <1>1, <1>2, <2>1, <2>2, <2>3 DEF IInv, ScanInv, TargetInv, MidRound,
         JourneysFeasible, ReconstructionFindsParents
  <1>4. CASE ~improvedTarget
    <2>1. pc' = "round" /\ tauPrev' = tau
      BY <1>4 DEF EndRound
    <2>2. LabelsInv'
      BY <1>1, <2>1 DEF IInv, LabelsInv, ReachedBy, labels, MidRound, PrevRound
    <2> QED
      BY <1>1, <1>2, <2>1, <2>2 DEF IInv, ScanInv, TargetInv, TraceInv, MidRound,
         JourneysFeasible, ReconstructionFindsParents
  <1> QED
    BY <1>3, <1>4

(***************************************************************************)
(* A stop that was reached in time still has, in the last round that set   *)
(* a parent for it, one that arrives in time.                              *)
(***************************************************************************)
LEMMA LastSetInTime ==
  ASSUME TypeInv, ParentsInv,
         NEW s \in Stops, NEW round \in 0..MaxRounds, NEW time \in Int,
         NEW r, LastSet(s, round, r),
         NEW q \in 0..round, parents[q][s].set, parents[q][s].leg.arr <= time
  PROVE  parents[r][s].leg.arr <= time
  <1>1. r \in 0..round /\ parents[r][s].set /\ \A n \in (r + 1)..round : ~parents[n][s].set
    BY DEF LastSet
  <1>2. r \in 0..MaxRounds /\ q \in 0..MaxRounds
    BY <1>1, Numbers
  <1>3. q \in 0..(r - 1) \/ q = r
    BY <1>1, Numbers
  <1>4. q \in 0..(r - 1) => parents[r][s].leg.arr <= parents[q][s].leg.arr
    BY <1>1, <1>2 DEF ParentsInv
  <1> QED
    BY <1>2, <1>3, <1>4, Numbers

LEMMA FollowParentInv == IInv /\ FollowParent => IInv'
  <1> SUFFICES ASSUME IInv, FollowParent PROVE IInv'
    OBVIOUS
  <1> DEFINE stop == trace.stop  round == trace.round  rev == trace.rev
  <1>1. /\ TypeInv /\ TypeInv' /\ ParentsInv /\ UNCHANGED <<input, k, labels, tauPrev, journeys>>
        /\ pc = "reconstruct" /\ stop # input.source
        /\ stop \in Stops /\ round \in 0..MaxRounds /\ rev \in Seq(Leg)
        /\ TraceOf(rev, stop, round)
    BY FollowParentType DEF IInv, TypeInv, TypeOK, FollowParent, TraceInv
  <1>2. Len(rev) \in Nat /\ (rev # <<>> => Len(rev) > 0 /\ rev[Len(rev)] \in Leg)
    BY <1>1
  <1>3. \E q \in 0..round : parents[q][stop].set
    BY <1>1 DEF TraceOf, ReachedBy, ReachedVia
  <1>4. PICK r \in 0..round : Follows(r)
    BY <1>3, FollowParentMoves, <1>1
  <1> DEFINE p == parents[r][stop]
  <1>5. /\ r \in 0..MaxRounds /\ p.set /\ LastSet(stop, round, r)
        /\ trace' = [stop |-> p.leg.from, round |-> p.prevRound, rev |-> Append(rev, p.leg)]
        /\ pc' \in {"cycle", "reconstruct"}
    BY <1>1, <1>4, Numbers DEF Follows, LastSet
  <1>6. /\ p.leg.to = stop /\ LegOK(input, p.leg) /\ p.leg.dep >= input.depTime
        /\ ReachedVia(input.source, parents, p.prevRound, p.leg.from, p.leg.dep)
        /\ p.leg \in Leg
    BY <1>1, <1>5, Numbers DEF ParentsInv, ParentOK, ReachedBy
  <1>7. rev # <<>> => p.leg.arr <= rev[Len(rev)].dep
    <2> SUFFICES ASSUME rev # <<>> PROVE p.leg.arr <= rev[Len(rev)].dep
      OBVIOUS
    <2>1. rev[Len(rev)].dep \in Int
      BY <1>2 DEF Leg
    <2>2. PICK q \in 0..round : parents[q][stop].set /\ parents[q][stop].leg.arr <= rev[Len(rev)].dep
      BY <1>1 DEF TraceOf, ReachedBy, ReachedVia
    <2> HIDE DEF stop, round, rev
    <2> QED
      BY <1>1, <1>5, <2>1, <2>2, LastSetInTime
  <1> HIDE DEF stop, round, rev, p
  <1> DEFINE more == Append(rev, p.leg)
             n == Len(rev)
  <1>8. /\ Len(more) = n + 1 /\ more # <<>> /\ more[n + 1] = p.leg
        /\ \A i \in 1..n : more[i] = rev[i]
    BY <1>1, <1>6
  <1>9. TraceOf(more, p.leg.from, p.prevRound)
    <2>1. CASE rev = <<>>
      <3>1. n = 0 /\ stop = input.target
        BY <1>1, <2>1 DEF TraceOf
      <3> QED
        BY <1>6, <1>8, <3>1 DEF TraceOf, ReachedBy
    <2>2. CASE rev # <<>>
      <3>1. /\ \A i \in 1..n : LegOK(input, rev[i]) /\ rev[i].dep >= input.depTime
            /\ \A i \in 1..(n - 1) : rev[i + 1].to = rev[i].from /\ rev[i + 1].arr <= rev[i].dep
            /\ rev[1].to = input.target
            /\ rev[n].from = stop
            /\ n \in Nat /\ n > 0
        BY <1>1, <1>2, <2>2 DEF TraceOf
      <3> HIDE DEF more, n
      <3>2. \A i \in 1..(n + 1) : LegOK(input, more[i]) /\ more[i].dep >= input.depTime
        BY <1>6, <1>8, <3>1
      <3>3. \A i \in 1..n : more[i + 1].to = more[i].from /\ more[i + 1].arr <= more[i].dep
        <4> SUFFICES ASSUME NEW i \in 1..n
                     PROVE  more[i + 1].to = more[i].from /\ more[i + 1].arr <= more[i].dep
          OBVIOUS
        <4>1. CASE i = n
          BY <1>6, <1>7, <1>8, <2>2, <3>1, <4>1 DEF n
        <4>2. CASE i # n
          <5>1. i \in 1..(n - 1) /\ i + 1 \in 1..n
            BY <3>1, <4>2
          <5> QED
            BY <1>8, <3>1, <5>1
        <4> QED
          BY <4>1, <4>2
      <3>4. more[1].to = input.target /\ more[n + 1].from = p.leg.from /\ more[n + 1].dep = p.leg.dep
        BY <1>8, <3>1
      <3>5. Len(more) = n + 1 /\ (n + 1) - 1 = n
        BY <1>8, <3>1
      <3> QED
        BY <1>6, <1>8, <3>2, <3>3, <3>4, <3>5 DEF TraceOf, ReachedBy
    <2> QED
      BY <2>1, <2>2
  <1>10. TraceInv'
    BY <1>1, <1>5, <1>9 DEF TraceInv, TraceOf, ReachedBy, labels
  <1>11. LabelsInv' /\ ParentsInv'
    BY <1>1, <1>5 DEF IInv, LabelsInv, ParentsInv, ParentOK, ReachedBy, labels, MidRound
  <1> QED
    BY <1>1, <1>5, <1>10, <1>11 DEF IInv, ScanInv, TargetInv, MidRound,
       JourneysFeasible, ReconstructionFindsParents

(***************************************************************************)
(* Legs found from the target back to the source make a feasible journey   *)
(* when read backwards.                                                    *)
(***************************************************************************)
LEMMA ReversedIsFeasible ==
  ASSUME NEW round, NEW rev \in Seq(Leg), rev # <<>>, TraceOf(rev, input.source, round)
  PROVE  Feasible(input, JourneyOf(rev))
  <1> DEFINE n == Len(rev)
             legs == [i \in 1..n |-> rev[n + 1 - i]]
  <1>1. n \in Nat /\ n > 0
    OBVIOUS
  <1>2. Len(legs) = n
    BY ReversedLegs
  <1>3. \A i \in 1..n : n + 1 - i \in 1..n /\ legs[i] = rev[n + 1 - i]
    BY ReversedLegs
  <1>4. /\ \A i \in 1..n : LegOK(input, rev[i]) /\ rev[i].dep >= input.depTime
        /\ \A i \in 1..(n - 1) : rev[i + 1].to = rev[i].from /\ rev[i + 1].arr <= rev[i].dep
        /\ rev[1].to = input.target
        /\ rev[n].from = input.source
    BY DEF TraceOf
  <1>5. /\ JourneyOf(rev).legs = legs /\ JourneyOf(rev).departure = legs[1].dep
        /\ JourneyOf(rev).arrival = legs[Len(legs)].arr
    BY DEF JourneyOf
  <1> HIDE DEF legs, n
  <1>6. \A i \in 1..n : LegOK(input, legs[i])
    BY <1>3, <1>4
  <1>7. ASSUME NEW i \in 1..(n - 1)
        PROVE  legs[i].to = legs[i + 1].from /\ legs[i].arr <= legs[i + 1].dep
    <2>1. n - i \in 1..(n - 1) /\ (n - i) + 1 = n + 1 - i /\ n + 1 - (i + 1) = n - i
      BY <1>1
    <2>2. legs[i] = rev[(n - i) + 1] /\ legs[i + 1] = rev[n - i]
      BY <1>1, <1>3, <2>1
    <2> QED
      BY <1>4, <2>1, <2>2
  <1>8. legs[1] = rev[n] /\ legs[n] = rev[1]
    BY <1>1, <1>3
  <1>9. n \in 1..n
    BY <1>1
  <1> QED
    BY <1>1, <1>2, <1>4, <1>5, <1>6, <1>7, <1>8, <1>9 DEF Feasible

LEMMA EmitJourneyInv == IInv /\ EmitJourney => IInv'
  <1> SUFFICES ASSUME IInv, EmitJourney PROVE IInv'
    OBVIOUS
  <1>1. /\ TypeInv /\ TypeInv' /\ UNCHANGED <<input, k, labels>> /\ pc = "reconstruct"
        /\ trace.rev \in Seq(Leg) /\ trace.stop = input.source
        /\ TraceOf(trace.rev, input.source, trace.round)
    BY EmitJourneyType DEF IInv, TypeInv, TypeOK, EmitJourney, TraceInv
  <1>2. trace.rev # <<>>
    BY <1>1 DEF TraceOf
  <1>3. journeys' = Append(journeys, JourneyOf(trace.rev)) /\ tauPrev' = tau /\ pc' = "round"
    BY <1>2 DEF EmitJourney
  <1>4. LabelsInv' /\ ParentsInv'
    <2>1. LabelsInv'
      BY <1>1, <1>3 DEF IInv, LabelsInv, ReachedBy, labels, MidRound, PrevRound
    <2>2. ParentsInv'
      BY <1>1 DEF IInv, ParentsInv, ParentOK, ReachedBy, labels
    <2> QED
      BY <2>1, <2>2
  <1>5. JourneysFeasible'
    <2>1. Feasible(input, JourneyOf(trace.rev))
      BY <1>1, <1>2, ReversedIsFeasible
    <2>2. ASSUME NEW i \in DOMAIN journeys'
          PROVE  \/ journeys'[i] = JourneyOf(trace.rev)
                 \/ (i \in DOMAIN journeys /\ journeys'[i] = journeys[i])
      <3>1. journeys \in Seq(Journey)
        BY <1>1 DEF TypeInv, TypeOK
      <3>2. JourneyOf(trace.rev) \in Journey
        BY <1>1, <1>2, JourneyOfType
      <3> QED
        BY <1>3, <3>1, <3>2
    <2> QED
      BY <1>1, <2>1, <2>2 DEF IInv, JourneysFeasible
  <1> QED
    BY <1>1, <1>3, <1>4, <1>5 DEF IInv, ScanInv, TargetInv, MidRound, TraceInv,
       ReconstructionFindsParents

LEMMA StutterInv == IInv /\ UNCHANGED vars => IInv'
  <1> SUFFICES ASSUME IInv, UNCHANGED vars PROVE IInv'
    OBVIOUS
  <1>1. TypeInv'
    BY StutterType DEF IInv
  <1> QED
    BY <1>1 DEF IInv, LabelsInv, ParentsInv, ParentOK, ScanInv, TargetInv, TraceInv, TraceOf,
       ReachedBy, MidRound, PrevRound, Riding, Scanned, JourneysFeasible,
       ReconstructionFindsParents, vars

(***************************************************************************)
(* The inductive invariant holds of every call: in particular every label  *)
(* is reached by the parent stored for it, a run that is on board can be   *)
(* boarded, and parents lead back to a stop the rider walks from.          *)
(***************************************************************************)
THEOREM InvariantHolds == Spec => []IInv
  <1>1. IInv /\ [Next]_vars => IInv'
    BY SeedInv, StartRoundInv, FinishInv, PickPatternInv, ScanStopInv, StartWalkInv,
       WalkFromStopInv, EndRoundInv, FollowParentInv, EmitJourneyInv, StutterInv
       DEF Next, Returned
  <1> QED
    BY <1>1, InitInv, PTL DEF Spec

(***************************************************************************)
(* Whatever the network, the query and the order in which Go iterates its  *)
(* maps, a rider can make every journey Query returns.                     *)
(***************************************************************************)
THEOREM JourneysAreFeasible == Spec => []JourneysFeasible
  <1>1. IInv => JourneysFeasible
    BY DEF IInv
  <1> QED
    BY <1>1, InvariantHolds, PTL

(***************************************************************************)
(* reconstruct never fails for want of a parent (raptor.go:253), and the   *)
(* journey it builds has a leg, so taking its last one (raptor.go:277)     *)
(* does not panic.                                                         *)
(***************************************************************************)
THEOREM ParentsAreFound == Spec => []ReconstructionFindsParents
  <1>1. IInv => ReconstructionFindsParents
    BY DEF IInv
  <1> QED
    BY <1>1, InvariantHolds, PTL

-----------------------------------------------------------------------------
(***************************************************************************)
(* Journeys improve.  ImproveInv is inductive relative to IInv.            *)
(***************************************************************************)
LEMMA LastIsNumber ==
  ASSUME TypeInv, journeys # <<>>
  PROVE  LastArrival \in Int
  <1>1. journeys \in Seq(Journey)
    BY DEF TypeInv, TypeOK
  <1>2. journeys[Len(journeys)] \in Journey
    BY <1>1
  <1> QED
    BY <1>2 DEF LastArrival, Journey

LEMMA ImprovementKeepsOrder ==
  ASSUME IInv, ImproveInv, Improvement, MidRound, MidRound', k' = k,
         UNCHANGED <<input, journeys>>
  PROVE  ImproveInv'
  <1> DEFINE t == input.target
  <1>1. t \in Stops /\ tau[t] \in Int /\ tau'[t] \in Int
    BY Numbers DEF IInv, Improvement
  <1>2. /\ journeys # <<>> /\ improvedTarget => tau[t] < LastArrival
        /\ journeys # <<>> /\ ~improvedTarget => tau[t] = LastArrival
        /\ journeys # <<>> => LastArrival \in Int
        /\ improvedTarget => parents[k][t].set /\ parents[k][t].leg.arr = tau[t]
    BY LastIsNumber DEF ImproveInv, Improved, TargetParent, IInv
  <1>3. LastArrival' = LastArrival /\ t' = t
    BY DEF LastArrival
  <1>4. \/ /\ tau'[t] = tau[t] /\ parents'[k][t] = parents[k][t]
           /\ improvedTarget' <=> improvedTarget
        \/ /\ tau'[t] < tau[t] /\ improvedTarget'
           /\ parents'[k][t].set /\ parents'[k][t].leg.arr = tau'[t]
    BY <1>1 DEF Improvement, Recorded
  <1>5. /\ journeys # <<>> /\ improvedTarget' => tau'[t] < LastArrival
        /\ journeys # <<>> /\ ~improvedTarget' => tau'[t] = LastArrival
        /\ improvedTarget' => parents'[k][t].set /\ parents'[k][t].leg.arr = tau'[t]
    BY <1>1, <1>2, <1>4
  <1> QED
    BY <1>3, <1>5 DEF ImproveInv, Improved, TargetParent, MidRound

LEMMA StartRoundOrder == IInv /\ ImproveInv /\ StartRound => ImproveInv'
  BY DEF StartRound, ImproveInv, Improved, TargetParent, LastArrival, MidRound

LEMMA EndRoundOrder == IInv /\ ImproveInv /\ EndRound => ImproveInv'
  <1> SUFFICES ASSUME IInv, ImproveInv, EndRound PROVE ImproveInv'
    OBVIOUS
  <1>1. UNCHANGED <<input, k, labels, journeys>> /\ pc = "walk" /\ MidRound
    BY DEF EndRound, MidRound
  <1>2. CASE improvedTarget
    BY <1>1, <1>2 DEF EndRound, ImproveInv, Improved, TargetParent, LastArrival, MidRound,
       IdleTrace, labels
  <1>3. CASE ~improvedTarget
    BY <1>1, <1>3 DEF EndRound, ImproveInv, Improved, TargetParent, LastArrival, MidRound, labels
  <1> QED
    BY <1>2, <1>3

(***************************************************************************)
(* The first leg reconstruct records is the target's parent of this round, *)
(* the one that arrives with the target's label.                           *)
(***************************************************************************)
LEMMA FollowParentOrder == IInv /\ ImproveInv /\ FollowParent => ImproveInv'
  <1> SUFFICES ASSUME IInv, ImproveInv, FollowParent PROVE ImproveInv'
    OBVIOUS
  <1>1. /\ TypeInv /\ UNCHANGED <<input, k, labels, journeys>> /\ pc = "reconstruct"
        /\ pc' \in {"noparent", "cycle", "reconstruct"}
        /\ trace.rev \in Seq(Leg) /\ trace.stop \in Stops /\ k \in 0..MaxRounds
        /\ MaxRounds \in Nat
    BY Numbers DEF IInv, TypeInv, TypeOK, FollowParent
  <1>2. pc' = "reconstruct" => trace'.rev # <<>> /\ trace'.rev[1].arr = tau[input.target]
    <2> SUFFICES ASSUME pc' = "reconstruct"
                 PROVE  trace'.rev # <<>> /\ trace'.rev[1].arr = tau[input.target]
      OBVIOUS
    <2>1. \E q \in 0..trace.round : parents[q][trace.stop].set
      BY DEF FollowParent
    <2>2. PICK r \in 0..trace.round : Follows(r)
      BY <1>1, <2>1, FollowParentMoves DEF IInv
    <2> DEFINE leg == parents[r][trace.stop].leg
    <2>3. /\ trace'.rev = Append(trace.rev, leg)
          /\ LastSet(trace.stop, trace.round, r)
      BY <2>2 DEF Follows
    <2>4. trace.round \in 0..MaxRounds /\ r \in 0..MaxRounds
      BY <1>1 DEF TypeInv, TypeOK
    <2>5. leg \in Leg
      BY <1>1, <2>4, Numbers
    <2>6. CASE trace.rev = <<>>
      <3>1. trace.stop = input.target /\ trace.round = k /\ TargetParent
        BY <1>1, <2>6 DEF ImproveInv
      <3>2. r = k
        BY <1>1, <2>3, <3>1 DEF LastSet, TargetParent
      <3>3. leg.arr = tau[input.target]
        BY <3>1, <3>2 DEF TargetParent
      <3> HIDE DEF leg
      <3>4. trace'.rev = <<leg>>
        BY <2>3, <2>6
      <3> QED
        BY <3>3, <3>4
    <2>7. CASE trace.rev # <<>>
      <3>1. trace.rev[1].arr = tau[input.target]
        BY <1>1, <2>7 DEF ImproveInv
      <3> HIDE DEF leg
      <3>2. trace'.rev # <<>> /\ trace'.rev[1] = trace.rev[1]
        BY <1>1, <2>3, <2>5, <2>7
      <3> QED
        BY <3>1, <3>2
    <2> QED
      BY <2>6, <2>7
  <1> QED
    BY <1>1, <1>2 DEF ImproveInv, Improved, TargetParent, LastArrival, MidRound, labels

(* The journey a round reports arrives with the label it ended with.       *)
LEMMA JourneyArrives ==
  ASSUME IInv, ImproveInv, EmitJourney
  PROVE  LET j == JourneyOf(trace.rev)
         IN  /\ journeys' = Append(journeys, j) /\ pc' = "round"
             /\ j \in Journey /\ j.arrival = tau[input.target]
  <1> DEFINE j == JourneyOf(trace.rev)
  <1>1. TypeInv /\ pc = "reconstruct" /\ trace.rev \in Seq(Leg)
    BY DEF IInv, TypeInv, TypeOK, EmitJourney
  <1>2. trace.rev # <<>>
    BY <1>1 DEF IInv, TraceInv, TraceOf, EmitJourney
  <1>3. journeys' = Append(journeys, j) /\ pc' = "round"
    BY <1>2 DEF EmitJourney
  <1>4. j \in Journey /\ j.arrival = tau[input.target]
    <2>1. trace.rev[1].arr = tau[input.target]
      BY <1>1, <1>2 DEF ImproveInv
    <2> DEFINE m == Len(trace.rev)
               legs == [i \in 1..m |-> trace.rev[m + 1 - i]]
    <2>2. m \in Nat /\ m > 0 /\ Len(legs) = m
      BY <1>1, <1>2, ReversedLegs
    <2>3. j.arrival = legs[Len(legs)].arr
      BY DEF JourneyOf
    <2>4. legs[m] = trace.rev[1]
      BY <2>2
    <2>5. j \in Journey
      BY <1>1, <1>2, JourneyOfType
    <2> QED
      BY <2>1, <2>2, <2>3, <2>4, <2>5
  <1> QED
    BY <1>3, <1>4

LEMMA EmitJourneyOrder == IInv /\ ImproveInv /\ EmitJourney => ImproveInv'
  <1> SUFFICES ASSUME IInv, ImproveInv, EmitJourney PROVE ImproveInv'
    OBVIOUS
  <1> DEFINE j == JourneyOf(trace.rev)
             n == Len(journeys)
  <1>1. /\ TypeInv /\ UNCHANGED <<input, k, labels>> /\ pc = "reconstruct"
        /\ trace.rev \in Seq(Leg) /\ journeys \in Seq(Journey)
        /\ tau[input.target] \in Int
    BY Numbers DEF IInv, TypeInv, TypeOK, EmitJourney
  <1>2. /\ journeys' = Append(journeys, j) /\ pc' = "round"
        /\ j \in Journey /\ j.arrival = tau[input.target]
    BY JourneyArrives
  <1> HIDE DEF j
  <1>3. /\ n \in Nat /\ Len(journeys') = n + 1 /\ journeys'[n + 1] = j /\ journeys' # <<>>
        /\ DOMAIN journeys' = 1..(n + 1) /\ DOMAIN journeys = 1..n
        /\ \A i \in 1..n : journeys'[i] = journeys[i] /\ journeys[i].arrival \in Int
    <2>1. \A i \in 1..n : journeys[i] \in Journey
      BY <1>1
    <2>2. \A i \in 1..n : journeys[i].arrival \in Int
      BY <2>1 DEF Journey
    <2>3. j \in Journey
      BY <1>2
    <2> QED
      BY <1>1, <1>2, <2>2, <2>3
  <1>4. n > 0 => journeys[n].arrival > j.arrival
    <2> SUFFICES ASSUME n > 0 PROVE journeys[n].arrival > j.arrival
      OBVIOUS
    <2>1. journeys # <<>> /\ n \in 1..n
      BY <1>3
    <2>2. tau[input.target] < journeys[n].arrival
      BY <1>1, <2>1 DEF ImproveInv, Improved, LastArrival
    <2> QED
      BY <1>1, <1>2, <1>3, <2>1, <2>2
  <1>5. \A a, b \in DOMAIN journeys : a < b => journeys[b].arrival < journeys[a].arrival
    BY DEF ImproveInv
  <1>6. ASSUME NEW a \in DOMAIN journeys', NEW b \in DOMAIN journeys', a < b
        PROVE  journeys'[b].arrival < journeys'[a].arrival
    <2> HIDE DEF n
    <2>1. a \in 1..n
      BY <1>3, <1>6
    <2>2. CASE b \in 1..n
      BY <1>3, <1>5, <1>6, <2>1, <2>2
    <2>3. CASE b = n + 1
      <3>1. n > 0 /\ n \in 1..n /\ (a = n \/ a < n) /\ j.arrival \in Int
        BY <1>1, <1>2, <1>3, <2>1
      <3>2. journeys[n].arrival <= journeys[a].arrival
        BY <1>3, <1>5, <2>1, <3>1
      <3> QED
        BY <1>3, <1>4, <2>1, <2>3, <3>1, <3>2
    <2> QED
      BY <1>3, <2>2, <2>3
  <1>7. LastArrival' = tau[input.target]
    BY <1>2, <1>3 DEF LastArrival
  <1> QED
    BY <1>1, <1>2, <1>3, <1>6, <1>7 DEF ImproveInv, Improved, TargetParent, MidRound, labels

LEMMA OrderKept == IInv /\ IInv' /\ ImproveInv /\ [Next]_vars => ImproveInv'
  <1> SUFFICES ASSUME IInv, IInv', ImproveInv, [Next]_vars PROVE ImproveInv'
    OBVIOUS
  <1>1. CASE Seed
    BY <1>1 DEF Seed, ImproveInv, Improved, MidRound
  <1>2. CASE Finish
    BY <1>2 DEF Finish, ImproveInv, Improved, MidRound, LastArrival, labels
  <1>3. CASE PickPattern
    BY <1>3 DEF PickPattern, ImproveInv, Improved, MidRound, LastArrival, TargetParent, labels
  <1>4. CASE StartWalk
    BY <1>4 DEF StartWalk, ImproveInv, Improved, MidRound, LastArrival, TargetParent, labels
  <1>5. CASE ScanStop
    <2>1. /\ UNCHANGED <<input, k, journeys>> /\ pc = "scan" /\ pc' \in {"scan", "pick"}
          /\ Alight(Scanned) /\ TypeInv'
      BY <1>5, ScanStopMoves DEF IInv, ScanStop
    <2>2. Improvement
      BY <2>1, AlightImproves
    <2> QED
      BY <2>1, <2>2, ImprovementKeepsOrder DEF MidRound
  <1>6. CASE WalkFromStop
    <2>1. /\ UNCHANGED <<input, k, journeys>> /\ pc = "walk" /\ pc' = "walk" /\ TypeInv'
      BY <1>6 DEF WalkFromStop, IInv
    <2>2. PICK s \in todo : Relax(s)
      BY <1>6 DEF WalkFromStop
    <2>3. s \in Stops
      BY DEF IInv, TypeInv, TypeOK
    <2>4. Improvement
      BY <2>1, <2>2, <2>3, RelaxImproves
    <2> QED
      BY <2>1, <2>4, ImprovementKeepsOrder DEF MidRound
  <1>7. CASE UNCHANGED vars
    BY <1>7 DEF vars, ImproveInv, Improved, MidRound, LastArrival, TargetParent
  <1> QED
    BY <1>1, <1>2, <1>3, <1>4, <1>5, <1>6, <1>7,
       StartRoundOrder, EndRoundOrder, FollowParentOrder, EmitJourneyOrder
       DEF Next, Returned

LEMMA InitImprove == Init => ImproveInv
  BY DEF Init, ImproveInv, Improved, MidRound

(***************************************************************************)
(* Each journey arrives strictly earlier than the one before it, and the   *)
(* last one reports the label the target ended with: the label improves    *)
(* only in a round that reports a journey (raptor.go:226).                 *)
(***************************************************************************)
THEOREM JourneysAlwaysImprove == Spec => []JourneysImprove
  <1>1. Init => ImproveInv
    BY InitImprove
  <1>2. ImproveInv => JourneysImprove
    BY DEF ImproveInv, JourneysImprove, LastArrival
  <1>3. Spec => []IInv
    BY InvariantHolds
  <1>4. Spec => []ImproveInv
    BY <1>1, <1>3, OrderKept, PTL DEF Spec
  <1> QED
    BY <1>2, <1>4, PTL

=============================================================================
