------------------------------- MODULE Raptor -------------------------------
(***************************************************************************)
(* raptor.Engine.Query (internal/raptor/raptor.go): the rounds of RAPTOR   *)
(* and the reconstruction of the journeys they find.                       *)
(*                                                                         *)
(* A call works on arrays it allocates itself, so one behaviour is one     *)
(* call.  Go leaves the order in which a map is iterated unspecified; the  *)
(* two such loops (over `queue`, and over the snapshot of `marked`) take   *)
(* their next element nondeterministically here.  One step is one          *)
(* iteration of a loop: of the loop over the positions of a pattern, of    *)
(* the loop over the stops to walk from, of the loop of reconstruct.       *)
(*                                                                         *)
(* Positions count from 1, the program's from 0.                           *)
(***************************************************************************)
EXTENDS Network

CONSTANT Inputs   \* the queries to answer

ASSUME InputsAssumption == \A in \in Inputs : InputOK(in)

VARIABLES
  input,              \* the engine's data and the arguments of the call
  pc,                 \* where the call is
  k,                  \* the current round
  tau,                \* labels of the current round
  tauPrev,            \* labels of the previous round, which boarding reads
  tauBest,            \* best labels over all rounds, for pruning
  parents,            \* parents[r][s]: how s was reached in round r
  marked,             \* stops improved in this round
  queue,              \* patterns still to scan, as pairs <<pattern, position>>
  scan,               \* locals of the loop over a pattern's positions
  todo,               \* stops still to walk from (rest of transitMarked)
  bestTargetArrival,
  improvedTarget,
  trace,              \* locals of reconstruct
  journeys

vars == <<input, pc, k, tau, tauPrev, tauBest, parents, marked, queue, scan,
          todo, bestTargetArrival, improvedTarget, trace, journeys>>

labels == <<tau, tauBest, parents, marked, bestTargetArrival, improvedTarget>>

-----------------------------------------------------------------------------
(***************************************************************************)
(* Data.  A leg on foot has no pattern and no run.                         *)
(***************************************************************************)
Run == [trip : Int, off : {0, -Day}]

Leg == [pattern : Nat, run : Run, from : Stops, to : Stops, dep : Int, arr : Int]

Parent == [set : BOOLEAN, leg : Leg, prevRound : 0..MaxRounds]

Journey == [legs : Seq(Leg), departure : Int, arrival : Int, transfers : Int]

NoParent(in) ==
  [set |-> FALSE, prevRound |-> 0,
   leg |-> [pattern |-> 0, run |-> NoRun, from |-> in.source, to |-> in.source,
            dep |-> 0, arr |-> 0]]

WalkLeg(s, t, dep, arr) ==
  [pattern |-> 0, run |-> NoRun, from |-> s, to |-> t, dep |-> dep, arr |-> arr]

(* Mutant: prevRound is left at its zero value. *)
ParentOfRoundZero(leg, r) == [set |-> TRUE, leg |-> leg, prevRound |-> 0]

ParentOf(leg, r) == [set |-> TRUE, leg |-> leg, prevRound |-> r]

IdleScan == [pattern |-> 0, pos |-> 0, run |-> NoRun, boardPos |-> 0, boardDep |-> 0]

IdleTrace(in) == [stop |-> in.target, round |-> 0, rev |-> <<>>]

Scanned == input.patterns[scan.pattern]

-----------------------------------------------------------------------------
(***************************************************************************)
(* Query allocates its arrays, then seeds the source and the stops within  *)
(* walking distance of it.                                                 *)
(***************************************************************************)
Init ==
  /\ input \in Inputs
  /\ pc = "seed"
  /\ k = 0
  /\ tau = [s \in Stops |-> Infinity]
  /\ tauPrev = tau
  /\ tauBest = tau
  /\ parents = [r \in 0..MaxRounds |-> [s \in Stops |-> NoParent(input)]]
  /\ marked = {}
  /\ queue = {}
  /\ scan = IdleScan
  /\ todo = {}
  /\ bestTargetArrival = Infinity
  /\ improvedTarget = FALSE
  /\ trace = IdleTrace(input)
  /\ journeys = <<>>

WalkFrom(s) == {t \in Stops : Foot(input, s, t)}

Seeds ==
  {t \in WalkFrom(input.source) : input.depTime + input.foot[<<input.source, t>>] < Infinity}

Seed ==
  LET arr(t) == IF t = input.source THEN input.depTime
                ELSE input.depTime + input.foot[<<input.source, t>>]
      reached == {input.source} \cup Seeds
  IN  /\ pc = "seed"
      /\ tau' = [s \in Stops |-> IF s \in reached THEN arr(s) ELSE Infinity]
      /\ tauPrev' = tau'
      /\ tauBest' = tau'
      /\ parents' = [parents EXCEPT ![0] = [s \in Stops |->
                       IF s \in Seeds
                       THEN ParentOf(WalkLeg(input.source, s, input.depTime, arr(s)), 0)
                       ELSE @[s]]]
      /\ marked' = reached
      /\ pc' = "round"
      /\ UNCHANGED <<input, k, queue, scan, todo, bestTargetArrival,
                     improvedTarget, trace, journeys>>

-----------------------------------------------------------------------------
(***************************************************************************)
(* The head of the loop over rounds: queue every pattern that serves a     *)
(* marked stop, from its earliest marked position on.                      *)
(***************************************************************************)
(* Mutant: the last marked position of a pattern wins. *)
QueueOfLatest(stops) ==
  UNION {{<<pi, i>> : i \in {i \in DOMAIN input.patterns[pi].stops :
            /\ input.patterns[pi].stops[i] \in stops
            /\ \A j \in (i + 1)..Len(input.patterns[pi].stops) :
                 input.patterns[pi].stops[j] \notin stops}}
         : pi \in DOMAIN input.patterns}

QueueOf(stops) ==
  UNION {{<<pi, i>> : i \in {i \in DOMAIN input.patterns[pi].stops :
            /\ input.patterns[pi].stops[i] \in stops
            /\ \A j \in 1..(i - 1) : input.patterns[pi].stops[j] \notin stops}}
         : pi \in DOMAIN input.patterns}

MoreRounds == k < MaxRounds /\ marked # {}

StartRound ==
  /\ pc = "round"
  /\ MoreRounds
  /\ k' = k + 1
  /\ queue' = QueueOf(marked)
  /\ marked' = {}
  /\ improvedTarget' = FALSE
  /\ pc' = "pick"
  /\ UNCHANGED <<input, tau, tauPrev, tauBest, parents, scan, todo,
                 bestTargetArrival, trace, journeys>>

Finish ==
  /\ pc = "round"
  /\ ~MoreRounds
  /\ pc' = "done"
  /\ UNCHANGED <<input, k, queue, scan, todo, labels, tauPrev, trace, journeys>>

-----------------------------------------------------------------------------
(***************************************************************************)
(* The scan of one pattern.                                                *)
(***************************************************************************)
PickPattern ==
  /\ pc = "pick"
  /\ \E e \in queue :
       /\ queue' = queue \ {e}
       /\ scan' = [IdleScan EXCEPT !.pattern = e[1], !.pos = e[2]]
  /\ pc' = "scan"
  /\ UNCHANGED <<input, k, todo, labels, tauPrev, trace, journeys>>

Riding == scan.run.trip # NoTrip

RideLeg(p) ==
  [pattern |-> scan.pattern, run |-> scan.run,
   from |-> p.stops[scan.boardPos], to |-> p.stops[scan.pos],
   dep |-> scan.boardDep, arr |-> Arrival(p, scan.run, scan.pos)]

(***************************************************************************)
(* An arrival is recorded when it beats every label of the stop so far and *)
(* the best arrival at the target (target pruning).                        *)
(***************************************************************************)
(* Mutant: an equal arrival counts as an improvement. *)
ImprovesOrTies(arr, stop, limit) == arr <= tauBest[stop] /\ arr <= limit

Improves(arr, stop, limit) == arr < tauBest[stop] /\ arr < limit

Alight(p) ==
  LET leg == RideLeg(p)
  IN  IF Riding /\ Improves(leg.arr, leg.to, bestTargetArrival)
      THEN /\ tau' = [tau EXCEPT ![leg.to] = leg.arr]
           /\ tauBest' = [tauBest EXCEPT ![leg.to] = leg.arr]
           /\ parents' = [parents EXCEPT ![k][leg.to] = ParentOf(leg, k - 1)]
           /\ marked' = marked \cup {leg.to}
           /\ bestTargetArrival' = IF leg.to = input.target THEN leg.arr
                                   ELSE bestTargetArrival
           /\ improvedTarget' = (improvedTarget \/ leg.to = input.target)
      ELSE UNCHANGED labels

(***************************************************************************)
(* earliestTrip: the first of the catchable runs that leave earliest.      *)
(***************************************************************************)
EarliestTrip(p, i, ready, r) ==
  /\ r \in Catchable(p, i, ready)
  /\ Departure(p, r, i) < Infinity
  /\ \A o \in Catchable(p, i, ready) :
       \/ Departure(p, r, i) < Departure(p, o, i)
       \/ Departure(p, r, i) = Departure(p, o, i) /\ r.trip <= o.trip

(* Mutant: boarding reads the labels this round is still changing. *)
ReadyNow(stop) == tau[stop]

Ready(stop) == tauPrev[stop]

Boards(p, r) ==
  LET stop == p.stops[scan.pos]
  IN  /\ Ready(stop) # Infinity
      /\ EarliestTrip(p, scan.pos, Ready(stop), r)
      /\ Riding => Departure(p, r, scan.pos) < Departure(p, scan.run, scan.pos)

(* Mutant: the position is not advanced. *)
ScanStuck(p, next) == scan' = next /\ pc' = "scan"

ScanOn(p, next) ==
  IF scan.pos < Len(p.stops)
  THEN scan' = [next EXCEPT !.pos = scan.pos + 1] /\ pc' = "scan"
  ELSE scan' = IdleScan /\ pc' = "pick"

(* Mutant: a change to an earlier run keeps the stop of the first boarding. *)
BoardOnce(p) ==
  \E r \in Runs(p) :
    /\ Boards(p, r)
    /\ ScanOn(p, [scan EXCEPT !.run = r,
                              !.boardPos = IF Riding THEN @ ELSE scan.pos,
                              !.boardDep = Departure(p, r, scan.pos)])

Board(p) ==
  \E r \in Runs(p) :
    /\ Boards(p, r)
    /\ ScanOn(p, [scan EXCEPT !.run = r, !.boardPos = scan.pos,
                              !.boardDep = Departure(p, r, scan.pos)])

StayOn(p) ==
  /\ \A r \in Runs(p) : ~Boards(p, r)
  /\ ScanOn(p, scan)

ScanStop ==
  /\ pc = "scan"
  /\ Alight(Scanned)
  /\ Board(Scanned) \/ StayOn(Scanned)
  /\ UNCHANGED <<input, k, queue, todo, tauPrev, trace, journeys>>

-----------------------------------------------------------------------------
(***************************************************************************)
(* The footpath phase.  The snapshot fixes which stops are walked from,    *)
(* not the labels they are walked from with.  Footpaths are sorted by      *)
(* their far end, so a walk to the target tightens target pruning for the  *)
(* stops after it.                                                         *)
(***************************************************************************)
StartWalk ==
  /\ pc = "pick"
  /\ queue = {}
  /\ todo' = marked
  /\ pc' = "walk"
  /\ UNCHANGED <<input, k, queue, scan, labels, tauPrev, trace, journeys>>

WalkArr(s, t) == tau[s] + input.foot[<<s, t>>]

ReachesTarget(s) ==
  /\ input.target \in WalkFrom(s)
  /\ Improves(WalkArr(s, input.target), input.target, bestTargetArrival)

Walks(s) ==
  LET limit(t) == IF ReachesTarget(s) /\ input.target < t
                  THEN WalkArr(s, input.target) ELSE bestTargetArrival
  IN  {t \in WalkFrom(s) : Improves(WalkArr(s, t), t, limit(t))}

Relax(s) ==
  /\ tau' = [t \in Stops |-> IF t \in Walks(s) THEN WalkArr(s, t) ELSE tau[t]]
  /\ tauBest' = [t \in Stops |-> IF t \in Walks(s) THEN WalkArr(s, t) ELSE tauBest[t]]
  /\ parents' = [parents EXCEPT ![k] = [t \in Stops |->
                   IF t \in Walks(s)
                   THEN ParentOf(WalkLeg(s, t, tau[s], WalkArr(s, t)), k)
                   ELSE @[t]]]
  /\ marked' = marked \cup Walks(s)
  /\ bestTargetArrival' = IF ReachesTarget(s) THEN WalkArr(s, input.target)
                          ELSE bestTargetArrival
  /\ improvedTarget' = (improvedTarget \/ ReachesTarget(s))

WalkFromStop ==
  /\ pc = "walk"
  /\ \E s \in todo : Relax(s) /\ todo' = todo \ {s}
  /\ UNCHANGED <<input, pc, k, queue, scan, tauPrev, trace, journeys>>

(***************************************************************************)
(* The end of a round: report the journey if the target improved, then     *)
(* roll the labels for the next round.                                     *)
(***************************************************************************)
EndRound ==
  /\ pc = "walk"
  /\ todo = {}
  /\ IF improvedTarget
     THEN /\ trace' = [IdleTrace(input) EXCEPT !.round = k]
          /\ pc' = "reconstruct"
          /\ UNCHANGED tauPrev
     ELSE /\ tauPrev' = tau
          /\ pc' = "round"
          /\ UNCHANGED trace
  /\ UNCHANGED <<input, k, queue, scan, todo, labels, journeys>>

-----------------------------------------------------------------------------
(***************************************************************************)
(* reconstruct: follow the parents back from the target.  The label used   *)
(* at (stop, round) was set in the last round up to `round` that has a     *)
(* parent for the stop.                                                    *)
(***************************************************************************)
LastSet(stop, round, r) ==
  /\ r \in 0..round
  /\ parents[r][stop].set
  /\ \A q \in (r + 1)..round : ~parents[q][stop].set

(* Mutant: the limit forgets the walks between the rides. *)
LegLimitOfRides == MaxRounds + 1

LegLimit == 2 * (MaxRounds + 2)

FollowParent ==
  /\ pc = "reconstruct"
  /\ trace.stop # input.source
  /\ IF \E r \in 0..trace.round : parents[r][trace.stop].set
     THEN \E r \in 0..trace.round :
            LET p == parents[r][trace.stop]
            IN  /\ LastSet(trace.stop, trace.round, r)
                /\ trace' = [stop |-> p.leg.from, round |-> p.prevRound,
                             rev |-> Append(trace.rev, p.leg)]
                /\ pc' = IF Len(trace'.rev) > LegLimit THEN "cycle" ELSE "reconstruct"
     ELSE pc' = "noparent" /\ UNCHANGED trace
  /\ UNCHANGED <<input, k, queue, scan, todo, labels, tauPrev, journeys>>

TransitLegs(legs) == {i \in DOMAIN legs : legs[i].run.trip # NoTrip}

JourneyOf(rev) ==
  LET legs == [i \in 1..Len(rev) |-> rev[Len(rev) + 1 - i]]
  IN  [legs |-> legs, departure |-> legs[1].dep, arrival |-> legs[Len(legs)].arr,
       transfers |-> Cardinality(TransitLegs(legs)) - 1]

(***************************************************************************)
(* With no leg at all the program indexes legs[-1] and panics.             *)
(***************************************************************************)
EmitJourney ==
  /\ pc = "reconstruct"
  /\ trace.stop = input.source
  /\ IF trace.rev = <<>>
     THEN pc' = "panic" /\ UNCHANGED <<journeys, tauPrev, trace>>
     ELSE /\ journeys' = Append(journeys, JourneyOf(trace.rev))
          /\ tauPrev' = tau
          /\ trace' = IdleTrace(input)
          /\ pc' = "round"
  /\ UNCHANGED <<input, k, queue, scan, todo, labels>>

(***************************************************************************)
(* The call has returned.                                                  *)
(***************************************************************************)
Returned ==
  /\ pc \in {"done", "noparent", "cycle", "panic"}
  /\ UNCHANGED vars

Next ==
  \/ Seed \/ StartRound \/ Finish
  \/ PickPattern \/ ScanStop
  \/ StartWalk \/ WalkFromStop \/ EndRound
  \/ FollowParent \/ EmitJourney
  \/ Returned

Spec == Init /\ [][Next]_vars

(* The calling goroutine keeps executing the loops of the call. *)
FairSpec == Spec /\ WF_vars(Next)

=============================================================================
