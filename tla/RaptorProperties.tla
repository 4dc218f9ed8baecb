-------------------------- MODULE RaptorProperties --------------------------
(***************************************************************************)
(* What must hold of raptor.Engine.Query.                                  *)
(***************************************************************************)
EXTENDS Raptor

Pc == {"seed", "round", "pick", "scan", "walk", "reconstruct",
       "done", "noparent", "cycle", "panic"}

(* Every variable of a call holds a value of its type. *)
TypeOK ==
  /\ InputOK(input)
  /\ pc \in Pc
  /\ k \in 0..MaxRounds
  /\ tau \in [Stops -> Int]
  /\ tauPrev \in [Stops -> Int]
  /\ tauBest \in [Stops -> Int]
  /\ parents \in [0..MaxRounds -> [Stops -> Parent]]
  /\ marked \subseteq Stops
  /\ \A e \in queue : e[1] \in DOMAIN input.patterns
                      /\ e[2] \in DOMAIN input.patterns[e[1]].stops
  /\ scan \in [pattern : Nat, pos : Nat, run : Run, boardPos : Nat, boardDep : Int]
  /\ todo \subseteq Stops
  /\ bestTargetArrival \in Int
  /\ improvedTarget \in BOOLEAN
  /\ trace \in [stop : Stops, round : 0..MaxRounds, rev : Seq(Leg)]
  /\ journeys \in Seq(Journey)

-----------------------------------------------------------------------------
(***************************************************************************)
(* A journey the rider can make: every leg is a walk that exists or a ride *)
(* on a run of the query's date, legs join up in space and in time, and    *)
(* the whole leads from the source, no earlier than asked, to the target.  *)
(***************************************************************************)
RideOK(in, leg) ==
  /\ leg.pattern \in DOMAIN in.patterns
  /\ LET p == in.patterns[leg.pattern]
     IN  \E i, j \in DOMAIN p.stops :
           /\ i < j
           /\ p.stops[i] = leg.from /\ p.stops[j] = leg.to
           /\ leg.run \in Catchable(p, i, in.depTime)
           /\ leg.dep = Departure(p, leg.run, i)
           /\ leg.arr = Arrival(p, leg.run, j)

WalkOK(in, leg) ==
  /\ Foot(in, leg.from, leg.to)
  /\ leg.arr = leg.dep + in.foot[<<leg.from, leg.to>>]

LegOK(in, leg) ==
  \/ leg.run.trip = NoTrip /\ WalkOK(in, leg)
  \/ leg.run.trip # NoTrip /\ RideOK(in, leg)

Feasible(in, j) ==
  LET n == Len(j.legs)
  IN  /\ n > 0
      /\ \A i \in 1..n : LegOK(in, j.legs[i])
      /\ \A i \in 1..(n - 1) : /\ j.legs[i].to = j.legs[i + 1].from
                               /\ j.legs[i].arr <= j.legs[i + 1].dep
      /\ j.legs[1].from = in.source
      /\ j.legs[1].dep >= in.depTime
      /\ j.legs[n].to = in.target
      /\ j.departure = j.legs[1].dep
      /\ j.arrival = j.legs[n].arr

(* Every journey Query returns can be ridden as printed, although labels   *)
(* and parents a leg was built on may have been overwritten since.         *)
JourneysFeasible == \A i \in DOMAIN journeys : Feasible(input, journeys[i])

(* Each journey arrives strictly earlier than the one before it, and the   *)
(* last one reports the very label the target ended with.                  *)
JourneysImprove ==
  /\ \A i, j \in DOMAIN journeys : i < j => journeys[j].arrival < journeys[i].arrival
  /\ journeys # <<>> /\ pc \in {"round", "done"}
       => journeys[Len(journeys)].arrival = tau[input.target]

(* Runs that leave a stop together stay together, none leaves early. *)
TiesStay(in) ==
  \A pi \in DOMAIN in.patterns : NoTiedMerge(in.patterns[pi]) /\ NoEarlyLeave(in.patterns[pi])

(* Journeys come in increasing order of transfers (raptor.go:79), however  *)
(* trips overtake, as long as runs that leave a stop together stay         *)
(* together: a rider of a later round who boards at a stop reached rounds  *)
(* before then finds no run that the earlier round could not use.          *)
TransfersIncrease ==
  TiesStay(input) =>
  \A i, j \in DOMAIN journeys : i < j => journeys[i].transfers < journeys[j].transfers

(* reconstruct always finds a parent for the label it looks up, and never  *)
(* builds a journey of no legs.                                            *)
ReconstructionFindsParents == pc \notin {"noparent", "panic"}

IsWalk(leg) == leg.run.trip = NoTrip

NoWalkFollows(legs) ==
  \A i \in 1..(Len(legs) - 1) : IsWalk(legs[i]) => ~IsWalk(legs[i + 1])

(* reconstruct never gives up: not for want of a parent, and where walks   *)
(* are transitively closed not at its limit of legs either (raptor.go:259),*)
(* as no journey walks twice in a row (raptor.go:200), although a stop     *)
(* improved on foot may be walked from again in the same round.            *)
ReconstructionSucceeds ==
  /\ ReconstructionFindsParents
  /\ WalksClosed(input) =>
       /\ \A n \in DOMAIN journeys : NoWalkFollows(journeys[n].legs)
       /\ pc # "cycle"

(* A call returns. *)
Returns == <>(pc = "done")

-----------------------------------------------------------------------------
(***************************************************************************)
(* The promise of the call as an abstract specification.                   *)
(***************************************************************************)
Promise == INSTANCE ParetoQuery WITH
  round    <- IF pc \in {"seed", "round", "done"} THEN k ELSE k - 1,
  answer   <- [i \in DOMAIN journeys |->
                 [transfers |-> journeys[i].transfers, arrival |-> journeys[i].arrival]],
  returned <- pc = "done"

(* The trips of a line keep their order, and no way on foot beats a link.  *)
InOrder(in) ==
  /\ \A pi \in DOMAIN in.patterns : NoOvertaking(in.patterns[pi]) /\ NoTiedMerge(in.patterns[pi])
  /\ WalksClosed(in)

(* On a network in order the call answers with exactly the Pareto set of   *)
(* the textbook recurrence: it implements Promise!Spec.                    *)
AnswersPareto ==
  /\ InOrder(input) => Promise!Init
  /\ [][InOrder(input) => Promise!Next]_(Promise!vars)

-----------------------------------------------------------------------------
(***************************************************************************)
(* What the documentation says of the call and the code does not do on     *)
(* every input.                                                            *)
(***************************************************************************)
(* raptor.go:5: the rounds compute the earliest arrival.  A rider is never *)
(* moved to a run that leaves with the one already boarded and gets ahead. *)
EarliestAtTarget ==
  pc = "done" => tau[input.target] <= Promise!Earliest(input)[MaxRounds][input.target]

(* raptor.go:200: walks found in a round do not chain within it.           *)
WalksDoNotChain == \A n \in DOMAIN journeys : NoWalkFollows(journeys[n].legs)

(* transfers/doc.go:16: as footpaths are applied at the end of every       *)
(* round, walks of several hops emerge across rounds.  So when a call ends *)
(* because a round improved nothing, not for want of rounds, no walk from  *)
(* a labelled stop is left to take, but for target pruning.                *)
MultiHopWalksEmerge ==
  pc = "done" /\ marked = {} =>
    \A s, t \in Stops :
      Foot(input, s, t) /\ tau[s] < Infinity =>
        LET arr == tau[s] + input.foot[<<s, t>>]
        IN  tau[t] <= arr \/ bestTargetArrival <= arr

=============================================================================
