-------------------------- MODULE RaptorInvariant --------------------------
(***************************************************************************)
(* Why the journeys Query returns can be ridden: the inductive invariant.  *)
(*                                                                         *)
(* Labels and parents are overwritten while other entries still refer to   *)
(* them: a leg is recorded against the label its first stop had then, and  *)
(* reconstruct reads the parent that stop has now.  What makes this sound  *)
(* is that labels only ever decrease, and that a parent's leg never        *)
(* arrives later than the parents of earlier rounds.                       *)
(***************************************************************************)
EXTENDS RaptorProperties

(***************************************************************************)
(* Stop s is reached by `time` with the parents `par` of rounds up to r.   *)
(***************************************************************************)
ReachedVia(source, par, r, s, time) ==
  \/ s = source
  \/ \E q \in 0..r : par[q][s].set /\ par[q][s].leg.arr <= time

ReachedBy(r, s, time) == ReachedVia(input.source, parents, r, s, time)

MidRound == pc \in {"pick", "scan", "walk"}

(* The round whose parents explain the labels boarding reads. *)
PrevRound == IF MidRound THEN k - 1 ELSE k

RoundsInv ==
  /\ pc = "seed" => /\ k = 0
                    /\ \A r \in 0..MaxRounds, s \in Stops : ~parents[r][s].set
                    /\ \A s \in Stops : tau[s] = Infinity
  /\ MidRound \/ pc = "reconstruct" => k > 0
  /\ pc = "scan" => /\ scan.pattern \in DOMAIN input.patterns
                    /\ scan.pos \in DOMAIN Scanned.stops
                    /\ Riding => /\ scan.boardPos \in 1..(scan.pos - 1)
                                 /\ scan.run \in Runs(Scanned)

TypeInv == TypeOK /\ RoundsInv

(* Labels are bounded, and explained by parents. *)
LabelsInv ==
  /\ tauBest = tau
  /\ pc # "seed" => tau[input.source] = input.depTime
  /\ \A s \in Stops :
       /\ tau[s] \in input.depTime..Infinity
       /\ tauPrev[s] \in input.depTime..Infinity
       /\ tau[s] < Infinity => ReachedBy(k, s, tau[s])
       /\ (MidRound \/ pc \in {"seed", "round"}) /\ tauPrev[s] < Infinity
            => ReachedBy(PrevRound, s, tauPrev[s])

(* A parent is a leg that exists, no better than the label of its stop,    *)
(* from a stop that was reached in time by the round it refers to.         *)
ParentOK(r, s) ==
  LET p == parents[r][s]
  IN  /\ r <= k
      /\ p.leg.to = s
      /\ LegOK(input, p.leg)
      /\ p.leg.dep >= input.depTime
      /\ p.leg.arr >= tau[s]
      /\ p.prevRound <= r
      /\ ReachedBy(p.prevRound, p.leg.from, p.leg.dep)

ParentsInv ==
  \A r \in 0..MaxRounds, s \in Stops : parents[r][s].set =>
    /\ ParentOK(r, s)
    /\ \A q \in 0..(r - 1) :
         parents[q][s].set => parents[r][s].leg.arr <= parents[q][s].leg.arr

(* The run a rider sits in was boarded, at a stop reached in time. *)
ScanInv ==
  pc = "scan" /\ Riding =>
    /\ scan.run \in Catchable(Scanned, scan.boardPos, input.depTime)
    /\ scan.boardDep = Departure(Scanned, scan.run, scan.boardPos)
    /\ ReachedBy(k - 1, Scanned.stops[scan.boardPos], scan.boardDep)

(* A round that improved the target has a parent for it. *)
TargetInv ==
  MidRound /\ improvedTarget =>
    /\ input.target # input.source
    /\ parents[k][input.target].set

(* The legs followed so far are feasible and reached in time. *)
TraceOf(rev, stop, round) ==
  IF rev = <<>>
  THEN stop = input.target /\ stop # input.source /\ \E q \in 0..round : parents[q][stop].set
  ELSE /\ \A i \in 1..Len(rev) : LegOK(input, rev[i]) /\ rev[i].dep >= input.depTime
       /\ \A i \in 1..(Len(rev) - 1) : rev[i + 1].to = rev[i].from
                                       /\ rev[i + 1].arr <= rev[i].dep
       /\ rev[1].to = input.target
       /\ rev[Len(rev)].from = stop
       /\ ReachedBy(round, stop, rev[Len(rev)].dep)

TraceInv == pc = "reconstruct" => TraceOf(trace.rev, trace.stop, trace.round)

IInv ==
  /\ TypeInv
  /\ LabelsInv
  /\ ParentsInv
  /\ ScanInv
  /\ TargetInv
  /\ TraceInv
  /\ JourneysFeasible
  /\ ReconstructionFindsParents

-----------------------------------------------------------------------------
(***************************************************************************)
(* Why each journey arrives earlier than the one before it: the label of   *)
(* the target is below the last journey exactly from the step that         *)
(* improves it on, and the target's parent of that round arrives with it.  *)
(***************************************************************************)
LastArrival == journeys[Len(journeys)].arrival

TargetParent ==
  LET p == parents[k][input.target]
  IN  p.set /\ p.leg.arr = tau[input.target]

Improved == pc = "reconstruct" \/ (MidRound /\ improvedTarget)

ImproveInv ==
  /\ \A i, j \in DOMAIN journeys : i < j => journeys[j].arrival < journeys[i].arrival
  /\ pc = "seed" => journeys = <<>>
  /\ journeys # <<>> =>
       /\ Improved => tau[input.target] < LastArrival
       /\ pc \in {"round", "done"} \/ (MidRound /\ ~improvedTarget) => tau[input.target] = LastArrival
  /\ MidRound /\ improvedTarget => TargetParent
  /\ pc = "reconstruct" =>
       \/ trace.rev = <<>> /\ trace.stop = input.target /\ trace.round = k /\ TargetParent
       \/ trace.rev # <<>> /\ trace.rev[1].arr = tau[input.target]


-----------------------------------------------------------------------------
(***************************************************************************)
(* Why each journey has more transfers than the one before it, where ties  *)
(* stay: a round extends only what the round before improved, so a journey *)
(* of round k has exactly k rides.  The scan may well board at a stop last *)
(* improved rounds before; it then rides a run whose arrivals that round   *)
(* already had, and so records nothing until it changes to a run caught at *)
(* a stop of the round before.                                             *)
(***************************************************************************)
(* Stop s was improved in round r. *)
Fresh(source, par, r, s) == par[r][s].set \/ (r = 0 /\ s = source)

(* A run that leaves position m before run r could be caught there. *)
Beaten(p, r, m, ready) ==
  \E o \in Catchable(p, m, ready[p.stops[m]]) :
    Departure(p, o, m) < Infinity /\ Departure(p, o, m) < Departure(p, r, m)

(* A rider of run r stays on it at the positions from a up to j. *)
StaysOn(p, r, a, j, ready) == \A m \in a..(j - 1) : ~Beaten(p, r, m, ready)

NoGain(p, r, j, times, best) ==
  times[p.stops[j]] <= Arrival(p, r, j) \/ best <= Arrival(p, r, j)

(* Boarding at position i gains nothing. *)
Settled(p, i, ready, times, best) ==
  \A r \in Runs(p) : EarliestTrip(p, i, ready[p.stops[i]], r) =>
    \A j \in DOMAIN p.stops :
      i < j /\ StaysOn(p, r, i + 1, j, ready) => NoGain(p, r, j, times, best)

(* From position `from` on the two runs are never apart. *)
Twin(p, q, r, from) ==
  \A m \in DOMAIN p.stops : m >= from =>
    Arrival(p, q, m) = Arrival(p, r, m) /\ Departure(p, q, m) = Departure(p, r, m)

(* Boarding at position i gains nothing once the scan, at position pos on  *)
(* run q, is through.                                                      *)
Pending(p, i, ready, times, best, q, pos) ==
  \A r \in Runs(p) : EarliestTrip(p, i, ready[p.stops[i]], r) =>
    \A j \in DOMAIN p.stops :
      i < j /\ StaysOn(p, r, i + 1, j, ready) =>
        \/ NoGain(p, r, j, times, best)
        \/ j >= pos /\ q.trip # NoTrip /\ Twin(p, q, r, pos)

(* Riding on in run q from position pos gains nothing. *)
Fruitless(p, q, pos, ready, times, best) ==
  \A j \in DOMAIN p.stops :
    j >= pos /\ StaysOn(p, q, pos, j, ready) => NoGain(p, q, j, times, best)

InRound == MidRound \/ pc = "reconstruct"

(* A walk continues the round it is found in, a ride the round before. *)
Continues(source, par, r, s) ==
  LET p == par[r][s]
  IN  /\ s # source
      /\ p.leg.run.trip = NoTrip => p.prevRound = r
      /\ p.leg.run.trip # NoTrip => r > 0 /\ p.prevRound = r - 1
      /\ Fresh(source, par, p.prevRound, p.leg.from)

StepwiseInv ==
  \A r \in 0..MaxRounds, s \in Stops :
    parents[r][s].set => Continues(input.source, parents, r, s)

(* The marked stops are those of the round, and the only labels it changed. *)
MarkedInv ==
  /\ InRound \/ pc = "round" =>
       \A s \in Stops : s \in marked <=> Fresh(input.source, parents, k, s)
  /\ pc = "walk" => todo \subseteq marked
  /\ InRound => \A s \in Stops : /\ tau[s] <= tauPrev[s]
                                 /\ s \notin marked => tau[s] = tauPrev[s]
  /\ pc = "round" => tauPrev = tau

(* A scan starts behind positions the round before did not improve only.   *)
QueueInv ==
  MidRound => \A e \in queue : \A m \in 1..(e[2] - 1) :
    ~Fresh(input.source, parents, k - 1, input.patterns[e[1]].stops[m])

SettledAt(pi, i) == Settled(input.patterns[pi], i, tauPrev, tau, bestTargetArrival)

(* Boarding where the round before did not improve the label gains         *)
(* nothing.                                                                *)
FrontierInv ==
  MidRound =>
    \A pi \in DOMAIN input.patterns : \A i \in DOMAIN input.patterns[pi].stops :
      ~Fresh(input.source, parents, k - 1, input.patterns[pi].stops[i]) => SettledAt(pi, i)

(* Patterns whose scan is over. *)
ScannedThrough(pi) ==
  \/ pc \in {"round", "reconstruct", "walk"}
  \/ /\ pc \in {"pick", "scan"}
     /\ \A e \in queue : e[1] # pi
     /\ pc = "scan" => pi # scan.pattern

(* Boarding anywhere along a pattern gains nothing once the round has      *)
(* scanned it, where it has not improved the label since.                  *)
SettledInv ==
  \A pi \in DOMAIN input.patterns :
    ScannedThrough(pi) =>
      \A i \in DOMAIN input.patterns[pi].stops :
        input.patterns[pi].stops[i] \notin marked => SettledAt(pi, i)

(* The pattern being scanned is settled up to the position of the scan,    *)
(* but for what the run the rider sits in will still settle.               *)
PendingInv ==
  pc = "scan" =>
    /\ \A i \in 1..(scan.pos - 1) : Scanned.stops[i] \notin marked =>
         Pending(Scanned, i, tauPrev, tau, bestTargetArrival, scan.run, scan.pos)
    /\ Riding =>
         \/ Fresh(input.source, parents, k - 1, Scanned.stops[scan.boardPos])
         \/ Fruitless(Scanned, scan.run, scan.pos, tauPrev, tau, bestTargetArrival)

(* The rides of the journey being traced, and of those reported. *)
RidesInv ==
  /\ pc = "reconstruct" =>
       /\ Cardinality(TransitLegs(trace.rev)) = k - trace.round
       /\ Fresh(input.source, parents, trace.round, trace.stop)
  /\ \A i \in DOMAIN journeys : journeys[i].transfers < IF InRound THEN k - 1 ELSE k
  /\ \A i, j \in DOMAIN journeys : i < j => journeys[i].transfers < journeys[j].transfers

Rungs == StepwiseInv /\ MarkedInv /\ QueueInv /\ RidesInv

Ladder == Rungs /\ FrontierInv /\ SettledInv /\ PendingInv

LadderInv == TiesStay(input) => Ladder

-----------------------------------------------------------------------------
(***************************************************************************)
(* Why a call on a network in order answers what the recurrence promises.  *)
(* No label is earlier than promised, and one that is later belongs to a   *)
(* stop target pruning may leave out: a round leaves no ride and no walk   *)
(* untaken that arrives before the target's best.  It may skip what the    *)
(* round before did not improve, as earlier rounds have been there.        *)
(***************************************************************************)
Promised(r) == Promise!Earliest(input)[r]

(* A rider ready at position i gains nothing on any run she can catch. *)
Exhausted(p, i, ready, times, best) ==
  ready[p.stops[i]] < Infinity =>
    \A r \in Catchable(p, i, ready[p.stops[i]]), j \in DOMAIN p.stops :
      i < j => NoGain(p, r, j, times, best)

ExhaustedAt(pi, i) == Exhausted(input.patterns[pi], i, tauPrev, tau, bestTargetArrival)

(* From position `from` on run q is never behind run r. *)
Ahead(p, q, r, from) == \A m \in DOMAIN p.stops : m >= from => Arrival(p, q, m) <= Arrival(p, r, m)

(* She will have gained nothing once the scan, at position pos on run q,   *)
(* is through.                                                             *)
Underway(p, i, ready, times, best, q, pos) ==
  ready[p.stops[i]] < Infinity =>
    \A r \in Catchable(p, i, ready[p.stops[i]]), j \in DOMAIN p.stops :
      i < j => \/ NoGain(p, r, j, times, best)
               \/ j >= pos /\ q.trip # NoTrip /\ Ahead(p, q, r, pos)

BoardingInv ==
  /\ MidRound =>
       \A pi \in DOMAIN input.patterns : \A i \in DOMAIN input.patterns[pi].stops :
         ~Fresh(input.source, parents, k - 1, input.patterns[pi].stops[i]) => ExhaustedAt(pi, i)
  /\ \A pi \in DOMAIN input.patterns :
       ScannedThrough(pi) =>
         \A i \in DOMAIN input.patterns[pi].stops :
           pc # "round" \/ input.patterns[pi].stops[i] \notin marked => ExhaustedAt(pi, i)

SeatInv ==
  pc = "scan" =>
    /\ \A i \in 1..(scan.pos - 1) :
         Underway(Scanned, i, tauPrev, tau, bestTargetArrival, scan.run, scan.pos)
    /\ Riding => LET ready == tauPrev[Scanned.stops[scan.boardPos]]
                 IN  ready < Infinity /\ scan.run \in Catchable(Scanned, scan.boardPos, ready)

(* No walk from s is left to take. *)
Rested(s) ==
  \A t \in WalkFrom(s) : tau[t] <= WalkArr(s, t) \/ bestTargetArrival <= WalkArr(s, t)

WalkingInv ==
  pc # "seed" =>
    \A s \in Stops : \/ pc \in {"pick", "scan"} /\ s \in marked
                     \/ pc = "walk" /\ s \in todo
                     \/ Rested(s)

(* No label is earlier than promised. *)
SoundInv ==
  /\ pc \in {"round", "reconstruct"} => \A s \in Stops : Promised(k)[s] <= tau[s]
  /\ MidRound =>
       LET rides == Promise!ByRide(input, Promised(k - 1))
       IN  \A s \in Stops :
             /\ Promised(k - 1)[s] <= tauPrev[s]
             /\ s \in marked =>
                  (IF pc = "walk" THEN Promise!OnFoot(input, rides) ELSE rides)[s] <= tau[s]

(* A label that is later than promised is no better than the target's. *)
CompleteInv ==
  /\ pc \in {"round", "reconstruct"} =>
       \A s \in Stops : tau[s] <= Promised(k)[s] \/ bestTargetArrival <= Promised(k)[s]
  /\ MidRound =>
       \A s \in Stops : tauPrev[s] <= Promised(k - 1)[s] \/ bestTargetArrival <= Promised(k - 1)[s]

(* The target's label is exact, and a round that improves it knows. *)
ExactInv ==
  /\ bestTargetArrival \in {tau[input.target], Infinity}
  /\ InRound => tauPrev[input.target] = Promised(k - 1)[input.target]
  /\ MidRound => (improvedTarget <=> tau[input.target] < tauPrev[input.target])
  /\ pc = "reconstruct" => tau[input.target] < tauPrev[input.target]

Faithful == Rungs /\ BoardingInv /\ SeatInv /\ WalkingInv /\ SoundInv /\ CompleteInv /\ ExactInv

FaithfulInv == InOrder(input) => Faithful

-----------------------------------------------------------------------------
(***************************************************************************)
(* Why reconstruct never gives up where walks are closed: no journey walks *)
(* twice in a row, so one of k rides has at most 2k + 1 legs.  A round may *)
(* well improve a stop on foot after others were walked to from it, but    *)
(* these then arrive later than the target does.                           *)
(***************************************************************************)
Walked(r, s) == parents[r][s].set /\ IsWalk(parents[r][s].leg)

HopOK(r, s) ==
  LET p == parents[r][s]
      u == p.leg.from
  IN  /\ ~IsWalk(p.leg) => r > 0 /\ p.prevRound = r - 1
      /\ IsWalk(p.leg) =>
           /\ p.prevRound = r
           /\ \/ r = 0 /\ u = input.source
              \/ parents[r][u].set /\ (Walked(r, u) => bestTargetArrival < p.leg.arr)

HopsInv == \A r \in 0..MaxRounds, s \in Stops : parents[r][s].set => HopOK(r, s)

(* The round's parents tell its labels; it walks from where it rode to.    *)
CurrentInv ==
  /\ MidRound => \A s \in Stops : parents[k][s].set => parents[k][s].leg.arr = tau[s]
  /\ pc \in {"pick", "scan"} => \A s \in Stops : /\ s \in marked => parents[k][s].set
                                                 /\ ~Walked(k, s)
  /\ pc = "walk" =>
       /\ \A s \in todo : parents[k][s].set
       /\ \A s \in Stops : Walked(k, s) => LET leg == parents[k][s].leg
                                           IN  leg.from \notin todo /\ tau[leg.from] <= leg.dep
  /\ Improved => bestTargetArrival = tau[input.target]

(* How far the legs followed so far can have led.                          *)
ShortInv ==
  pc = "reconstruct" =>
    LET n == Len(trace.rev)
    IN  /\ \A i \in 1..n : trace.rev[i].arr <= tau[input.target]
        /\ NoWalkFollows(trace.rev)
        /\ IF n > 0 /\ IsWalk(trace.rev[n])
           THEN /\ n <= 2 * (k - trace.round) + 1
                /\ \/ trace.stop = input.source
                   \/ parents[trace.round][trace.stop].set /\ ~Walked(trace.round, trace.stop)
           ELSE n <= 2 * (k - trace.round)

Direct ==
  /\ WalkingInv
  /\ HopsInv
  /\ CurrentInv
  /\ ShortInv
  /\ \A n \in DOMAIN journeys : NoWalkFollows(journeys[n].legs)
  /\ pc # "cycle"

DirectInv == WalksClosed(input) => Direct

-----------------------------------------------------------------------------
(* The inductive invariants of a call. *)
InductiveInv == IInv /\ ImproveInv /\ LadderInv /\ FaithfulInv /\ DirectInv

=============================================================================
