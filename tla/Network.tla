------------------------------ MODULE Network ------------------------------
(***************************************************************************)
(* The immutable data one call of raptor.Engine.Query works on: the stop   *)
(* patterns of internal/timetable, the walking links of                    *)
(* internal/transfers, the outcome of internal/calendar for the query date *)
(* and the day before, and the arguments of the call.  Everything here is  *)
(* a pure definition; the modules that extend this one give it behaviour.  *)
(*                                                                         *)
(* An input is a record                                                    *)
(*   patterns : sequence of [stops, trips]; a trip is a record             *)
(*              [arr, dep, today, yesterday] whose arr and dep have one    *)
(*              entry per stop of the pattern and whose two Booleans say   *)
(*              whether its service runs on the query date and on the day  *)
(*              before;                                                    *)
(*   foot     : function from pairs of stops to walking seconds;           *)
(*   source, target, depTime : the arguments of the call.                  *)
(***************************************************************************)
EXTENDS Integers, Sequences, FiniteSets

CONSTANTS
  Stops,      \* dense stop indices
  MaxRounds,  \* transit legs considered
  Day,        \* seconds in a day
  Infinity    \* the label of a stop not reached yet

ASSUME ConstantsAssumption ==
  /\ Stops \subseteq Nat
  /\ MaxRounds \in Nat \ {0}
  /\ Day \in Nat \ {0}
  /\ Infinity \in Nat

Foot(in, s, t) == <<s, t>> \in DOMAIN in.foot

(***************************************************************************)
(* A run is a trip on one service day: offset 0 for today's trips, -Day    *)
(* for yesterday's, whose times past midnight fall on today's clock.       *)
(***************************************************************************)
NoTrip == -1

NoRun == [trip |-> NoTrip, off |-> 0]

Runs(p) ==
  [trip : {t \in DOMAIN p.trips : p.trips[t].today}, off : {0}]
    \cup [trip : {t \in DOMAIN p.trips : p.trips[t].yesterday}, off : {-Day}]

Departure(p, r, i) == p.trips[r.trip].dep[i] + r.off

Arrival(p, r, i) == p.trips[r.trip].arr[i] + r.off

(***************************************************************************)
(* A run can be caught at position i by a rider who is ready at `ready`    *)
(* unless it left before, or left yesterday.                               *)
(***************************************************************************)
Catchable(p, i, ready) ==
  {r \in Runs(p) : Departure(p, r, i) >= ready
                   /\ (r.off # 0 => Departure(p, r, i) >= 0)}

(***************************************************************************)
(* What timetable.Build and transfers.Generate guarantee of a feed whose   *)
(* every stop time is present and in order.                                *)
(***************************************************************************)
PatternOK(p) ==
  /\ p.stops \in Seq(Stops)
  /\ p.stops # <<>>
  /\ \A t \in DOMAIN p.trips :
       /\ t \in Nat \ {0}
       /\ p.trips[t].arr \in [1..Len(p.stops) -> Int]
       /\ p.trips[t].dep \in [1..Len(p.stops) -> Int]
       /\ \A i, j \in 1..Len(p.stops) :
            i < j => p.trips[t].dep[i] <= p.trips[t].arr[j]

InputOK(in) ==
  /\ in.source \in Stops
  /\ in.target \in Stops
  /\ in.depTime \in Nat
  /\ in.depTime < Infinity
  /\ DOMAIN in.patterns \subseteq Nat \ {0}
  /\ \A pi \in DOMAIN in.patterns : PatternOK(in.patterns[pi])
  /\ DOMAIN in.foot \subseteq Stops \X Stops
  /\ \A s, t \in Stops : Foot(in, s, t) => in.foot[<<s, t>>] \in Nat /\ s # t

(***************************************************************************)
(* Properties a feed may or may not have.  NoOvertaking: a run that leaves *)
(* a stop first reaches every later stop first.  NoTiedMerge: runs that    *)
(* leave a stop together stay together.  NoEarlyLeave: no run leaves a     *)
(* stop before it has arrived there.  WalksClosed: the footpath relation   *)
(* is transitively closed and direct walks are shortest.                   *)
(***************************************************************************)
NoOvertaking(p) ==
  \A r, o \in Runs(p), i, j \in DOMAIN p.stops :
    i < j /\ Departure(p, r, i) < Departure(p, o, i)
      => /\ Arrival(p, r, j) <= Arrival(p, o, j)
         /\ Departure(p, r, j) <= Departure(p, o, j)

NoTiedMerge(p) ==
  \A r, o \in Runs(p), i, j \in DOMAIN p.stops :
    i < j /\ Departure(p, r, i) = Departure(p, o, i)
      => /\ Arrival(p, r, j) = Arrival(p, o, j)
         /\ Departure(p, r, j) = Departure(p, o, j)

NoEarlyLeave(p) ==
  \A r \in Runs(p), i \in DOMAIN p.stops : Arrival(p, r, i) <= Departure(p, r, i)

WalksClosed(in) ==
  \A a, b, c \in Stops :
    Foot(in, a, b) /\ Foot(in, b, c) /\ a # c
      => Foot(in, a, c) /\ in.foot[<<a, c>>] <= in.foot[<<a, b>>] + in.foot[<<b, c>>]

=============================================================================
