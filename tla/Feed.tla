-------------------------------- MODULE Feed --------------------------------
(***************************************************************************)
(* gtfs.Feed, which ParseZip makes and Build reads.  Ids are numbers whose *)
(* order is that of the strings, 0 for an empty one.  A feed is a record   *)
(* with at least                                                           *)
(*   stops    : the ids of its stops;                                      *)
(*   trips    : function from trip ids to trips, records with at least a   *)
(*              service id;                                                *)
(*   times    : StopTimesByTrip, function from trip ids to sequences of    *)
(*              stop times;                                                *)
(*   services : function from service ids to services (module Calendar).   *)
(***************************************************************************)
EXTENDS Integers, Sequences, FiniteSets, Calendar, ClockTime

StopTime == [stop : Nat, arr : Int, dep : Int, seq : Int]

(***************************************************************************)
(* What Build may rely on of any feed: a list of stop times exists because *)
(* one was appended to it.                                                 *)
(***************************************************************************)
FeedOK(f) ==
  /\ IsFiniteSet(f.stops)
  /\ f.stops \subseteq Nat
  /\ IsFiniteSet(DOMAIN f.trips)
  /\ DOMAIN f.trips \subseteq Nat
  /\ \A id \in DOMAIN f.trips : f.trips[id].service \in Nat
  /\ \A id \in DOMAIN f.times : f.times[id] \in Seq(StopTime) /\ f.times[id] # <<>>

ServicesOK(f) ==
  \A id \in DOMAIN f.services :
    LET svc == f.services[id]
    IN  /\ svc \in [weekdays : SUBSET (0..6), start : Nat, end : Nat,
                    added : SUBSET Nat, removed : SUBSET Nat]
        /\ IsFiniteSet(svc.added) /\ IsFiniteSet(svc.removed)

=============================================================================
