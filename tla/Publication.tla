----------------------------- MODULE Publication ----------------------------
(***************************************************************************)
(* What cmd/ingest promises its readers as long as ingests do not overlap: *)
(* two files that are replaced as a whole, first the feed and then the     *)
(* timetable built from it, and never by an older version.                 *)
(***************************************************************************)
EXTENDS Naturals

CONSTANT Versions   \* published versions of the GTFS feed; 0 is no file

VARIABLES feed, timetable

vars == <<feed, timetable>>

Init == feed = 0 /\ timetable = 0

PublishFeed ==
  /\ \E v \in Versions : v >= feed /\ feed' = v
  /\ UNCHANGED timetable

PublishTimetable ==
  /\ timetable' = feed
  /\ UNCHANGED feed

Next == PublishFeed \/ PublishTimetable

Spec == Init /\ [][Next]_vars

=============================================================================
