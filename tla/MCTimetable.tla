----------------------------- MODULE MCTimetable ----------------------------
(***************************************************************************)
(* Small feeds for TimetableProperties: three trips over a few sequences   *)
(* of stops, one of which loops, that leave at two times; a fourth trip    *)
(* without stop times, and stop times of a trip that is not in the feed.   *)
(***************************************************************************)
EXTENDS TimetableProperties, TLC

(* A ride that takes two minutes from stop to stop. *)
Ride(stops, start) ==
  [j \in DOMAIN stops |-> [stop |-> stops[j], arr |-> start + 2 * j, dep |-> start + 2 * j, seq |-> j]]

Routes == {<<2, 3>>, <<2, 4>>, <<2, 3, 2>>, <<3, 2>>}

Rides == {Ride(r, start) : r \in Routes, start \in {5, 8}}

(* Stop times with a dwell, with a time that is missing, and of a single   *)
(* stop.                                                                   *)
OddRides ==
  {<<[stop |-> 2, arr |-> 5, dep |-> 9, seq |-> 1], [stop |-> 3, arr |-> 9, dep |-> 10, seq |-> 2]>>,
   <<[stop |-> 2, arr |-> 5, dep |-> 5, seq |-> 1], [stop |-> 3, arr |-> Blank, dep |-> Blank, seq |-> 2]>>,
   <<[stop |-> 3, arr |-> 6, dep |-> 6, seq |-> 1]>>}

Week == [weekdays |-> {1, 2, 3, 4, 5}, start |-> 2, end |-> 12, added |-> {}, removed |-> {}]

SomeServices == 1 :> [Week EXCEPT !.added = {1, 2, 7, 9}, !.removed = {1, 4, 9}]

FeedOf(stops, rides) ==
  [stops    |-> stops,
   trips    |-> [id \in {3, 5, 6, 8} |-> [service |-> id % 3]],
   times    |-> (3 :> rides[1]) @@ (5 :> rides[2]) @@ (6 :> rides[3]) @@ (9 :> rides[1]),
   services |-> SomeServices]

(* Stops 2, 3 and 4 of these rides are stops of the feed. *)
KnownFeeds == {FeedOf({1, 2, 3, 4}, <<a, b, c>>) : a, b, c \in Rides}

(* Stop times may name a stop that is not in stops.txt, or lack a time. *)
OddFeeds ==
  {FeedOf(stops, <<a, b, c>>) :
     stops \in {{1, 2, 3, 4}, {1, 2, 4}, {2, 3}, {}}, a \in {Ride(r, 5) : r \in Routes},
     b \in {Ride(<<1, 4>>, 8), Ride(<<1, 2>>, 6)}, c \in OddRides}

(* Some times are beyond Width, some trips only end beyond it.             *)
WideFeeds ==
  {FeedOf({1, 2, 3, 4}, <<Ride(<<2, 3>>, 5), Ride(<<2, 3>>, start), c>>) :
     start \in {12, 13, 20, 44}, c \in OddRides \cup {Ride(<<2, 3>>, 8)}}

UnknownStopFeeds == {f \in OddFeeds : f.stops # {} /\ ~KnownStops(f)}

BlankTimeFeeds == {f \in OddFeeds : KnownStops(f)}

(* Services with every combination of exceptions on three dates. *)
MCDates == 1..13

ServiceFeeds ==
  {[FeedOf({2}, <<a, a, a>>) EXCEPT !.services = 1 :> [w EXCEPT !.added = x, !.removed = y]] :
     a \in {Ride(<<2>>, 4)}, w \in {Week, [Week EXCEPT !.start = NoDate]},
     x, y \in SUBSET {1, 4, 9}}

AllFeeds == KnownFeeds \cup OddFeeds \cup WideFeeds \cup ServiceFeeds

=============================================================================
