------------------------ MODULE TimetableProperties -------------------------
(***************************************************************************)
(* What the engine and the callers of a timetable rely on.                 *)
(***************************************************************************)
EXTENDS Timetable

CONSTANT Dates   \* dates on which services are compared

ASSUME DatesAssumption == Dates \subseteq Nat

Pattern ==
  [stops : Seq(Nat) \ {<<>>}, trips : Seq(Nat), serviceIDs : Seq(Nat),
   arrivals : Seq(Int), departures : Seq(Int)]

(* Every variable holds a value of its type. *)
TypeOK ==
  /\ feed \in Feeds
  /\ pc \in {"group", "layout", "index", "done", "panic"}
  /\ todo \subseteq Ridable(feed)
  /\ patterns \in Seq(Pattern)
  /\ tripsByPattern \in Seq(SUBSET Nat)
  /\ Len(tripsByPattern) = Len(patterns)
  /\ at \in [pattern : Nat \ {0}, pos : Nat \ {0}]

-----------------------------------------------------------------------------
(***************************************************************************)
(* Grouping.                                                               *)
(***************************************************************************)
KnownStops(f) ==
  \A id \in Ridable(f) : \A j \in DOMAIN f.times[id] : f.times[id][j].stop \in f.stops

FollowsTrip(p, trip) ==
  /\ Len(p.stops) = Len(TimesOf(feed, trip))
  /\ \A j \in DOMAIN p.stops : StopIDs(feed, p.stops[j]) = TimesOf(feed, trip)[j].stop

(* Every trip of a pattern visits exactly the pattern's stops in the       *)
(* pattern's order, if its stops are stops of the feed (build_test.go:26). *)
PatternsFollowTrips ==
  KnownStops(feed) =>
    \A p \in DOMAIN patterns : \A trip \in tripsByPattern[p] : FollowsTrip(patterns[p], trip)

(* Every trip that can be ridden ends up in one pattern, once, and trips   *)
(* with the same stops in the same one.                                    *)
TripsPartitioned ==
  /\ \A id \in Ridable(feed) \ todo :
       \E p \in DOMAIN patterns : TripIdx(feed, id) \in tripsByPattern[p]
  /\ \A p, q \in DOMAIN patterns :
       p # q => /\ patterns[p].stops # patterns[q].stops
                /\ tripsByPattern[p] \cap tripsByPattern[q] = {}

-----------------------------------------------------------------------------
(***************************************************************************)
(* Times and their order.                                                  *)
(***************************************************************************)
LaidOut == {p \in DOMAIN patterns : pc \in {"index", "panic", "done"} \/ (pc = "layout" /\ p < at.pattern)}

(* Build orders trips by times that no parser bounds, and stores what an   *)
(* int32 keeps of them.                                                    *)
Fits(time) == -Width <= time /\ time < Width

(* Every stop time of the feed that an int32 holds is found at the place   *)
(* of its trip and position in the flat slices, whatever the others, its   *)
(* service at the place of the trip, and each trip is laid out exactly     *)
(* once.                                                                   *)
TimesStoredOnce ==
  \A p \in LaidOut :
    LET pat == patterns[p]
    IN  /\ {pat.trips[i] : i \in DOMAIN pat.trips} = tripsByPattern[p]
        /\ Len(pat.trips) = Cardinality(tripsByPattern[p])
        /\ Len(pat.arrivals) = Len(pat.trips) * Len(pat.stops)
        /\ \A i \in DOMAIN pat.trips : pat.serviceIDs[i] = feed.trips[TripIDs(feed, pat.trips[i])].service
        /\ \A i \in DOMAIN pat.trips : \A j \in DOMAIN pat.stops :
             LET st == TimesOf(feed, pat.trips[i])[j]
             IN  /\ Fits(st.arr) => Arrival(pat, i - 1, j - 1) = st.arr
                 /\ Fits(st.dep) => Departure(pat, i - 1, j - 1) = st.dep

(* Trips of a pattern whose first departures an int32 holds are stored in  *)
(* the order of those departures, by which a binary search could find them *)
(* (timetable.go:69), also where a trip between them has a time that wraps.*)
TripsInOrder ==
  \A p \in LaidOut : \A i, j \in DOMAIN patterns[p].trips :
    LET first(k) == FirstDeparture(feed, patterns[p].trips[k])
    IN  i < j /\ Fits(first(i)) /\ Fits(first(j))
          => Departure(patterns[p], i - 1, 0) <= Departure(patterns[p], j - 1, 0)

(***************************************************************************)
(* A feed in which no trip is at a stop before it left an earlier one, as  *)
(* the stop times say, a missing time being Blank; and one whose times all *)
(* fit.                                                                    *)
(***************************************************************************)
WellTimed(f) ==
  \A id \in Ridable(f) : \A i, j \in DOMAIN f.times[id] :
    i < j => f.times[id][i].dep <= f.times[id][j].arr

TimesFitIn(f) ==
  \A id \in Ridable(f) : \A j \in DOMAIN f.times[id] :
    Fits(f.times[id][j].arr) /\ Fits(f.times[id][j].dep)

Engine == INSTANCE Network WITH
  Stops     <- DOMAIN stopPatterns,
  MaxRounds <- 1,
  Day       <- 86400,
  Infinity  <- 2147483647

EngineTrip(p, i) ==
  [arr |-> [j \in 1..Len(p.stops) |-> Arrival(p, i - 1, j - 1)],
   dep |-> [j \in 1..Len(p.stops) |-> Departure(p, i - 1, j - 1)]]

EnginePattern(p) ==
  [stops |-> p.stops, trips |-> [i \in DOMAIN p.trips |-> EngineTrip(p, i)]]

(* What the query engine assumes of its patterns holds of what Build makes *)
(* of a well-timed feed whose times fit, known stops or not.               *)
PatternsSuitEngine ==
  pc = "done" /\ WellTimed(feed) /\ TimesFitIn(feed) =>
    \A p \in DOMAIN patterns : Engine!PatternOK(EnginePattern(patterns[p]))

-----------------------------------------------------------------------------
(***************************************************************************)
(* The index and the services.                                             *)
(***************************************************************************)
Earlier(v, w) == v.pattern < w.pattern \/ (v.pattern = w.pattern /\ v.pos < w.pos)

(* A stop's entries are exactly the visits of patterns to it, by pattern   *)
(* and position; a pattern that loops has an entry for each visit.         *)
IndexExact ==
  pc = "done" =>
    \A s \in DOMAIN stopPatterns :
      LET entries == stopPatterns[s]
      IN  /\ {entries[i] : i \in DOMAIN entries} =
               UNION {{Visit(p, i) : i \in {j \in DOMAIN patterns[p].stops : patterns[p].stops[j] = s}} :
                        p \in DOMAIN patterns}
          /\ \A i, j \in DOMAIN entries : i < j => Earlier(entries[i], entries[j])

(* A service runs on the same dates before and after Build, an exception   *)
(* winning over the weekly pattern and a removal over an addition.         *)
ServicesAgree ==
  pc = "done" =>
    \A date \in Dates :
      ActiveServices(services, date) =
        {id \in DOMAIN feed.services : FeedActiveOn(feed.services[id], date)}

(* Build of a feed with a stop ends; only without any does it panic.       *)
BuildEnds == <>(pc = "done" \/ (pc = "panic" /\ feed.stops = {}))

-----------------------------------------------------------------------------
(***************************************************************************)
(* Claims of the repository that the code does not keep.                   *)
(***************************************************************************)
(* "trips are grouped by their exact ordered sequence of stops"            *)
(* (timetable.go:4): two trips of a pattern visit the same stops.          *)
TripsShareTheirStops ==
  \A p \in DOMAIN patterns : \A a, b \in tripsByPattern[p] :
    \A j \in DOMAIN patterns[p].stops :
      TimesOf(feed, a)[j].stop = TimesOf(feed, b)[j].stop

(* "Values are seconds since midnight of the service day" (timetable.go:84) *)
TimesAreSeconds ==
  \A p \in LaidOut : \A x \in DOMAIN patterns[p].arrivals :
    patterns[p].arrivals[x] >= 0 /\ patterns[p].departures[x] >= 0

=============================================================================
