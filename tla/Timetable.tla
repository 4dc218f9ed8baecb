----------------------------- MODULE Timetable ------------------------------
(***************************************************************************)
(* timetable.Build: trips are regrouped by their exact sequence of stops,  *)
(* their times laid out in flat arrays, and the patterns indexed by stop.  *)
(* A feed is as in module Feed.                                            *)
(***************************************************************************)
EXTENDS Feed

CONSTANTS
  Feeds,   \* the feeds Build is called with
  Width    \* int32 holds -Width..Width-1

ASSUME FeedsAssumption == \A f \in Feeds : FeedOK(f) /\ ServicesOK(f)

ASSUME WidthAssumption == Width \in Nat \ {0}

VARIABLES
  feed,            \* the argument
  pc,              \* which loop Build is in
  todo,            \* trips not grouped yet
  patterns,        \* tt.Patterns
  tripsByPattern,  \* the trips of each pattern, before they are sorted
  stopPatterns,    \* tt.StopPatterns
  services,        \* tt.Services
  at               \* loop counters: a pattern and a position

vars == <<feed, pc, todo, patterns, tripsByPattern, stopPatterns, services, at>>

(***************************************************************************)
(* Dense indices.  A Go map answers 0 for an id it does not hold.          *)
(***************************************************************************)
Rank(S, id) == Cardinality({x \in S : x < id})

(* Mutant: an id that is not there is marked with -1. *)
StopIdxUnset(f, id) == IF id \in f.stops THEN Rank(f.stops, id) ELSE -1

StopIdx(f, id) == IF id \in f.stops THEN Rank(f.stops, id) ELSE 0

Ridable(f) == {id \in DOMAIN f.trips : id \in DOMAIN f.times}

TripIdx(f, id) == Rank(Ridable(f), id)

StopIDs(f, i) == CHOOSE id \in f.stops : Rank(f.stops, id) = i

TripIDs(f, i) == CHOOSE id \in Ridable(f) : Rank(Ridable(f), id) = i

TimesOf(f, trip) == f.times[TripIDs(f, trip)]

StopSeq(f, id) == [j \in 1..Len(f.times[id]) |-> StopIdx(f, f.times[id][j].stop)]

Init ==
  /\ feed \in Feeds
  /\ pc = "group"
  /\ todo = Ridable(feed)
  /\ patterns = <<>>
  /\ tripsByPattern = <<>>
  /\ stopPatterns = [s \in 0..Cardinality(feed.stops) - 1 |-> <<>>]
  /\ services = << >>
  /\ at = [pattern |-> 1, pos |-> 1]

-----------------------------------------------------------------------------
(***************************************************************************)
(* Grouping, in trip_id order.  The key of a pattern is its stop sequence, *)
(* as bytes of fixed width, hence no two sequences share one.              *)
(***************************************************************************)
(* Mutant: patterns are keyed by the set of their stops. *)
PatternOfSet(seq) ==
  {p \in DOMAIN patterns :
     {patterns[p].stops[i] : i \in DOMAIN patterns[p].stops} = {seq[i] : i \in DOMAIN seq}}

(* Mutant: only the pattern of the trip before is looked at. *)
PatternOfLast(seq) == {p \in DOMAIN patterns : p = Len(patterns) /\ patterns[p].stops = seq}

PatternOf(seq) == {p \in DOMAIN patterns : patterns[p].stops = seq}

NewPattern(seq) ==
  [stops |-> seq, trips |-> <<>>, serviceIDs |-> <<>>, arrivals |-> <<>>, departures |-> <<>>]

GroupTrip ==
  \E id \in todo :
    LET seq == StopSeq(feed, id)
    IN  /\ pc = "group"
        /\ \A other \in todo : id <= other
        /\ todo' = todo \ {id}
        /\ \/ \E p \in PatternOf(seq) :
                /\ tripsByPattern' = [tripsByPattern EXCEPT ![p] = @ \cup {TripIdx(feed, id)}]
                /\ UNCHANGED patterns
           \/ /\ PatternOf(seq) = {}
              /\ patterns' = Append(patterns, NewPattern(seq))
              /\ tripsByPattern' = Append(tripsByPattern, {TripIdx(feed, id)})
        /\ UNCHANGED <<feed, pc, stopPatterns, services, at>>

EndGrouping ==
  /\ pc = "group"
  /\ todo = {}
  /\ pc' = "layout"
  /\ UNCHANGED <<feed, todo, patterns, tripsByPattern, stopPatterns, services, at>>

-----------------------------------------------------------------------------
(***************************************************************************)
(* Sort the trips of a pattern by their first departure, then by index.    *)
(***************************************************************************)
FirstDeparture(f, trip) == TimesOf(f, trip)[1].dep

(* Mutant: trips are sorted by their index alone. *)
BeforeByIndex(f, a, b) == a < b

Before(f, a, b) ==
  \/ FirstDeparture(f, a) < FirstDeparture(f, b)
  \/ FirstDeparture(f, a) = FirstDeparture(f, b) /\ a < b

Sorted(f, S) ==
  {s \in [1..Cardinality(S) -> S] :
     /\ \A t \in S : \E i \in DOMAIN s : s[i] = t
     /\ \A i, j \in DOMAIN s : i < j => Before(f, s[i], s[j])}

Int32(n) == Narrow(n, Width)

(***************************************************************************)
(* The time of trip i at position j is at index i * n + j of a flat slice, *)
(* trips, positions and index counted from 0.                              *)
(***************************************************************************)
(* Mutant: the times are laid out position by position. *)
FlatByPosition(f, trips, n, time) ==
  [x \in 1..Len(trips) * n |->
     Int32(TimesOf(f, trips[((x - 1) % Len(trips)) + 1])[(x - 1) \div Len(trips) + 1][time])]

Flat(f, trips, n, time) ==
  [x \in 1..Len(trips) * n |->
     Int32(TimesOf(f, trips[(x - 1) \div n + 1])[((x - 1) % n) + 1][time])]

ServiceOf(f, trip) == f.trips[TripIDs(f, trip)].service

LaidOutBy(f, stops, trips) ==
  [stops      |-> stops,
   trips      |-> trips,
   serviceIDs |-> [i \in 1..Len(trips) |-> ServiceOf(f, trips[i])],
   arrivals   |-> Flat(f, trips, Len(stops), "arr"),
   departures |-> Flat(f, trips, Len(stops), "dep")]

LayoutPattern ==
  LET p == at.pattern
  IN  /\ pc = "layout"
      /\ p <= Len(patterns)
      /\ \E trips \in Sorted(feed, tripsByPattern[p]) :
           patterns' = [patterns EXCEPT ![p] = LaidOutBy(feed, patterns[p].stops, trips)]
      /\ at' = [at EXCEPT !.pattern = p + 1]
      /\ UNCHANGED <<feed, pc, todo, tripsByPattern, stopPatterns, services>>

EndLayout ==
  /\ pc = "layout"
  /\ at.pattern > Len(patterns)
  /\ pc' = "index"
  /\ at' = [pattern |-> 1, pos |-> 1]
  /\ UNCHANGED <<feed, todo, patterns, tripsByPattern, stopPatterns, services>>

Arrival(p, trip, pos) == p.arrivals[trip * Len(p.stops) + pos + 1]

Departure(p, trip, pos) == p.departures[trip * Len(p.stops) + pos + 1]

-----------------------------------------------------------------------------
(***************************************************************************)
(* The index of patterns by stop: one entry for every visit.  An index out *)
(* of range, with a feed without stops, is a panic.                        *)
(***************************************************************************)
Visit(p, i) == [pattern |-> p - 1, pos |-> i - 1]

IndexVisit ==
  LET p == at.pattern
      s == patterns[p].stops[at.pos]
  IN  /\ pc = "index"
      /\ p <= Len(patterns)
      /\ at.pos <= Len(patterns[p].stops)
      /\ \/ /\ s \in DOMAIN stopPatterns
            /\ stopPatterns' = [stopPatterns EXCEPT ![s] = Append(@, Visit(p, at.pos))]
            /\ at' = [at EXCEPT !.pos = @ + 1]
            /\ UNCHANGED pc
         \/ /\ s \notin DOMAIN stopPatterns
            /\ pc' = "panic"
            /\ UNCHANGED <<stopPatterns, at>>
      /\ UNCHANGED <<feed, todo, patterns, tripsByPattern, services>>

(* Mutant: the position is not reset for the next pattern. *)
NextPatternKeepsPos ==
  /\ pc = "index"
  /\ at.pattern <= Len(patterns)
  /\ at.pos > Len(patterns[at.pattern].stops)
  /\ at' = [at EXCEPT !.pattern = @ + 1]
  /\ UNCHANGED <<feed, pc, todo, patterns, tripsByPattern, stopPatterns, services>>

NextPattern ==
  /\ pc = "index"
  /\ at.pattern <= Len(patterns)
  /\ at.pos > Len(patterns[at.pattern].stops)
  /\ at' = [pattern |-> at.pattern + 1, pos |-> 1]
  /\ UNCHANGED <<feed, pc, todo, patterns, tripsByPattern, stopPatterns, services>>

-----------------------------------------------------------------------------
(* sortedKeys *)
Ascending(S) ==
  CHOOSE s \in [1..Cardinality(S) -> S] : \A i, j \in DOMAIN s : i < j => s[i] < s[j]

SortedService(svc) ==
  [svc EXCEPT !.added = Ascending(@), !.removed = Ascending(@)]

EndBuild ==
  /\ pc = "index"
  /\ at.pattern > Len(patterns)
  /\ services' = [id \in DOMAIN feed.services |-> SortedService(feed.services[id])]
  /\ pc' = "done"
  /\ UNCHANGED <<feed, todo, patterns, tripsByPattern, stopPatterns, at>>

Ended == pc \in {"done", "panic"} /\ UNCHANGED vars

Step ==
  \/ GroupTrip \/ EndGrouping
  \/ LayoutPattern \/ EndLayout
  \/ IndexVisit \/ NextPattern
  \/ EndBuild

Next == Step \/ Ended

Spec == Init /\ [][Next]_vars

FairSpec == Spec /\ WF_vars(Step)

=============================================================================
