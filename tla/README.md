# raptor-transit: specifications, model checks and proofs

This directory specifies the transit planner in `src/` in TLA+, checks the
specifications with TLC on small networks, and proves theorems about them with
TLAPS for networks of any size. `PROJECT.json` lists runs, mutants, hazards,
findings and theorems, and maps every definition to the lines it translates.

## 1. Inventory

The program is a pipeline (`cmd/ingest`) that turns a GTFS zip into two files,
and two readers of the second file: a server and a command-line planner.

| component | state it keeps | operations | correct when |
|---|---|---|---|
| GTFS parser, `internal/gtfs` | a `Feed` under construction: maps of stops, routes, trips, services, stop times | one handler per row of each CSV file, then `buildIndexes` | stop times end up in sequence order under their trip; calendar rows and exceptions combine in either order; bad rows fail loudly |
| timetable builder, `internal/timetable/build.go` | none (a function of the feed) | `Build` | patterns partition the ridable trips by exact stop sequence; the index of patterns by stop is exact |
| files, `internal/{gtfs,timetable}/gob.go`, `cmd/ingest` | two files and their temporary files | `Save`, `Load`, one run of ingest | a reader never sees a truncated file, whatever crashes when |
| service calendar, `internal/calendar`, `Service.ActiveOn` | none | `ActiveOn`, `ActiveServices`, `InFeedWindow` | an exception wins over the weekly pattern |
| footpath generator, `internal/transfers` | stops kept, a grid and the paths so far, local to the call | `Generate` | exactly the pairs within the radius, both ways |
| query engine, `internal/raptor` | labels, parents, marked stops, queue, all local to a call; the engine itself is immutable and shared | `New`, `Query`, `reconstruct`, `earliestTrip` | journeys can be ridden, are Pareto-optimal, and are all found |
| stop search, `internal/stopsearch` | an immutable index | `Search`, `Resolve` | best match first; never guesses between equally good stops |
| HTTP API, `internal/api` | none of its own | `/route`, `/stops` | each outcome of a query has its own status |
| server process, `cmd/server` | where `main` is, listening or not, requests in flight | start, serve, shut down on a signal | nothing is answered before the timetable is loaded; calls in flight end, and so does a shutdown |
| planner, `cmd/route` | none | one query per process | same answers as the server |

Interaction is by function call inside a process, and by `data/timetable.gob`
between processes. The behaviours that are hard to test are in the engine (an
imperative algorithm that overwrites labels other data points at, in an order
Go leaves unspecified), at the file boundary (crashes between steps of two
saves, readers at any moment), and in the server's life cycle (a signal, a
listener that fails and clients that stall, in any order).

| modules | model | proofs | run on |
|---|---|---|---|
| `Network`, `Raptor`, against `ParetoQuery` | engine | `RaptorProof`, `RaptorTransfersProof`, `RaptorParetoProof` | `MCRaptor`, `MCRaptorRepeat` |
| `Ingest`, against `Publication` | files, ingest | `IngestProof` | `MCIngest` |
| `FeedParser` | parser | `FeedParserProof` | `MCFeedParser` |
| `Feed`, `Timetable`, `Calendar` | builder, calendar | `TimetableProof` | `MCTimetable` |
| `Footpaths` | footpath generator | `ServerProof` | `MCServer` |
| `StopSearch`, `ClockTime`, `Api`, against `ApiMeaning` | search, handlers, planner | `AnswersProof` | `MCServer` |
| `Server`, against `Service` | server process, composed of the two rows above | `ServerProof` | `MCServer` |

`<X>Properties` states what must hold of `<X>`, `<X>Invariant` its inductive
invariant where that is long.

## 2. The query engine

`Network` holds the data of one call: patterns with their trips, walking links,
the outcome of the service calendar for the query date and the day before
(`today`, `yesterday` of a trip), and the arguments of the call. `InputOK` says
what the engine may rely on; its only demand on the feed itself is that a trip
does not arrive at a later stop before it left an earlier one.

`Raptor` is `Engine.Query`. `pc` says which loop the call is in:

| `pc` | code (`internal/raptor/raptor.go`) | actions |
|---|---|---|
| `seed` | 102-132, arrays and the walk from the source | `Seed` |
| `round` | 137-149, head of the loop over rounds | `StartRound`, `Finish` |
| `pick`, `scan` | 151-197, scan of the queued patterns | `PickPattern`, `ScanStop` |
| `walk` | 199-224, footpath phase | `StartWalk`, `WalkFromStop` |
| | 226-236, end of a round | `EndRound` |
| `reconstruct` | 243-284 | `FollowParent`, `EmitJourney` |
| `done` | 238 | `Returned` |
| `noparent`, `cycle` | 253-255, 259-261, the errors of `reconstruct` | `Returned` |
| `panic` | 277, `legs[-1]` on an empty list | `Returned` |

The two loops over Go maps take their next element nondeterministically; this
is the concurrency of the model, and every property is checked for every order.
One step is one iteration: the scan of one stop alights (165-185) and then
boards or moves to an earlier run (189-195); one walking step applies all links
of one stop in the order of their far ends, so that a link to the target prunes
those after it. Calls share no mutable state, hence one call is the whole
system; `RaptorRepeat` runs a second call after the first to compare answers.

What is abstracted: stops are numbers, a day has 20 minutes, stop and route
names are left out, and `Catchable` is a set where `earliestTrip` is a loop that
keeps the first of the earliest runs.

`ParetoQuery` is the abstract specification: a call goes through the rounds of
the textbook recurrence (no marked stops, no pruning, no parents, all patterns
from all stops) and appends an answer when the target improves.

### Properties

- `TypeInv`: types, and the ranges the scan stays within.
- `JourneysFeasible`: every journey returned is a chain of existing walks and
  rides on runs of the day, joined in space and time, from the source no earlier
  than asked to the target.
- `JourneysImprove`: each arrives strictly earlier than the one before; the last
  one is the label the target ended with.
- `TransfersIncrease`: journeys come in increasing order of transfers
  (raptor.go:79), trips that overtake included, where runs that leave a stop
  together stay together and none leaves a stop before it arrives. Without the
  condition it can fail: a rider of round 2 passes a stop of round 1 on a run that
  ties there with a faster one and stays seated; a rider of round 3 sits in a run
  that left earlier but is slower, moves to the faster one there, and the journey
  has the two rides of the one before.
- `ReconstructionSucceeds`: `reconstruct` never gives up. It finds a parent for
  every label it looks up, on every network; and where walks are transitively
  closed no journey walks twice in a row, so that the limit of legs is not
  reached either. Where they are not closed, walks may chain (`raptor_chains`),
  and nothing bounds a journey by the limit.
- `Returns`: a call returns, under weak fairness of its steps. Fairness says
  only that the goroutine of the call keeps running; the choice of the next map
  element carries no fairness.
- `AnswersPareto`: `Raptor` implements `ParetoQuery`.
- `InductiveInv`: the inductive invariants of the proofs, checked before they
  were proved.

### Runs

Networks have four to six stops, two to four patterns of up to two trips and up
to four stops, three rounds. This is enough for a journey of three rides with
walks between them, for a loop through one stop, for a run of yesterday and one
of today in one pattern, for trips that overtake, tie or dwell, for a target
reached in several rounds and for a stop improved twice in one round, in
transit and on foot. Two families have closed walks around several stops: in one
a stop is walked from before a faster walk reaches it (`DetourInputs`), in one
journeys walk before, between and after the rides (`JoinedInputs`), five legs of
the ten the limit allows with three rounds. Times stay far below `Infinity`.

| run | shows |
|---|---|
| `raptor` | the safety properties and termination on all such networks, also those where trips overtake and walks chain; the implementation of `ParetoQuery` on those that are `InOrder`: no trips tie and part or overtake, and walks are transitively closed; `TransfersIncrease` where none tie and part; no two walks in a row where walks are closed |
| `raptor_ties` | violated: two trips that leave together and part |
| `raptor_chains` | violated: two walks in one round |
| `raptor_hops` | violated: a walk of two hops is not found |
| `raptor_repeat` | violated: the same query answered with different legs |

`InOrder` is not an arbitrary restriction: the first three violated runs show
what goes wrong without each part of it.

A target within walking distance of the source is never reported as a walk
alone (the call answers with nothing unless a ride is faster); the test at
`internal/raptor/raptor_test.go:187` acknowledges this, `ParetoQuery` has it too.

### Proofs

All properties of the run but `Returns` are proved, for every set of stops,
number of rounds, day length and set of inputs that satisfy `InputOK`. The proofs
form three modules, each on top of the one before, and `InductiveInv` (module
`RaptorInvariant`) is the conjunction of the invariants they need.

*Journeys can be ridden* (`RaptorProof`: `TypesHold`, `InvariantHolds`,
`JourneysAreFeasible`, `ParentsAreFound`, `JourneysAlwaysImprove`). The
difficulty is that a leg is recorded against the label its first stop has at
that moment, while `reconstruct` reads the parents that stop has at the end of
the round, after any number of overwrites. `IInv` therefore says of every parent
that the stop its leg starts from is reached *in time* by the parents of rounds
up to `prevRound` (`ReachedBy`), and that the parents of one stop arrive no later
in later rounds. A label only decreases, so overwriting a parent keeps
`ReachedBy` true for everything that relied on it. Labels are explained by
parents (`LabelsInv`), the boarded run by the label it was boarded with
(`ScanInv`), and the legs followed so far are joined in time (`TraceInv`).
`ImproveInv`, inductive relative to `IInv`, adds that the target's label lies
below the last journey's arrival exactly from the step of a round that improves
it until that round's journey is emitted, and that the target's parent of that
round arrives with the label; `LastSet` then picks that parent first.

*Transfers increase* (`RaptorTransfersProof`: `TransfersAlwaysIncrease`), under
`TiesStay`. A journey of round `k` has exactly `k` rides, because every parent of
round `r` continues one of round `r - 1` (a ride) or of round `r` (a walk):
`StepwiseInv`. The scan may, however, board at a stop that round `k - 1` did not
improve. `LadderInv` shows that such a ride records nothing: boarding there is
`Settled`, that is, every run it could take arrives no earlier than labels of
rounds before already do, up to the first stop where the scan would move the
rider to another run. This is kept for the positions the scan has passed by
`Pending`, which allows for the arrivals the run the rider sits in has yet to
record, and for the rider herself by `Fruitless`.

*The answer is the Pareto set* (`RaptorParetoProof`: `InvariantsHold`,
`AnswersArePareto`), under `InOrder`. The recurrence is a recursive function; the
proof first unfolds it (`EarliestUnfolds`: a function that satisfies the
recursion up to `MaxRounds` exists, by the least counterexample) and describes
what its operators return by the rides and walks they minimise over. `FaithfulInv`
then relates the labels of each round to it: none is earlier (`SoundInv`), and one
that is later is no earlier than the target's best, so that target pruning was
entitled to leave it (`CompleteInv`); the target's own label is exact
(`ExactInv`). Completeness rests on what the steps of a round leave untaken:
nothing from positions already scanned (`Exhausted`, `Underway`, where
`NoOvertaking` makes the run the rider sits in as good as any she could have
caught), and no walk from stops already walked from (`Rested`, where
`WalksClosed` makes the direct walk as good as one over a stop improved since).
Stops a round does not improve need not be scanned again, as their rides were
exhausted with the same labels before. Every step then maps to a round of
`ParetoQuery`, to its return or to a stutter (`StepKeepsPromise`); when a call
stops because a round improved nothing, the recurrence has reached its fixed
point (`NothingLeftToFind`).

*Reconstruction succeeds* (`RaptorParetoProof`: `ReconstructionAlwaysSucceeds`),
under `WalksClosed` as to the limit of legs. A stop that was walked to is not
walked on from in that round: the stop the rider set out from is `Rested`, so the
direct walk was as good (`WalksLeaveRides`). But a stop may be walked from, and *then* be improved on
foot from another stop; the parents now show two walks in a row. As walks are
closed, the stops reached from it have been offered a faster walk already, and
keep the slower one only because the target is reached before
(`OvertakenWalks`): `HopsInv` says that a walk that follows another arrives after
the target's best. The legs `reconstruct` follows all arrive no later than the
target, so it meets none of these (`ShortInv`); with at most one walk before each
ride and one at the end, a journey of round `k` has at most `2k + 1` legs, and the
limit is `2 (MaxRounds + 2)`.

Liveness (`Returns`) is model-checked only.

## 3. The files and cmd/ingest

`Ingest` is a set of runs of `cmd/ingest`, the downloads that replace the zip
under them (`make fetch`), and readers that load the timetable at any time.

| `ingest[i].pc` | code | actions |
|---|---|---|
| `ready`, `parse` | `cmd/ingest/main.go:20-26` | `OpenZip`, `ParseZip` |
| `create`, `encode`, `rename`, `remove` | both `Save`s, `gob.go` | `CreateTemp`, `Encode`, `Rename`, `RemoveTemp` |
| `stat` | `main.go:28-62`, the file sizes after each save | `Stat` |
| `done`, `failed`, `killed` | exit status 0, status 1, a signal | |

Each of these steps may fail, the deferred removal of a temporary file included,
whose error the code drops (`gob.go:20`), and `Kill` may end a process between any
two. A file's content is the version of the zip it was made from and whether it is
whole. Two assumptions are the environment's: a rename is atomic, and a zip
that is incomplete or changes while it is read is an error (its directory is at
its end, its members have checksums). Nothing keeps ingests from overlapping, as
the code has no lock: the history variable `alone` records which of them have not
(`NoOverlap`: none has so far).

- `NeverTruncated`: however many ingests overlap, readers find whole files.
- `ReadersKeepUp`: once a reader has loaded the timetable, every reader that
  starts later loads one too, whatever fails or is killed meanwhile; and until
  ingests overlap, never an older one.
- `DoneMeansBothSaved`: exit status 0 of an ingest that no other overlapped means
  two files of the feed it parsed, whatever earlier ingests left behind.
- `PublishesInOrder` (`Publication`): until ingests overlap, the files follow each
  other, never going back. Once they do, the order is lost; nothing in the
  repository says that it is not.
- `IngestsEnd`: under weak fairness of each running ingest, that is, the process
  is scheduled and its I/O returns.

| run | bounds | shows |
|---|---|---|
| `ingest` | two ingests, one after the other or overlapping at any step, three versions of the zip, two readers | all of these |

Two ingests suffice for one to undo what the other did, or to mend what it left
when it failed or was killed; two readers for one that comes after another, and
three versions for one that is overtaken twice.
`CHECK_DEADLOCK` is off as the system stops once all ingests have ended.

`IngestProof` proves `CrashesNeverTruncate`, `LaterReadersKeepUp`, `DoneSavesBoth`
and `IngestPublishes` (the implementation of `Publication`) for any set of ingests
and readers. The invariant `IngestIInv` adds that a temporary file is whole when it
is renamed, also where an earlier removal failed (`SaveInv`); that an ingest nobody
overlaps is the only one that runs and has saved the feed when it turns to the
timetable (`AloneInv`); that until ingests overlap no file is newer than what it is
made from (`OrderInv`); and that a reader leaves behind the timetable it loaded, or
a newer one (`ReadInv`).

Not claimed: what survives a loss of power, as `Save` does not call `fsync`; and
that temporary files go away, which a kill or a failed removal leaves for good.

## 4. The parser

`FeedParser` is `gtfs.ParseZip`. Its state is the feed under construction, the
file that is read (`pc`) and the line. `ParseStopRow` ... `ParseCalendarDateRow`
are the six row handlers, `RejectRow` the error of any of them, `NextFile` the
end of a file, `CheckServices` the check of `parse.go:77`, `SortStopTimes` and
`IndexByStop` the two halves of `buildIndexes`. `sort.Slice` is not stable and
maps are ranged over in any order, hence both choose any order of equal keys.

A row is a function from columns to cells, a missing column reads as an empty
cell as in `row.get`, and a line that is no CSV is a row without columns. A cell
is the list of integers its text spells, so that `ParseTime`, `Atoi` and
`ParseFloat` are modelled by what they accept and return. Ids are numbers, 0 an
empty one. Names, coordinates and route types are left out.

- `AcceptsUsable`: a feed comes only of a zip with all required files, a service,
  and rows a feed can be made of (`UsableRow`: the ids by which a row is filed and
  found, its numbers, and times where there is text); an error only of another one.
- `TimesFollowSequence`: the times of a trip are its rows, each once, in the
  order of `stop_sequence`.
- `ByStopExact`: so are the entries of each stop, by departure.
- `ServicesCombineFiles`: a service has its last row of `calendar.txt` and all
  its exceptions, whichever file introduced it.
- `FeedSuitsBuild`: the feed is one as `Build` takes for granted (`FeedOK`,
  `ServicesOK`).
- `ParseEnds`: under weak fairness of the steps of a sequential program.

The run `feed_parser` has three kinds of zips: stop times of three trips in any
order, with tied and negative sequence numbers, a blank time and a loop; a file
missing, or there twice with one odd row more; two calendar rows and two
exceptions in any combination. Each handler and each of its errors occurs.

`parseTripRow` checks neither `route_id` nor `service_id`, although the README of
the repository says that rows with empty ids fail loudly (README.md:52-53). Of a
row of `trips.txt` `UsableRow` asks for the `trip_id` only; what the README says is
`EmptyIdsFail`, and the run `feed_empty_ids` shows it violated. A `stop_id` in `stop_times.txt` is not looked up either: see
the next section for what becomes of it.

`FeedParserProof` proves `ParserIsExact`, `ParsedFeedsSuitBuild` and
`ParserKeepsTypes` for any zip that satisfies `ZipsAssumption` (the types of
cells). `ParserIInv` says that all rows of the files read so far, and of the
current one up to the line, were accepted, and that there are services exactly
if a calendar row was read. Handlers are then compared with `UsableRow`.

The contents of the feed are proved too: `ServicesAreCombined`,
`TimesAreInSequence` and `StopsListAllVisits`. `CombineInv` says which services
the rows read so far make, the last row of a service giving its week, and
`TimesInv` that a stop time is in the list of its trip as often as the rows read
so far spell it; the order of a list is free until it is sorted. That sorting
neither loses nor doubles an entry is a bijection between places
(`BijectionCounts`, used by `SortCounts` and `ByDepartureCounts`). Of this
component only `ParseEnds` is left to TLC.

## 5. The timetable builder and the calendar

`Timetable` is `Build`, loop by loop: `pc = "group"` (build.go:47-73), `"layout"`
(75-103), `"index"` (105-116); `Feeds` are the feeds it is called with, of which
only `FeedOK` and `ServicesOK` are assumed, which `ParsedFeedsSuitBuild` provides. A Go map answers
0 for a stop it does not hold, so `StopIdx` does too, and an index out of range is
the state `panic`. Hours are not bounded by the parser: `Build` compares times as
they are (build.go:81-84) and stores what an int32 keeps of them (99-100), which is
`Int32`, for an int of any `Width`. `Calendar` has the two `ActiveOn`, the timetable's with its
binary searches; dates are numbers with the weekday as remainder by 7.

- `PatternsFollowTrips`, `TripsPartitioned`: trips are partitioned by their exact
  stop sequence.
- `TimesStoredOnce`: reading the flat slices at a trip and position, as
  `Arrival` and `Departure` do, gives the feed's time if it fits an int32, whatever
  the other times are; services are in line.
- `TripsInOrder`, `IndexExact`: sorted by first departure, among the trips whose
  first departure fits; an index entry for each visit, two for a loop.
- `PatternsSuitEngine`: the patterns of a well-timed feed whose times fit satisfy
  `PatternOK`, the assumption of the query engine's module `Network`. A well-timed
  feed is one whose trips do not arrive at a later stop before they left an
  earlier one, a blank time counting as the -1 it is stored as.
- `ServicesAgree`: the timetable's services run on the days the feed's do.
- `BuildEnds`: a build ends, in a panic only if the feed has no stops. (A zip
  with an empty `stops.txt` and a stop time gets there: index 0 of no stops.)

| run | shows |
|---|---|
| `timetable_build` | all of these |
| `timetable_unknown_stop` | violated: trips with different stops share a pattern |
| `timetable_blank_time` | violated: -1 among the seconds since midnight |

Three trips over four sequences, one of them a loop and one another's reverse,
with two departures, give every way to share, split and order patterns of up to
three trips. Further feeds have unknown stops, dwells, blank times, no stops,
trips without times and times without a trip, and times beyond the width, which is
16 for 2^31, stored as negative ones or once around; exceptions on three dates, in
and out of the week of a service, in all combinations.

`TimetableProof` proves `PatternsHoldTheirTrips`, `TripsArePartitioned`,
`TimesAreStored`, `TripsAreInOrder`, `IndexIsExact`, `BuiltPatternsSuitEngine`,
`ServicesRunAlike` and `BuildKeepsTypes` for any feeds.
`TimetableIInv` ties each pattern to the trips it was made from (`GroupingInv`)
and to the layout of its sorted trips (`LayoutInv`); the lemmas are that dense
indices tell ids apart (`RankInjective`), that index `i * n + j` of a flat slice is
read back as written (`FlatReads`) and that what fits an int32 is kept
(`Int32Keeps`). The grouping is by sequences: that `patternKey` gives different
sequences different bytes is neither checked nor proved. `IndexInv` says that the entries of
each stop are the visits of the patterns indexed so far, in their order;
`BuiltPatternsSuitEngine` follows from `GroupingInv` and `LayoutInv`.
`ServicesRunAlike` is about the binary search, a recursive function, on slices of
any length. `SearchUnfolds` shows that its recursion has a solution (the least
position of a window that is its end or not below the date), `SearchFindsLeast`
that any window gives that position, by the smallest window that would not, and
`AscendingLists` that sorting a finite set of dates succeeds and keeps them all.
Only `BuildEnds` is left to TLC.

## 6. The footpath generator

`Footpaths` is `transfers.Generate`: `step` is the loop it is in, `rest` the
stops that loop has still to visit, `valid`, `grid` and `paths` the locals of the
same name (`paths` is a bag, so that a link found twice would show).

| `step` | code (`generate.go`) | action |
|---|---|---|
| `filter` | 47-55 | `FilterStop`, `InServiceArea` |
| `bucket` | 77-88 | `BucketStop`, `CellOf` |
| `scan` | 90-115 | `ScanAround`, `LinksOf` |

Coordinates are integers, with `NaN` as a value no comparison holds of
(`ParseFloat` accepts it). Latitude is measured in metres; the cosine is a table
`Cos`, of which the proof assumes that it is positive and does not grow with the
distance from the equator. Distances are those of the haversine formula for
small angles, compared squared, so that nothing is rounded. A cell is the radius
and one unit more, where the code takes one per cent more: what matters is that
it is not less. The final sort only fixes the order and is left out.

- `FootpathsExact`: the links are those a comparison of all pairs finds, each
  once, and the stops out of the area or not a number are counted.
- `LinksPaired`: at any moment every link has its way back of the same time.

`ServerProof` proves both (`GridFindsAllPairs`, `LinksComeInPairs`) for any
area, radius, cosine table and set of stops. The argument: two stops within the
radius differ by less than a cell in either coordinate (`CellsSpanReach`, where
the cosine of the most poleward latitude bounds the others), so their cells,
found by rounding down, also for negative longitudes, differ by at most one
(`CellsAdjoin`); in `FootpathsIInv` the bag is the sum of the pairs of the stops
visited, and pairs of different stops are disjoint (`BagOfUnion`).

## 7. Stop search, HTTP API and planner

`StopSearch` is `Normalize`, `Search` and `Resolve`, on texts that are sequences
of characters. `Api` has the two handlers with the order of their checks
(`server.go:46-163`), the wire types, and `Plans`, which is `cmd/route`.
`Replies(tt, ask)` is a set: which missing parameter is reported depends on the
order of a map, and what comes of a query on the engine, which stands here as
`Query`: journeys between the two stops not before the time asked, or none, or an
error. The errors are those of an unknown stop or date and, wherever there are
journeys to find, those of `reconstruct` (raptor.go:227-229): `Raptor` is shown to
stay below the limit of legs where walks are transitively closed, which those of
`Generate` are not. A journey is one ride, as the handlers look at a journey's
first leg and its last, with times that are counted in an int32. `ClockTime` is
`ParseTime` and the two `clock`s.

`ApiMeaning` says what the right answers are without going the same way: words
instead of normalized texts, the stops a text can mean (`Means`) instead of a
sorted and cut-off list, and what a client can read back of the reply, where the
times fit an int32 (`TimesFit`). The statuses are those that the comment of
`handleRoute` lists, and 500, "a genuine server-side failure" (server.go:117), only
where a service runs between two different stops.

- `RepliesRight` (section 8) includes that each reply is right in this sense.
- `PlannerAgrees`: the planner, asked the same of the same timetable and footpaths,
  has the same answers to give. As the engine may answer a question in several
  ways (`raptor_repeat`), this compares the sets of what either may answer: both
  refuse, or the same journeys with the same stops and seconds. It is about the
  code the two do not share, the checks and the clocks of `cmd/route`
  (main.go:33-42, 97-104) and of `server.go`. Radius and walking speed, constants
  equal in both, are not compared.

`AnswersProof` proves `AnswersAreRight`: for any stops (`StopsNamed`: ids that differ,
as `Build` takes them from the keys of a map, and names that may be empty or
equal), any texts over any set of characters, and any request, each of `Replies` is
a `RightAnswer`. Assumed of `Lower` is only that
letters and digits have a lowercase form that is not a space. The argument:

- `Normalize` writes the words of a text with a space between any two
  (`NormalizeJoins`), so that positions of the string are positions in words.
- `RankFinds`: one normalized string is equal to, a prefix of, or found in another
  exactly where its words are found in the words of the other in that way. A
  word begins after a space and ends before one, so an occurrence that starts in
  some word goes on word by word (`AlignedWord`).
- `SearchGives`: the sorted and cut-off list is the stops found, each at the place
  that the number of those before it gives.
- `Resolves`: two equal ranks at the head of the list mean that the best tier has
  several stops, as a list cut at `ResolveLimit`, at least 2, cannot hide the second
  (`NameSettles`).
- `ClockReadsBack` and `PlannerReadsBack`: for every second, also beyond the first
  midnight, the text written is one that `ParseTime` accepts and reads as it.

## 8. The server process

`Server` extends `Footpaths` and `Api`: it is the whole of `cmd/server` from start to
exit, with the footpath generator as one of its stages and the handlers as the
steps of its connections.

| state | code (`cmd/server/main.go`) | actions |
|---|---|---|
| `main = "load"` | 49-56 | `LoadTimetable` |
| `"generate"` | 57-61 | `Generate`, `Spawn` |
| `"notify"` | 97 | `NotifyContext` |
| `"wait"` | 99-104 | `Signal`, `Shutdown` |
| `"shutdown"` | 104-107 | `ShutdownDone`, `ShutdownFails` |
| `listener` | 86-94 | `Listen`, `ListenFails` |
| `conn[c].pc` | one goroutine per connection, `net/http` | `Accept`, `ReadRequest`, `Handle`, `Delivered`, `Hangup`, `TimeOut`, `CloseIdle` |
| `grace`, `age` | the timeouts, 75-82 and 102 | `Tick` |

`net/http` is external. Assumed of it: `Shutdown` closes the listener first, then
waits until no connection is left, closing idle ones as it polls (at least twice
a second); a connection is not kept alive by a server that shuts down; a
`ListenAndServe` called after `Shutdown` returns at once; `ReadHeaderTimeout` and
`WriteTimeout` end what they time. Time goes in steps of five seconds, the
greatest unit in which the timeouts are whole: a header has 1, an answer 6, a
shutdown 2. A handler takes milliseconds, hence no time passes while one runs.
`ReadTimeout` times bodies, which no request has; `IdleTimeout` is not told apart
from a client that goes away (`Hangup`).

`Service` is the abstract specification: per client, a request is accepted, then
answered once with a right answer to that very request, or lost with its
connection.

- `ServesWhenReady`: nobody is served before the timetable and every footpath
  is there.
- `OnlySlowReadersCut`: a shutdown that runs out of its ten seconds cuts off only
  calls whose client has not taken its answer for five.
- `SignalEndsServer`, `CallsEnd`: a signal ends the process, and no client holds
  a call open for ever, whatever clients do.
- `RepliesRight`: the server implements `Service`.

Fairness: `WF` of `main` and of the listener's goroutine, which are scheduled; a
handler that runs returns (`Returns`; queries end by the engine's `Returns`);
`WF` of the timeouts and of the poll for idle connections. Time goes on (`SF` of
`Tick`: it is not always enabled, as it waits for what is due). Clients, signals
and failures have no fairness.

The run `server` starts three kinds of servers. Without clients: up to three stops
on an area of 6 by 7 metres whose longitudes shrink northwards by more than a
half, so that cells differ in every way, some stops out of the area. With one
client and one request: four stops whose names are prefixes and parts of each
other, equal, without a letter, or another's id; queries of all tiers; clocks
past midnight, malformed ones and two beyond the width, which is 400000 for 2^31
(with one the journeys outgrow it, with the other the time asked does); dates in and out of the week of the service.
With two clients: all interleavings of their calls, of a signal and of failures.
`ResolveLimit` is 2 for 10 and the limits of `/stops` are 2 and 3 for 10 and
100, so that lists are cut; three names of equal rank are enough for a list that
was cut to hide one. Two clients suffice for an answer that could be another's.
`CHECK_DEADLOCK` is off as the process ends.

`ServerProof` proves `ServerKeepsTypes`, `NobodyIsServedEarly` and
`ShutdownSparesCalls`, for any number of clients and any deployments;
`PlannerAlwaysAgrees`, for any timetable and question: the two refuse the same
questions, although they check them in different orders (`SameAnswers`), and write
any result of the engine so that it reads alike (`FoundAlike`, from `ClocksAgree`,
which holds of negative seconds too); and `AnswersKeepToTheirRequests`:
`Spec => RepliesRight`, for any clients and requests, by `AnswersAreRight` of
section 7 and a step-by-step refinement of `Service`.
`ServerIInv` adds to the types the invariant of `Footpaths`, that nothing listens before `main` has spawned it with all paths
there (`MainOrder`), and that, as time waits for what is due, nothing that is new
when a shutdown starts outlives its header limit (`ShutdownWaits`). The two
liveness properties are left to TLC.

## 9. Disagreements found

Each is a run that is expected to be violated, and a finding in `PROJECT.json`.

| run | code | what is said of it |
|---|---|---|
| `raptor_ties` | of two trips that leave together, the scan keeps the first even if it is later further on | raptor.go:5-6, 292-295 |
| `raptor_chains` | a label of a walk is walked from in the same round | raptor.go:200-201 |
| `raptor_hops` | a stop reached on foot is never walked from | transfers/doc.go:17-19 |
| `raptor_repeat` | equal arrivals are broken by map order | api/server_test.go:310-311 |
| `feed_empty_ids` | a trip row with an empty `route_id` or `service_id` is parsed | README.md:52-53 |
| `timetable_unknown_stop` | an unknown stop is stop 0 | timetable.go:4-5 |
| `timetable_blank_time` | a blank time is stored as -1 | timetable.go:84-86 |

## 10. What is not modelled

- Formatting beyond clock times, JSON, flags, printing, logging.
- `gtfs.Load`, which only tests call, and the content of gob files: a load
  returns what was saved or fails.
- What `fsync` would be needed for (section 3), and any order of the files
  while ingests overlap, which nothing in the repository claims.
- What a time means once an int32 does not hold it, which takes an hour above
  596523 in the feed or in a request. `Build` and `handleRoute` (`server.go:115`,
  which does not hold `at` to the 0 to 86399 of `raptor.go:77-78`) narrow it, and so
  do `Timetable` and `Api`; of a time that does not fit nothing is stated. `Raptor`
  itself counts in integers, below `Infinity`. Nor is the overflow of `ParseTime`'s
  own `h*3600` modelled, which takes an hour beyond 2^51.
- The end of calls in flight when `ListenAndServe` fails (`main.go:89-93`) or a
  signal comes before `main` registers (`main.go:97`) is in the model, and cuts
  them off; nothing is claimed of it.
- That requests do not disturb each other through the timetable, the index and
  the engine they share: the handlers only read what no longer changes once
  `main` has built it, which was read off the code; the model has nothing to
  interleave there.
- That an exit with status 0 cuts off no call: this is what `net/http` promises of
  `Shutdown`, and assumed of it.

What is out of the prover's reach is liveness (`Returns`, `IngestsEnd`,
`ParseEnds`, `BuildEnds`, `SignalEndsServer`, `CallsEnd`).

## 11. Plan

All components are modelled, and every safety property of the passing runs is a
theorem. What is left:

1. `Pipeline`: `FeedParser` followed by `Timetable`, with the rides of the timetable
   stated of the rows of the zip. `FeedSuitsBuild` and `PatternsSuitEngine`
   join the three components so far, one assumption at a time.
