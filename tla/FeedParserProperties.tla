------------------------ MODULE FeedParserProperties ------------------------
(***************************************************************************)
(* What ingest and Build rely on of a parsed feed, said of the rows of the *)
(* zip without regard to the order in which they are read.                 *)
(***************************************************************************)
EXTENDS FeedParser

(* Every variable holds a value of its type, and the line is one of the    *)
(* file that is read, or just after it.                                    *)
TypeOK ==
  /\ zip \in Zips
  /\ pc \in Files \cup {"open", "check", "sort", "index", "done", "failed"}
  /\ line \in Nat \ {0}
  /\ pc \in Files => line <= Len(Rows(zip, pc)) + 1
  /\ feed.stops \subseteq Nat
  /\ feed.routes \subseteq Nat
  /\ DOMAIN feed.trips \subseteq Nat
  /\ \A id \in DOMAIN feed.trips : feed.trips[id] \in [route : Nat, service : Nat]
  /\ \A id \in DOMAIN feed.times : feed.times[id] \in Seq(StopTime)
  /\ \A id \in DOMAIN feed.services :
       feed.services[id] \in [weekdays : SUBSET Week, start : Nat, end : Nat,
                              added : SUBSET Nat, removed : SUBSET Nat]

RowsIn(name) == {Rows(zip, name)[i] : i \in DOMAIN Rows(zip, name)}

(***************************************************************************)
(* Rows that a feed can be made of: the columns by which a row is filed    *)
(* and found, those that hold a number, and those that hold a time if      *)
(* anything.  A trip is filed by its own id; whether its other ids may be  *)
(* empty is another question (EmptyIdsFail).                               *)
(***************************************************************************)
Keys ==
  [stops |-> {"stop_id"}, routes |-> {"route_id"}, trips |-> {"trip_id"},
   stop_times |-> {"trip_id", "stop_id"}, calendar |-> {"service_id"},
   calendar_dates |-> {"service_id"}]

Numbers ==
  [name \in Files |-> IF name = "stops" THEN {"stop_lat", "stop_lon"}
                      ELSE IF name = "stop_times" THEN {"stop_sequence"} ELSE {}]

Clock == Nat \X (0..59) \X (0..59)

UsableRow(name, row) ==
  /\ \A column \in Keys[name] : Id(row, column) # 0
  /\ \A column \in Numbers[name] : Len(Cell(row, column)) = 1
  /\ name = "stop_times" =>
       \A column \in {"arrival_time", "departure_time"} : Cell(row, column) # <<>> => Cell(row, column) \in Clock
  /\ name = "calendar_dates" => Cell(row, "exception_type") \in {<<1>>, <<2>>}

Usable ==
  /\ Openable(zip)
  /\ \A name \in Files : \A row \in RowsIn(name) : UsableRow(name, row)
  /\ RowsIn("calendar") \cup RowsIn("calendar_dates") # {}

(* A feed comes of a zip exactly if every file that is needed is there,    *)
(* some service is named, and every row of the files that count is usable: *)
(* one bad row anywhere leaves no partial feed, and nothing else is        *)
(* rejected (parse.go:46-80, 134-144).                                     *)
AcceptsUsable ==
  /\ pc = "done" => Usable
  /\ pc = "failed" => ~Usable

(***************************************************************************)
(* The rows of a trip, and the stop times they spell.                      *)
(***************************************************************************)
TripRows(id) ==
  {i \in DOMAIN Rows(zip, "stop_times") : Id(Rows(zip, "stop_times")[i], "trip_id") = id}

RowTime(i) == StopTimeOf(Rows(zip, "stop_times")[i])

(* The stop times of a trip are its rows, each once, in the order of their *)
(* stop_sequence, wherever in the file they are.                           *)
TimesFollowSequence ==
  pc \in {"index", "done"} =>
    /\ \A i \in DOMAIN Rows(zip, "stop_times") :
         Id(Rows(zip, "stop_times")[i], "trip_id") \in DOMAIN feed.times
    /\ \A id \in DOMAIN feed.times :
         LET times == feed.times[id]
         IN  /\ \A t \in {times[i] : i \in DOMAIN times} \cup {RowTime(i) : i \in TripRows(id)} :
                  Cardinality({i \in DOMAIN times : times[i] = t})
                    = Cardinality({i \in TripRows(id) : RowTime(i) = t})
             /\ \A i, j \in DOMAIN times : i < j => times[i].seq <= times[j].seq

(* The entries of a stop are the stop times of all trips at it, each once, *)
(* in the order of departure (parse_test.go:153).                          *)
ByStopExact ==
  pc = "done" =>
    \A s \in {RowTime(i).stop : i \in DOMAIN Rows(zip, "stop_times")} \cup DOMAIN feed.byStop :
      LET entries == feed.byStop[s]
      IN  /\ s \in DOMAIN feed.byStop
          /\ \A id \in DOMAIN feed.times : \A t \in {feed.times[id][i] : i \in DOMAIN feed.times[id]} :
               t.stop = s =>
                 Cardinality({i \in DOMAIN entries : entries[i] = <<id, t>>})
                   = Cardinality({i \in DOMAIN feed.times[id] : feed.times[id][i] = t})
          /\ \A i \in DOMAIN entries :
               /\ entries[i][2].stop = s
               /\ entries[i][2] \in {feed.times[entries[i][1]][j] : j \in DOMAIN feed.times[entries[i][1]]}
          /\ \A i, j \in DOMAIN entries : i < j => entries[i][2].dep <= entries[j][2].dep

(***************************************************************************)
(* Services.                                                               *)
(***************************************************************************)
ServiceRows(name, id) == {row \in RowsIn(name) : Id(row, "service_id") = id}

Exceptions(id, type) ==
  {Id(row, "date") : row \in {r \in ServiceRows("calendar_dates", id) : r["exception_type"] = <<type>>}}

LastCalendarRow(id) ==
  LET rows == Rows(zip, "calendar")
  IN  rows[CHOOSE i \in DOMAIN rows :
             /\ Id(rows[i], "service_id") = id
             /\ \A j \in DOMAIN rows : Id(rows[j], "service_id") = id => j <= i]

(* A service of either calendar file is in the feed, with the weekly       *)
(* pattern of its last row in calendar.txt and all its exceptions.         *)
ServicesCombineFiles ==
  pc \in {"sort", "index", "done"} =>
    /\ DOMAIN feed.services =
         {Id(row, "service_id") : row \in RowsIn("calendar") \cup RowsIn("calendar_dates")}
    /\ \A id \in DOMAIN feed.services :
         LET svc == feed.services[id]
         IN  /\ svc.added = Exceptions(id, 1) /\ svc.removed = Exceptions(id, 2)
             /\ IF ServiceRows("calendar", id) = {}
                THEN svc.start = NoDate /\ svc.weekdays = {}
                ELSE /\ svc.weekdays = Weekdays(LastCalendarRow(id))
                     /\ svc.start = Id(LastCalendarRow(id), "start_date")
                     /\ svc.end = Id(LastCalendarRow(id), "end_date")

(* Whatever is parsed is a feed as Build takes it for granted.             *)
FeedSuitsBuild == pc = "done" => FeedOK(feed) /\ ServicesOK(feed)

(***************************************************************************)
(* A claim of the repository that the code does not keep.                  *)
(***************************************************************************)
Ids == [Keys EXCEPT !.trips = {"trip_id", "route_id", "service_id"}]

(* "Malformed rows (bad coordinates, empty IDs) fail loudly rather than    *)
(* parsing to silent zero values" (README.md:52): no row of a zip that     *)
(* becomes a feed has an id that is empty.                                 *)
EmptyIdsFail ==
  pc = "done" =>
    \A name \in Files : \A row \in RowsIn(name) : \A column \in Ids[name] : Id(row, column) # 0

-----------------------------------------------------------------------------
(* ParseZip returns, with a feed or an error.                              *)
ParseEnds == <>(pc \in {"done", "failed"})

=============================================================================
