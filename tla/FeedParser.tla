----------------------------- MODULE FeedParser -----------------------------
(***************************************************************************)
(* gtfs.ParseZip: the files of a GTFS zip are read row by row into a feed, *)
(* which is then sorted and indexed.  The feed has, besides what module    *)
(* Feed asks for,                                                          *)
(*   routes    : the ids of its routes;                                    *)
(*   tripRoute : function from trip ids to route ids;                      *)
(*   byStop    : StopTimesByStop, function from stop ids to sequences of   *)
(*               <<trip id, stop time>>.                                   *)
(*                                                                         *)
(* A zip is a record of whether it can be opened, and of its entries, each *)
(* with a base name and rows.  A row is a function from the columns of the *)
(* file to cells, a cell the sequence of the integers that its text spells *)
(* between colons: <<>> if it is empty, one for an id, a date or a number, *)
(* three for a time.  The weekdays whose column is 1 are one cell.         *)
(***************************************************************************)
EXTENDS Feed

CONSTANT Zips   \* the files that ParseZip is called with

Week == 0..6

IdColumns == {"stop_id", "route_id", "trip_id", "service_id", "date", "start_date", "end_date"}

RowTyped(row) ==
  \A column \in DOMAIN row :
    /\ row[column] \in Seq(Int)
    /\ column \in IdColumns => row[column] \in Seq(Nat)
    /\ column = "weekdays" => row[column] \in Seq(Week)

ASSUME ZipsAssumption ==
  \A z \in Zips :
    /\ z.readable \in BOOLEAN
    /\ DOMAIN z.entries = 1..Len(z.entries) /\ Len(z.entries) \in Nat
    /\ \A i \in DOMAIN z.entries :
         LET rows == z.entries[i].rows
         IN  /\ DOMAIN rows = 1..Len(rows) /\ Len(rows) \in Nat
             /\ \A j \in DOMAIN rows : RowTyped(rows[j])

VARIABLES
  zip,    \* the argument
  pc,     \* the file that is read, or the step of ParseZip
  line,   \* the next row of that file
  feed    \* the feed under construction

vars == <<zip, pc, line, feed>>

Required == {"stops", "routes", "trips", "stop_times"}

FileOrder == <<"stops", "routes", "trips", "stop_times", "calendar", "calendar_dates", "check">>

Files == {FileOrder[i] : i \in 1..6}

EmptyFeed ==
  [stops |-> {}, routes |-> {}, trips |-> << >>, times |-> << >>, services |-> << >>,
   tripRoute |-> << >>, byStop |-> << >>]

Init ==
  /\ zip \in Zips
  /\ pc = "open"
  /\ line = 1
  /\ feed = EmptyFeed

(***************************************************************************)
(* Files are found by base name; of two the last is taken.  A file that is *)
(* not there is read as one without rows.                                  *)
(***************************************************************************)
Named(z, name) == {i \in DOMAIN z.entries : z.entries[i].name = name}

Rows(z, name) ==
  IF Named(z, name) = {} THEN <<>>
  ELSE z.entries[CHOOSE i \in Named(z, name) : \A j \in Named(z, name) : j <= i].rows

Fail == pc' = "failed" /\ UNCHANGED <<zip, line, feed>>

Openable(z) == z.readable /\ \A name \in Required : Named(z, name) # {}

OpenZip ==
  /\ pc = "open"
  /\ \/ Openable(zip) /\ pc' = FileOrder[1] /\ UNCHANGED <<zip, line, feed>>
     \/ ~Openable(zip) /\ Fail

-----------------------------------------------------------------------------
(***************************************************************************)
(* Cells.  A column that is missing from the file, or the row, is empty.   *)
(***************************************************************************)
Cell(row, column) == IF column \in DOMAIN row THEN row[column] ELSE <<>>

Id(row, column) == IF Cell(row, column) = <<>> THEN 0 ELSE Cell(row, column)[1]

IsNumber(cell) == Len(cell) = 1

(***************************************************************************)
(* Which rows a handler accepts.  A line that is no CSV has no columns.    *)
(***************************************************************************)
StopRowOK(row) ==
  Id(row, "stop_id") # 0 /\ IsNumber(Cell(row, "stop_lat")) /\ IsNumber(Cell(row, "stop_lon"))

RouteRowOK(row) == Id(row, "route_id") # 0

TripRowOK(row) == Id(row, "trip_id") # 0

(* Mutant: a stop time may have no stop. *)
StopTimeRowUnchecked(row) ==
  /\ Id(row, "trip_id") # 0
  /\ IsTime(Cell(row, "arrival_time")) /\ IsTime(Cell(row, "departure_time"))
  /\ IsNumber(Cell(row, "stop_sequence"))

StopTimeRowOK(row) ==
  /\ Id(row, "trip_id") # 0
  /\ IsTime(Cell(row, "arrival_time")) /\ IsTime(Cell(row, "departure_time"))
  /\ IsNumber(Cell(row, "stop_sequence"))
  /\ Id(row, "stop_id") # 0

CalendarRowOK(row) == Id(row, "service_id") # 0

CalendarDateRowOK(row) ==
  Id(row, "service_id") # 0 /\ Cell(row, "exception_type") \in {<<1>>, <<2>>}

RowOK(name, row) ==
  \/ name = "stops" /\ StopRowOK(row)
  \/ name = "routes" /\ RouteRowOK(row)
  \/ name = "trips" /\ TripRowOK(row)
  \/ name = "stop_times" /\ StopTimeRowOK(row)
  \/ name = "calendar" /\ CalendarRowOK(row)
  \/ name = "calendar_dates" /\ CalendarDateRowOK(row)

-----------------------------------------------------------------------------
(***************************************************************************)
(* parseFile calls the handler of the file for one row after the other.    *)
(***************************************************************************)
Row == Rows(zip, pc)[line]

HasRow == pc \in Files /\ line <= Len(Rows(zip, pc))

Reads(name) == pc = name /\ HasRow /\ RowOK(name, Row)

Advance == line' = line + 1 /\ UNCHANGED <<zip, pc>>

(* The function f with x mapped to v, in its domain or not. *)
With(f, x, v) == [y \in DOMAIN f \cup {x} |-> IF y = x THEN v ELSE f[y]]

ParseStopRow ==
  /\ Reads("stops")
  /\ feed' = [feed EXCEPT !.stops = @ \cup {Id(Row, "stop_id")}]
  /\ Advance

ParseRouteRow ==
  /\ Reads("routes")
  /\ feed' = [feed EXCEPT !.routes = @ \cup {Id(Row, "route_id")}]
  /\ Advance

TripOf(row) == [route |-> Id(row, "route_id"), service |-> Id(row, "service_id")]

(* Mutant: a trip starts out with an empty list of stop times. *)
ParseTripRowTimed ==
  /\ Reads("trips")
  /\ feed' = [feed EXCEPT !.trips = With(@, Id(Row, "trip_id"), TripOf(Row)),
                          !.times = With(@, Id(Row, "trip_id"), <<>>)]
  /\ Advance

ParseTripRow ==
  /\ Reads("trips")
  /\ feed' = [feed EXCEPT !.trips = With(@, Id(Row, "trip_id"), TripOf(Row))]
  /\ Advance

StopTimeOf(row) ==
  [stop |-> Id(row, "stop_id"),
   arr  |-> Seconds(Cell(row, "arrival_time")),
   dep  |-> Seconds(Cell(row, "departure_time")),
   seq  |-> Cell(row, "stop_sequence")[1]]

TimesOf(f, trip) == IF trip \in DOMAIN f.times THEN f.times[trip] ELSE <<>>

ParseStopTimeRow ==
  LET trip == Id(Row, "trip_id")
  IN  /\ Reads("stop_times")
      /\ feed' = [feed EXCEPT !.times = With(@, trip, Append(TimesOf(feed, trip), StopTimeOf(Row)))]
      /\ Advance

(* Mutant: every row of a service starts from a fresh one. *)
FreshService(f, id) ==
  [weekdays |-> {}, start |-> NoDate, end |-> NoDate, added |-> {}, removed |-> {}]

Service(f, id) ==
  IF id \in DOMAIN f.services THEN f.services[id]
  ELSE [weekdays |-> {}, start |-> NoDate, end |-> NoDate, added |-> {}, removed |-> {}]

Weekdays(row) == {Cell(row, "weekdays")[i] : i \in DOMAIN Cell(row, "weekdays")}

ParseCalendarRow ==
  LET id == Id(Row, "service_id")
  IN  /\ Reads("calendar")
      /\ feed' = [feed EXCEPT !.services =
                    With(@, id, [Service(feed, id) EXCEPT !.weekdays = Weekdays(Row),
                                                          !.start = Id(Row, "start_date"),
                                                          !.end = Id(Row, "end_date")])]
      /\ Advance

ParseCalendarDateRow ==
  LET id   == Id(Row, "service_id")
      date == Id(Row, "date")
      svc  == Service(feed, id)
  IN  /\ Reads("calendar_dates")
      /\ \/ /\ Cell(Row, "exception_type") = <<1>>
            /\ feed' = [feed EXCEPT !.services = With(@, id, [svc EXCEPT !.added = @ \cup {date}])]
         \/ /\ Cell(Row, "exception_type") = <<2>>
            /\ feed' = [feed EXCEPT !.services = With(@, id, [svc EXCEPT !.removed = @ \cup {date}])]
      /\ Advance

(* Mutant: the parse waits at a bad row. *)
RejectRowStays == HasRow /\ ~RowOK(pc, Row) /\ UNCHANGED vars

RejectRow == HasRow /\ ~RowOK(pc, Row) /\ Fail

(* Mutant: the line is not reset. *)
NextFileKeepsLine ==
  /\ pc \in Files /\ ~HasRow
  /\ \E i \in 1..6 : pc = FileOrder[i] /\ pc' = FileOrder[i + 1]
  /\ UNCHANGED <<zip, line, feed>>

NextFile ==
  /\ pc \in Files /\ ~HasRow
  /\ \E i \in 1..6 : pc = FileOrder[i] /\ pc' = FileOrder[i + 1]
  /\ line' = 1
  /\ UNCHANGED <<zip, feed>>

CheckServices ==
  /\ pc = "check"
  /\ \/ DOMAIN feed.services # {} /\ pc' = "sort" /\ UNCHANGED <<zip, line, feed>>
     \/ DOMAIN feed.services = {} /\ Fail

-----------------------------------------------------------------------------
(***************************************************************************)
(* buildIndexes.  sort.Slice is not stable: any order of equal keys.       *)
(***************************************************************************)
Orders(n) == {o \in [1..n -> 1..n] : \A i, j \in 1..n : o[i] = o[j] => i = j}

Reordered(s, o) == [i \in 1..Len(s) |-> s[o[i]]]

(* Mutant: stop times are sorted by departure. *)
BySeqOfDeparture(s) ==
  {Reordered(s, o) : o \in {x \in Orders(Len(s)) : \A i, j \in 1..Len(s) : i < j => s[x[i]].dep <= s[x[j]].dep}}

BySeq(s) ==
  {Reordered(s, o) : o \in {x \in Orders(Len(s)) : \A i, j \in 1..Len(s) : i < j => s[x[i]].seq <= s[x[j]].seq}}

SortStopTimes ==
  /\ pc = "sort"
  /\ \E times \in [DOMAIN feed.times -> UNION {BySeq(feed.times[id]) : id \in DOMAIN feed.times}] :
       /\ \A id \in DOMAIN feed.times : times[id] \in BySeq(feed.times[id])
       /\ feed' = [feed EXCEPT !.times = times,
                               !.tripRoute = [id \in DOMAIN feed.trips |-> feed.trips[id].route]]
  /\ pc' = "index"
  /\ UNCHANGED <<zip, line>>

(* Mutant: of a trip that loops, a stop gets the first visit only. *)
VisitsOnce(f, stop) ==
  UNION {{<<id, i>> : i \in {x \in DOMAIN f.times[id] :
            /\ f.times[id][x].stop = stop
            /\ \A y \in 1..x - 1 : f.times[id][y].stop # stop}} : id \in DOMAIN f.times}

VisitsOf(f, stop) ==
  UNION {{<<id, i>> : i \in {x \in DOMAIN f.times[id] : f.times[id][x].stop = stop}} : id \in DOMAIN f.times}

ByDeparture(f, S) ==
  {[i \in 1..Cardinality(S) |-> <<o[i][1], f.times[o[i][1]][o[i][2]]>>] :
     o \in {x \in [1..Cardinality(S) -> S] :
              /\ \A v \in S : \E i \in DOMAIN x : x[i] = v
              /\ \A i, j \in DOMAIN x : i < j => f.times[x[i][1]][x[i][2]].dep <= f.times[x[j][1]][x[j][2]].dep}}

StopsVisited(f) == UNION {{f.times[id][i].stop : i \in DOMAIN f.times[id]} : id \in DOMAIN f.times}

IndexByStop ==
  /\ pc = "index"
  /\ \E byStop \in [StopsVisited(feed) -> UNION {ByDeparture(feed, VisitsOf(feed, s)) : s \in StopsVisited(feed)}] :
       /\ \A s \in StopsVisited(feed) : byStop[s] \in ByDeparture(feed, VisitsOf(feed, s))
       /\ feed' = [feed EXCEPT !.byStop = byStop]
  /\ pc' = "done"
  /\ UNCHANGED <<zip, line>>

Ended == pc \in {"done", "failed"} /\ UNCHANGED vars

Step ==
  \/ OpenZip
  \/ ParseStopRow \/ ParseRouteRow \/ ParseTripRow \/ ParseStopTimeRow
  \/ ParseCalendarRow \/ ParseCalendarDateRow
  \/ RejectRow \/ NextFile \/ CheckServices
  \/ SortStopTimes \/ IndexByStop

Next == Step \/ Ended

Spec == Init /\ [][Next]_vars

FairSpec == Spec /\ WF_vars(Step)

=============================================================================
