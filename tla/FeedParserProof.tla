-------------------------- MODULE FeedParserProof ---------------------------
(***************************************************************************)
(* Proofs about gtfs.ParseZip, for any zip.                                *)
(***************************************************************************)
EXTENDS FeedParserInvariant, FiniteSetTheorems, SequenceTheorems, WellFoundedInduction, TLAPS

-----------------------------------------------------------------------------
(***************************************************************************)
(* Rows and cells.                                                         *)
(***************************************************************************)
(* Of the entries with one name there is a last (parse.go:26-34).          *)
LEMMA LastExists ==
  ASSUME NEW n \in Nat, NEW S \in SUBSET (1..n), S # {}
  PROVE  \E i \in S : \A j \in S : j <= i
  <1> DEFINE T == {n - i : i \in S}
  <1>1. T \subseteq Nat /\ T # {}
    <2>1. \A i \in S : i \in Nat /\ n - i \in Nat
      OBVIOUS
    <2>2. PICK i \in S : TRUE
      OBVIOUS
    <2>3. n - i \in T
      BY <2>2
    <2> QED BY <2>1, <2>3
  <1>2. PICK x \in T : \A y \in T : ~(<<y, x>> \in OpToRel(<, Nat))
    BY <1>1, NatLessThanWellFounded, WFMin
  <1>3. \A y \in T : ~(y < x)
    BY <1>1, <1>2 DEF OpToRel
  <1>4. PICK i \in S : x = n - i
    BY <1>2
  <1>5. \A j \in S : ~(n - j < n - i)
    BY <1>3, <1>4
  <1> QED BY <1>5

LEMMA RowsTyped ==
  ASSUME NEW z \in Zips, NEW name
  PROVE  /\ Len(Rows(z, name)) \in Nat
         /\ DOMAIN Rows(z, name) = 1..Len(Rows(z, name))
         /\ \A l \in 1..Len(Rows(z, name)) : RowTyped(Rows(z, name)[l])
  <1>1. CASE Named(z, name) = {}
    <2>1. Rows(z, name) = <<>>
      BY <1>1 DEF Rows
    <2> QED BY <2>1
  <1>2. CASE Named(z, name) # {}
    <2> DEFINE i == CHOOSE i \in Named(z, name) : \A j \in Named(z, name) : j <= i
    <2>1. Named(z, name) \in SUBSET (1..Len(z.entries)) /\ Len(z.entries) \in Nat
      BY ZipsAssumption DEF Named
    <2>2. \E x \in Named(z, name) : \A j \in Named(z, name) : j <= x
      BY <1>2, <2>1, LastExists
    <2>3. i \in DOMAIN z.entries
      BY <2>2 DEF Named
    <2>4. Rows(z, name) = z.entries[i].rows
      BY <1>2 DEF Rows
    <2> HIDE DEF i
    <2> QED BY <2>3, <2>4, ZipsAssumption
  <1> QED BY <1>1, <1>2

LEMMA CellTyped ==
  ASSUME NEW row, RowTyped(row), NEW column
  PROVE  /\ Cell(row, column) \in Seq(Int)
         /\ column \in IdColumns => Id(row, column) \in Nat
  <1>1. CASE column \in DOMAIN row
    <2>1. Cell(row, column) = row[column]
      BY <1>1 DEF Cell
    <2>2. row[column] \in Seq(Int) /\ (column \in IdColumns => row[column] \in Seq(Nat))
      BY <1>1 DEF RowTyped
    <2>3. ASSUME row[column] \in Seq(Nat), row[column] # <<>>
          PROVE  row[column][1] \in Nat
      <3> DEFINE c == row[column]
      <3>1. c \in Seq(Nat) /\ c # <<>>
        BY <2>3
      <3> HIDE DEF c
      <3>2. Len(c) \in Nat \ {0}
        BY <3>1, EmptySeq
      <3>3. c[1] \in Nat
        BY <3>1, <3>2, ElementOfSeq
      <3> QED BY <3>3 DEF c
    <2> QED BY <2>1, <2>2, <2>3 DEF Id
  <1>2. CASE column \notin DOMAIN row
    <2>1. Cell(row, column) = <<>>
      BY <1>2 DEF Cell
    <2> QED BY <2>1 DEF Id
  <1> QED BY <1>1, <1>2

(* ParseTime accepts what is a time of day, or nothing (parse.go:263-277). *)
LEMMA TimeTyped ==
  ASSUME NEW cell \in Seq(Int), IsTime(cell)
  PROVE  Seconds(cell) \in Int
  <1>1. CASE cell = <<>>
    BY <1>1 DEF Seconds, Blank
  <1>2. CASE cell # <<>>
    <2>1. /\ Len(cell) = 3
          /\ cell[1] >= 0 /\ cell[2] \in 0..59 /\ cell[3] \in 0..59
      BY <1>2 DEF IsTime
    <2>2. cell[1] \in Int
      BY <2>1, ElementOfSeq
    <2>3. cell[2] \in Int /\ cell[3] \in Int
      <3>1. 0..59 \subseteq Int
        OBVIOUS
      <3> QED BY <2>1, <3>1, Zenon
    <2>4. \A h, m, s \in Int : h * 3600 + m * 60 + s \in Int
      OBVIOUS
    <2>5. Seconds(cell) = cell[1] * 3600 + cell[2] * 60 + cell[3]
      BY <1>2 DEF Seconds
    <2> HIDE DEF Seconds
    <2> QED BY <2>2, <2>3, <2>4, <2>5
  <1> QED BY <1>1, <1>2

LEMMA TimeIsClock ==
  ASSUME NEW cell \in Seq(Int)
  PROVE  IsTime(cell) <=> (cell # <<>> => cell \in Clock)
  <1>1. CASE cell = <<>>
    BY <1>1 DEF IsTime
  <1>2. CASE cell # <<>>
    <2>1. ASSUME IsTime(cell) PROVE cell \in Clock
      <3>1. /\ Len(cell) = 3
            /\ cell[1] >= 0 /\ cell[2] \in 0..59 /\ cell[3] \in 0..59
        BY <1>2, <2>1 DEF IsTime
      <3>2. cell[1] \in Nat
        BY <3>1, ElementOfSeq
      <3>3. cell = <<cell[1], cell[2], cell[3]>>
        BY <3>1
      <3> QED BY <3>1, <3>2, <3>3 DEF Clock
    <2>2. ASSUME cell \in Clock PROVE IsTime(cell)
      BY <2>2 DEF Clock, IsTime
    <2> QED BY <1>2, <2>1, <2>2
  <1> QED BY <1>1, <1>2

LEMMA RowsUsable ==
  ASSUME NEW row, RowTyped(row), NEW name \in Files
  PROVE  RowOK(name, row) <=> UsableRow(name, row)
  <1>1. name \in {"stops", "routes", "trips", "stop_times", "calendar", "calendar_dates"}
    BY DEF Files, FileOrder
  <1> USE DEF RowOK, UsableRow, Keys, Numbers, Files, FileOrder
  <1>2. CASE name = "stops"
    BY <1>2 DEF StopRowOK, IsNumber
  <1>3. CASE name = "routes"
    BY <1>3 DEF RouteRowOK
  <1>4. CASE name = "trips"
    BY <1>4 DEF TripRowOK
  <1>5. CASE name = "stop_times"
    <2>1. /\ IsTime(Cell(row, "arrival_time"))
               <=> (Cell(row, "arrival_time") # <<>> => Cell(row, "arrival_time") \in Clock)
          /\ IsTime(Cell(row, "departure_time"))
               <=> (Cell(row, "departure_time") # <<>> => Cell(row, "departure_time") \in Clock)
      BY CellTyped, TimeIsClock
    <2> QED BY <1>5, <2>1 DEF StopTimeRowOK, IsNumber
  <1>6. CASE name = "calendar"
    BY <1>6 DEF CalendarRowOK
  <1>7. CASE name = "calendar_dates"
    BY <1>7 DEF CalendarDateRowOK
  <1> QED BY <1>1, <1>2, <1>3, <1>4, <1>5, <1>6, <1>7

-----------------------------------------------------------------------------
(***************************************************************************)
(* The row handlers.                                                       *)
(***************************************************************************)
(* What the invariant says of the feed alone. *)
FeedInv ==
  /\ DOMAIN feed = DOMAIN EmptyFeed
  /\ feed.stops \subseteq Nat /\ IsFiniteSet(feed.stops)
  /\ feed.routes \subseteq Nat
  /\ DOMAIN feed.trips \subseteq Nat /\ IsFiniteSet(DOMAIN feed.trips)
  /\ \A id \in DOMAIN feed.trips : feed.trips[id] \in [route : Nat, service : Nat]
  /\ \A id \in DOMAIN feed.times : feed.times[id] \in Seq(StopTime) /\ feed.times[id] # <<>>
  /\ \A id \in DOMAIN feed.services :
       feed.services[id] \in [weekdays : SUBSET Week, start : Nat, end : Nat,
                              added : SUBSET Nat, removed : SUBSET Nat]

LEMMA FeedInvSplits ==
  ParserIInv <=>
    /\ FeedInv /\ AcceptedInv /\ ServicesInv
    /\ zip \in Zips
    /\ pc \in Files \cup {"open", "check", "sort", "index", "done", "failed"}
    /\ line \in Nat \ {0}
    /\ pc \in Files => line <= Len(Rows(zip, pc)) + 1
  BY DEF ParserIInv, TypeOK, FeedInv, FeedOK

LEMMA CurrentRow ==
  ASSUME ParserIInv, HasRow
  PROVE  line \in DOMAIN Rows(zip, pc) /\ RowTyped(Row)
  <1>1. pc \in Files /\ line <= Len(Rows(zip, pc)) /\ line \in Nat \ {0}
    BY DEF HasRow, ParserIInv, TypeOK
  <1>2. zip \in Zips
    BY DEF ParserIInv, TypeOK
  <1>3. /\ Len(Rows(zip, pc)) \in Nat /\ DOMAIN Rows(zip, pc) = 1..Len(Rows(zip, pc))
        /\ \A l \in 1..Len(Rows(zip, pc)) : RowTyped(Rows(zip, pc)[l])
    BY <1>2, RowsTyped
  <1>4. line \in 1..Len(Rows(zip, pc))
    BY <1>1, <1>3
  <1> QED BY <1>3, <1>4 DEF Row

LEMMA StopRowKeeps ==
  ASSUME ParserIInv, ParseStopRow
  PROVE  FeedInv' /\ feed'.services = feed.services
  <1>1. Id(Row, "stop_id") \in Nat
    BY CurrentRow, CellTyped DEF ParseStopRow, Reads, IdColumns
  <1>2. FeedInv /\ feed' = [feed EXCEPT !.stops = @ \cup {Id(Row, "stop_id")}]
    BY FeedInvSplits DEF ParseStopRow
  <1>3. IsFiniteSet(feed.stops \cup {Id(Row, "stop_id")})
    BY <1>2, FS_AddElement DEF FeedInv
  <1> QED BY <1>1, <1>2, <1>3 DEF FeedInv, EmptyFeed

LEMMA RouteRowKeeps ==
  ASSUME ParserIInv, ParseRouteRow
  PROVE  FeedInv' /\ feed'.services = feed.services
  <1>1. Id(Row, "route_id") \in Nat
    BY CurrentRow, CellTyped DEF ParseRouteRow, Reads, IdColumns
  <1>2. FeedInv /\ feed' = [feed EXCEPT !.routes = @ \cup {Id(Row, "route_id")}]
    BY FeedInvSplits DEF ParseRouteRow
  <1> QED BY <1>1, <1>2 DEF FeedInv, EmptyFeed

LEMMA TripRowKeeps ==
  ASSUME ParserIInv, ParseTripRow
  PROVE  FeedInv' /\ feed'.services = feed.services
  <1> DEFINE id == Id(Row, "trip_id")
             trips == With(feed.trips, id, TripOf(Row))
  <1>1. id \in Nat /\ TripOf(Row) \in [route : Nat, service : Nat]
    BY CurrentRow, CellTyped DEF ParseTripRow, Reads, IdColumns, TripOf
  <1>2. FeedInv /\ feed' = [feed EXCEPT !.trips = trips]
    BY FeedInvSplits DEF ParseTripRow
  <1>3. /\ DOMAIN trips = DOMAIN feed.trips \cup {id}
        /\ IsFiniteSet(DOMAIN trips)
        /\ \A y \in DOMAIN trips : trips[y] = IF y = id THEN TripOf(Row) ELSE feed.trips[y]
    <2>1. IsFiniteSet(DOMAIN feed.trips)
      BY <1>2 DEF FeedInv
    <2> HIDE DEF id
    <2>2. IsFiniteSet(DOMAIN feed.trips \cup {id})
      BY <2>1, FS_AddElement
    <2> QED BY <2>2 DEF With
  <1> HIDE DEF id, trips
  <1> QED BY <1>1, <1>2, <1>3 DEF FeedInv, EmptyFeed

LEMMA StopTimeRowTyped ==
  ASSUME ParserIInv, ParseStopTimeRow
  PROVE  StopTimeOf(Row) \in StopTime
  <1>1. RowTyped(Row) /\ StopTimeRowOK(Row)
    BY CurrentRow DEF ParseStopTimeRow, Reads, RowOK
  <1>2. Id(Row, "stop_id") \in Nat
    BY <1>1, CellTyped DEF IdColumns
  <1>3. /\ Seconds(Cell(Row, "arrival_time")) \in Int
        /\ Seconds(Cell(Row, "departure_time")) \in Int
    BY <1>1, CellTyped, TimeTyped DEF StopTimeRowOK
  <1>4. Cell(Row, "stop_sequence")[1] \in Int
    BY <1>1, CellTyped, ElementOfSeq DEF StopTimeRowOK, IsNumber
  <1> QED BY <1>2, <1>3, <1>4 DEF StopTimeOf, StopTime

LEMMA StopTimeRowKeeps ==
  ASSUME ParserIInv, ParseStopTimeRow
  PROVE  FeedInv' /\ feed'.services = feed.services
  <1> DEFINE id == Id(Row, "trip_id")
             list == Append(TimesOf(feed, id), StopTimeOf(Row))
             times == With(feed.times, id, list)
  <1>1. StopTimeOf(Row) \in StopTime
    BY StopTimeRowTyped
  <1>2. FeedInv /\ feed' = [feed EXCEPT !.times = times]
    BY FeedInvSplits DEF ParseStopTimeRow
  <1>3. TimesOf(feed, id) \in Seq(StopTime)
    BY <1>2 DEF TimesOf, FeedInv
  <1>4. list \in Seq(StopTime) /\ list # <<>>
    <2> DEFINE s == TimesOf(feed, id)
               e == StopTimeOf(Row)
    <2>1. s \in Seq(StopTime) /\ e \in StopTime
      BY <1>1, <1>3
    <2> HIDE DEF s, e
    <2>2. Append(s, e) \in Seq(StopTime) /\ Len(Append(s, e)) = Len(s) + 1 /\ Len(s) \in Nat
      BY <2>1
    <2>3. Append(s, e) # <<>>
      BY <2>2
    <2> QED BY <2>2, <2>3 DEF s, e
  <1>5. /\ DOMAIN times = DOMAIN feed.times \cup {id}
        /\ \A y \in DOMAIN times : times[y] = IF y = id THEN list ELSE feed.times[y]
    <2> HIDE DEF id, list
    <2> QED BY DEF With
  <1> HIDE DEF id, list, times
  <1> QED BY <1>2, <1>4, <1>5 DEF FeedInv, EmptyFeed

(* A service row puts its service into the feed.                           *)
LEMMA ServiceTyped ==
  ASSUME FeedInv, NEW id
  PROVE  Service(feed, id) \in [weekdays : SUBSET Week, start : Nat, end : Nat,
                                added : SUBSET Nat, removed : SUBSET Nat]
  BY DEF FeedInv, Service, NoDate

LEMMA WeekdaysTyped ==
  ASSUME NEW row, RowTyped(row)
  PROVE  Weekdays(row) \subseteq Week
  BY DEF Weekdays, RowTyped, Cell

LEMMA CalendarRowKeeps ==
  ASSUME ParserIInv, ParseCalendarRow
  PROVE  FeedInv' /\ DOMAIN feed'.services # {}
  <1> DEFINE id == Id(Row, "service_id")
             svc == [Service(feed, id) EXCEPT !.weekdays = Weekdays(Row),
                                              !.start = Id(Row, "start_date"),
                                              !.end = Id(Row, "end_date")]
             services == With(feed.services, id, svc)
  <1>1. /\ id \in Nat /\ Id(Row, "start_date") \in Nat /\ Id(Row, "end_date") \in Nat
    BY CurrentRow, CellTyped DEF ParseCalendarRow, Reads, IdColumns
  <1>2. FeedInv /\ feed' = [feed EXCEPT !.services = services]
    BY FeedInvSplits DEF ParseCalendarRow
  <1>3. svc \in [weekdays : SUBSET Week, start : Nat, end : Nat, added : SUBSET Nat, removed : SUBSET Nat]
    <2>1. RowTyped(Row)
      BY CurrentRow DEF ParseCalendarRow, Reads
    <2>2. Weekdays(Row) \in SUBSET Week
      BY <2>1, WeekdaysTyped
    <2> QED BY <1>1, <1>2, <2>2, ServiceTyped
  <1>4. /\ DOMAIN services = DOMAIN feed.services \cup {id}
        /\ \A y \in DOMAIN services : services[y] = IF y = id THEN svc ELSE feed.services[y]
    <2> HIDE DEF id, svc
    <2> QED BY DEF With
  <1> HIDE DEF id, svc, services
  <1> QED BY <1>2, <1>3, <1>4 DEF FeedInv, EmptyFeed

LEMMA CalendarDateRowKeeps ==
  ASSUME ParserIInv, ParseCalendarDateRow
  PROVE  FeedInv' /\ DOMAIN feed'.services # {}
  <1> DEFINE id == Id(Row, "service_id")
             date == Id(Row, "date")
             T == [weekdays : SUBSET Week, start : Nat, end : Nat, added : SUBSET Nat, removed : SUBSET Nat]
  <1>1. date \in Nat
    BY CurrentRow, CellTyped DEF ParseCalendarDateRow, Reads, IdColumns
  <1>2. FeedInv
    BY FeedInvSplits
  <1>3. PICK svc \in T : feed' = [feed EXCEPT !.services = With(@, id, svc)]
    <2>1. /\ [Service(feed, id) EXCEPT !.added = @ \cup {date}] \in T
          /\ [Service(feed, id) EXCEPT !.removed = @ \cup {date}] \in T
      BY <1>1, <1>2, ServiceTyped
    <2> QED BY <2>1 DEF ParseCalendarDateRow
  <1> DEFINE services == With(feed.services, id, svc)
  <1>4. /\ DOMAIN services = DOMAIN feed.services \cup {id}
        /\ \A y \in DOMAIN services : services[y] = IF y = id THEN svc ELSE feed.services[y]
    <2> HIDE DEF id
    <2> QED BY DEF With
  <1>5. feed' = [feed EXCEPT !.services = services]
    BY <1>3
  <1> HIDE DEF id, services
  <1> QED BY <1>2, <1>4, <1>5 DEF FeedInv, EmptyFeed

-----------------------------------------------------------------------------
(***************************************************************************)
(* The files.                                                              *)
(***************************************************************************)
(* An accepted row extends what was accepted.                              *)
LEMMA AdvanceKeeps ==
  ASSUME ParserIInv, HasRow, RowOK(pc, Row), Advance
  PROVE  /\ AcceptedInv'
         /\ zip' \in Zips /\ pc' \in Files /\ line' \in Nat \ {0}
         /\ line' <= Len(Rows(zip, pc)') + 1
  <1>1. /\ zip' = zip /\ pc' = pc /\ line' = line + 1
        /\ pc \in Files /\ line <= Len(Rows(zip, pc)) /\ line \in Nat \ {0} /\ zip \in Zips
    BY DEF Advance, HasRow, ParserIInv, TypeOK
  <1>2. Len(Rows(zip, pc)) \in Nat
    BY <1>1, RowsTyped
  <1>3. AcceptedInv
    BY DEF ParserIInv
  <1>4. pc # "failed" /\ pc # "open"
    BY <1>1 DEF Files, FileOrder
  <1>5. \A l \in 1..line' - 1 : RowOK(pc, Rows(zip, pc)[l])
    <2> TAKE l \in 1..line' - 1
    <2>1. l \in 1..line - 1 \/ l = line
      BY <1>1
    <2> QED BY <1>1, <1>3, <2>1 DEF AcceptedInv, Row
  <1>6. \A name \in Files : ReadThrough(name)' <=> ReadThrough(name)
    BY <1>1 DEF ReadThrough
  <1>7. AcceptedInv'
    BY <1>1, <1>3, <1>4, <1>5, <1>6 DEF AcceptedInv
  <1> QED BY <1>1, <1>2, <1>7

LEMMA ParseKeeps ==
  ASSUME ParserIInv,
         \/ ParseStopRow \/ ParseRouteRow \/ ParseTripRow \/ ParseStopTimeRow
         \/ ParseCalendarRow \/ ParseCalendarDateRow
  PROVE  ParserIInv'
  <1>1. HasRow /\ RowOK(pc, Row) /\ Advance
    BY DEF ParseStopRow, ParseRouteRow, ParseTripRow, ParseStopTimeRow, ParseCalendarRow,
           ParseCalendarDateRow, Reads
  <1>2. /\ zip' = zip /\ pc' = pc /\ line' = line + 1 /\ line \in Nat \ {0}
    BY <1>1 DEF Advance, ParserIInv, TypeOK
  <1>3. /\ FeedInv'
        /\ pc \in {"stops", "routes", "trips", "stop_times"} => feed'.services = feed.services
        /\ pc \in {"calendar", "calendar_dates"} => DOMAIN feed'.services # {}
        /\ pc \in {"stops", "routes", "trips", "stop_times", "calendar", "calendar_dates"}
    <2>1. CASE ParseStopRow
      BY <2>1, StopRowKeeps DEF ParseStopRow, Reads
    <2>2. CASE ParseRouteRow
      BY <2>2, RouteRowKeeps DEF ParseRouteRow, Reads
    <2>3. CASE ParseTripRow
      BY <2>3, TripRowKeeps DEF ParseTripRow, Reads
    <2>4. CASE ParseStopTimeRow
      BY <2>4, StopTimeRowKeeps DEF ParseStopTimeRow, Reads
    <2>5. CASE ParseCalendarRow
      BY <2>5, CalendarRowKeeps DEF ParseCalendarRow, Reads
    <2>6. CASE ParseCalendarDateRow
      BY <2>6, CalendarDateRowKeeps DEF ParseCalendarDateRow, Reads
    <2> QED BY <2>1, <2>2, <2>3, <2>4, <2>5, <2>6
  <1>4. ServicesInv
    BY DEF ParserIInv
  <1>5. ServicesInv'
    BY <1>2, <1>3, <1>4 DEF ServicesInv
  <1>6. /\ AcceptedInv'
        /\ zip' \in Zips /\ pc' \in Files /\ line' \in Nat \ {0}
        /\ line' <= Len(Rows(zip, pc)') + 1
    BY <1>1, AdvanceKeeps
  <1> QED BY <1>3, <1>5, <1>6 DEF ParserIInv, TypeOK, FeedInv, FeedOK

(* A zip with a row that a handler rejects is not well formed.             *)
LEMMA RejectKeeps ==
  ASSUME ParserIInv, RejectRow
  PROVE  ParserIInv'
  <1>1. /\ pc' = "failed" /\ UNCHANGED <<zip, line, feed>>
        /\ HasRow /\ ~RowOK(pc, Row)
    BY DEF RejectRow, Fail
  <1>2. pc \in Files
    BY <1>1 DEF HasRow
  <1>3. Row \in RowsIn(pc) /\ ~UsableRow(pc, Row)
    <2>1. RowTyped(Row) /\ line \in DOMAIN Rows(zip, pc)
      BY <1>1, CurrentRow
    <2> QED BY <1>1, <1>2, <2>1, RowsUsable DEF RowsIn, Row
  <1>4. ~Usable
    BY <1>2, <1>3 DEF Usable
  <1>5. ~Usable'
    BY <1>1, <1>4 DEF Usable, RowsIn
  <1>6. \A name \in Files : ~ReadThrough(name)'
    BY <1>1 DEF ReadThrough, FileOrder
  <1>7. AcceptedInv'
    BY <1>1, <1>5, <1>6 DEF AcceptedInv, Files, FileOrder
  <1>8. ServicesInv'
    BY <1>1 DEF ServicesInv
  <1> QED BY <1>1, <1>7, <1>8 DEF ParserIInv, TypeOK, FeedOK, Files, FileOrder

LEMMA NextFileKeeps ==
  ASSUME ParserIInv, NextFile
  PROVE  ParserIInv'
  <1>1. /\ pc \in Files /\ ~HasRow /\ line' = 1 /\ UNCHANGED <<zip, feed>>
        /\ zip \in Zips /\ line \in Nat \ {0} /\ line <= Len(Rows(zip, pc)) + 1
    BY DEF NextFile, ParserIInv, TypeOK
  <1>2. \A name : Len(Rows(zip, name)) \in Nat /\ DOMAIN Rows(zip, name) = 1..Len(Rows(zip, name))
    BY <1>1, RowsTyped
  <1>3. line = Len(Rows(zip, pc)) + 1
    BY <1>1, <1>2 DEF HasRow
  <1>4. \/ pc = "stops" /\ pc' = "routes"
        \/ pc = "routes" /\ pc' = "trips"
        \/ pc = "trips" /\ pc' = "stop_times"
        \/ pc = "stop_times" /\ pc' = "calendar"
        \/ pc = "calendar" /\ pc' = "calendar_dates"
        \/ pc = "calendar_dates" /\ pc' = "check"
    BY DEF NextFile, FileOrder
  <1>5. \A name \in Files : ReadThrough(name)' => ReadThrough(name) \/ name = pc
    <2> SUFFICES ASSUME NEW name \in Files, ReadThrough(name)', name # pc PROVE ReadThrough(name)
      OBVIOUS
    <2> DEFINE After(file) == \E i, j \in 1..6 : i < j /\ name = FileOrder[i] /\ file = FileOrder[j]
    <2>1. name \in {"stops", "routes", "trips", "stop_times", "calendar", "calendar_dates"}
      BY DEF Files, FileOrder
    <2>2. /\ After("stops") <=> FALSE
          /\ After("routes") <=> name = "stops"
          /\ After("trips") <=> name \in {"stops", "routes"}
          /\ After("stop_times") <=> name \in {"stops", "routes", "trips"}
          /\ After("calendar") <=> name \in {"stops", "routes", "trips", "stop_times"}
          /\ After("calendar_dates") <=> name \in {"stops", "routes", "trips", "stop_times", "calendar"}
      BY DEF FileOrder
    <2>3. ReadThrough(name)' <=> (pc' = "check" \/ After(pc'))
      BY <1>4 DEF ReadThrough
    <2>4. ReadThrough(name) <=> After(pc)
      BY <1>4 DEF ReadThrough
    <2> HIDE DEF After
    <2> QED BY <1>4, <2>1, <2>2, <2>3, <2>4
  <1>6. AcceptedInv /\ ServicesInv
    BY DEF ParserIInv
  <1>7. AcceptedInv'
    <2>1. \A l \in DOMAIN Rows(zip, pc) : RowOK(pc, Rows(zip, pc)[l])
      BY <1>1, <1>2, <1>3, <1>6 DEF AcceptedInv
    <2>2. \A name \in Files : ReadThrough(name)' =>
             \A l \in DOMAIN Rows(zip, name) : RowOK(name, Rows(zip, name)[l])
      BY <1>5, <1>6, <2>1 DEF AcceptedInv
    <2> QED BY <1>1, <1>4, <1>6, <2>2 DEF AcceptedInv
  <1>8. ServicesInv'
    <2>1. /\ pc = "calendar" => (line = 1 <=> Len(Rows(zip, "calendar")) = 0)
          /\ pc = "calendar_dates" => (line = 1 <=> Len(Rows(zip, "calendar_dates")) = 0)
      BY <1>2, <1>3
    <2> QED BY <1>1, <1>4, <1>6, <2>1 DEF ServicesInv
  <1>9. line' <= Len(Rows(zip, pc')) + 1
    BY <1>1, <1>2
  <1> QED BY <1>1, <1>4, <1>7, <1>8, <1>9 DEF ParserIInv, TypeOK, FeedOK, Files, FileOrder

LEMMA OpenKeeps ==
  ASSUME ParserIInv, OpenZip
  PROVE  ParserIInv'
  <1>1. /\ pc = "open" /\ UNCHANGED <<zip, line, feed>>
        /\ \/ Openable(zip) /\ pc' = "stops"
           \/ ~Openable(zip) /\ pc' = "failed"
    BY DEF OpenZip, Fail, FileOrder
  <1>2. \A name \in Files : ~ReadThrough(name)'
    BY <1>1 DEF ReadThrough, FileOrder
  <1>3. AcceptedInv'
    <2>1. ~Openable(zip) => ~Usable'
      BY <1>1 DEF Usable
    <2>2. line' = 1 \/ pc' = "failed"
      BY <1>1, <1>2 DEF ParserIInv, AcceptedInv
    <2> QED BY <1>1, <1>2, <2>1, <2>2 DEF AcceptedInv, Files, FileOrder
  <1>4. ServicesInv'
    BY <1>1 DEF ParserIInv, ServicesInv
  <1>5. line' <= Len(Rows(zip, pc')) + 1 \/ pc' = "failed"
    <2>1. Len(Rows(zip, "stops")) \in Nat
      BY RowsTyped DEF ParserIInv, TypeOK
    <2> QED BY <1>1, <2>1 DEF ParserIInv, AcceptedInv
  <1> QED BY <1>1, <1>3, <1>4, <1>5 DEF ParserIInv, TypeOK, FeedOK, Files, FileOrder

(* Only a feed without services is rejected here.                          *)
LEMMA CheckKeeps ==
  ASSUME ParserIInv, CheckServices
  PROVE  ParserIInv'
  <1>1. /\ pc = "check" /\ UNCHANGED <<zip, line, feed>> /\ zip \in Zips
        /\ \/ DOMAIN feed.services # {} /\ pc' = "sort"
           \/ DOMAIN feed.services = {} /\ pc' = "failed"
    BY DEF CheckServices, Fail, ParserIInv, TypeOK
  <1>2. AcceptedInv /\ ServicesInv
    BY DEF ParserIInv
  <1>3. DOMAIN feed.services = {} => ~Usable'
    <2>1. DOMAIN feed.services = {} =>
            Len(Rows(zip, "calendar")) = 0 /\ Len(Rows(zip, "calendar_dates")) = 0
      BY <1>1, <1>2 DEF ServicesInv
    <2>2. /\ DOMAIN Rows(zip, "calendar") = 1..Len(Rows(zip, "calendar"))
          /\ DOMAIN Rows(zip, "calendar_dates") = 1..Len(Rows(zip, "calendar_dates"))
      BY <1>1, RowsTyped
    <2>3. DOMAIN feed.services = {} => RowsIn("calendar") = {} /\ RowsIn("calendar_dates") = {}
      BY <2>1, <2>2 DEF RowsIn
    <2> QED BY <1>1, <2>3 DEF Usable, RowsIn
  <1>4. /\ \A name \in Files : ReadThrough(name)
        /\ pc' = "failed" => \A name \in Files : ~ReadThrough(name)'
    BY <1>1 DEF ReadThrough, FileOrder
  <1>5. AcceptedInv'
    BY <1>1, <1>2, <1>3, <1>4 DEF AcceptedInv, Files, FileOrder
  <1>6. ServicesInv'
    BY <1>1, <1>2 DEF ServicesInv
  <1> QED BY <1>1, <1>5, <1>6 DEF ParserIInv, TypeOK, FeedOK, Files, FileOrder

-----------------------------------------------------------------------------
(***************************************************************************)
(* buildIndexes.                                                           *)
(***************************************************************************)
LEMMA ReorderedTyped ==
  ASSUME NEW s \in Seq(StopTime), s # <<>>, NEW r \in BySeq(s)
  PROVE  r \in Seq(StopTime) /\ r # <<>>
  <1>1. Len(s) \in Nat \ {0}
    BY EmptySeq
  <1>2. PICK o \in Orders(Len(s)) : r = Reordered(s, o)
    BY DEF BySeq
  <1> DEFINE n == Len(s)
  <1>3. o \in [1..n -> 1..n]
    BY <1>2 DEF Orders
  <1>4. r = [i \in 1..n |-> s[o[i]]]
    BY <1>2 DEF Reordered
  <1>5. \A i \in 1..n : s[o[i]] \in StopTime
    BY <1>3, ElementOfSeq
  <1> HIDE DEF n
  <1>6. n \in Nat \ {0}
    BY <1>1 DEF n
  <1>7. r \in [1..n -> StopTime]
    BY <1>4, <1>5
  <1>8. r \in Seq(StopTime) /\ Len(r) = n
    BY <1>6, <1>7
  <1> QED BY <1>6, <1>8

LEMMA SortKeeps ==
  ASSUME ParserIInv, SortStopTimes
  PROVE  ParserIInv'
  <1>1. /\ pc = "sort" /\ pc' = "index" /\ UNCHANGED <<zip, line>>
    BY DEF SortStopTimes
  <1>2. PICK times :
          /\ DOMAIN times = DOMAIN feed.times
          /\ \A id \in DOMAIN feed.times : times[id] \in BySeq(feed.times[id])
          /\ feed' = [feed EXCEPT !.times = times,
                                  !.tripRoute = [id \in DOMAIN feed.trips |-> feed.trips[id].route]]
    BY DEF SortStopTimes
  <1>3. FeedInv /\ AcceptedInv /\ ServicesInv
    BY FeedInvSplits
  <1>4. \A id \in DOMAIN times : times[id] \in Seq(StopTime) /\ times[id] # <<>>
    BY <1>2, <1>3, ReorderedTyped DEF FeedInv
  <1>5. FeedInv'
    BY <1>2, <1>3, <1>4 DEF FeedInv, EmptyFeed
  <1>6. AcceptedInv' /\ ServicesInv'
    <2>1. \A name \in Files : ReadThrough(name) /\ ReadThrough(name)'
      BY <1>1 DEF ReadThrough
    <2> QED BY <1>1, <1>3, <2>1 DEF AcceptedInv, ServicesInv, Files, FileOrder
  <1> QED BY <1>1, <1>5, <1>6 DEF ParserIInv, TypeOK, FeedInv, FeedOK, Files, FileOrder

LEMMA IndexKeeps ==
  ASSUME ParserIInv, IndexByStop
  PROVE  ParserIInv'
  <1>1. /\ pc = "index" /\ pc' = "done" /\ UNCHANGED <<zip, line>>
    BY DEF IndexByStop
  <1>2. PICK byStop : feed' = [feed EXCEPT !.byStop = byStop]
    BY DEF IndexByStop
  <1>3. FeedInv /\ AcceptedInv /\ ServicesInv
    BY FeedInvSplits
  <1>4. FeedInv'
    BY <1>2, <1>3 DEF FeedInv, EmptyFeed
  <1>5. AcceptedInv' /\ ServicesInv'
    <2>1. \A name \in Files : ReadThrough(name) /\ ReadThrough(name)'
      BY <1>1 DEF ReadThrough
    <2> QED BY <1>1, <1>3, <2>1 DEF AcceptedInv, ServicesInv, Files, FileOrder
  <1> QED BY <1>1, <1>4, <1>5 DEF ParserIInv, TypeOK, FeedInv, FeedOK, Files, FileOrder

-----------------------------------------------------------------------------
LEMMA InitHolds == Init => ParserIInv
  <1> SUFFICES ASSUME Init PROVE ParserIInv
    OBVIOUS
  <1>1. FeedOK(EmptyFeed)
    BY FS_EmptySet DEF FeedOK, EmptyFeed
  <1>2. \A name \in Files : ~ReadThrough(name)
    BY DEF Init, ReadThrough, FileOrder
  <1>3. AcceptedInv /\ ServicesInv
    BY <1>2 DEF Init, AcceptedInv, ServicesInv, EmptyFeed, Files, FileOrder
  <1> QED BY <1>1, <1>3 DEF Init, ParserIInv, TypeOK, EmptyFeed, Files, FileOrder

(* The invariant of ParseZip holds for every set of zips.                  *)
THEOREM ParserInvariantHolds == Spec => []ParserIInv
  <1>1. ParserIInv /\ [Next]_vars => ParserIInv'
    <2> SUFFICES ASSUME ParserIInv, [Next]_vars PROVE ParserIInv'
      OBVIOUS
    <2>1. CASE UNCHANGED vars
      <3>1. zip' = zip /\ pc' = pc /\ line' = line /\ feed' = feed
        BY <2>1 DEF vars
      <3>2. TypeOK' /\ FeedOK(feed)' /\ DOMAIN feed' = DOMAIN EmptyFeed
        BY <3>1 DEF ParserIInv, TypeOK
      <3>3. Usable' <=> Usable
        BY <3>1 DEF Usable, RowsIn
      <3>4. \A name \in Files : ReadThrough(name)' <=> ReadThrough(name)
        BY <3>1 DEF ReadThrough
      <3>5. AcceptedInv'
        BY <3>1, <3>3, <3>4 DEF ParserIInv, AcceptedInv
      <3>6. ServicesInv'
        BY <3>1 DEF ParserIInv, ServicesInv
      <3> QED BY <3>2, <3>5, <3>6 DEF ParserIInv
    <2>2. CASE Ended
      BY <2>1, <2>2 DEF Ended
    <2>3. CASE Step
      BY <2>3, OpenKeeps, ParseKeeps, RejectKeeps, NextFileKeeps, CheckKeeps, SortKeeps, IndexKeeps DEF Step
    <2> QED BY <2>1, <2>2, <2>3 DEF Next
  <1> QED BY InitHolds, <1>1, PTL DEF Spec

(* Every variable of ParseZip keeps its type.                              *)
THEOREM ParserKeepsTypes == Spec => []TypeOK
  <1>1. ParserIInv => TypeOK
    BY DEF ParserIInv
  <1> QED BY <1>1, ParserInvariantHolds, PTL

(* Of no zip with a row that its handler cannot file comes a feed, and an  *)
(* error only of a zip that lacks a file or a service or has such a row.   *)
THEOREM ParserIsExact == Spec => []AcceptsUsable
  <1>1. ParserIInv => AcceptsUsable
    <2> SUFFICES ASSUME ParserIInv, pc = "done" PROVE Usable
      BY DEF ParserIInv, AcceptedInv, AcceptsUsable
    <2>1. zip \in Zips /\ AcceptedInv /\ ServicesInv
      BY DEF ParserIInv, TypeOK
    <2>2. \A name : /\ Len(Rows(zip, name)) \in Nat /\ DOMAIN Rows(zip, name) = 1..Len(Rows(zip, name))
                    /\ \A l \in 1..Len(Rows(zip, name)) : RowTyped(Rows(zip, name)[l])
      BY <2>1, RowsTyped
    <2>3. \A name \in Files : \A row \in RowsIn(name) : UsableRow(name, row)
      <3> TAKE name \in Files
      <3>1. ReadThrough(name)
        BY DEF ReadThrough
      <3>2. \A l \in DOMAIN Rows(zip, name) : RowOK(name, Rows(zip, name)[l]) /\ RowTyped(Rows(zip, name)[l])
        BY <2>1, <2>2, <3>1 DEF AcceptedInv
      <3> QED BY <3>2, RowsUsable DEF RowsIn
    <2>4. RowsIn("calendar") \cup RowsIn("calendar_dates") # {}
      <3>1. Len(Rows(zip, "calendar")) # 0 \/ Len(Rows(zip, "calendar_dates")) # 0
        BY <2>1 DEF ServicesInv
      <3>2. 1 \in DOMAIN Rows(zip, "calendar") \/ 1 \in DOMAIN Rows(zip, "calendar_dates")
        BY <2>2, <3>1
      <3> QED BY <3>2 DEF RowsIn
    <2> QED BY <2>1, <2>3, <2>4 DEF Usable, AcceptedInv
  <1> QED BY <1>1, ParserInvariantHolds, PTL

-----------------------------------------------------------------------------
(***************************************************************************)
(* How far the parser has come.                                            *)
(***************************************************************************)
Counted == {"stop_times", "calendar", "calendar_dates"}

LEMMA ReadThroughCounted ==
  /\ ReadThrough("stop_times") <=>
       pc \in {"calendar", "calendar_dates", "check", "sort", "index", "done"}
  /\ ReadThrough("calendar") <=> pc \in {"calendar_dates", "check", "sort", "index", "done"}
  /\ ReadThrough("calendar_dates") <=> pc \in {"check", "sort", "index", "done"}
  /\ ReadThrough("stop_times")' <=>
       pc' \in {"calendar", "calendar_dates", "check", "sort", "index", "done"}
  /\ ReadThrough("calendar")' <=> pc' \in {"calendar_dates", "check", "sort", "index", "done"}
  /\ ReadThrough("calendar_dates")' <=> pc' \in {"check", "sort", "index", "done"}
  BY DEF ReadThrough, FileOrder

LEMMA ReadSoFar ==
  ASSUME ParserIInv, NEW name \in Counted
  PROVE  /\ RowsRead(name) \in Nat /\ RowsRead(name) <= Len(Rows(zip, name))
         /\ DOMAIN Rows(zip, name) = 1..Len(Rows(zip, name)) /\ Len(Rows(zip, name)) \in Nat
         /\ pc = name => RowsRead(name) = line - 1
         /\ ReadThrough(name) => RowsRead(name) = Len(Rows(zip, name))
  <1>1. /\ Len(Rows(zip, name)) \in Nat
        /\ DOMAIN Rows(zip, name) = 1..Len(Rows(zip, name))
    BY RowsTyped DEF ParserIInv, TypeOK
  <1>2. line \in Nat \ {0} /\ (pc \in Files => line <= Len(Rows(zip, pc)) + 1)
    BY DEF ParserIInv, TypeOK
  <1>3. name \in Files /\ ~(ReadThrough(name) /\ pc = name)
    BY ReadThroughCounted DEF Counted, Files, FileOrder
  <1> QED BY <1>1, <1>2, <1>3 DEF RowsRead

LEMMA ReadsOneMore ==
  ASSUME ParserIInv, HasRow, Advance, NEW name \in Counted
  PROVE  /\ Rows(zip', name) = Rows(zip, name)
         /\ RowsRead(name)' = IF pc = name THEN RowsRead(name) + 1 ELSE RowsRead(name)
         /\ pc = name => Rows(zip, name)[RowsRead(name) + 1] = Row /\ RowTyped(Row)
                        /\ RowsRead(name) + 1 <= Len(Rows(zip, name))
  <1>1. zip' = zip /\ pc' = pc /\ line' = line + 1 /\ line \in Nat
    BY DEF Advance, ParserIInv, TypeOK
  <1>2. ReadThrough(name)' <=> ReadThrough(name)
    BY <1>1, ReadThroughCounted DEF Counted
  <1>3. RowsRead(name) \in Nat /\ (pc = name => RowsRead(name) = line - 1 /\ ~ReadThrough(name))
    BY ReadSoFar, ReadThroughCounted DEF Counted
  <1>4. RowTyped(Row) /\ line <= Len(Rows(zip, pc))
    BY CurrentRow DEF HasRow
  <1>5. RowsRead(name)' = IF pc = name THEN RowsRead(name) + 1 ELSE RowsRead(name)
    BY <1>1, <1>2, <1>3 DEF RowsRead
  <1>6. pc = name => RowsRead(name) + 1 = line
    BY <1>1, <1>3
  <1> QED BY <1>1, <1>4, <1>5, <1>6 DEF Row

LEMMA ReadsNothing ==
  ASSUME ParserIInv, NEW name \in Counted, pc' # "failed",
         \/ OpenZip \/ NextFile \/ CheckServices \/ SortStopTimes \/ IndexByStop
         \/ UNCHANGED vars
  PROVE  zip' = zip /\ RowsRead(name)' = RowsRead(name)
  <1>1. zip' = zip
    BY DEF OpenZip, Fail, NextFile, CheckServices, SortStopTimes, IndexByStop, vars
  <1>2. RowsRead(name) \in Nat
    BY ReadSoFar
  <1>3. CASE NextFile
    <2>1. /\ line' = 1 /\ pc \in Files /\ ~HasRow
          /\ \/ pc = "stops" /\ pc' = "routes"
             \/ pc = "routes" /\ pc' = "trips"
             \/ pc = "trips" /\ pc' = "stop_times"
             \/ pc = "stop_times" /\ pc' = "calendar"
             \/ pc = "calendar" /\ pc' = "calendar_dates"
             \/ pc = "calendar_dates" /\ pc' = "check"
      BY <1>3 DEF NextFile, FileOrder
    <2>2. line = Len(Rows(zip, pc)) + 1
      <3>1. Len(Rows(zip, pc)) \in Nat /\ line \in Nat /\ line <= Len(Rows(zip, pc)) + 1
        BY <2>1, RowsTyped DEF ParserIInv, TypeOK
      <3> QED BY <2>1, <3>1 DEF HasRow
    <2>3. Len(Rows(zip, name)) \in Nat
      BY ReadSoFar
    <2>4. \/ /\ pc = name /\ ReadThrough(name)' /\ ~ReadThrough(name)
          \/ /\ pc' = name /\ ~ReadThrough(name)' /\ ~ReadThrough(name) /\ pc # name
          \/ /\ pc # name /\ pc' # name /\ (ReadThrough(name)' <=> ReadThrough(name))
      BY <2>1, ReadThroughCounted DEF Counted
    <2> QED BY <1>1, <2>1, <2>2, <2>3, <2>4 DEF RowsRead
  <1>4. CASE OpenZip
    <2>1. pc = "open" /\ pc' = "stops"
      BY <1>4 DEF OpenZip, Fail, FileOrder
    <2> QED BY <1>1, <2>1, ReadThroughCounted DEF RowsRead, Counted
  <1>5. CASE CheckServices \/ SortStopTimes \/ IndexByStop
    <2>1. pc \in {"check", "sort", "index"} /\ pc' \in {"sort", "index", "done"}
      BY <1>5 DEF CheckServices, Fail, SortStopTimes, IndexByStop
    <2> QED BY <1>1, <2>1, ReadThroughCounted DEF RowsRead, Counted
  <1>6. CASE UNCHANGED vars
    <2>1. pc' = pc /\ line' = line
      BY <1>6 DEF vars
    <2> QED BY <1>1, <2>1, ReadThroughCounted DEF RowsRead, Counted
  <1> QED BY <1>3, <1>4, <1>5, <1>6

(***************************************************************************)
(* Services.                                                               *)
(***************************************************************************)
LEMMA OneMoreOfService ==
  ASSUME NEW rows, NEW n \in Nat, NEW id
  PROVE  /\ Id(rows[n + 1], "service_id") = id =>
              OfService(rows, n + 1, id) = OfService(rows, n, id) \cup {n + 1}
         /\ Id(rows[n + 1], "service_id") # id => OfService(rows, n + 1, id) = OfService(rows, n, id)
  <1>1. 1..(n + 1) = 1..n \cup {n + 1}
    OBVIOUS
  <1> QED BY <1>1 DEF OfService

LEMMA OneMoreOfType ==
  ASSUME NEW rows, NEW n \in Nat, NEW id, NEW type
  PROVE  /\ Id(rows[n + 1], "service_id") = id /\ Cell(rows[n + 1], "exception_type") = <<type>> =>
              OfType(rows, n + 1, id, type) = OfType(rows, n, id, type) \cup {Id(rows[n + 1], "date")}
         /\ Id(rows[n + 1], "service_id") # id \/ Cell(rows[n + 1], "exception_type") # <<type>> =>
              OfType(rows, n + 1, id, type) = OfType(rows, n, id, type)
  <1>1. CASE Id(rows[n + 1], "service_id") = id
    <2>1. OfService(rows, n + 1, id) = OfService(rows, n, id) \cup {n + 1}
      BY <1>1, OneMoreOfService
    <2> QED BY <1>1, <2>1 DEF OfType
  <1>2. CASE Id(rows[n + 1], "service_id") # id
    <2>1. OfService(rows, n + 1, id) = OfService(rows, n, id)
      BY <1>2, OneMoreOfService
    <2> QED BY <1>2, <2>1 DEF OfType
  <1> QED BY <1>1, <1>2

LEMMA OneMoreId ==
  ASSUME NEW rows, NEW n \in Nat, NEW column
  PROVE  {Id(rows[i], column) : i \in 1..(n + 1)} = {Id(rows[i], column) : i \in 1..n} \cup {Id(rows[n + 1], column)}
  <1>1. 1..(n + 1) = 1..n \cup {n + 1}
    OBVIOUS
  <1> QED BY <1>1

(* A service that is new has had no row. *)
LEMMA NewService ==
  ASSUME NEW weeks, NEW c, NEW dates, NEW d, NEW services,
         ServicesRead(weeks, c, dates, d, services), NEW id, id \notin DOMAIN services
  PROVE  /\ OfService(weeks, c, id) = {} /\ OfService(dates, d, id) = {}
         /\ OfType(dates, d, id, 1) = {} /\ OfType(dates, d, id, 2) = {}
  <1>1. OfService(weeks, c, id) = {} /\ OfService(dates, d, id) = {}
    BY DEF ServicesRead, OfService
  <1> QED BY <1>1 DEF OfType

LEMMA WeekRowRead ==
  ASSUME NEW weeks, NEW c \in Nat, NEW dates, NEW d \in Nat, NEW services,
         ServicesRead(weeks, c, dates, d, services),
         NEW id, id = Id(weeks[c + 1], "service_id"),
         NEW svc,
         svc.weekdays = Weekdays(weeks[c + 1]),
         svc.start = Id(weeks[c + 1], "start_date"), svc.end = Id(weeks[c + 1], "end_date"),
         id \in DOMAIN services => svc.added = services[id].added /\ svc.removed = services[id].removed,
         id \notin DOMAIN services => svc.added = {} /\ svc.removed = {}
  PROVE  ServicesRead(weeks, c + 1, dates, d, With(services, id, svc))
  <1> DEFINE new == With(services, id, svc)
  <1>1. /\ DOMAIN new = DOMAIN services \cup {id} /\ new[id] = svc
        /\ \A y \in DOMAIN services : y # id => new[y] = services[y]
    BY DEF With
  <1> HIDE DEF new
  <1>2. DOMAIN new = {Id(weeks[i], "service_id") : i \in 1..(c + 1)}
                       \cup {Id(dates[i], "service_id") : i \in 1..d}
    BY <1>1, OneMoreId DEF ServicesRead
  <1>3. svc.added = OfType(dates, d, id, 1) /\ svc.removed = OfType(dates, d, id, 2)
    BY NewService DEF ServicesRead
  <1>4. LastWins(weeks, c + 1, id, svc)
    <2>1. c + 1 \in OfService(weeks, c + 1, id) /\ OfService(weeks, c + 1, id) \subseteq 1..(c + 1)
      BY DEF OfService
    <2>2. ASSUME NEW i \in OfService(weeks, c + 1, id), \A j \in OfService(weeks, c + 1, id) : j <= i
          PROVE  i = c + 1
      BY <2>1, <2>2
    <2> QED BY <2>1, <2>2 DEF LastWins
  <1>5. ASSUME NEW y \in DOMAIN services, y # id
        PROVE  LastWins(weeks, c + 1, y, services[y])
    <2>1. OfService(weeks, c + 1, y) = OfService(weeks, c, y)
      BY <1>5, OneMoreOfService
    <2>2. LastWins(weeks, c, y, services[y])
      BY DEF ServicesRead
    <2> QED BY <2>1, <2>2 DEF LastWins
  <1>6. ASSUME NEW y \in DOMAIN new
        PROVE  /\ new[y].added = OfType(dates, d, y, 1) /\ new[y].removed = OfType(dates, d, y, 2)
               /\ LastWins(weeks, c + 1, y, new[y])
    <2>1. CASE y = id
      BY <2>1, <1>1, <1>3, <1>4
    <2>2. CASE y # id
      BY <2>2, <1>1, <1>5 DEF ServicesRead
    <2> QED BY <2>1, <2>2
  <1>7. ServicesRead(weeks, c + 1, dates, d, new)
    BY <1>2, <1>6 DEF ServicesRead
  <1> QED BY <1>7 DEF new

LEMMA DateRowRead ==
  ASSUME NEW weeks, NEW c \in Nat, NEW dates, NEW d \in Nat, NEW services,
         ServicesRead(weeks, c, dates, d, services),
         NEW id, id = Id(dates[d + 1], "service_id"),
         NEW svc, NEW old,
         id \in DOMAIN services => old = services[id],
         id \notin DOMAIN services => /\ old.added = {} /\ old.removed = {}
                                      /\ old.start = NoDate /\ old.weekdays = {},
         svc.weekdays = old.weekdays, svc.start = old.start, svc.end = old.end,
         \/ /\ Cell(dates[d + 1], "exception_type") = << 1 >>
            /\ svc.added = old.added \cup {Id(dates[d + 1], "date")} /\ svc.removed = old.removed
         \/ /\ Cell(dates[d + 1], "exception_type") = << 2 >>
            /\ svc.removed = old.removed \cup {Id(dates[d + 1], "date")} /\ svc.added = old.added
  PROVE  ServicesRead(weeks, c, dates, d + 1, With(services, id, svc))
  <1> DEFINE new == With(services, id, svc)
  <1>1. /\ DOMAIN new = DOMAIN services \cup {id} /\ new[id] = svc
        /\ \A y \in DOMAIN services : y # id => new[y] = services[y]
    BY DEF With
  <1> HIDE DEF new
  <1>2. DOMAIN new = {Id(weeks[i], "service_id") : i \in 1..c}
                       \cup {Id(dates[i], "service_id") : i \in 1..(d + 1)}
    BY <1>1, OneMoreId DEF ServicesRead
  <1>3. svc.added = OfType(dates, d + 1, id, 1) /\ svc.removed = OfType(dates, d + 1, id, 2)
    <2>1. old.added = OfType(dates, d, id, 1) /\ old.removed = OfType(dates, d, id, 2)
      BY NewService DEF ServicesRead
    <2>2. CASE /\ Cell(dates[d + 1], "exception_type") = <<1>>
               /\ svc.added = old.added \cup {Id(dates[d + 1], "date")} /\ svc.removed = old.removed
      <3>1. Cell(dates[d + 1], "exception_type") # <<2>>
        BY <2>2
      <3> QED BY <2>1, <2>2, <3>1, OneMoreOfType
    <2>3. CASE /\ Cell(dates[d + 1], "exception_type") = <<2>>
               /\ svc.removed = old.removed \cup {Id(dates[d + 1], "date")} /\ svc.added = old.added
      <3>1. Cell(dates[d + 1], "exception_type") # <<1>>
        BY <2>3
      <3> QED BY <2>1, <2>3, <3>1, OneMoreOfType
    <2> QED BY <2>2, <2>3
  <1>4. LastWins(weeks, c, id, svc)
    <2>1. LastWins(weeks, c, id, old)
      <3>1. CASE id \in DOMAIN services
        BY <3>1 DEF ServicesRead
      <3>2. CASE id \notin DOMAIN services
        BY <3>2, NewService DEF LastWins
      <3> QED BY <3>1, <3>2
    <2> QED BY <2>1 DEF LastWins
  <1>5. ASSUME NEW y \in DOMAIN services, y # id
        PROVE  /\ OfType(dates, d + 1, y, 1) = OfType(dates, d, y, 1)
               /\ OfType(dates, d + 1, y, 2) = OfType(dates, d, y, 2)
    BY <1>5, OneMoreOfType
  <1>6. ASSUME NEW y \in DOMAIN new
        PROVE  /\ new[y].added = OfType(dates, d + 1, y, 1) /\ new[y].removed = OfType(dates, d + 1, y, 2)
               /\ LastWins(weeks, c, y, new[y])
    <2>1. CASE y = id
      BY <2>1, <1>1, <1>3, <1>4
    <2>2. CASE y # id
      BY <2>2, <1>1, <1>5 DEF ServicesRead
    <2> QED BY <2>1, <2>2
  <1>7. ServicesRead(weeks, c, dates, d + 1, new)
    BY <1>2, <1>6 DEF ServicesRead
  <1> QED BY <1>7 DEF new

LEMMA OthersReadServices ==
  ASSUME ParserIInv, CombineInv, feed'.services = feed.services, zip' = zip, pc # "failed",
         RowsRead("calendar")' = RowsRead("calendar"),
         RowsRead("calendar_dates")' = RowsRead("calendar_dates")
  PROVE  CombineInv'
  BY DEF CombineInv

LEMMA CalendarRowCombines ==
  ASSUME ParserIInv, CombineInv, ParseCalendarRow
  PROVE  CombineInv'
  <1> DEFINE id == Id(Row, "service_id")
             svc == [Service(feed, id) EXCEPT !.weekdays = Weekdays(Row),
                                              !.start = Id(Row, "start_date"),
                                              !.end = Id(Row, "end_date")]
             weeks == Rows(zip, "calendar")
             dates == Rows(zip, "calendar_dates")
             c == RowsRead("calendar")
             d == RowsRead("calendar_dates")
  <1>1. HasRow /\ Advance /\ pc = "calendar"
    BY DEF ParseCalendarRow, Reads
  <1>2. /\ Rows(zip', "calendar") = weeks /\ Rows(zip', "calendar_dates") = dates
        /\ RowsRead("calendar")' = c + 1 /\ RowsRead("calendar_dates")' = d
        /\ weeks[c + 1] = Row
    BY <1>1, ReadsOneMore DEF Counted
  <1>3. c \in Nat /\ d \in Nat
    BY ReadSoFar DEF Counted
  <1>4. FeedInv /\ feed'.services = With(feed.services, id, svc)
    <2>1. FeedInv /\ feed' = [feed EXCEPT !.services = With(feed.services, id, svc)]
      BY FeedInvSplits DEF ParseCalendarRow
    <2> HIDE DEF id, svc
    <2> QED BY <2>1 DEF FeedInv, EmptyFeed
  <1>5. /\ svc.weekdays = Weekdays(Row) /\ svc.start = Id(Row, "start_date") /\ svc.end = Id(Row, "end_date")
        /\ svc.added = Service(feed, id).added /\ svc.removed = Service(feed, id).removed
    BY <1>4, ServiceTyped
  <1>6. /\ id \in DOMAIN feed.services => Service(feed, id) = feed.services[id]
        /\ id \notin DOMAIN feed.services => Service(feed, id).added = {} /\ Service(feed, id).removed = {}
    BY DEF Service
  <1>7. ServicesRead(weeks, c, dates, d, feed.services)
    BY <1>1 DEF CombineInv
  <1>8. id = Id(weeks[c + 1], "service_id")
    BY <1>2
  <1> HIDE DEF id, svc, weeks, dates, c, d
  <1>9. ServicesRead(weeks, c + 1, dates, d, With(feed.services, id, svc))
    BY <1>2, <1>3, <1>5, <1>6, <1>7, <1>8, WeekRowRead
  <1> QED BY <1>2, <1>4, <1>9 DEF CombineInv

LEMMA DateRowCombines ==
  ASSUME ParserIInv, CombineInv, ParseCalendarDateRow
  PROVE  CombineInv'
  <1> DEFINE id == Id(Row, "service_id")
             date == Id(Row, "date")
             old == Service(feed, id)
             weeks == Rows(zip, "calendar")
             dates == Rows(zip, "calendar_dates")
             c == RowsRead("calendar")
             d == RowsRead("calendar_dates")
             added == [old EXCEPT !.added = @ \cup {date}]
             removed == [old EXCEPT !.removed = @ \cup {date}]
  <1>1. HasRow /\ Advance /\ pc = "calendar_dates"
    BY DEF ParseCalendarDateRow, Reads
  <1>2. /\ Rows(zip', "calendar") = weeks /\ Rows(zip', "calendar_dates") = dates
        /\ RowsRead("calendar")' = c /\ RowsRead("calendar_dates")' = d + 1
        /\ dates[d + 1] = Row
    BY <1>1, ReadsOneMore DEF Counted
  <1>3. c \in Nat /\ d \in Nat
    BY ReadSoFar DEF Counted
  <1>4. FeedInv
    BY FeedInvSplits
  <1>5. PICK svc : /\ feed' = [feed EXCEPT !.services = With(feed.services, id, svc)]
                   /\ \/ Cell(Row, "exception_type") = <<1>> /\ svc = added
                      \/ Cell(Row, "exception_type") = <<2>> /\ svc = removed
    BY DEF ParseCalendarDateRow
  <1>6. feed'.services = With(feed.services, id, svc)
    <2> HIDE DEF id
    <2> QED BY <1>4, <1>5 DEF FeedInv, EmptyFeed
  <1>7. old \in [weekdays : SUBSET Week, start : Nat, end : Nat, added : SUBSET Nat, removed : SUBSET Nat]
    BY <1>4, ServiceTyped
  <1>8. /\ svc.weekdays = old.weekdays /\ svc.start = old.start /\ svc.end = old.end
        /\ \/ /\ Cell(Row, "exception_type") = <<1>>
              /\ svc.added = old.added \cup {date} /\ svc.removed = old.removed
           \/ /\ Cell(Row, "exception_type") = <<2>>
              /\ svc.removed = old.removed \cup {date} /\ svc.added = old.added
    <2> HIDE DEF old, date
    <2> QED BY <1>5, <1>7
  <1>9. /\ id \in DOMAIN feed.services => old = feed.services[id]
        /\ id \notin DOMAIN feed.services => /\ old.added = {} /\ old.removed = {}
                                             /\ old.start = NoDate /\ old.weekdays = {}
    BY DEF Service
  <1>10. ServicesRead(weeks, c, dates, d, feed.services)
    BY <1>1 DEF CombineInv
  <1>11. id = Id(dates[d + 1], "service_id") /\ date = Id(dates[d + 1], "date")
    BY <1>2
  <1>12. \/ /\ Cell(dates[d + 1], "exception_type") = <<1>>
            /\ svc.added = old.added \cup {Id(dates[d + 1], "date")} /\ svc.removed = old.removed
         \/ /\ Cell(dates[d + 1], "exception_type") = <<2>>
            /\ svc.removed = old.removed \cup {Id(dates[d + 1], "date")} /\ svc.added = old.added
    BY <1>2, <1>8
  <1> HIDE DEF id, date, old, weeks, dates, c, d, added, removed
  <1>13. ServicesRead(weeks, c, dates, d + 1, With(feed.services, id, svc))
    BY <1>3, <1>8, <1>9, <1>10, <1>11, <1>12, DateRowRead
  <1> QED BY <1>2, <1>6, <1>13 DEF CombineInv

LEMMA CombineStep ==
  ASSUME ParserIInv, CombineInv, [Next]_vars
  PROVE  CombineInv'
  <1>1. CASE pc' = "failed"
    BY <1>1 DEF CombineInv
  <1>2. CASE pc' # "failed" /\ (ParseStopRow \/ ParseRouteRow \/ ParseTripRow \/ ParseStopTimeRow)
    <2>1. feed'.services = feed.services
      BY <1>2, StopRowKeeps, RouteRowKeeps, TripRowKeeps, StopTimeRowKeeps
    <2>2. HasRow /\ Advance /\ zip' = zip /\ pc \in {"stops", "routes", "trips", "stop_times"}
      BY <1>2 DEF ParseStopRow, ParseRouteRow, ParseTripRow, ParseStopTimeRow, Reads, Advance
    <2>3. /\ RowsRead("calendar")' = RowsRead("calendar")
          /\ RowsRead("calendar_dates")' = RowsRead("calendar_dates")
      BY <2>2, ReadsOneMore DEF Counted
    <2> QED BY <2>1, <2>2, <2>3, OthersReadServices
  <1>3. CASE /\ pc' # "failed"
             /\ \/ OpenZip \/ NextFile \/ CheckServices \/ SortStopTimes \/ IndexByStop
                \/ UNCHANGED vars
    <2>1. /\ zip' = zip
          /\ RowsRead("calendar")' = RowsRead("calendar")
          /\ RowsRead("calendar_dates")' = RowsRead("calendar_dates")
      BY <1>3, ReadsNothing DEF Counted
    <2>2. feed'.services = feed.services
      <3>1. DOMAIN feed = DOMAIN EmptyFeed
        BY DEF ParserIInv
      <3> QED BY <1>3, <3>1 DEF OpenZip, Fail, NextFile, CheckServices, SortStopTimes, IndexByStop, vars,
                                EmptyFeed
    <2>3. pc # "failed"
      <3>1. UNCHANGED vars => pc' = pc
        BY DEF vars
      <3>2. NextFile => pc # "failed"
        BY DEF NextFile, Files, FileOrder
      <3> QED BY <1>3, <3>1, <3>2 DEF OpenZip, CheckServices, SortStopTimes, IndexByStop
    <2> QED BY <2>1, <2>2, <2>3, OthersReadServices
  <1>4. [Next]_vars =>
          \/ ParseStopRow \/ ParseRouteRow \/ ParseTripRow \/ ParseStopTimeRow
          \/ ParseCalendarRow \/ ParseCalendarDateRow
          \/ OpenZip \/ NextFile \/ CheckServices \/ SortStopTimes \/ IndexByStop
          \/ UNCHANGED vars \/ pc' = "failed"
    BY DEF Next, Step, RejectRow, Fail, Ended
  <1> QED BY <1>1, <1>2, <1>3, <1>4, CalendarRowCombines, DateRowCombines

LEMMA CombineInvariantHolds == Spec => []CombineInv
  <1>1. Init => CombineInv
    <2> SUFFICES ASSUME Init PROVE CombineInv
      OBVIOUS
    <2>1. RowsRead("calendar") = 0 /\ RowsRead("calendar_dates") = 0
      BY ReadThroughCounted DEF Init, RowsRead
    <2> QED BY <2>1 DEF Init, CombineInv, ServicesRead, EmptyFeed
  <1> QED BY <1>1, CombineStep, ParserInvariantHolds, PTL DEF Spec

(***************************************************************************)
(* Every service of either calendar file is in the feed with the pattern   *)
(* of its last calendar row and all its exceptions (parse.go:222-266).     *)
(***************************************************************************)
THEOREM ServicesAreCombined == Spec => []ServicesCombineFiles
  <1>1. ParserIInv /\ CombineInv => ServicesCombineFiles
    <2> SUFFICES ASSUME ParserIInv, CombineInv, pc \in {"sort", "index", "done"}
                 PROVE  ServicesCombineFiles
      BY DEF ServicesCombineFiles
    <2> DEFINE weeks == Rows(zip, "calendar")
               dates == Rows(zip, "calendar_dates")
               c == Len(weeks)
               d == Len(dates)
    <2>1. /\ DOMAIN weeks = 1..c /\ c \in Nat /\ RowsRead("calendar") = c
          /\ DOMAIN dates = 1..d /\ d \in Nat /\ RowsRead("calendar_dates") = d
      BY ReadSoFar, ReadThroughCounted DEF Counted
    <2>2. ServicesRead(weeks, c, dates, d, feed.services)
      BY <2>1 DEF CombineInv
    <2>3. \A i \in 1..d : dates[i]["exception_type"] = Cell(dates[i], "exception_type")
      <3> TAKE i \in 1..d
      <3>1. RowOK("calendar_dates", dates[i])
        BY <2>1, ReadThroughCounted DEF ParserIInv, AcceptedInv, Files, FileOrder
      <3>2. Cell(dates[i], "exception_type") # <<>>
        BY <3>1 DEF RowOK, CalendarDateRowOK
      <3> QED BY <3>2 DEF Cell
    <2>4. \A id : /\ Exceptions(id, 1) = OfType(dates, d, id, 1)
                  /\ Exceptions(id, 2) = OfType(dates, d, id, 2)
      BY <2>1, <2>3 DEF Exceptions, ServiceRows, RowsIn, OfType, OfService
    <2>5. DOMAIN feed.services =
            {Id(row, "service_id") : row \in RowsIn("calendar") \cup RowsIn("calendar_dates")}
      BY <2>1, <2>2 DEF ServicesRead, RowsIn
    <2>6. ASSUME NEW id \in DOMAIN feed.services
          PROVE  LET svc == feed.services[id]
                 IN  IF ServiceRows("calendar", id) = {}
                     THEN svc.start = NoDate /\ svc.weekdays = {}
                     ELSE /\ svc.weekdays = Weekdays(LastCalendarRow(id))
                          /\ svc.start = Id(LastCalendarRow(id), "start_date")
                          /\ svc.end = Id(LastCalendarRow(id), "end_date")
      <3> DEFINE S == OfService(weeks, c, id)
                 svc == feed.services[id]
                 Last(i) == i \in S /\ \A j \in S : j <= i
      <3>1. LastWins(weeks, c, id, svc)
        BY <2>2 DEF ServicesRead
      <3>2. ServiceRows("calendar", id) = {} <=> S = {}
        BY <2>1 DEF ServiceRows, RowsIn, OfService
      <3>3. CASE S = {}
        BY <3>1, <3>2, <3>3 DEF LastWins
      <3>4. CASE S # {}
        <4>1. S \in SUBSET (1..c)
          BY DEF OfService
        <4>2. \E i \in S : \A j \in S : j <= i
          BY <2>1, <3>4, <4>1, LastExists
        <4> DEFINE P(i) == /\ Id(weeks[i], "service_id") = id
                           /\ \A j \in DOMAIN weeks : Id(weeks[j], "service_id") = id => j <= i
                   i == CHOOSE x \in DOMAIN weeks : P(x)
        <4>3. \A x \in DOMAIN weeks : P(x) <=> Last(x)
          BY <2>1 DEF OfService
        <4>4. \E x \in DOMAIN weeks : P(x)
          BY <2>1, <4>1, <4>2, <4>3
        <4>5. LastCalendarRow(id) = weeks[i]
          BY DEF LastCalendarRow
        <4>6. i \in DOMAIN weeks /\ P(i)
          <5> HIDE DEF P
          <5> QED BY <4>4
        <4>7. Last(i)
          <5> HIDE DEF i, P, Last
          <5> QED BY <4>3, <4>6
        <4> HIDE DEF i
        <4>8. /\ svc.weekdays = Weekdays(weeks[i])
              /\ svc.start = Id(weeks[i], "start_date") /\ svc.end = Id(weeks[i], "end_date")
          BY <3>1, <4>7 DEF LastWins
        <4> QED BY <3>2, <3>4, <4>5, <4>8
      <3> QED BY <3>3, <3>4
    <2> QED BY <2>2, <2>4, <2>5, <2>6 DEF ServicesCombineFiles, ServicesRead
  <1> QED BY <1>1, CombineInvariantHolds, ParserInvariantHolds, PTL

-----------------------------------------------------------------------------
(***************************************************************************)
(* Counting.                                                               *)
(***************************************************************************)
(* A bijection finds as many elements with a property as there are.        *)
LEMMA BijectionCounts ==
  ASSUME NEW S, NEW T, IsFiniteSet(S), NEW f \in Bijection(S, T), NEW U \in SUBSET T
  PROVE  Cardinality({x \in S : f[x] \in U}) = Cardinality(U)
  <1> DEFINE P == {x \in S : f[x] \in U}
             g == [x \in P |-> f[x]]
  <1>1. IsFiniteSet(P)
    BY FS_Subset
  <1>2. /\ f \in [S -> T]
        /\ \A x, y \in S : f[x] = f[y] => x = y
        /\ \A t \in T : \E x \in S : f[x] = t
    BY DEF Bijection, Injection, Surjection, IsInjective
  <1>3. g \in [P -> U] /\ (\A x, y \in P : g[x] = g[y] => x = y) /\ \A u \in U : \E x \in P : g[x] = u
    BY <1>2
  <1>4. g \in Bijection(P, U)
    <2> HIDE DEF P, g
    <2> QED BY <1>3 DEF Bijection, Injection, Surjection, IsInjective
  <1>5. ExistsBijection(P, U)
    BY <1>4 DEF ExistsBijection
  <1> HIDE DEF P
  <1>6. Cardinality(P) = Cardinality(U)
    BY <1>1, <1>5, FS_Bijection
  <1> QED BY <1>6 DEF P

(* An order of n places is a bijection. *)
LEMMA OrderIsBijection ==
  ASSUME NEW n \in Nat, NEW o \in Orders(n)
  PROVE  o \in Bijection(1..n, 1..n)
  <1>1. o \in [1..n -> 1..n] /\ \A i, j \in 1..n : o[i] = o[j] => i = j
    BY DEF Orders
  <1>2. o \in Injection(1..n, 1..n)
    BY <1>1 DEF Injection, IsInjective
  <1>3. IsFiniteSet(1..n)
    BY FS_Interval
  <1>4. o \in Surjection(1..n, 1..n)
    BY <1>2, <1>3, FS_Injection
  <1> QED BY <1>2, <1>4 DEF Bijection

LEMMA FinitePositions ==
  ASSUME NEW S, NEW s \in Seq(S), NEW t
  PROVE  IsFiniteSet(Positions(s, t)) /\ Positions(s, t) \subseteq 1..Len(s)
  <1>1. Positions(s, t) \subseteq 1..Len(s) /\ Len(s) \in Nat
    BY DEF Positions
  <1>2. IsFiniteSet(1..Len(s))
    BY <1>1, FS_Interval
  <1> QED BY <1>1, <1>2, FS_Subset

LEMMA FiniteSpelt ==
  ASSUME NEW rows, NEW n \in Nat, NEW id, NEW t
  PROVE  IsFiniteSet(Spelt(rows, n, id, t)) /\ Spelt(rows, n, id, t) \subseteq 1..n
  <1>1. Spelt(rows, n, id, t) \subseteq 1..n
    BY DEF Spelt
  <1>2. IsFiniteSet(1..n)
    BY FS_Interval
  <1> QED BY <1>1, <1>2, FS_Subset

LEMMA AppendPositions ==
  ASSUME NEW s \in Seq(StopTime), NEW e \in StopTime, NEW t
  PROVE  Cardinality(Positions(Append(s, e), t))
           = Cardinality(Positions(s, t)) + (IF t = e THEN 1 ELSE 0)
  <1> DEFINE a == Append(s, e)
  <1>1. /\ Len(s) \in Nat /\ DOMAIN s = 1..Len(s) /\ DOMAIN a = 1..(Len(s) + 1)
        /\ a[Len(s) + 1] = e /\ \A i \in 1..Len(s) : a[i] = s[i]
    OBVIOUS
  <1> HIDE DEF a
  <1>2. 1..(Len(s) + 1) = 1..Len(s) \cup {Len(s) + 1} /\ Len(s) + 1 \notin 1..Len(s)
    BY <1>1
  <1>3. IsFiniteSet(Positions(s, t)) /\ Len(s) + 1 \notin Positions(s, t)
    BY <1>2, FinitePositions
  <1>4. CASE t = e
    <2>1. Positions(a, t) = Positions(s, t) \cup {Len(s) + 1}
      BY <1>1, <1>2, <1>4 DEF Positions
    <2>2. Cardinality(Positions(a, t)) = Cardinality(Positions(s, t)) + 1
      BY <1>3, <2>1, FS_AddElement
    <2> QED BY <1>4, <2>2 DEF a
  <1>5. CASE t # e
    <2>1. Positions(a, t) = Positions(s, t)
      BY <1>1, <1>2, <1>5 DEF Positions
    <2>2. Cardinality(Positions(s, t)) \in Nat
      BY <1>3, FS_CardinalityType
    <2> QED BY <1>5, <2>1, <2>2 DEF a
  <1> QED BY <1>4, <1>5

LEMMA OneMoreSpelt ==
  ASSUME NEW rows, NEW n \in Nat, NEW id, NEW t
  PROVE  Cardinality(Spelt(rows, n + 1, id, t))
           = Cardinality(Spelt(rows, n, id, t))
               + (IF Id(rows[n + 1], "trip_id") = id /\ StopTimeOf(rows[n + 1]) = t THEN 1 ELSE 0)
  <1>1. 1..(n + 1) = 1..n \cup {n + 1} /\ n + 1 \notin 1..n
    OBVIOUS
  <1>2. IsFiniteSet(Spelt(rows, n, id, t)) /\ n + 1 \notin Spelt(rows, n, id, t)
    BY <1>1, FiniteSpelt
  <1>3. CASE Id(rows[n + 1], "trip_id") = id /\ StopTimeOf(rows[n + 1]) = t
    <2>1. Spelt(rows, n + 1, id, t) = Spelt(rows, n, id, t) \cup {n + 1}
      BY <1>1, <1>3 DEF Spelt
    <2> QED BY <1>2, <1>3, <2>1, FS_AddElement
  <1>4. CASE ~(Id(rows[n + 1], "trip_id") = id /\ StopTimeOf(rows[n + 1]) = t)
    <2>1. Spelt(rows, n + 1, id, t) = Spelt(rows, n, id, t)
      BY <1>1, <1>4 DEF Spelt
    <2>2. Cardinality(Spelt(rows, n, id, t)) \in Nat
      BY <1>2, FS_CardinalityType
    <2> QED BY <1>4, <2>1, <2>2
  <1> QED BY <1>3, <1>4

(***************************************************************************)
(* Stop times.                                                             *)
(***************************************************************************)
(* What is counted for the stop times that rows spell holds of any.        *)
LEMMA CountsAgree ==
  ASSUME NEW rows, NEW n \in Nat, NEW times, TimesRead(rows, n, times), NEW id, NEW t
  PROVE  /\ id \in DOMAIN times =>
              Cardinality(Positions(times[id], t)) = Cardinality(Spelt(rows, n, id, t))
         /\ id \notin DOMAIN times => Cardinality(Spelt(rows, n, id, t)) = 0
  <1>1. ASSUME id \notin DOMAIN times PROVE Cardinality(Spelt(rows, n, id, t)) = 0
    <2>1. Spelt(rows, n, id, t) = {}
      BY <1>1 DEF TimesRead, Spelt
    <2> QED BY <2>1, FS_EmptySet
  <1>2. ASSUME id \in DOMAIN times, NEW j \in 1..n, t = StopTimeOf(rows[j])
        PROVE  Cardinality(Positions(times[id], t)) = Cardinality(Spelt(rows, n, id, t))
    BY <1>2 DEF TimesRead
  <1>3. ASSUME id \in DOMAIN times, \A j \in 1..n : t # StopTimeOf(rows[j])
        PROVE  Cardinality(Positions(times[id], t)) = Cardinality(Spelt(rows, n, id, t))
    <2>1. Positions(times[id], t) = {} /\ Spelt(rows, n, id, t) = {}
      BY <1>3 DEF TimesRead, Positions, Spelt
    <2> QED BY <2>1
  <1> QED BY <1>1, <1>2, <1>3

LEMMA TimeRowRead ==
  ASSUME NEW rows, NEW n \in Nat, NEW times, TimesRead(rows, n, times),
         NEW id, id = Id(rows[n + 1], "trip_id"),
         NEW e \in StopTime, e = StopTimeOf(rows[n + 1]),
         NEW old \in Seq(StopTime),
         id \in DOMAIN times => old = times[id],
         id \notin DOMAIN times => old = <<>>
  PROVE  TimesRead(rows, n + 1, With(times, id, Append(old, e)))
  <1> DEFINE list == Append(old, e)
             new == With(times, id, list)
  <1>1. /\ DOMAIN new = DOMAIN times \cup {id} /\ new[id] = list
        /\ \A y \in DOMAIN times : y # id => new[y] = times[y]
    <2> HIDE DEF list
    <2> QED BY DEF With
  <1> HIDE DEF new
  <1>2. DOMAIN new = {Id(rows[i], "trip_id") : i \in 1..(n + 1)}
    BY <1>1, OneMoreId DEF TimesRead
  <1>3. 1..(n + 1) = 1..n \cup {n + 1}
    OBVIOUS
  <1>4. ASSUME NEW i \in DOMAIN list PROVE \E j \in 1..(n + 1) : list[i] = StopTimeOf(rows[j])
    <2>1. /\ Len(old) \in Nat /\ DOMAIN old = 1..Len(old)
          /\ i \in 1..Len(old) => list[i] = old[i]
          /\ i \in 1..Len(old) \/ list[i] = e
      OBVIOUS
    <2> HIDE DEF list
    <2>2. CASE i \in 1..Len(old)
      <3>1. id \in DOMAIN times /\ old = times[id]
        BY <2>1, <2>2
      <3>2. \E j \in 1..n : times[id][i] = StopTimeOf(rows[j])
        BY <2>1, <2>2, <3>1 DEF TimesRead
      <3> QED BY <1>3, <2>1, <2>2, <3>1, <3>2
    <2>3. CASE list[i] = e
      BY <1>3, <2>3
    <2> QED BY <2>1, <2>2, <2>3
  <1>5. ASSUME NEW t
        PROVE  Cardinality(Positions(list, t)) = Cardinality(Spelt(rows, n + 1, id, t))
    <2>1. Cardinality(Positions(old, t)) = Cardinality(Spelt(rows, n, id, t))
      <3>1. CASE id \in DOMAIN times
        BY <3>1, CountsAgree
      <3>2. CASE id \notin DOMAIN times
        <4>1. Positions(old, t) = {}
          BY <3>2 DEF Positions
        <4> QED BY <3>2, <4>1, CountsAgree, FS_EmptySet
      <3> QED BY <3>1, <3>2
    <2>2. Cardinality(Positions(list, t)) = Cardinality(Positions(old, t)) + (IF t = e THEN 1 ELSE 0)
      BY AppendPositions
    <2>3. Cardinality(Spelt(rows, n + 1, id, t))
            = Cardinality(Spelt(rows, n, id, t)) + (IF e = t THEN 1 ELSE 0)
      <3>1. CASE e = t
        <4>1. Id(rows[n + 1], "trip_id") = id /\ StopTimeOf(rows[n + 1]) = t
          BY <3>1
        <4>2. Cardinality(Spelt(rows, n + 1, id, t)) = Cardinality(Spelt(rows, n, id, t)) + 1
          BY <4>1, OneMoreSpelt
        <4> QED BY <3>1, <4>2
      <3>2. CASE e # t
        BY <3>2, OneMoreSpelt
      <3> QED BY <3>1, <3>2
    <2> HIDE DEF list
    <2> QED BY <2>1, <2>2, <2>3
  <1>6. ASSUME NEW y \in DOMAIN times, y # id, NEW t
        PROVE  Cardinality(Positions(times[y], t)) = Cardinality(Spelt(rows, n + 1, y, t))
    <2>1. Cardinality(Spelt(rows, n, y, t)) \in Nat
      BY FiniteSpelt, FS_CardinalityType
    <2>2. Cardinality(Spelt(rows, n + 1, y, t)) = Cardinality(Spelt(rows, n, y, t)) + 0
      BY <1>6, OneMoreSpelt
    <2> QED BY <2>1, <2>2, CountsAgree
  <1> HIDE DEF list
  <1>7. ASSUME NEW y \in DOMAIN new
        PROVE  /\ \A i \in DOMAIN new[y] : \E j \in 1..(n + 1) : new[y][i] = StopTimeOf(rows[j])
               /\ \A j \in 1..(n + 1) :
                    Cardinality(Positions(new[y], StopTimeOf(rows[j])))
                      = Cardinality(Spelt(rows, n + 1, y, StopTimeOf(rows[j])))
    <2>1. CASE y = id
      BY <2>1, <1>1, <1>4, <1>5
    <2>2. CASE y # id
      <3>1. y \in DOMAIN times /\ new[y] = times[y]
        BY <1>1, <2>2
      <3>2. \A i \in DOMAIN times[y] : \E j \in 1..n : times[y][i] = StopTimeOf(rows[j])
        BY <3>1 DEF TimesRead
      <3> QED BY <1>3, <1>6, <2>2, <3>1, <3>2
    <2> QED BY <2>1, <2>2
  <1>8. TimesRead(rows, n + 1, new)
    BY <1>2, <1>7 DEF TimesRead
  <1> QED BY <1>8 DEF new, list

(* Sorting moves stop times, and neither makes nor loses one. *)
LEMMA SortCounts ==
  ASSUME NEW s \in Seq(StopTime), NEW r \in BySeq(s)
  PROVE  /\ DOMAIN r = 1..Len(s)
         /\ \A i \in DOMAIN r : \E l \in DOMAIN s : r[i] = s[l]
         /\ \A t : Cardinality(Positions(r, t)) = Cardinality(Positions(s, t))
         /\ \A i, j \in DOMAIN r : i < j => r[i].seq <= r[j].seq
  <1> DEFINE n == Len(s)
  <1>1. n \in Nat /\ DOMAIN s = 1..n
    OBVIOUS
  <1>2. PICK o \in Orders(n) : /\ r = Reordered(s, o)
                               /\ \A i, j \in 1..n : i < j => s[o[i]].seq <= s[o[j]].seq
    BY DEF BySeq
  <1>3. o \in Bijection(1..n, 1..n)
    BY <1>1, OrderIsBijection
  <1>4. o \in [1..n -> 1..n]
    BY DEF Orders
  <1>5. r = [i \in 1..n |-> s[o[i]]]
    BY <1>2 DEF Reordered
  <1> HIDE DEF n
  <1>6. DOMAIN r = 1..n /\ \A i \in 1..n : r[i] = s[o[i]]
    BY <1>5
  <1>7. ASSUME NEW t PROVE Cardinality(Positions(r, t)) = Cardinality(Positions(s, t))
    <2>1. Positions(s, t) \in SUBSET (1..n)
      BY <1>1 DEF Positions
    <2>2. Positions(r, t) = {i \in 1..n : o[i] \in Positions(s, t)}
      BY <1>1, <1>4, <1>6 DEF Positions
    <2>3. IsFiniteSet(1..n)
      BY <1>1, FS_Interval
    <2> DEFINE D == 1..n
               U == Positions(s, t)
    <2>4. IsFiniteSet(D) /\ o \in Bijection(D, D) /\ U \in SUBSET D
      BY <1>3, <2>1, <2>3
    <2>5. Positions(r, t) = {i \in D : o[i] \in U}
      BY <2>2
    <2> HIDE DEF D, U
    <2>6. Cardinality({i \in D : o[i] \in U}) = Cardinality(U)
      BY <2>4, BijectionCounts
    <2> QED BY <2>5, <2>6 DEF U
  <1>8. \A i \in DOMAIN r : \E l \in DOMAIN s : r[i] = s[l]
    BY <1>1, <1>4, <1>6
  <1>9. \A i, j \in DOMAIN r : i < j => r[i].seq <= r[j].seq
    BY <1>2, <1>6
  <1> QED BY <1>6, <1>7, <1>8, <1>9 DEF n

LEMMA SortedRead ==
  ASSUME NEW rows, NEW n \in Nat, NEW times, TimesRead(rows, n, times),
         \A id \in DOMAIN times : times[id] \in Seq(StopTime),
         NEW sorted, DOMAIN sorted = DOMAIN times,
         \A id \in DOMAIN times : sorted[id] \in BySeq(times[id])
  PROVE  TimesRead(rows, n, sorted)
  <1> SUFFICES ASSUME NEW id \in DOMAIN times
               PROVE  /\ \A i \in DOMAIN sorted[id] : \E j \in 1..n : sorted[id][i] = StopTimeOf(rows[j])
                      /\ \A j \in 1..n :
                           Cardinality(Positions(sorted[id], StopTimeOf(rows[j])))
                             = Cardinality(Spelt(rows, n, id, StopTimeOf(rows[j])))
    BY DEF TimesRead
  <1>1. times[id] \in Seq(StopTime) /\ sorted[id] \in BySeq(times[id])
    OBVIOUS
  <1>2. /\ \A i \in DOMAIN sorted[id] : \E l \in DOMAIN times[id] : sorted[id][i] = times[id][l]
        /\ \A t : Cardinality(Positions(sorted[id], t)) = Cardinality(Positions(times[id], t))
    BY <1>1, SortCounts
  <1>3. /\ \A i \in DOMAIN times[id] : \E j \in 1..n : times[id][i] = StopTimeOf(rows[j])
        /\ \A j \in 1..n :
             Cardinality(Positions(times[id], StopTimeOf(rows[j])))
               = Cardinality(Spelt(rows, n, id, StopTimeOf(rows[j])))
    BY DEF TimesRead
  <1> QED BY <1>2, <1>3

LEMMA TimeRowCounts ==
  ASSUME ParserIInv, TimesInv, ParseStopTimeRow
  PROVE  TimesInv'
  <1> DEFINE id == Id(Row, "trip_id")
             e == StopTimeOf(Row)
             old == TimesOf(feed, id)
             rows == Rows(zip, "stop_times")
             n == RowsRead("stop_times")
  <1>1. HasRow /\ Advance /\ pc = "stop_times" /\ pc' = pc
    BY DEF ParseStopTimeRow, Reads, Advance
  <1>2. Rows(zip', "stop_times") = rows /\ RowsRead("stop_times")' = n + 1 /\ rows[n + 1] = Row
    BY <1>1, ReadsOneMore DEF Counted
  <1>3. n \in Nat
    BY ReadSoFar DEF Counted
  <1>4. FeedInv /\ feed'.times = With(feed.times, id, Append(old, e))
    <2>1. FeedInv /\ feed' = [feed EXCEPT !.times = With(feed.times, id, Append(old, e))]
      BY FeedInvSplits DEF ParseStopTimeRow
    <2> HIDE DEF id, e, old
    <2> QED BY <2>1 DEF FeedInv, EmptyFeed
  <1>5. e \in StopTime
    BY StopTimeRowTyped
  <1>6. /\ old \in Seq(StopTime)
        /\ id \in DOMAIN feed.times => old = feed.times[id]
        /\ id \notin DOMAIN feed.times => old = <<>>
    BY <1>4 DEF TimesOf, FeedInv
  <1>7. TimesRead(rows, n, feed.times)
    BY <1>1 DEF TimesInv
  <1>8. id = Id(rows[n + 1], "trip_id") /\ e = StopTimeOf(rows[n + 1])
    BY <1>2
  <1> HIDE DEF id, e, old, rows, n
  <1>9. TimesRead(rows, n + 1, With(feed.times, id, Append(old, e)))
    BY <1>3, <1>5, <1>6, <1>7, <1>8, TimeRowRead
  <1> QED BY <1>1, <1>2, <1>4, <1>9 DEF TimesInv

LEMMA SortStepCounts ==
  ASSUME ParserIInv, TimesInv, SortStopTimes
  PROVE  TimesInv'
  <1>1. pc = "sort" /\ pc' = "index"
    BY DEF SortStopTimes
  <1>2. PICK times :
          /\ DOMAIN times = DOMAIN feed.times
          /\ \A id \in DOMAIN feed.times : times[id] \in BySeq(feed.times[id])
          /\ feed' = [feed EXCEPT !.times = times,
                                  !.tripRoute = [id \in DOMAIN feed.trips |-> feed.trips[id].route]]
    BY DEF SortStopTimes
  <1>3. FeedInv
    BY FeedInvSplits
  <1>4. feed'.times = times
    BY <1>2, <1>3 DEF FeedInv, EmptyFeed
  <1>5. zip' = zip /\ RowsRead("stop_times")' = RowsRead("stop_times")
    BY <1>1, ReadsNothing DEF Counted
  <1>6. RowsRead("stop_times") \in Nat
    BY ReadSoFar DEF Counted
  <1>7. \A id \in DOMAIN feed.times : feed.times[id] \in Seq(StopTime)
    BY <1>3 DEF FeedInv
  <1>8. TimesRead(Rows(zip, "stop_times"), RowsRead("stop_times"), feed.times)
    BY <1>1 DEF TimesInv
  <1>9. TimesRead(Rows(zip, "stop_times"), RowsRead("stop_times"), times)
    BY <1>2, <1>6, <1>7, <1>8, SortedRead
  <1>10. ASSUME NEW id \in DOMAIN times, NEW i \in DOMAIN times[id], NEW j \in DOMAIN times[id], i < j
         PROVE  times[id][i].seq <= times[id][j].seq
    <2>1. feed.times[id] \in Seq(StopTime) /\ times[id] \in BySeq(feed.times[id])
      BY <1>2, <1>7
    <2> QED BY <1>10, <2>1, SortCounts
  <1> QED BY <1>1, <1>4, <1>5, <1>9, <1>10 DEF TimesInv

LEMMA TimesStep ==
  ASSUME ParserIInv, TimesInv, [Next]_vars
  PROVE  TimesInv'
  <1>1. CASE pc' = "failed"
    BY <1>1 DEF TimesInv
  <1>2. ASSUME pc' # "failed", pc # "failed", pc' \in {"index", "done"} => pc \in {"index", "done"},
               feed'.times = feed.times, zip' = zip,
               RowsRead("stop_times")' = RowsRead("stop_times")
        PROVE  TimesInv'
    BY <1>2 DEF TimesInv
  <1>3. CASE \/ ParseStopRow \/ ParseRouteRow \/ ParseTripRow
             \/ ParseCalendarRow \/ ParseCalendarDateRow
    <2>1. /\ HasRow /\ Advance /\ zip' = zip /\ pc' = pc
          /\ pc \in {"stops", "routes", "trips", "calendar", "calendar_dates"}
      BY <1>3 DEF ParseStopRow, ParseRouteRow, ParseTripRow, ParseCalendarRow, ParseCalendarDateRow,
                  Reads, Advance
    <2>2. RowsRead("stop_times")' = RowsRead("stop_times")
      BY <2>1, ReadsOneMore DEF Counted
    <2>3. feed'.times = feed.times
      <3>1. DOMAIN feed = DOMAIN EmptyFeed
        BY DEF ParserIInv
      <3>2. \E x : \/ feed' = [feed EXCEPT !.stops = x]
                   \/ feed' = [feed EXCEPT !.routes = x]
                   \/ feed' = [feed EXCEPT !.trips = x]
                   \/ feed' = [feed EXCEPT !.services = x]
        BY <1>3 DEF ParseStopRow, ParseRouteRow, ParseTripRow, ParseCalendarRow, ParseCalendarDateRow
      <3> QED BY <3>1, <3>2 DEF EmptyFeed
    <2> QED BY <1>2, <2>1, <2>2, <2>3
  <1>4. CASE /\ pc' # "failed"
             /\ OpenZip \/ NextFile \/ CheckServices \/ IndexByStop \/ UNCHANGED vars
    <2>1. zip' = zip /\ RowsRead("stop_times")' = RowsRead("stop_times")
      BY <1>4, ReadsNothing DEF Counted
    <2>2. feed'.times = feed.times
      <3>1. DOMAIN feed = DOMAIN EmptyFeed
        BY DEF ParserIInv
      <3> QED BY <1>4, <3>1 DEF OpenZip, Fail, NextFile, CheckServices, IndexByStop, vars, EmptyFeed
    <2>3. pc # "failed" /\ (pc' \in {"index", "done"} => pc \in {"index", "done"})
      <3>1. UNCHANGED vars => pc' = pc
        BY DEF vars
      <3>2. NextFile => pc # "failed" /\ pc' \notin {"index", "done"}
        BY DEF NextFile, Files, FileOrder
      <3>3. OpenZip => pc = "open" /\ pc' \in {"stops", "failed"}
        BY DEF OpenZip, Fail, FileOrder
      <3> QED BY <1>4, <3>1, <3>2, <3>3 DEF CheckServices, Fail, IndexByStop
    <2> QED BY <1>2, <1>4, <2>1, <2>2, <2>3
  <1>5. [Next]_vars =>
          \/ ParseStopRow \/ ParseRouteRow \/ ParseTripRow \/ ParseStopTimeRow
          \/ ParseCalendarRow \/ ParseCalendarDateRow
          \/ OpenZip \/ NextFile \/ CheckServices \/ SortStopTimes \/ IndexByStop
          \/ UNCHANGED vars \/ pc' = "failed"
    BY DEF Next, Step, RejectRow, Fail, Ended
  <1> QED BY <1>1, <1>3, <1>4, <1>5, TimeRowCounts, SortStepCounts

LEMMA TimesInvariantHolds == Spec => []TimesInv
  <1>1. Init => TimesInv
    <2> SUFFICES ASSUME Init PROVE TimesInv
      OBVIOUS
    <2>1. RowsRead("stop_times") = 0
      BY ReadThroughCounted DEF Init, RowsRead
    <2> QED BY <2>1 DEF Init, TimesInv, TimesRead, EmptyFeed
  <1> QED BY <1>1, TimesStep, ParserInvariantHolds, PTL DEF Spec

(* All rows of stop_times.txt have been read when the lists are sorted. *)
LEMMA AllTimesRead ==
  ASSUME ParserIInv, TimesInv, pc \in {"index", "done"}
  PROVE  LET rows == Rows(zip, "stop_times")
         IN  /\ DOMAIN rows = 1..Len(rows) /\ Len(rows) \in Nat
             /\ TimesRead(rows, Len(rows), feed.times)
             /\ \A id \in DOMAIN feed.times : feed.times[id] \in Seq(StopTime)
  <1>1. RowsRead("stop_times") = Len(Rows(zip, "stop_times"))
    BY ReadSoFar, ReadThroughCounted DEF Counted
  <1>2. DOMAIN Rows(zip, "stop_times") = 1..Len(Rows(zip, "stop_times")) /\ Len(Rows(zip, "stop_times")) \in Nat
    BY ReadSoFar DEF Counted
  <1>3. \A id \in DOMAIN feed.times : feed.times[id] \in Seq(StopTime)
    BY DEF ParserIInv, TypeOK
  <1> QED BY <1>1, <1>2, <1>3 DEF TimesInv

(***************************************************************************)
(* Wherever in stop_times.txt the rows of a trip are, its list has their   *)
(* stop times, each as often as the file, in the order of stop_sequence    *)
(* (parse.go:192-220, 294).                                                *)
(***************************************************************************)
THEOREM TimesAreInSequence == Spec => []TimesFollowSequence
  <1>1. ParserIInv /\ TimesInv => TimesFollowSequence
    <2> SUFFICES ASSUME ParserIInv, TimesInv, pc \in {"index", "done"}
                 PROVE  TimesFollowSequence
      BY DEF TimesFollowSequence
    <2> DEFINE rows == Rows(zip, "stop_times")
               n == Len(rows)
    <2>1. DOMAIN rows = 1..n /\ n \in Nat /\ TimesRead(rows, n, feed.times)
      BY AllTimesRead
    <2>2. \A i \in DOMAIN rows : Id(rows[i], "trip_id") \in DOMAIN feed.times
      BY <2>1 DEF TimesRead
    <2>3. ASSUME NEW id \in DOMAIN feed.times, NEW t
          PROVE  Cardinality({i \in DOMAIN feed.times[id] : feed.times[id][i] = t})
                   = Cardinality({i \in TripRows(id) : RowTime(i) = t})
      <3>1. Spelt(rows, n, id, t) = {i \in TripRows(id) : RowTime(i) = t}
        BY <2>1 DEF Spelt, TripRows, RowTime
      <3>2. Cardinality(Positions(feed.times[id], t)) = Cardinality(Spelt(rows, n, id, t))
        BY <2>1, CountsAgree
      <3> QED BY <3>1, <3>2 DEF Positions
    <2>4. \A id \in DOMAIN feed.times : \A i, j \in DOMAIN feed.times[id] :
            i < j => feed.times[id][i].seq <= feed.times[id][j].seq
      BY DEF TimesInv
    <2> QED BY <2>2, <2>3, <2>4 DEF TimesFollowSequence
  <1> QED BY <1>1, TimesInvariantHolds, ParserInvariantHolds, PTL

-----------------------------------------------------------------------------
(***************************************************************************)
(* The entries of a stop are a list of visits, sorted by departure.        *)
(***************************************************************************)
LEMMA FiniteRange ==
  ASSUME NEW D, IsFiniteSet(D), NEW f, DOMAIN f = D
  PROVE  IsFiniteSet({f[x] : x \in D})
  <1> DEFINE R == {f[x] : x \in D}
             g == [x \in D |-> f[x]]
  <1>1. g \in [D -> R] /\ \A y \in R : \E x \in D : g[x] = y
    OBVIOUS
  <1>2. g \in Surjection(D, R)
    <2> HIDE DEF R, g
    <2> QED BY <1>1 DEF Surjection
  <1> HIDE DEF R, g
  <1>3. IsFiniteSet(R)
    BY <1>2, FS_Surjection
  <1> QED BY <1>3 DEF R

LEMMA FiniteVisits ==
  ASSUME NEW f, IsFiniteSet(DOMAIN f.times), \A id \in DOMAIN f.times : f.times[id] \in Seq(StopTime), NEW stop
  PROVE  IsFiniteSet(VisitsOf(f, stop))
  <1> DEFINE At(id) == {x \in DOMAIN f.times[id] : f.times[id][x].stop = stop}
             D == DOMAIN f.times
             of == [id \in D |-> {<<id, i>> : i \in At(id)}]
  <1>1. ASSUME NEW id \in D PROVE IsFiniteSet(of[id])
    <2>1. At(id) \subseteq 1..Len(f.times[id]) /\ Len(f.times[id]) \in Nat
      OBVIOUS
    <2>2. IsFiniteSet(At(id))
      BY <2>1, FS_Interval, FS_Subset
    <2> DEFINE A == At(id)
               pair == [i \in A |-> <<id, i>>]
    <2>3. IsFiniteSet(A) /\ DOMAIN pair = A
      BY <2>2
    <2>4. of[id] = {pair[i] : i \in A}
      OBVIOUS
    <2> HIDE DEF A, pair, of
    <2> QED BY <2>3, <2>4, FiniteRange
  <1>2. VisitsOf(f, stop) = UNION {of[id] : id \in D}
    <2>1. \A id \in D : of[id] = {<<id, i>> : i \in At(id)}
      OBVIOUS
    <2>2. \A v : v \in UNION {of[id] : id \in D} <=> \E id \in D : v \in of[id]
      <3> HIDE DEF of, D
      <3> QED OBVIOUS
    <2>3. \A v : v \in VisitsOf(f, stop) <=> \E id \in D : v \in {<<id, i>> : i \in At(id)}
      BY DEF VisitsOf
    <2>4. \A v : v \in VisitsOf(f, stop) <=> v \in UNION {of[id] : id \in D}
      <3> HIDE DEF of, D, At
      <3> QED BY <2>1, <2>2, <2>3
    <2> HIDE DEF of, D
    <2> QED BY <2>4
  <1>3. DOMAIN of = D /\ IsFiniteSet(D)
    OBVIOUS
  <1> HIDE DEF of, D
  <1>4. IsFiniteSet({of[id] : id \in D})
    BY <1>3, FiniteRange
  <1>5. \A T \in {of[id] : id \in D} : IsFiniteSet(T)
    BY <1>1
  <1> QED BY <1>2, <1>4, <1>5, FS_UNION

LEMMA ByDepartureCounts ==
  ASSUME NEW f, NEW S, IsFiniteSet(S), NEW r \in ByDeparture(f, S)
  PROVE  /\ \A i \in DOMAIN r : \E v \in S : r[i] = <<v[1], f.times[v[1]][v[2]]>>
         /\ \A e : Cardinality({i \in DOMAIN r : r[i] = e})
                     = Cardinality({v \in S : <<v[1], f.times[v[1]][v[2]]>> = e})
         /\ \A i, j \in DOMAIN r : i < j => r[i][2].dep <= r[j][2].dep
  <1> DEFINE D == 1..Cardinality(S)
             entry == [v \in S |-> <<v[1], f.times[v[1]][v[2]]>>]
  <1>1. PICK o \in [D -> S] :
          /\ r = [i \in D |-> <<o[i][1], f.times[o[i][1]][o[i][2]]>>]
          /\ \A v \in S : \E i \in DOMAIN o : o[i] = v
          /\ \A i, j \in DOMAIN o : i < j => f.times[o[i][1]][o[i][2]].dep <= f.times[o[j][1]][o[j][2]].dep
    BY DEF ByDeparture
  <1>2. Cardinality(S) \in Nat
    BY FS_CardinalityType
  <1>3. IsFiniteSet(D) /\ Cardinality(D) = Cardinality(S)
    BY <1>2, FS_Interval
  <1>4. DOMAIN o = D /\ DOMAIN r = D
    BY <1>1
  <1>5. \A i \in D : o[i] \in S /\ r[i] = entry[o[i]]
    BY <1>1
  <1>6. \A i, j \in D : i < j => r[i][2].dep <= r[j][2].dep
    BY <1>1
  <1> HIDE DEF D
  <1>7. o \in Bijection(D, S)
    <2>1. o \in Surjection(D, S)
      BY <1>1, <1>4 DEF Surjection
    <2>2. o \in Injection(D, S)
      BY <1>3, <2>1, FS_SurjSameCardinalityImpliesInj
    <2> QED BY <2>1, <2>2 DEF Bijection
  <1>8. \A v \in S : entry[v] = <<v[1], f.times[v[1]][v[2]]>>
    OBVIOUS
  <1> HIDE DEF entry
  <1>9. ASSUME NEW e
        PROVE  Cardinality({i \in DOMAIN r : r[i] = e})
                 = Cardinality({v \in S : <<v[1], f.times[v[1]][v[2]]>> = e})
    <2> DEFINE U == {v \in S : entry[v] = e}
    <2>1. U \in SUBSET S
      OBVIOUS
    <2>2. {i \in DOMAIN r : r[i] = e} = {i \in D : o[i] \in U}
      BY <1>4, <1>5
    <2>3. {v \in S : <<v[1], f.times[v[1]][v[2]]>> = e} = U
      BY <1>8
    <2> HIDE DEF U
    <2>4. Cardinality({i \in D : o[i] \in U}) = Cardinality(U)
      BY <1>3, <1>7, <2>1, BijectionCounts
    <2> QED BY <2>2, <2>3, <2>4
  <1>10. \A i \in DOMAIN r : \E v \in S : r[i] = <<v[1], f.times[v[1]][v[2]]>>
    BY <1>4, <1>5, <1>8
  <1> QED BY <1>4, <1>6, <1>9, <1>10

(* The visits that show as one entry are the places of its stop time. *)
LEMMA VisitsCount ==
  ASSUME NEW f, NEW id \in DOMAIN f.times, f.times[id] \in Seq(StopTime), NEW t, NEW stop, t.stop = stop
  PROVE  Cardinality({v \in VisitsOf(f, stop) : <<v[1], f.times[v[1]][v[2]]>> = <<id, t>>})
           = Cardinality(Positions(f.times[id], t))
  <1> DEFINE P == Positions(f.times[id], t)
             V == {v \in VisitsOf(f, stop) : <<v[1], f.times[v[1]][v[2]]>> = <<id, t>>}
             g == [i \in P |-> <<id, i>>]
  <1>1. V = {<<id, i>> : i \in P}
    <2>1. ASSUME NEW v \in V PROVE v \in {<<id, i>> : i \in P}
      <3>1. PICK y \in DOMAIN f.times : \E i \in DOMAIN f.times[y] : v = <<y, i>>
        BY DEF VisitsOf
      <3>2. PICK i \in DOMAIN f.times[y] : v = <<y, i>>
        BY <3>1
      <3>3. y = id /\ f.times[y][i] = t
        BY <3>2
      <3> QED BY <3>2, <3>3 DEF Positions
    <2>2. ASSUME NEW i \in P PROVE <<id, i>> \in V
      <3>1. i \in DOMAIN f.times[id] /\ f.times[id][i] = t
        BY DEF Positions
      <3>2. <<id, i>> \in VisitsOf(f, stop)
        BY <3>1 DEF VisitsOf
      <3> QED BY <3>1, <3>2
    <2> QED BY <2>1, <2>2
  <1>2. g \in [P -> V] /\ (\A i, j \in P : g[i] = g[j] => i = j) /\ \A v \in V : \E i \in P : g[i] = v
    BY <1>1
  <1>3. IsFiniteSet(P)
    BY FinitePositions
  <1> HIDE DEF P, V, g
  <1>4. g \in Bijection(P, V)
    BY <1>2 DEF Bijection, Injection, Surjection, IsInjective
  <1>5. ExistsBijection(P, V)
    BY <1>4 DEF ExistsBijection
  <1>6. Cardinality(V) = Cardinality(P)
    BY <1>3, <1>5, FS_Bijection
  <1> QED BY <1>6 DEF P, V

LEMMA IndexStepExact ==
  ASSUME ParserIInv, TimesInv, IndexByStop
  PROVE  ByStopInv'
  <1> DEFINE visited == StopsVisited(feed)
  <1>1. /\ pc = "index" /\ pc' = "done" /\ UNCHANGED <<zip, line>>
    BY DEF IndexByStop
  <1>2. PICK byStop :
          /\ DOMAIN byStop = visited
          /\ \A s \in visited : byStop[s] \in ByDeparture(feed, VisitsOf(feed, s))
          /\ feed' = [feed EXCEPT !.byStop = byStop]
    BY DEF IndexByStop
  <1>3. feed'.byStop = byStop /\ feed'.times = feed.times
    <2>1. FeedInv
      BY FeedInvSplits
    <2> QED BY <1>2, <2>1 DEF FeedInv, EmptyFeed
  <1> DEFINE rows == Rows(zip, "stop_times")
             n == Len(rows)
  <1>4. /\ DOMAIN rows = 1..n /\ n \in Nat
        /\ TimesRead(rows, n, feed.times)
        /\ \A id \in DOMAIN feed.times : feed.times[id] \in Seq(StopTime)
    BY <1>1, AllTimesRead
  <1>5. IsFiniteSet(DOMAIN feed.times)
    <2> DEFINE D == 1..n
               trip == [i \in D |-> Id(rows[i], "trip_id")]
    <2>1. IsFiniteSet(D) /\ DOMAIN trip = D
      BY <1>4, FS_Interval
    <2>2. DOMAIN feed.times = {trip[i] : i \in D}
      BY <1>4 DEF TimesRead
    <2> HIDE DEF D, trip
    <2> QED BY <2>1, <2>2, FiniteRange
  <1>6. ASSUME NEW s \in StopsNamed(rows) PROVE s \in visited
    <2>1. PICK i \in 1..n : s = StopTimeOf(rows[i]).stop
      BY <1>4 DEF StopsNamed
    <2> DEFINE id == Id(rows[i], "trip_id")
               t == StopTimeOf(rows[i])
    <2>2. id \in DOMAIN feed.times
      BY <1>4 DEF TimesRead
    <2>3. Cardinality(Positions(feed.times[id], t)) = Cardinality(Spelt(rows, n, id, t))
      BY <1>4, <2>2 DEF TimesRead
    <2>4. i \in Spelt(rows, n, id, t)
      BY DEF Spelt
    <2> HIDE DEF id, t
    <2>5. Cardinality(Spelt(rows, n, id, t)) # 0
      BY <1>4, <2>4, FiniteSpelt, FS_EmptySet
    <2>6. Positions(feed.times[id], t) # {}
      BY <2>3, <2>5, FS_EmptySet
    <2>7. PICK k \in DOMAIN feed.times[id] : feed.times[id][k] = t
      BY <2>6 DEF Positions
    <2> QED BY <2>1, <2>2, <2>7 DEF StopsVisited, t
  <1> HIDE DEF visited
  <1>7. ASSUME NEW s \in visited
        PROVE  EntriesRight(feed.times, byStop[s], s)
    <2> DEFINE S == VisitsOf(feed, s)
    <2>1. IsFiniteSet(S)
      BY <1>4, <1>5, FiniteVisits
    <2>2. byStop[s] \in ByDeparture(feed, S)
      BY <1>2
    <2> HIDE DEF S
    <2>3. /\ \A i \in DOMAIN byStop[s] : \E v \in S : byStop[s][i] = <<v[1], feed.times[v[1]][v[2]]>>
          /\ \A e : Cardinality({i \in DOMAIN byStop[s] : byStop[s][i] = e})
                      = Cardinality({v \in S : <<v[1], feed.times[v[1]][v[2]]>> = e})
          /\ \A i, j \in DOMAIN byStop[s] : i < j => byStop[s][i][2].dep <= byStop[s][j][2].dep
      BY <2>1, <2>2, ByDepartureCounts
    <2>4. ASSUME NEW id \in DOMAIN feed.times, NEW t, t.stop = s
          PROVE  Cardinality(Positions(byStop[s], <<id, t>>)) = Cardinality(Positions(feed.times[id], t))
      <3>1. Cardinality({v \in S : <<v[1], feed.times[v[1]][v[2]]>> = <<id, t>>})
              = Cardinality(Positions(feed.times[id], t))
        BY <1>4, <2>4, VisitsCount DEF S
      <3> QED BY <2>3, <3>1 DEF Positions
    <2>5. ASSUME NEW i \in DOMAIN byStop[s]
          PROVE  /\ byStop[s][i][2].stop = s
                 /\ byStop[s][i][2]
                      \in {feed.times[byStop[s][i][1]][j] : j \in DOMAIN feed.times[byStop[s][i][1]]}
      <3>1. PICK v \in S : byStop[s][i] = <<v[1], feed.times[v[1]][v[2]]>>
        BY <2>3
      <3>2. PICK id \in DOMAIN feed.times : \E k \in DOMAIN feed.times[id] : v = <<id, k>> /\ feed.times[id][k].stop = s
        BY DEF S, VisitsOf
      <3> QED BY <3>1, <3>2
    <2> QED BY <2>3, <2>4, <2>5 DEF EntriesRight
  <1>8. IndexedRight(rows, feed.times, byStop)
    BY <1>2, <1>6, <1>7 DEF IndexedRight
  <1> QED BY <1>1, <1>3, <1>8 DEF ByStopInv

(***************************************************************************)
(* The entries of a stop are the visits that all trips make to it, each as *)
(* often as it is made, in the order of departure (parse.go:302-310).      *)
(***************************************************************************)
THEOREM StopsListAllVisits == Spec => []ByStopExact
  <1>1. ParserIInv /\ TimesInv /\ ByStopInv /\ [Next]_vars => ByStopInv'
    <2> SUFFICES ASSUME ParserIInv, TimesInv, ByStopInv, [Next]_vars PROVE ByStopInv'
      OBVIOUS
    <2>1. CASE pc' # "done"
      BY <2>1 DEF ByStopInv
    <2>2. CASE UNCHANGED vars
      <3>1. zip' = zip /\ pc' = pc /\ feed' = feed
        BY <2>2 DEF vars
      <3> QED BY <3>1 DEF ByStopInv
    <2>3. [Next]_vars => IndexByStop \/ UNCHANGED vars \/ pc' # "done"
      <3>1. Step => IndexByStop \/ pc' # "done"
        <4>1. (\/ ParseStopRow \/ ParseRouteRow \/ ParseTripRow
               \/ ParseStopTimeRow \/ ParseCalendarRow \/ ParseCalendarDateRow) => pc' # "done"
          BY DEF ParseStopRow, ParseRouteRow, ParseTripRow, ParseStopTimeRow,
                 ParseCalendarRow, ParseCalendarDateRow, Reads, Advance
        <4>2. NextFile => pc' # "done"
          BY DEF NextFile, Files, FileOrder
        <4>3. OpenZip \/ RejectRow \/ CheckServices \/ SortStopTimes => pc' # "done"
          BY DEF OpenZip, RejectRow, CheckServices, SortStopTimes, Fail, FileOrder
        <4> QED BY <4>1, <4>2, <4>3 DEF Step
      <3> QED BY <3>1 DEF Next, Ended
    <2> QED BY <2>1, <2>2, <2>3, IndexStepExact
  <1>2. Init => ByStopInv
    BY DEF Init, ByStopInv
  <1>3. ByStopInv => ByStopExact
    <2>1. StopsNamed(Rows(zip, "stop_times")) = {RowTime(i).stop : i \in DOMAIN Rows(zip, "stop_times")}
      BY DEF StopsNamed, RowTime
    <2>2. ASSUME ByStopInv, pc = "done", NEW s \in StopsNamed(Rows(zip, "stop_times")) \cup DOMAIN feed.byStop
          PROVE  s \in DOMAIN feed.byStop /\ EntriesRight(feed.times, feed.byStop[s], s)
      BY <2>2 DEF ByStopInv, IndexedRight
    <2> QED BY <2>1, <2>2 DEF ByStopExact, EntriesRight, Positions
  <1> QED BY <1>1, <1>2, <1>3, TimesInvariantHolds, ParserInvariantHolds, PTL DEF Spec

-----------------------------------------------------------------------------
LEMMA FiniteDates ==
  ASSUME NEW rows, NEW n \in Nat, NEW id, NEW type
  PROVE  IsFiniteSet(OfType(rows, n, id, type))
  <1> DEFINE D == {j \in OfService(rows, n, id) : Cell(rows[j], "exception_type") = <<type>>}
             date == [i \in D |-> Id(rows[i], "date")]
  <1>1. D \in SUBSET (1..n)
    BY DEF OfService
  <1>2. IsFiniteSet(D)
    <2>1. IsFiniteSet(1..n)
      BY FS_Interval
    <2> HIDE DEF D
    <2> QED BY <1>1, <2>1, FS_Subset
  <1>3. OfType(rows, n, id, type) = {date[i] : i \in D} /\ DOMAIN date = D
    BY DEF OfType
  <1> HIDE DEF D, date
  <1> QED BY <1>2, <1>3, FiniteRange

(* What ParseZip returns is a feed as Build takes it for granted: trips    *)
(* without an empty list of stop times, services with finitely many dates. *)
THEOREM ParsedFeedsSuitBuild == Spec => []FeedSuitsBuild
  <1>1. ParserIInv /\ CombineInv => FeedSuitsBuild
    <2> SUFFICES ASSUME ParserIInv, CombineInv, pc = "done" PROVE FeedOK(feed) /\ ServicesOK(feed)
      BY DEF FeedSuitsBuild
    <2> DEFINE dates == Rows(zip, "calendar_dates")
               d == RowsRead("calendar_dates")
    <2>1. d \in Nat
      BY ReadSoFar DEF Counted
    <2>2. \A id \in DOMAIN feed.services :
            /\ feed.services[id].added = OfType(dates, d, id, 1)
            /\ feed.services[id].removed = OfType(dates, d, id, 2)
      BY DEF CombineInv, ServicesRead
    <2> HIDE DEF dates, d
    <2>3. \A id \in DOMAIN feed.services :
            IsFiniteSet(feed.services[id].added) /\ IsFiniteSet(feed.services[id].removed)
      BY <2>1, <2>2, FiniteDates
    <2>4. \A id \in DOMAIN feed.services :
            feed.services[id] \in [weekdays : SUBSET (0..6), start : Nat, end : Nat,
                                   added : SUBSET Nat, removed : SUBSET Nat]
      BY DEF ParserIInv, TypeOK, Week
    <2>5. ServicesOK(feed)
      BY <2>3, <2>4 DEF ServicesOK
    <2> QED BY <2>5 DEF ParserIInv
  <1> QED BY <1>1, CombineInvariantHolds, ParserInvariantHolds, PTL

=============================================================================
