---------------------------- MODULE MCFeedParser ----------------------------
(***************************************************************************)
(* Small zips for FeedParserProperties: stop times of two trips in any     *)
(* order with tied and negative sequence numbers, a trip that loops; bad   *)
(* rows and missing files; services in either calendar file or both.       *)
(***************************************************************************)
EXTENDS FeedParserInvariant, TLC

File(name, rows) == [name |-> name, rows |-> rows]

Zip(entries) == [readable |-> TRUE, entries |-> entries]

StopRow(id) == "stop_id" :> <<id>> @@ "stop_lat" :> <<47>> @@ "stop_lon" :> <<-122>>

RouteRow == "route_id" :> <<1>>

TripRow(id) == "trip_id" :> <<id>> @@ "route_id" :> <<1>> @@ "service_id" :> <<1>>

TimeRow(trip, stop, arr, dep, seq) ==
  "trip_id" :> <<trip>> @@ "stop_id" :> <<stop>> @@ "arrival_time" :> arr
    @@ "departure_time" :> dep @@ "stop_sequence" :> <<seq>>

CalendarRow(id, days, from, to) ==
  "service_id" :> <<id>> @@ "weekdays" :> days @@ "start_date" :> <<from>> @@ "end_date" :> <<to>>

DateRow(id, date, type) == "service_id" :> <<id>> @@ "date" :> <<date>> @@ "exception_type" :> <<type>>

Stops == File("stops", <<StopRow(1), StopRow(2)>>)

Routes == File("routes", <<RouteRow>>)

Trips == File("trips", <<TripRow(1), TripRow(2)>>)

Calendar1 == File("calendar", <<CalendarRow(1, <<1, 3>>, 1, 9)>>)

Times == File("stop_times", <<TimeRow(1, 1, <<8, 0, 0>>, <<8, 1, 0>>, 1)>>)

Good == <<Stops, Routes, Trips, Times, Calendar1>>

(* A time past midnight, a blank one, and stop 2 visited twice. *)
TimeRows ==
  {TimeRow(1, 2, <<25, 30, 0>>, <<25, 30, 0>>, 3), TimeRow(1, 1, <<>>, <<>>, 1),
   TimeRow(1, 2, <<0, 0, 59>>, <<0, 59, 0>>, -2), TimeRow(2, 2, <<9, 0, 0>>, <<9, 0, 0>>, 1),
   TimeRow(2, 1, <<9, 0, 0>>, <<9, 0, 0>>, 1), TimeRow(7, 2, <<9, 0, 0>>, <<9, 0, 0>>, 4)}

TimesZips ==
  {Zip(<<Stops, Routes, Trips, File("stop_times", rows), Calendar1>>) :
     rows \in [1..3 -> TimeRows] \cup {<<>>}
               \cup {<<a, b, a, c>> : a, b, c \in {r \in TimeRows : r["trip_id"] = <<1>>}}}

(* Each of these rows is rejected by the handler of its file, or accepted  *)
(* though something in it is missing.                                      *)
OddRows(name) ==
  IF name = "stops"
  THEN {<< >>, StopRow(3), [StopRow(3) EXCEPT !["stop_lat"] = <<>>], [StopRow(3) EXCEPT !["stop_lon"] = <<1, 2>>],
        [StopRow(3) EXCEPT !["stop_id"] = <<>>]}
  ELSE IF name = "routes" THEN {<< >>, "route_id" :> <<>>, RouteRow}
  ELSE IF name = "trips" THEN {<< >>, "trip_id" :> <<3>>, [TripRow(1) EXCEPT !["route_id"] = <<>>],
                               [TripRow(1) EXCEPT !["trip_id"] = <<>>]}
  ELSE IF name = "stop_times"
  THEN {[TimeRow(1, 1, a, <<8, 0, 0>>, 2) EXCEPT !["stop_id"] = s] :
          a \in {<<>>, <<8, 60, 0>>, <<8, 0>>, <<-1, 0, 0>>, <<23, 59, 59>>}, s \in {<<>>, <<1>>}}
       \cup {[TimeRow(1, 1, <<>>, a, 2) EXCEPT !["trip_id"] = t, !["stop_sequence"] = q] :
               a \in {<<>>, <<8, 0, 60>>}, t, q \in {<<>>, <<1>>}}
  ELSE IF name = "calendar" THEN {"service_id" :> <<>>, "service_id" :> <<2>>}
  ELSE {DateRow(1, 3, 1), DateRow(1, 3, 3), "service_id" :> <<1>>, [DateRow(1, 3, 2) EXCEPT !["service_id"] = <<>>]}

(* A file that is there twice, or not, with a row added to one. *)
BadZips ==
  {Zip(SelectSeq(Good, LAMBDA f : f.name \notin gone)) :
     gone \in SUBSET {"stops", "routes", "trips", "stop_times", "calendar"}}
  \cup UNION {{Zip(Good \o <<File(name, <<row>>)>>) : row \in OddRows(name)} : name \in Files}
  \cup UNION {{Zip(<<File(name, <<row>>)>> \o Good) : row \in OddRows(name)} : name \in Files}
  \cup {[Zip(Good) EXCEPT !.readable = FALSE]}

CalendarRows == {CalendarRow(1, <<1, 3>>, 1, 9), CalendarRow(1, <<0>>, 2, 3), CalendarRow(2, <<>>, 4, 4)}

DateRows == {DateRow(1, 3, 1), DateRow(1, 3, 2), DateRow(2, 5, 1), DateRow(3, 5, 2)}

(* Every file once, with one row more. *)
LongerZips ==
  UNION {{Zip([Good EXCEPT ![k].rows = Append(@, row)]) : row \in OddRows(Good[k].name)} : k \in DOMAIN Good}

ServiceZips ==
  {Zip(<<File("calendar_dates", dates), Stops, Routes, Trips, Times, File("calendar", weeks)>>) :
     dates \in UNION {[1..n -> DateRows] : n \in 0..2},
     weeks \in UNION {[1..n -> CalendarRows] : n \in 0..2}}

AllZips == TimesZips \cup BadZips \cup LongerZips \cup ServiceZips

=============================================================================
