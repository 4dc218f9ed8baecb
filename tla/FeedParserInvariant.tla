------------------------ MODULE FeedParserInvariant -------------------------
(***************************************************************************)
(* Why ParseZip lets no bad row through: the inductive invariant.          *)
(***************************************************************************)
EXTENDS FeedParserProperties

(* The files that have been read to their end. *)
ReadThrough(name) ==
  \/ pc \in {"check", "sort", "index", "done"}
  \/ \E i, j \in 1..6 : i < j /\ name = FileOrder[i] /\ pc = FileOrder[j]

(* Whatever was read was accepted. *)
AcceptedInv ==
  /\ pc = "open" => line = 1
  /\ pc \notin {"open", "failed"} => Openable(zip)
  /\ \A name \in Files : ReadThrough(name) => \A l \in DOMAIN Rows(zip, name) : RowOK(name, Rows(zip, name)[l])
  /\ pc \in Files => \A l \in 1..line - 1 : RowOK(pc, Rows(zip, pc)[l])
  /\ pc = "failed" => ~Usable

(* Services come of the rows of the two calendar files, and of those only. *)
ServicesInv ==
  /\ pc \in {"open", "stops", "routes", "trips", "stop_times"} => DOMAIN feed.services = {}
  /\ pc = "calendar" => (DOMAIN feed.services = {} <=> line = 1)
  /\ pc = "calendar_dates" =>
       (DOMAIN feed.services = {} <=> Len(Rows(zip, "calendar")) = 0 /\ line = 1)
  /\ pc = "check" =>
       (DOMAIN feed.services = {}
          <=> Len(Rows(zip, "calendar")) = 0 /\ Len(Rows(zip, "calendar_dates")) = 0)
  /\ pc \in {"sort", "index", "done"} =>
       ~(Len(Rows(zip, "calendar")) = 0 /\ Len(Rows(zip, "calendar_dates")) = 0)

-----------------------------------------------------------------------------
(***************************************************************************)
(* What the feed holds of the rows that have been read.                    *)
(***************************************************************************)
(* How many rows of a file that is. *)
RowsRead(name) ==
  IF ReadThrough(name) THEN Len(Rows(zip, name)) ELSE IF pc = name THEN line - 1 ELSE 0

(* The rows of one service among the first n. *)
OfService(rows, n, id) == {i \in 1..n : Id(rows[i], "service_id") = id}

OfType(rows, n, id, type) ==
  {Id(rows[i], "date") : i \in {j \in OfService(rows, n, id) : Cell(rows[j], "exception_type") = <<type>>}}

(* The weekly pattern of svc is that of the last of its rows. *)
LastWins(rows, n, id, svc) ==
  /\ OfService(rows, n, id) = {} => svc.start = NoDate /\ svc.weekdays = {}
  /\ \A i \in OfService(rows, n, id) :
       (\A j \in OfService(rows, n, id) : j <= i) =>
         /\ svc.weekdays = Weekdays(rows[i])
         /\ svc.start = Id(rows[i], "start_date")
         /\ svc.end = Id(rows[i], "end_date")

(* Services after c rows of calendar.txt and d of calendar_dates.txt. *)
ServicesRead(weeks, c, dates, d, services) ==
  /\ DOMAIN services =
       {Id(weeks[i], "service_id") : i \in 1..c} \cup {Id(dates[i], "service_id") : i \in 1..d}
  /\ \A id \in DOMAIN services :
       /\ services[id].added = OfType(dates, d, id, 1)
       /\ services[id].removed = OfType(dates, d, id, 2)
       /\ LastWins(weeks, c, id, services[id])

CombineInv ==
  pc # "failed" =>
    ServicesRead(Rows(zip, "calendar"), RowsRead("calendar"),
                 Rows(zip, "calendar_dates"), RowsRead("calendar_dates"), feed.services)

(* Where a stop time is in a list, and which of the first n rows spell it. *)
Positions(times, t) == {i \in DOMAIN times : times[i] = t}

Spelt(rows, n, id, t) == {i \in 1..n : Id(rows[i], "trip_id") = id /\ StopTimeOf(rows[i]) = t}

(* Stop times after n rows of stop_times.txt: those the rows spell, as     *)
(* often as they spell them.                                               *)
TimesRead(rows, n, times) ==
  /\ DOMAIN times = {Id(rows[i], "trip_id") : i \in 1..n}
  /\ \A id \in DOMAIN times :
       /\ \A i \in DOMAIN times[id] : \E j \in 1..n : times[id][i] = StopTimeOf(rows[j])
       /\ \A j \in 1..n :
            Cardinality(Positions(times[id], StopTimeOf(rows[j])))
              = Cardinality(Spelt(rows, n, id, StopTimeOf(rows[j])))

TimesInv ==
  /\ pc # "failed" => TimesRead(Rows(zip, "stop_times"), RowsRead("stop_times"), feed.times)
  /\ pc \in {"index", "done"} =>
       \A id \in DOMAIN feed.times : \A i, j \in DOMAIN feed.times[id] :
         i < j => feed.times[id][i].seq <= feed.times[id][j].seq

(* The stops that rows name, and one whose entries are right.              *)
StopsNamed(rows) == {StopTimeOf(rows[i]).stop : i \in DOMAIN rows}

EntriesRight(times, entries, s) ==
  /\ \A id \in DOMAIN times : \A t \in {times[id][i] : i \in DOMAIN times[id]} :
       t.stop = s => Cardinality(Positions(entries, <<id, t>>)) = Cardinality(Positions(times[id], t))
  /\ \A i \in DOMAIN entries :
       /\ entries[i][2].stop = s
       /\ entries[i][2] \in {times[entries[i][1]][j] : j \in DOMAIN times[entries[i][1]]}
  /\ \A i, j \in DOMAIN entries : i < j => entries[i][2].dep <= entries[j][2].dep

IndexedRight(rows, times, byStop) ==
  \A s \in StopsNamed(rows) \cup DOMAIN byStop :
    s \in DOMAIN byStop /\ EntriesRight(times, byStop[s], s)

ByStopInv == pc = "done" => IndexedRight(Rows(zip, "stop_times"), feed.times, feed.byStop)

-----------------------------------------------------------------------------
ParserIInv ==
  /\ TypeOK
  /\ DOMAIN feed = DOMAIN EmptyFeed
  /\ FeedOK(feed)
  /\ AcceptedInv
  /\ ServicesInv

=============================================================================
