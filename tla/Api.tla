-------------------------------- MODULE Api ---------------------------------
(***************************************************************************)
(* What the handlers of internal/api answer, and what cmd/route answers to *)
(* the same question.  A timetable is a record                             *)
(*   ids, names : sequences of texts, by stop;                             *)
(*   lats, lons : coordinates by stop;                                     *)
(*   services   : the services of Calendar, by service_id;                 *)
(* and a request is a record with a field `kind`; of its parameters, <<>>, *)
(* NoDate and Absent stand for one that is missing, Malformed for one that *)
(* does not parse.  What a handler answers is a set: the range over a map  *)
(* picks the parameter it reports missing, and the engine's journeys are   *)
(* any that its contract allows.                                           *)
(***************************************************************************)
EXTENDS StopSearch, Calendar, ClockTime

CONSTANTS
  DefaultStopLimit, MaxStopLimit,
  Width,               \* int32 holds -Width..Width-1
  Rides,               \* seconds from the query's time to a journey's departure and arrival
  Absent, Malformed

ASSUME ApiAssumption ==
  /\ DefaultStopLimit \in Nat \ {0} /\ MaxStopLimit \in Nat
  /\ DefaultStopLimit <= MaxStopLimit
  /\ Absent # Malformed
  /\ Width \in Nat \ {0}
  /\ Rides \subseteq Nat \X Nat

(* A timetable as Build makes it: every stop has an id of its own, and a   *)
(* name, perhaps empty.                                                    *)
StopsNamed(tt) ==
  /\ tt.ids \in Seq(Text) /\ tt.names \in Seq(Text)
  /\ Len(tt.names) = Len(tt.ids)
  /\ \A i, k \in DOMAIN tt.ids : tt.ids[i] = tt.ids[k] => i = k

(* A request as the query of a URL makes it. *)
IsRequest(ask) ==
  \/ ask.kind = "healthz"
  \/ ask.kind = "stops" /\ ask.q \in Text /\ ask.limit \in Int \cup {Absent, Malformed}
  \/ ask.kind = "route" /\ ask.from \in Text /\ ask.to \in Text /\ ask.at \in Seq(Int)

Int32(n) == Narrow(n, Width)

(***************************************************************************)
(* raptor.Engine.Query, as Raptor.tla models it: an error for a stop or a  *)
(* date it does not know, else journeys between the two stops, not before  *)
(* dep, and only if a service runs on the date or ran the day before.      *)
(* Reconstructing a journey that was found can fail (raptor.go:227-229).   *)
(* Here a journey is one ride, its times counted in an int32.              *)
(***************************************************************************)
Trips(tt, date) == InFeedWindow(tt.services, date) \/ InFeedWindow(tt.services, date - 1)

Ride(from, to, dep, r) ==
  [from |-> from, to |-> to, departure |-> Int32(dep + r[1]), arrival |-> Int32(dep + r[1] + r[2])]

Result(failed, journeys) == [failed |-> failed, journeys |-> journeys]

Query(tt, from, to, dep, date) ==
  IF date = Malformed \/ {from, to} \notin SUBSET DOMAIN tt.ids THEN {Result(TRUE, <<>>)}
  ELSE {Result(FALSE, <<>>)}
         \cup IF from # to /\ Trips(tt, date)
              THEN {Result(TRUE, <<>>)} \cup {Result(FALSE, <<Ride(from, to, dep, r)>>) : r \in Rides}
              ELSE {}

-----------------------------------------------------------------------------
(***************************************************************************)
(* The wire types.                                                         *)
(***************************************************************************)
StopRef(tt, i) ==
  [id |-> tt.ids[i], name |-> IF tt.names[i] = <<>> THEN tt.ids[i] ELSE tt.names[i]]

ToWireJourney(tt, j) ==
  [from |-> StopRef(tt, j.from), to |-> StopRef(tt, j.to),
   departure |-> ClockOf(j.departure), arrival |-> ClockOf(j.arrival),
   departureSeconds |-> j.departure, arrivalSeconds |-> j.arrival,
   durationSeconds |-> Int32(j.arrival - j.departure), nextDay |-> NextDay(j.arrival)]

Error(status, what, candidates) ==
  [status |-> status, error |-> what, candidates |-> candidates]

Healthz == [status |-> 200, health |-> "ok"]

(***************************************************************************)
(* GET /stops                                                              *)
(***************************************************************************)
StopsReply(tt, ask) ==
  LET bad     == ask.limit # Absent /\ (ask.limit = Malformed \/ ask.limit < 1)
      limit   == IF ask.limit = Absent THEN DefaultStopLimit
                 ELSE IF ask.limit < MaxStopLimit THEN ask.limit ELSE MaxStopLimit
      matches == Search(tt, ask.q, limit)
  IN  IF TrimSpace(ask.q) = <<>> THEN Error(400, "q", <<>>)
      ELSE IF bad THEN Error(400, "limit", <<>>)
      ELSE [status |-> 200,
            stops  |-> [n \in DOMAIN matches |-> [id   |-> tt.ids[matches[n][3]],
                                                  name |-> tt.names[matches[n][3]]]]]

(***************************************************************************)
(* GET /route                                                              *)
(***************************************************************************)
MissingParams(ask) ==
  {p \in {"from", "to"} : TrimSpace(ask[p]) = <<>>}
    \cup (IF ask.at = <<>> THEN {"at"} ELSE {})
    \cup (IF ask.date = NoDate THEN {"date"} ELSE {})

ParsesAt(ask) == IsTime(ask.at) /\ Seconds(ask.at) >= 0

ResolveError(tt, param, r) ==
  CASE r.err = "notfound"  -> Error(404, param, <<>>)
    [] r.err = "ambiguous" -> Error(400, param, [n \in DOMAIN r.candidates |->
                                [id   |-> tt.ids[r.candidates[n]],
                                 name |-> tt.names[r.candidates[n]]]])
    [] OTHER               -> Error(400, param, <<>>)

Routed(tt, ask, from, to, journeys) ==
  [status |-> 200, origin |-> StopRef(tt, from), destination |-> StopRef(tt, to),
   date |-> ask.date, departAfter |-> ClockOf(Int32(Seconds(ask.at))),
   journeys |-> [n \in DOMAIN journeys |-> ToWireJourney(tt, journeys[n])],
   note |-> journeys = <<>> /\ ~InFeedWindow(tt.services, ask.date)]

RouteReplies(tt, ask) ==
  LET answers(from, to) ==
        IF MissingParams(ask) # {} THEN {Error(400, p, <<>>) : p \in MissingParams(ask)}
        ELSE IF ~ParsesAt(ask) THEN {Error(400, "at", <<>>)}
        ELSE IF ask.date = Malformed THEN {Error(400, "date", <<>>)}
        ELSE IF from.err # "none" THEN {ResolveError(tt, "from", from)}
        ELSE IF to.err # "none" THEN {ResolveError(tt, "to", to)}
        ELSE {IF q.failed THEN Error(500, "query", <<>>)
              ELSE Routed(tt, ask, from.stop, to.stop, q.journeys) :
              q \in Query(tt, from.stop, to.stop, Int32(Seconds(ask.at)), ask.date)}
  IN  answers(Resolve(tt, ask.from), Resolve(tt, ask.to))

Replies(tt, ask) ==
  CASE ask.kind = "healthz" -> {Healthz}
    [] ask.kind = "stops"   -> {StopsReply(tt, ask)}
    [] ask.kind = "route"   -> RouteReplies(tt, ask)

-----------------------------------------------------------------------------
(***************************************************************************)
(* cmd/route asked the same: its exit status and the options it prints.    *)
(***************************************************************************)
Exits(status) == [exit |-> status]

Option(tt, j) ==
  [from |-> StopRef(tt, j.from).name, to |-> StopRef(tt, j.to).name,
   departure |-> PlannerClock(j.departure), arrival |-> PlannerClock(j.arrival)]

Plans(tt, ask) ==
  LET plans(from, to) ==
        IF ask.from = <<>> \/ ask.to = <<>> \/ ask.at = <<>> \/ ask.date = NoDate THEN {Exits(2)}
        ELSE IF ~ParsesAt(ask) THEN {Exits(2)}
        ELSE IF from.err # "none" \/ to.err # "none" THEN {Exits(2)}
        ELSE {IF q.failed THEN Exits(1)
              ELSE [exit |-> 0, options |-> [n \in DOMAIN q.journeys |-> Option(tt, q.journeys[n])]] :
              q \in Query(tt, from.stop, to.stop, Int32(Seconds(ask.at)), ask.date)}
  IN  plans(Resolve(tt, ask.from), Resolve(tt, ask.to))

=============================================================================
