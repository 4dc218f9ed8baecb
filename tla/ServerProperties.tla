-------------------------- MODULE ServerProperties --------------------------
(***************************************************************************)
(* What must hold of the server process and of what its clients are told.  *)
(***************************************************************************)
EXTENDS Server, ApiMeaning

MainPc == {"load", "generate", "notify", "wait", "shutdown"}

(* Every variable holds a value of its type, and no timer runs past the    *)
(* timeout that ends what it times.                                        *)
TypeOK ==
  /\ deployment \in Deployments
  /\ main \in MainPc
  /\ listener \in {"none", "starting", "serving", "closed"}
  /\ signalled \in BOOLEAN
  /\ grace \in 0..Grace
  /\ status \in {Up, Killed, Stopped, Failed}
  /\ DOMAIN conn = Clients
  /\ \A c \in Clients :
       \/ conn[c] = Off
       \/ conn[c] \in [pc : {"new"}, age : 0..HeaderLimit]
       \/ conn[c] \in [pc : {"idle"}, age : {0}]
       \/ conn[c] \in [pc : {"handling"}, age : {0}, ask : deployment.asks[c]]
       \/ /\ conn[c].pc = "writing"
          /\ conn[c] \in [pc : {"writing"}, age : 0..WriteLimit, ask : deployment.asks[c],
                           reply : {conn[c].reply}]

InFlight(c) == conn[c].pc \in {"handling", "writing"}

(* The server only listens once it has a timetable and every footpath of   *)
(* it, so that a client that gets an answer of any kind, and a 200 of      *)
(* /healthz in particular, talks to one that can answer queries            *)
(* (main.go:113).                                                          *)
ServesWhenReady ==
  \A c \in Clients : conn[c].pc # "off" =>
    /\ deployment.readable
    /\ step = "done"
    /\ paths = SetToBag(AllPairs(SurveyOf(deployment.tt)))

(* When a shutdown runs out of its ten seconds, only calls whose client    *)
(* has been taking its answer for five seconds or more are cut off: the    *)
(* other timeouts leave every call enough of the ten (main.go:75, 101).    *)
OnlySlowReadersCut ==
  [][status = Up /\ status' # Up /\ main = "shutdown" =>
       \A c \in Clients : InFlight(c) => conn[c].pc = "writing" /\ conn[c].age >= Grace - HeaderLimit]_vars

(* A signal ends the process, whatever it is doing and whatever clients    *)
(* do.                                                                     *)
SignalEndsServer == signalled ~> status # Up

(* No client can hold a call open for ever (main.go:75).                   *)
CallsEnd == \A c \in Clients : InFlight(c) ~> ~InFlight(c) \/ status # Up

-----------------------------------------------------------------------------
(* A question is a request and the timetable it is asked of. *)
Question(tt, ask) == [tt |-> tt, ask |-> ask]

RightToQuestion(q, reply) == RightAnswer(q.tt, q.ask, reply)

DialogueOf(c) ==
  CASE conn[c].pc = "handling" ->
         [state |-> "asked", ask |-> Question(deployment.tt, conn[c].ask)]
    [] conn[c].pc = "writing" ->
         [state |-> "answered", ask |-> Question(deployment.tt, conn[c].ask), reply |-> conn[c].reply]
    [] OTHER -> [state |-> "silent"]

Dialogues == INSTANCE Service WITH
  Right    <- RightToQuestion,
  dialogue <- [c \in Clients |-> DialogueOf(c)]

(* Every accepted request is answered once, with a right answer to that    *)
(* request, or lost with its connection: the stop meant and no other, the  *)
(* best matches in order, clock times a client can read back as long as    *)
(* they fit an int32, and the status the documentation of handleRoute      *)
(* gives, 500 only where there are journeys to find.                       *)
RepliesRight == Dialogues!Spec

(* cmd/route and the API, asked the same of one timetable with the same    *)
(* footpaths, have the same answers to give: each refuses where the other  *)
(* does, and where they find journeys the stops and the times read alike,  *)
(* although each checks its parameters and writes its clocks in its own    *)
(* code (cmd/route/main.go:33-42, 97-104).                                 *)
PlannerAgrees ==
  \A c \in Clients :
    conn[c].pc = "writing" /\ conn[c].ask.kind = "route" =>
      SamePlan(deployment.tt, conn[c].ask, conn[c].reply)

=============================================================================
