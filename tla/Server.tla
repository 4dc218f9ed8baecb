------------------------------- MODULE Server -------------------------------
(***************************************************************************)
(* cmd/server: the process from start to exit.  main loads the timetable,  *)
(* generates the footpaths, starts a goroutine that listens, registers for *)
(* signals, waits for one and shuts the HTTP server down; meanwhile each   *)
(* connection is served by a goroutine of its own, against data that no    *)
(* longer changes.                                                         *)
(*                                                                         *)
(* net/http is modelled as far as main relies on it.  A connection is      *)
(*   new       until its first request is read,                            *)
(*   handling  while a handler runs,                                       *)
(*   writing   until the client has taken the answer,                      *)
(*   idle      between requests.                                           *)
(* Time advances in steps of five seconds.  A handler answers in much less *)
(* ("the ~14 ms query"), so no time passes while one runs.                 *)
(***************************************************************************)
EXTENDS Api, Footpaths

CONSTANTS
  Clients,
  Deployments    \* what a server may find: a timetable file and the requests of its clients, by client

SurveyOf(tt) == [stops |-> DOMAIN tt.ids, lat |-> tt.lats, lon |-> tt.lons]

ASSUME DeploymentsAssumption ==
  \A d \in Deployments :
    /\ SurveyOf(d.tt) \in Surveys
    /\ StopsNamed(d.tt)
    /\ \A c \in DOMAIN d.asks : \A ask \in d.asks[c] : IsRequest(ask)

VARIABLES
  deployment,   \* the record [tt, readable, asks] this server found
  main,         \* where main is
  listener,     \* where the goroutine of ListenAndServe is
  signalled,    \* a SIGINT or SIGTERM was sent
  grace,        \* time since main called Shutdown
  conn,         \* the connection of each client
  status        \* of the process

serverVars == <<deployment, main, listener, signalled, grace, conn, status>>

vars == <<generateVars, serverVars>>

Up == "up"
Killed == "killed"     \* by the signal
Stopped == "stopped"   \* status 0
Failed == "failed"     \* status 1

(* Timeouts, in steps of five seconds. *)
HeaderLimit == 1
WriteLimit == 6

(* Mutant: a shutdown leaves no more time than a header may take. *)
GraceShort == 1

Grace == 2

Off == [pc |-> "off", age |-> 0]

ServerInit ==
  /\ deployment \in Deployments
  /\ survey = SurveyOf(deployment.tt)
  /\ GenerateInit
  /\ main = "load"
  /\ listener = "none"
  /\ signalled = FALSE
  /\ grace = 0
  /\ conn = [c \in Clients |-> Off]
  /\ status = Up

-----------------------------------------------------------------------------
(***************************************************************************)
(* main                                                                    *)
(***************************************************************************)
LoadTimetable ==
  /\ status = Up /\ main = "load"
  /\ IF deployment.readable THEN main' = "generate" /\ UNCHANGED status
     ELSE status' = Failed /\ UNCHANGED main
  /\ UNCHANGED <<generateVars, deployment, listener, signalled, grace, conn>>

Generate ==
  /\ status = Up /\ main = "generate"
  /\ GenerateNext
  /\ UNCHANGED serverVars

(* Mutant: the server listens while the footpaths are generated. *)
SpawnEarly ==
  /\ status = Up /\ main = "generate"
  /\ main' = "notify"
  /\ listener' = "starting"
  /\ UNCHANGED <<generateVars, deployment, signalled, grace, conn, status>>

Spawn ==
  /\ status = Up /\ main = "generate" /\ step = "done"
  /\ main' = "notify"
  /\ listener' = "starting"
  /\ UNCHANGED <<generateVars, deployment, signalled, grace, conn, status>>

NotifyContext ==
  /\ status = Up /\ main = "notify"
  /\ main' = "wait"
  /\ UNCHANGED <<generateVars, deployment, listener, signalled, grace, conn, status>>

(* Mutant: main waits for the listener to end before it calls Shutdown. *)
ShutdownAfterListener ==
  /\ status = Up /\ main = "wait" /\ signalled /\ listener = "closed"
  /\ main' = "shutdown"
  /\ UNCHANGED <<generateVars, deployment, listener, signalled, grace, conn, status>>

(* Shutdown first closes the listener. *)
Shutdown ==
  /\ status = Up /\ main = "wait" /\ signalled
  /\ main' = "shutdown"
  /\ listener' = IF listener = "serving" THEN "closed" ELSE listener
  /\ UNCHANGED <<generateVars, deployment, signalled, grace, conn, status>>

ShutdownDone ==
  /\ status = Up /\ main = "shutdown"
  /\ \A c \in Clients : conn[c].pc = "off"
  /\ status' = Stopped
  /\ UNCHANGED <<generateVars, deployment, main, listener, signalled, grace, conn>>

ShutdownFails ==
  /\ status = Up /\ main = "shutdown"
  /\ grace >= Grace
  /\ \E c \in Clients : conn[c].pc # "off"
  /\ status' = Failed
  /\ UNCHANGED <<generateVars, deployment, main, listener, signalled, grace, conn>>

(* A signal ends the process unless main has registered for it. *)
Signal ==
  /\ status = Up /\ ~signalled
  /\ signalled' = TRUE
  /\ status' = IF main \in {"load", "generate", "notify"} THEN Killed ELSE Up
  /\ UNCHANGED <<generateVars, deployment, main, listener, grace, conn>>

-----------------------------------------------------------------------------
(***************************************************************************)
(* The goroutine of ListenAndServe                                         *)
(***************************************************************************)
Listen ==
  /\ status = Up /\ listener = "starting"
  /\ listener' = IF main = "shutdown" THEN "closed" ELSE "serving"
  /\ UNCHANGED <<generateVars, deployment, main, signalled, grace, conn, status>>

(* The address is taken, or accepting fails. *)
ListenFails ==
  /\ status = Up /\ listener \in {"starting", "serving"}
  /\ status' = Failed
  /\ UNCHANGED <<generateVars, deployment, main, listener, signalled, grace, conn>>

-----------------------------------------------------------------------------
(***************************************************************************)
(* The goroutine of a connection                                           *)
(***************************************************************************)
Becomes(c, state) ==
  /\ conn' = [conn EXCEPT ![c] = state]
  /\ UNCHANGED <<generateVars, deployment, main, listener, signalled, grace, status>>

Accept(c) ==
  /\ status = Up /\ listener = "serving"
  /\ c \in DOMAIN deployment.asks /\ conn[c].pc = "off"
  /\ Becomes(c, [pc |-> "new", age |-> 0])

(* Mutant: the request of one connection is taken for that of another. *)
ReadAnyRequest(c) ==
  /\ status = Up
  /\ conn[c].pc \in {"new", "idle"}
  /\ \E d \in DOMAIN deployment.asks : \E ask \in deployment.asks[d] :
       Becomes(c, [pc |-> "handling", age |-> 0, ask |-> ask])

ReadRequest(c) ==
  /\ status = Up
  /\ conn[c].pc \in {"new", "idle"}
  /\ \E ask \in deployment.asks[c] : Becomes(c, [pc |-> "handling", age |-> 0, ask |-> ask])

Handle(c) ==
  /\ status = Up
  /\ conn[c].pc = "handling"
  /\ \E reply \in Replies(deployment.tt, conn[c].ask) :
       Becomes(c, [pc |-> "writing", age |-> 0, ask |-> conn[c].ask, reply |-> reply])

(* The client has taken the answer.  A server that shuts down keeps no     *)
(* connection alive.                                                       *)
Delivered(c) ==
  /\ status = Up
  /\ conn[c].pc = "writing"
  /\ Becomes(c, IF main = "shutdown" THEN Off ELSE [pc |-> "idle", age |-> 0])

(* The client goes away; an idle connection may also reach IdleTimeout. *)
Hangup(c) ==
  /\ status = Up
  /\ conn[c].pc \in {"new", "idle", "writing"}
  /\ Becomes(c, Off)

(* Mutant: there is no WriteTimeout. *)
TimeOutHeader(c) ==
  /\ status = Up
  /\ conn[c].pc = "new" /\ conn[c].age >= HeaderLimit
  /\ Becomes(c, Off)

(* ReadHeaderTimeout and WriteTimeout. *)
TimeOut(c) ==
  /\ status = Up
  /\ \/ conn[c].pc = "new" /\ conn[c].age >= HeaderLimit
     \/ conn[c].pc = "writing" /\ conn[c].age >= WriteLimit
  /\ Becomes(c, Off)

(* Shutdown polls for idle connections, at least twice a second. *)
CloseIdle(c) ==
  /\ status = Up /\ main = "shutdown"
  /\ conn[c].pc = "idle"
  /\ Becomes(c, Off)

(* What is due happens before time goes on. *)
Due(c) ==
  \/ conn[c].pc = "handling"
  \/ conn[c].pc = "idle" /\ main = "shutdown"
  \/ conn[c].pc = "new" /\ conn[c].age >= HeaderLimit
  \/ conn[c].pc = "writing" /\ conn[c].age >= WriteLimit

Tick ==
  /\ status = Up
  /\ \A c \in Clients : ~Due(c)
  /\ main = "shutdown" => grace < Grace
  /\ grace' = IF main = "shutdown" THEN grace + 1 ELSE grace
  /\ conn' = [c \in Clients |-> IF conn[c].pc \in {"new", "writing"}
                                THEN [conn[c] EXCEPT !.age = @ + 1] ELSE conn[c]]
  /\ UNCHANGED <<generateVars, deployment, main, listener, signalled, status>>

-----------------------------------------------------------------------------
Main == LoadTimetable \/ Generate \/ Spawn \/ NotifyContext \/ Shutdown
          \/ ShutdownDone \/ ShutdownFails

Next ==
  \/ Main \/ Signal \/ Listen \/ ListenFails \/ Tick
  \/ \E c \in Clients : \/ Accept(c) \/ ReadRequest(c) \/ Handle(c)
                        \/ Delivered(c) \/ Hangup(c) \/ TimeOut(c) \/ CloseIdle(c)

Spec == ServerInit /\ [][Next]_vars

(* A handler that runs returns. *)
Returns(c) == []<>(status # Up \/ conn[c].pc # "handling")

(* The process's own goroutines run and time goes on; clients and signals  *)
(* do as they please.                                                      *)
FairSpec ==
  /\ Spec
  /\ WF_vars(Main) /\ WF_vars(Listen)
  /\ \A c \in Clients : Returns(c) /\ WF_vars(TimeOut(c)) /\ WF_vars(CloseIdle(c))
  /\ SF_vars(Tick)

=============================================================================
