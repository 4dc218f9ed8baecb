---------------------------- MODULE RaptorRepeat ----------------------------
(***************************************************************************)
(* One engine answers the same query twice, as the server does for a       *)
(* client that asks again (internal/api/server.go, handleRoute): the       *)
(* second call allocates its arrays anew and shares only the immutable     *)
(* network with the first.                                                 *)
(***************************************************************************)
EXTENDS Raptor

VARIABLES
  calls,   \* 1 while the first call runs, then 2
  first    \* the journeys the first call returned

repeatVars == <<vars, calls, first>>

InitRepeat == Init /\ calls = 1 /\ first = <<>>

Call == Next /\ UNCHANGED <<calls, first>>

AskAgain ==
  /\ pc = "done" /\ calls = 1
  /\ calls' = 2
  /\ first' = journeys
  /\ pc' = "seed" /\ k' = 0
  /\ tau' = [s \in Stops |-> Infinity] /\ tauPrev' = tau' /\ tauBest' = tau'
  /\ parents' = [r \in 0..MaxRounds |-> [s \in Stops |-> NoParent(input)]]
  /\ marked' = {} /\ improvedTarget' = FALSE /\ bestTargetArrival' = Infinity
  /\ journeys' = <<>>
  /\ UNCHANGED <<input, queue, scan, todo, trace>>

SpecRepeat == InitRepeat /\ [][Call \/ AskAgain]_repeatVars

(* api/server_test.go:310: repeated identical queries must produce         *)
(* identical bodies.                                                       *)
Repeatable == pc = "done" /\ calls = 2 => journeys = first

=============================================================================
