------------------------------- MODULE Service ------------------------------
(***************************************************************************)
(* What a client of the HTTP API may expect: a request that is accepted is *)
(* answered once, with a right answer to that very request, or lost with   *)
(* its connection.  What other clients ask meanwhile makes no difference.  *)
(***************************************************************************)
CONSTANTS
  Clients,
  Right(_, _)      \* whether a reply is a right answer to a request

VARIABLE dialogue

Silent == [state |-> "silent"]

Asked(ask) == [state |-> "asked", ask |-> ask]

Answered(ask, reply) == [state |-> "answered", ask |-> ask, reply |-> reply]

Init == dialogue = [c \in Clients |-> Silent]

Accept(c) ==
  /\ dialogue[c] = Silent
  /\ dialogue'[c].state = "asked"
  /\ dialogue' = [dialogue EXCEPT ![c] = Asked(dialogue'[c].ask)]

Answer(c) ==
  /\ dialogue[c].state = "asked"
  /\ dialogue'[c].state = "answered"
  /\ Right(dialogue[c].ask, dialogue'[c].reply)
  /\ dialogue' = [dialogue EXCEPT ![c] = Answered(@.ask, dialogue'[c].reply)]

(* The answer was read, or the connection was lost. *)
End(c) ==
  /\ dialogue[c] # Silent
  /\ dialogue' = [dialogue EXCEPT ![c] = Silent]

Next == \E c \in Clients : Accept(c) \/ Answer(c) \/ End(c)

Spec == Init /\ [][Next]_dialogue

=============================================================================
