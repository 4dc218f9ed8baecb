----------------------------- MODULE ParetoQuery ----------------------------
(***************************************************************************)
(* What raptor.Engine.Query promises, without rounds that skip patterns,   *)
(* without pruning and without parents: for each number of transfers in    *)
(* increasing order, the earliest arrival at the target, as long as it     *)
(* improves on what fewer transfers achieve.                               *)
(***************************************************************************)
EXTENDS Network, FiniteSetsExt

CONSTANT Inputs

VARIABLES input, round, answer, returned

vars == <<input, round, answer, returned>>

(***************************************************************************)
(* The textbook recurrence.  Earliest(in)[k][s] is the earliest arrival at *)
(* s with at most k rides, where each ride may be followed by one walk.    *)
(***************************************************************************)
OnFoot(in, at) ==
  [t \in Stops |->
     Min({at[t]} \cup {at[s] + in.foot[<<s, t>>] :
                       s \in {u \in Stops : Foot(in, u, t) /\ at[u] < Infinity}})]

ByRide(in, ready) ==
  LET boarded(p, i) == IF ready[p.stops[i]] < Infinity
                       THEN Catchable(p, i, ready[p.stops[i]]) ELSE {}
      rides(p, t) ==
        UNION {{Arrival(p, r, j) : r \in UNION {boarded(p, i) : i \in 1..(j - 1)}} :
               j \in {j \in DOMAIN p.stops : p.stops[j] = t}}
  IN  [t \in Stops |->
         Min({Infinity} \cup UNION {rides(in.patterns[pi], t) : pi \in DOMAIN in.patterns})]

Earliest(in) ==
  LET start == [s \in Stops |-> IF s = in.source THEN in.depTime ELSE Infinity]
      label[n \in 0..MaxRounds] ==
        IF n = 0 THEN OnFoot(in, start)
        ELSE LET prev == label[n - 1]
                 next == OnFoot(in, ByRide(in, prev))
             IN  [s \in Stops |-> Min({prev[s], next[s]})]
  IN  label

Best(n) == Earliest(input)[n][input.target]

Init ==
  /\ input \in Inputs
  /\ round = 0
  /\ answer = <<>>
  /\ returned = FALSE

Round ==
  /\ ~returned
  /\ round < MaxRounds
  /\ round' = round + 1
  /\ answer' = IF Best(round + 1) < Best(round)
               THEN Append(answer, [transfers |-> round, arrival |-> Best(round + 1)])
               ELSE answer
  /\ UNCHANGED <<input, returned>>

Return ==
  /\ ~returned
  /\ \A n \in round..MaxRounds : Best(n) = Best(round)
  /\ returned' = TRUE
  /\ UNCHANGED <<input, round, answer>>

Next == Round \/ Return

Spec == Init /\ [][Next]_vars

=============================================================================
