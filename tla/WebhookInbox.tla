---------------------------- MODULE WebhookInbox ----------------------------
(***************************************************************************)
(* What the webhook queue promises for every accepted push, without jobs,  *)
(* leases, workers or crashes: it is remembered from the moment it is      *)
(* stored, its effect happens at most once and is final, and giving up on  *)
(* it is visible and can be undone only by an operator's replay.           *)
(***************************************************************************)
CONSTANT Keys

VARIABLE state      \* what has become of each push

States == {"absent", "pending", "done", "dead"}

InboxInit == state = [k \in Keys |-> "absent"]

(* Every push of S, all in state "from", moves to state "to".              *)
Move(S, from, to) ==
    /\ \A k \in S : state[k] = from
    /\ state' = [k \in Keys |-> IF k \in S THEN to ELSE state[k]]

Accept(k) == Move({k}, "absent", "pending")
Process(k) == Move({k}, "pending", "done")
Abandon(S) == Move(S, "pending", "dead")
Replay(S) == Move(S, "dead", "pending")

InboxNext ==
    \/ \E k \in Keys : Accept(k) \/ Process(k)
    \/ \E S \in SUBSET Keys : Abandon(S) \/ Replay(S)

InboxSpec == InboxInit /\ [][InboxNext]_state
=============================================================================
