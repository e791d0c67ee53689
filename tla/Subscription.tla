---------------------------- MODULE Subscription ----------------------------
(***************************************************************************)
(* What the Pub/Sub client promises about one topic and its subscription, *)
(* seen from the service and from the callers of ReceiveMessage:          *)
(*   - a published message is stored (pending) or rejected;               *)
(*   - a pending message may be returned to a caller, and only a return   *)
(*     can make the service record its ack (AckModeAck, client.go:38);    *)
(*   - a rejected or acked message is never returned.                     *)
(* returned[m] counts the returns under AckModeAck; like the client's     *)
(* history counter it saturates at 2.                                     *)
(***************************************************************************)
EXTENDS Naturals

CONSTANT Msgs

VARIABLES st, returned

vars == <<st, returned>>

MsgStates == {"none", "pending", "rejected", "acked"}

Incr(n) == IF n < 2 THEN n + 1 ELSE 2

TypeOK ==
    /\ st \in [Msgs -> MsgStates]
    /\ returned \in [Msgs -> 0..2]

Init ==
    /\ st = [m \in Msgs |-> "none"]
    /\ returned = [m \in Msgs |-> 0]

Publish(m) ==
    /\ st[m] = "none"
    /\ st' = [st EXCEPT ![m] = "pending"]
    /\ UNCHANGED returned

Reject(m) ==
    /\ st[m] = "pending"
    /\ returned[m] = 0
    /\ st' = [st EXCEPT ![m] = "rejected"]
    /\ UNCHANGED returned

(* A return under AckModeAck: the ack is recorded, or lost and the message *)
(* stays pending (to be returned again).                                  *)
Return(m) ==
    /\ st[m] = "pending"
    /\ returned' = [returned EXCEPT ![m] = Incr(@)]
    /\ \E s \in {"pending", "acked"} : st' = [st EXCEPT ![m] = s]

Next == \E m \in Msgs : Publish(m) \/ Reject(m) \/ Return(m)

Spec == Init /\ [][Next]_vars

=============================================================================
