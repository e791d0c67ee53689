------------------------ MODULE PubSubClientRefinement ------------------------
(***************************************************************************)
(* The client model implements the Subscription promise.  The service's   *)
(* view of a message is collapsed to the abstract one: stored, leased,    *)
(* orphaned or queued are all "pending"; the returns the promise counts   *)
(* are the client's history retAck.                                       *)
(***************************************************************************)
EXTENDS PubSubClient

(* The abstract state of m: sent, available, leased and orphaned are all   *)
(* pending at the service.                                                *)
AbsSt == [m \in Msgs |->
            IF server[m] \in {"none", "rejected", "acked"} THEN server[m]
                                                          ELSE "pending"]

Sub == INSTANCE Subscription WITH st <- AbsSt, returned <- retAck

(* Every behaviour of the client is a behaviour of the Subscription: the  *)
(* service records an ack only when ReceiveMessage returns the message    *)
(* under AckModeAck (client.go:246-248), never for a Nack or a message the *)
(* client dropped, and a message is returned only while it is pending.    *)
SubscriptionRefined == Sub!Spec

=============================================================================
