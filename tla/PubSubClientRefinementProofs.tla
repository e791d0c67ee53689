--------------------- MODULE PubSubClientRefinementProofs ---------------------
(***************************************************************************)
(* Proof that the client model implements the Subscription promise under  *)
(* the mapping AbsSt / retAck of PubSubClientRefinement, for every value  *)
(* of the constants.                                                      *)
(***************************************************************************)
EXTENDS PubSubClientRefinement, PubSubClientProofs

(* Where a message can be while it waits or before it was ever stored:    *)
(* a queued message is still leased, orphaned or available at the service *)
(* (it is settled only when taken), and a message the service has not    *)
(* stored was never returned.                                             *)
RefInv ==
    /\ \A q \in ChanMsgs : server[q] \in {"out", "orphan", "avail"}
    /\ \A u \in Msgs : server[u] \in {"none", "sent"} => retAck[u] = 0

(* The steps that touch neither the service, the history nor the channel. *)
Quiet ==
    \/ \E x \in Msgs : PublishGet(x) \/ CallbackCheck(x)
    \/ ReceiveFatal \/ ReportError \/ ReceiverExit
    \/ \E c \in Callers : \/ ReceiveMessageStart(c) \/ ReceiveMessageError(c)
                          \/ ReceiveMessageTimeout(c)
    \/ \E t \in TestMsgs : BufferMessage(t)
    \/ CloseCancel \/ CloseStopTopic \/ CloseWait

LEMMA QuietUnchanged == Quiet => UNCHANGED <<server, retAck, messageChan>>
BY DEF Quiet, PublishGet, CallbackCheck, ReceiveFatal, ReportError, ReceiverExit,
       ReceiveMessageStart, ReceiveMessageError, ReceiveMessageTimeout,
       BufferMessage, CloseCancel, CloseStopTopic, CloseWait

LEMMA NextSplit ==
    [Next]_vars =>
        \/ Quiet \/ NewPubSubClient \/ ReceiveCancelled \/ ReceiveFailReturn
        \/ \E x \in Msgs : \/ PublishMessage(x) \/ ServiceAccept(x)
                           \/ ServiceReject(x) \/ Deliver(x)
                           \/ CallbackSend(x) \/ LeaseExpire(x)
                           \/ LeaseMaxExtension(x)
        \/ \E c \in Callers : ReceiveMessageTake(c)
        \/ UNCHANGED vars
BY DEF Next, Quiet

LEMMA InitRefInv == Init => RefInv
BY DEF Init, RefInv, ChanMsgs

LEMMA NextRefInv == IInv /\ RefInv /\ [Next]_vars => RefInv'
<1> SUFFICES ASSUME TypeBool, TypeData, Safe, RefInv, [Next]_vars
             PROVE RefInv'
    BY DEF IInv, Safe
<1>1. ASSUME Quiet PROVE RefInv'
    BY <1>1, QuietUnchanged DEF RefInv, ChanMsgs
<1>2. ASSUME NewPubSubClient PROVE RefInv'
    BY <1>2 DEF NewPubSubClient, RefInv, ChanMsgs
<1>3. ASSUME ReceiveCancelled \/ ReceiveFailReturn PROVE RefInv'
    BY <1>3 DEF ReceiveCancelled, ReceiveFailReturn, Orphaned, TypeData, RefInv, ChanMsgs
<1>4. ASSUME NEW x \in Msgs,
             PublishMessage(x) \/ ServiceAccept(x) \/ ServiceReject(x)
               \/ Deliver(x) \/ LeaseExpire(x) \/ LeaseMaxExtension(x)
      PROVE RefInv'
    <2>1. CASE PublishMessage(x)
        BY <2>1 DEF PublishMessage, TypeData, RefInv, ChanMsgs
    <2>2. CASE ServiceAccept(x) \/ ServiceReject(x)
        BY <2>2 DEF ServiceAccept, ServiceReject, TypeData, RefInv, ChanMsgs
    <2>3. CASE Deliver(x) \/ LeaseExpire(x)
        BY <2>3 DEF Deliver, LeaseExpire, TypeData, RefInv, ChanMsgs
    <2>4. CASE LeaseMaxExtension(x)
        <3>1. server' = [server EXCEPT ![x] = "avail"] /\ UNCHANGED <<messageChan, retAck>>
            BY <2>4 DEF LeaseMaxExtension
        <3>2. QED
            BY <3>1 DEF TypeData, RefInv, ChanMsgs
    <2>5. QED
        BY <1>4, <2>1, <2>2, <2>3, <2>4
<1>5. ASSUME NEW x \in Msgs, CallbackSend(x) PROVE RefInv'
    <2>1. server[x] = "out"
        BY <1>5 DEF CallbackSend, Safe, CallbackInv
    <2>2. CASE Len(messageChan) < ChanCap /\ messageChan' = Append(messageChan, x)
               /\ UNCHANGED server
        <3>1. ChanMsgs' = ChanMsgs \cup {x}
            BY <2>2, AppendElems DEF TypeData, ChanMsgs, Elems
        <3>2. QED
            BY <1>5, <2>1, <2>2, <3>1 DEF CallbackSend, RefInv
    <2>3. CASE UNCHANGED <<server, messageChan>>
        BY <1>5, <2>3 DEF CallbackSend, RefInv, ChanMsgs
    <2>4. CASE server' = [server EXCEPT ![x] = "avail"] /\ UNCHANGED messageChan
        BY <1>5, <2>4 DEF CallbackSend, TypeData, RefInv, ChanMsgs
    <2>5. QED
        BY <1>5, <2>2, <2>3, <2>4, Zenon DEF CallbackSend
<1>6. ASSUME NEW c \in Callers, ReceiveMessageTake(c) PROVE RefInv'
    <2> DEFINE hd == Head(messageChan)
    <2>1. /\ messageChan # << >>
          /\ messageChan' = Tail(messageChan)
          /\ server' = IF server[hd] = "out" /\ recv = "receiving" /\ client # "closed"
                         THEN [server EXCEPT ![hd] = IF ackMode = "Ack" THEN "acked" ELSE "avail"]
                         ELSE server
          /\ retAck' = IF ackMode = "Ack" THEN [retAck EXCEPT ![hd] = Bump(retAck[hd])]
                                          ELSE retAck
        BY <1>6 DEF ReceiveMessageTake, Settle
    <2>2. ChanMsgs' = ChanMsgs \ {hd} /\ hd \in ChanMsgs /\ hd \in Msgs
        <3>1. messageChan \in Seq(Msgs) /\ NoDup(messageChan)
            BY DEF TypeData, Safe, ChanDistinct
        <3>2. Elems(Tail(messageChan)) = Elems(messageChan) \ {hd} /\ hd \in Elems(messageChan)
            BY <2>1, <3>1, TailElems
        <3>3. ChanMsgs = Elems(messageChan) /\ ChanMsgs' = Elems(Tail(messageChan))
            BY <2>1 DEF ChanMsgs, Elems
        <3>4. hd \in Msgs
            BY <2>1, <3>1
        <3>5. QED
            BY <3>2, <3>3, <3>4
    <2>3. server[hd] \in {"out", "orphan", "avail"}
        BY <2>2 DEF RefInv
    <2>4. QED
        BY <2>1, <2>2, <2>3 DEF TypeData, RefInv
<1>7. ASSUME UNCHANGED vars PROVE RefInv'
    BY <1>7 DEF vars, RefInv, ChanMsgs
<1>8. QED
    BY <1>1, <1>2, <1>3, <1>4, <1>5, <1>6, <1>7, NextSplit

(* Every step of the client is a Subscription step or leaves the promise's *)
(* state alone: publishing is Publish, a rejection is Reject, an           *)
(* AckModeAck take is Return, and everything else (leases, expiry, Nack)   *)
(* keeps the message pending.                                             *)
LEMMA RefStep == IInv /\ RefInv /\ [Next]_vars => [Sub!Next]_Sub!vars
<1> SUFFICES ASSUME TypeBool, TypeData, Safe, RefInv, [Next]_vars
             PROVE [Sub!Next]_Sub!vars
    BY DEF IInv, Safe
<1> DEFINE Stutter == AbsSt' = AbsSt /\ retAck' = retAck
<1>0. Stutter => [Sub!Next]_Sub!vars
    BY DEF Sub!vars
<1>1. ASSUME Quiet \/ NewPubSubClient PROVE [Sub!Next]_Sub!vars
    <2>1. UNCHANGED <<server, retAck>>
        BY <1>1, QuietUnchanged DEF NewPubSubClient
    <2>2. QED
        BY <1>0, <2>1 DEF AbsSt
<1>2. ASSUME ReceiveCancelled \/ ReceiveFailReturn PROVE [Sub!Next]_Sub!vars
    <2>1. Stutter
        BY <1>2 DEF ReceiveCancelled, ReceiveFailReturn, Orphaned, TypeData, AbsSt
    <2>2. QED
        BY <1>0, <2>1
<1>3. ASSUME NEW x \in Msgs,
             ServiceAccept(x) \/ Deliver(x) \/ CallbackSend(x) \/ LeaseExpire(x)
               \/ LeaseMaxExtension(x)
      PROVE [Sub!Next]_Sub!vars
    <2>1. CASE ServiceAccept(x) \/ Deliver(x) \/ LeaseExpire(x) \/ LeaseMaxExtension(x)
        <3>1. Stutter
            BY <2>1 DEF ServiceAccept, Deliver, LeaseExpire, LeaseMaxExtension, TypeData, AbsSt
        <3>2. QED
            BY <1>0, <3>1
    <2>2. CASE CallbackSend(x)
        <3>1. UNCHANGED retAck /\ (UNCHANGED server \/ server' = [server EXCEPT ![x] = "avail"])
            BY <2>2 DEF CallbackSend
        <3>2. server[x] = "out"
            BY <2>2 DEF CallbackSend, Safe, CallbackInv
        <3>3. Stutter
            BY <3>1, <3>2 DEF TypeData, AbsSt
        <3>4. QED
            BY <1>0, <3>3
    <2>3. QED
        BY <1>3, <2>1, <2>2
<1>4. ASSUME NEW x \in Msgs, PublishMessage(x) PROVE [Sub!Next]_Sub!vars
    <2>1. CASE topicStopped
        BY <1>0, <1>4, <2>1 DEF PublishMessage, AbsSt
    <2>2. CASE ~topicStopped
        <3>1. Sub!Publish(x)
            BY <1>4, <2>2 DEF PublishMessage, TypeData, AbsSt, Sub!Publish
        <3>2. QED
            BY <3>1 DEF Sub!Next
    <2>3. QED
        BY <2>1, <2>2
<1>5. ASSUME NEW x \in Msgs, ServiceReject(x) PROVE [Sub!Next]_Sub!vars
    <2>1. Sub!Reject(x)
        BY <1>5 DEF ServiceReject, TypeData, RefInv, AbsSt, Sub!Reject
    <2>2. QED
        BY <2>1 DEF Sub!Next
<1>6. ASSUME NEW c \in Callers, ReceiveMessageTake(c) PROVE [Sub!Next]_Sub!vars
    <2> DEFINE hd == Head(messageChan)
    <2>1. /\ messageChan # << >>
          /\ server' = IF server[hd] = "out" /\ recv = "receiving" /\ client # "closed"
                         THEN [server EXCEPT ![hd] = IF ackMode = "Ack" THEN "acked" ELSE "avail"]
                         ELSE server
          /\ retAck' = IF ackMode = "Ack" THEN [retAck EXCEPT ![hd] = Bump(retAck[hd])]
                                          ELSE retAck
        BY <1>6 DEF ReceiveMessageTake, Settle
    <2>2. hd \in Msgs /\ server[hd] \in {"out", "orphan", "avail"}
        BY <2>1 DEF TypeData, RefInv, ChanMsgs
    <2>3. CASE ackMode = "Ack"
        <3>1. Sub!Return(hd)
            BY <2>1, <2>2, <2>3 DEF TypeData, AbsSt, Bump, Sub!Return, Sub!Incr
        <3>2. QED
            BY <2>2, <3>1 DEF Sub!Next
    <2>4. CASE ackMode # "Ack"
        <3>1. Stutter
            BY <2>1, <2>2, <2>4 DEF TypeData, AbsSt
        <3>2. QED
            BY <1>0, <3>1
    <2>5. QED
        BY <2>3, <2>4
<1>7. ASSUME UNCHANGED vars PROVE [Sub!Next]_Sub!vars
    BY <1>0, <1>7 DEF vars, AbsSt
<1>8. QED
    BY <1>1, <1>2, <1>3, <1>4, <1>5, <1>6, <1>7, NextSplit

(* The client implements the Subscription promise: the service records    *)
(* an ack only for a message ReceiveMessage returned under AckModeAck     *)
(* (client.go:246-248), a rejected message was never returned, and no     *)
(* message is returned after its ack was recorded.                        *)
THEOREM Refinement == Spec => SubscriptionRefined
<1>1. Init => Sub!Init
    BY DEF Init, Sub!Init, AbsSt
<1>2. Spec => [](IInv /\ RefInv)
    BY InitIInv, NextIInv, InitRefInv, NextRefInv, PTL DEF Spec
<1>3. QED
    BY <1>1, <1>2, RefStep, PTL DEF Spec, SubscriptionRefined, Sub!Spec

=============================================================================
