------------------------- MODULE PubSubClientProofs -------------------------
(***************************************************************************)
(* Proofs about PubSubClient: the type invariant, and that a client in     *)
(* AckModeAck never returns a message twice (NoDuplicateWithinClient), for *)
(* every value of the constants.                                           *)
(***************************************************************************)
EXTENDS PubSubClient, TLAPS

-----------------------------------------------------------------------------
(* Lemmas on the elements of a sequence, for messageChan.                 *)

Elems(s) == {s[i] : i \in 1..Len(s)}
NoDup(s) == \A i, j \in 1..Len(s) : i # j => s[i] # s[j]

(* Append adds exactly its element, and keeps a sequence without         *)
(* duplicates so when the element is new.                                *)
LEMMA AppendElems ==
    ASSUME NEW S, NEW s \in Seq(S), NEW x \in S
    PROVE  /\ Elems(Append(s, x)) = Elems(s) \cup {x}
           /\ NoDup(s) /\ x \notin Elems(s) => NoDup(Append(s, x))
BY DEF Elems, NoDup

(* Tail removes exactly the head of a sequence without duplicates.       *)
LEMMA TailElems ==
    ASSUME NEW S, NEW s \in Seq(S), s # << >>, NoDup(s)
    PROVE  /\ Elems(Tail(s)) = Elems(s) \ {Head(s)}
           /\ NoDup(Tail(s))
           /\ Head(s) \in Elems(s)
BY DEF Elems, NoDup

-----------------------------------------------------------------------------
(* Type correctness.                                                       *)

(* TypeOK split into the Boolean-valued variables, which Zenon handles,   *)
(* and the rest, which needs the arithmetic and sequences of SMT.         *)
TypeBool ==
    /\ topicExists \in BOOLEAN /\ ctxDone \in BOOLEAN /\ topicStopped \in BOOLEAN
    /\ receiverOnce \in BOOLEAN /\ receiverStarted \in BOOLEAN

TypeData ==
    /\ server \in [Msgs -> ServerStates]
    /\ pub \in [Msgs -> PubStates]
    /\ client \in ClientStates
    /\ gen \in 0..MaxClients
    /\ ackMode \in AckModes
    /\ messageBuffer \in Seq(TestMsgs)
    /\ messageChan \in Seq(Msgs) /\ Len(messageChan) <= ChanCap
    /\ errorChan \in 0..ErrCap
    /\ recv \in RecvStates
    /\ cb \in [Msgs -> {"idle", "check", "send"}]
    /\ caller \in [Callers -> {"idle", "wait"}]
    /\ polls \in 0..(MaxPolls - 1)
    /\ retGen \in [Msgs -> 0..2]
    /\ retAck \in [Msgs -> 0..2]

(* The assumptions on the constants the proofs use; the Boolean         *)
(* ReceiveCanFail is left out, which keeps it away from the SMT backend.  *)
LEMMA ConstFacts ==
    /\ Msgs \cap TestMsgs = {}
    /\ AckModes \subseteq {"Ack", "Nack"} /\ AckModes # {}
    /\ ChanCap \in Nat \ {0}
    /\ ErrCap \in Nat \ {0}
    /\ MaxPolls \in Nat \ {0}
    /\ MaxClients \in Nat \ {0}
BY ClientAssumption

USE ConstFacts

LEMMA TypeSplit == TypeOK <=> TypeBool /\ TypeData
BY Zenon DEF TypeOK, TypeBool, TypeData

LEMMA InitTypeOK == Init => TypeBool /\ TypeData
<1> SUFFICES ASSUME Init PROVE TypeBool /\ TypeData
    OBVIOUS
<1>1. TypeBool
    BY Zenon DEF Init, TypeBool
<1>2. TypeData
    BY DEF Init, TypeData, ServerStates, PubStates, ClientStates, RecvStates
<1>3. QED
    BY <1>1, <1>2

(* Every action keeps every variable in its type.                         *)
LEMMA NextTypeOK == TypeBool /\ TypeData /\ [Next]_vars => TypeBool' /\ TypeData'
<1> SUFFICES ASSUME TypeBool, TypeData, [Next]_vars PROVE TypeBool' /\ TypeData'
    OBVIOUS
<1>1. CASE NewPubSubClient
    <2>1. TypeBool'
        BY <1>1, Zenon DEF NewPubSubClient, TypeBool
    <2>2. TypeData'
        <3>1. gen < MaxClients
            BY <1>1 DEF NewPubSubClient
        <3>2. CASE client' = "open" /\ gen' = gen + 1 /\ recv' = "idle"
                   /\ (\E mode \in AckModes : ackMode' = mode)
                   /\ messageBuffer' = <<>> /\ messageChan' = <<>> /\ errorChan' = 0
                   /\ polls' = 0 /\ retGen' = [mm \in Msgs |-> 0]
                   /\ UNCHANGED <<server, pub, cb, caller, retAck>>
            BY <3>1, <3>2 DEF TypeData, ClientStates, RecvStates
        <3>3. CASE UNCHANGED <<server, pub, client, gen, ackMode, messageBuffer,
                               messageChan, errorChan, recv, cb, caller, polls,
                               retGen, retAck>>
            BY <3>3 DEF TypeData
        <3>4. QED
            BY <1>1, <3>2, <3>3, Zenon DEF NewPubSubClient
    <2>3. QED
        BY <2>1, <2>2
<1>2. ASSUME NEW m \in Msgs, PublishMessage(m) PROVE TypeBool' /\ TypeData'
    <2>1. TypeBool'
        BY <1>2, Zenon DEF PublishMessage, TypeBool
    <2>2. TypeData'
        BY <1>2 DEF PublishMessage, TypeData, PubStates, ServerStates
    <2>3. QED
        BY <2>1, <2>2
<1>3. ASSUME NEW m \in Msgs, ServiceAccept(m) \/ ServiceReject(m) PROVE TypeBool' /\ TypeData'
    <2>1. TypeBool'
        BY <1>3, Zenon DEF ServiceAccept, ServiceReject, TypeBool
    <2>2. TypeData'
        BY <1>3 DEF ServiceAccept, ServiceReject, TypeData, ServerStates
    <2>3. QED
        BY <2>1, <2>2
<1>4. ASSUME NEW m \in Msgs, PublishGet(m) PROVE TypeBool' /\ TypeData'
    <2>1. TypeBool'
        BY <1>4, Zenon DEF PublishGet, TypeBool
    <2>2. TypeData'
        BY <1>4 DEF PublishGet, TypeData, PubStates
    <2>3. QED
        BY <2>1, <2>2
<1>5. ASSUME NEW m \in Msgs, Deliver(m) \/ CallbackCheck(m) \/ LeaseExpire(m) \/ LeaseMaxExtension(m)
      PROVE TypeBool' /\ TypeData'
    <2>1. TypeBool'
        BY <1>5, Zenon DEF Deliver, CallbackCheck, LeaseExpire, LeaseMaxExtension, TypeBool
    <2>2. TypeData'
        BY <1>5 DEF Deliver, CallbackCheck, LeaseExpire, LeaseMaxExtension, TypeData, ServerStates
    <2>3. QED
        BY <2>1, <2>2
<1>6. ASSUME NEW m \in Msgs, CallbackSend(m) PROVE TypeBool' /\ TypeData'
    <2>1. TypeBool'
        BY <1>6, Zenon DEF CallbackSend, TypeBool
    <2>2. TypeData'
        <3>1. CASE Len(messageChan) < ChanCap /\ messageChan' = Append(messageChan, m)
                   /\ UNCHANGED server
            BY <1>6, <3>1 DEF CallbackSend, TypeData
        <3>2. CASE UNCHANGED <<server, messageChan>>
            BY <1>6, <3>2 DEF CallbackSend, TypeData
        <3>3. CASE server' = [server EXCEPT ![m] = "avail"] /\ UNCHANGED messageChan
            BY <1>6, <3>3 DEF CallbackSend, TypeData, ServerStates
        <3>4. QED
            BY <1>6, <3>1, <3>2, <3>3, Zenon DEF CallbackSend
    <2>3. QED
        BY <2>1, <2>2
<1>7. CASE ReceiveCancelled \/ ReceiveFatal \/ ReceiveFailReturn
    <2>1. TypeBool'
        BY <1>7, Zenon DEF ReceiveCancelled, ReceiveFatal, ReceiveFailReturn, Orphaned, TypeBool
    <2>2. TypeData'
        BY <1>7 DEF ReceiveCancelled, ReceiveFatal, ReceiveFailReturn, Orphaned, TypeData, ServerStates, RecvStates
    <2>3. QED
        BY <2>1, <2>2
<1>8. CASE ReportError \/ ReceiverExit
    <2>1. TypeBool'
        BY <1>8, Zenon DEF ReportError, ReceiverExit, TypeBool
    <2>2. TypeData'
        BY <1>8 DEF ReportError, ReceiverExit, TypeData, RecvStates
    <2>3. QED
        BY <2>1, <2>2
<1>9. ASSUME NEW c \in Callers, ReceiveMessageStart(c) PROVE TypeBool' /\ TypeData'
    <2>1. TypeBool'
        BY <1>9, Zenon DEF ReceiveMessageStart, startContinuousReceiver, TypeBool
    <2>2. TypeData'
        <3>1. recv' \in RecvStates
            BY <1>9, Zenon DEF ReceiveMessageStart, startContinuousReceiver, TypeData, RecvStates
        <3>2. CASE messageBuffer' = Tail(messageBuffer) /\ messageBuffer # <<>>
                   /\ UNCHANGED caller
            BY <1>9, <3>1, <3>2 DEF ReceiveMessageStart, TypeData
        <3>3. CASE caller' = [caller EXCEPT ![c] = "wait"] /\ UNCHANGED messageBuffer
            BY <1>9, <3>1, <3>3 DEF ReceiveMessageStart, TypeData
        <3>4. QED
            BY <1>9, <3>2, <3>3, Zenon DEF ReceiveMessageStart
    <2>3. QED
        BY <2>1, <2>2
<1>10. ASSUME NEW c \in Callers, ReceiveMessageTake(c) PROVE TypeBool' /\ TypeData'
    <2>1. TypeBool'
        BY <1>10, Zenon DEF ReceiveMessageTake, Settle, Bump, TypeBool
    <2>2. TypeData'
        <3> DEFINE hd == Head(messageChan)
        <3>1. hd \in Msgs /\ Tail(messageChan) \in Seq(Msgs)
              /\ Len(Tail(messageChan)) <= ChanCap
            BY <1>10 DEF ReceiveMessageTake, TypeData
        <3>2. server' \in [Msgs -> ServerStates]
            BY <1>10, <3>1 DEF ReceiveMessageTake, Settle, TypeData, ServerStates
        <3>3. retGen' \in [Msgs -> 0..2] /\ retAck' \in [Msgs -> 0..2]
            <4>1. \A n \in 0..2 : Bump(n) \in 0..2
                BY DEF Bump
            <4>2. retGen' = [retGen EXCEPT ![hd] = Bump(@)]
                  /\ retAck' \in {retAck, [retAck EXCEPT ![hd] = Bump(@)]}
                BY <1>10 DEF ReceiveMessageTake
            <4>3. QED
                BY <3>1, <4>1, <4>2 DEF TypeData
        <3>4. /\ messageChan' = Tail(messageChan)
              /\ caller' = [caller EXCEPT ![c] = "idle"]
              /\ UNCHANGED <<pub, client, gen, ackMode, messageBuffer, errorChan,
                             recv, cb, polls>>
            BY <1>10 DEF ReceiveMessageTake
        <3>5. QED
            BY <3>1, <3>2, <3>3, <3>4 DEF TypeData
    <2>3. QED
        BY <2>1, <2>2
<1>11. ASSUME NEW c \in Callers, ReceiveMessageError(c) \/ ReceiveMessageTimeout(c) PROVE TypeBool' /\ TypeData'
    <2>1. TypeBool'
        BY <1>11, Zenon DEF ReceiveMessageError, ReceiveMessageTimeout, TypeBool
    <2>2. TypeData'
        BY <1>11 DEF ReceiveMessageError, ReceiveMessageTimeout, TypeData
    <2>3. QED
        BY <2>1, <2>2
<1>12. ASSUME NEW t \in TestMsgs, BufferMessage(t) PROVE TypeBool' /\ TypeData'
    <2>1. TypeBool'
        BY <1>12, Zenon DEF BufferMessage, TypeBool
    <2>2. TypeData'
        BY <1>12 DEF BufferMessage, TypeData
    <2>3. QED
        BY <2>1, <2>2
<1>13. CASE CloseCancel \/ CloseStopTopic \/ CloseWait
    <2>1. TypeBool'
        BY <1>13, Zenon DEF CloseCancel, CloseStopTopic, CloseWait, TypeBool
    <2>2. TypeData'
        BY <1>13 DEF CloseCancel, CloseStopTopic, CloseWait, TypeData, ClientStates
    <2>3. QED
        BY <2>1, <2>2
<1>14. CASE UNCHANGED vars
    <2>1. TypeBool'
        BY <1>14, Zenon DEF vars, TypeBool
    <2>2. TypeData'
        BY <1>14 DEF vars, TypeData
    <2>3. QED
        BY <2>1, <2>2
<1>15. QED
    BY <1>1, <1>2, <1>3, <1>4, <1>5, <1>6, <1>7, <1>8, <1>9, <1>10, <1>11, <1>12, <1>13, <1>14 DEF Next

(* The type invariant of the client model holds in every reachable state. *)
THEOREM TypeCorrect == Spec => []TypeOK
<1>1. Spec => [](TypeBool /\ TypeData)
    BY InitTypeOK, NextTypeOK, PTL DEF Spec
<1>2. QED
    BY <1>1, TypeSplit, PTL

-----------------------------------------------------------------------------
(* No duplicate within a client.                                          *)

(* No message sits twice in messageChan.                                   *)
ChanDistinct == NoDup(messageChan)

(* A queued message has no callback running, has not been returned by an  *)
(* AckModeAck client, was queued by a receiver that was started, and is   *)
(* still leased while that receiver runs and c.ctx is live.               *)
ChanInv ==
    \A q \in ChanMsgs :
        /\ cb[q] = "idle"
        /\ recv # "idle"
        /\ recv = "receiving" /\ ~ctxDone => server[q] = "out"
        /\ ackMode = "Ack" => retGen[q] = 0

(* A running callback holds the lease of its message, which is not queued *)
(* and, under AckModeAck, not yet returned; Receive has not returned.     *)
CallbackInv ==
    \A k \in Msgs :
        cb[k] # "idle" =>
            /\ server[k] = "out"
            /\ recv \in {"receiving", "failing"}
            /\ k \notin ChanMsgs
            /\ ackMode = "Ack" => retGen[k] = 0

(* Only a Receive that has not returned holds leases; the receiver runs   *)
(* only after receiverOnce fired; Close cancels c.ctx before anything else.*)
LeaseInv ==
    /\ \A l \in Msgs : server[l] = "out" => recv \in {"receiving", "failing"}
    /\ recv # "idle" => receiverOnce = TRUE
    /\ client \in {"stopping", "closing", "closed"} => ctxDone

(* A message an AckModeAck client returned was acked, or c.ctx is done,   *)
(* or the receiver has stopped pulling for good: it is not delivered to   *)
(* this client again.                                                      *)
ReturnedInv ==
    \A r \in Msgs :
        ackMode = "Ack" /\ retGen[r] >= 1 =>
            /\ retGen[r] = 1
            /\ server[r] = "acked" \/ ctxDone \/ recv \notin {"idle", "receiving"}

(* The inductive invariant behind NoDuplicateWithinClient.               *)
IInv ==
    /\ TypeBool /\ TypeData
    /\ ChanDistinct
    /\ ChanInv
    /\ CallbackInv
    /\ LeaseInv
    /\ ReturnedInv

(* The conjuncts of IInv that are not about types.                       *)
Safe == ChanDistinct /\ ChanInv /\ CallbackInv /\ LeaseInv /\ ReturnedInv

LEMMA InitIInv == Init => IInv
<1> SUFFICES ASSUME Init PROVE IInv
    OBVIOUS
<1>1. TypeBool /\ TypeData
    BY InitTypeOK
<1>2. Safe
    BY DEF Init, Safe, ChanDistinct, ChanInv, CallbackInv, LeaseInv, ReturnedInv, ChanMsgs, Elems, NoDup
<1>3. QED
    BY <1>1, <1>2 DEF IInv, Safe

(* Every action keeps IInv.                                               *)
LEMMA NextIInv == IInv /\ [Next]_vars => IInv'
<1> SUFFICES ASSUME TypeBool, TypeData, Safe, [Next]_vars PROVE IInv'
    BY DEF IInv, Safe
<1>0. TypeBool' /\ TypeData'
    BY NextTypeOK
<1>1. ASSUME NewPubSubClient PROVE Safe'
    <2>1. ChanDistinct'
        BY <1>1, AppendElems, TailElems, TypeData DEF NewPubSubClient, Safe, ChanDistinct, ChanInv, CallbackInv, LeaseInv, ReturnedInv, ChanMsgs, Elems, NoDup, TypeData
    <2>2. ChanInv'
        BY <1>1, AppendElems, TailElems, TypeData DEF NewPubSubClient, Safe, ChanDistinct, ChanInv, CallbackInv, LeaseInv, ReturnedInv, ChanMsgs, Elems, NoDup, TypeData
    <2>3. CallbackInv'
        BY <1>1, AppendElems, TailElems, TypeData DEF NewPubSubClient, Safe, ChanDistinct, ChanInv, CallbackInv, LeaseInv, ReturnedInv, ChanMsgs, Elems, NoDup, TypeData
    <2>4. LeaseInv'
        BY <1>1, AppendElems, TailElems, TypeData DEF NewPubSubClient, Safe, ChanDistinct, ChanInv, CallbackInv, LeaseInv, ReturnedInv, ChanMsgs, Elems, NoDup, TypeData
    <2>5. ReturnedInv'
        BY <1>1, AppendElems, TailElems, TypeData DEF NewPubSubClient, Safe, ChanDistinct, ChanInv, CallbackInv, LeaseInv, ReturnedInv, ChanMsgs, Elems, NoDup, TypeData
    <2>6. QED
        BY <2>1, <2>2, <2>3, <2>4, <2>5 DEF Safe
<1>2. ASSUME NEW m \in Msgs, PublishMessage(m) PROVE Safe'
    <2>1. ChanDistinct'
        BY <1>2, TypeData DEF PublishMessage, Safe, ChanDistinct, ChanInv, CallbackInv, LeaseInv, ReturnedInv, ChanMsgs, Elems, NoDup, TypeData
    <2>2. ChanInv'
        BY <1>2, TypeData DEF PublishMessage, Safe, ChanDistinct, ChanInv, CallbackInv, LeaseInv, ReturnedInv, ChanMsgs, Elems, NoDup, TypeData
    <2>3. CallbackInv'
        BY <1>2, TypeData DEF PublishMessage, Safe, ChanDistinct, ChanInv, CallbackInv, LeaseInv, ReturnedInv, ChanMsgs, Elems, NoDup, TypeData
    <2>4. LeaseInv'
        BY <1>2, TypeData DEF PublishMessage, Safe, ChanDistinct, ChanInv, CallbackInv, LeaseInv, ReturnedInv, ChanMsgs, Elems, NoDup, TypeData
    <2>5. ReturnedInv'
        BY <1>2, TypeData DEF PublishMessage, Safe, ChanDistinct, ChanInv, CallbackInv, LeaseInv, ReturnedInv, ChanMsgs, Elems, NoDup, TypeData
    <2>6. QED
        BY <2>1, <2>2, <2>3, <2>4, <2>5 DEF Safe
<1>3. ASSUME NEW m \in Msgs, ServiceAccept(m) \/ ServiceReject(m) PROVE Safe'
    <2>1. ChanDistinct'
        BY <1>3, TypeData DEF ServiceAccept, ServiceReject, Safe, ChanDistinct, ChanInv, CallbackInv, LeaseInv, ReturnedInv, ChanMsgs, Elems, NoDup, TypeData
    <2>2. ChanInv'
        BY <1>3, TypeData DEF ServiceAccept, ServiceReject, Safe, ChanDistinct, ChanInv, CallbackInv, LeaseInv, ReturnedInv, ChanMsgs, Elems, NoDup, TypeData
    <2>3. CallbackInv'
        BY <1>3, TypeData DEF ServiceAccept, ServiceReject, Safe, ChanDistinct, ChanInv, CallbackInv, LeaseInv, ReturnedInv, ChanMsgs, Elems, NoDup, TypeData
    <2>4. LeaseInv'
        BY <1>3, TypeData DEF ServiceAccept, ServiceReject, Safe, ChanDistinct, ChanInv, CallbackInv, LeaseInv, ReturnedInv, ChanMsgs, Elems, NoDup, TypeData
    <2>5. ReturnedInv'
        BY <1>3, TypeData DEF ServiceAccept, ServiceReject, Safe, ChanDistinct, ChanInv, CallbackInv, LeaseInv, ReturnedInv, ChanMsgs, Elems, NoDup, TypeData
    <2>6. QED
        BY <2>1, <2>2, <2>3, <2>4, <2>5 DEF Safe
<1>4. ASSUME NEW m \in Msgs, PublishGet(m) PROVE Safe'
    <2>1. ChanDistinct'
        BY <1>4, TypeData DEF PublishGet, Safe, ChanDistinct, ChanInv, CallbackInv, LeaseInv, ReturnedInv, ChanMsgs, Elems, NoDup, TypeData
    <2>2. ChanInv'
        BY <1>4, TypeData DEF PublishGet, Safe, ChanDistinct, ChanInv, CallbackInv, LeaseInv, ReturnedInv, ChanMsgs, Elems, NoDup, TypeData
    <2>3. CallbackInv'
        BY <1>4, TypeData DEF PublishGet, Safe, ChanDistinct, ChanInv, CallbackInv, LeaseInv, ReturnedInv, ChanMsgs, Elems, NoDup, TypeData
    <2>4. LeaseInv'
        BY <1>4, TypeData DEF PublishGet, Safe, ChanDistinct, ChanInv, CallbackInv, LeaseInv, ReturnedInv, ChanMsgs, Elems, NoDup, TypeData
    <2>5. ReturnedInv'
        BY <1>4, TypeData DEF PublishGet, Safe, ChanDistinct, ChanInv, CallbackInv, LeaseInv, ReturnedInv, ChanMsgs, Elems, NoDup, TypeData
    <2>6. QED
        BY <2>1, <2>2, <2>3, <2>4, <2>5 DEF Safe
<1>5. ASSUME NEW m \in Msgs, Deliver(m) PROVE Safe'
    <2>1. ChanDistinct'
        BY <1>5, TypeData DEF Deliver, Safe, ChanDistinct, ChanInv, CallbackInv, LeaseInv, ReturnedInv, ChanMsgs, Elems, NoDup, TypeData
    <2>2. ChanInv'
        BY <1>5, TypeData DEF Deliver, Safe, ChanDistinct, ChanInv, CallbackInv, LeaseInv, ReturnedInv, ChanMsgs, Elems, NoDup, TypeData
    <2>3. CallbackInv'
        BY <1>5, TypeData DEF Deliver, Safe, ChanDistinct, ChanInv, CallbackInv, LeaseInv, ReturnedInv, ChanMsgs, Elems, NoDup, TypeData
    <2>4. LeaseInv'
        BY <1>5, TypeData DEF Deliver, Safe, ChanDistinct, ChanInv, CallbackInv, LeaseInv, ReturnedInv, ChanMsgs, Elems, NoDup, TypeData
    <2>5. ReturnedInv'
        BY <1>5, TypeData DEF Deliver, Safe, ChanDistinct, ChanInv, CallbackInv, LeaseInv, ReturnedInv, ChanMsgs, Elems, NoDup, TypeData
    <2>6. QED
        BY <2>1, <2>2, <2>3, <2>4, <2>5 DEF Safe
<1>6. ASSUME NEW m \in Msgs, CallbackCheck(m) PROVE Safe'
    <2>1. ChanDistinct'
        BY <1>6, TypeData DEF CallbackCheck, Safe, ChanDistinct, ChanInv, CallbackInv, LeaseInv, ReturnedInv, ChanMsgs, Elems, NoDup, TypeData
    <2>2. ChanInv'
        BY <1>6, TypeData DEF CallbackCheck, Safe, ChanDistinct, ChanInv, CallbackInv, LeaseInv, ReturnedInv, ChanMsgs, Elems, NoDup, TypeData
    <2>3. CallbackInv'
        BY <1>6, TypeData DEF CallbackCheck, Safe, ChanDistinct, ChanInv, CallbackInv, LeaseInv, ReturnedInv, ChanMsgs, Elems, NoDup, TypeData
    <2>4. LeaseInv'
        BY <1>6, TypeData DEF CallbackCheck, Safe, ChanDistinct, ChanInv, CallbackInv, LeaseInv, ReturnedInv, ChanMsgs, Elems, NoDup, TypeData
    <2>5. ReturnedInv'
        BY <1>6, TypeData DEF CallbackCheck, Safe, ChanDistinct, ChanInv, CallbackInv, LeaseInv, ReturnedInv, ChanMsgs, Elems, NoDup, TypeData
    <2>6. QED
        BY <2>1, <2>2, <2>3, <2>4, <2>5 DEF Safe
<1>7. ASSUME NEW m \in Msgs, CallbackSend(m) PROVE Safe'
    <2> USE DEF Safe, ChanDistinct, ChanInv, CallbackInv, LeaseInv, ReturnedInv
    <2>1. CASE Len(messageChan) < ChanCap /\ messageChan' = Append(messageChan, m)
               /\ UNCHANGED server
        <3>1. ChanMsgs' = ChanMsgs \cup {m} /\ NoDup(messageChan')
            BY <1>7, <2>1, AppendElems DEF CallbackSend, TypeData, ChanMsgs, Elems
        <3>2. /\ cb[m] = "send" /\ cb' = [cb EXCEPT ![m] = "idle"]
              /\ server[m] = "out" /\ recv \in {"receiving", "failing"}
              /\ m \notin ChanMsgs
              /\ ackMode = "Ack" => retGen[m] = 0
              /\ UNCHANGED <<recv, ackMode, retGen, receiverOnce, ctxDone, client>>
            BY <1>7 DEF CallbackSend
        <3>3. ChanInv'
            BY <2>1, <3>1, <3>2 DEF TypeData
        <3>4. CallbackInv'
            <4> SUFFICES ASSUME NEW k \in Msgs, cb'[k] # "idle"
                         PROVE  /\ server'[k] = "out"
                                /\ recv' \in {"receiving", "failing"}
                                /\ k \notin ChanMsgs'
                                /\ ackMode' = "Ack" => retGen'[k] = 0
                OBVIOUS
            <4>1. k # m /\ cb[k] = cb'[k]
                BY <3>2 DEF TypeData
            <4>2. QED
                BY <2>1, <3>1, <3>2, <4>1
        <3>5. QED
            BY <2>1, <3>1, <3>2, <3>3, <3>4
    <2>2. CASE UNCHANGED <<server, messageChan>>
        BY <1>7, <2>2 DEF CallbackSend, ChanMsgs
    <2>3. CASE server' = [server EXCEPT ![m] = "avail"] /\ UNCHANGED messageChan
        BY <1>7, <2>3 DEF CallbackSend, ChanMsgs, TypeData
    <2>4. QED
        BY <1>7, <2>1, <2>2, <2>3, Zenon DEF CallbackSend
<1>8. ASSUME NEW m \in Msgs, LeaseExpire(m) \/ LeaseMaxExtension(m) PROVE Safe'
    <2>1. ChanDistinct'
        BY <1>8, TypeData DEF LeaseExpire, LeaseMaxExtension, Safe, ChanDistinct, ChanInv, CallbackInv, LeaseInv, ReturnedInv, ChanMsgs, Elems, NoDup, TypeData
    <2>2. ChanInv'
        BY <1>8, TypeData DEF LeaseExpire, LeaseMaxExtension, Safe, ChanDistinct, ChanInv, CallbackInv, LeaseInv, ReturnedInv, ChanMsgs, Elems, NoDup, TypeData
    <2>3. CallbackInv'
        BY <1>8, TypeData DEF LeaseExpire, LeaseMaxExtension, Safe, ChanDistinct, ChanInv, CallbackInv, LeaseInv, ReturnedInv, ChanMsgs, Elems, NoDup, TypeData
    <2>4. LeaseInv'
        BY <1>8, TypeData DEF LeaseExpire, LeaseMaxExtension, Safe, ChanDistinct, ChanInv, CallbackInv, LeaseInv, ReturnedInv, ChanMsgs, Elems, NoDup, TypeData
    <2>5. ReturnedInv'
        BY <1>8, TypeData DEF LeaseExpire, LeaseMaxExtension, Safe, ChanDistinct, ChanInv, CallbackInv, LeaseInv, ReturnedInv, ChanMsgs, Elems, NoDup, TypeData
    <2>6. QED
        BY <2>1, <2>2, <2>3, <2>4, <2>5 DEF Safe
<1>9. ASSUME ReceiveCancelled \/ ReceiveFatal \/ ReceiveFailReturn PROVE Safe'
    <2>1. ChanDistinct'
        BY <1>9, TypeData DEF ReceiveCancelled, ReceiveFatal, ReceiveFailReturn, Orphaned, Safe, ChanDistinct, ChanInv, CallbackInv, LeaseInv, ReturnedInv, ChanMsgs, Elems, NoDup, TypeData
    <2>2. ChanInv'
        BY <1>9, TypeData DEF ReceiveCancelled, ReceiveFatal, ReceiveFailReturn, Orphaned, Safe, ChanDistinct, ChanInv, CallbackInv, LeaseInv, ReturnedInv, ChanMsgs, Elems, NoDup, TypeData
    <2>3. CallbackInv'
        BY <1>9, TypeData DEF ReceiveCancelled, ReceiveFatal, ReceiveFailReturn, Orphaned, Safe, ChanDistinct, ChanInv, CallbackInv, LeaseInv, ReturnedInv, ChanMsgs, Elems, NoDup, TypeData
    <2>4. LeaseInv'
        BY <1>9, TypeData DEF ReceiveCancelled, ReceiveFatal, ReceiveFailReturn, Orphaned, Safe, ChanDistinct, ChanInv, CallbackInv, LeaseInv, ReturnedInv, ChanMsgs, Elems, NoDup, TypeData
    <2>5. ReturnedInv'
        BY <1>9, TypeData DEF ReceiveCancelled, ReceiveFatal, ReceiveFailReturn, Orphaned, Safe, ChanDistinct, ChanInv, CallbackInv, LeaseInv, ReturnedInv, ChanMsgs, Elems, NoDup, TypeData
    <2>6. QED
        BY <2>1, <2>2, <2>3, <2>4, <2>5 DEF Safe
<1>10. ASSUME ReportError \/ ReceiverExit PROVE Safe'
    <2>1. ChanDistinct'
        BY <1>10, TypeData DEF ReportError, ReceiverExit, Safe, ChanDistinct, ChanInv, CallbackInv, LeaseInv, ReturnedInv, ChanMsgs, Elems, NoDup, TypeData
    <2>2. ChanInv'
        BY <1>10, TypeData DEF ReportError, ReceiverExit, Safe, ChanDistinct, ChanInv, CallbackInv, LeaseInv, ReturnedInv, ChanMsgs, Elems, NoDup, TypeData
    <2>3. CallbackInv'
        BY <1>10, TypeData DEF ReportError, ReceiverExit, Safe, ChanDistinct, ChanInv, CallbackInv, LeaseInv, ReturnedInv, ChanMsgs, Elems, NoDup, TypeData
    <2>4. LeaseInv'
        BY <1>10, TypeData DEF ReportError, ReceiverExit, Safe, ChanDistinct, ChanInv, CallbackInv, LeaseInv, ReturnedInv, ChanMsgs, Elems, NoDup, TypeData
    <2>5. ReturnedInv'
        BY <1>10, TypeData DEF ReportError, ReceiverExit, Safe, ChanDistinct, ChanInv, CallbackInv, LeaseInv, ReturnedInv, ChanMsgs, Elems, NoDup, TypeData
    <2>6. QED
        BY <2>1, <2>2, <2>3, <2>4, <2>5 DEF Safe
<1>11. ASSUME NEW c \in Callers, ReceiveMessageStart(c) PROVE Safe'
    <2>1. ChanDistinct'
        BY <1>11, TypeData DEF ReceiveMessageStart, startContinuousReceiver, Safe, ChanDistinct, ChanInv, CallbackInv, LeaseInv, ReturnedInv, ChanMsgs, Elems, NoDup, TypeData
    <2>2. ChanInv'
        BY <1>11, TypeData DEF ReceiveMessageStart, startContinuousReceiver, Safe, ChanDistinct, ChanInv, CallbackInv, LeaseInv, ReturnedInv, ChanMsgs, Elems, NoDup, TypeData
    <2>3. CallbackInv'
        BY <1>11, TypeData DEF ReceiveMessageStart, startContinuousReceiver, Safe, ChanDistinct, ChanInv, CallbackInv, LeaseInv, ReturnedInv, ChanMsgs, Elems, NoDup, TypeData
    <2>4. LeaseInv'
        BY <1>11, TypeData DEF ReceiveMessageStart, startContinuousReceiver, Safe, ChanDistinct, ChanInv, CallbackInv, LeaseInv, ReturnedInv, ChanMsgs, Elems, NoDup, TypeData
    <2>5. ReturnedInv'
        BY <1>11, TypeData DEF ReceiveMessageStart, startContinuousReceiver, Safe, ChanDistinct, ChanInv, CallbackInv, LeaseInv, ReturnedInv, ChanMsgs, Elems, NoDup, TypeData
    <2>6. QED
        BY <2>1, <2>2, <2>3, <2>4, <2>5 DEF Safe
<1>12. ASSUME NEW c \in Callers, ReceiveMessageTake(c) PROVE Safe'
    <2>1. ChanDistinct'
        BY <1>12, AppendElems, TailElems, TypeData DEF ReceiveMessageTake, Settle, Bump, Safe, ChanDistinct, ChanInv, CallbackInv, LeaseInv, ReturnedInv, ChanMsgs, Elems, NoDup, TypeData
    <2>2. ChanInv'
        BY <1>12, AppendElems, TailElems, TypeData DEF ReceiveMessageTake, Settle, Bump, Safe, ChanDistinct, ChanInv, CallbackInv, LeaseInv, ReturnedInv, ChanMsgs, Elems, NoDup, TypeData
    <2>3. CallbackInv'
        BY <1>12, AppendElems, TailElems, TypeData DEF ReceiveMessageTake, Settle, Bump, Safe, ChanDistinct, ChanInv, CallbackInv, LeaseInv, ReturnedInv, ChanMsgs, Elems, NoDup, TypeData
    <2>4. LeaseInv'
        BY <1>12, AppendElems, TailElems, TypeData DEF ReceiveMessageTake, Settle, Bump, Safe, ChanDistinct, ChanInv, CallbackInv, LeaseInv, ReturnedInv, ChanMsgs, Elems, NoDup, TypeData
    <2>5. ReturnedInv'
        BY <1>12, AppendElems, TailElems, TypeData DEF ReceiveMessageTake, Settle, Bump, Safe, ChanDistinct, ChanInv, CallbackInv, LeaseInv, ReturnedInv, ChanMsgs, Elems, NoDup, TypeData
    <2>6. QED
        BY <2>1, <2>2, <2>3, <2>4, <2>5 DEF Safe
<1>13. ASSUME NEW c \in Callers, ReceiveMessageError(c) \/ ReceiveMessageTimeout(c) PROVE Safe'
    <2>1. ChanDistinct'
        BY <1>13, TypeData DEF ReceiveMessageError, ReceiveMessageTimeout, Safe, ChanDistinct, ChanInv, CallbackInv, LeaseInv, ReturnedInv, ChanMsgs, Elems, NoDup, TypeData
    <2>2. ChanInv'
        BY <1>13, TypeData DEF ReceiveMessageError, ReceiveMessageTimeout, Safe, ChanDistinct, ChanInv, CallbackInv, LeaseInv, ReturnedInv, ChanMsgs, Elems, NoDup, TypeData
    <2>3. CallbackInv'
        BY <1>13, TypeData DEF ReceiveMessageError, ReceiveMessageTimeout, Safe, ChanDistinct, ChanInv, CallbackInv, LeaseInv, ReturnedInv, ChanMsgs, Elems, NoDup, TypeData
    <2>4. LeaseInv'
        BY <1>13, TypeData DEF ReceiveMessageError, ReceiveMessageTimeout, Safe, ChanDistinct, ChanInv, CallbackInv, LeaseInv, ReturnedInv, ChanMsgs, Elems, NoDup, TypeData
    <2>5. ReturnedInv'
        BY <1>13, TypeData DEF ReceiveMessageError, ReceiveMessageTimeout, Safe, ChanDistinct, ChanInv, CallbackInv, LeaseInv, ReturnedInv, ChanMsgs, Elems, NoDup, TypeData
    <2>6. QED
        BY <2>1, <2>2, <2>3, <2>4, <2>5 DEF Safe
<1>14. ASSUME NEW t \in TestMsgs, BufferMessage(t) PROVE Safe'
    <2>1. ChanDistinct'
        BY <1>14, TypeData DEF BufferMessage, Safe, ChanDistinct, ChanInv, CallbackInv, LeaseInv, ReturnedInv, ChanMsgs, Elems, NoDup, TypeData
    <2>2. ChanInv'
        BY <1>14, TypeData DEF BufferMessage, Safe, ChanDistinct, ChanInv, CallbackInv, LeaseInv, ReturnedInv, ChanMsgs, Elems, NoDup, TypeData
    <2>3. CallbackInv'
        BY <1>14, TypeData DEF BufferMessage, Safe, ChanDistinct, ChanInv, CallbackInv, LeaseInv, ReturnedInv, ChanMsgs, Elems, NoDup, TypeData
    <2>4. LeaseInv'
        BY <1>14, TypeData DEF BufferMessage, Safe, ChanDistinct, ChanInv, CallbackInv, LeaseInv, ReturnedInv, ChanMsgs, Elems, NoDup, TypeData
    <2>5. ReturnedInv'
        BY <1>14, TypeData DEF BufferMessage, Safe, ChanDistinct, ChanInv, CallbackInv, LeaseInv, ReturnedInv, ChanMsgs, Elems, NoDup, TypeData
    <2>6. QED
        BY <2>1, <2>2, <2>3, <2>4, <2>5 DEF Safe
<1>15. ASSUME CloseCancel \/ CloseStopTopic \/ CloseWait PROVE Safe'
    <2>1. ChanDistinct'
        BY <1>15, TypeData DEF CloseCancel, CloseStopTopic, CloseWait, Safe, ChanDistinct, ChanInv, CallbackInv, LeaseInv, ReturnedInv, ChanMsgs, Elems, NoDup, TypeData
    <2>2. ChanInv'
        BY <1>15, TypeData DEF CloseCancel, CloseStopTopic, CloseWait, Safe, ChanDistinct, ChanInv, CallbackInv, LeaseInv, ReturnedInv, ChanMsgs, Elems, NoDup, TypeData
    <2>3. CallbackInv'
        BY <1>15, TypeData DEF CloseCancel, CloseStopTopic, CloseWait, Safe, ChanDistinct, ChanInv, CallbackInv, LeaseInv, ReturnedInv, ChanMsgs, Elems, NoDup, TypeData
    <2>4. LeaseInv'
        BY <1>15, TypeData DEF CloseCancel, CloseStopTopic, CloseWait, Safe, ChanDistinct, ChanInv, CallbackInv, LeaseInv, ReturnedInv, ChanMsgs, Elems, NoDup, TypeData
    <2>5. ReturnedInv'
        BY <1>15, TypeData DEF CloseCancel, CloseStopTopic, CloseWait, Safe, ChanDistinct, ChanInv, CallbackInv, LeaseInv, ReturnedInv, ChanMsgs, Elems, NoDup, TypeData
    <2>6. QED
        BY <2>1, <2>2, <2>3, <2>4, <2>5 DEF Safe
<1>16. ASSUME UNCHANGED vars PROVE Safe'
    <2>1. ChanDistinct'
        BY <1>16, TypeData DEF vars, Safe, ChanDistinct, ChanInv, CallbackInv, LeaseInv, ReturnedInv, ChanMsgs, Elems, NoDup, TypeData
    <2>2. ChanInv'
        BY <1>16, TypeData DEF vars, Safe, ChanDistinct, ChanInv, CallbackInv, LeaseInv, ReturnedInv, ChanMsgs, Elems, NoDup, TypeData
    <2>3. CallbackInv'
        BY <1>16, TypeData DEF vars, Safe, ChanDistinct, ChanInv, CallbackInv, LeaseInv, ReturnedInv, ChanMsgs, Elems, NoDup, TypeData
    <2>4. LeaseInv'
        BY <1>16, TypeData DEF vars, Safe, ChanDistinct, ChanInv, CallbackInv, LeaseInv, ReturnedInv, ChanMsgs, Elems, NoDup, TypeData
    <2>5. ReturnedInv'
        BY <1>16, TypeData DEF vars, Safe, ChanDistinct, ChanInv, CallbackInv, LeaseInv, ReturnedInv, ChanMsgs, Elems, NoDup, TypeData
    <2>6. QED
        BY <2>1, <2>2, <2>3, <2>4, <2>5 DEF Safe
<1>17. Safe'
    BY <1>1, <1>2, <1>3, <1>4, <1>5, <1>6, <1>7, <1>8, <1>9, <1>10, <1>11, <1>12, <1>13, <1>14, <1>15, <1>16 DEF Next
<1>18. QED
    BY <1>0, <1>17 DEF IInv, Safe

(* NoDuplicateWithinClient follows from the returned and queued messages *)
(* of IInv.                                                               *)
LEMMA IInvNoDuplicate == IInv => NoDuplicateWithinClient
<1> SUFFICES ASSUME ReturnedInv, TypeData PROVE NoDuplicateWithinClient
    BY DEF IInv
<1> QED
    BY DEF ReturnedInv, TypeData, NoDuplicateWithinClient

(* A client created with AckModeAck returns each message from            *)
(* ReceiveMessage at most once: the Ack of client.go:247 and receiverOnce *)
(* of client.go:172 keep a second Receive of the same client from being  *)
(* handed the message again.                                              *)
THEOREM NoDuplicate == Spec => []NoDuplicateWithinClient
BY InitIInv, NextIInv, IInvNoDuplicate, PTL DEF Spec

-----------------------------------------------------------------------------
(* No stranded lease.                                                      *)

(* Every step keeps NoStrandedLease, given IInv: a lease is granted       *)
(* together with a running callback, the callback ends it by queueing or  *)
(* nacking unless c.ctx is done, and ReceiveMessage settles what it takes.*)
LEMMA NextNoStranded ==
    IInv /\ NoStrandedLease /\ [Next]_vars => NoStrandedLease'
<1> SUFFICES ASSUME TypeBool, TypeData, Safe, NoStrandedLease, [Next]_vars
             PROVE NoStrandedLease'
    BY DEF IInv, Safe
<1>1. ASSUME NewPubSubClient PROVE NoStrandedLease'
    <2>1. CASE recv' = "idle" /\ UNCHANGED server
        BY <1>1, <2>1 DEF NewPubSubClient, Safe, LeaseInv, NoStrandedLease
    <2>2. CASE UNCHANGED <<server, ctxDone, cb, messageChan, recv>>
        BY <2>2 DEF NoStrandedLease, ChanMsgs
    <2>3. QED
        BY <1>1, <2>1, <2>2, Zenon DEF NewPubSubClient
<1>2. ASSUME NEW m \in Msgs,
             PublishMessage(m) \/ ServiceAccept(m) \/ ServiceReject(m) \/ PublishGet(m)
      PROVE NoStrandedLease'
    <2>1. /\ UNCHANGED <<ctxDone, cb, messageChan, recv>>
          /\ \A l \in Msgs : server'[l] = "out" => server[l] = "out"
        BY <1>2 DEF PublishMessage, ServiceAccept, ServiceReject, PublishGet, TypeData
    <2>2. QED
        BY <2>1 DEF NoStrandedLease, ChanMsgs
<1>3. ASSUME NEW x \in Msgs,
             Deliver(x) \/ CallbackCheck(x) \/ LeaseExpire(x) \/ LeaseMaxExtension(x)
      PROVE NoStrandedLease'
    <2>1. CASE Deliver(x)
        BY <2>1 DEF Deliver, TypeData, NoStrandedLease, ChanMsgs
    <2>2. CASE CallbackCheck(x)
        BY <2>2 DEF CallbackCheck, CallbackCtxDone, TypeData, NoStrandedLease, ChanMsgs
    <2>3. CASE LeaseExpire(x)
        BY <2>3 DEF LeaseExpire, TypeData, NoStrandedLease, ChanMsgs
    <2>4. CASE LeaseMaxExtension(x)
        BY <2>4 DEF LeaseMaxExtension, NoStrandedLease
    <2>5. QED
        BY <1>3, <2>1, <2>2, <2>3, <2>4
<1>4. ASSUME NEW m \in Msgs, CallbackSend(m) PROVE NoStrandedLease'
    <2>1. CASE Len(messageChan) < ChanCap /\ messageChan' = Append(messageChan, m)
               /\ UNCHANGED server
        <3>1. ChanMsgs' = ChanMsgs \cup {m}
            BY <1>4, <2>1, AppendElems DEF CallbackSend, TypeData, ChanMsgs, Elems
        <3>2. QED
            BY <1>4, <2>1, <3>1 DEF CallbackSend, TypeData, NoStrandedLease
    <2>2. CASE UNCHANGED <<server, messageChan>> /\ CallbackCtxDone
        BY <1>4, <2>2 DEF CallbackSend, CallbackCtxDone, NoStrandedLease
    <2>3. CASE server' = [server EXCEPT ![m] = "avail"] /\ UNCHANGED messageChan
        BY <1>4, <2>3 DEF CallbackSend, TypeData, NoStrandedLease, ChanMsgs
    <2>4. QED
        BY <1>4, <2>1, <2>2, <2>3, Zenon DEF CallbackSend
<1>5. ASSUME ReceiveCancelled \/ ReceiveFatal \/ ReceiveFailReturn PROVE NoStrandedLease'
    <2>1. CASE ReceiveCancelled
        BY <2>1, Zenon DEF ReceiveCancelled, NoStrandedLease
    <2>2. CASE ReceiveFatal \/ ReceiveFailReturn
        BY <2>2, Zenon DEF ReceiveFatal, ReceiveFailReturn, NoStrandedLease
    <2>3. QED
        BY <1>5, <2>1, <2>2
<1>6. ASSUME ReportError \/ ReceiverExit PROVE NoStrandedLease'
    BY <1>6 DEF ReportError, ReceiverExit, NoStrandedLease, ChanMsgs
<1>7. ASSUME NEW c \in Callers, ReceiveMessageStart(c) PROVE NoStrandedLease'
    <2>1. UNCHANGED <<server, ctxDone, cb, messageChan>>
        BY <1>7 DEF ReceiveMessageStart
    <2>2. recv' = recv \/ ~receiverOnce
        BY <1>7, Zenon DEF ReceiveMessageStart, startContinuousReceiver
    <2>3. ~receiverOnce => \A l \in Msgs : server[l] # "out"
        BY DEF Safe, LeaseInv
    <2>4. QED
        BY <2>1, <2>2, <2>3 DEF NoStrandedLease, ChanMsgs
<1>8. ASSUME NEW c \in Callers, ReceiveMessageTake(c) PROVE NoStrandedLease'
    <2> DEFINE hd == Head(messageChan)
    <2>1. /\ messageChan # << >>
          /\ messageChan' = Tail(messageChan)
          /\ server' = IF server[hd] = "out" /\ recv = "receiving" /\ client # "closed"
                         THEN [server EXCEPT ![hd] = IF ackMode = "Ack" THEN "acked" ELSE "avail"]
                         ELSE server
          /\ UNCHANGED <<cb, ctxDone, recv, client>>
        BY <1>8 DEF ReceiveMessageTake, Settle
    <2>2. ChanMsgs' = ChanMsgs \ {hd} /\ hd \in Msgs
        <3>1. messageChan \in Seq(Msgs) /\ NoDup(messageChan)
            BY DEF TypeData, Safe, ChanDistinct
        <3>2. Elems(Tail(messageChan)) = Elems(messageChan) \ {hd} /\ hd \in Elems(messageChan)
            BY <2>1, <3>1, TailElems
        <3>3. ChanMsgs = Elems(messageChan) /\ ChanMsgs' = Elems(Tail(messageChan))
            BY <2>1 DEF ChanMsgs, Elems
        <3>4. hd \in Msgs
            BY <2>1, <3>1
        <3>5. QED
            BY <3>2, <3>3, <3>4
    <2>3. client = "closed" => ctxDone
        BY DEF Safe, LeaseInv
    <2>4. QED
        BY <2>1, <2>2, <2>3 DEF TypeData, NoStrandedLease
<1>9. ASSUME NEW c \in Callers, ReceiveMessageError(c) \/ ReceiveMessageTimeout(c)
      PROVE NoStrandedLease'
    BY <1>9 DEF ReceiveMessageError, ReceiveMessageTimeout, NoStrandedLease, ChanMsgs
<1>10. ASSUME NEW t \in TestMsgs, BufferMessage(t) PROVE NoStrandedLease'
    BY <1>10 DEF BufferMessage, NoStrandedLease, ChanMsgs
<1>11. ASSUME CloseCancel \/ CloseStopTopic \/ CloseWait PROVE NoStrandedLease'
    BY <1>11 DEF CloseCancel, CloseStopTopic, CloseWait, NoStrandedLease, ChanMsgs
<1>12. ASSUME UNCHANGED vars PROVE NoStrandedLease'
    BY <1>12 DEF vars, NoStrandedLease, ChanMsgs
<1>13. QED
    BY <1>1, <1>2, <1>3, <1>4, <1>5, <1>6, <1>7, <1>8, <1>9, <1>10, <1>11, <1>12 DEF Next

(* While Receive runs and c.ctx is live, every message leased to it is in *)
(* a callback or queued in messageChan: the full-channel path of the      *)
(* callback (client.go:204-206) never keeps a lease nobody settles, and   *)
(* ReceiveMessage settles what it takes (client.go:246-250).              *)
THEOREM NoStranded == Spec => []NoStrandedLease
<1>1. Init => NoStrandedLease
    BY DEF Init, NoStrandedLease
<1>2. Spec => [](IInv /\ NoStrandedLease)
    BY <1>1, InitIInv, NextIInv, NextNoStranded, PTL DEF Spec
<1>3. QED
    BY <1>2, PTL

=============================================================================
