---------------------------- MODULE PubSubClient ----------------------------
(***************************************************************************)
(* The Pub/Sub client of pubsub/client.go: NewPubSubClient, PublishMessage,*)
(* ReceiveMessage with its lazily started receiver goroutine and the       *)
(* callbacks the library runs for every delivered message, BufferMessage   *)
(* and Close.  The Pub/Sub service and the library around the callback    *)
(* are the environment: they accept or reject publishes, lease messages to *)
(* the running Receive, honour Ack/Nack only while that Receive runs, and  *)
(* let the leases of a stopped Receive expire so the messages come back.   *)
(*                                                                         *)
(* Atomicity: a mutex-protected section, a channel operation or a select   *)
(* is one step; a callback and the receiver goroutine are separate actors  *)
(* from the goroutines (Callers) that call ReceiveMessage.                 *)
(***************************************************************************)
EXTENDS Naturals, Sequences

CONSTANTS
    Msgs,           \* messages published through PublishMessage
    TestMsgs,       \* messages handed to BufferMessage
    Callers,        \* goroutines calling ReceiveMessage
    AckModes,       \* the Config.AckMode values clients are created with
    ChanCap,        \* capacity of messageChan (100 in the code)
    ErrCap,         \* capacity of errorChan (10 in the code)
    MaxPolls,       \* iterations of the wait loop in Close (100 in the code)
    MaxClients,     \* bound: number of clients created by NewPubSubClient
    ReceiveCanFail  \* whether the service may end Receive with an error

ASSUME ClientAssumption ==
    /\ Msgs \cap TestMsgs = {}
    /\ Callers # {}
    /\ AckModes \subseteq {"Ack", "Nack"} /\ AckModes # {}
    /\ ChanCap \in Nat \ {0}
    /\ ErrCap \in Nat \ {0}
    /\ MaxPolls \in Nat \ {0}
    /\ MaxClients \in Nat \ {0}
    /\ ReceiveCanFail \in BOOLEAN

VARIABLES
    topicExists,     \* the topic exists on the service
    server,          \* service-side state of each message
    pub,             \* state of the PublishMessage call of each message
    client,          \* lifecycle of the current PubSubClient
    gen,             \* number of clients created so far
    ackMode,         \* c.ackMode of the current client
    ctxDone,         \* c.ctx has been cancelled
    topicStopped,    \* c.topic.Stop() has run
    messageBuffer,   \* c.messageBuffer
    messageChan,     \* c.messageChan
    errorChan,       \* number of errors queued in c.errorChan
    receiverOnce,    \* c.receiverOnce has run its function
    receiverStarted, \* c.receiverStarted
    recv,            \* control point of the receiver goroutine
    cb,              \* control point of the callback running for a message
    caller,          \* control point of each ReceiveMessage caller
    polls,           \* iterations done by the wait loop of Close
    retGen,          \* times ReceiveMessage of this client returned a message
    retAck           \* times an AckModeAck client returned a message

vars == <<topicExists, server, pub, client, gen, ackMode, ctxDone,
          topicStopped, messageBuffer, messageChan, errorChan, receiverOnce,
          receiverStarted, recv, cb, caller, polls, retGen, retAck>>

(* "out": leased to the running Receive; "orphan": leased to a Receive     *)
(* that has returned, so nobody extends the lease any more.               *)
ServerStates == {"none", "sent", "avail", "out", "orphan", "acked", "rejected"}
PubStates == {"none", "wait", "waitTimeout", "ok", "err"}
ClientStates == {"none", "open", "stopping", "closing", "closed"}
RecvStates == {"idle", "receiving", "failing", "reporting", "exiting", "exited"}

ChanMsgs == {messageChan[i] : i \in 1..Len(messageChan)}
BufMsgs == {messageBuffer[i] : i \in 1..Len(messageBuffer)}

\* A counter of returns that saturates at 2: the properties only tell 0, 1 and "more".
Bump(n) == IF n < 2 THEN n + 1 ELSE 2

TypeOK ==
    /\ topicExists \in BOOLEAN
    /\ server \in [Msgs -> ServerStates]
    /\ pub \in [Msgs -> PubStates]
    /\ client \in ClientStates
    /\ gen \in 0..MaxClients
    /\ ackMode \in AckModes
    /\ ctxDone \in BOOLEAN /\ topicStopped \in BOOLEAN
    /\ messageBuffer \in Seq(TestMsgs)
    /\ messageChan \in Seq(Msgs) /\ Len(messageChan) <= ChanCap
    /\ errorChan \in 0..ErrCap
    /\ receiverOnce \in BOOLEAN /\ receiverStarted \in BOOLEAN
    /\ recv \in RecvStates
    /\ cb \in [Msgs -> {"idle", "check", "send"}]
    /\ caller \in [Callers -> {"idle", "wait"}]
    /\ polls \in 0..(MaxPolls - 1)
    /\ retGen \in [Msgs -> 0..2]
    /\ retAck \in [Msgs -> 0..2]

Init ==
    /\ topicExists = FALSE
    /\ server = [m \in Msgs |-> "none"]
    /\ pub = [m \in Msgs |-> "none"]
    /\ client = "none"
    /\ gen = 0
    /\ ackMode \in AckModes
    /\ ctxDone = FALSE /\ topicStopped = FALSE
    /\ messageBuffer = <<>> /\ messageChan = <<>> /\ errorChan = 0
    /\ receiverOnce = FALSE /\ receiverStarted = FALSE
    /\ recv = "idle"
    /\ cb = [m \in Msgs |-> "idle"]
    /\ caller = [c \in Callers |-> "idle"]
    /\ polls = 0
    /\ retGen = [m \in Msgs |-> 0]
    /\ retAck = [m \in Msgs |-> 0]

-----------------------------------------------------------------------------
(* NewPubSubClient: create the topic and the subscription when they do not *)
(* exist, then a client with a fresh context, empty channels and an unused *)
(* receiverOnce.  A new client is created once the previous one is closed  *)
(* and its goroutines are gone.  Every error return only cancels the new   *)
(* context; the one that leaves a trace is a subscription step failing     *)
(* after the topic was created.                                            *)
NewPubSubClient ==
    /\ client \in {"none", "closed"}
    /\ gen < MaxClients
    /\ recv \in {"idle", "exited"}
    /\ \A m \in Msgs : cb[m] = "idle"
    /\ \A c \in Callers : caller[c] = "idle"
    /\ \A m \in Msgs : pub[m] \notin {"wait", "waitTimeout"}
    /\ \/ /\ topicExists' = TRUE
          /\ client' = "open"
          /\ gen' = gen + 1
          /\ \E mode \in AckModes : ackMode' = mode
          /\ ctxDone' = FALSE /\ topicStopped' = FALSE
          /\ messageBuffer' = <<>> /\ messageChan' = <<>> /\ errorChan' = 0
          /\ receiverOnce' = FALSE /\ receiverStarted' = FALSE
          /\ recv' = "idle"
          /\ polls' = 0
          /\ retGen' = [m \in Msgs |-> 0]
          /\ UNCHANGED <<server, pub, cb, caller, retAck>>
       \/ /\ ~topicExists
          /\ topicExists' = TRUE
          /\ UNCHANGED <<server, pub, client, gen, ackMode, ctxDone,
                         topicStopped, messageBuffer, messageChan, errorChan,
                         receiverOnce, receiverStarted, recv, cb, caller,
                         polls, retGen, retAck>>

-----------------------------------------------------------------------------
(* PublishMessage(m, timeout): topic.Publish hands m to the library. On a  *)
(* stopped topic the result is an error at once.  timeout > 0 derives a    *)
(* deadline from c.ctx; otherwise the call waits on c.ctx itself.          *)
PublishMessage(m) ==
    /\ client # "none"
    /\ pub[m] = "none" /\ server[m] = "none"
    /\ IF topicStopped
         THEN /\ pub' = [pub EXCEPT ![m] = "err"]
              /\ UNCHANGED server
         ELSE /\ server' = [server EXCEPT ![m] = "sent"]
              /\ \E p \in {"wait", "waitTimeout"} : pub' = [pub EXCEPT ![m] = p]
    /\ UNCHANGED <<topicExists, client, gen, ackMode, ctxDone,
                   topicStopped, messageBuffer, messageChan, errorChan,
                   receiverOnce, receiverStarted, recv, cb, caller, polls,
                   retGen, retAck>>

(* The service stores a sent message for the subscription, or rejects it. *)
(* This can happen after the caller's result.Get has given up.            *)
ServiceAccept(m) ==
    /\ server[m] = "sent"
    /\ server' = [server EXCEPT ![m] = "avail"]
    /\ UNCHANGED <<topicExists, pub, client, gen, ackMode, ctxDone,
                   topicStopped, messageBuffer, messageChan, errorChan,
                   receiverOnce, receiverStarted, recv, cb, caller, polls,
                   retGen, retAck>>

ServiceReject(m) ==
    /\ server[m] = "sent"
    /\ server' = [server EXCEPT ![m] = "rejected"]
    /\ UNCHANGED <<topicExists, pub, client, gen, ackMode, ctxDone,
                   topicStopped, messageBuffer, messageChan, errorChan,
                   receiverOnce, receiverStarted, recv, cb, caller, polls,
                   retGen, retAck>>

(* result.Get(ctx): the id once the service stored m; an error when it     *)
(* rejected m, or when ctx is done (the deadline, or Close cancelled c.ctx)*)
(* whether or not the service will still store m.                         *)
PublishGet(m) ==
    /\ pub[m] \in {"wait", "waitTimeout"}
    /\ \/ /\ server[m] \in {"avail", "out", "orphan", "acked"}
          /\ pub' = [pub EXCEPT ![m] = "ok"]
       \/ /\ server[m] = "rejected"
          /\ pub' = [pub EXCEPT ![m] = "err"]
       \/ /\ pub[m] = "waitTimeout" \/ ctxDone
          /\ pub' = [pub EXCEPT ![m] = "err"]
    /\ UNCHANGED <<topicExists, server, client, gen, ackMode, ctxDone,
                   topicStopped, messageBuffer, messageChan, errorChan,
                   receiverOnce, receiverStarted, recv, cb, caller, polls,
                   retGen, retAck>>

-----------------------------------------------------------------------------
(* The receiver goroutine and the callbacks Receive runs.                  *)

(* Receive leases an available message to this subscriber and runs the    *)
(* callback of client.go:184 for it; the library stops pulling once c.ctx *)
(* is cancelled.                                                           *)
Deliver(m) ==
    /\ recv = "receiving" /\ ~ctxDone
    /\ server[m] = "avail" /\ cb[m] = "idle"
    /\ server' = [server EXCEPT ![m] = "out"]
    /\ cb' = [cb EXCEPT ![m] = "check"]
    /\ UNCHANGED <<topicExists, pub, client, gen, ackMode, ctxDone,
                   topicStopped, messageBuffer, messageChan, errorChan,
                   receiverOnce, receiverStarted, recv, caller, polls,
                   retGen, retAck>>

(* The ctx Receive passes to the callback (client.go:184) is done when    *)
(* c.ctx is cancelled, and also when the service ended Receive with a     *)
(* fatal error: Receive cancels it and waits for the callbacks to return. *)
CallbackCtxDone == ctxDone \/ recv = "failing"

(* Mutant: the first select returns while c.ctx is live (inverted test). *)
CallbackCheckInverted(m) ==
    /\ cb[m] = "check"
    /\ cb' = [cb EXCEPT ![m] = IF CallbackCtxDone THEN "send" ELSE "idle"]
    /\ UNCHANGED <<topicExists, server, pub, client, gen, ackMode,
                   ctxDone, topicStopped, messageBuffer, messageChan, errorChan,
                   receiverOnce, receiverStarted, recv, caller, polls,
                   retGen, retAck>>

(* First select of the callback: return at once if c.ctx or the          *)
(* callback's ctx is done, without Ack or Nack.                           *)
CallbackCheck(m) ==
    /\ cb[m] = "check"
    /\ cb' = [cb EXCEPT ![m] = IF CallbackCtxDone THEN "idle" ELSE "send"]
    /\ UNCHANGED <<topicExists, server, pub, client, gen, ackMode,
                   ctxDone, topicStopped, messageBuffer, messageChan, errorChan,
                   receiverOnce, receiverStarted, recv, caller, polls,
                   retGen, retAck>>

(* Mutant: the full-channel path drops m without the Nack.               *)
CallbackSendNoNack(m) ==
    /\ cb[m] = "send"
    /\ cb' = [cb EXCEPT ![m] = "idle"]
    /\ \/ /\ Len(messageChan) < ChanCap
          /\ messageChan' = Append(messageChan, m)
       \/ /\ CallbackCtxDone \/ Len(messageChan) = ChanCap
          /\ UNCHANGED messageChan
    /\ UNCHANGED <<topicExists, server, pub, client, gen, ackMode, ctxDone,
                   topicStopped, messageBuffer, errorChan, receiverOnce,
                   receiverStarted, recv, caller, polls, retGen, retAck>>

(* Second select: queue m, or return without Ack or Nack if a context is  *)
(* done (either case when both are ready), or, when neither is ready,     *)
(* Nack m: "Channel is full, drop the message and nack it".  The Nack     *)
(* hands m back to the service: Receive runs and no context is done.     *)
CallbackSend(m) ==
    /\ cb[m] = "send"
    /\ cb' = [cb EXCEPT ![m] = "idle"]
    /\ \/ /\ Len(messageChan) < ChanCap
          /\ messageChan' = Append(messageChan, m)
          /\ UNCHANGED server
       \/ /\ CallbackCtxDone
          /\ UNCHANGED <<server, messageChan>>
       \/ /\ Len(messageChan) = ChanCap /\ ~CallbackCtxDone
          /\ server' = [server EXCEPT ![m] = "avail"]
          /\ UNCHANGED messageChan
    /\ UNCHANGED <<topicExists, pub, client, gen, ackMode, ctxDone,
                   topicStopped, messageBuffer, errorChan, receiverOnce,
                   receiverStarted, recv, caller, polls, retGen, retAck>>

(* The leases of a Receive that returns are no longer extended.           *)
Orphaned == [m \in Msgs |-> IF server[m] = "out" THEN "orphan" ELSE server[m]]

(* With c.ctx cancelled, Receive returns nil "after all of the outstanding *)
(* calls to f have returned and all messages have been acknowledged or    *)
(* have expired": no callback runs and it holds no lease any more.        *)
ReceiveCancelled ==
    /\ recv = "receiving" /\ ctxDone
    /\ \A m \in Msgs : cb[m] = "idle" /\ server[m] # "out"
    /\ recv' = "exiting"
    /\ UNCHANGED <<topicExists, server, pub, client, gen, ackMode, ctxDone,
                   topicStopped, messageBuffer, messageChan, errorChan,
                   receiverOnce, receiverStarted, cb, caller, polls,
                   retGen, retAck>>

(* The service ends Receive with a non-retryable error: Receive cancels   *)
(* the callbacks' ctx and stops pulling and acking.                       *)
ReceiveFatal ==
    /\ ReceiveCanFail
    /\ recv = "receiving"
    /\ recv' = "failing"
    /\ UNCHANGED <<topicExists, server, pub, client, gen, ackMode, ctxDone,
                   topicStopped, messageBuffer, messageChan, errorChan,
                   receiverOnce, receiverStarted, cb, caller, polls,
                   retGen, retAck>>

(* Receive returns that error after all outstanding callbacks returned;   *)
(* its leases are no longer extended.                                     *)
ReceiveFailReturn ==
    /\ recv = "failing"
    /\ \A m \in Msgs : cb[m] = "idle"
    /\ recv' = "reporting"
    /\ server' = Orphaned
    /\ UNCHANGED <<topicExists, pub, client, gen, ackMode, ctxDone,
                   topicStopped, messageBuffer, messageChan, errorChan,
                   receiverOnce, receiverStarted, cb, caller, polls,
                   retGen, retAck>>

(* The error goes to errorChan unless c.ctx is done; with both cases ready *)
(* select picks either; the default drops it when errorChan is full.       *)
ReportError ==
    /\ recv = "reporting"
    /\ \/ /\ errorChan < ErrCap
          /\ errorChan' = errorChan + 1
       \/ /\ ctxDone \/ errorChan = ErrCap
          /\ UNCHANGED errorChan
    /\ recv' = "exiting"
    /\ UNCHANGED <<topicExists, server, pub, client, gen, ackMode,
                   ctxDone, topicStopped, messageBuffer, messageChan,
                   receiverOnce, receiverStarted, cb, caller, polls,
                   retGen, retAck>>

(* Mutant: the deferred function does not clear receiverStarted.        *)
ReceiverExitNoReset ==
    /\ recv = "exiting"
    /\ recv' = "exited"
    /\ UNCHANGED <<topicExists, server, pub, client, gen, ackMode,
                   ctxDone, topicStopped, messageBuffer, messageChan, errorChan,
                   receiverOnce, receiverStarted, cb, caller, polls, retGen, retAck>>

(* The deferred function of the goroutine clears receiverStarted.         *)
ReceiverExit ==
    /\ recv = "exiting"
    /\ recv' = "exited"
    /\ receiverStarted' = FALSE
    /\ UNCHANGED <<topicExists, server, pub, client, gen, ackMode,
                   ctxDone, topicStopped, messageBuffer, messageChan, errorChan,
                   receiverOnce, cb, caller, polls, retGen, retAck>>

(* The service lets the lease of a message nobody extends expire, and the *)
(* message becomes available for delivery again.                          *)
LeaseExpire(m) ==
    /\ server[m] = "orphan"
    /\ server' = [server EXCEPT ![m] = "avail"]
    /\ UNCHANGED <<topicExists, pub, client, gen, ackMode, ctxDone,
                   topicStopped, messageBuffer, messageChan, errorChan,
                   receiverOnce, receiverStarted, recv, cb, caller, polls,
                   retGen, retAck>>

(* The library extends a lease for at most MaxExtension (60 min by       *)
(* default; the code does not set it).  A cancelled Receive waits for     *)
(* the leases nobody settles to reach it, and they expire.  That is long  *)
(* after Close's wait of at most 1 s gave up and client.Close() ran.      *)
(* While c.ctx is live the model assumes every queued message is taken    *)
(* well within MaxExtension.                                              *)
LeaseMaxExtension(m) ==
    /\ recv = "receiving" /\ ctxDone /\ client = "closed"
    /\ server[m] = "out" /\ cb[m] = "idle"
    /\ server' = [server EXCEPT ![m] = "avail"]
    /\ UNCHANGED <<topicExists, pub, client, gen, ackMode, ctxDone,
                   topicStopped, messageBuffer, messageChan, errorChan,
                   receiverOnce, receiverStarted, recv, cb, caller, polls,
                   retGen, retAck>>

-----------------------------------------------------------------------------
(* ReceiveMessage(timeout), in two steps.                                  *)

(* Mutant: the receiver is restarted whenever it is not running, a        *)
(* receiverStarted test in place of receiverOnce.                         *)
startContinuousReceiverNoOnce ==
    IF receiverStarted
      THEN UNCHANGED <<receiverOnce, receiverStarted, recv>>
      ELSE /\ receiverOnce' = TRUE
           /\ receiverStarted' = TRUE
           /\ recv' = "receiving"

(* startContinuousReceiver: under receiverOnce, set receiverStarted and    *)
(* spawn the goroutine that calls Receive.                                 *)
startContinuousReceiver ==
    IF receiverOnce
      THEN UNCHANGED <<receiverOnce, receiverStarted, recv>>
      ELSE /\ receiverOnce' = TRUE
           /\ receiverStarted' = TRUE
           /\ recv' = "receiving"

(* Pop the head of messageBuffer if there is one (under bufferMutex);     *)
(* otherwise start the receiver and wait in the select.                   *)
ReceiveMessageStart(c) ==
    /\ caller[c] = "idle"
    /\ client # "none"
    /\ \/ /\ messageBuffer # <<>>
          /\ messageBuffer' = Tail(messageBuffer)
          /\ UNCHANGED <<receiverOnce, receiverStarted, recv, caller>>
       \/ /\ messageBuffer = <<>>
          /\ startContinuousReceiver
          /\ caller' = [caller EXCEPT ![c] = "wait"]
          /\ UNCHANGED messageBuffer
    /\ UNCHANGED <<topicExists, server, pub, client, gen, ackMode,
                   ctxDone, topicStopped, messageChan, errorChan, cb, polls,
                   retGen, retAck>>

(* Mutant: m is acked whatever c.ackMode says (the Nack branch lost).    *)
SettleAlwaysAck(m) ==
    IF server[m] = "out" /\ recv = "receiving" /\ client # "closed"
      THEN server' = [server EXCEPT ![m] = "acked"]
      ELSE UNCHANGED server

(* Ack or Nack m: the service honours it only while m is leased to a      *)
(* Receive that is still pulling over an open connection; after a fatal   *)
(* error, after Receive returned or after client.Close() it is dropped.   *)
Settle(m) ==
    IF server[m] = "out" /\ recv = "receiving" /\ client # "closed"
      THEN server' = [server EXCEPT ![m] = IF ackMode = "Ack" THEN "acked" ELSE "avail"]
      ELSE UNCHANGED server

(* The select takes a message from messageChan, acks or nacks it by       *)
(* c.ackMode and returns it.                                              *)
ReceiveMessageTake(c) ==
    /\ caller[c] = "wait"
    /\ messageChan # <<>>
    /\ LET m == Head(messageChan) IN
         /\ messageChan' = Tail(messageChan)
         /\ Settle(m)
         /\ retGen' = [retGen EXCEPT ![m] = Bump(@)]
         /\ retAck' = IF ackMode = "Ack" THEN [retAck EXCEPT ![m] = Bump(@)] ELSE retAck
    /\ caller' = [caller EXCEPT ![c] = "idle"]
    /\ UNCHANGED <<topicExists, pub, client, gen, ackMode, ctxDone,
                   topicStopped, messageBuffer, errorChan, receiverOnce,
                   receiverStarted, recv, cb, polls>>

(* The select takes an error from errorChan and returns it.               *)
ReceiveMessageError(c) ==
    /\ caller[c] = "wait"
    /\ errorChan > 0
    /\ errorChan' = errorChan - 1
    /\ caller' = [caller EXCEPT ![c] = "idle"]
    /\ UNCHANGED <<topicExists, server, pub, client, gen, ackMode,
                   ctxDone, topicStopped, messageBuffer, messageChan,
                   receiverOnce, receiverStarted, recv, cb, polls,
                   retGen, retAck>>

(* The select's ctx is done: the deadline passed, or c.ctx was cancelled. *)
ReceiveMessageTimeout(c) ==
    /\ caller[c] = "wait"
    /\ caller' = [caller EXCEPT ![c] = "idle"]
    /\ UNCHANGED <<topicExists, server, pub, client, gen, ackMode,
                   ctxDone, topicStopped, messageBuffer, messageChan, errorChan,
                   receiverOnce, receiverStarted, recv, cb, polls,
                   retGen, retAck>>

(* BufferMessage appends a message to messageBuffer under bufferMutex.    *)
BufferMessage(t) ==
    /\ client # "none"
    /\ t \notin BufMsgs
    /\ messageBuffer' = Append(messageBuffer, t)
    /\ UNCHANGED <<topicExists, server, pub, client, gen, ackMode,
                   ctxDone, topicStopped, messageChan, errorChan, receiverOnce,
                   receiverStarted, recv, cb, caller, polls, retGen, retAck>>

-----------------------------------------------------------------------------
(* Close: cancel c.ctx; topic.Stop(), which waits for the publishes in     *)
(* flight; poll receiverStarted at most MaxPolls times; client.Close().    *)
CloseCancel ==
    /\ client = "open"
    /\ client' = "stopping"
    /\ ctxDone' = TRUE
    /\ UNCHANGED <<topicExists, server, pub, gen, ackMode,
                   topicStopped, messageBuffer, messageChan, errorChan,
                   receiverOnce, receiverStarted, recv, cb, caller, polls,
                   retGen, retAck>>

CloseStopTopic ==
    /\ client = "stopping"
    /\ \A m \in Msgs : server[m] # "sent"
    /\ client' = "closing"
    /\ topicStopped' = TRUE
    /\ polls' = 0
    /\ UNCHANGED <<topicExists, server, pub, gen, ackMode, ctxDone,
                   messageBuffer, messageChan, errorChan, receiverOnce,
                   receiverStarted, recv, cb, caller, retGen, retAck>>

(* Mutant: the loop runs one iteration too many (i <= 100).             *)
CloseWaitOffByOne ==
    /\ client = "closing"
    /\ IF ~receiverStarted \/ polls = MaxPolls
         THEN /\ client' = "closed"
              /\ UNCHANGED polls
         ELSE /\ polls' = polls + 1
              /\ UNCHANGED client
    /\ UNCHANGED <<topicExists, server, pub, gen, ackMode, ctxDone,
                   topicStopped, messageBuffer, messageChan, errorChan,
                   receiverOnce, receiverStarted, recv, cb, caller,
                   retGen, retAck>>

(* One iteration of the loop: break when the receiver has stopped, sleep  *)
(* otherwise; after the last iteration client.Close() runs regardless.    *)
CloseWait ==
    /\ client = "closing"
    /\ IF ~receiverStarted \/ polls + 1 = MaxPolls
         THEN /\ client' = "closed"
              /\ UNCHANGED polls
         ELSE /\ polls' = polls + 1
              /\ UNCHANGED client
    /\ UNCHANGED <<topicExists, server, pub, gen, ackMode, ctxDone,
                   topicStopped, messageBuffer, messageChan, errorChan,
                   receiverOnce, receiverStarted, recv, cb, caller,
                   retGen, retAck>>

-----------------------------------------------------------------------------
Next ==
    \/ NewPubSubClient
    \/ \E m \in Msgs : \/ PublishMessage(m) \/ ServiceAccept(m)
                       \/ ServiceReject(m) \/ PublishGet(m)
    \/ \E m \in Msgs : \/ Deliver(m) \/ CallbackCheck(m) \/ CallbackSend(m)
                       \/ LeaseExpire(m) \/ LeaseMaxExtension(m)
    \/ ReceiveCancelled \/ ReceiveFatal \/ ReceiveFailReturn
    \/ ReportError \/ ReceiverExit
    \/ \E c \in Callers : \/ ReceiveMessageStart(c) \/ ReceiveMessageTake(c)
                          \/ ReceiveMessageError(c) \/ ReceiveMessageTimeout(c)
    \/ \E t \in TestMsgs : BufferMessage(t)
    \/ CloseCancel \/ CloseStopTopic \/ CloseWait

Spec == Init /\ [][Next]_vars

(* Fairness the code justifies: the Go scheduler runs every runnable      *)
(* goroutine (receiver, callbacks, Close), the service delivers available *)
(* messages, expires unextended leases and, at MaxExtension, the leases  *)
(* a cancelled Receive waits on, and the consumer keeps calling           *)
(* ReceiveMessage (the loop of TestIntegrationConcurrent).  The select of *)
(* ReceiveMessage ends by its deadline at the latest; one that finds a    *)
(* message or an error queued takes it, so those are strongly fair.  A   *)
(* service error and the app's own calls (publish, close, new client) are *)
(* not fair.                                                               *)
Fairness ==
    /\ \A m \in Msgs : /\ WF_vars(Deliver(m)) /\ WF_vars(CallbackCheck(m))
                       /\ WF_vars(CallbackSend(m)) /\ WF_vars(LeaseExpire(m))
                       /\ WF_vars(LeaseMaxExtension(m))
    /\ WF_vars(ReceiveCancelled) /\ WF_vars(ReceiveFailReturn)
    /\ WF_vars(ReportError) /\ WF_vars(ReceiverExit)
    /\ WF_vars(CloseStopTopic) /\ WF_vars(CloseWait)
    /\ \A m \in Msgs : WF_vars(ServiceAccept(m) \/ ServiceReject(m))
    /\ \A c \in Callers : /\ WF_vars(ReceiveMessageStart(c))
                          /\ WF_vars(ReceiveMessageTimeout(c))
                          /\ SF_vars(ReceiveMessageTake(c))
                          /\ SF_vars(ReceiveMessageError(c))

FairSpec == Spec /\ Fairness

-----------------------------------------------------------------------------
(* Properties.                                                             *)

(* No duplicate within a client: a client created with AckModeAck returns *)
(* each message from ReceiveMessage at most once.  What guarantees it is  *)
(* the Ack in ReceiveMessage and receiverOnce: a second Receive could be  *)
(* handed messages whose acks the first one dropped.                       *)
NoDuplicateWithinClient ==
    ackMode = "Ack" => \A m \in Msgs : retGen[m] <= 1

(* No stranded lease: while Receive runs and neither c.ctx nor the        *)
(* callbacks' ctx is done, every message leased to it is in a callback or *)
(* waiting in messageChan; the full-channel path of the callback          *)
(* (client.go:204-206) must hand the message back (Nack) rather than keep *)
(* a lease nobody will ever settle.                                       *)
NoStrandedLease ==
    recv = "receiving" /\ ~ctxDone =>
        \A m \in Msgs : server[m] = "out" => cb[m] # "idle" \/ m \in ChanMsgs

(* The same after Close: "c.cancel() // This will stop the continuous    *)
(* receiver" (client.go:277) needs every lease the cancelled Receive      *)
(* still holds to be in a callback or queued, since Receive returns only  *)
(* once its leases are settled or expired.                                *)
NoStrandedLeaseAfterCancel ==
    recv = "receiving" =>
        \A m \in Msgs : server[m] = "out" => cb[m] # "idle" \/ m \in ChanMsgs

(* Close stops the receiver: once c.ctx is cancelled, the receiver         *)
(* goroutine eventually clears receiverStarted, which is what the wait   *)
(* loop of Close polls for; at worst when the leases of the cancelled    *)
(* Receive reach MaxExtension, long after Close's one-second wait.       *)
ReceiverStopsAfterClose ==
    ctxDone ~> ~receiverStarted

(* Every message available to the subscription is eventually returned by  *)
(* ReceiveMessage of the current client, unless the client is closed: the *)
(* consumer loop of TestIntegrationConcurrent relies on it.               *)
EventuallyReceived ==
    \A m \in Msgs : (server[m] = "avail") ~> (retGen[m] >= 1 \/ ctxDone)

(* AckModeAck means "messages should be acknowledged (not redelivered)"   *)
(* (client.go:38): a message ReceiveMessage returned under AckModeAck is  *)
(* never returned again, by this client or a later one.                   *)
AckedNotRedelivered ==
    \A m \in Msgs : retAck[m] <= 1

=============================================================================
