----------------------------- MODULE ExampleMain -----------------------------
(***************************************************************************)
(* The example program src/pubsub/example/main.go composed with the client *)
(* it drives.  main is the single caller of the client: it creates it,    *)
(* publishes one message with a 5 s timeout, receives one message with a  *)
(* 5 s timeout and returns, running the deferred Close.  Every error ends *)
(* the process with log.Fatalf, which calls os.Exit and skips the         *)
(* deferred Close.  The program may be run again against the same         *)
(* emulator, which keeps the topic, the subscription and its messages.    *)
(***************************************************************************)
EXTENDS PubSubClient

CONSTANTS
    NoMsg,      \* mainGot / mainMsg before anything was published or received
    MaxRuns     \* how many times the program is run

ASSUME MainAssumption ==
    /\ NoMsg \notin Msgs
    /\ MaxRuns \in Nat \ {0}
    /\ MaxRuns <= MaxClients

VARIABLES
    mainPc,     \* where main is
    mainMsg,    \* the message this run published
    mainGot,    \* the message this run printed
    runs        \* runs of the program started so far

mainVars == <<mainPc, mainMsg, mainGot, runs>>
allVars == <<vars, mainVars>>

(* main's goroutine is the one caller of the client.                      *)
Main == CHOOSE c \in Callers : TRUE

MainPcs == {"start", "publish", "publishWait", "receive", "receiveWait",
            "printed", "closing", "fatal", "done"}

MainTypeOK ==
    /\ TypeOK
    /\ mainPc \in MainPcs
    /\ mainMsg \in Msgs \cup {NoMsg}
    /\ mainGot \in Msgs \cup {NoMsg}
    /\ runs \in 1..MaxRuns

MainInit ==
    /\ Init
    /\ mainPc = "start" /\ mainMsg = NoMsg /\ mainGot = NoMsg /\ runs = 1

-----------------------------------------------------------------------------
(* The process ends (os.Exit, or main returning): its goroutines are gone, *)
(* the leases its Receive held are no longer extended, and what it held in *)
(* memory (the channels, the pending publishes, its contexts) is lost.   *)
(* The service and the topic and subscription it stores remain.           *)
ProcessExit ==
    /\ server' = Orphaned
    /\ client' = IF client = "none" THEN "none" ELSE "closed"
    /\ recv' = IF recv = "idle" THEN "idle" ELSE "exited"
    /\ cb' = [m \in Msgs |-> "idle"]
    /\ caller' = [c \in Callers |-> "idle"]
    /\ pub' = [m \in Msgs |-> IF pub[m] \in {"wait", "waitTimeout"} THEN "err" ELSE pub[m]]
    /\ messageChan' = <<>> /\ errorChan' = 0
    /\ receiverStarted' = FALSE
    /\ ctxDone' = (client # "none" \/ ctxDone)
    /\ UNCHANGED <<topicExists, gen, ackMode, topicStopped,
                   messageBuffer, receiverOnce, polls, retGen, retAck>>

(* NewPubSubClient(cfg) with AckModeAck succeeds, and Close is deferred.   *)
MainCreate ==
    /\ mainPc = "start"
    /\ NewPubSubClient
    /\ mainPc' = IF client' = "open" THEN "publish" ELSE "fatal"
    /\ UNCHANGED <<mainMsg, mainGot, runs>>

(* PUBSUB_EMULATOR_HOST is unset, or NewPubSubClient fails before it has   *)
(* created anything: log.Fatal.                                           *)
MainCreateFailed ==
    /\ mainPc = "start"
    /\ mainPc' = "fatal"
    /\ UNCHANGED <<vars, mainMsg, mainGot, runs>>

(* PublishMessage(msgData, attrs, 5*time.Second) publishes a new message  *)
(* and waits with a deadline.                                             *)
MainPublish ==
    /\ mainPc = "publish"
    /\ \E m \in Msgs :
         /\ PublishMessage(m)
         /\ pub'[m] # "wait"
         /\ mainMsg' = m
    /\ mainPc' = "publishWait"
    /\ UNCHANGED <<mainGot, runs>>

(* result.Get returns: on an error, log.Fatalf.                           *)
MainPublishResult ==
    /\ mainPc = "publishWait"
    /\ PublishGet(mainMsg)
    /\ mainPc' = IF pub'[mainMsg] = "ok" THEN "receive" ELSE "fatal"
    /\ UNCHANGED <<mainMsg, mainGot, runs>>

(* ReceiveMessage(5*time.Second): start the receiver and wait.            *)
MainReceive ==
    /\ mainPc = "receive"
    /\ ReceiveMessageStart(Main)
    /\ mainPc' = "receiveWait"
    /\ UNCHANGED <<mainMsg, mainGot, runs>>

(* Mutant: an error of ReceiveMessage is retried instead of fatal.       *)
MainReceiveResultRetry ==
    /\ mainPc = "receiveWait"
    /\ \/ /\ ReceiveMessageTake(Main)
          /\ mainGot' = Head(messageChan)
          /\ mainPc' = "printed"
       \/ /\ ReceiveMessageError(Main) \/ ReceiveMessageTimeout(Main)
          /\ mainPc' = "receive"
          /\ UNCHANGED mainGot
    /\ UNCHANGED <<mainMsg, runs>>

(* ReceiveMessage returns a message, which is printed, or an error (the   *)
(* receiver's or the deadline), and log.Fatalf.                           *)
MainReceiveResult ==
    /\ mainPc = "receiveWait"
    /\ \/ /\ ReceiveMessageTake(Main)
          /\ mainGot' = Head(messageChan)
          /\ mainPc' = "printed"
       \/ /\ ReceiveMessageError(Main) \/ ReceiveMessageTimeout(Main)
          /\ mainPc' = "fatal"
          /\ UNCHANGED mainGot
    /\ UNCHANGED <<mainMsg, runs>>

(* main returns and the deferred client.Close() starts: cancel c.ctx.     *)
MainReturn ==
    /\ mainPc = "printed"
    /\ CloseCancel
    /\ mainPc' = "closing"
    /\ UNCHANGED <<mainMsg, mainGot, runs>>

(* Close has returned (its error is ignored): the process exits.          *)
MainExit ==
    /\ mainPc = "closing"
    /\ client = "closed"
    /\ ProcessExit
    /\ mainPc' = "done"
    /\ UNCHANGED <<mainMsg, mainGot, runs>>

(* log.Fatalf calls os.Exit(1): the deferred Close never runs.            *)
MainFatal ==
    /\ mainPc = "fatal"
    /\ ProcessExit
    /\ mainPc' = "done"
    /\ UNCHANGED <<mainMsg, mainGot, runs>>

(* The program is run again against the same emulator.                    *)
MainRestart ==
    /\ mainPc = "done"
    /\ runs < MaxRuns
    /\ mainPc' = "start" /\ mainMsg' = NoMsg /\ mainGot' = NoMsg
    /\ runs' = runs + 1
    /\ UNCHANGED vars

(* What the client's goroutines, Close's loop and the service do on their  *)
(* own while main waits.                                                   *)
ClientSteps ==
    \/ \E m \in Msgs : \/ ServiceAccept(m) \/ ServiceReject(m)
                       \/ Deliver(m) \/ CallbackCheck(m) \/ CallbackSend(m)
                       \/ LeaseExpire(m)
    \/ \E m \in Msgs : LeaseMaxExtension(m)
    \/ ReceiveCancelled \/ ReceiveFatal \/ ReceiveFailReturn
    \/ ReportError \/ ReceiverExit
    \/ CloseStopTopic \/ CloseWait

MainNext ==
    \/ MainCreate \/ MainCreateFailed \/ MainPublish \/ MainPublishResult
    \/ MainReceive \/ MainReceiveResult \/ MainReturn \/ MainExit
    \/ MainFatal \/ MainRestart
    \/ ClientSteps /\ UNCHANGED mainVars

MainSpec == MainInit /\ [][MainNext]_allVars

(* main's goroutine, the client's goroutines and the service keep taking   *)
(* their steps; nothing forces a failure, a rejection or a rerun.          *)
MainFairness ==
    /\ WF_allVars(MainCreate) /\ WF_allVars(MainPublish)
    /\ WF_allVars(MainPublishResult) /\ WF_allVars(MainReceive)
    /\ WF_allVars(MainReceiveResult) /\ WF_allVars(MainReturn)
    /\ WF_allVars(MainExit) /\ WF_allVars(MainFatal)
    /\ \A m \in Msgs :
         /\ WF_vars(ServiceAccept(m) \/ ServiceReject(m))
         /\ WF_vars(Deliver(m)) /\ WF_vars(CallbackCheck(m))
         /\ WF_vars(CallbackSend(m)) /\ WF_vars(LeaseExpire(m))
         /\ WF_vars(LeaseMaxExtension(m))
    /\ WF_vars(ReceiveCancelled) /\ WF_vars(ReceiveFailReturn) /\ WF_vars(ReportError)
    /\ WF_vars(ReceiverExit)
    /\ WF_vars(CloseStopTopic) /\ WF_vars(CloseWait)

MainFairSpec == MainSpec /\ MainFairness

-----------------------------------------------------------------------------
(* Properties.                                                             *)

(* Every run of the program ends: the 5 s deadlines of PublishMessage and  *)
(* ReceiveMessage, log.Fatalf on every error and the bounded wait of Close *)
(* bring main to its end whatever the service and the receiver do.        *)
MainTerminates == [](mainPc = "start" => <>(mainPc = "done"))

(* "Receive the message" (main.go:49): what main prints is the message it  *)
(* just published.                                                         *)
MainReceivesOwn == mainPc = "printed" => mainGot = mainMsg

=============================================================================
