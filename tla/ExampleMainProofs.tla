-------------------------- MODULE ExampleMainProofs --------------------------
(***************************************************************************)
(* Proofs about the example program composed with the client, for every   *)
(* value of the constants: the client's invariants survive main's crashes *)
(* (ProcessExit) and reruns, main is well typed, and the composition      *)
(* keeps the Subscription promise.                                         *)
(***************************************************************************)
EXTENDS ExampleMain, PubSubClientRefinementProofs

-----------------------------------------------------------------------------
(* main's own invariant: the message it publishes, waits for and prints   *)
(* is a real message, and once result.Get reported success it stays so    *)
(* for the rest of the run.                                               *)
MainInv ==
    /\ mainPc \in MainPcs
    /\ mainMsg \in Msgs \cup {NoMsg}
    /\ mainGot \in Msgs \cup {NoMsg}
    /\ runs \in 1..MaxRuns
    /\ mainPc \in {"publishWait", "receive", "receiveWait", "printed"} => mainMsg \in Msgs
    /\ mainPc \in {"receive", "receiveWait", "printed"} => pub[mainMsg] = "ok"

LEMMA MainFacts ==
    /\ Callers # {}
    /\ NoMsg \notin Msgs
    /\ MaxRuns \in Nat \ {0}
BY ClientAssumption, MainAssumption

LEMMA MainInCallers == Main \in Callers
BY MainFacts DEF Main

(* Every step of the composition is a step of the client, or the process   *)
(* exit, which is not one.                                                *)
LEMMA MainStep ==
    MainInv /\ [MainNext]_allVars => [Next]_vars \/ ProcessExit
<1> SUFFICES ASSUME MainInv, [MainNext]_allVars PROVE [Next]_vars \/ ProcessExit
    OBVIOUS
<1>1. CASE MainCreate
    BY <1>1 DEF MainCreate, Next
<1>2. CASE MainCreateFailed \/ MainRestart \/ UNCHANGED allVars
    BY <1>2 DEF MainCreateFailed, MainRestart, allVars
<1>3. CASE MainPublish
    BY <1>3 DEF MainPublish, Next
<1>4. CASE MainPublishResult
    <2>1. mainMsg \in Msgs
        BY <1>4 DEF MainPublishResult, MainInv
    <2>2. QED
        BY <1>4, <2>1 DEF MainPublishResult, Next
<1>5. CASE MainReceive \/ MainReceiveResult
    BY <1>5, MainInCallers DEF MainReceive, MainReceiveResult, Next
<1>6. CASE MainReturn
    BY <1>6 DEF MainReturn, Next
<1>7. CASE MainExit \/ MainFatal
    BY <1>7 DEF MainExit, MainFatal
<1>8. CASE ClientSteps /\ UNCHANGED mainVars
    BY <1>8 DEF ClientSteps, Next
<1>9. QED
    BY <1>1, <1>2, <1>3, <1>4, <1>5, <1>6, <1>7, <1>8 DEF MainNext


-----------------------------------------------------------------------------
(* The process exit keeps the client's invariants: nothing is queued or   *)
(* running any more, and every lease of the dead Receive is orphaned.     *)

LEMMA ExitServer ==
    ASSUME TypeData, ProcessExit
    PROVE  /\ server' \in [Msgs -> ServerStates]
           /\ \A l \in Msgs : server'[l] # "out"
           /\ \A l \in Msgs : server[l] # "out" => server'[l] = server[l]
BY DEF ProcessExit, Orphaned, TypeData, ServerStates

LEMMA ExitIInv == IInv /\ ProcessExit => IInv'
<1> SUFFICES ASSUME TypeBool, TypeData, Safe, ProcessExit PROVE IInv'
    BY DEF IInv, Safe
<1>1. TypeBool'
    BY Zenon DEF ProcessExit, TypeBool
<1>2. TypeData'
    <2>1. server' \in [Msgs -> ServerStates]
        BY ExitServer
    <2>2. pub' \in [Msgs -> PubStates]
        BY DEF ProcessExit, TypeData, PubStates
    <2>3. client' \in ClientStates /\ recv' \in RecvStates
        BY DEF ProcessExit, TypeData, ClientStates, RecvStates
    <2>4. messageChan' \in Seq(Msgs) /\ Len(messageChan') <= ChanCap /\ errorChan' \in 0..ErrCap
        BY ConstFacts DEF ProcessExit
    <2>5. cb' \in [Msgs -> {"idle", "check", "send"}] /\ caller' \in [Callers -> {"idle", "wait"}]
        BY DEF ProcessExit
    <2>6. QED
        BY <2>1, <2>2, <2>3, <2>4, <2>5 DEF ProcessExit, TypeData
<1>3. ChanMsgs' = {}
    BY DEF ProcessExit, ChanMsgs
<1>4. ChanDistinct' /\ ChanInv'
    BY <1>3 DEF ProcessExit, ChanDistinct, NoDup, ChanInv, ChanMsgs
<1>5. CallbackInv'
    BY DEF ProcessExit, CallbackInv
<1>6. LeaseInv'
    <2>1. \A l \in Msgs : server'[l] # "out"
        BY ExitServer
    <2>2. recv' # "idle" => receiverOnce' = TRUE
        BY DEF ProcessExit, Safe, LeaseInv
    <2>3. client' \in {"stopping", "closing", "closed"} => ctxDone'
        BY DEF ProcessExit
    <2>4. QED
        BY <2>1, <2>2, <2>3 DEF LeaseInv
<1>7. ReturnedInv'
    <2>1. \A r \in Msgs : server[r] = "acked" => server'[r] = "acked"
        BY ExitServer
    <2>2. recv \notin {"idle", "receiving"} => recv' \notin {"idle", "receiving"}
        BY DEF ProcessExit
    <2>3. ctxDone => ctxDone'
        BY DEF ProcessExit
    <2>4. QED
        BY <2>1, <2>2, <2>3 DEF ProcessExit, Safe, ReturnedInv
<1>8. QED
    BY <1>1, <1>2, <1>4, <1>5, <1>6, <1>7 DEF IInv

LEMMA ExitRefInv == TypeData /\ RefInv /\ ProcessExit => RefInv'
<1> SUFFICES ASSUME TypeData, RefInv, ProcessExit PROVE RefInv'
    OBVIOUS
<1>1. ChanMsgs' = {}
    BY DEF ProcessExit, ChanMsgs
<1>2. \A u \in Msgs : server'[u] \in {"none", "sent"} => server[u] = server'[u]
    BY DEF ProcessExit, Orphaned
<1>3. QED
    BY <1>1, <1>2 DEF ProcessExit, RefInv

(* A process exit is a stutter of the Subscription: an orphaned lease is   *)
(* still pending at the service and no return is counted.                 *)
LEMMA ExitStutter == TypeData /\ ProcessExit => UNCHANGED <<AbsSt, retAck>>
BY DEF ProcessExit, Orphaned, AbsSt, TypeData

LEMMA ExitNoStranded == ProcessExit => NoStrandedLease'
BY DEF ProcessExit, Orphaned, NoStrandedLease

-----------------------------------------------------------------------------
(* main's invariant.                                                       *)

LEMMA ClientStepsPub == ClientSteps => UNCHANGED pub
BY DEF ClientSteps, ServiceAccept, ServiceReject, Deliver, CallbackCheck,
       CallbackSend, LeaseExpire, LeaseMaxExtension, ReceiveCancelled,
       ReceiveFatal, ReceiveFailReturn, ReportError, ReceiverExit,
       CloseStopTopic, CloseWait

LEMMA MainNextMainInv == TypeData /\ MainInv /\ [MainNext]_allVars => MainInv'
<1> SUFFICES ASSUME TypeData, MainInv, [MainNext]_allVars PROVE MainInv'
    OBVIOUS
<1> USE MainFacts
<1>1. CASE MainCreate \/ MainCreateFailed
    BY <1>1 DEF MainCreate, NewPubSubClient, MainCreateFailed, MainInv, MainPcs
<1>2. CASE MainPublish
    BY <1>2 DEF MainPublish, PublishMessage, MainInv, MainPcs
<1>3. CASE MainPublishResult
    BY <1>3 DEF MainPublishResult, PublishGet, MainInv, MainPcs
<1>4. CASE MainReceive
    BY <1>4 DEF MainReceive, ReceiveMessageStart, MainInv, MainPcs
<1>5. CASE MainReceiveResult
    <2>1. CASE ReceiveMessageTake(Main) /\ mainGot' = Head(messageChan) /\ mainPc' = "printed"
        <3>1. mainGot' \in Msgs
            BY <2>1 DEF ReceiveMessageTake, TypeData
        <3>2. QED
            BY <1>5, <2>1, <3>1 DEF MainReceiveResult, ReceiveMessageTake, MainInv, MainPcs
    <2>2. CASE (ReceiveMessageError(Main) \/ ReceiveMessageTimeout(Main)) /\ mainPc' = "fatal"
              /\ UNCHANGED mainGot
        BY <1>5, <2>2 DEF MainReceiveResult, ReceiveMessageError, ReceiveMessageTimeout,
                          MainInv, MainPcs
    <2>3. QED
        BY <1>5, <2>1, <2>2 DEF MainReceiveResult
<1>6. CASE MainReturn \/ MainExit \/ MainFatal
    BY <1>6 DEF MainReturn, MainExit, MainFatal, MainInv, MainPcs
<1>7. CASE MainRestart
    BY <1>7 DEF MainRestart, MainInv, MainPcs
<1>8. CASE ClientSteps /\ UNCHANGED mainVars
    BY <1>8, ClientStepsPub DEF mainVars, MainInv
<1>9. CASE UNCHANGED allVars
    BY <1>9 DEF allVars, vars, mainVars, MainInv
<1>10. QED
    BY <1>1, <1>2, <1>3, <1>4, <1>5, <1>6, <1>7, <1>8, <1>9 DEF MainNext

(* The inductive invariant of the composition: the client's IInv and      *)
(* RefInv, which the crash keeps, and main's own.                          *)
AllInv == IInv /\ RefInv /\ MainInv

LEMMA MainInitInv == MainInit => AllInv
<1> SUFFICES ASSUME MainInit PROVE AllInv
    OBVIOUS
<1>1. IInv /\ RefInv
    BY InitIInv, InitRefInv DEF MainInit
<1>2. MainInv
    BY MainFacts DEF MainInit, MainInv, MainPcs
<1>3. QED
    BY <1>1, <1>2 DEF AllInv

LEMMA MainNextInv == AllInv /\ [MainNext]_allVars => AllInv'
<1> SUFFICES ASSUME AllInv, [MainNext]_allVars PROVE AllInv'
    OBVIOUS
<1>1. MainInv'
    BY MainNextMainInv DEF AllInv, IInv
<1>2. CASE [Next]_vars
    BY <1>1, <1>2, NextIInv, NextRefInv DEF AllInv
<1>3. CASE ProcessExit
    BY <1>1, <1>3, ExitIInv, ExitRefInv DEF AllInv, IInv
<1>4. QED
    BY <1>2, <1>3, MainStep DEF AllInv

-----------------------------------------------------------------------------
(* Theorems.                                                               *)

LEMMA MainAlwaysInv == MainSpec => []AllInv
BY MainInitInv, MainNextInv, PTL DEF MainSpec

(* The example program is well typed through every crash and rerun.       *)
THEOREM MainTypeCorrect == MainSpec => []MainTypeOK
<1>1. AllInv => MainTypeOK
    BY TypeSplit DEF AllInv, IInv, MainInv, MainTypeOK
<1>2. QED
    BY <1>1, MainAlwaysInv, PTL

(* The client's safety survives main's log.Fatalf (main.go:32, 45, 52):   *)
(* after an os.Exit that skips Close and a rerun, a client never returns  *)
(* a message twice and, while its Receive runs on a live c.ctx, strands  *)
(* no lease.                                                              *)
THEOREM MainNoStranded ==
    MainSpec => [](NoDuplicateWithinClient /\ NoStrandedLease)
<1>1. MainInit => NoStrandedLease
    BY DEF MainInit, Init, NoStrandedLease
<1>2. AllInv /\ NoStrandedLease /\ [MainNext]_allVars => NoStrandedLease'
    <2> SUFFICES ASSUME AllInv, NoStrandedLease, [MainNext]_allVars
                 PROVE NoStrandedLease'
        OBVIOUS
    <2>1. CASE [Next]_vars
        BY <2>1, NextNoStranded DEF AllInv
    <2>2. CASE ProcessExit
        BY <2>2, ExitNoStranded
    <2>3. QED
        BY <2>1, <2>2, MainStep DEF AllInv
<1>3. MainSpec => [](AllInv /\ NoStrandedLease)
    BY <1>1, <1>2, MainInitInv, MainNextInv, PTL DEF MainSpec
<1>4. QED
    BY <1>3, IInvNoDuplicate, PTL DEF AllInv

(* The composition keeps the Subscription promise: a crash of the example *)
(* (its leases orphaned, its queue lost) acks nothing and returns nothing,*)
(* so every run of the program, one after another, is a Subscription     *)
(* behaviour.                                                             *)
THEOREM MainRefinement == MainSpec => Sub!Spec
<1>1. MainInit => Sub!Init
    BY DEF MainInit, Init, Sub!Init, AbsSt
<1>2. AllInv /\ [MainNext]_allVars => [Sub!Next]_Sub!vars
    <2> SUFFICES ASSUME AllInv, [MainNext]_allVars PROVE [Sub!Next]_Sub!vars
        OBVIOUS
    <2>1. CASE [Next]_vars
        BY <2>1, RefStep DEF AllInv
    <2>2. CASE ProcessExit
        BY <2>2, ExitStutter DEF AllInv, IInv, Sub!vars
    <2>3. QED
        BY <2>1, <2>2, MainStep DEF AllInv
<1>3. QED
    BY <1>1, <1>2, MainAlwaysInv, PTL DEF MainSpec, Sub!Spec

=============================================================================
