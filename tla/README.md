# Verification of the Pub/Sub client and plan for the fuzzer core

This directory holds TLA+ models of the repository's code, the TLC
configurations that check them, and TLAPS proofs.

## 1. The system and what is modelled

The repository describes a model-guided fuzzer for etcd raft (spec.md). Of that
system, only one component is actually code under `src/`: the Google Cloud Pub/Sub
client package `src/pubsub/client.go`. It comes with an example program
(`src/pubsub/example/main.go`), its unit and emulator tests
(`src/unnamed/part_001`, the test code in `part_002`), an emulator setup
script (`part_003`), a Makefile and documentation. The fuzzer core of spec.md
(C1 Trace/Event records, C2 Message Queue, C3 Cluster Harness, C4 Scheduler,
C5 Model Checker Client, C6 Guider, C7 Mutator, C8 Fuzzer driver) is not in this
repository. It can only be modelled from spec.md, and the plan below does so in
later modules.

### The Pub/Sub client (`client.go`)

State, from the `PubSubClient` struct (lines 14-30):
- the context `ctx` and its `cancel`;
- `messageBuffer` under `bufferMutex`;
- `ackMode`;
- `receiverStarted` under `receiverMutex`;
- the buffered channels `messageChan` (100 slots) and `errorChan` (10 slots);
- the `receiverOnce` guard.

Actors that run concurrently:
- any number of goroutines calling `ReceiveMessage`, `PublishMessage`,
  `BufferMessage` and `Close`;
- the receiver goroutine started lazily by `startContinuousReceiver`;
- the callbacks that `subscription.Receive` runs, one per delivered message.

The environment is the Pub/Sub service together with the Go client library:
- it stores or rejects a published message;
- it leases messages to the running `Receive`;
- it honours Ack/Nack only while that `Receive` runs and the client is not
  closed: an Ack after a fatal error, after `Receive` returned or after
  `client.Close()` is dropped;
- the ctx it passes to a callback is done when `c.ctx` is cancelled and also
  when the service ends `Receive` with a fatal error (`CallbackCtxDone`);
- on a fatal error, `Receive` returns once its callbacks have returned, and the
  leases it still holds are no longer extended (`ReceiveFatal`,
  `ReceiveFailReturn`);
- on a cancelled `c.ctx`, `Receive` returns only after its callbacks have
  returned *and* every message it leased was acked or expired
  (`ReceiveCancelled`). A lease nobody settles is extended up to MaxExtension
  (60 min by default; the code does not set it) and then lapses
  (`LeaseMaxExtension`). The model lets that happen only after `Close`'s wait
  of at most 1 s has given up and `client.Close()` has run;
- an orphaned lease expires and the message is delivered again (`LeaseExpire`).

These are the library's documented semantics, and they are environment actions
of the model: `ServiceAccept`, `ServiceReject`, `LeaseExpire`,
`LeaseMaxExtension`, `ReceiveFatal` and the `Orphaned` step of
`ReceiveFailReturn`.

While `c.ctx` is live, the model assumes that a queued message is taken well
within MaxExtension: a running `Receive`'s lease never lapses. Without this,
a message waiting in `messageChan` for more than an hour would be redelivered
to the same client. `NoDuplicateWithinClient` holds only under this
assumption.

`PubSubClient.tla` maps the code to model state and actions as follows.

| Code | Model |
|---|---|
| `NewPubSubClient` (72-143) | `NewPubSubClient`. A new client is created, or the topic alone when a later step fails (126-130). `gen` counts the clients. It is guarded by a usage assumption: the previous client is closed and its goroutines are gone, so only one client's receiver runs at a time. A receiver still running (for up to MaxExtension) beside the next client is not modelled. |
| `PublishMessage` (146-167) | `PublishMessage` (Publish; an error at once on a stopped topic), then `PublishGet`. `result.Get` returns ok, or an error on rejection, deadline or Close. |
| `startContinuousReceiver` (171-176) | `startContinuousReceiver`, inlined into `ReceiveMessageStart`. `receiverOnce` sets `receiverStarted` and starts the goroutine (`recv = "receiving"`). |
| Receive callback (184-207) | `Deliver` (a lease is granted and the callback starts), `CallbackCheck` (the first select), `CallbackSend` (the second select: queue, return, or Nack when full). |
| End of Receive (184-217) | `ReceiveCancelled` (returns nil: no callback runs and no lease is held), `ReceiveFatal` then `ReceiveFailReturn` (a fatal error: the callbacks' ctx is cancelled; after they return, Receive returns and its leases are orphaned), `ReportError` (the select on `errorChan`), `ReceiverExit` (the deferred reset of `receiverStarted`). |
| `ReceiveMessage` (223-264) | `ReceiveMessageStart` (pop `messageBuffer`, or start the receiver and enter the select), then one of `ReceiveMessageTake` (with `Settle` = Ack/Nack), `ReceiveMessageError` or `ReceiveMessageTimeout`. |
| `BufferMessage` (268-273) | `BufferMessage` |
| `Close` (276-296) | `CloseCancel`, `CloseStopTopic` (waits for publishes in flight), `CloseWait` (one poll of the loop; after `MaxPolls` polls the client closes regardless). |

Atomicity follows the code. Each of the following is one step:
- a mutex-protected section;
- a channel operation;
- a whole `select`: the ready cases are disjuncts, and `default` is guarded by
  no other case being ready.

### The example program (`example/main.go`) and its composition

`ExampleMain.tla` extends the client model with main's program counter. main is
the single caller of the client. Each of its steps is one call of the client
conjoined with main's own state change:

| Code | Model |
|---|---|
| env check, early create errors (13-16, 30-33) | `MainCreateFailed` |
| `NewPubSubClient` + `defer Close` (19-34) | `MainCreate` = `NewPubSubClient`; the topic-only failure goes to Fatal |
| `PublishMessage(..., 5s)` (36-47) | `MainPublish` (a new message, with a deadline), `MainPublishResult` (`PublishGet`) |
| `ReceiveMessage(5s)` (49-56) | `MainReceive` (`ReceiveMessageStart`), `MainReceiveResult` (take and print, or error/timeout to Fatal) |
| return of main (34, 57) | `MainReturn` (`CloseCancel`), then `MainExit` once Close returned |
| `log.Fatalf` (32, 45, 52) | `MainFatal`: `os.Exit`, the deferred Close never runs |

The client's goroutines, Close's loop and the service run on their own
(`ClientSteps`). A process exit (`ProcessExit`) is the crash of the fault model:
- the goroutines, channels and contexts are lost (`ctxDone` is set);
- the leases the dead Receive held are orphaned;
- the service keeps the topic, the subscription and the stored messages.

`MainRestart` runs the program again against the same emulator, which is how
the example is used.

### The abstract Subscription (`Subscription.tla`)

`Subscription.tla` states what the client promises per message:
- a published message is pending or rejected;
- a pending message may be returned under AckModeAck;
- a return may record the ack (`acked`) or lose it (the message stays pending);
- only a return records an ack, and nothing acked or rejected is returned.

`PubSubClientRefinement.tla` maps the client onto it:
- `AbsSt` collapses sent, available, leased and orphaned to `pending`;
- `returned` is the AckModeAck return history `retAck`.

`SubscriptionRefined == Sub!Spec` is the abstract specification as a property.

Data is abstracted. Messages are model values, `errorChan` is a count, and the
history variables `retGen`/`retAck` count how often a message was returned by
the current client and by any AckModeAck client. Both counters saturate at 2,
since the properties only distinguish 0, 1 and more.

## 2. Runs

All runs use the instance of `MC_PubSubClient.tla`:
- two messages;
- `messageChan` of 1 slot, so the full-channel Nack path is taken;
- `errorChan` of 1 slot, so an error can be dropped;
- a Close loop of 2 polls, so it can time out with the receiver still running;
- two successive clients, so that redelivery to a later client can be seen.

The safety run adds a test message and two concurrent callers. The example
runs (`MC_ExampleMain.tla`) run the program three times with three messages,
so that a run can meet the leftovers of two earlier ones. They do not check
deadlock, since the program really stops after its last run.

| Run | cfg | Expect | Checks |
|---|---|---|---|
| safety | MC_Safety.cfg | pass | `TypeOK`, `NoDuplicateWithinClient` (an AckModeAck client never returns a message twice), `NoStrandedLease` (while `Receive` runs on a live `c.ctx`, every message it leased is in a callback or queued). Covers both ack modes and service errors. |
| liveness | MC_Liveness.cfg | pass | `ReceiverStopsAfterClose` (after cancel, `receiverStarted` eventually clears, through MaxExtension when leases are stranded) and `EventuallyReceived` (an available message is eventually returned unless the client closes). No service errors. |
| redelivery | MC_Redelivery.cfg | violation | `AckedNotRedelivered`: a message returned under AckModeAck is never returned again. |
| stranded_after_cancel | MC_StrandedAfterCancel.cfg | violation | `NoStrandedLeaseAfterCancel`: `NoStrandedLease` without the live-`c.ctx` guard, that is, cancelling `c.ctx` stops the receiver without leaving leases behind. |
| receiver_failure | MC_ReceiverFailure.cfg | violation | `EventuallyReceived` with service errors enabled. |
| refinement | MC_Refinement.cfg | pass | `SubscriptionRefined`: the client implements `Subscription`. One caller, both ack modes, service errors. |
| example_main | MC_ExampleMain.cfg | pass | `MainTypeOK`; `MainTerminates` (every run ends). Three runs, three messages, service errors. |
| example_own | MC_ExampleOwn.cfg | violation | `MainReceivesOwn`: main prints the message it published. |

Each property of the pass runs has a mutant in PROJECT.json, and TLC finds each
mutant's property violated. For example, dropping the Nack of the full-channel
path breaks `NoStrandedLease`, and restarting the receiver whenever it is not
running (no `receiverOnce`) breaks `NoDuplicateWithinClient`.

**Findings.**
1. *redelivery.* A message can sit in `messageChan` when `Close` cancels
   `c.ctx`. `Receive` then waits for the lease of that message, so `Close`'s
   wait of 1 s gives up and `client.Close()` runs. A `ReceiveMessage` select
   can still take the message, since Go chooses at random among ready cases.
   Its `Ack` goes to a closed client and is dropped. The lease lapses at
   MaxExtension, and the next client receives the message again. A fatal
   `Receive` error drops such acks as well. This contradicts the comment on
   `AckModeAck` ("acknowledged (not redelivered)", client.go:38).
2. *stranded_after_cancel.* Close says `c.cancel()` "will stop the continuous
   receiver" (client.go:277). A callback that sees `c.ctx` done returns
   (client.go:187-188, 198-200) without Ack or Nack, so its lease stays held,
   and `Receive` does not return until MaxExtension. `receiverStarted` stays
   set past `Close`'s 1 s wait, and `client.Close()` runs under a live
   `Receive`.
3. *receiver_failure.* After a non-retryable `Receive` error, `receiverOnce`
   (client.go:172) never restarts the receiver. The consumer loop of
   `TestIntegrationConcurrent`, which "continue[s] trying", then only sees
   timeouts.
4. *example_own.* A run that dies by `log.Fatalf` after publishing leaves its
   message on the subscription. This happens when `result.Get` times out while
   the emulator still stores the message, or when `ReceiveMessage` times out.
   The next run then prints the earlier message as the one it received, unlike
   "Receive the message" (main.go:49).

**Fairness (example_main run).** Weak fairness applies to main's own steps
and to the same client goroutines and service steps as in the liveness run.
Nothing forces a failure, a rejection or a rerun.

**Fairness (liveness run).** Weak fairness applies to:
- the steps of goroutines the Go scheduler keeps runnable: the callbacks, the
  receiver, and Close's loop;
- the service's delivery and lease expiry, and the library's MaxExtension
  timer;
- a caller starting `ReceiveMessage` (the test's loop calls it forever);
- the select's timeout.

`ReceiveMessageTake` and `ReceiveMessageError` are strongly fair: a select
blocked on a channel that becomes ready repeatedly takes it. The following are
not fair, since nothing in the code forces them: publishing, Close, creating a
client, and service errors. Test messages are left out of the liveness runs,
since `BufferMessage` is a test hook that could starve the receive path forever.

## 3. Proofs (`PubSubClientProofs.tla`, `PubSubClientRefinementProofs.tla`, `ExampleMainProofs.tla`)

These assume `ClientAssumption`: nonempty sets and positive bounds. They hold
for every value of the constants.
- `TypeCorrect`: `Spec => []TypeOK`. TypeOK is split into a Boolean part, proved
  by Zenon, and a data part, proved by SMT. Each is proved preserved by every
  action.
- `NoDuplicate`: `Spec => []NoDuplicateWithinClient`, through the inductive
  invariant `IInv`, which TLC has also checked as an invariant of the safety
  instance. `IInv` is TypeOK plus:
  - `ChanDistinct`: no message is queued twice;
  - `ChanInv`: a queued message has no running callback, its receiver has
    started, it is still leased while that receiver runs on a live `c.ctx`,
    and an AckModeAck client has not returned it;
  - `CallbackInv`: a running callback holds its message's lease, that message
    is not queued, and `Receive` has not returned;
  - `LeaseInv`: only a `Receive` that has not returned holds leases, the
    receiver runs only after `receiverOnce` fired, and a stopping or closed
    client has a cancelled `c.ctx`;
  - `ReturnedInv`: a returned message was acked, or `c.ctx` is done, or the
    receiver stopped pulling for good.

  The property alone is not inductive. It needs to know where a message can be
  before it is returned, and that the receiver cannot be restarted within a
  client (`LeaseInv` with `receiverOnce`).
- `NoStranded`: `Spec => []NoStrandedLease`, for a `Receive` running on a
  live `c.ctx`; it says nothing after Close (see stranded_after_cancel). The
  invariant is not inductive on its own: it is proved preserved by every step
  under `IInv`. A take settles its message because a live `c.ctx` means the
  client is not closed (`LeaseInv`). `CallbackInv`
  gives the running callback's lease, and `ChanDistinct` with `TailElems` shows
  that a take removes only the settled head.
- `Refinement` (`PubSubClientRefinementProofs.tla`): `Spec => SubscriptionRefined`,
  in the usual form: `Init` maps to `Sub!Init`, and under `IInv /\ RefInv` every
  step maps to a `Sub!Next` step or a stutter (`RefStep`). `RefInv` adds:
  - a queued message is still leased, orphaned or available at the service, so
    an AckModeAck take is a `Return` of a pending message;
  - a message the service has not stored was never returned, so a rejection is
    a `Reject`.

  TLC also checked `RefInv` as an invariant on the refinement instance.
- Lemmas `AppendElems` and `TailElems` give the element set of `messageChan`
  after `Append` and `Tail`.

- `ExampleMainProofs.tla` covers the example program composed with the
  client. Its process exits (`ProcessExit`: `log.Fatalf` or return) leave the
  client's own `Next`. The lemma `MainStep` shows that every `MainNext` step is
  a client `Next` step or a `ProcessExit`. The `Exit*` lemmas then show that a
  `ProcessExit` preserves `IInv` and `RefInv`, keeps `NoStrandedLease`, and is
  a `Subscription` stutter (`ExitStutter`).
  `MainInv` records three facts:
  - main's own variables are in their types;
  - from `publishWait` on, `mainMsg` is a message;
  - from `receive` on, that message's publish succeeded.

  TLC checked `MainInv` as an invariant of the `example_main` run. With the
  inductive invariant `AllInv == IInv /\ RefInv /\ MainInv`:
  - `MainTypeCorrect`: `MainSpec => []MainTypeOK`;
  - `MainNoStranded`: `MainSpec => [](NoDuplicateWithinClient /\ NoStrandedLease)`
    holds across crashes and reruns;
  - `MainRefinement`: `MainSpec => Sub!Spec`. A crash is invisible to the
    service's abstract state.

Only model-checked:
- The liveness properties `ReceiverStopsAfterClose`, `EventuallyReceived` and
  `MainTerminates`. They rest on fairness, and the proofs here cover safety
  only.
- The violation runs (`AckedNotRedelivered`, `NoStrandedLeaseAfterCancel`,
  `EventuallyReceived` under errors, `MainReceivesOwn`): the properties fail,
  and the traces are the result.

## 4. Plan for the next sittings

1. Spec-modelled fuzzer core, from spec.md §3-§5:
   - `MessageQueue` (C2): keyed by (from, to, index); delivering a missing
     entry is a no-op;
   - `Guider` (C6): the state set and trace-hash dedup. An abstract spec,
     "coverage grows monotonically and new_states counts exactly the new keys",
     with the detailed Guider shown to refine it (INSTANCE ... WITH), plus a
     TLAPS proof of monotonicity;
   - `Mutator` (C7): the operators as functions over bounded traces, checked
     against reference definitions (swap preserves length and the multiset of
     choices);
   - `FuzzerDriver` (C8) with the replay-with-tail strategy (C4): composes
     Guider and Mutator, with a failing model-server call (C5) as a
     nondeterministic outcome. Checks that every executed trace is scored once
     and that mutants are enqueued only after a new state;
   - the Cluster Harness (C3) over an abstract node, with crash and restart.
     Checks that events are emitted in the §5 order and that
     AdvanceCommitIndex is emitted once per ready.

Not modelled: the tests (used as the source of expectations), the setup script and
Makefile (I/O), and the wire formats of C5.
