# Formal models of fastmcp_rust

TLA+ models of the parts of fastmcp_rust whose correctness depends on
interleavings, crashes and expiring leases, the TLC configurations that check
them on small instances, and TLAPS proofs of their most important properties
for every instance. `PROJECT.json` records the runs, the source lines each
definition models, the mutations each property must detect, the hazards that
motivate the properties, and the theorems.

Paths below are relative to `crates/` of the repository.

## 1. The system

fastmcp_rust implements both ends of the Model Context Protocol. A server
answers requests, runs tools, and may itself send requests to the client while
it serves one; a client connects, negotiates, sends requests and keeps OAuth
credentials. Two protocol eras (2024 and "final") are supported side by side.

### 1.1 Components

| Component | State it keeps | Operations | Interacts with | What is hard, what makes it correct |
|---|---|---|---|---|
| Reverse requests (`fastmcp-server/src/bidirectional.rs`) | map of pending ids to waiters, id counter, closed flag | register, route a response, evict, cancel all; the future `send_request` | reader loop, request cancellation, transport | response, termination, teardown and dropped futures race for one entry; no leak, no orphaned waiter, one answer, the peer is told |
| Credential custody (`fastmcp-client/src/http_auth/secure_file*`) | locked file, generation and tombstone records, external anchor | open, load, replace, take, invalidate, close | file system, deployment's anchor | a crash between any two effects; late compare-exchanges; restored backups; a credential is handed out at most once |
| Final Tasks (`fastmcp-server/src/tasks.rs`) | records, generations, leases, payloads, cancellation marks | create, update, cancel; claim, elect, renew, restore, finish; fenced outcomes; expiry | request handlers, task services, application, clock | leases expire under a living owner; cancellation races election; work must not be lost, stale owners must be fenced |
| Connection pump (`fastmcp-server/src/lib.rs`: dispatch queue, modern children, exact-2024 worker, active requests) | admitted ids with their cancellation words, slots and bytes in use, the bounded channel, the failure latches | admit, spawn or enqueue, cancel, begin, progress, answer, release, stop, shut down | transport, handlers, runtime, reverse requests | cancellation between admission, dispatch and response; reuse of an id; four separate critical sections to release one request; stop and shutdown against all of it |
| Subscription registry, SSE outcome gate (`fastmcp-server/src/lib.rs`) | open streams, the election phase of each, opening queues, receipts | open, acknowledge, publish, end by peer, handle or server, drain receipts | handlers, publishers, HTTP bodies | senders are called without a lock, so order, terminal election and delivery are decided by counters and phases; acknowledgement first, one terminal outcome, drained means flushed |
| MRTR exchange registry (`fastmcp-server/src/bidirectional.rs`) | one-use request states, rounds, collected answers | issue, retry, expire, close stateless issuance | request handlers, listener | check and use in two critical sections; duplicated retries; a fence that must not be passed by a request in progress |
| Client request executor (`fastmcp-client/src/execution.rs`) | pending executions, tombstones, retained outcomes, deferred cancellations | execute, wait, poll, drive, cancel, drop, fail, shut down | transport, owners' threads | late and duplicated responses across reuse of an id; cancellations sent by a later operation; deadlines |
| Client reverse callbacks (`fastmcp-client/src/lib.rs`) | registry of callbacks, their tasks, the writer | admit, cancel, elect, write, reap, fail, close | receive loop, handlers, transport | the loser of the election must not write; panics, failed writes and closing with callbacks in progress |
| OAuth server (`fastmcp-server/src/oauth.rs`) | clients, codes, token families, tombstones | register, authorize, redeem, rotate, revoke | HTTP, approval backend, random source | replay of rotated tokens, full tables, registrations replaced while an approval is pending |
| Server session (`session.rs`, `legacy_2024.rs`) | lifecycle phase, legacy subscriptions | initialize, subscribe, roll back | dispatch | rollback of a mutation whose response was not sent |
| Event store (`fastmcp-transport/src/event_store.rs`) | bounded event log | append, replay page, evict | SSE | cursors at the boundary of eviction |
| Caches, rate limits, partitions | counters and LRU lists | admit, release, expire | middleware | sequential, under one mutex each |
| Transports, codecs, listener | buffers and sockets | framing, accept, shutdown | everything | I/O |
| Router, handlers, builder, proxy, providers | tables fixed at build time | lookup, shaping | dispatch | no protocol of its own |
| Protocol types, macros, console, CLI, facade | none | | | data and code generation |

`PROJECT.json` lists each of them with its status and reason. The first nine
rows are modelled; they carry the concurrency, persistence, lease and replay
logic and meet the rest through narrow interfaces (a frame, a file, a store
call, a callback).

Docket (`fastmcp-server/src/docket.rs`) is deliberately left out: no module
declaration names the file, so it is not in the build (see also
`FEATURE_PARITY.md`).

### 1.2 How the modelled parts meet the rest

* A reverse call belongs to an incoming request. Of that request the model
  keeps only its cancellation word (`McpRequestCancellation` in
  `fastmcp-core/src/context.rs`: active, cancelled, finalizing); who sets it
  is left open, so every dispatch order is covered. The pump has the words of
  all its requests and is the one who sets them; what it does to pending
  reverse calls (`cancel_cancelled`, `cancel_all`) is in `ReverseRequests`.
* A `subscriptions/listen` request passes the pump like any other. Its wait,
  its election and its completion are in `Subscriptions`, which has the word
  of each listening request and leaves its setting to peer, context and server.
* The credential slot is used by the OAuth client. The model lets the owner
  call any operation at any time.
* Task services, request handlers and the application share only the store
  and the authorities a service hands out, and the model has all three.

## 2. Modules

| Module | Models | Checked by |
|---|---|---|
| `ReverseRequests` | `PendingRequests`, `PendingRequestGuard`, `RequestSender::send_request`, the cancellation word | `reverse` |
| `ReverseRequests_proofs` | theorems about it | tlapm |
| `CredentialSlot` | `SecureAtomicFile`, `DurableCredentialSlot`, `CoordinatedCredentialSlot` | `credential` |
| `CredentialCustody` | abstract specification: an atomic cell with at-most-once handoff | refined by `CredentialSlot` |
| `CredentialSlot_proofs` | theorems, including the refinement | tlapm |
| `FinalTaskStore` | the in-memory store's operations on one record | through `FinalTasks` |
| `FinalTasks` | runtime, services, execution guard, authorities, request handlers; composes `FinalTaskStore` with its users | `tasks`, `tasks_liveness` |
| `TaskLifecycle` | abstract specification: what a client may observe of a task | refined by `FinalTasks` |
| `FinalTasks_proofs` | theorems about it, the refinement of `TaskLifecycle` among them | tlapm |
| `DispatchState` | `DispatchQueueState`, one operator per critical section, and the cancellation words | through `ConnectionPump` |
| `ConnectionPump` | receive pump, modern children and their reservations, exact-2024 worker, active-request map, shutdown; composes `DispatchState` with its threads | `pump`, `pump_liveness` |
| `ConnectionPump_proofs` | theorems about it | tlapm |
| `TerminalDelivery` | the receipt of an HTTP subscription body | through `Subscriptions` |
| `Subscriptions` | `FinalSubscriptionRegistry`, the listeners, publishers and termination, the HTTP body with gate, receipt and writer | `subscriptions` |
| `SubscriptionContract` | abstract specification: the frames a stream may carry, and in which order | refined by `Subscriptions` |
| `Subscriptions_proofs` | theorems, including the refinement | tlapm |
| `ExchangeRegistry` | `MrtrExchangeRegistry` | `exchange` |
| `ClientExecutor` | `RequestExecutor` and its owners | `executor`, `executor_wakeup` |
| `ClientExecutor_proofs` | theorems about it | tlapm |
| `CallbackPool` | `ReverseCallbackState` and the stdio and WebSocket pools over it | `callbacks` |
| `Registries_proofs` | theorems about `ExchangeRegistry` and `CallbackPool` | tlapm |
| `OAuthGrants` | `OAuthServer` and `OAuthServerState` | `oauth` |
| `OAuthGrants_proofs` | theorems about it | tlapm |
| `MC*` | instances for TLC | |

Definitions commented *Faulty variant* are plausible mistakes in the code next
to which they stand. No specification uses them; each is substituted for the
correct definition to confirm that a property notices.

### 2.1 ReverseRequests

State: `requests` (the map, id to call), `nextId`, `closed`; for each call its
stage `pc`, its id, the value a router holds for it (`held`), the value in its
oneshot channel (`answer`) and its result; the cancellation word of each
request; and history (`requested`, `routed`, `notices`) of what the peer saw.

`Begin`, `Register`, `Recheck`, `Send`, `PollStopped`, `PollReceive`,
`PollDecide`, `FailCall`, `AcceptResponse` are the stretches of `send_request`
between two reads of shared state; `DropCall` is the guard's destructor.
`RouteResponse`, `CancelCancelled` and `CancelAll` are critical sections of the
tracker. They take a waiter out of the map but the code sends its value only
after unlocking, so delivery is a step of its own, `HandOver`.
`CancelRequest` and `BeginFinalization` (under `Terminate`) move the word;
`CancelCx` cancels the runtime context.

Abstracted: payloads become one of four outcomes of decoding (ok, undecodable,
error, cancelled by the peer). Timeouts are not in this code. Other responses
the peer may send (unknown ids, duplicates) are classified by `Disposition` and
change nothing.

### 2.2 CredentialSlot

State: `file` (what the directory entry names) and `durable` (what a power loss
leaves), `anchor` (sequence and a stable or pending state), `sent`
(compare-exchanges that may still apply), the owner's `pc`, `op`, `current`,
`snapshot`, `proposed`, and history (`takes`, `loaded`, `restores`).

A mutation is `Admit`, prepare (`PrepareReplace`, `PrepareTake`,
`Invalidate`), `AnchorIntent` and `IntentAnchored`, `Rename`, `Sync`,
`SettleCommit` and `CommitSettled`, then `Deliver` or `WithoutDelivery`.
Opening is `OpenFile`, `ReadAnchor`, `OpenStable` or `Recover`,
`SettleRecovery` and `RecoverySettled`. Every fallible call also has its
failure (`OpenFails`, `AdmitFails`, `ReadFails`, `Refuse`, `SyncFails`,
`CommitFails`). `Close` is the handle's end at any point, a crash included;
`PowerLoss` additionally reverts `file` to `durable`; `RestoreBackup` puts an
old record back.

The file lock admits one handle, so there is one owner. The anchor is external
and known through its trait: linearizable compare-exchange, whose answer may be
lost and which may apply later, also after its sender is gone. SHA-256 is
modelled as injective: a revision is its record. Both counters keep their
limits, `MaxGen` and `MaxSeq`.

### 2.3 FinalTaskStore and FinalTasks

`FinalTaskStore` has one operator per store operation on one record: status,
generation, initial payload, asked, accepted and historical input keys,
cancellation mark, fences used, lease. `FinalTasks` adds services, clients,
authorities and the clock. Each store call is one step, preceded by the
reclamation of expired leases and tasks that the code runs first (`Current`).

A service (`runner`) is entered, waits, wakes or scans for a candidate, claims
(`ClaimHandoff`), validates the claim with a second read (`ValidateClaim`),
elects (`ElectDispatch`), supervises with lease renewal (`RenewLease`), probes
for cancellation before and after, checks whether the application really moved
the task, and restores or finishes; the destructor's path has stages of its own
(`drop1`..`drop3`). `Crash` skips destructors. The application may use any
authority it was ever given, at any time (`AuthorityCommits`). A client request
reads, writes conditionally and re-reads: three steps.

Abstracted:
* The store draws generations and fences from two global counters and compares
  them only for one task; each task counts its own here. Allocation fails at
  `MaxGen` and `MaxFence`, as at `u64::MAX`.
* An instant becomes the fact that the clock has passed it (`due`, `aged`).
* Wakeups are advisory in the code and may be dropped, so a wakeup here may name
  any task, and the queue is not kept. A scan may pick any recoverable task,
  which covers every cursor.
* Principals, notifications, timestamps, page sizes and payload contents are
  left out.

### 2.4 DispatchState and ConnectionPump

The queue is one record `q`; each operator of `DispatchState` is one critical
section of its mutex. `ConnectionPump` adds the cancellation words, the
active-request map, the channel, the writer mutex and the threads: the pump
(`ReceiveRequest` to `PumpReply`, `ReceiveCancellation`, `EndOfInput`, then the
shutdown `CancelNotifications` to `Finish`), one child per modern request
(`ChildAdmitted` to `ReleaseReservation`) and the worker of an exact-2024
connection (`WorkerTake` to `WorkerStopped`). One step is one critical section,
one atomic operation on a word, or one frame written under the writer mutex.

The environment chooses what handlers, the transport and the runtime do:
return or panic, send or fail, refuse a child or never poll it, reject a
principal, time out. Left out: era negotiation, malformed frames, the progress
of a legacy request, the ambient `Cx`. The pump is taken to own the server's
lifecycle, as it does for stdio.

### 2.5 Subscriptions

Three kinds of stream share the registry: a stdio request, an HTTP body and an
in-process handle. A sender is always called without a lock; the call is a step
(`Acknowledge`, `DeliverOpening`, `DeliverEvent`, `SendControl`) between two
critical sections of the stream's election, whose `phase` counts the callbacks
in flight. `Terminate`, `TakeEntries`, `TerminateEntry` and `DrainReceipts` are
the server; `Decide`, `MarkGraceful`, `Wake` the completion that whoever
returns last carries out. An HTTP body has a dispatcher (`ElectOutcome`,
`CommitResponse`), a receipt and a socket writer (`WriterPop`, `WriterFlush`).
What a sender does with a frame is one of `Outcomes`: a sender that refused once
drops everything (`Mute`), and nothing can be committed once the context is
dead or the body is closed (`Barred`).

The variables `admitted` and `faulted` are history: the events in the order the
opening queue admitted them, and the streams something broke. `OpeningOrder` compares the event with rank k on a
stream (`Rank`) with the k-th one admitted.

The owner map of the registry holds exactly the http entries and is no variable
of its own. A connection's context and that of its dispatch child die together.
Left out: filters and tagging (every stream accepts every event), proxy relay
listeners, request deadlines, the Immediate election of a rejected capability,
deferred handler notifications and the in-process SSE reader.

### 2.6 ExchangeRegistry

`IssueStart` and `IssueCommit` are the two halves of `issue_at`;
`AcceptTyped`, `AcceptStateOnly`, or `AcceptWire` with `Decode`, lead to
`AcceptAt`, the second critical section, which consumes the state and completes
the exchange or mints its successor. Request states are numbers in the order
they are drawn; an answer is abstracted to its key and whether it decodes as
the kind that was asked for. Expiry is judged by the clock as read before the
lock, as in the code.

### 2.7 ClientExecutor

All state is one record `s` under the executor's mutex. An operation may send
several cancellations and the connection fails with the first that cannot be
sent, so operators map `s` to the set of its possible results. A dropped handle
sets a flag or queues its cancellation, and the next operation sends it. A
waiting owner reads the transport while it holds the mutex, unless a driver
hands frames in. `Patience` is an assumption on the peer: it answers an ended
execution at most that long afterwards, and the code keeps its tombstone
longer (`Retention`). The history `canceller` records, apart from the state of
the executor, whose handle asked for the end of an execution (`cancel`, a
cancelled wait, an accepted teardown), because these name an id and not an
execution. Left out: the peer's own requests, decoding, cancellation
events, task subscriptions, pagination.

### 2.8 CallbackPool

The receiving thread is a loop (`Drain`, `Request`, `DispatchReap`,
`AdmitCheck`, `Admit`, `Respond`, `PeerCancel`, `Close` and its steps); each
request has a task (`Start`, `HandlerReturns`, `TakeWriter`, `Claim`, `Write`,
`TaskFails`, `TaskCancelsAll`). Aborting a task is cooperative: its context is
cancelled, it goes on. The history `unheeded` holds the requests whose panic was
reaped while the connection lived on. Publishing and storing the terminal error are one step. The peer reuses an
id only once it was answered or cancelled, except under the fault
"duplicate". The formulas of the specification carry the prefix `Pool`
(`PoolInit`, `PoolNext`, `PoolSpec`), so that `Registries_proofs` can extend this
module and `ExchangeRegistry` together. Left out: decoding, requests answered without a handler, and the
other users of the writer.

### 2.9 OAuthGrants

The state is one record behind one lock, so an operation is one step, and each
begins with the expiry cleanup (`Clean`). `authorize` leaves the lock for the
approval backend: `AskApproval`, then `IssueCode` or `Decline`. `Redeem`,
`Rotate` and `Replay` are the token endpoint, `RevokeAccess` and
`RevokeRefresh` the revocation endpoint. The random draws of a token pair may
take up to `Delay`. Which of several equally old tombstones is evicted depends
on a hash map, so insertion has a set of results.

A credential is named by its grant and its number instead of a digest, so draws
never collide. Secrets, PKCE, redirect URIs and resource indicators decide only
whether a request is refused. A request refused before authentication changes
nothing; one refused after it still cleans up (`RefusedRequest`).

## 3. Model checking

All instances set `CHECK_DEADLOCK FALSE`: a connection with all its calls done,
a counter at its limit and a stopped service are legitimate ends.

Where one component needs several environments to show its cases, the run
checks them together: a variable chosen in the initial state and never changed
(`scenario`, or `shape` in `MCFinalTasks` and `MCOAuthGrants`) says which frames
are sent, which faults happen and which bounds apply.

| Run | Instance | Checks | States |
|---|---|---|---|
| `reverse` | 2 calls, one owned by a request and one free; 2024 era, ids -1 and -2; limit 1 | `TrackerIsExact`, `WaitersAreServed`, `PeerToldToStop`, `TerminalOwnerNeverAnswered`; `CallsAreReleased` under `FairSpec` | 224 224 |
| `credential` | 2 payloads, generations to 3, sequence to 7, one restored backup | `TakeAtMostOnce`, `AnchorIsSound`, `NeverGoesBack`, `RefinesCustody` | 369 570 |
| `tasks` | 1 task; 2 services and 1 client, or 1 service, 2 clients and 2 keys; generations to 5, fences to 2 | `NothingIsStranded`, `LapsedNeverCommits`, `RefinesLifecycle` | 1 583 023 |
| `tasks_liveness` | 1 task, 1 service that stops or crashes once, 1 client, 1 key | `WorkMovesOn` under `FairSpec` | 263 341 |
| `pump` | `MCSafety`: failing sends and panics; a reused id with cancellations and a runtime that loses children; the exact-2024 worker | `OwnershipIsExact`, `AnswersAreExact`, `CancellationIsExact`, `ShutdownIsHonest`, `CancellationIsFinal` | 3 007 842 |
| `pump_liveness` | `MCEnding`: a request and a notification, or two legacy requests | `ConnectionEnds` under `FairSpec` | 268 545 |
| `subscriptions` | five scenarios of `MCScenarios`: 1 or 2 streams, 1 or 2 publishers, up to 3 events, a queue of 1 or 2 | `OrderIsKept`, `ElectionIsExact`, `EndIsDelivered`, `StreamContract`; `StreamsEnd` under `FairSpec` | 198 419 |
| `exchange` | 2 issuing requests, one stateless, for 1 slot; 2 retries; 2 keys and a stray one; 2 rounds; period 2 | `AcceptanceIsExact`, `ExchangesAreBounded`, `StatelessFence`, `NothingIsBurnt` | 2 591 057 |
| `executor` | 2 executions of one id, or 2 waiting owners; limits 2; time to 3 | `IdsAreNeverConfused`, `NoOwnerIsStranded`, `OutcomeIsFinal`, `DeadlinesBind` | 302 634 |
| `executor_wakeup` | 2 waiting owners, no fault | expected violation, section 5 | |
| `callbacks` | 2 requests of one id with faults, 3 requests for 2 places, or 2 requests with panics, failed writes and cancelled contexts; each for stdio and WebSocket | `RegistryIsExact`, `NothingIsSwallowed`, `ElectionDecides`; `EveryRequestSettles` under `PoolFairSpec` | 468 669 |
| `oauth` | 2 clients, 3 registrations, 2 grants rotated once; or 1 registration, 2 grants rotated twice; 1 scope; at most 3 tombstones, 2 of a client | `RotationIsExact`, `EndedStaysEnded`, `RetainedIsBound`, `FamilyNeverGrows` | 469 702 |

Related invariants are checked together under one name. The parts keep their
names and their comments, and the mutations include one aimed at each part:

| Property | Parts |
|---|---|
| `TrackerIsExact` | `TypeOK`, `InFlightBound`, `ClosedIsEmpty`, `NoLeakedSlot`, `SuffixIsIssued` |
| `WaitersAreServed` | `WaiterReachable`, `AnsweredOnce` |
| `AnchorIsSound` | `TypeOK`, `PendingCanSettle`, `FileMatchesAnchor` |
| `NeverGoesBack` | `NoReadAfterTake`, `NoRollback` |
| `NothingIsStranded` | `TypeOK`, `CancellationNeverStranded`, `WorkNeverLost` |
| `WorkMovesOn` | `CancellationSettles`, `WorkIsDispatched` |
| `OwnershipIsExact` | `TypeOK`, `OwnershipIsExclusive`, `CapacityIsAccounted` |
| `AnswersAreExact` | `AnsweredOnce`, `CleanExitAnswersAll` |
| `CancellationIsExact` | `CancelledOnlyIfAsked`, `StopReachesEveryone` |
| `ShutdownIsHonest` | `HookIsLast`, `FailureIsReported` |
| `OrderIsKept` | `OpeningOrder`, `PublisherOrder` |
| `ElectionIsExact` | `TypeOK`, `InFlightIsExact`, `GracefulIsElected`, `NoStreamEscapes` |
| `EndIsDelivered` | `GracefulCloseIsAnswered`, `DrainedIsFlushed` |
| `StreamsEnd` | `TerminationCompletes`, `ListenersReturn` |
| `AcceptanceIsExact` | `OneUse`, `CompletionIsExact` |
| `ExchangesAreBounded` | `TypeOK`, `LimitsHold`, `DeadlineIsInherited` |
| `IdsAreNeverConfused` | `TypeOK`, `IdsAreExclusive`, `AnswersMatch`, `CancelReachesItsRequest`, `CancelNamesItsOwner` |
| `RegistryIsExact` | `TypeOK`, `LostOwnerIsTold`, `NoEntryOutlivesClosing`, `CapacityHolds` |
| `NothingIsSwallowed` | `PanicIsTerminal`, `ElectedIsWritten` |
| `ElectionDecides` | `OnlyElectedWrites`, `ElectionIsFinal` |
| `RotationIsExact` | `OneRefreshPerGrant`, `RotatedIsGuarded` |
| `RetainedIsBound` | `TypeOK`, `BoundToRegistration` |

Why the bounds suffice:
* Reverse requests: two calls put two waiters in contention for a limit of one,
  for the last id and for one teardown. Every property speaks of one or two
  calls. The theorems remove the bound.
* Credentials: generation 3 is a put, a take and a further put; a sequence of
  7 lets three full transactions settle and makes the next intent run into the
  reserve; one restored backup is the rollback the anchor exists to detect.
* Tasks: records of different tasks share nothing but `max_tasks`, so one task
  carries all the contention. Three generations are a creation, an expired
  lease with a re-election, and an outcome; five are two rounds of input. Two
  fences are a first and a second election.
* Pump: requests meet in one id, one slot, the byte budget, the channel, the
  writer and the stop. Two requests compete for each of them, and the third
  frame is a notification, or the request that comes after an id was released.
* Subscriptions: an election has at most one opener, the publishers and the
  server; two publishers can be in a callback while the third party terminates.
  A queue of two and three events overflow it; two streams compete for a slot.
* Exchanges: two retries are a request and its duplicate, two issues compete
  for the one slot, and two rounds with two inputs allow one partial answer and
  its completion.
* Executor and callbacks: two uses of one id are what can be confused, and a
  clock past the retention lets the handle of the first reach the second; three
  requests exceed a limit of two; a second request is what reaps, or is told of,
  the end of the first.
* OAuth: two rotations leave two guards, which fill a client's share of the
  tombstones, so the next marker has to evict or give way; a family's deadline
  passes within the run, also during a draw.

Symmetry is used only where no liveness is checked.

### 3.1 Fairness

* `ReverseRequests!Fairness`: a started call whose future is woken is polled
  (`CallStep`), and a thread that removed a waiter goes on to send its value
  (`HandOver`, straight-line code). Nothing is assumed of the peer.
* `FinalTasks!Fairness`: a service is re-entered and polled (`RunnerStep`), and
  a lease nobody renews or releases runs out, because time passes. Nothing is
  assumed of the application or of clients. Interruptions are bounded by
  `MaxStops`: a service that crashes forever before each election dispatches
  nothing, in the code too. Both properties excuse counters at their limits,
  where the code itself refuses.
* `ConnectionPump!Fairness`: weak fairness of each thread. A handler returns
  once it is cancelled, a send ends, and a thread gets the writer mutex when it
  stays free; nothing is assumed of a mutex that is taken again and again. No
  frame of the peer has to come.
* `Subscriptions!FairSpec`: weak fairness of each thread: a listener (from its
  opening to its completion), a body's writer, a publisher, the server once it
  terminates. Callbacks return or panic. Nobody has to publish, cancel or
  terminate.
* `ClientExecutor!FairSpec` (only in the violation run): time passes, expired
  executions are polled for, and an owner inside `wait` continues when it can.
  Nothing is assumed of the peer, so a read may block as long as no frame comes.
* `CallbackPool!PoolFairSpec`: the receiving thread finishes the turn it is in,
  tasks are run, handlers return or panic. It need not receive again.

`CredentialSlot`, `ExchangeRegistry` and `OAuthGrants` have no liveness: every
operation may be refused or fail for good, and nothing is retried by the code.

## 4. Proofs

Each theorem holds for all constants that satisfy the modules' named
assumptions: any number of calls, tasks, services, clients and keys, and any
counter limits. The assumptions only say that sentinel values are outside the
sets they mark, that limits are naturals (positive where the code refuses
zero) with a per-client limit at most the global one, that the sets of
executions, requests, keys, streams and publishers are finite, that lifetimes are positive and an
access token's is at most its refresh token's, and that an id domain is not
empty; TLC evaluates them in the runs. The bounds that cap a run (`MaxTime`,
`MaxGrants`, `MaxEpoch`, `MaxRotations`) are arbitrary naturals in the proofs.

### 4.1 ReverseRequests_proofs

`IInv` adds to the safety properties that a call has an id from registration
on and none before (`IdOfCall`), that the id counter is past every issued id
(`Issued`), that no two calls share one (`DistinctIds`), and that a call which
polled its receiver holds a value of the kind its branch handles
(`AnswerHeld`). Without `Issued` and `DistinctIds`, a
registration could overwrite a live entry and `WaiterReachable` would not be
inductive. From it follow `TypeCorrect`, `SlotsAreFreed`,
`WaitersStayReachable`, `TeardownLeavesNothing`. `LimitIsKept` adds that the
map grows by at most one entry per registration (cardinalities of finite
sets). `SuffixClassificationExact` rests on `Gapless`: every id the counter has
passed belongs to a call. `AbandonedPeersAreTold` rests on `PeerInv`, which
ties what the peer saw to the stage of the call. `AnsweredAtMostOnce` rests on
`OneValue`: nothing is sent to a call before it registers, and nothing is on its
way while its entry is in the map; `AnsweredOnce` alone says nothing of a call
that has yet to register. `TerminationWins` needs that a running call has no
result yet and that the error arm never holds a successful outcome. With
`TrackerStaysExact` and `WaitersStayServed`, which combine them, every safety
property of the run is proved.

### 4.2 CredentialSlot_proofs

`IInv` says that every compare-exchange in flight is one of the two legal
steps and leaves room in the sequence for its settlement (`RequestsInv`), that
anchor and snapshot are well formed and the snapshot's floor is not above the
anchor's (`AnchorInv`), what the owner knows of its own snapshot at each stage
(`OwnerInv`), and that generations handed out lie below the anchor's floor and
below the floor an open owner has seen (`TakenInv`). The
floor, the settled generation, never falls along a step. That gives
`NeverRedelivered`, `TakenNeverRead`, `IntentsCanSettle` and
`SettledNeverRolledBack`, restored backups included, and `TypeCorrect`;
`CredentialsNeverGoBack` combines two of them.

`RInv` (sequence exactness, disk contents, the take's handoff, agreement of
file and anchor) holds until a backup is restored and gives
`AnchorNamesTheFile` and with it `AnchorStaysSound`. Together they give `ImplementsCustody`: until the first
backup is restored, every step is a step of `CredentialCustody` or a stutter. The
cell is what a power loss would leave, and a take's payload is outside the
cell from the directory sync until it is delivered or dropped.

### 4.3 FinalTasks_proofs

The argument is one lemma per store operation. `RecInv` says when a record may
hold a lease, a payload and a cancellation. `StepOK(x, y)` says how a record
may move: generations and fences only grow, and one generation never changes
status. `RunOK` and `ReqOK` bound what services and clients believe of a record
by its past, so `StepOK` keeps them true under everybody else's steps.
`LedgerOK` separates committed from lapsed fences. The conjunction is `IInv`;
TLC checks it on the instances before it is proved. It gives `TypeCorrect`,
`CancellationHasADispatch`, `WorkIsKept` (together `NothingStaysStranded`) and
`LapsedIsFenced`.

A by-product of the argument (a conjunct of `RunOK`): when a service reaches
`finish_handoff`, its task has moved to a later generation, is cancelled, or
has passed its retention, so the call never finds a dispatch to release
(`NothingToFinish`).

`ImplementsLifecycle` is the refinement `RefinesLifecycle`. It needs
`RoundsOK` on top of `IInv` (TLC checked it on the instance of `tasks` first):
a task asks for input exactly while it is `input_required`, has all it asks in
its history, and has no answers once a cancellation is recorded (`RoundInv`);
and a `tasks/update` handler about to store answers has split the questions of
the generation it read (`Reading`), which stays true because one generation
never changes what is asked. `RoundStep(x, y)` says that an operation is one
step of the task's life or none. An operation also reclaims every task first,
which could make it two steps at once; it does not, because a task that is
still active after the reclamation has the life it had before
(`ReclaimRound`, `ComposedRound`), and one that is not is refused by the
operation.

### 4.4 Registries_proofs

Two registries of exchanges in progress, the server's and the client's; their
proofs share the facts about finite sets and their cardinality.

In `ExchangeRegistry`, `IInv` ties every retained exchange to the request that
issued it: its binding and its deadline are those of the issue (`Descends`),
and each input is either still asked for or answered by a retry that was
accepted with that binding (`Accounted`). `AcceptedWasIssued` says the same of
a retry after its exchange has left the map, without which `OneUse` is not
inductive; `Fenced` says that nothing stateless is retained once the fence is
up. Each operation is one of four kinds of step on the map (entries leave, the
stage of a request moves, an exchange is issued, an exchange is taken by a
retry), and the conjuncts are shown per kind (`Shrinks`, `Moves`, `Grows`,
`Takes`). `AcceptanceHolds` and `BoundsHold` follow from the invariant;
`FenceHolds` and `NothingBurns`, the action properties, from the invariant and
the case analysis of a step.

In `CallbackPool`, what carries the properties is how entries, tokens and tasks
move together (`PoolInv`). An answer is written before its task ends or without
one (`AnswerEndsTask`); the token of an entry, and of a request without a task,
is open, and one that was sent belongs to a task past its election
(`TokenFollowsTask`); the request the receiving thread works on has neither
task nor answer (`CurrentIsFresh`); and the room that dispatch found is still
there when the request is admitted, although tasks end in between
(`RoomIsKept`). A task that is about to cancel the entries has stored its error
(`FailureIsStored`), which is why the task of an elected response ends only
after the response was written or the connection failed. `RegistryHolds` and
`NothingDisappears` follow, `ElectionHolds` from a case analysis of a step.
`NothingDisappears` leaves one case open, because the code does: a WebSocket
task whose own context was cancelled (section 5).

### 4.5 ClientExecutor_proofs

One call of the executor is a chain of operations on its state (expire, admit,
route, cancel, fail, put away), so the invariant is a predicate `Good(s)` of
one state and each link has a lemma: it keeps `Good`, and it relates the states
by `Evolves` (executions leave `pending` with an outcome, and only so does an
outcome change) or by `Quiet` (besides, no response is given and no deadline
moves). Both relations compose, which gives the chains. The key conjunct is
`EndedIsBuried`: for as long as an ended execution is within its retention, the
tombstone of its id lasts at least as long; with the other facts about the
latest owner of an id it shows that a response can only reach the execution it
answers. `IdsHold` assumes `Patience < Retention`: with a peer slower than the
retention of tombstones the property is false of the code too. Who cancelled
whom is a second layer over the first (`BlameInv`): an execution that ends on
the request of a handle has the id of that handle (`Hits`), and if it is not the
handle's own, then that one is over (`Owned`, `OneNamespace`) and its id is no
longer buried, so its retention has passed (`OnlyLateSuccessors`). `OwnersAreServed`
needs that the reader's lock is held only by an owner that is reading;
`OutcomesAreFinal` and `DeadlinesHold` are read off `Evolves` and `Quiet`.

### 4.6 OAuthGrants_proofs

The invariant is again a predicate of one state of the server, `Good`, with the
history of issued, ended and revoked grants as parameters. `Lineage` says that a
grant has one owner, that its code precedes its tokens, that rotation numbers do
not repeat, and that everything retained is bound to the registration it was
issued under; `Guarded` that every rotated refresh token whose family is alive
has a replay guard which outlives the family; `Limited` that the tables are
within their limits. Most operations only take away: `Follows(s, u)` captures
them once, and `FollowsKeeps` shows that they keep `Lineage`. What is left are
the insertions. `InsertKeeps` shows that inserting a tombstone evicts no guard
and exceeds no limit, `InsertAllKeeps` extends it to the sequence of tombstones
a revocation leaves (a recursive function on lengths, handled by the
least-number principle). Rotation is the remaining case: the new token's family
is the image of the old one, shifted by one rotation. TLC checked `IInv` on the
instance of the `oauth` run before it was proved. `RetentionHolds`,
`RotationHolds` and `RevocationHolds` follow from it, and
`FamiliesKeepTheirDeadline` from the same case analysis of a step.

### 4.7 ConnectionPump_proofs

The proof has layers, each an inductive invariant that assumes the ones before
it, and each checked by TLC on the instance of the `pump` run before it was
proved. A lemma per step (`...Effect`) says once what the step does to the
state; the layers cite it instead of the action.

* Custody, `IInv`. `OwnershipIsExact` says that who holds an id, a slot or
  bytes is the one the queue has on record. It is not inductive: a step that
  takes over a request must know that no other thread has it too. `Stages` and
  `Fresh` say where a request may be while the pump has it in hand, `Eras` that
  an exact-2024 connection has no children and a modern one gives the worker
  nothing, `Mail` that a request is in the channel at most once, and `Guarded`
  that an active entry is kept by the guard of its owner. Slots and bytes are
  the cardinality and the weight of the set of holders; the sum over a set is a
  fold, so its step (`WeightIsASum` and what follows it) is derived by the
  least-number principle. It gives `OwnershipHolds`.
* `Shutdown`: who writes holds the writer, only the actors of a stop still have
  copies to cancel, a registered child has not left, and `childrenQuiesced` and
  the hook mean what they say. It gives `ShutdownHolds`.
* `Cancelling`: every trace of a cancellation (a cancelled word, a mark under
  an id, a copy a stop took, a start that was refused) has a cause, only a
  request past its dispatch finalizes, and what a stop did not copy was
  cancelled when it registered. It gives `CancellationHolds`.
* `Settled`: an accepted cancellation has set the word for good, no frame of
  that request is being written, and no other request guards its id. It gives
  the action property `CancellationStaysFinal`.
* `Answering`: who serves a request was admitted (`Admitted`), the frame the
  pump has in hand is unanswered (`InHand`), who may still answer has not
  (`Once`), a stop has a cause (`StopHasACause`), a pump that went on after the
  drain leaves nobody reserved (`Drained`), and every request taken is served,
  owned or in hand (`Outstanding`). For the last one a thread that lets go of a
  request must know that it is served: `Rejected`, `Settling` and
  `WorkerSettling` say so at the stage where each thread does, and
  `DroppedIsAsked` for the request the worker drops unserved. It gives
  `AnswersHold`.

`Writers` says which steps write a variable; a layer has cases only for the
steps that write what it is about, and cites `Writers` for all the others.
`RequestAssumption` and `ConnectionAssumption` are the only assumptions: finite
sets, natural limits, sentinels outside the sets they mark, and pairwise
distinct frames (a request of the model is one frame of the peer, and two
frames may well have one id).

### 4.8 Subscriptions_proofs

Fifty-two actions of five kinds of thread write eighteen variables, so the proof
is built from postconditions. Each action `X` has a definition `XDoes`, its
guard and its updates component by component, and a lemma `XEffect` that the
action does that and keeps the types. `Writers` lists with every variable the
steps that write it. Everything after that cites these and never an action.

The invariants are layered; each layer assumes the ones before it, and TLC
checked each on the instance of the `subscriptions` run before it was proved.

* Election, `EInv`. `InFlightIsExact` compares a counter with the callbacks in
  flight and is not inductive: a callback that returns must know that the phase
  still counts it. `Stages` ties the phase to how far the listener has come,
  `Callbacks` says that publishers call only streams that were drained,
  `Counted` that a pending termination waits for as many callbacks as there
  are (a cardinality), `Completion` that one actor completes a termination, and
  only one that was elected, `Shutdown` and `Kept` that a stream which is open
  when the server terminates is registered, still to be visited, or being
  revoked. It gives `StreamElectionHolds`.
* End, `EndInv`. That a listener fails only on a broken stream is shown by
  tracing each signal to its cause: the cancelled word, the dead context, the
  ended phase, the failed body or receipt (`Signals`, `Receipted`, `Broken`),
  where a listener or a completion gives up (`Leaves`) and what it returned
  (`Returned`). `Responded` and `Flushing` say what the writer can find on the
  stream; `Drained` follows from them. It gives `StreamEndHolds`.
* Contract, `WireInv`. `Greeted` says that whoever can send on a stream finds
  the acknowledgement there, or can send nothing more (`Acked`); `Withdrawn` and
  `Resting` that nothing is on its way once the terminal control was sent;
  `Unelected`, `Quiet` and `Departed` what is left when a termination is taken
  back or the peer ended the stream; `Answered` that a response closes a body.
  `FrameCauses` shows that six steps put a frame on a stream, and each is a step
  of the contract. It gives `ContractHolds`.
* Order, `OrderInv`. A stream's line is the event its listener has in hand
  followed by its opening queue. While the stream takes frames, the line is
  exactly what was admitted and is not on the stream yet (`Fed`); publishers
  send on the stream themselves only when all of it is there (`Served`), and
  nothing else is there before that (`Within`). For the order of one publisher's
  events `Sorted` extends the order along the line, and `Bounded` says that an
  event which its publisher still owes a stream was not seen there. A step keeps
  the line, takes its head, adds to its end, or passes an empty one (`LineMoves`).
  It gives `OrderHolds`.

`ActorAssumption` and `ScenarioAssumption` are the only assumptions: the sets of
streams and publishers are finite and disjoint, limits are natural and not zero.
Any scenario may be chosen, with every combination of stream kinds and faults.

### 4.9 Model-checked only

Liveness (`CallsAreReleased`, `WorkMovesOn`, `ConnectionEnds`, `StreamsEnd`,
`EveryRequestSettles`) and reasoning about `ENABLED` are outside the prover's
reach. So are the library's induction principles, which take an operator; where
a proof needs induction over the naturals it uses the existence of least
elements instead. Every safety and action property of the passing runs is
stated by a theorem.

## 5. Findings

* `executor_wakeup`: `wait_for_terminal` looks for its outcome, releases the
  mutex and then drives (`fastmcp-client/src/execution.rs:2521`). If another
  owner routes this owner's response in between, it reads the transport
  without looking again and may block for ever. The comment at
  `execution.rs:1287` says that a reordered response "becomes available to its
  owner rather than being consumed by the request currently driving the
  reader".

The models also contain the following, which no run singles out. In each case
code and comment (or code and code) disagree; the properties above are stated
so that they hold of what the code does.

* After the durable commit of a new task, `validate_committed_new_task`
  re-reads it and fails the request unless it still equals what was written
  (`tasks.rs:5687`; `tasks/update` and `tasks/cancel` do the same). A service
  that finishes the task in between turns an accepted creation into an
  internal error, although the comment at `tasks.rs:5693` says "The durable
  commit above is the acceptance point." In the model: `ClientConfirms`.
* A task reclaimed between its claim and the claim's validation makes
  `validate_claim_snapshot_still_current` fail (`tasks.rs:5553`), and the error
  ends `run_service`; the comment at `tasks.rs:4847` says "Its absence must not
  stop recovery of other durable work." In the model: `ValidateClaim`.
* An exact-2024 request the adapter answers without the active guard (ping,
  logging/setLevel) is answered although its cancellation was accepted
  (`fastmcp-server/src/lib.rs:2311`), against `lib.rs:16712`: "an accepted
  cancellation as the peer relinquishing its response". In the model: the
  requests in `Untracked`, which `CancellationIsFinal` excepts.
* The first check of a turn of the listen loop drops the lease as soon as the
  context is dead (`lib.rs:13819`), before the second one, whose comment at
  `lib.rs:13910` says "Keep the lease registered until the owning server
  lifecycle performs its global terminal election." In the model:
  `ListenReturn` and `ListenHold`.
* `RequestExecutor::cancel` names the id and not the generation of its handle
  (`execution.rs:2331`): once the traces of its own execution have expired, it
  cancels a later execution of the id, while `Drop` of the same handle does
  compare the generation (`execution.rs:3514`). `accept_subscription_teardown`
  names the id too (`execution.rs:2343`). `CancelNamesItsOwner` states what is
  left: no other id, and no successor within the retention.
* The stdio pool reaps before it dispatches (`fastmcp-client/src/lib.rs:3339`),
  so a callback's panic may become the answer to an unrelated request and the
  connection lives on, with the request of the callback unanswered; the
  WebSocket pool excludes this (`lib.rs:5170`). `PanicIsTerminal` is stated of
  the WebSocket pool.
* The WebSocket pool takes a write prevented by a cancelled context for a
  suppressed response (`lib.rs:5092`), so an elected response is dropped
  without a failure when the owning context is cancelled during the write. On
  stdio such a write fails the connection. `ElectedIsWritten` excepts only the
  WebSocket task whose own context was cancelled.
* A task whose owning context is cancelled before it has begun is reaped, its id
  becomes free (`lib.rs:3432`, `lib.rs:5153`), and its request gets no answer on
  a connection that lives on.

The last three are exactly the requests that `EveryRequestSettles` gives up
(`LeftUnanswered`). The run `callbacks` reaches each of them: without any one of
the exceptions TLC refutes the property.

## 6. Not modelled, and plan

`PROJECT.json` gives the reason for each component left out: most are I/O,
data types, code generation or sequential tables under one mutex. Of the
modelled ones these hazards have no property:

* Notifications of task transitions are emitted after the store lock is
  released, so an observer may see an older status later (`tasks.rs:5783`); the
  fanout is not modelled.
* With several tasks the recovery scan's cursor keeps a failing low identifier
  from starving later ones (`tasks.rs:3571`); the model lets a scan pick any
  task.

Further work, in this order:

1. Server session: lifecycle phases and rollback of unsent mutations.
2. Extensions of `FinalTasks`: scan cursors among several tasks, notification
   order.
3. Event store, client result cache and partition admission as modules of pure
   operators.
