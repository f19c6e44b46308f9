--------------------------- MODULE ConnectionPump ---------------------------
(***************************************************************************)
(* One connection of the stdio server: the receive pump that admits frames, *)
(* the blocking child of each modern request with its                      *)
(* ModernDispatchReservation, the single worker thread of an exact-2024    *)
(* connection, and the pump's shutdown (run_loop_pump_with_policy and the   *)
(* types it uses, fastmcp-server/src/lib.rs).                              *)
(*                                                                         *)
(* One step is one critical section of the queue mutex, the active-request *)
(* map or the writer, or one atomic operation on a cancellation word.      *)
(* Handlers, the transport and the runtime that runs the children are the  *)
(* environment: they choose among the outcomes the code distinguishes.     *)
(***************************************************************************)
EXTENDS DispatchState, Sequences, FiniteSetsExt

CONSTANTS
  Pump, Worker, Free,
  Response       \* a message of the dispatch queue that is not a request: LegacyResponse

Modern == scenario.modern             \* negotiated era: Modern2026 or Legacy2024
Frames == scenario.frames             \* the request frames in the order the peer sends them
Untracked == scenario.untracked       \* legacy requests answered without a guard (ping)
SendOutcomes == scenario.sendOutcomes \* results of the transport's send
Faults == scenario.faults             \* faults of the environment that may happen
MaxCancels == scenario.maxCancels     \* notifications/cancelled frames of the peer
MaxProgress == scenario.maxProgress   \* progress notifications of a handler
Detach == scenario.detach             \* detach_on_worker_timeout

ASSUME ConnectionAssumption ==
  /\ \A s \in Scenarios :
       /\ s.modern \in BOOLEAN /\ s.detach \in BOOLEAN
       /\ s.frames \in Seq(Reqs) /\ s.untracked \subseteq Reqs
       /\ \A m, n \in DOMAIN s.frames : s.frames[m] = s.frames[n] => m = n
       /\ "ok" \in s.sendOutcomes /\ s.sendOutcomes \subseteq {"ok", "cancelled", "failed"}
       /\ s.faults \subseteq {"timeout", "panic", "adapter", "refused", "unpolled",
                              "principal", "stop", "response"}
       /\ s.maxCancels \in Nat /\ s.maxProgress \in Nat
  /\ {Pump, Worker, Free, NoReq, Response} \cap Reqs = {}
  /\ Free \notin {Pump, Worker} /\ Pump # Worker

VARIABLES
  q,          \* DispatchQueueState
  word,       \* McpRequestCancellation of each request
  active,     \* Server::active_requests of this session
  mailbox,    \* the bounded channel between the pump and the worker
  writer,     \* holder of the writer mutex
  failed,     \* worker_failed
  pump,       \* the receive pump: pc, request in hand, reply, exit code, ...
  child,      \* where the child of each modern request is
  outcome,    \* what the child's closure returned
  worker,     \* the dispatch worker thread
  admission,  \* DispatchPrincipalAdmission of each request
  toCancel,   \* words each actor copied in stop and has not cancelled yet
  next,       \* next frame of the peer
  cancels,    \* cancellation frames received
  replies,    \* response frames sent for each request frame
  progress,   \* progress frames sent for each request
  accepted,   \* requests whose peer cancellation was accepted
  lost        \* requests the runtime or a cancelled send took away

requests == <<q, word, active>>
channels == <<mailbox, writer>>
children == <<child, outcome>>
wire == <<replies, progress>>
peer == <<scenario, next, cancels, wire, accepted, lost>>
vars == <<requests, channels, failed, pump, children, worker, admission, toCancel,
          peer>>

Actors == Reqs \cup {Pump, Worker}
Kinds == {"ok", "cancelled", "duplicate", "overloaded", "rejected",
          "unavailable", "none"}
ChildPcs == {"idle", "waiting", "begun", "guarded", "start_cancelled", "running",
             "progress", "respond", "replying", "duplicate", "unguard", "settle",
             "fail", "stop", "discard", "unregister", "bytes", "slot", "gone"}
PumpPcs == {"recv", "check", "admit", "slot", "bytes", "register", "spawn",
            "refused", "enqueue", "bind", "reply", "lookup", "leave", "drain",
            "stop", "active", "children", "children_late", "worker",
            "worker_late", "finish", "done"}
WorkerPcs == {"idle", "taken", "waiting", "begin", "check",
              "handle", "running", "respond", "replying",
              "unguard", "discard", "end", "fail", "stop", "stopped", "gone"}

\* Types: the queue, the pump, its children, the worker and the frames.
TypeOK ==
  /\ scenario \in Scenarios
  /\ q \in QueueStates
  /\ word \in [Reqs -> Words]
  /\ active \in [Ids -> Reqs \cup {NoReq}]
  /\ mailbox \in Seq(Reqs \cup {Response}) /\ Len(mailbox) <= Depth
  /\ writer \in Actors \cup {Free}
  /\ failed \in BOOLEAN
  /\ pump \in [pc: PumpPcs, req: Reqs \cup {NoReq}, reply: Kinds, exit: {0, 1},
               eof: BOOLEAN, childrenQuiesced: BOOLEAN, hook: BOOLEAN,
               target: Ids \cup {NoId}]
  /\ child \in [Reqs -> ChildPcs]
  /\ outcome \in [Reqs -> {"none", "ok", "cancelled", "failed"}]
  /\ worker \in [pc: WorkerPcs, job: Reqs \cup {NoReq}, dropped: BOOLEAN,
                 kind: Kinds, clean: BOOLEAN, sent: {"ok", "cancelled", "failed"}]
  /\ admission \in [Reqs -> {"pending", "admitted", "rejected"}]
  /\ toCancel \in [Actors -> SUBSET Reqs]
  /\ next \in 1..(Len(Frames) + 1)
  /\ cancels \in 0..MaxCancels
  /\ replies \in [Reqs -> Seq(Kinds)]
  /\ progress \in [Reqs -> 0..MaxProgress]
  /\ accepted \subseteq Reqs /\ lost \subseteq Reqs

Init ==
  /\ scenario \in Scenarios
  /\ q = EmptyQueue
  /\ word = [r \in Reqs |-> "active"]
  /\ active = [i \in Ids |-> NoReq]
  /\ mailbox = <<>>
  /\ writer = Free
  /\ failed = FALSE
  /\ pump = [pc |-> "recv", req |-> NoReq, reply |-> "none", exit |-> 0,
             eof |-> FALSE, childrenQuiesced |-> FALSE, hook |-> FALSE,
             target |-> NoId]
  /\ child = [r \in Reqs |-> "idle"]
  /\ outcome = [r \in Reqs |-> "none"]
  /\ worker = [pc |-> "idle", job |-> NoReq, dropped |-> FALSE, kind |-> "none",
               clean |-> FALSE, sent |-> "ok"]
  /\ admission = [r \in Reqs |-> "pending"]
  /\ toCancel = [a \in Actors |-> {}]
  /\ next = 1
  /\ cancels = 0
  /\ replies = [r \in Reqs |-> <<>>]
  /\ progress = [r \in Reqs |-> 0]
  /\ accepted = {}
  /\ lost = {}

-----------------------------------------------------------------------------
(* The pump: receiving and admitting. *)

PumpAt(pc) == pump.pc = pc
GoTo(pc) == pump' = [pump EXCEPT !.pc = pc]
Answer(kind) == pump' = [pump EXCEPT !.pc = "reply", !.reply = kind]
\* An id-less frame that is refused is dropped in silence.
Refuse(r, kind) == IF Correlated(r) THEN Answer(kind) ELSE GoTo("recv")

\* Every frame is taken only while the worker has not failed.
ReceiveRequest ==
  /\ PumpAt("recv") /\ ~failed /\ next <= Len(Frames)
  /\ next' = next + 1
  /\ pump' = [pump EXCEPT !.req = Frames[next],
                          !.pc = IF Correlated(Frames[next]) THEN "check"
                                 ELSE IF Modern THEN "slot" ELSE "bytes"]
  /\ UNCHANGED <<scenario, requests, channels, failed, children, worker, admission,
                 toCancel, cancels, wire, accepted, lost>>

CheckActive ==
  /\ PumpAt("check")
  /\ IF active[IdOf[pump.req]] # NoReq THEN Answer("duplicate") ELSE GoTo("admit")
  /\ UNCHANGED <<requests, channels, failed, children, worker, admission,
                 toCancel, peer>>

\* Faulty variant: an id is only looked for among the active requests.
AdmitActiveOnly ==
  /\ PumpAt("admit")
  /\ q' = Admit(q, pump.req)
  /\ GoTo(IF Modern THEN "slot" ELSE "bytes")
  /\ UNCHANGED <<word, active, channels, failed, children, worker, admission,
                 toCancel, peer>>

AdmitRequest ==
  /\ PumpAt("admit")
  /\ \/ /\ CanAdmit(q, pump.req)
        /\ q' = Admit(q, pump.req)
        /\ GoTo(IF Modern THEN "slot" ELSE "bytes")
     \/ /\ ~CanAdmit(q, pump.req)
        /\ Answer("duplicate")
        /\ UNCHANGED q
  /\ UNCHANGED <<word, active, channels, failed, children, worker, admission,
                 toCancel, peer>>

ReserveModernSlot ==
  /\ PumpAt("slot")
  /\ \/ /\ CanReserveSlot(q)
        /\ q' = ReserveSlot(q)
        /\ GoTo("bytes")
     \/ /\ ~CanReserveSlot(q)
        /\ q' = Discard(q, pump.req)
        /\ Refuse(pump.req, "overloaded")
  /\ UNCHANGED <<word, active, channels, failed, children, worker, admission,
                 toCancel, peer>>

\* Faulty variant: a frame refused for its size keeps its slot.
KeepSlotOnRefusal ==
  /\ PumpAt("bytes")
  /\ \/ /\ CanReserveBytes(q, pump.req)
        /\ q' = ReserveBytes(q, pump.req)
        /\ GoTo(IF Modern THEN "register" ELSE "enqueue")
     \/ /\ ~CanReserveBytes(q, pump.req)
        /\ q' = Discard(q, pump.req)
        /\ Refuse(pump.req, "overloaded")
  /\ UNCHANGED <<word, active, channels, failed, children, worker, admission,
                 toCancel, peer>>

ReserveQueuedBytes ==
  /\ PumpAt("bytes")
  /\ \/ /\ CanReserveBytes(q, pump.req)
        /\ q' = ReserveBytes(q, pump.req)
        /\ GoTo(IF Modern THEN "register" ELSE "enqueue")
     \/ /\ ~CanReserveBytes(q, pump.req)
        /\ q' = Discard(IF Modern THEN ReleaseSlot(q) ELSE q, pump.req)
        /\ Refuse(pump.req, "overloaded")
  /\ UNCHANGED <<word, active, channels, failed, children, worker, admission,
                 toCancel, peer>>

\* Faulty variant: a child registered after stop keeps an active word.
RegisterUncancelled ==
  /\ PumpAt("register")
  /\ q' = Register(q, pump.req)
  /\ GoTo("spawn")
  /\ UNCHANGED <<word, active, channels, failed, children, worker, admission,
                 toCancel, peer>>

\* ModernDispatchReservation::new.
RegisterChild ==
  /\ PumpAt("register")
  /\ q' = Register(q, pump.req)
  /\ word' = Cancel(word, RegisterCancels(q, pump.req))
  /\ GoTo("spawn")
  /\ UNCHANGED <<active, channels, failed, children, worker, admission,
                 toCancel, peer>>

\* Id-less frames carry an admission that is already resolved.
Spawn ==
  /\ PumpAt("spawn")
  /\ child' = [child EXCEPT ![pump.req] = "waiting"]
  /\ IF Correlated(pump.req)
     THEN UNCHANGED admission /\ GoTo("bind")
     ELSE admission' = [admission EXCEPT ![pump.req] = "admitted"] /\ GoTo("recv")
  /\ UNCHANGED <<requests, channels, failed, outcome, worker, toCancel, peer>>

\* The runtime refuses the closure: the reservation is dropped on the spot.
SpawnRefused ==
  /\ PumpAt("spawn") /\ "refused" \in Faults
  /\ child' = [child EXCEPT ![pump.req] = "discard"]
  /\ GoTo("refused")
  /\ UNCHANGED <<requests, channels, failed, outcome, worker, admission,
                 toCancel, peer>>

RefusedDropped ==
  /\ PumpAt("refused") /\ child[pump.req] = "gone"
  /\ Refuse(pump.req, "unavailable")
  /\ UNCHANGED <<requests, channels, failed, children, worker, admission,
                 toCancel, peer>>

\* Faulty variant: the channel takes one request more than its depth.
EnqueueUnbounded ==
  /\ PumpAt("enqueue") /\ worker.pc # "gone" /\ Len(mailbox) <= Depth
  /\ mailbox' = Append(mailbox, pump.req)
  /\ GoTo("bind")
  /\ UNCHANGED <<requests, writer, failed, children, worker, admission,
                 toCancel, peer>>

\* try_reserve of a permit, then try_send of the queued request.
Enqueue ==
  /\ PumpAt("enqueue")
  /\ \/ /\ worker.pc # "gone" /\ Len(mailbox) < Depth
        /\ mailbox' = Append(mailbox, pump.req)
        /\ IF Correlated(pump.req)
           THEN UNCHANGED admission /\ GoTo("bind")
           ELSE admission' = [admission EXCEPT ![pump.req] = "admitted"]
                /\ GoTo("recv")
        /\ UNCHANGED q
     \/ /\ worker.pc # "gone" /\ Len(mailbox) = Depth
        /\ q' = Discard(ReleaseBytes(q, pump.req), pump.req)
        /\ Refuse(pump.req, "overloaded")
        /\ UNCHANGED <<mailbox, admission>>
     \/ /\ worker.pc = "gone"
        /\ q' = Discard(ReleaseBytes(q, pump.req), pump.req)
        /\ pump' = [pump EXCEPT !.pc = "leave", !.exit = 1]
        /\ UNCHANGED <<mailbox, admission>>
  /\ UNCHANGED <<word, active, writer, failed, children, worker, toCancel,
                 peer>>

\* Faulty variant: the principal is resolved as admitted before it is refused.
BindResolvesFirst ==
  /\ PumpAt("bind")
  /\ admission' = [admission EXCEPT ![pump.req] = "admitted"]
  /\ GoTo("recv") \/ ("principal" \in Faults /\ Answer("rejected"))
  /\ UNCHANGED <<requests, channels, failed, children, worker, toCancel, peer>>

\* The child or the worker already holds the request while the session
\* principal is bound; it waits for the resolution.
BindPrincipal ==
  /\ PumpAt("bind")
  /\ \/ /\ admission' = [admission EXCEPT ![pump.req] = "admitted"]
        /\ GoTo("recv")
     \/ /\ "principal" \in Faults
        /\ admission' = [admission EXCEPT ![pump.req] = "rejected"]
        /\ Answer("rejected")
  /\ UNCHANGED <<requests, channels, failed, children, worker, toCancel, peer>>

PumpReply ==
  /\ PumpAt("reply") /\ writer = Free
  /\ \/ /\ replies' = [replies EXCEPT ![pump.req] = Append(@, pump.reply)]
        /\ GoTo("recv")
     \/ /\ \E o \in SendOutcomes : o # "ok"
        /\ pump' = [pump EXCEPT !.pc = "leave", !.exit = 1]
        /\ UNCHANGED replies
  /\ UNCHANGED <<scenario, requests, channels, failed, children, worker, admission,
                 toCancel, next, cancels, progress, accepted, lost>>

-----------------------------------------------------------------------------
(* The pump: notifications/cancelled, responses, end of input. *)

\* Faulty variant: the cancellation does not take the writer lock.
CancelUnfenced(i) ==
  /\ PumpAt("recv") /\ ~failed /\ cancels < MaxCancels
  /\ cancels' = cancels + 1
  /\ q' = CancelReserved(q, i)
  /\ word' = CancelReservedWords(q, word, i)
  /\ accepted' = IF Disposition(q, word, i) = "accepted"
                 THEN accepted \cup {q.owner[i]} ELSE accepted
  /\ UNCHANGED <<scenario, pump, active, failed, channels, children, worker, admission,
                 toCancel, next, wire, lost>>

\* A modern cancellation is claimed under the writer lock; an id the queue
\* does not own is looked up among the active requests before it is released.
ReceiveCancellation(i) ==
  /\ PumpAt("recv") /\ ~failed /\ cancels < MaxCancels
  /\ Modern => writer = Free
  /\ cancels' = cancels + 1
  /\ q' = CancelReserved(q, i)
  /\ word' = CancelReservedWords(q, word, i)
  /\ accepted' = IF Disposition(q, word, i) = "accepted"
                 THEN accepted \cup {q.owner[i]} ELSE accepted
  /\ IF Disposition(q, word, i) = "not_owned"
     THEN /\ writer' = IF Modern THEN Pump ELSE writer
          /\ pump' = [pump EXCEPT !.pc = "lookup", !.target = i]
     ELSE UNCHANGED <<writer, pump>>
  /\ UNCHANGED <<scenario, active, mailbox, failed, children, worker, admission, toCancel,
                 next, wire, lost>>

\* handle_request_cancellation, under the active-request lock.
CancelActiveRequest ==
  /\ PumpAt("lookup")
  /\ LET r == active[pump.target]
     IN  IF r # NoReq /\ word[r] = "active"
         THEN word' = Cancel(word, {r}) /\ accepted' = accepted \cup {r}
         ELSE UNCHANGED <<word, accepted>>
  /\ writer' = IF Modern THEN Free ELSE writer
  /\ pump' = [pump EXCEPT !.pc = "recv", !.target = NoId]
  /\ UNCHANGED <<scenario, q, active, mailbox, failed, children, worker, admission,
                 toCancel, next, cancels, wire, lost>>

\* A response no reverse request waits for goes to the exact-2024 adapter.
ReceiveLegacyResponse ==
  /\ PumpAt("recv") /\ ~failed /\ ~Modern /\ "response" \in Faults
  /\ \A n \in DOMAIN mailbox : mailbox[n] # Response
  /\ IF worker.pc # "gone" /\ Len(mailbox) < Depth
     THEN mailbox' = Append(mailbox, Response) /\ UNCHANGED pump
     ELSE /\ pump' = [pump EXCEPT !.pc = "leave", !.exit = 1]
          /\ UNCHANGED mailbox
  /\ UNCHANGED <<requests, writer, failed, children, worker, admission,
                 toCancel, peer>>

\* Faulty variant: the failure is noticed only when another frame arrives.
WorkerFailureSeenLate ==
  /\ PumpAt("recv") /\ failed /\ next <= Len(Frames)
  /\ pump' = [pump EXCEPT !.pc = "leave", !.exit = 1]
  /\ UNCHANGED <<requests, channels, failed, children, worker, admission,
                 toCancel, peer>>

\* recv returns as soon as its stop predicate, worker_failed, holds.
WorkerFailureSeen ==
  /\ PumpAt("recv") /\ failed
  /\ pump' = [pump EXCEPT !.pc = "leave", !.exit = 1]
  /\ UNCHANGED <<requests, channels, failed, children, worker, admission,
                 toCancel, peer>>

EndOfInput ==
  /\ PumpAt("recv")
  /\ pump' = [pump EXCEPT !.pc = "leave", !.eof = TRUE]
  /\ UNCHANGED <<requests, channels, failed, children, worker, admission,
                 toCancel, peer>>

\* The pump's context is cancelled, or the transport fails fatally.
ReceiveStops ==
  /\ PumpAt("recv") /\ "stop" \in Faults
  /\ \E code \in {0, 1} : pump' = [pump EXCEPT !.pc = "leave", !.exit = code]
  /\ UNCHANGED <<requests, channels, failed, children, worker, admission,
                 toCancel, peer>>

-----------------------------------------------------------------------------
(* The child of a modern request. *)

ChildAt(r, pc) == child[r] = pc
ChildGoes(r, pc) == child' = [child EXCEPT ![r] = pc]

\* DispatchPrincipalAdmission::wait_timeout.  A pending admission that times
\* out latches the failure; a rejected one leaves without a trace.
ChildAdmitted(r) ==
  /\ ChildAt(r, "waiting")
  /\ \/ admission[r] = "admitted" /\ ChildGoes(r, "begun")
     \/ admission[r] = "rejected" /\ ChildGoes(r, "discard")
     \/ admission[r] = "pending" /\ "timeout" \in Faults /\ ChildGoes(r, "fail")
  /\ UNCHANGED <<requests, channels, failed, pump, outcome, worker, admission,
                 toCancel, peer>>

\* The runtime drops the closure before its first poll.
ChildUnpolled(r) ==
  /\ ChildAt(r, "waiting") /\ "unpolled" \in Faults
  /\ ChildGoes(r, "discard")
  /\ lost' = lost \cup {r}
  /\ UNCHANGED <<scenario, requests, channels, failed, pump, outcome, worker, admission,
                 toCancel, next, cancels, wire, accepted>>

\* ActiveRequestGuard::try_new_with_cancellation; a notification has no guard.
ChildGuard(r) ==
  /\ ChildAt(r, "begun")
  /\ \/ /\ ~Correlated(r) /\ ChildGoes(r, "guarded") /\ UNCHANGED active
     \/ /\ Correlated(r) /\ active[IdOf[r]] = NoReq
        /\ active' = [active EXCEPT ![IdOf[r]] = r]
        /\ ChildGoes(r, "guarded")
     \/ /\ Correlated(r) /\ active[IdOf[r]] # NoReq
        /\ ChildGoes(r, "duplicate") /\ UNCHANGED active
  /\ UNCHANGED <<q, word, channels, failed, pump, outcome, worker, admission,
                 toCancel, peer>>

ChildStart(r) ==
  /\ ChildAt(r, "guarded")
  /\ q' = BeginModernDispatch(q, r)
  /\ CASE ModernStart(q, r) = "stopping" ->
            ChildGoes(r, "unguard") /\ outcome' = [outcome EXCEPT ![r] = "ok"]
       [] ModernStart(q, r) = "cancelled" ->
            ChildGoes(r, "start_cancelled") /\ UNCHANGED outcome
       [] ModernStart(q, r) = "ready" ->
            ChildGoes(r, "running") /\ UNCHANGED outcome
  /\ UNCHANGED <<word, active, channels, failed, pump, worker, admission,
                 toCancel, peer>>

\* The two answers that do not compete for the cancellation word.
ChildPlainReply(r) ==
  /\ child[r] \in {"duplicate", "start_cancelled"} /\ writer = Free
  /\ \E o \in SendOutcomes :
       /\ outcome' = [outcome EXCEPT ![r] = o]
       /\ replies' = IF o # "ok" THEN replies
                     ELSE [replies EXCEPT ![r] = Append(@,
                             IF ChildAt(r, "duplicate") THEN "duplicate"
                                                        ELSE "cancelled")]
  /\ ChildGoes(r, "unguard")
  /\ UNCHANGED <<scenario, requests, channels, failed, pump, worker, admission, toCancel,
                 next, cancels, progress, accepted, lost>>

\* The notification sender takes the writer, then looks at the word.
ChildProgress(r) ==
  /\ ChildAt(r, "running") /\ progress[r] < MaxProgress /\ writer = Free
  /\ word[r] # "cancelled"
  /\ writer' = r
  /\ ChildGoes(r, "progress")
  /\ UNCHANGED <<requests, mailbox, failed, pump, outcome, worker, admission,
                 toCancel, peer>>

\* A progress frame that cannot be written fails the connection.
ChildSendProgress(r) ==
  /\ ChildAt(r, "progress")
  /\ \/ /\ progress' = [progress EXCEPT ![r] = @ + 1]
        /\ UNCHANGED <<failed, word>>
     \/ /\ \E o \in SendOutcomes : o # "ok"
        /\ failed' = TRUE
        /\ word' = Cancel(word, {r})
        /\ UNCHANGED progress
  /\ writer' = Free
  /\ ChildGoes(r, "running")
  /\ UNCHANGED <<scenario, q, active, mailbox, pump, outcome, worker, admission, toCancel,
                 next, cancels, replies, accepted, lost>>

\* The handler returns; only a correlated request has a response.
ChildReturn(r) ==
  /\ ChildAt(r, "running")
  /\ IF Correlated(r)
     THEN ChildGoes(r, "respond") /\ UNCHANGED outcome
     ELSE ChildGoes(r, "unguard") /\ outcome' = [outcome EXCEPT ![r] = "ok"]
  /\ UNCHANGED <<requests, channels, failed, pump, worker, admission, toCancel,
                 peer>>

\* The handler panics; catch_unwind contains it.
ChildPanic(r) ==
  /\ ChildAt(r, "running") /\ "panic" \in Faults
  /\ ChildGoes(r, "unguard")
  /\ outcome' = [outcome EXCEPT ![r] = "failed"]
  /\ UNCHANGED <<requests, channels, failed, pump, worker, admission, toCancel,
                 peer>>

\* The response takes the writer, then closes the race with cancellation.
ChildFinalize(r) ==
  /\ ChildAt(r, "respond") /\ writer = Free
  /\ writer' = r
  /\ word' = BeginFinalization(word, r)
  /\ ChildGoes(r, "replying")
  /\ UNCHANGED <<q, active, mailbox, failed, pump, outcome, worker, admission,
                 toCancel, peer>>

\* A response that lost the race is replaced by RequestCancelled.
ChildReply(r) ==
  /\ ChildAt(r, "replying")
  /\ \E o \in SendOutcomes :
       /\ outcome' = [outcome EXCEPT ![r] = o]
       /\ replies' = IF o # "ok" THEN replies
                     ELSE [replies EXCEPT ![r] = Append(@,
                             IF word[r] = "finalizing" THEN "ok" ELSE "cancelled")]
  /\ writer' = Free
  /\ ChildGoes(r, "unguard")
  /\ UNCHANGED <<scenario, requests, mailbox, failed, pump, worker, admission, toCancel,
                 next, cancels, progress, accepted, lost>>

\* ActiveRequestGuard::drop removes the entry only if it is this request's own.
RemoveOwn(r) ==
  IF Correlated(r) /\ active[IdOf[r]] = r
  THEN [active EXCEPT ![IdOf[r]] = NoReq] ELSE active

ChildUnguard(r) ==
  /\ ChildAt(r, "unguard")
  /\ active' = RemoveOwn(r)
  /\ ChildGoes(r, "settle")
  /\ UNCHANGED <<q, word, channels, failed, pump, outcome, worker, admission,
                 toCancel, peer>>

\* Anything but success, or a cancelled send while stopping, fails the
\* connection when the reservation is dropped.
ChildSettle(r) ==
  /\ ChildAt(r, "settle")
  /\ ChildGoes(r, IF outcome[r] = "ok" \/ (outcome[r] = "cancelled" /\ q.stopping)
                  THEN "discard" ELSE "fail")
  /\ UNCHANGED <<requests, channels, failed, pump, outcome, worker, admission,
                 toCancel, peer>>

ChildFail(r) ==
  /\ ChildAt(r, "fail")
  /\ failed' = TRUE
  /\ ChildGoes(r, "stop")
  /\ UNCHANGED <<requests, channels, pump, outcome, worker, admission, toCancel,
                 peer>>

StopBy(a) ==
  /\ q' = Stop(q)
  /\ toCancel' = [toCancel EXCEPT ![a] = StopSnapshot(q)]

ChildStop(r) ==
  /\ ChildAt(r, "stop")
  /\ StopBy(r)
  /\ ChildGoes(r, "discard")
  /\ UNCHANGED <<word, active, channels, failed, pump, outcome, worker,
                 admission, peer>>

\* An actor works through the words it copied when it stopped the queue.
CancelCopied(a) ==
  \E r \in toCancel[a] :
    /\ word' = Cancel(word, {r})
    /\ toCancel' = [toCancel EXCEPT ![a] = @ \ {r}]
    /\ UNCHANGED <<q, active, channels, failed, pump, children, worker,
                   admission, peer>>

\* Faulty variant: the slot is released before the id.
ReleaseSlotFirst(r) ==
  /\ toCancel[r] = {}
  /\ \/ ChildAt(r, "discard") /\ q' = ReleaseSlot(q) /\ ChildGoes(r, "unregister")
     \/ ChildAt(r, "unregister") /\ q' = Unregister(q, r) /\ ChildGoes(r, "bytes")
     \/ ChildAt(r, "bytes") /\ q' = ReleaseBytes(q, r) /\ ChildGoes(r, "slot")
     \/ ChildAt(r, "slot") /\ q' = Discard(q, r) /\ ChildGoes(r, "gone")
  /\ UNCHANGED <<word, active, channels, failed, pump, outcome, worker,
                 admission, toCancel, peer>>

\* ModernDispatchReservation::drop, one critical section after the other.
ReleaseReservation(r) ==
  /\ toCancel[r] = {}
  /\ \/ /\ ChildAt(r, "discard")
        /\ q' = Discard(q, r)
        /\ ChildGoes(r, "unregister")
     \/ /\ ChildAt(r, "unregister")
        /\ q' = Unregister(q, r)
        /\ ChildGoes(r, "bytes")
     \/ /\ ChildAt(r, "bytes")
        /\ q' = ReleaseBytes(q, r)
        /\ ChildGoes(r, "slot")
     \/ /\ ChildAt(r, "slot")
        /\ q' = ReleaseSlot(q)
        /\ ChildGoes(r, "gone")
  /\ UNCHANGED <<word, active, channels, failed, pump, outcome, worker,
                 admission, toCancel, peer>>

-----------------------------------------------------------------------------
(* The dispatch worker of an exact-2024 connection. *)

Job == worker.job
WorkerAt(pc) == worker.pc = pc
WorkerGoes(pc) == worker' = [worker EXCEPT !.pc = pc]
Leave(clean) == worker' = [worker EXCEPT !.pc = "end", !.clean = clean]

\* is_stopping at the top of the loop.
WorkerLeaves ==
  /\ WorkerAt("idle") /\ q.stopping
  /\ Leave(TRUE)
  /\ UNCHANGED <<requests, channels, failed, pump, children, admission,
                 toCancel, peer>>

\* try_recv; a LegacyResponse the adapter does not accept ends the worker.
WorkerTake ==
  /\ WorkerAt("idle") /\ ~q.stopping /\ mailbox # <<>>
  /\ mailbox' = Tail(mailbox)
  /\ IF Head(mailbox) = Response
     THEN UNCHANGED worker \/ Leave(FALSE)
     ELSE worker' = [worker EXCEPT !.pc = "taken", !.job = Head(mailbox)]
  /\ UNCHANGED <<requests, writer, failed, pump, children, admission, toCancel,
                 peer>>

WorkerReleaseBytes ==
  /\ WorkerAt("taken")
  /\ q' = ReleaseBytes(q, Job)
  /\ WorkerGoes("waiting")
  /\ UNCHANGED <<word, active, channels, failed, pump, children, admission,
                 toCancel, peer>>

\* A rejected principal frees the id; a wait that times out also ends the loop.
WorkerAdmitted ==
  /\ WorkerAt("waiting")
  /\ \/ admission[Job] = "admitted" /\ WorkerGoes("begin") /\ UNCHANGED q
     \/ admission[Job] = "rejected" /\ WorkerGoes("idle") /\ q' = Discard(q, Job)
     \/ /\ admission[Job] = "pending" /\ "timeout" \in Faults
        /\ q' = Discard(q, Job)
        /\ Leave(FALSE)
  /\ UNCHANGED <<word, active, channels, failed, pump, children, admission,
                 toCancel, peer>>

WorkerBegin ==
  /\ WorkerAt("begin")
  /\ q' = BeginDispatch(q, Job)
  /\ worker' = [worker EXCEPT !.pc = "check",
                              !.dropped = CancelledBeforeDispatch(q, Job)]
  /\ UNCHANGED <<word, active, channels, failed, pump, children, admission,
                 toCancel, peer>>

\* A cancelled request of this era never executes and is never answered.
WorkerCheck ==
  /\ WorkerAt("check")
  /\ \/ q.stopping /\ q' = Discard(q, Job) /\ Leave(TRUE)
     \/ ~q.stopping /\ worker.dropped /\ q' = Discard(q, Job) /\ WorkerGoes("idle")
     \/ ~q.stopping /\ ~worker.dropped /\ WorkerGoes("handle") /\ UNCHANGED q
  /\ UNCHANGED <<word, active, channels, failed, pump, children, admission,
                 toCancel, peer>>

\* The adapter answers some requests itself; the others enter the active map
\* with the word of their admission.  Notifications have no response.
WorkerHandle ==
  /\ WorkerAt("handle")
  /\ \/ /\ ~Correlated(Job) /\ WorkerGoes("idle") /\ UNCHANGED <<q, active>>
     \/ /\ Correlated(Job) /\ (Job \in Untracked \/ active[IdOf[Job]] # NoReq)
        /\ worker' = [worker EXCEPT !.pc = "respond", !.kind =
                        IF Job \in Untracked THEN "ok" ELSE "duplicate"]
        /\ UNCHANGED <<q, active>>
     \/ /\ Correlated(Job) /\ Job \notin Untracked /\ active[IdOf[Job]] = NoReq
        /\ active' = [active EXCEPT ![IdOf[Job]] = Job]
        /\ WorkerGoes("running")
        /\ UNCHANGED q
     \/ /\ "adapter" \in Faults   \* not a fault of the peer: the loop ends
        /\ q' = Discard(q, Job)
        /\ Leave(FALSE)
        /\ UNCHANGED active
  /\ UNCHANGED <<word, channels, failed, pump, children, admission, toCancel,
                 peer>>

WorkerReturn ==
  /\ WorkerAt("running")
  /\ worker' = [worker EXCEPT !.pc = "respond", !.kind = "ok"]
  /\ UNCHANGED <<requests, channels, failed, pump, children, admission,
                 toCancel, peer>>

\* Whether the response carries the guard and word of its request
\* (HandledRequest::tracked).
Tracked == active[IdOf[Job]] = Job

\* The worker takes the writer, then resolve_commit_race: a tracked response
\* that lost to cancellation is suppressed.
WorkerResolve ==
  /\ WorkerAt("respond") /\ writer = Free
  /\ IF Tracked /\ word[Job] = "cancelled"
     THEN /\ worker' = [worker EXCEPT !.pc = "unguard", !.sent = "ok"]
          /\ UNCHANGED <<writer, word>>
     ELSE /\ writer' = Worker
          /\ word' = IF Tracked THEN BeginFinalization(word, Job) ELSE word
          /\ WorkerGoes("replying")
  /\ UNCHANGED <<q, active, mailbox, failed, pump, children, admission,
                 toCancel, peer>>

WorkerReply ==
  /\ WorkerAt("replying")
  /\ \E o \in SendOutcomes :
       /\ worker' = [worker EXCEPT !.pc = "unguard", !.sent = o]
       /\ replies' = IF o # "ok" THEN replies
                     ELSE [replies EXCEPT ![Job] = Append(@, worker.kind)]
       /\ lost' = IF o = "cancelled" THEN lost \cup {Job} ELSE lost
  /\ writer' = Free
  /\ UNCHANGED <<scenario, requests, mailbox, failed, pump, children, admission, toCancel,
                 next, cancels, progress, accepted>>

\* The guard dies with send_with, the reservation after it.
WorkerUnguard ==
  /\ WorkerAt("unguard")
  /\ active' = RemoveOwn(Job)
  /\ WorkerGoes("discard")
  /\ UNCHANGED <<q, word, channels, failed, pump, children, admission, toCancel,
                 peer>>

\* A cancelled send stops the queue and leaves cleanly; any other failed send
\* leaves the latch armed.
WorkerDiscard ==
  /\ WorkerAt("discard")
  /\ q' = Discard(q, Job)
  /\ CASE worker.sent = "ok" -> WorkerGoes("idle")
       [] worker.sent = "cancelled" ->
            worker' = [worker EXCEPT !.pc = "stop", !.clean = TRUE]
       [] worker.sent = "failed" -> Leave(FALSE)
  /\ UNCHANGED <<word, active, channels, failed, pump, children, admission,
                 toCancel, peer>>

\* DispatchWorkerFailureLatch::drop, then the completion signal.
WorkerEnd ==
  /\ WorkerAt("end")
  /\ WorkerGoes(IF worker.clean THEN "gone" ELSE "fail")
  /\ UNCHANGED <<requests, channels, failed, pump, children, admission,
                 toCancel, peer>>

WorkerFail ==
  /\ WorkerAt("fail")
  /\ failed' = TRUE
  /\ WorkerGoes("stop")
  /\ UNCHANGED <<requests, channels, pump, children, admission, toCancel, peer>>

WorkerStop ==
  /\ WorkerAt("stop")
  /\ StopBy(Worker)
  /\ WorkerGoes("stopped")
  /\ UNCHANGED <<word, active, channels, failed, pump, children, admission,
                 peer>>

WorkerStopped ==
  /\ WorkerAt("stopped") /\ toCancel[Worker] = {}
  /\ WorkerGoes("gone")
  /\ UNCHANGED <<requests, channels, failed, pump, children, admission,
                 toCancel, peer>>

-----------------------------------------------------------------------------
(* The pump: shutdown. *)

\* cancel_uncorrelated_modern_children: notifications have nothing to commit.
CancelNotifications ==
  /\ PumpAt("leave")
  /\ toCancel' = [toCancel EXCEPT ![Pump] = Uncorrelated(q)]
  /\ GoTo("drain")
  /\ UNCHANGED <<requests, channels, failed, children, worker, admission, peer>>

\* Faulty variant: the drain window is skipped.
SkipDrain ==
  /\ PumpAt("drain") /\ toCancel[Pump] = {}
  /\ GoTo("stop")
  /\ UNCHANGED <<requests, channels, failed, children, worker, admission,
                 toCancel, peer>>

\* wait_for_correlated_response_drain, after an end of input only.
DrainResponses ==
  /\ PumpAt("drain") /\ toCancel[Pump] = {}
  /\ \/ ~pump.eof /\ GoTo("stop")
     \/ pump.eof /\ Reserved(q) = {} /\ GoTo("stop")
     \/ /\ pump.eof /\ Reserved(q) # {} /\ "timeout" \in Faults
        /\ pump' = [pump EXCEPT !.pc = "stop", !.exit = 1]
  /\ UNCHANGED <<requests, channels, failed, children, worker, admission,
                 toCancel, peer>>

PumpStop ==
  /\ PumpAt("stop")
  /\ StopBy(Pump)
  /\ GoTo("active")
  /\ UNCHANGED <<word, active, channels, failed, children, worker, admission,
                 peer>>

\* cancel_active_requests: a snapshot of the map, cancelled without the lock.
CancelActive ==
  /\ PumpAt("active") /\ toCancel[Pump] = {}
  /\ toCancel' = [toCancel EXCEPT ![Pump] = {active[i] : i \in Ids} \ {NoReq}]
  /\ GoTo("children")
  /\ UNCHANGED <<requests, channels, failed, children, worker, admission, peer>>

\* wait_for_modern_drain; after a timeout the process-owned pump detaches and
\* the returning one waits without a bound.
AwaitChildren ==
  /\ toCancel[Pump] = {}
  /\ \/ /\ PumpAt("children") /\ q.inFlight = 0
        /\ pump' = [pump EXCEPT !.pc = "worker", !.childrenQuiesced = TRUE]
     \/ /\ PumpAt("children") /\ q.inFlight # 0 /\ "timeout" \in Faults
        /\ pump' = [pump EXCEPT !.pc = IF Detach THEN "worker" ELSE "children_late",
                                !.exit = 1]
     \/ /\ PumpAt("children_late") /\ q.inFlight = 0
        /\ pump' = [pump EXCEPT !.pc = "worker", !.childrenQuiesced = TRUE]
  /\ UNCHANGED <<requests, channels, failed, children, worker, admission,
                 toCancel, peer>>

AwaitWorker ==
  /\ \/ /\ PumpAt("worker") /\ WorkerAt("gone")
        /\ pump' = [pump EXCEPT !.pc = "finish", !.hook = pump.childrenQuiesced]
     \/ /\ PumpAt("worker") /\ ~WorkerAt("gone") /\ "timeout" \in Faults
        /\ pump' = [pump EXCEPT !.pc = IF Detach THEN "finish" ELSE "worker_late",
                                !.exit = 1]
     \/ /\ PumpAt("worker_late") /\ WorkerAt("gone")
        /\ pump' = [pump EXCEPT !.pc = "finish", !.hook = pump.childrenQuiesced]
  /\ UNCHANGED <<requests, channels, failed, children, worker, admission,
                 toCancel, peer>>

\* Faulty variant: the failure latch is not read again.
FinishUnchecked ==
  /\ PumpAt("finish")
  /\ GoTo("done")
  /\ UNCHANGED <<requests, channels, failed, children, worker, admission,
                 toCancel, peer>>

\* The failure latch is read again once everything has quiesced.
Finish ==
  /\ PumpAt("finish")
  /\ pump' = [pump EXCEPT !.pc = "done", !.exit = IF failed THEN 1 ELSE @]
  /\ UNCHANGED <<requests, channels, failed, children, worker, admission,
                 toCancel, peer>>

-----------------------------------------------------------------------------
PumpStep ==
  \/ ReceiveRequest \/ CheckActive \/ AdmitRequest \/ ReserveModernSlot
  \/ ReserveQueuedBytes \/ RegisterChild \/ Spawn \/ SpawnRefused
  \/ RefusedDropped \/ Enqueue \/ BindPrincipal \/ PumpReply
  \/ (\E i \in Ids : ReceiveCancellation(i)) \/ CancelActiveRequest
  \/ ReceiveLegacyResponse \/ WorkerFailureSeen \/ EndOfInput \/ ReceiveStops
  \/ CancelNotifications \/ DrainResponses \/ PumpStop \/ CancelActive
  \/ AwaitChildren \/ AwaitWorker \/ Finish

ChildStep(r) ==
  \/ ChildAdmitted(r) \/ ChildUnpolled(r) \/ ChildGuard(r) \/ ChildStart(r)
  \/ ChildPlainReply(r) \/ ChildProgress(r) \/ ChildSendProgress(r)
  \/ ChildReturn(r) \/ ChildPanic(r) \/ ChildFinalize(r) \/ ChildReply(r)
  \/ ChildUnguard(r) \/ ChildSettle(r) \/ ChildFail(r) \/ ChildStop(r)
  \/ ReleaseReservation(r)

WorkerStep ==
  \/ WorkerLeaves \/ WorkerTake \/ WorkerReleaseBytes \/ WorkerAdmitted
  \/ WorkerBegin \/ WorkerCheck \/ WorkerHandle \/ WorkerReturn \/ WorkerResolve
  \/ WorkerReply \/ WorkerUnguard \/ WorkerDiscard \/ WorkerEnd \/ WorkerFail
  \/ WorkerStop \/ WorkerStopped

Next ==
  \/ PumpStep
  \/ \E r \in Reqs : ChildStep(r)
  \/ WorkerStep
  \/ \E a \in Actors : CancelCopied(a)

Spec == Init /\ [][Next]_vars

\* Threads run, and a send completes one way or another.  A handler is only
\* owed a return once its word is cancelled; the timeouts of the shutdown path
\* fire.  Nothing is owed by the peer, the runtime or a handler left alone, and
\* the writer mutex only has to be free for good to be obtained.
Fairness ==
  /\ WF_vars(CheckActive \/ AdmitRequest \/ ReserveModernSlot \/ ReserveQueuedBytes
             \/ RegisterChild \/ Spawn \/ RefusedDropped \/ Enqueue \/ BindPrincipal
             \/ PumpReply \/ CancelActiveRequest \/ WorkerFailureSeen
             \/ CancelNotifications \/ DrainResponses \/ PumpStop \/ CancelActive
             \/ AwaitChildren \/ AwaitWorker \/ Finish)
  /\ WF_vars(\E a \in Actors : CancelCopied(a))
  /\ \A r \in Reqs :
       WF_vars(ChildAdmitted(r) \/ ChildGuard(r) \/ ChildStart(r)
               \/ ChildPlainReply(r) \/ ChildSendProgress(r) \/ ChildFinalize(r)
               \/ ChildReply(r) \/ ChildUnguard(r) \/ ChildSettle(r)
               \/ ChildFail(r) \/ ChildStop(r) \/ ReleaseReservation(r)
               \/ (ChildReturn(r) /\ word[r] = "cancelled"))
  /\ WF_vars(WorkerLeaves \/ WorkerTake \/ WorkerReleaseBytes \/ WorkerAdmitted
             \/ WorkerBegin \/ WorkerCheck \/ WorkerHandle \/ WorkerResolve
             \/ WorkerReply \/ WorkerUnguard \/ WorkerDiscard \/ WorkerEnd
             \/ WorkerFail \/ WorkerStop \/ WorkerStopped
             \/ (WorkerReturn /\ word[Job] = "cancelled"))

FairSpec == Spec /\ Fairness

-----------------------------------------------------------------------------
(* Properties. *)

Live(r) == child[r] \notin {"idle", "gone"}
Queued == {mailbox[n] : n \in DOMAIN mailbox} \ {Response}
Working == IF worker.pc \in {"taken", "waiting", "begin", "check", "handle",
                             "running", "respond", "replying", "unguard", "discard"}
           THEN {Job} ELSE {}

\* The requests somebody still has to discard.
Holders ==
  {r \in Reqs : Live(r) /\ child[r] \notin {"unregister", "bytes", "slot"}}
  \cup Queued \cup Working
  \cup (IF pump.pc \in {"slot", "bytes", "register", "spawn", "enqueue"}
        THEN {pump.req} ELSE {})

SlotHolders ==
  {r \in Reqs : Live(r)}
  \cup (IF Modern /\ pump.pc \in {"bytes", "register", "spawn"}
        THEN {pump.req} ELSE {})

ByteHolders ==
  {r \in Reqs : Live(r) /\ child[r] # "slot"}
  \cup Queued \cup (IF WorkerAt("taken") THEN {Job} ELSE {})
  \cup (IF pump.pc \in {"register", "spawn", "enqueue"} THEN {pump.req} ELSE {})

\* An id belongs to one request from its admission to the end of its response
\* attempt: every correlated request in flight owns its id, nobody owns an id
\* without being in flight, and an active entry is the owner's.  This is what
\* keeps a cancellation from reaching a later request that reuses the id
\* (DispatchQueueState::admit and discard, ActiveRequestGuard).
OwnershipIsExclusive ==
  /\ \A r \in Holders : Correlated(r) => q.owner[IdOf[r]] = r
  /\ \A i \in Reserved(q) : q.owner[i] \in Holders
  /\ \A i \in Ids : active[i] # NoReq => active[i] = q.owner[i]

\* Slots and bytes are charged exactly for the requests that hold them, on
\* every refusal and failure path, and never beyond the limits
\* (reserve_modern_slot, reserve_queued_bytes, the reservation's drop).
CapacityIsAccounted ==
  /\ q.inFlight = Cardinality(SlotHolders) /\ q.inFlight <= Depth
  /\ q.bytes = MapThenSumSet(LAMBDA r : Size[r], ByteHolders) /\ q.bytes <= MaxBytes

\* No request frame is answered twice, whichever of the pump, its child and the
\* worker answers it (duplicate, overloaded, rejected, cancelled or result).
AnsweredOnce == \A r \in Reqs : Len(replies[r]) <= 1

\* A request is told that it was cancelled only if the peer's cancellation of
\* this very request was accepted or the connection is going down: marks left
\* under a reused id reach nobody else (discard, begin_modern_dispatch).
CancelledOnlyIfAsked ==
  \A r \in Reqs : "cancelled" \in {replies[r][n] : n \in DOMAIN replies[r]} =>
    r \in accepted \/ q.stopping \/ failed

\* Once a peer cancellation is accepted, no progress and no result of that
\* request reaches the wire: a modern request may only be answered
\* RequestCancelled, a tracked legacy request not at all (the writer fence of
\* the receive pump, begin_finalization, resolve_commit_race).
CancellationIsFinal ==
  [][\A r \in accepted \ Untracked :
       /\ progress'[r] = progress[r]
       /\ replies'[r] # replies[r] =>
            Modern /\ replies'[r] = Append(replies[r], "cancelled")]_vars

\* When every snapshot a stop took has been worked through, no request still
\* runs with an active word, however the stop interleaved with admission and
\* registration (DispatchQueueState::stop, register_modern_cancellation).
StopReachesEveryone ==
  q.stopping /\ (\A a \in Actors : toCancel[a] = {}) =>
    /\ \A r \in Reqs : child[r] \in {"waiting", "begun", "guarded", "running",
                                   "progress", "respond"} => word[r] # "active"
    /\ \A r \in Working : Correlated(r) => word[r] # "active"

\* The shutdown hook runs only when no child and no worker can touch the
\* connection any more, and nothing is left registered
\* (run_loop_pump_with_policy, wait_for_modern_drain).
HookIsLast ==
  pump.hook =>
    /\ \A r \in Reqs : ~Live(r)
    /\ WorkerAt("gone") /\ writer = Free
    /\ \A a \in Actors : toCancel[a] = {}
    /\ \A i \in Ids : active[i] = NoReq
    /\ q.registered = {} /\ q.inFlight = 0
    /\ Modern => Reserved(q) = {} /\ q.bytes = 0

\* A connection that quiesced reports every failure of a child, the worker or a
\* progress frame in its exit code, even one latched while end of input was
\* being handled (the final reading of worker_failed).
FailureIsReported == PumpAt("done") /\ pump.hook /\ failed => pump.exit = 1

\* After a clean end of input every correlated request the pump took was
\* answered, except those the peer relinquished and those the runtime dropped
\* or whose send was cancelled (wait_for_correlated_response_drain).
CleanExitAnswersAll ==
  PumpAt("done") /\ pump.hook /\ pump.eof /\ pump.exit = 0 =>
    \A n \in 1..(next - 1) :
      Correlated(Frames[n]) =>
        \/ Len(replies[Frames[n]]) = 1
        \/ Frames[n] \in lost
        \/ ~Modern /\ Frames[n] \in accepted

\* Ids, slots and bytes belong to the requests that hold them and to nobody
\* else, on every refusal, failure and shutdown path (DispatchQueueState,
\* ActiveRequestGuard, the reservation's drop).
OwnershipIsExact == TypeOK /\ OwnershipIsExclusive /\ CapacityIsAccounted

\* No request is answered twice, and a clean exit has answered each one.
AnswersAreExact == AnsweredOnce /\ CleanExitAnswersAll

\* Cancellation reaches whom it is meant for: only those the peer or the
\* shutdown asked for, and at a stop everyone.
CancellationIsExact == CancelledOnlyIfAsked /\ StopReachesEveryone

\* The shutdown tells the truth: its hook is last, its exit code names failures.
ShutdownIsHonest == HookIsLast /\ FailureIsReported

\* A pump that leaves its loop returns, although handlers only cooperate once
\* cancelled, and a latched failure takes the connection down (the stop
\* predicate of recv, run_loop_pump_with_policy).
ConnectionEnds == (failed \/ PumpAt("leave")) ~> PumpAt("done")
==============================================================================
