------------------------------ MODULE FinalTasks ------------------------------
(***************************************************************************)
(* Final MCP Tasks (fastmcp-server/src/tasks.rs): FinalTaskRuntime and its *)
(* AuthorizedTaskServiceRunners over one shared store.  Clients create,    *)
(* answer and cancel tasks; runners claim durable handoffs, elect a        *)
(* dispatch, supervise the application and settle or give back the work;   *)
(* the application commits outcomes through the authority it was handed,   *)
(* at any time, also long after its lease was taken away.                  *)
(*                                                                         *)
(* Every store call is one step, so all that the code does between two     *)
(* calls can interleave.  A runner may vanish without its destructors      *)
(* (Crash); leases and ttlMs run out at any time (module FinalTaskStore).  *)
(***************************************************************************)
EXTENDS FinalTaskStore, FiniteSets

CONSTANTS
  Tasks,       \* task identifiers
  NoTask,
  Clients,     \* concurrent request handlers
  MaxTasks,    \* max_tasks of the store
  MaxStops     \* how often a runner is crashed, dropped or interrupted

ASSUME TaskAssumption == NoTask \notin Tasks
ASSUME BoundAssumption == MaxTasks \in Nat /\ MaxStops \in Nat

VARIABLES
  store,      \* the retained tasks
  aged,       \* tasks whose ttlMs the clock has passed
  runner,     \* where each runner is
  issued,     \* authorities handed to the application
  client,     \* where each request handler is
  stops,
  settled,    \* <<task, fence>> of the dispatches whose outcome committed
  lapsed      \* <<task, fence>> of the dispatches that lost their lease first

vars == <<store, aged, runner, issued, client, stops, settled, lapsed>>

Authorities == [task : Tasks, gen : 1..MaxGen, owner : Runners, fence : 1..MaxFence]
RunnerStates ==
  [pc : {"stopped", "wait", "scan", "candidate", "taken", "guarded", "probe", "honor",
         "running", "check", "restore", "finish"},
   task : Tasks \cup {NoTask}, gen : 0..MaxGen, kind : Kinds, fence : 0..MaxFence,
   armed : BOOLEAN, stage : {"before", "after", "last", "drop1", "drop2", "drop3"},
   res : {"ok", "error", "dropped", "absent", "changed"}, owed : BOOLEAN]
ClientStates ==
  [pc : {"idle", "commit", "confirm", "lost"}, op : {"none", "create", "update", "cancel"},
   task : Tasks \cup {NoTask}, gen : 0..MaxGen, status : Statuses, asked : SUBSET Keys,
   keys : SUBSET Keys]

\* A runner that holds no handoff.
Free(pc, res, owed) ==
  [pc |-> pc, task |-> NoTask, gen |-> 0, kind |-> "initial", fence |-> 0, armed |-> FALSE,
   stage |-> "before", res |-> res, owed |-> owed]
NoRequest ==
  [pc |-> "idle", op |-> "none", task |-> NoTask, gen |-> 0, status |-> "absent",
   asked |-> {}, keys |-> {}]

Init ==
  /\ store = [t \in Tasks |-> Missing("absent", 0)]
  /\ aged = {}
  /\ runner = [r \in Runners |-> Free("stopped", "ok", FALSE)]
  /\ issued = {}
  /\ client = [c \in Clients |-> NoRequest]
  /\ stops = 0
  /\ settled = {} /\ lapsed = {}

-----------------------------------------------------------------------------
\* The store as an operation finds it: expired leases and tasks are reclaimed first.
Current(t) == Reclaim(store[t], t \in aged)

\* An operation that leaves x of task t.  by: the dispatches it settles.
Apply(t, x, by) ==
  /\ store' = [u \in Tasks |-> IF u = t THEN x ELSE Current(u)]
  /\ settled' = settled \cup by
  /\ lapsed' = lapsed \cup ({<<u, store[u].lease.fence>> : u \in
                 {v \in Tasks : store[v].lease.elected /\ store'[v].lease.fence # store[v].lease.fence}} \ by)

Write(t, x) == Apply(t, x, {})
Read(t) == Apply(t, Current(t), {})

RunnerOnly == UNCHANGED <<aged, issued, client, stops>>
At(r, pc) == runner[r].pc = pc
Goto(r, pc) == runner' = [runner EXCEPT ![r].pc = pc]

-----------------------------------------------------------------------------
\* The clock passes a lease's recovery_expires_at.
LeaseRunsOut(t) ==
  /\ Leased(store[t]) /\ ~store[t].lease.due
  /\ store' = [store EXCEPT ![t].lease.due = TRUE]
  /\ UNCHANGED <<aged, runner, issued, client, stops, settled, lapsed>>

\* The clock passes a task's ttlMs.
TaskAges(t) ==
  /\ Retained(store[t]) /\ t \notin aged
  /\ aged' = aged \cup {t}
  /\ UNCHANGED <<store, runner, issued, client, stops, settled, lapsed>>

-----------------------------------------------------------------------------
(* AuthorizedTaskServiceRunner *)

\* run_service entered: the readiness lease is held until it exits.
EnterService(r) ==
  /\ At(r, "stopped")
  /\ runner' = [runner EXCEPT ![r] = Free("scan", "ok", FALSE)]
  /\ UNCHANGED <<store, aged, issued, client, stops, settled, lapsed>>

\* The recovery timer: scan although no wakeup arrived.
RecoveryWake(r) ==
  /\ At(r, "wait")
  /\ Goto(r, "scan")
  /\ UNCHANGED <<store, aged, issued, client, stops, settled, lapsed>>

\* A queued wakeup names a task; its snapshot may be of any status.
ReceiveWakeup(r, t, kind) ==
  /\ At(r, "wait")
  /\ Retained(Current(t))
  /\ runner' = [runner EXCEPT ![r].pc = "candidate", ![r].task = t, ![r].kind = kind,
                              ![r].gen = Current(t).gen]
  /\ Read(t) /\ RunnerOnly

\* Faulty variant: the scan forgets accepted input.
RecoverableInitialOnly(x, kind) ==
  kind = "initial" /\ x.status = "working" /\ ~x.cancel /\ ~Leased(x) /\ x.initial

Recoverable(x, kind) ==
  x.status = "working" /\ ~x.cancel /\ ~Leased(x) /\ Payload(x, kind)

\* next_{initial_work,accepted_input}_snapshot_after; which eligible task the
\* cursor reaches first is left open.
ScanCandidate(r, t, kind) ==
  /\ At(r, "scan")
  /\ Recoverable(Current(t), kind)
  /\ runner' = [runner EXCEPT ![r].pc = "candidate", ![r].task = t, ![r].kind = kind,
                              ![r].gen = Current(t).gen]
  /\ Read(t) /\ RunnerOnly

\* Nothing to recover; an error met during the scan is returned now.
ScanEnds(r, t) ==
  /\ At(r, "scan")
  /\ \A u \in Tasks, kind \in Kinds : ~Recoverable(Current(u), kind)
  /\ runner' = [runner EXCEPT ![r] = Free(IF @.owed THEN "stopped" ELSE "wait", "ok", FALSE)]
  /\ Read(t) /\ RunnerOnly

\* The claim; a lost compare-and-swap looks for the next candidate.
ClaimHandoff(r) ==
  LET q == runner[r]
      x == Current(q.task)
  IN /\ At(r, "candidate")
     /\ IF CanTake(x, q.gen, q.kind)
        THEN Write(q.task, Take(x, q.gen, q.kind, r)) /\ Goto(r, "taken")
        ELSE Read(q.task) /\ runner' = [runner EXCEPT ![r] = Free("scan", "ok", q.owed)]
     /\ RunnerOnly

\* validate_claim_snapshot_still_current: an error here leaves run_service.
ValidateClaim(r) ==
  LET q == runner[r]
      x == Current(q.task)
  IN /\ At(r, "taken")
     /\ runner' = [runner EXCEPT ![r] =
          IF x.gen = q.gen /\ x.status = "working" THEN [q EXCEPT !.pc = "guarded", !.armed = TRUE]
          ELSE Free("stopped", IF Retained(x) THEN "changed" ELSE "absent", FALSE)]
     /\ Read(q.task) /\ RunnerOnly

\* FinalTaskExecutionGuard::elect.  The loser leaves the outcome to the
\* winner; with the fence space exhausted the guard is dropped.
ElectDispatch(r) ==
  LET q == runner[r]
      x == Current(q.task)
  IN /\ At(r, "guarded")
     /\ IF ~CanBegin(x, q.gen, r)
        THEN /\ Read(q.task)
             /\ runner' = [runner EXCEPT ![r] = Free("scan", "ok", q.owed)]
        ELSE IF x.fences < MaxFence
        THEN /\ Write(q.task, BeginDispatch(x))
             /\ runner' = [runner EXCEPT ![r].pc = "probe", ![r].stage = "before",
                                         ![r].fence = x.fences + 1]
        ELSE /\ Read(q.task)
             /\ runner' = [runner EXCEPT ![r].pc = "probe", ![r].stage = "drop1", ![r].res = "error"]
     /\ RunnerOnly

\* Where resume_handoff goes when its guard is dropped: a dropped future is
\* gone; an error either continues the scan, to be returned later, or exits.
Exits(q) ==
  {Free("stopped", "ok", FALSE)} \cup
    (IF q.res = "dropped" THEN {} ELSE {Free("scan", "ok", TRUE)})

\* What follows a cancellation probe that found none.
Continuations(q) ==
  CASE q.stage = "before" -> {[q EXCEPT !.pc = "running"]}
    [] q.stage = "after" -> {[q EXCEPT !.pc = IF q.res = "ok" THEN "check" ELSE "restore"]}
    [] q.stage = "last" -> {IF q.res = "ok" THEN Free("scan", "ok", q.owed)
                            ELSE [q EXCEPT !.pc = "probe", !.stage = "drop1"]}
    [] q.stage = "drop1" -> {[q EXCEPT !.pc = "restore", !.stage = "drop2"]}
    [] q.stage = "drop3" -> Exits(q)

\* The guard's retention deadline has passed: it is disarmed.  When that
\* happens between the guard's clock and its reads the handoff ends in error.
ExpiredExits(q) ==
  Exits(q) \cup (IF q.stage \in {"before", "after", "last"} /\ q.res = "ok"
                 THEN {Free("scan", "ok", q.owed)} ELSE {})

\* retire_if_cancellation_requested up to its fenced write.  The generation
\* and the intent are two reads: an intent of a later generation seen by the
\* second one fails the stale write, as an error.
ProbeCancellation(r) ==
  LET q == runner[r]
      x == Current(q.task)
      own == x.gen = q.gen /\ x.cancel
      late == x.gen # q.gen /\ x.cancel
  IN /\ At(r, "probe")
     /\ \E n \in IF q.task \in aged THEN ExpiredExits(q)
                 ELSE IF own \/ late THEN {[q EXCEPT !.pc = "honor"]} \cup
                                          (IF late THEN Continuations(q) ELSE {})
                 ELSE Continuations(q) :
          /\ runner' = [runner EXCEPT ![r] = n]
          /\ issued' = IF n.pc = "running"
                       THEN issued \cup {[task |-> q.task, gen |-> q.gen, owner |-> r, fence |-> q.fence]}
                       ELSE issued
     /\ Read(q.task) /\ UNCHANGED <<aged, client, stops>>

\* fenced_honor_cancellation by the guard: success ends the handoff.
HonorCancellation(r) ==
  LET q == runner[r]
      x == Current(q.task)
      dropping == q.stage \in {"drop1", "drop2", "drop3"}
  IN /\ At(r, "honor")
     /\ IF CanReplaceFenced(x, q.gen, r, q.fence, "cancelled") /\ CanReplace(x, {})
        THEN /\ Apply(q.task, ReplaceTask(x, "cancelled", {}, {}), {<<q.task, q.fence>>})
             /\ \E n \in IF dropping THEN Exits(q) ELSE {Free("scan", "ok", q.owed)} :
                  runner' = [runner EXCEPT ![r] = n]
        ELSE /\ Read(q.task)
             /\ \E n \in IF dropping THEN Continuations(q)
                         ELSE {[q EXCEPT !.pc = "probe", !.stage = "drop1", !.res = "error"]} :
                  runner' = [runner EXCEPT ![r] = n]
     /\ RunnerOnly

\* The heartbeat: a lease that cannot be renewed ends the supervision.
RenewLease(r) ==
  LET q == runner[r]
      x == Current(q.task)
  IN /\ At(r, "running")
     /\ ~(x.gen = q.gen /\ x.cancel)
     /\ IF q.task \notin aged /\ x.gen = q.gen /\ x.status = "working"
             /\ OwnsDispatch(x, q.gen, r, q.fence)
        THEN Read(q.task) /\ UNCHANGED runner
        ELSE /\ Read(q.task)
             /\ runner' = [runner EXCEPT ![r].pc = "probe", ![r].stage = "after",
                             ![r].res = IF q.task \in aged THEN "ok" ELSE "error"]
     /\ RunnerOnly

\* The application returns; without a committed transition this proves nothing.
SupervisorReturns(r, res) ==
  /\ At(r, "running")
  /\ runner' = [runner EXCEPT ![r].pc = "probe", ![r].stage = "after", ![r].res = res]
  /\ UNCHANGED <<store, aged, issued, client, stops, settled, lapsed>>

\* Cancellation is visible and the one granted poll boundary is over.
CancellationObserved(r) ==
  LET q == runner[r]
      x == Current(q.task)
  IN /\ At(r, "running")
     /\ x.gen = q.gen /\ x.cancel
     /\ runner' = [runner EXCEPT ![r].pc = "probe", ![r].stage = "after", ![r].res = "ok"]
     /\ Read(q.task) /\ RunnerOnly

\* Faulty variant: a supervisor's success is taken for a committed transition.
CheckTransitionTrusting(r) == At(r, "check") /\ Goto(r, "finish") /\ Read(runner[r].task) /\ RunnerOnly

\* is_recoverable_without_transition, again two reads: an outcome committed
\* between them is taken for unfinished work, whose restoration then fails.
CheckTransition(r) ==
  LET q == runner[r]
      x == Current(q.task)
  IN /\ At(r, "check")
     /\ \/ q.task \notin aged /\ ~x.cancel /\ Goto(r, "restore")
        \/ ~(q.task \notin aged /\ x.gen = q.gen /\ x.status = "working" /\ ~x.cancel)
           /\ Goto(r, "finish")
     /\ Read(q.task) /\ RunnerOnly

\* FinalTaskExecutionGuard::restore, on an error, on an unearned success and on drop.
RestoreHandoff(r) ==
  LET q == runner[r]
      x == Current(q.task)
      restored == q.armed /\ q.task \notin aged /\ CanRestore(x, q.gen, q.kind, r, q.fence)
      failed == [q EXCEPT !.pc = "probe", !.res = IF @ = "ok" THEN "error" ELSE @]
  IN /\ At(r, "restore")
     /\ IF restored THEN Write(q.task, Release(x)) ELSE Read(q.task)
     /\ runner' = [runner EXCEPT ![r] =
          [failed EXCEPT !.armed = @ /\ ~restored,
                         !.stage = CASE q.stage = "drop2" -> "drop3"
                                     [] q.stage # "drop2" /\ restored -> "drop1"
                                     [] OTHER -> "last"]]
     /\ RunnerOnly

\* The outcome is committed elsewhere: release the dispatch.
FinishHandoff(r) ==
  LET q == runner[r]
      x == Current(q.task)
  IN /\ At(r, "finish")
     /\ IF CanFinish(x, q.gen, r, q.fence) THEN Write(q.task, FinishDispatch(x)) ELSE Read(q.task)
     /\ runner' = [runner EXCEPT ![r].pc = "probe", ![r].stage = "last"]
     /\ RunnerOnly

\* The service future is dropped or its context cancelled: at a wait it just
\* ends, with a guard the guard's destructor runs.
StopService(r) ==
  /\ stops < MaxStops
  /\ \/ /\ runner[r].pc \in {"wait", "scan", "candidate"}
        /\ runner' = [runner EXCEPT ![r] = Free("stopped", "ok", FALSE)]
     \/ /\ runner[r].pc \in {"guarded", "running"}
        /\ runner' = [runner EXCEPT ![r].pc = "probe", ![r].stage = "drop1", ![r].res = "dropped"]
  /\ stops' = stops + 1
  /\ UNCHANGED <<store, aged, issued, client, settled, lapsed>>

\* The runner is gone without running any destructor.
Crash(r) ==
  /\ stops < MaxStops
  /\ ~At(r, "stopped")
  /\ runner' = [runner EXCEPT ![r] = Free("stopped", "ok", FALSE)]
  /\ stops' = stops + 1
  /\ UNCHANGED <<store, aged, issued, client, settled, lapsed>>

-----------------------------------------------------------------------------
(* The application, through a FinalTaskHandoffAuthority it was handed *)

\* fenced_{require_input,complete_task,fail_task,honor_cancellation}
AuthorityCommits(a, status, asked) ==
  LET x == Current(a.task)
  IN /\ (status = "input_required") <=> (asked # {})
     /\ CanReplaceFenced(x, a.gen, a.owner, a.fence, status)
     /\ CanReplace(x, asked)
     /\ Apply(a.task, ReplaceTask(x, status, asked, {}), {<<a.task, a.fence>>})
     /\ UNCHANGED <<aged, runner, issued, client, stops>>

-----------------------------------------------------------------------------
(* Request handlers *)

\* persist_new_with_work_while_service_ready, up to the durable commit.
ClientCreates(c, t) ==
  /\ client[c].pc \in {"idle", "lost"}
  /\ \E r \in Runners : ~At(r, "stopped")
  /\ store[t].status = "absent"
  /\ Cardinality({u \in Tasks : Retained(Current(u))}) < MaxTasks
  /\ Write(t, CreateTask(store[t]))
  /\ client' = [client EXCEPT ![c] = [NoRequest EXCEPT !.pc = "confirm", !.op = "create",
                                                       !.task = t, !.status = "working"]]
  /\ UNCHANGED <<aged, runner, issued, stops>>

\* tasks/update reads the task and keeps the answers still outstanding.
ClientReadsForUpdate(c, t, keys) ==
  LET x == Current(t)
  IN /\ client[c].pc \in {"idle", "lost"}
     /\ x.status = "input_required" /\ keys # {} /\ keys \subseteq x.asked
     /\ client' = [client EXCEPT ![c] =
          [pc |-> "commit", op |-> "update", task |-> t, gen |-> x.gen, keys |-> keys,
           asked |-> x.asked \ keys,
           status |-> IF keys = x.asked THEN "working" ELSE "input_required"]]
     /\ Read(t) /\ UNCHANGED <<aged, runner, issued, stops>>

\* Faulty variant: the update is written whatever the generation is.
ClientUpdatesStale(c) ==
  LET d == client[c]
      x == Current(d.task)
  IN /\ d.pc = "commit" /\ d.op = "update"
     /\ IF CanReplace(x, d.asked)
        THEN /\ Write(d.task, ReplaceTask(x, d.status, d.asked, x.accepted \cup d.keys))
             /\ client' = [client EXCEPT ![c].pc = "confirm"]
        ELSE Read(d.task) /\ client' = [client EXCEPT ![c] = NoRequest]
     /\ UNCHANGED <<aged, runner, issued, stops>>

\* replace_task_and_append_input_if_current
ClientUpdates(c) ==
  LET d == client[c]
      x == Current(d.task)
  IN /\ d.pc = "commit" /\ d.op = "update"
     /\ IF x.gen = d.gen /\ CanReplace(x, d.asked)
        THEN /\ Write(d.task, ReplaceTask(x, d.status, d.asked, x.accepted \cup d.keys))
             /\ client' = [client EXCEPT ![c].pc = "confirm"]
        ELSE Read(d.task) /\ client' = [client EXCEPT ![c] = NoRequest]
     /\ UNCHANGED <<aged, runner, issued, stops>>

\* tasks/cancel reads the task; a terminal one is refused.
ClientReadsForCancel(c, t) ==
  LET x == Current(t)
  IN /\ client[c].pc \in {"idle", "lost"}
     /\ x.status \in Active
     /\ client' = [client EXCEPT ![c] = [NoRequest EXCEPT !.pc = "commit", !.op = "cancel",
                                                          !.task = t, !.gen = x.gen]]
     /\ Read(t) /\ UNCHANGED <<aged, runner, issued, stops>>

\* request_cancellation_and_clear_input_if_current: an elected dispatch is
\* asked to stop, anything else is cancelled on the spot.
ClientCancels(c) ==
  LET d == client[c]
      x == Current(d.task)
  IN /\ d.pc = "commit" /\ d.op = "cancel"
     /\ IF x.gen = d.gen /\ (Dispatched(x) \/ CanReplace(x, {}))
        THEN /\ Write(d.task, IF Dispatched(x) THEN RecordCancellation(x)
                              ELSE ReplaceTask(x, "cancelled", {}, {}))
             /\ client' = [client EXCEPT ![c].pc = "confirm",
                             ![c].status = IF Dispatched(x) THEN "working" ELSE "cancelled"]
        ELSE Read(d.task) /\ client' = [client EXCEPT ![c] = NoRequest]
     /\ UNCHANGED <<aged, runner, issued, stops>>

\* The re-read after the commit (validate_committed_*, and for a recorded
\* cancellation its intent and generation): what it finds must be what was
\* written, or the request fails although its write stands.  Timestamps are
\* not modelled.
ClientConfirms(c) ==
  LET d == client[c]
      x == Current(d.task)
      asWritten == /\ x.status = d.status /\ x.asked = d.asked
                   /\ d.op = "cancel" /\ d.status = "working" => x.cancel /\ x.gen = d.gen
  IN /\ d.pc = "confirm"
     /\ client' = [client EXCEPT ![c] = IF asWritten THEN NoRequest ELSE [@ EXCEPT !.pc = "lost"]]
     /\ Read(d.task) /\ UNCHANGED <<aged, runner, issued, stops>>

-----------------------------------------------------------------------------
\* What a live runner does by itself, with no help from the application.
RunnerStep(r) ==
  \/ EnterService(r) \/ RecoveryWake(r)
  \/ \E t \in Tasks : ScanEnds(r, t) \/ \E kind \in Kinds : ScanCandidate(r, t, kind)
  \/ ClaimHandoff(r) \/ ValidateClaim(r) \/ ElectDispatch(r)
  \/ ProbeCancellation(r) \/ HonorCancellation(r) \/ RenewLease(r) \/ CancellationObserved(r)
  \/ CheckTransition(r) \/ RestoreHandoff(r) \/ FinishHandoff(r)

Next ==
  \/ \E r \in Runners :
       \/ RunnerStep(r) \/ StopService(r) \/ Crash(r)
       \/ \E t \in Tasks, kind \in Kinds : ReceiveWakeup(r, t, kind)
       \/ \E res \in {"ok", "error"} : SupervisorReturns(r, res)
  \/ \E a \in issued, status \in Terminal \cup {"input_required"}, asked \in SUBSET Keys :
       AuthorityCommits(a, status, asked)
  \/ \E c \in Clients :
       \/ ClientUpdates(c) \/ ClientCancels(c) \/ ClientConfirms(c)
       \/ \E t \in Tasks :
            \/ ClientCreates(c, t) \/ ClientReadsForCancel(c, t)
            \/ \E keys \in SUBSET Keys : ClientReadsForUpdate(c, t, keys)
  \/ \E t \in Tasks : LeaseRunsOut(t) \/ TaskAges(t)

Spec == Init /\ [][Next]_vars

\* A lease whose runner will neither renew nor release it.
Abandoned(t) ==
  LET l == store[t].lease
  IN l.owner \in Runners /\ ~(/\ runner[l.owner].pc # "candidate" /\ runner[l.owner].task = t
                              /\ runner[l.owner].gen = l.gen /\ runner[l.owner].fence = l.fence)

\* Runners keep being polled and re-entered, and clocks advance: an abandoned
\* lease runs out.  Nothing is assumed of the application or of clients.
Fairness ==
  /\ \A r \in Runners : WF_vars(RunnerStep(r))
  /\ \A t \in Tasks : WF_vars(Abandoned(t) /\ LeaseRunsOut(t))

FairSpec == Spec /\ Fairness

-----------------------------------------------------------------------------
\* Types: the store, the service and the runners.
TypeOK ==
  /\ store \in [Tasks -> TaskRecords]
  /\ aged \in SUBSET Tasks
  /\ runner \in [Runners -> RunnerStates]
  /\ issued \in SUBSET Authorities
  /\ client \in [Clients -> ClientStates]
  /\ stops \in 0..MaxStops
  /\ settled \in SUBSET (Tasks \X (1..MaxFence))
  /\ lapsed \in SUBSET (Tasks \X (1..MaxFence))

\* Recorded intent always has somebody to act on it: a working task with a
\* cancellation request is held by the elected dispatch of its generation,
\* whatever runner crashed, restored, finished or let its lease run out.
CancellationNeverStranded ==
  \A t \in Tasks : store[t].status = "working" /\ store[t].cancel => Dispatched(store[t])

\* A working task nobody cancelled still has its payload in the store, so it
\* can be handed out again: claims, elections, errors, false successes,
\* crashes and expiries never consume work without a committed transition.
WorkNeverLost ==
  \A t \in Tasks :
    store[t].status = "working" /\ ~store[t].cancel => store[t].initial \/ store[t].accepted # {}

\* A dispatch whose lease was restored, expired, reclaimed or taken by a
\* cancellation commits nothing later, however long the application keeps
\* its authority, and also when the same runner holds the task again.
LapsedNeverCommits == settled \cap lapsed = {}

\* A stored task as TaskLifecycle sees it.
Life(t) == [status |-> store[t].status, cancel |-> store[t].cancel, asked |-> store[t].asked,
            answers |-> store[t].accepted, ever |-> store[t].history]
Lifecycle == INSTANCE TaskLifecycle WITH life <- [t \in Tasks |-> Life(t)]

\* Over all interleavings of clients, runners and stale authorities the tasks
\* follow the lifecycle clients rely on: every answer is kept until the worker
\* resumes, outcomes are final, and a recorded cancellation only ends cancelled.
RefinesLifecycle == Lifecycle!Spec

Exhausted(t) == store[t].gen = MaxGen \/ store[t].fences = MaxFence

\* A recorded cancellation becomes the terminal state, also when the runner
\* that should honour it crashes, unless generations have run out.
CancellationSettles ==
  \A t \in Tasks : store[t].cancel ~> ~store[t].cancel \/ store[t].gen = MaxGen

\* Working, uncancelled work reaches an elected dispatch, through crashes and
\* lost claims, or is cancelled or reclaimed first.
WorkIsDispatched ==
  \A t \in Tasks :
    store[t].status = "working" ~>
      Dispatched(store[t]) \/ store[t].status # "working" \/ t \in aged \/ Exhausted(t)

\* No step strands a task: the types hold, a cancelled task that is still
\* working has a dispatch to observe it, and uncancelled work keeps the payload
\* it would be handed out with again (claim, restore, expiry, commit).
NothingIsStranded == TypeOK /\ CancellationNeverStranded /\ WorkNeverLost

\* Under fair runners a cancelled task settles and pending work is dispatched.
WorkMovesOn == CancellationSettles /\ WorkIsDispatched
=============================================================================
