---------------------------- MODULE FinalTaskStore ----------------------------
(***************************************************************************)
(* InMemoryFinalTaskStore (fastmcp-server/src/tasks.rs): what its          *)
(* operations do to one retained task.  Each runs under the store's mutex, *)
(* so it is one operator on the task's record; the record gathers the      *)
(* task's entries in the maps of InMemoryFinalTaskState.                   *)
(*                                                                         *)
(* Generations and dispatch fences come from two store-wide counters and   *)
(* are only ever compared for one task, so each task counts its own here.  *)
(* The counters are checked: at MaxGen and MaxFence allocation fails.  An  *)
(* Instant is modelled by whether the clock has passed it: "due" for a     *)
(* lease, membership in "aged" (module FinalTasks) for a task's ttlMs.     *)
(***************************************************************************)
EXTENDS Integers

CONSTANTS
  Keys,       \* input-request keys
  Runners,    \* task services, each with a dispatch owner of its own
  NoRunner,   \* the owner of no lease
  MaxGen,     \* u64::MAX of next_generation
  MaxFence    \* u64::MAX of next_dispatch_fence

ASSUME CounterAssumption == MaxGen \in Nat \ {0} /\ MaxFence \in Nat
ASSUME RunnerAssumption == NoRunner \notin Runners

Terminal == {"completed", "failed", "cancelled"}
Active == {"working", "input_required"}
\* "gone": reclaimed after its ttlMs; identifiers are random, never reused.
Statuses == Active \cup Terminal \cup {"absent", "gone"}
Kinds == {"initial", "resumed"}

Leases == [gen : 0..MaxGen, kind : Kinds, elected : BOOLEAN, owner : Runners \cup {NoRunner},
           fence : 0..MaxFence, due : BOOLEAN]
NoLease == [gen |-> 0, kind |-> "initial", elected |-> FALSE, owner |-> NoRunner,
            fence |-> 0, due |-> FALSE]

TaskRecords ==
  [status : Statuses, gen : 0..MaxGen, initial : BOOLEAN, asked : SUBSET Keys,
   accepted : SUBSET Keys, history : SUBSET Keys, cancel : BOOLEAN,
   fences : 0..MaxFence, lease : Leases]

Missing(status, fences) ==
  [status |-> status, gen |-> 0, initial |-> FALSE, asked |-> {}, accepted |-> {},
   history |-> {}, cancel |-> FALSE, fences |-> fences, lease |-> NoLease]

Retained(x) == x.status \in Active \cup Terminal
Leased(x) == x.lease # NoLease
Dispatched(x) == Leased(x) /\ x.lease.elected /\ x.lease.gen = x.gen

\* A fresh task: working, its initial work durable.
CreateTask(x) == [x EXCEPT !.status = "working", !.gen = 1, !.initial = TRUE]

-----------------------------------------------------------------------------
\* Faulty variant: the generation counter is not checked.
CanReplaceUnchecked(x, asked) ==
  x.status \in Active /\ (asked \ x.asked) \cap x.history = {}

\* A replacement is refused, and nothing changes, when the task is terminal,
\* a requested key was issued before, or no generation is left.
CanReplace(x, asked) ==
  /\ x.status \in Active
  /\ (asked \ x.asked) \cap x.history = {}
  /\ x.gen < MaxGen

\* replace_in_memory_final_task; answers is what the input mutation leaves.
ReplaceTask(x, status, asked, answers) ==
  [x EXCEPT !.status = status, !.gen = @ + 1, !.asked = asked, !.history = @ \cup asked,
            !.lease = NoLease, !.initial = @ /\ status = "working", !.accepted = answers,
            !.cancel = @ /\ status \notin Terminal]

\* Faulty variant: an expired lease is dropped, cancelled task or not.
ReclaimLeaseStranding(x) ==
  IF ~Leased(x) \/ ~x.lease.due THEN x
  ELSE IF x.gen < MaxGen THEN [x EXCEPT !.gen = @ + 1, !.lease = NoLease] ELSE x

\* An expired lease: a cancelled task is retired, a recoverable one gets a new
\* generation before its payload can be claimed again.  When no generation is
\* left the lease stays.
ReclaimLease(x) ==
  IF ~Leased(x) \/ ~x.lease.due THEN x
  ELSE IF x.cancel /\ x.status = "working"
       THEN IF CanReplace(x, {}) THEN ReplaceTask(x, "cancelled", {}, {}) ELSE x
  ELSE IF x.gen = x.lease.gen /\ x.status = "working"
       THEN IF x.gen < MaxGen THEN [x EXCEPT !.gen = @ + 1, !.lease = NoLease] ELSE x
  ELSE [x EXCEPT !.lease = NoLease]

\* reclaim_expired_in_memory_final_tasks for one task, run before every operation.
Reclaim(x, agedOut) ==
  IF agedOut /\ Retained(x) THEN Missing("gone", x.fences) ELSE ReclaimLease(x)

-----------------------------------------------------------------------------
Payload(x, kind) == IF kind = "initial" THEN x.initial ELSE x.accepted # {}

\* take_{initial_work,input}_handoff_for_owner_if_current
CanTake(x, gen, kind) ==
  x.gen = gen /\ x.status = "working" /\ ~x.cancel /\ ~Leased(x) /\ Payload(x, kind)

Take(x, gen, kind, owner) ==
  [x EXCEPT !.lease = [NoLease EXCEPT !.gen = gen, !.kind = kind, !.owner = owner]]

\* begin_handoff_dispatch_for_owner_if_current
CanBegin(x, gen, owner) ==
  /\ x.gen = gen /\ x.status = "working" /\ ~x.cancel
  /\ x.lease.gen = gen /\ ~x.lease.elected /\ x.lease.owner = owner /\ ~x.lease.due

BeginDispatch(x) ==
  [x EXCEPT !.fences = @ + 1,
            !.lease = [@ EXCEPT !.elected = TRUE, !.fence = x.fences + 1, !.due = FALSE]]

\* Faulty variant: the dispatch fence is not compared.
OwnsDispatchUnfenced(x, gen, owner, fence) ==
  /\ x.lease.gen = gen /\ x.lease.elected /\ x.lease.owner = owner /\ ~x.lease.due

\* The exact elected, unexpired lease.
OwnsDispatch(x, gen, owner, fence) ==
  /\ x.lease.gen = gen /\ x.lease.elected /\ x.lease.owner = owner
  /\ x.lease.fence = fence /\ ~x.lease.due

\* replace_task_and_clear_input_for_handoff_if_current: a normal outcome needs
\* that no cancellation was recorded, a cancelled one that it was.
CanReplaceFenced(x, gen, owner, fence, status) ==
  /\ x.gen = gen /\ OwnsDispatch(x, gen, owner, fence)
  /\ x.cancel <=> status = "cancelled"

\* Faulty variant: restoration releases the lease of a cancelled task.
CanRestoreCancelled(x, gen, kind, owner, fence) ==
  /\ x.lease.gen = gen /\ x.lease.kind = kind /\ x.lease.owner = owner
  /\ x.lease.fence = fence /\ ~x.lease.due

\* restore_{initial_work,input}_for_owner_if_current; fence 0: never elected.
\* A recorded cancellation keeps the lease.
CanRestore(x, gen, kind, owner, fence) ==
  /\ x.lease.gen = gen /\ x.lease.kind = kind /\ x.lease.owner = owner
  /\ x.lease.fence = fence /\ ~x.lease.due
  /\ ~x.cancel

Release(x) == [x EXCEPT !.lease = NoLease]

\* finish_handoff_dispatch_for_owner_if_current: the payload goes with the
\* lease while the generation is still the working one.
CanFinish(x, gen, owner, fence) == OwnsDispatch(x, gen, owner, fence) /\ ~x.cancel

FinishDispatch(x) ==
  IF x.gen = x.lease.gen /\ x.status = "working"
  THEN [x EXCEPT !.lease = NoLease,
                 !.initial = @ /\ x.lease.kind # "initial",
                 !.accepted = IF x.lease.kind = "resumed" THEN {} ELSE @]
  ELSE Release(x)

\* record_in_memory_final_task_cancellation: an elected dispatch keeps its
\* lease and generation, any other is fenced off.
RecordCancellation(x) ==
  [x EXCEPT !.accepted = {}, !.initial = FALSE, !.cancel = TRUE,
            !.lease = IF Dispatched(x) THEN @ ELSE NoLease,
            !.gen = IF Dispatched(x) \/ x.cancel THEN @ ELSE @ + 1]
=============================================================================
