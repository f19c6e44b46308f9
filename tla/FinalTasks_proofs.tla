--------------------------- MODULE FinalTasks_proofs ---------------------------
(***************************************************************************)
(* Proofs about FinalTasks, for any numbers of tasks, runners, clients and *)
(* keys and any counter limits.                                            *)
(*                                                                         *)
(* IInv is the inductive invariant.  RecInv says what a stored task looks  *)
(* like; StepOK what any operation, the reclamation before it included,    *)
(* may do to it.  Runners and clients remember a generation: RunOK and     *)
(* ReqOK say what the stored task can still be, and hold on because        *)
(* generations only grow and fix the status.  LedgerOK ties the dispatch   *)
(* fences already settled or lapsed to the fence counter.                  *)
(*                                                                         *)
(* RoundsOK, on top of IInv, is about rounds of input: what a task asks,   *)
(* has asked and was answered.  With it every operation is a step of       *)
(* TaskLifecycle or none (RoundStep), which is the refinement.             *)
(***************************************************************************)
EXTENDS FinalTasks, TLAPS

RecInv(x) ==
  /\ x \in TaskRecords
  /\ x.status = "absent" => x = Missing("absent", x.fences)
  /\ Retained(x) => x.gen >= 1
  /\ Leased(x) => x.status = "working" /\ x.lease.gen = x.gen
  /\ x.cancel => x.status = "working" /\ Dispatched(x)
  /\ x.lease.elected => x.lease.fence >= 1 /\ x.lease.fence <= x.fences
  /\ ~x.lease.elected => x.lease.fence = 0
  /\ x.status = "working" /\ ~x.cancel => x.initial \/ x.accepted # {}

StepOK(x, y) ==
  /\ RecInv(y)
  /\ y.fences >= x.fences
  /\ y.lease.elected => \/ x.lease.elected /\ y.lease.fence = x.lease.fence
                        \/ y.lease.fence > x.fences
  /\ x.status = "gone" => y.status = "gone"
  /\ \/ y.status = "gone"
     \/ y.gen > x.gen
     \/ y.gen = x.gen /\ y.status = x.status /\ (x.cancel => y.cancel)

\* A task as someone can find it who saw it at generation g with status s.
Past(x, g, s) ==
  \/ x.status = "gone"
  \/ x.gen > g
  \/ x.gen = g /\ x.status = s

Holding == {"taken", "guarded", "probe", "honor", "running", "check", "restore", "finish"}

RunOK(q, st, ag) ==
  /\ q.pc \in Holding \cup {"candidate"} => q.task \in Tasks
  /\ q.pc \in Holding => q.gen >= 1 /\ Past(st[q.task], q.gen, "working")
  /\ q.pc \in {"probe", "honor"} => q.stage # "drop2"
  /\ q.pc = "probe" /\ q.stage = "before" => q.fence >= 1
  /\ q.pc = "finish" => \/ q.task \in ag
                        \/ st[q.task].status = "gone"
                        \/ st[q.task].gen > q.gen
                        \/ st[q.task].cancel

ReqOK(d, st) ==
  /\ d.pc \in {"commit", "confirm", "lost"} => d.task \in Tasks
  /\ d.pc = "commit" /\ d.op = "update" =>
       /\ d.keys # {} /\ d.status \in {"working", "input_required"}
       /\ Past(st[d.task], d.gen, "input_required")

LedgerOK ==
  /\ settled \cap lapsed = {}
  /\ \A e \in settled \cup lapsed :
       /\ e[2] <= store[e[1]].fences
       /\ store[e[1]].lease.elected => store[e[1]].lease.fence # e[2]

IInv ==
  /\ TypeOK
  /\ \A t \in Tasks : RecInv(store[t])
  /\ \A r \in Runners : RunOK(runner[r], store, aged)
  /\ \A c \in Clients : ReqOK(client[c], store)
  /\ LedgerOK

-----------------------------------------------------------------------------
(* What the operations of the store do to one record *)

LEMMA NoLeaseType == NoLease \in Leases /\ NoLease.gen = 0 /\ NoLease.elected = FALSE /\ NoLease.fence = 0
  BY CounterAssumption DEF NoLease, Leases, Kinds

LEMMA RecFields ==
  ASSUME NEW x, x \in TaskRecords
  PROVE  /\ x.status \in Statuses /\ x.gen \in 0..MaxGen /\ x.initial \in BOOLEAN
         /\ x.asked \in SUBSET Keys /\ x.accepted \in SUBSET Keys /\ x.history \in SUBSET Keys
         /\ x.cancel \in BOOLEAN /\ x.fences \in 0..MaxFence /\ x.lease \in Leases
         /\ x.lease.gen \in 0..MaxGen /\ x.lease.elected \in BOOLEAN /\ x.lease.fence \in 0..MaxFence
         /\ x.lease.due \in BOOLEAN
  BY DEF TaskRecords, Leases

LEMMA MissingInv ==
  ASSUME NEW f \in 0..MaxFence, NEW s \in {"absent", "gone"}
  PROVE  RecInv(Missing(s, f))
<1>1. Missing(s, f) \in TaskRecords
  BY NoLeaseType, CounterAssumption DEF Missing, TaskRecords, Statuses
<1> QED
  BY <1>1, NoLeaseType DEF RecInv, Missing, Retained, Leased, Active, Terminal

LEMMA StepReflexive ==
  ASSUME NEW x, RecInv(x)
  PROVE  StepOK(x, x)
  BY RecFields DEF StepOK, RecInv

LEMMA StepTransitive ==
  ASSUME NEW x, NEW y, NEW z, RecInv(x), StepOK(x, y), StepOK(y, z)
  PROVE  StepOK(x, z)
<1>1. x \in TaskRecords /\ y \in TaskRecords /\ z \in TaskRecords
  BY DEF StepOK, RecInv
<1> QED
  BY <1>1, RecFields DEF StepOK

\* A replacement that is not refused, of a task whose cancellation is only
\* kept for a terminal status, and whose payload a working status keeps.
LEMMA ReplaceStep ==
  ASSUME NEW x, RecInv(x), NEW s \in Active \cup Terminal, NEW asked \in SUBSET Keys,
         NEW answers \in SUBSET Keys, CanReplace(x, asked),
         x.cancel => s \in Terminal,
         s = "working" => answers # {}
  PROVE  StepOK(x, ReplaceTask(x, s, asked, answers))
<1> DEFINE y == ReplaceTask(x, s, asked, answers)
<1>0. x \in TaskRecords
  BY DEF RecInv
<1>1. /\ y.status = s /\ y.gen = x.gen + 1 /\ y.lease = NoLease /\ y.fences = x.fences
      /\ y.cancel = FALSE /\ y.accepted = answers
  BY <1>0, RecFields DEF ReplaceTask, TaskRecords
<1>2. y \in TaskRecords
  <2>1. x.gen + 1 \in 0..MaxGen
    BY <1>0, RecFields, CounterAssumption DEF CanReplace
  <2> QED
    BY <1>0, <2>1, RecFields, NoLeaseType DEF ReplaceTask, TaskRecords, Statuses
<1>3. RecInv(y)
  BY <1>0, <1>1, <1>2, RecFields, NoLeaseType DEF RecInv, Leased, Retained, Active, Terminal
<1>4. x.status # "gone"
  BY DEF CanReplace, Active
<1> HIDE DEF y
<1>5. StepOK(x, y)
  BY <1>0, <1>1, <1>3, <1>4, RecFields, NoLeaseType DEF StepOK
<1> QED
  BY <1>5 DEF y

\* Giving the lease of an uncancelled task up, at the same generation or the next.
LEMMA ReleaseStep ==
  ASSUME NEW x, RecInv(x), ~x.cancel, x.status = "working", NEW y, y \in TaskRecords,
         y.status = x.status, y.lease = NoLease, y.fences = x.fences, y.cancel = FALSE,
         y.initial = x.initial, y.accepted = x.accepted,
         y.gen = x.gen \/ y.gen = x.gen + 1
  PROVE  StepOK(x, y)
<1>0. x \in TaskRecords
  BY DEF RecInv
<1>1. RecInv(y)
  BY <1>0, RecFields, NoLeaseType DEF RecInv, Leased, Retained, Active
<1> QED
  BY <1>0, <1>1, RecFields, NoLeaseType DEF StepOK

LEMMA ReclaimLeaseStep ==
  ASSUME NEW x, RecInv(x)
  PROVE  StepOK(x, ReclaimLease(x))
<1>0. x \in TaskRecords
  BY DEF RecInv
<1>1. CASE ~Leased(x) \/ ~x.lease.due
  BY <1>1, StepReflexive DEF ReclaimLease
<1>2. CASE Leased(x) /\ x.lease.due /\ x.cancel
  <2>1. x.status = "working"
    BY <1>2 DEF RecInv
  <2>2. CASE CanReplace(x, {})
    <3>1. ReclaimLease(x) = ReplaceTask(x, "cancelled", {}, {})
      BY <1>2, <2>1, <2>2 DEF ReclaimLease
    <3> QED
      BY <2>2, <3>1, ReplaceStep DEF Active, Terminal
  <2>3. CASE ~CanReplace(x, {})
    BY <1>2, <2>1, <2>3, StepReflexive DEF ReclaimLease
  <2> QED
    BY <2>2, <2>3
<1>3. CASE Leased(x) /\ x.lease.due /\ ~x.cancel
  <2>1. x.status = "working" /\ x.gen = x.lease.gen
    BY <1>3 DEF RecInv
  <2>2. CASE x.gen < MaxGen
    <3> DEFINE y == [x EXCEPT !.gen = @ + 1, !.lease = NoLease]
    <3>1. ReclaimLease(x) = y
      BY <1>3, <2>1, <2>2 DEF ReclaimLease
    <3>2. x.gen + 1 \in 0..MaxGen
      BY <1>0, <2>2, RecFields, CounterAssumption
    <3>3. y \in TaskRecords
      BY <1>0, <3>2, NoLeaseType DEF TaskRecords
    <3>4. /\ y.status = x.status /\ y.lease = NoLease /\ y.fences = x.fences /\ y.cancel = FALSE
          /\ y.initial = x.initial /\ y.accepted = x.accepted /\ y.gen = x.gen + 1
      BY <1>0, <1>3, RecFields DEF TaskRecords
    <3> HIDE DEF y
    <3> QED
      BY <1>3, <2>1, <3>1, <3>3, <3>4, ReleaseStep
  <2>3. CASE ~(x.gen < MaxGen)
    BY <1>3, <2>1, <2>3, StepReflexive DEF ReclaimLease
  <2> QED
    BY <2>2, <2>3
<1> QED
  BY <1>0, <1>1, <1>2, <1>3, RecFields

\* Reclamation is a step, and an aged task comes out of it not retained.
LEMMA ReclaimStep ==
  ASSUME NEW x, RecInv(x), NEW a \in BOOLEAN
  PROVE  /\ StepOK(x, Reclaim(x, a))
         /\ a => ~Retained(Reclaim(x, a)) /\ ~Reclaim(x, a).lease.elected
<1>0. x \in TaskRecords
  BY DEF RecInv
<1>1. CASE a /\ Retained(x)
  <2> DEFINE y == Missing("gone", x.fences)
  <2>1. Reclaim(x, a) = y
    BY <1>1 DEF Reclaim
  <2>2. y.status = "gone" /\ y.fences = x.fences /\ y.lease = NoLease
    BY DEF Missing
  <2>3. RecInv(y)
    BY <1>0, RecFields, MissingInv
  <2> HIDE DEF y
  <2> QED
    BY <1>0, <2>1, <2>2, <2>3, RecFields, NoLeaseType DEF StepOK, Retained, Active, Terminal
<1>2. CASE ~(a /\ Retained(x))
  <2>1. Reclaim(x, a) = ReclaimLease(x)
    BY <1>2 DEF Reclaim
  <2>2. ASSUME a PROVE ~Retained(x) /\ ~Leased(x)
    BY <1>2, <2>2 DEF RecInv, Retained, Active, Terminal
  <2>3. a => ReclaimLease(x) = x /\ ~Retained(x) /\ ~x.lease.elected
    BY <2>2, NoLeaseType DEF ReclaimLease, Leased
  <2> QED
    BY <2>1, <2>3, ReclaimLeaseStep
<1> QED
  BY <1>1, <1>2

LEMMA CreateStep ==
  ASSUME NEW x, RecInv(x), x.status = "absent"
  PROVE  StepOK(x, CreateTask(x))
<1>0. x \in TaskRecords /\ x.gen = 0 /\ x.lease = NoLease /\ x.cancel = FALSE
  BY DEF RecInv, Missing
<1> DEFINE y == CreateTask(x)
<1>1. /\ y.status = "working" /\ y.gen = 1 /\ y.initial = TRUE /\ y.lease = NoLease
      /\ y.cancel = FALSE /\ y.fences = x.fences
  BY <1>0 DEF CreateTask, TaskRecords
<1>2. y \in TaskRecords
  <2>1. 1 \in 0..MaxGen
    BY CounterAssumption
  <2> QED
    BY <1>0, <2>1 DEF CreateTask, TaskRecords, Statuses, Active
<1> HIDE DEF y
<1>3. RecInv(y)
  BY <1>1, <1>2, NoLeaseType DEF RecInv, Leased
<1>4. StepOK(x, y)
  BY <1>0, <1>1, <1>3, RecFields, NoLeaseType DEF StepOK
<1> QED
  BY <1>4 DEF y

LEMMA TakeStep ==
  ASSUME NEW x, RecInv(x), NEW g, NEW kind \in Kinds, NEW r \in Runners, CanTake(x, g, kind)
  PROVE  /\ StepOK(x, Take(x, g, kind, r))
         /\ Take(x, g, kind, r).gen = g /\ Take(x, g, kind, r).status = "working" /\ g >= 1
<1>0. x \in TaskRecords /\ g \in 0..MaxGen /\ x.cancel = FALSE /\ x.gen = g /\ x.status = "working"
  BY RecFields DEF CanTake, RecInv
<1> DEFINE l == [NoLease EXCEPT !.gen = g, !.kind = kind, !.owner = r]
           y == Take(x, g, kind, r)
<1>1. l \in Leases /\ l.gen = g /\ l.elected = FALSE /\ l.fence = 0
  BY <1>0, NoLeaseType DEF NoLease, Leases
<1>2. /\ y.status = x.status /\ y.gen = x.gen /\ y.initial = x.initial /\ y.lease = l
      /\ y.cancel = x.cancel /\ y.fences = x.fences /\ y.accepted = x.accepted
  BY <1>0 DEF Take, TaskRecords
<1>3. y \in TaskRecords
  BY <1>0, <1>1 DEF Take, TaskRecords
<1>4. g >= 1
  BY <1>0 DEF RecInv, Retained, Active
<1> HIDE DEF y, l
<1>5. RecInv(y)
  BY <1>0, <1>1, <1>2, <1>3, <1>4 DEF RecInv, Leased
<1>6. StepOK(x, y)
  BY <1>0, <1>1, <1>2, <1>5, RecFields DEF StepOK
<1> QED
  BY <1>0, <1>2, <1>4, <1>6 DEF y

LEMMA BeginStep ==
  ASSUME NEW x, RecInv(x), NEW g \in 1..MaxGen, NEW r, CanBegin(x, g, r), x.fences < MaxFence
  PROVE  StepOK(x, BeginDispatch(x))
<1>0. x \in TaskRecords /\ x.gen = g /\ x.cancel = FALSE /\ x.status = "working" /\ x.lease.gen = g
  BY RecFields DEF CanBegin, RecInv
<1> DEFINE l == [x.lease EXCEPT !.elected = TRUE, !.fence = x.fences + 1, !.due = FALSE]
           y == BeginDispatch(x)
<1>1. x.fences + 1 \in 0..MaxFence /\ x.fences + 1 >= 1
  BY <1>0, RecFields, CounterAssumption
<1>2. l \in Leases /\ l.gen = x.lease.gen /\ l.elected = TRUE /\ l.fence = x.fences + 1
  BY <1>0, <1>1, RecFields DEF Leases
<1>3. /\ y.status = x.status /\ y.gen = x.gen /\ y.initial = x.initial /\ y.lease = l
      /\ y.cancel = x.cancel /\ y.fences = x.fences + 1 /\ y.accepted = x.accepted
  BY <1>0 DEF BeginDispatch, TaskRecords
<1>4. y \in TaskRecords
  BY <1>0, <1>1, <1>2 DEF BeginDispatch, TaskRecords
<1> HIDE DEF y, l
<1>5. RecInv(y)
  <2>1. l # NoLease
    BY <1>2, NoLeaseType
  <2> QED
    BY <1>0, <1>1, <1>2, <1>3, <1>4, <2>1 DEF RecInv, Leased
<1>6. StepOK(x, y)
  BY <1>0, <1>1, <1>2, <1>3, <1>5, RecFields DEF StepOK
<1> QED
  BY <1>6 DEF y

\* Cancelling an elected dispatch records the intent and leaves it its lease.
LEMMA RecordStep ==
  ASSUME NEW x, RecInv(x), Dispatched(x)
  PROVE  StepOK(x, RecordCancellation(x))
<1>0. x \in TaskRecords /\ x.status = "working"
  BY DEF RecInv, Dispatched
<1> DEFINE y == RecordCancellation(x)
<1>1. /\ y.status = x.status /\ y.gen = x.gen /\ y.lease = x.lease
      /\ y.cancel = TRUE /\ y.fences = x.fences
  BY <1>0 DEF RecordCancellation, TaskRecords
<1>2. y \in TaskRecords
  BY <1>0 DEF RecordCancellation, TaskRecords
<1>3. Dispatched(y)
  BY <1>1 DEF Dispatched, Leased
<1> HIDE DEF y
<1>4. RecInv(y)
  BY <1>0, <1>1, <1>2, <1>3 DEF RecInv, Leased, Dispatched, Retained
<1>5. StepOK(x, y)
  BY <1>0, <1>1, <1>4, RecFields DEF StepOK
<1> QED
  BY <1>5 DEF y

LEMMA RestoreStep ==
  ASSUME NEW x, RecInv(x), ~x.cancel, Leased(x)
  PROVE  StepOK(x, Release(x))
<1>0. x \in TaskRecords /\ x.status = "working"
  BY DEF RecInv
<1> DEFINE y == Release(x)
<1>1. y \in TaskRecords
  BY <1>0, NoLeaseType DEF Release, TaskRecords
<1>2. /\ y.status = x.status /\ y.lease = NoLease /\ y.fences = x.fences /\ y.cancel = FALSE
      /\ y.initial = x.initial /\ y.accepted = x.accepted /\ y.gen = x.gen
  BY <1>0, RecFields DEF Release, TaskRecords
<1> HIDE DEF y
<1>3. StepOK(x, y)
  BY <1>0, <1>1, <1>2, ReleaseStep
<1> QED
  BY <1>3 DEF y

LEMMA DueStep ==
  ASSUME NEW x, RecInv(x), Leased(x)
  PROVE  StepOK(x, [x EXCEPT !.lease.due = TRUE])
<1>0. x \in TaskRecords
  BY DEF RecInv
<1> DEFINE l == [x.lease EXCEPT !.due = TRUE]
           y == [x EXCEPT !.lease.due = TRUE]
<1>1. l \in Leases /\ l.gen = x.lease.gen /\ l.elected = x.lease.elected /\ l.fence = x.lease.fence
  BY <1>0, RecFields DEF Leases
<1>2. l # NoLease
  BY <1>0, RecFields DEF NoLease, Leases
<1>3. y \in TaskRecords
  BY <1>0, <1>1 DEF TaskRecords
<1>4. /\ y.status = x.status /\ y.gen = x.gen /\ y.initial = x.initial /\ y.lease = l
      /\ y.cancel = x.cancel /\ y.fences = x.fences /\ y.accepted = x.accepted
  BY <1>0 DEF TaskRecords
<1> HIDE DEF y, l
<1>5. RecInv(y)
  BY <1>0, <1>1, <1>2, <1>3, <1>4 DEF RecInv, Leased, Dispatched, Retained
<1>6. StepOK(x, y)
  BY <1>0, <1>1, <1>4, <1>5, RecFields DEF StepOK
<1> QED
  BY <1>6 DEF y

\* Reclamation elects nothing.
LEMMA ReclaimFences ==
  ASSUME NEW x, RecInv(x), NEW a \in BOOLEAN, Reclaim(x, a).lease.elected
  PROVE  x.lease.elected /\ Reclaim(x, a).lease.fence = x.lease.fence
<1>0. x \in TaskRecords
  BY DEF RecInv
<1>1. Reclaim(x, a) = x \/ Reclaim(x, a).lease = NoLease
  BY <1>0 DEF Reclaim, Missing, ReclaimLease, ReplaceTask, TaskRecords
<1> QED
  BY <1>1, NoLeaseType

-----------------------------------------------------------------------------
(* What a store operation does to the whole store and the ledger *)

Advance ==
  /\ store' \in [Tasks -> TaskRecords]
  /\ \A t \in Tasks : RecInv(store'[t]) /\ StepOK(store[t], store'[t])
  /\ settled' \in SUBSET (Tasks \X (1..MaxFence)) /\ lapsed' \in SUBSET (Tasks \X (1..MaxFence))
  /\ LedgerOK'

LEMMA CurrentStep ==
  ASSUME IInv, NEW t \in Tasks
  PROVE  /\ RecInv(store[t]) /\ RecInv(Current(t)) /\ StepOK(store[t], Current(t))
         /\ store[t] \in TaskRecords /\ Current(t) \in TaskRecords
         /\ t \in aged => Current(t).status \notin Active \cup Terminal /\ ~Current(t).lease.elected
         /\ Current(t).lease.elected => /\ store[t].lease.elected
                                        /\ Current(t).lease.fence = store[t].lease.fence
<1>1. RecInv(store[t]) /\ (t \in aged) \in BOOLEAN
  BY DEF IInv
<1>2. StepOK(store[t], Current(t)) /\ (t \in aged => ~Retained(Current(t)) /\ ~Current(t).lease.elected)
  BY <1>1, ReclaimStep DEF Current
<1>3. Current(t).lease.elected => /\ store[t].lease.elected
                                  /\ Current(t).lease.fence = store[t].lease.fence
  BY <1>1, ReclaimFences DEF Current
<1> QED
  BY <1>1, <1>2, <1>3 DEF StepOK, RecInv, Retained

LEMMA ApplyAdvance ==
  ASSUME IInv, NEW t \in Tasks, NEW x, StepOK(Current(t), x), NEW f, NEW by \in {{}, {<<t, f>>}},
         by # {} => Current(t).lease.elected /\ Current(t).lease.fence = f /\ x.lease = NoLease,
         Apply(t, x, by)
  PROVE  Advance
<1>1. \A u \in Tasks : store'[u] = IF u = t THEN x ELSE Current(u)
  BY DEF Apply
<1>2. ASSUME NEW u \in Tasks PROVE StepOK(store[u], store'[u])
  <2>1. StepOK(store[t], x)
    BY CurrentStep, StepTransitive
  <2> QED
    BY <1>1, <2>1, CurrentStep
<1>3. \A u \in Tasks : RecInv(store'[u]) /\ store'[u] \in TaskRecords /\ store[u] \in TaskRecords
  BY <1>2, CurrentStep DEF StepOK, RecInv
<1>4. store' \in [Tasks -> TaskRecords]
  BY <1>1, <1>3 DEF Apply
<1>5. \A e \in by : e = <<t, f>> /\ store[t].lease.elected /\ store[t].lease.fence = f
                    /\ store'[t].lease.elected = FALSE
  BY <1>1, CurrentStep, NoLeaseType
<1> DEFINE Dead == {<<u, store[u].lease.fence>> : u \in
              {v \in Tasks : store[v].lease.elected /\ store'[v].lease.fence # store[v].lease.fence}}
<1>6. settled' = settled \cup by /\ lapsed' = lapsed \cup (Dead \ by)
  BY DEF Apply
<1>7. \A e \in Dead \cup by :
        /\ e[1] \in Tasks /\ e[2] = store[e[1]].lease.fence /\ store[e[1]].lease.elected
        /\ e = <<e[1], e[2]>>
        /\ store'[e[1]].lease.elected => store'[e[1]].lease.fence # e[2]
  BY <1>5
<1> HIDE DEF Dead
<1>8. \A u \in Tasks : /\ store[u].lease.fence \in 0..MaxFence /\ store[u].fences \in 0..MaxFence
                       /\ store'[u].lease.fence \in 0..MaxFence /\ store'[u].fences \in 0..MaxFence
  BY <1>3, RecFields
<1>9. \A u \in Tasks : store[u].lease.elected =>
        store[u].lease.fence >= 1 /\ store[u].lease.fence <= store[u].fences
  BY CurrentStep DEF RecInv
<1>10. \A e \in Dead \cup by : e \in Tasks \X (1..MaxFence) /\ e \notin settled \cup lapsed
  <2> SUFFICES ASSUME NEW e \in Dead \cup by PROVE e \in Tasks \X (1..MaxFence) /\ e \notin settled \cup lapsed
    OBVIOUS
  <2>1. e[2] \in 1..MaxFence
    BY <1>7, <1>8, <1>9, CounterAssumption
  <2> QED
    BY <1>7, <2>1 DEF IInv, LedgerOK
<1>11. settled' \in SUBSET (Tasks \X (1..MaxFence)) /\ lapsed' \in SUBSET (Tasks \X (1..MaxFence))
  BY <1>6, <1>10 DEF IInv, TypeOK
<1>12. settled' \cap lapsed' = {}
  BY <1>6, <1>10 DEF IInv, LedgerOK
<1>13. ASSUME NEW e \in settled' \cup lapsed'
       PROVE  /\ e[2] <= store'[e[1]].fences
              /\ store'[e[1]].lease.elected => store'[e[1]].lease.fence # e[2]
  <2>1. e[1] \in Tasks /\ e[2] \in 1..MaxFence
    BY <1>11, <1>13
  <2>2. store'[e[1]].fences >= store[e[1]].fences
    BY <1>2, <2>1 DEF StepOK
  <2>3. CASE e \in Dead \cup by
    BY <1>7, <1>8, <1>9, <2>1, <2>2, <2>3
  <2>4. CASE e \in settled \cup lapsed
    <3>1. e[2] <= store[e[1]].fences /\ (store[e[1]].lease.elected => store[e[1]].lease.fence # e[2])
      BY <2>4 DEF IInv, LedgerOK
    <3>2. store'[e[1]].lease.elected =>
            \/ store[e[1]].lease.elected /\ store'[e[1]].lease.fence = store[e[1]].lease.fence
            \/ store'[e[1]].lease.fence > store[e[1]].fences
      BY <1>2, <2>1 DEF StepOK
    <3> QED
      BY <1>8, <2>1, <2>2, <3>1, <3>2
  <2> QED
    BY <1>6, <1>13, <2>3, <2>4
<1> QED
  BY <1>2, <1>3, <1>4, <1>11, <1>12, <1>13 DEF Advance, LedgerOK

\* Leaving the store and the ledger alone.
LEMMA StutterAdvance ==
  ASSUME IInv, UNCHANGED <<store, settled, lapsed>>
  PROVE  Advance
  BY StepReflexive DEF Advance, IInv, TypeOK, LedgerOK

\* A read reclaims and changes nothing else.
LEMMA ReadAdvance ==
  ASSUME IInv, NEW t \in Tasks, Read(t)
  PROVE  Advance /\ store'[t] = Current(t)
<1>1. StepOK(Current(t), Current(t))
  BY CurrentStep, StepReflexive
<1> QED
  BY <1>1, ApplyAdvance DEF Read, Apply

LEMMA WriteAdvance ==
  ASSUME IInv, NEW t \in Tasks, NEW x, StepOK(Current(t), x), Write(t, x)
  PROVE  Advance /\ store'[t] = x
  BY ApplyAdvance DEF Write, Apply

\* What a runner and a request handler rely on survives any step of the store.
LEMMA PastStable ==
  ASSUME NEW x, NEW y, RecInv(x), StepOK(x, y), NEW g \in Nat, NEW s, Past(x, g, s)
  PROVE  Past(y, g, s)
  BY RecFields DEF Past, StepOK, RecInv

LEMMA RunStable ==
  ASSUME IInv, Advance, NEW ag, aged \subseteq ag, NEW q \in RunnerStates, RunOK(q, store, aged)
  PROVE  RunOK(q, store', ag)
<1>1. q.gen \in Nat
  BY CounterAssumption DEF RunnerStates
<1>2. ASSUME q.task \in Tasks, Past(store[q.task], q.gen, "working")
      PROVE  Past(store'[q.task], q.gen, "working")
  BY <1>1, <1>2, PastStable, CurrentStep DEF Advance
<1>3. ASSUME q.task \in Tasks, Past(store[q.task], q.gen, "working"),
             store[q.task].status = "gone" \/ store[q.task].gen > q.gen \/ store[q.task].cancel
      PROVE  store'[q.task].status = "gone" \/ store'[q.task].gen > q.gen \/ store'[q.task].cancel
  <2>1. StepOK(store[q.task], store'[q.task]) /\ store[q.task] \in TaskRecords /\ store'[q.task] \in TaskRecords
    BY <1>3, CurrentStep DEF Advance, RecInv
  <2> QED
    BY <1>1, <1>3, <2>1, RecFields DEF StepOK, Past
<1> QED
  BY <1>2, <1>3 DEF RunOK, Holding

LEMMA ReqStable ==
  ASSUME IInv, Advance, NEW d \in ClientStates, ReqOK(d, store)
  PROVE  ReqOK(d, store')
<1>1. d.gen \in Nat
  BY CounterAssumption DEF ClientStates
<1>2. ASSUME d.task \in Tasks, Past(store[d.task], d.gen, "input_required")
      PROVE  Past(store'[d.task], d.gen, "input_required")
  BY <1>1, <1>2, PastStable, CurrentStep DEF Advance
<1> QED
  BY <1>2 DEF ReqOK

-----------------------------------------------------------------------------
(* Steps of runners *)

LEMMA RunnerMove ==
  ASSUME IInv, Advance, NEW r \in Runners, NEW n \in RunnerStates, RunOK(n, store', aged),
         runner' = [runner EXCEPT ![r] = n], aged' = aged, client' = client,
         stops' \in 0..MaxStops, issued' \in SUBSET Authorities
  PROVE  IInv'
<1>1. runner' \in [Runners -> RunnerStates]
  BY DEF IInv, TypeOK
<1>2. TypeOK'
  BY <1>1 DEF IInv, TypeOK, Advance
<1>3. ASSUME NEW p \in Runners PROVE RunOK(runner'[p], store', aged')
  <2>1. runner[p] \in RunnerStates /\ RunOK(runner[p], store, aged)
    BY DEF IInv, TypeOK
  <2>2. RunOK(runner[p], store', aged)
    BY <2>1, RunStable
  <2>3. runner'[p] = IF p = r THEN n ELSE runner[p]
    BY DEF IInv, TypeOK
  <2> QED
    BY <2>2, <2>3
<1>4. ASSUME NEW c \in Clients PROVE ReqOK(client'[c], store')
  BY ReqStable DEF IInv, TypeOK
<1> QED
  BY <1>2, <1>3, <1>4 DEF IInv, Advance

LEMMA FreeOK ==
  ASSUME NEW pc \in {"stopped", "wait", "scan"}, NEW res \in {"ok", "error", "dropped", "absent", "changed"},
         NEW owed \in BOOLEAN, NEW st, NEW ag
  PROVE  Free(pc, res, owed) \in RunnerStates /\ RunOK(Free(pc, res, owed), st, ag)
<1>1. Free(pc, res, owed) \in RunnerStates
  BY CounterAssumption DEF Free, RunnerStates, Kinds
<1> QED
  BY <1>1 DEF Free, RunOK, Holding

LEMMA RunnerFacts ==
  ASSUME IInv, NEW r \in Runners
  PROVE  /\ runner[r] \in RunnerStates /\ RunOK(runner[r], store, aged)
         /\ runner[r].owed \in BOOLEAN /\ runner[r].gen \in 0..MaxGen /\ runner[r].kind \in Kinds
         /\ runner[r].pc \in Holding \cup {"candidate"} => runner[r].task \in Tasks
         /\ runner[r].pc \in Holding => runner[r].gen \in 1..MaxGen
         /\ issued \in SUBSET Authorities /\ stops \in 0..MaxStops
         /\ Advance => RunOK(runner[r], store', aged)
<1>1. runner[r] \in RunnerStates /\ RunOK(runner[r], store, aged)
  BY DEF IInv, TypeOK
<1>2. runner[r].owed \in BOOLEAN /\ runner[r].gen \in 0..MaxGen /\ runner[r].kind \in Kinds
  BY <1>1 DEF RunnerStates
<1>3. runner[r].pc \in Holding => runner[r].gen \in 1..MaxGen
  BY <1>1, <1>2, CounterAssumption DEF RunOK
<1>4. runner[r].pc \in Holding \cup {"candidate"} => runner[r].task \in Tasks
  BY <1>1 DEF RunOK
<1>5. issued \in SUBSET Authorities /\ stops \in 0..MaxStops
  BY DEF IInv, TypeOK
<1> QED
  BY <1>1, <1>2, <1>3, <1>4, <1>5, RunStable

\* Steps that let go of any handoff and leave the store alone.
LEMMA QuietRunnerStep ==
  ASSUME IInv, NEW r \in Runners,
         EnterService(r) \/ RecoveryWake(r) \/ Crash(r) \/ StopService(r)
  PROVE  IInv'
<1> USE RunnerFacts
<1> DEFINE q == runner[r]
<1>0. Advance /\ aged' = aged /\ client' = client /\ issued' = issued /\ stops' \in 0..MaxStops
  <2>1. UNCHANGED <<store, aged, issued, client, settled, lapsed>>
    BY DEF EnterService, RecoveryWake, Crash, StopService
  <2>2. stops' = stops \/ (stops < MaxStops /\ stops' = stops + 1)
    BY DEF EnterService, RecoveryWake, Crash, StopService
  <2>3. stops' \in 0..MaxStops
    BY <2>2, BoundAssumption
  <2> QED
    BY <2>1, <2>3, StutterAdvance
<1>1. CASE EnterService(r) \/ Crash(r) \/ (StopService(r) /\ q.pc \in {"wait", "scan", "candidate"})
  <2>1. PICK pc \in {"stopped", "scan"} : runner' = [runner EXCEPT ![r] = Free(pc, "ok", FALSE)]
    BY <1>1 DEF EnterService, Crash, StopService
  <2> QED
    BY <1>0, <2>1, FreeOK, RunnerMove
<1>2. CASE RecoveryWake(r)
  <2> DEFINE n == [q EXCEPT !.pc = "scan"]
  <2>1. n \in RunnerStates /\ RunOK(n, store', aged)
    BY DEF RunnerStates, RunOK, Holding
  <2>2. runner' = [runner EXCEPT ![r] = n]
    BY <1>2 DEF RecoveryWake, Goto
  <2> QED
    BY <1>0, <2>1, <2>2, RunnerMove
<1>3. CASE StopService(r) /\ q.pc \in {"guarded", "running"}
  <2> DEFINE n == [q EXCEPT !.pc = "probe", !.stage = "drop1", !.res = "dropped"]
  <2>1. n \in RunnerStates
    BY DEF RunnerStates
  <2>2. RunOK(n, store', aged)
    BY <1>0, <1>3 DEF RunOK, RunnerStates, Holding
  <2>3. runner' = [runner EXCEPT ![r] = n]
    BY <1>3 DEF StopService, IInv, TypeOK
  <2> QED
    BY <1>0, <2>1, <2>2, <2>3, RunnerMove
<1> QED
  BY <1>1, <1>2, <1>3 DEF StopService

\* Looking for work.
LEMMA SearchStep ==
  ASSUME IInv, NEW r \in Runners, NEW t \in Tasks, NEW kind \in Kinds,
         ReceiveWakeup(r, t, kind) \/ ScanCandidate(r, t, kind) \/ ScanEnds(r, t)
  PROVE  IInv'
<1> USE RunnerFacts
<1> DEFINE q == runner[r]
<1>0. Advance /\ aged' = aged /\ client' = client /\ issued' = issued /\ stops' = stops
  BY ReadAdvance DEF ReceiveWakeup, ScanCandidate, ScanEnds, RunnerOnly
<1>1. CASE ReceiveWakeup(r, t, kind) \/ ScanCandidate(r, t, kind)
  <2> DEFINE n == [q EXCEPT !.pc = "candidate", !.task = t, !.kind = kind, !.gen = Current(t).gen]
  <2>1. Current(t).gen \in 0..MaxGen
    BY CurrentStep, RecFields
  <2>2. n \in RunnerStates
    BY <2>1 DEF RunnerStates
  <2>3. RunOK(n, store', aged)
    BY DEF RunOK, RunnerStates, Holding
  <2>4. runner' = [runner EXCEPT ![r] = n]
    BY <1>1 DEF ReceiveWakeup, ScanCandidate, IInv, TypeOK
  <2> QED
    BY <1>0, <2>2, <2>3, <2>4, RunnerMove
<1>2. CASE ScanEnds(r, t)
  <2>1. PICK pc \in {"stopped", "wait"} : runner' = [runner EXCEPT ![r] = Free(pc, "ok", FALSE)]
    BY <1>2 DEF ScanEnds
  <2> QED
    BY <1>0, <2>1, FreeOK, RunnerMove
<1> QED
  BY <1>1, <1>2

\* The claim and its validation.
LEMMA ClaimStep ==
  ASSUME IInv, NEW r \in Runners, ClaimHandoff(r) \/ ValidateClaim(r)
  PROVE  IInv'
<1> USE RunnerFacts
<1> DEFINE q == runner[r]
           x == Current(q.task)
<1>0. /\ q.task \in Tasks /\ RecInv(x)
      /\ aged' = aged /\ client' = client /\ issued' = issued /\ stops' = stops
  BY CurrentStep DEF ClaimHandoff, ValidateClaim, RunnerOnly, At, Holding
<1>1. CASE ClaimHandoff(r) /\ CanTake(x, q.gen, q.kind)
  <2> DEFINE y == Take(x, q.gen, q.kind, r)
             n == [q EXCEPT !.pc = "taken"]
  <2>1. StepOK(x, y) /\ y.gen = q.gen /\ y.status = "working" /\ q.gen >= 1
    BY <1>0, <1>1, TakeStep
  <2>2. Write(q.task, y) /\ runner' = [runner EXCEPT ![r] = n]
    BY <1>1 DEF ClaimHandoff, Goto
  <2>3. Advance /\ store'[q.task] = y
    BY <1>0, <2>1, <2>2, WriteAdvance
  <2>4. n \in RunnerStates
    BY DEF RunnerStates
  <2>5. n.pc = "taken" /\ n.task = q.task /\ n.gen = q.gen
    BY DEF RunnerStates
  <2> HIDE DEF n, y
  <2>6. RunOK(n, store', aged)
    BY <1>0, <2>1, <2>3, <2>5 DEF RunOK, Past, Holding
  <2> QED
    BY <1>0, <2>2, <2>3, <2>4, <2>6, RunnerMove
<1>2. CASE ClaimHandoff(r) /\ ~CanTake(x, q.gen, q.kind)
  <2>1. Read(q.task) /\ runner' = [runner EXCEPT ![r] = Free("scan", "ok", q.owed)]
    BY <1>2 DEF ClaimHandoff
  <2> QED
    BY <1>0, <2>1, ReadAdvance, FreeOK, RunnerMove
<1>3. CASE ValidateClaim(r) /\ x.gen = q.gen /\ x.status = "working"
  <2> DEFINE n == [q EXCEPT !.pc = "guarded", !.armed = TRUE]
  <2>1. Read(q.task) /\ runner' = [runner EXCEPT ![r] = n] /\ q.pc = "taken"
    BY <1>3 DEF ValidateClaim, At
  <2>2. Advance
    BY <1>0, <2>1, ReadAdvance
  <2>3. n \in RunnerStates
    BY DEF RunnerStates
  <2>4. RunOK(n, store', aged)
    BY <2>1, <2>2 DEF RunOK, RunnerStates, Holding
  <2> QED
    BY <1>0, <2>1, <2>2, <2>3, <2>4, RunnerMove
<1>4. CASE ValidateClaim(r) /\ ~(x.gen = q.gen /\ x.status = "working")
  <2>1. PICK res \in {"changed", "absent"} :
          Read(q.task) /\ runner' = [runner EXCEPT ![r] = Free("stopped", res, FALSE)]
    BY <1>4 DEF ValidateClaim
  <2> QED
    BY <1>0, <2>1, ReadAdvance, FreeOK, RunnerMove
<1> QED
  BY <1>1, <1>2, <1>3, <1>4

\* Successors of a guard keep its task and generation, or let go of them.
Successor(q, n) ==
  /\ n \in RunnerStates
  /\ \/ n.pc \in {"stopped", "scan"}
     \/ /\ n.task = q.task /\ n.gen = q.gen /\ n.pc \in Holding \ {"finish"}
        /\ n.pc \in {"probe", "honor"} => n.stage # "drop2"
        /\ n.pc = "probe" /\ n.stage = "before" => n.fence >= 1

LEMMA SuccessorOK ==
  ASSUME NEW q \in RunnerStates, NEW n, NEW st, NEW ag, q.pc \in Holding, RunOK(q, st, ag), Successor(q, n)
  PROVE  n \in RunnerStates /\ RunOK(n, st, ag)
  BY DEF Successor, RunOK, Holding

\* A guard moves on with no write of its own.
LEMMA GuardReads ==
  ASSUME IInv, NEW r \in Runners, runner[r].pc \in Holding, NEW n, Successor(runner[r], n),
         Read(runner[r].task), runner' = [runner EXCEPT ![r] = n],
         UNCHANGED <<aged, client, stops>>, issued' \in SUBSET Authorities
  PROVE  IInv'
<1>1. Advance
  BY RunnerFacts, ReadAdvance
<1>2. n \in RunnerStates /\ RunOK(n, store', aged)
  BY <1>1, RunnerFacts, SuccessorOK
<1> QED
  BY <1>1, <1>2, RunnerFacts, RunnerMove

LEMMA ExitsSuccessor ==
  ASSUME NEW q \in RunnerStates, NEW n \in ExpiredExits(q)
  PROVE  Successor(q, n) /\ n.pc # "running"
<1>1. PICK pc \in {"stopped", "scan"}, owed \in BOOLEAN : n = Free(pc, "ok", owed)
  BY DEF ExpiredExits, Exits, RunnerStates
<1>2. n \in RunnerStates
  BY <1>1, FreeOK
<1> QED
  BY <1>1, <1>2 DEF Successor, Free

LEMMA ContinuationSuccessor ==
  ASSUME NEW q \in RunnerStates, q.pc \in {"probe", "honor"}, q.stage # "drop2", q.task \in Tasks,
         NEW n \in Continuations(q)
  PROVE  Successor(q, n) /\ (n.pc = "running" => q.stage = "before" /\ n = [q EXCEPT !.pc = "running"])
<1>1. q.stage \in {"before", "after", "last", "drop1", "drop3"}
  BY DEF RunnerStates
<1>2. CASE q.stage = "before"
  BY <1>2 DEF Continuations, Successor, RunnerStates, Holding
<1>3. CASE q.stage = "after"
  BY <1>3 DEF Continuations, Successor, RunnerStates, Holding
<1>4. CASE q.stage = "last"
  <2>1. CASE q.res = "ok"
    <3>1. n = Free("scan", "ok", q.owed) /\ q.owed \in BOOLEAN
      BY <1>4, <2>1 DEF Continuations, RunnerStates
    <3>2. n \in RunnerStates
      BY <3>1, FreeOK
    <3> QED
      BY <3>1, <3>2 DEF Successor, Free
  <2>2. CASE q.res # "ok"
    BY <1>4, <2>2 DEF Continuations, Successor, RunnerStates, Holding
  <2> QED
    BY <2>1, <2>2
<1>5. CASE q.stage = "drop1"
  BY <1>5 DEF Continuations, Successor, RunnerStates, Holding
<1>6. CASE q.stage = "drop3"
  BY <1>6, ExitsSuccessor DEF Continuations, ExpiredExits
<1> QED
  BY <1>1, <1>2, <1>3, <1>4, <1>5, <1>6

\* The election: a new fence, a loss, or no fence left.
LEMMA ElectStep ==
  ASSUME IInv, NEW r \in Runners, ElectDispatch(r)
  PROVE  IInv'
<1> USE RunnerFacts
<1> DEFINE q == runner[r]
           x == Current(q.task)
<1>0. /\ q.pc = "guarded" /\ q.task \in Tasks /\ RecInv(x) /\ x.fences \in 0..MaxFence /\ q.gen \in 1..MaxGen
      /\ aged' = aged /\ client' = client /\ issued' = issued /\ stops' = stops
  BY CurrentStep, RecFields DEF ElectDispatch, RunnerOnly, At, Holding
<1>1. CASE ~CanBegin(x, q.gen, r)
  <2>1. Read(q.task) /\ runner' = [runner EXCEPT ![r] = Free("scan", "ok", q.owed)]
    BY <1>1 DEF ElectDispatch
  <2> QED
    BY <1>0, <2>1, ReadAdvance, FreeOK, RunnerMove
<1>2. CASE CanBegin(x, q.gen, r) /\ x.fences < MaxFence
  <2> DEFINE n == [q EXCEPT !.pc = "probe", !.stage = "before", !.fence = x.fences + 1]
  <2>1. Write(q.task, BeginDispatch(x)) /\ runner' = [runner EXCEPT ![r] = n]
    BY <1>2 DEF ElectDispatch, IInv, TypeOK
  <2>2. StepOK(x, BeginDispatch(x))
    BY <1>0, <1>2, BeginStep
  <2>3. Advance
    BY <1>0, <2>1, <2>2, WriteAdvance
  <2>4. x.fences + 1 \in 0..MaxFence /\ x.fences + 1 >= 1
    BY <1>0, <1>2, CounterAssumption
  <2>5. n \in RunnerStates /\ n.pc = "probe" /\ n.stage = "before" /\ n.fence >= 1 /\ n.task = q.task /\ n.gen = q.gen
    BY <2>4 DEF RunnerStates
  <2> HIDE DEF n
  <2>6. Successor(q, n)
    BY <2>5 DEF Successor, Holding
  <2>7. n \in RunnerStates /\ RunOK(n, store', aged)
    BY <1>0, <2>3, <2>6, SuccessorOK DEF Holding
  <2> QED
    BY <1>0, <2>1, <2>3, <2>7, RunnerMove
<1>3. CASE CanBegin(x, q.gen, r) /\ ~(x.fences < MaxFence)
  <2> DEFINE n == [q EXCEPT !.pc = "probe", !.stage = "drop1", !.res = "error"]
  <2>1. Read(q.task) /\ runner' = [runner EXCEPT ![r] = n]
    BY <1>3 DEF ElectDispatch, IInv, TypeOK
  <2>2. Successor(q, n)
    BY DEF RunnerStates, Successor, Holding
  <2> HIDE DEF n
  <2> QED
    BY <1>0, <2>1, <2>2, GuardReads DEF Holding
<1> QED
  BY <1>1, <1>2, <1>3

\* The cancellation probe, where the application gets its authority.
LEMMA ProbeStep ==
  ASSUME IInv, NEW r \in Runners, ProbeCancellation(r)
  PROVE  IInv'
<1> USE RunnerFacts
<1> DEFINE q == runner[r]
           a == [task |-> q.task, gen |-> q.gen, owner |-> r, fence |-> q.fence]
<1>0. /\ q.pc = "probe" /\ q.task \in Tasks /\ q.gen \in 1..MaxGen /\ q.stage # "drop2"
      /\ UNCHANGED <<aged, client, stops>> /\ Read(q.task)
      /\ q.stage = "before" => q.fence >= 1
  BY DEF ProbeCancellation, At, Holding, RunOK
<1>1. PICK n : /\ n \in ExpiredExits(q) \cup {[q EXCEPT !.pc = "honor"]} \cup Continuations(q)
               /\ runner' = [runner EXCEPT ![r] = n]
               /\ issued' = IF n.pc = "running" THEN issued \cup {a} ELSE issued
  BY DEF ProbeCancellation
<1>2. Successor(q, [q EXCEPT !.pc = "honor"]) /\ [q EXCEPT !.pc = "honor"].pc = "honor"
  BY <1>0 DEF Successor, RunnerStates, Holding
<1>3. Successor(q, n) /\ (n.pc = "running" => q.stage = "before")
  BY <1>0, <1>1, <1>2, ExitsSuccessor, ContinuationSuccessor
<1>4. issued' \in SUBSET Authorities
  <2>1. q.stage = "before" => q.fence \in 1..MaxFence
    BY <1>0, CounterAssumption DEF RunnerStates
  <2> QED
    BY <1>0, <1>1, <1>3, <2>1 DEF Authorities
<1> QED
  BY <1>0, <1>1, <1>3, <1>4, GuardReads DEF Holding

\* A fenced replacement settles exactly the dispatch that holds the task.
LEMMA FencedAdvance ==
  ASSUME IInv, NEW t \in Tasks, NEW g, NEW o, NEW f, NEW s \in Terminal \cup {"input_required"},
         NEW asked \in SUBSET Keys,
         CanReplaceFenced(Current(t), g, o, f, s), CanReplace(Current(t), asked),
         Apply(t, ReplaceTask(Current(t), s, asked, {}), {<<t, f>>})
  PROVE  Advance
<1> DEFINE x == Current(t)
           y == ReplaceTask(x, s, asked, {})
<1>1. RecInv(x) /\ x \in TaskRecords
  BY CurrentStep
<1>2. x.lease.elected /\ x.lease.fence = f /\ (x.cancel => s = "cancelled")
  BY DEF CanReplaceFenced, OwnsDispatch
<1>3. s \in Active \cup Terminal /\ s # "working" /\ (x.cancel => s \in Terminal)
  BY <1>2 DEF Active, Terminal
<1>4. StepOK(x, y)
  BY <1>1, <1>3, ReplaceStep
<1>5. y.lease = NoLease
  BY <1>1 DEF ReplaceTask, TaskRecords
<1> QED
  BY <1>2, <1>4, <1>5, ApplyAdvance

LEMMA HonorStep ==
  ASSUME IInv, NEW r \in Runners, HonorCancellation(r)
  PROVE  IInv'
<1> USE RunnerFacts
<1> DEFINE q == runner[r]
           x == Current(q.task)
           dropping == q.stage \in {"drop1", "drop2", "drop3"}
           can == CanReplaceFenced(x, q.gen, r, q.fence, "cancelled") /\ CanReplace(x, {})
<1>0. /\ q.pc = "honor" /\ q.task \in Tasks /\ q.stage # "drop2"
      /\ UNCHANGED <<aged, client, stops, issued>>
  BY DEF HonorCancellation, At, Holding, RunOK, RunnerOnly
<1>1. Successor(q, Free("scan", "ok", q.owed))
  BY FreeOK DEF Successor, Free
<1>2. CASE can
  <2>1. PICK n : /\ n \in ExpiredExits(q) \cup {Free("scan", "ok", q.owed)}
                 /\ runner' = [runner EXCEPT ![r] = n]
    BY <1>2 DEF HonorCancellation, ExpiredExits
  <2>2. Apply(q.task, ReplaceTask(x, "cancelled", {}, {}), {<<q.task, q.fence>>})
    BY <1>2 DEF HonorCancellation
  <2>3. Advance
    BY <1>0, <1>2, <2>2, FencedAdvance DEF Terminal
  <2>4. Successor(q, n)
    BY <1>1, <2>1, ExitsSuccessor
  <2>5. n \in RunnerStates /\ RunOK(n, store', aged)
    BY <1>0, <2>3, <2>4, SuccessorOK DEF Holding
  <2> QED
    BY <1>0, <2>1, <2>3, <2>5, RunnerMove
<1>3. CASE ~can
  <2> DEFINE m == [q EXCEPT !.pc = "probe", !.stage = "drop1", !.res = "error"]
  <2>1. PICK n : /\ n \in Continuations(q) \cup {m}
                 /\ runner' = [runner EXCEPT ![r] = n]
    BY <1>3 DEF HonorCancellation
  <2>2. Read(q.task)
    BY <1>3 DEF HonorCancellation
  <2>3. Successor(q, m)
    BY <1>0 DEF Successor, RunnerStates, Holding
  <2> HIDE DEF m
  <2>4. Successor(q, n)
    BY <1>0, <2>1, <2>3, ContinuationSuccessor
  <2> QED
    BY <1>0, <2>1, <2>2, <2>4, GuardReads DEF Holding
<1> QED
  BY <1>2, <1>3

\* Supervision ends or goes on.
LEMMA SuperviseStep ==
  ASSUME IInv, NEW r \in Runners, NEW res \in {"ok", "error"},
         RenewLease(r) \/ SupervisorReturns(r, res) \/ CancellationObserved(r)
  PROVE  IInv'
<1> USE RunnerFacts
<1> DEFINE q == runner[r]
           ended(v) == [q EXCEPT !.pc = "probe", !.stage = "after", !.res = v]
<1>0. q.pc = "running" /\ UNCHANGED <<aged, client, stops, issued>> /\ q.task \in Tasks
  BY DEF RenewLease, SupervisorReturns, CancellationObserved, At, RunnerOnly, Holding
<1>1. Successor(q, q) /\ Successor(q, ended("ok")) /\ Successor(q, ended("error"))
  BY <1>0 DEF Successor, RunnerStates, Holding
<1>2. PICK n \in {q, ended("ok"), ended("error")} : runner' = [runner EXCEPT ![r] = n]
  BY DEF RenewLease, SupervisorReturns, CancellationObserved, IInv, TypeOK
<1> HIDE DEF ended
<1>3. Read(q.task) \/ UNCHANGED <<store, settled, lapsed>>
  BY DEF RenewLease, SupervisorReturns, CancellationObserved
<1>4. Advance
  BY <1>0, <1>3, ReadAdvance, StutterAdvance
<1>5. n \in RunnerStates /\ RunOK(n, store', aged)
  BY <1>0, <1>1, <1>4, SuccessorOK DEF Holding
<1> QED
  BY <1>0, <1>2, <1>4, <1>5, RunnerMove

\* Work is only finished once a transition was seen.
LEMMA CheckStep ==
  ASSUME IInv, NEW r \in Runners, CheckTransition(r)
  PROVE  IInv'
<1> USE RunnerFacts
<1> DEFINE q == runner[r]
           x == Current(q.task)
<1>0. q.pc = "check" /\ UNCHANGED <<aged, client, stops, issued>> /\ Read(q.task) /\ q.task \in Tasks
  BY DEF CheckTransition, At, RunnerOnly, Holding
<1>1. Advance /\ store'[q.task] = x
  BY <1>0, ReadAdvance
<1>2. CASE Goto(r, "restore")
  <2> DEFINE n == [q EXCEPT !.pc = "restore"]
  <2>1. Successor(q, n)
    BY <1>0 DEF Successor, RunnerStates, Holding
  <2>2. runner' = [runner EXCEPT ![r] = n]
    BY <1>2 DEF Goto
  <2> HIDE DEF n
  <2> QED
    BY <1>0, <2>1, <2>2, GuardReads DEF Holding
<1>3. CASE ~(q.task \notin aged /\ x.gen = q.gen /\ x.status = "working" /\ ~x.cancel) /\ Goto(r, "finish")
  <2> DEFINE n == [q EXCEPT !.pc = "finish"]
  <2>1. n \in RunnerStates /\ n.pc = "finish" /\ n.task = q.task /\ n.gen = q.gen
    BY DEF RunnerStates
  <2>2. runner' = [runner EXCEPT ![r] = n]
    BY <1>3 DEF Goto
  <2>3. RunOK(q, store', aged)
    BY <1>1
  <2>4. q.gen >= 1 /\ Past(x, q.gen, "working")
    BY <1>0, <1>1, <2>3 DEF RunOK, Holding
  <2>5. q.task \in aged \/ x.status = "gone" \/ x.gen > q.gen \/ x.cancel
    BY <1>3, <2>4 DEF Past
  <2> HIDE DEF n
  <2>6. RunOK(n, store', aged)
    BY <1>0, <1>1, <2>1, <2>4, <2>5 DEF RunOK, Holding
  <2> QED
    BY <1>0, <1>1, <2>1, <2>2, <2>6, RunnerMove
<1> QED
  BY <1>2, <1>3 DEF CheckTransition

LEMMA RestoreHandoffStep ==
  ASSUME IInv, NEW r \in Runners, RestoreHandoff(r)
  PROVE  IInv'
<1> USE RunnerFacts
<1> DEFINE q == runner[r]
           x == Current(q.task)
           restored == q.armed /\ q.task \notin aged /\ CanRestore(x, q.gen, q.kind, r, q.fence)
           failed == [q EXCEPT !.pc = "probe", !.res = IF @ = "ok" THEN "error" ELSE @]
           n == [failed EXCEPT !.armed = @ /\ ~restored,
                               !.stage = CASE q.stage = "drop2" -> "drop3"
                                           [] q.stage # "drop2" /\ restored -> "drop1"
                                           [] OTHER -> "last"]
<1>0. q.pc = "restore" /\ UNCHANGED <<aged, client, stops, issued>> /\ q.task \in Tasks /\ q.gen >= 1
  BY DEF RestoreHandoff, At, RunnerOnly, Holding
<1>1. runner' = [runner EXCEPT ![r] = n]
  BY DEF RestoreHandoff
<1>2. Successor(q, n)
  <2>1. restored \in BOOLEAN /\ q.armed \in BOOLEAN
    BY DEF RunnerStates, CanRestore
  <2> HIDE DEF restored
  <2>2. failed \in RunnerStates
    BY DEF RunnerStates
  <2> DEFINE stg == CASE q.stage = "drop2" -> "drop3"
                      [] q.stage # "drop2" /\ restored -> "drop1"
                      [] OTHER -> "last"
  <2>3. stg \in {"drop3", "drop1", "last"}
    BY <2>1
  <2> HIDE DEF stg
  <2>4. n = [failed EXCEPT !.armed = @ /\ ~restored, !.stage = stg]
    BY DEF stg
  <2>5. failed.task = q.task /\ failed.gen = q.gen /\ failed.pc = "probe" /\ failed.armed = q.armed
    BY DEF RunnerStates
  <2> HIDE DEF failed
  <2> DEFINE m == [failed EXCEPT !.armed = failed.armed /\ ~restored, !.stage = stg]
  <2>6. n = m
    BY <2>4
  <2>7. (failed.armed /\ ~restored) \in BOOLEAN
    OBVIOUS
  <2>8. m \in RunnerStates /\ m.task = failed.task /\ m.gen = failed.gen /\ m.pc = failed.pc /\ m.stage = stg
    BY <2>2, <2>3, <2>7 DEF RunnerStates
  <2> HIDE DEF n, m
  <2> QED
    BY <2>3, <2>5, <2>6, <2>8 DEF Successor, Holding
<1> HIDE DEF n
<1>3. Advance
  <2>1. CASE restored
    <3>1. Write(q.task, Release(x))
      BY <2>1 DEF RestoreHandoff
    <3>2. RecInv(x) /\ x \in TaskRecords /\ ~x.cancel /\ x.lease.gen >= 1
      BY <1>0, <2>1, CurrentStep DEF CanRestore
    <3>3. Leased(x)
      BY <3>2, NoLeaseType DEF Leased
    <3> QED
      BY <1>0, <3>1, <3>2, <3>3, RestoreStep, WriteAdvance
  <2>2. CASE ~restored
    BY <1>0, <2>2, ReadAdvance DEF RestoreHandoff
  <2> QED
    BY <2>1, <2>2
<1>4. n \in RunnerStates /\ RunOK(n, store', aged)
  BY <1>0, <1>2, <1>3, SuccessorOK DEF Holding
<1> QED
  BY <1>0, <1>1, <1>3, <1>4, RunnerMove

\* By the time a runner finishes, the dispatch it could release is gone.
\* A dispatch that its service finishes has been committed, cancelled or lost:
\* there is nothing left to release.
LEMMA NothingToFinish ==
  ASSUME IInv, NEW r \in Runners, runner[r].pc = "finish"
  PROVE  ~CanFinish(Current(runner[r].task), runner[r].gen, r, runner[r].fence)
<1> USE RunnerFacts
<1> DEFINE q == runner[r]
           x == Current(q.task)
<1>0. q.task \in Tasks /\ q.gen \in 1..MaxGen
  BY DEF Holding
<1> SUFFICES ASSUME CanFinish(x, q.gen, r, q.fence) PROVE FALSE
  OBVIOUS
<1>1. x.lease.gen = q.gen /\ x.lease.elected /\ ~x.cancel
  BY DEF CanFinish, OwnsDispatch
<1>2. RecInv(x) /\ RecInv(store[q.task]) /\ StepOK(store[q.task], x) /\ q.task \notin aged
      /\ store[q.task] \in TaskRecords /\ x \in TaskRecords
  BY <1>0, <1>1, CurrentStep
<1>3. x.gen = q.gen /\ x.status = "working"
  BY <1>1, <1>2, NoLeaseType DEF RecInv, Leased
<1>4. store[q.task].status = "gone" \/ store[q.task].gen > q.gen \/ store[q.task].cancel
  BY <1>0, <1>2 DEF RunOK
<1>5. Past(store[q.task], q.gen, "working")
  BY <1>0 DEF RunOK, Holding
<1>6. store[q.task].gen \in Nat /\ x.gen \in Nat /\ q.gen \in Nat
  BY <1>0, <1>2, RecFields, CounterAssumption
<1> HIDE DEF x, q
<1> QED
  BY <1>1, <1>2, <1>3, <1>4, <1>5, <1>6 DEF StepOK, Past

LEMMA FinishStep ==
  ASSUME IInv, NEW r \in Runners, FinishHandoff(r)
  PROVE  IInv'
<1> USE RunnerFacts
<1> DEFINE q == runner[r]
           x == Current(q.task)
           n == [q EXCEPT !.pc = "probe", !.stage = "last"]
<1>0. q.pc = "finish" /\ UNCHANGED <<aged, client, stops, issued>> /\ q.task \in Tasks /\ q.gen \in 1..MaxGen
  BY DEF FinishHandoff, At, RunnerOnly, Holding
<1>1. ~CanFinish(x, q.gen, r, q.fence)
  BY <1>0, NothingToFinish
<1>2. Read(q.task) /\ runner' = [runner EXCEPT ![r] = n]
  BY <1>1 DEF FinishHandoff, IInv, TypeOK
<1>3. Successor(q, n)
  BY <1>0 DEF Successor, RunnerStates, Holding
<1> HIDE DEF n
<1> QED
  BY <1>0, <1>2, <1>3, GuardReads DEF Holding

-----------------------------------------------------------------------------
(* Steps of the application, of request handlers and of the clock *)

LEMMA ClientMove ==
  ASSUME IInv, Advance, NEW c \in Clients, NEW d \in ClientStates, ReqOK(d, store'),
         client' = [client EXCEPT ![c] = d], UNCHANGED <<aged, runner, issued, stops>>
  PROVE  IInv'
<1>1. client' \in [Clients -> ClientStates]
  BY DEF IInv, TypeOK
<1>2. TypeOK'
  BY <1>1 DEF IInv, TypeOK, Advance
<1>3. ASSUME NEW p \in Clients PROVE ReqOK(client'[p], store')
  <2>1. client[p] \in ClientStates /\ ReqOK(client[p], store)
    BY DEF IInv, TypeOK
  <2>2. ReqOK(client[p], store')
    BY <2>1, ReqStable
  <2>3. client'[p] = IF p = c THEN d ELSE client[p]
    BY DEF IInv, TypeOK
  <2> QED
    BY <2>2, <2>3
<1>4. ASSUME NEW r \in Runners PROVE RunOK(runner'[r], store', aged')
  BY RunnerFacts
<1> QED
  BY <1>2, <1>3, <1>4 DEF IInv, Advance

\* The clock passes something, or the application commits: nobody moves.
LEMMA WorldMove ==
  ASSUME IInv, Advance, aged \subseteq aged', aged' \subseteq Tasks,
         UNCHANGED <<runner, issued, client, stops>>
  PROVE  IInv'
<1>1. TypeOK'
  BY DEF IInv, TypeOK, Advance
<1>2. ASSUME NEW r \in Runners PROVE RunOK(runner'[r], store', aged')
  BY RunnerFacts, RunStable
<1>3. ASSUME NEW c \in Clients PROVE ReqOK(client'[c], store')
  BY ReqStable DEF IInv, TypeOK
<1> QED
  BY <1>1, <1>2, <1>3 DEF IInv, Advance

LEMMA ClockStep ==
  ASSUME IInv, NEW t \in Tasks, LeaseRunsOut(t) \/ TaskAges(t)
  PROVE  IInv'
<1>0. aged \subseteq Tasks /\ store \in [Tasks -> TaskRecords]
  BY DEF IInv, TypeOK
<1>1. CASE TaskAges(t)
  BY <1>0, <1>1, StutterAdvance, WorldMove DEF TaskAges
<1>2. CASE LeaseRunsOut(t)
  <2> DEFINE y == [store[t] EXCEPT !.lease.due = TRUE]
  <2>1. StepOK(store[t], y)
    BY <1>2, CurrentStep, DueStep DEF LeaseRunsOut
  <2>2. store' = [store EXCEPT ![t] = y]
    BY <1>2 DEF LeaseRunsOut
  <2>3. store[t] \in TaskRecords /\ y.fences = store[t].fences /\ y.lease.elected = store[t].lease.elected
        /\ y.lease.fence = store[t].lease.fence
    BY <1>0 DEF TaskRecords, Leases
  <2> HIDE DEF y
  <2>4. \A u \in Tasks : store'[u] = IF u = t THEN y ELSE store[u]
    BY <1>0, <2>2
  <2>5. \A u \in Tasks : RecInv(store'[u]) /\ StepOK(store[u], store'[u])
    BY <2>1, <2>4, CurrentStep, StepReflexive DEF StepOK
  <2>6. store' \in [Tasks -> TaskRecords]
    BY <1>0, <2>1, <2>2 DEF StepOK, RecInv
  <2>7. UNCHANGED <<settled, lapsed>>
    BY <1>2 DEF LeaseRunsOut
  <2>8. LedgerOK'
    BY <2>3, <2>4, <2>7 DEF LedgerOK, IInv, TypeOK
  <2>9. Advance
    BY <2>5, <2>6, <2>7, <2>8 DEF Advance, IInv, TypeOK
  <2> QED
    BY <1>0, <1>2, <2>9, WorldMove DEF LeaseRunsOut
<1> QED
  BY <1>1, <1>2

LEMMA AuthorityStep ==
  ASSUME IInv, NEW a \in issued, NEW s \in Terminal \cup {"input_required"}, NEW asked \in SUBSET Keys,
         AuthorityCommits(a, s, asked)
  PROVE  IInv'
<1>1. a.task \in Tasks /\ aged \subseteq Tasks
  BY DEF IInv, TypeOK, Authorities
<1>2. Advance
  BY <1>1, FencedAdvance DEF AuthorityCommits
<1> QED
  BY <1>1, <1>2, WorldMove DEF AuthorityCommits

LEMMA RequestOK ==
  ASSUME NEW st
  PROVE  NoRequest \in ClientStates /\ ReqOK(NoRequest, st)
<1>1. NoRequest \in ClientStates
  BY CounterAssumption DEF NoRequest, ClientStates, Statuses
<1> QED
  BY <1>1 DEF NoRequest, ReqOK

\* What a handler that is past its commit point relies on.
LEMMA PlainRequest ==
  ASSUME NEW d \in ClientStates, d.task \in Tasks, ~(d.pc = "commit" /\ d.op = "update"), NEW st
  PROVE  ReqOK(d, st)
  BY DEF ReqOK

LEMMA CreateRequestStep ==
  ASSUME IInv, NEW c \in Clients, NEW t \in Tasks, ClientCreates(c, t)
  PROVE  IInv'
<1>1. RecInv(store[t]) /\ store[t].status = "absent" /\ Current(t) = store[t]
  <2>1. RecInv(store[t]) /\ store[t].status = "absent"
    BY DEF ClientCreates, IInv
  <2>2. ~Leased(store[t]) /\ ~Retained(store[t])
    BY <2>1 DEF RecInv, Missing, Leased, Retained, Active, Terminal
  <2> QED
    BY <2>1, <2>2 DEF Current, Reclaim, ReclaimLease
<1>2. Advance
  BY <1>1, CreateStep, WriteAdvance DEF ClientCreates
<1> DEFINE d == [NoRequest EXCEPT !.pc = "confirm", !.op = "create", !.task = t, !.status = "working"]
<1>3. d \in ClientStates /\ d.task = t /\ d.pc = "confirm"
  <2>1. NoRequest \in ClientStates
    BY RequestOK
  <2> QED
    BY <2>1 DEF ClientStates, Statuses, Active
<1>4. client' = [client EXCEPT ![c] = d] /\ UNCHANGED <<aged, runner, issued, stops>>
  BY DEF ClientCreates
<1> HIDE DEF d
<1> QED
  BY <1>2, <1>3, <1>4, PlainRequest, ClientMove

LEMMA ReadRequestStep ==
  ASSUME IInv, NEW c \in Clients, NEW t \in Tasks, NEW keys \in SUBSET Keys,
         ClientReadsForUpdate(c, t, keys) \/ ClientReadsForCancel(c, t)
  PROVE  IInv'
<1> DEFINE x == Current(t)
<1>0. Advance /\ store'[t] = x /\ UNCHANGED <<aged, runner, issued, stops>>
  BY ReadAdvance DEF ClientReadsForUpdate, ClientReadsForCancel
<1>1. x \in TaskRecords /\ x.gen \in 0..MaxGen /\ x.asked \in SUBSET Keys
  BY CurrentStep, RecFields
<1>2. CASE ClientReadsForUpdate(c, t, keys)
  <2> DEFINE d == [pc |-> "commit", op |-> "update", task |-> t, gen |-> x.gen, keys |-> keys,
                   asked |-> x.asked \ keys,
                   status |-> IF keys = x.asked THEN "working" ELSE "input_required"]
  <2>1. client' = [client EXCEPT ![c] = d] /\ keys # {} /\ x.status = "input_required"
    BY <1>2 DEF ClientReadsForUpdate
  <2>2. d \in ClientStates
    BY <1>1 DEF ClientStates, Statuses, Active
  <2>3. ReqOK(d, store')
    BY <1>0, <2>1 DEF ReqOK, Past
  <2> HIDE DEF d
  <2> QED
    BY <1>0, <2>1, <2>2, <2>3, ClientMove
<1>3. CASE ClientReadsForCancel(c, t)
  <2> DEFINE d == [NoRequest EXCEPT !.pc = "commit", !.op = "cancel", !.task = t, !.gen = x.gen]
  <2>1. client' = [client EXCEPT ![c] = d]
    BY <1>3 DEF ClientReadsForCancel
  <2>2. d \in ClientStates /\ d.task = t /\ d.op = "cancel"
    BY <1>1 DEF NoRequest, ClientStates, Statuses
  <2> HIDE DEF d
  <2> QED
    BY <1>0, <2>1, <2>2, PlainRequest, ClientMove
<1> QED
  BY <1>2, <1>3

\* The durable write of tasks/update and of tasks/cancel.
LEMMA CommitRequestStep ==
  ASSUME IInv, NEW c \in Clients, ClientUpdates(c) \/ ClientCancels(c)
  PROVE  IInv'
<1> DEFINE q == client[c]
           x == Current(q.task)
<1>0. /\ q \in ClientStates /\ ReqOK(q, store) /\ q.task \in Tasks /\ q.pc = "commit"
      /\ UNCHANGED <<aged, runner, issued, stops>>
  BY DEF IInv, TypeOK, ReqOK, ClientUpdates, ClientCancels
<1>1. RecInv(x) /\ x \in TaskRecords /\ StepOK(store[q.task], x) /\ RecInv(store[q.task])
  BY <1>0, CurrentStep
<1>2. ASSUME NEW y, StepOK(x, y), Write(q.task, y), NEW s \in Statuses,
             client' = [client EXCEPT ![c] = [q EXCEPT !.pc = "confirm", !.status = s]]
      PROVE  IInv'
  <2> DEFINE d == [q EXCEPT !.pc = "confirm", !.status = s]
  <2>1. d \in ClientStates /\ d.pc = "confirm" /\ d.task = q.task
    BY <1>0 DEF ClientStates
  <2>2. Advance
    BY <1>0, <1>2, WriteAdvance
  <2> HIDE DEF d
  <2>3. ReqOK(d, store')
    BY <1>0, <2>1, PlainRequest
  <2> QED
    BY <1>0, <1>2, <2>1, <2>2, <2>3, ClientMove DEF d
<1>3. ASSUME Read(q.task), client' = [client EXCEPT ![c] = NoRequest]
      PROVE  IInv'
  BY <1>0, <1>3, ReadAdvance, RequestOK, ClientMove
<1>4. CASE ClientUpdates(c) /\ x.gen = q.gen /\ CanReplace(x, q.asked)
  <2> DEFINE y == ReplaceTask(x, q.status, q.asked, x.accepted \cup q.keys)
  <2>1. Write(q.task, y) /\ client' = [client EXCEPT ![c].pc = "confirm"] /\ q.op = "update"
    BY <1>4 DEF ClientUpdates
  <2>2. q.keys # {} /\ q.status \in {"working", "input_required"} /\ Past(store[q.task], q.gen, "input_required")
    BY <1>0, <2>1 DEF ReqOK
  <2>3. q.gen \in Nat /\ q.keys \in SUBSET Keys /\ q.asked \in SUBSET Keys /\ q.status \in Statuses
    BY <1>0, CounterAssumption DEF ClientStates
  <2>4. Past(x, q.gen, "input_required")
    BY <1>1, <2>2, <2>3, PastStable
  <2>5. ~x.cancel
    <3>1. x.status # "working"
      BY <1>4, <2>3, <2>4 DEF Past
    <3> QED
      BY <1>1, <3>1 DEF RecInv
  <2>6. x.accepted \cup q.keys \in SUBSET Keys /\ x.accepted \cup q.keys # {}
    BY <1>1, <2>2, <2>3, RecFields
  <2>7. q.status \in Active \cup Terminal
    BY <2>2 DEF Active
  <2>8. StepOK(x, y)
    BY <1>1, <1>4, <2>3, <2>5, <2>6, <2>7, ReplaceStep
  <2>9. client' = [client EXCEPT ![c] = [q EXCEPT !.pc = "confirm", !.status = q.status]]
    BY <1>0, <2>1 DEF ClientStates
  <2> HIDE DEF y
  <2> QED
    BY <1>2, <2>1, <2>3, <2>8, <2>9
<1>5. CASE ClientUpdates(c) /\ ~(x.gen = q.gen /\ CanReplace(x, q.asked))
  BY <1>3, <1>5 DEF ClientUpdates
<1> DEFINE can == x.gen = q.gen /\ (Dispatched(x) \/ CanReplace(x, {}))
<1>6. CASE ClientCancels(c) /\ can
  <2> DEFINE y == IF Dispatched(x) THEN RecordCancellation(x) ELSE ReplaceTask(x, "cancelled", {}, {})
             s == IF Dispatched(x) THEN "working" ELSE "cancelled"
  <2>1. Write(q.task, y) /\ client' = [client EXCEPT ![c].pc = "confirm", ![c].status = s]
    BY <1>6 DEF ClientCancels
  <2>2. s \in Statuses
    BY DEF Statuses, Active, Terminal
  <2>3. StepOK(x, y)
    <3>1. CASE Dispatched(x)
      BY <1>1, <3>1, RecordStep
    <3>2. CASE ~Dispatched(x)
      <4>1. StepOK(x, ReplaceTask(x, "cancelled", {}, {}))
        BY <1>1, <1>6, <3>2, ReplaceStep DEF Terminal
      <4> QED
        BY <3>2, <4>1
    <3> QED
      BY <3>1, <3>2
  <2> HIDE DEF y, s
  <2>4. client' = [client EXCEPT ![c] = [q EXCEPT !.pc = "confirm", !.status = s]]
    BY <1>0, <2>1 DEF IInv, TypeOK
  <2> QED
    BY <1>2, <2>1, <2>2, <2>3, <2>4
<1>7. CASE ClientCancels(c) /\ ~can
  BY <1>3, <1>7 DEF ClientCancels
<1> QED
  BY <1>4, <1>5, <1>6, <1>7

LEMMA ConfirmStep ==
  ASSUME IInv, NEW c \in Clients, ClientConfirms(c)
  PROVE  IInv'
<1> DEFINE q == client[c]
           d == [q EXCEPT !.pc = "lost"]
<1>0. /\ q \in ClientStates /\ q.task \in Tasks /\ Read(q.task)
      /\ UNCHANGED <<aged, runner, issued, stops>>
  BY DEF IInv, TypeOK, ReqOK, ClientConfirms
<1>1. d \in ClientStates /\ d.task = q.task /\ d.pc = "lost"
  BY <1>0 DEF ClientStates
<1>2. PICK n \in {NoRequest, d} : client' = [client EXCEPT ![c] = n]
  BY DEF ClientConfirms
<1> HIDE DEF d
<1>3. Advance
  BY <1>0, ReadAdvance
<1>4. n \in ClientStates /\ ReqOK(n, store')
  BY <1>0, <1>1, RequestOK, PlainRequest
<1> QED
  BY <1>0, <1>2, <1>3, <1>4, ClientMove

-----------------------------------------------------------------------------
LEMMA InitInv == Init => IInv
<1> SUFFICES ASSUME Init PROVE IInv
  OBVIOUS
<1>1. 0 \in 0..MaxFence /\ 0 \in 0..MaxStops
  BY CounterAssumption, BoundAssumption
<1>2. RecInv(Missing("absent", 0)) /\ Missing("absent", 0) \in TaskRecords
  BY <1>1, MissingInv DEF RecInv
<1>3. \A t \in Tasks : RecInv(store[t])
  BY <1>2 DEF Init
<1>4. \A r \in Runners : runner[r] \in RunnerStates /\ RunOK(runner[r], store, aged)
  BY FreeOK DEF Init
<1>5. \A c \in Clients : client[c] \in ClientStates /\ ReqOK(client[c], store)
  BY RequestOK DEF Init
<1>6. TypeOK
  BY <1>1, <1>2, <1>4, <1>5 DEF TypeOK, Init
<1>7. LedgerOK
  BY DEF LedgerOK, Init
<1> QED
  BY <1>3, <1>4, <1>5, <1>6, <1>7 DEF IInv

LEMMA StepInv == IInv /\ [Next]_vars => IInv'
<1> SUFFICES ASSUME IInv, [Next]_vars PROVE IInv'
  OBVIOUS
<1>1. CASE UNCHANGED vars
  <2>1. Advance
    BY <1>1, StutterAdvance DEF vars
  <2> QED
    BY <1>1, <2>1, WorldMove DEF vars, IInv, TypeOK
<1>2. ASSUME NEW r \in Runners, RunnerStep(r) PROVE IInv'
  <2>1. "initial" \in Kinds
    BY DEF Kinds
  <2> QED
    BY <1>2, <2>1, QuietRunnerStep, SearchStep, ClaimStep, ElectStep, ProbeStep, HonorStep,
       SuperviseStep, CheckStep, RestoreHandoffStep, FinishStep DEF RunnerStep
<1>3. ASSUME NEW r \in Runners, StopService(r) \/ Crash(r) PROVE IInv'
  BY <1>3, QuietRunnerStep
<1>4. ASSUME NEW r \in Runners, NEW t \in Tasks, NEW kind \in Kinds, ReceiveWakeup(r, t, kind) PROVE IInv'
  BY <1>4, SearchStep
<1>5. ASSUME NEW r \in Runners, NEW res \in {"ok", "error"}, SupervisorReturns(r, res) PROVE IInv'
  BY <1>5, SuperviseStep
<1>6. ASSUME NEW a \in issued, NEW s \in Terminal \cup {"input_required"}, NEW asked \in SUBSET Keys,
             AuthorityCommits(a, s, asked)
      PROVE  IInv'
  BY <1>6, AuthorityStep
<1>7. ASSUME NEW c \in Clients, ClientUpdates(c) \/ ClientCancels(c) \/ ClientConfirms(c) PROVE IInv'
  BY <1>7, CommitRequestStep, ConfirmStep
<1>8. ASSUME NEW c \in Clients, NEW t \in Tasks,
             ClientCreates(c, t) \/ ClientReadsForCancel(c, t)
               \/ \E keys \in SUBSET Keys : ClientReadsForUpdate(c, t, keys)
      PROVE  IInv'
  <2>1. {} \in SUBSET Keys
    OBVIOUS
  <2> QED
    BY <1>8, <2>1, CreateRequestStep, ReadRequestStep
<1>9. ASSUME NEW t \in Tasks, LeaseRunsOut(t) \/ TaskAges(t) PROVE IInv'
  BY <1>9, ClockStep
<1> QED
  BY <1>1, <1>2, <1>3, <1>4, <1>5, <1>6, <1>7, <1>8, <1>9 DEF Next

LEMMA Invariance == Spec => []IInv
  BY InitInv, StepInv, PTL DEF Spec

\* Every reachable state is well formed: no counter passes its checked limit,
\* and every runner and handler is at a place the code has.
THEOREM TypeCorrect == Spec => []TypeOK
<1>1. IInv => TypeOK
  BY DEF IInv
<1> QED
  BY <1>1, Invariance, PTL

\* A recorded cancellation is always held by the elected dispatch of the
\* task's generation, for any number of runners and any crashes: restoring,
\* finishing and reclaiming a lease never leave the intent to nobody.
THEOREM CancellationHasADispatch == Spec => []CancellationNeverStranded
<1>1. IInv => CancellationNeverStranded
  BY DEF IInv, RecInv, CancellationNeverStranded
<1> QED
  BY <1>1, Invariance, PTL

\* Working tasks keep their payload until a committed transition: in
\* particular finish_handoff_dispatch never consumes work still current.
THEOREM WorkIsKept == Spec => []WorkNeverLost
<1>1. IInv => WorkNeverLost
  BY DEF IInv, RecInv, WorkNeverLost
<1> QED
  BY <1>1, Invariance, PTL

\* A fence that lapsed commits nothing: fences are never issued twice and a
\* fenced write needs the lease of exactly its own.
THEOREM LapsedIsFenced == Spec => []LapsedNeverCommits
<1>1. IInv => LapsedNeverCommits
  BY DEF IInv, LedgerOK, LapsedNeverCommits
<1> QED
  BY <1>1, Invariance, PTL

\* No task is stranded, cancelled or not, in any reachable state.
THEOREM NothingStaysStranded == Spec => []NothingIsStranded
BY TypeCorrect, CancellationHasADispatch, WorkIsKept, PTL DEF NothingIsStranded

-----------------------------------------------------------------------------
(* What a client observes *)

\* A record as TaskLifecycle sees it.
LifeOf(x) == [status |-> x.status, cancel |-> x.cancel, asked |-> x.asked,
              answers |-> x.accepted, ever |-> x.history]

Lives == [status : Statuses, cancel : BOOLEAN, asked : SUBSET Keys, answers : SUBSET Keys,
          ever : SUBSET Keys]

\* A task has questions outstanding exactly while it waits for input, has a
\* record of all it asked, and a recorded cancellation leaves no answers.
RoundInv(x) ==
  /\ x.status = "input_required" <=> x.asked # {}
  /\ x.asked \subseteq x.history
  /\ x.cancel => x.accepted = {}

\* What an operation does to a task is a step of its life or none, and one
\* generation never changes what is asked.
RoundStep(x, y) ==
  /\ RoundInv(y)
  /\ LifeOf(y) = LifeOf(x) \/ Lifecycle!Step(LifeOf(x), LifeOf(y))
  /\ x.status = "gone" => y.status = "gone"
  /\ y.status = "gone" \/ y.gen > x.gen \/ (y.gen = x.gen /\ y.asked = x.asked)

\* A handler about to store answers has the round of its generation.
Reading(d, st) ==
  d.pc = "commit" /\ d.op = "update" =>
    /\ d.keys # {} /\ d.keys \cap d.asked = {}
    /\ d.status = IF d.asked = {} THEN "working" ELSE "input_required"
    /\ \/ st[d.task].status = "gone"
       \/ st[d.task].gen > d.gen
       \/ st[d.task].gen = d.gen /\ st[d.task].asked = d.asked \cup d.keys

RoundsOK ==
  /\ \A t \in Tasks : RoundInv(store[t])
  /\ \A c \in Clients : Reading(client[c], store)

\* An operation that changes nothing a client observes.
LEMMA SameRound ==
  ASSUME NEW x, NEW y, RoundInv(x), y.status = x.status, y.cancel = x.cancel, y.asked = x.asked,
         y.accepted = x.accepted, y.history = x.history, y.gen = x.gen \/ y.gen > x.gen
  PROVE  RoundStep(x, y) /\ LifeOf(y) = LifeOf(x)
BY DEF RoundStep, RoundInv, LifeOf

\* A task's life has the fields of its record.
LEMMA LifeFields ==
  ASSUME NEW x, x.status \in Statuses, x.cancel \in BOOLEAN, x.asked \in SUBSET Keys,
         x.accepted \in SUBSET Keys, x.history \in SUBSET Keys
  PROVE  /\ LifeOf(x) \in Lives
         /\ LifeOf(x).status = x.status /\ LifeOf(x).cancel = x.cancel /\ LifeOf(x).asked = x.asked
         /\ LifeOf(x).answers = x.accepted /\ LifeOf(x).ever = x.history
<1>1. LifeOf(x) \in Lives
  BY DEF Lives, LifeOf
<1>2. /\ LifeOf(x).status = x.status /\ LifeOf(x).cancel = x.cancel /\ LifeOf(x).asked = x.asked
      /\ LifeOf(x).answers = x.accepted /\ LifeOf(x).ever = x.history
  BY DEF LifeOf
<1> QED
  BY <1>1, <1>2

\* The same for a stored task.
LEMMA RecordLife ==
  ASSUME NEW x, RecInv(x)
  PROVE  /\ LifeOf(x) \in Lives
         /\ LifeOf(x).status = x.status /\ LifeOf(x).cancel = x.cancel /\ LifeOf(x).asked = x.asked
         /\ LifeOf(x).answers = x.accepted /\ LifeOf(x).ever = x.history
  BY RecFields, LifeFields DEF RecInv

\* The steps of a life, field by field.
LEMMA LifeSteps ==
  ASSUME NEW a \in Lives, NEW b \in Lives
  PROVE  /\ /\ a.status = "absent" /\ b.status = "working"
            /\ b.cancel = a.cancel /\ b.asked = a.asked /\ b.answers = a.answers /\ b.ever = a.ever
            => Lifecycle!Create(a, b)
         /\ /\ a.status = "working" /\ a.cancel = FALSE /\ b.asked # {} /\ b.asked \cap a.ever = {}
            /\ b.status = "input_required" /\ b.cancel = FALSE /\ b.answers = {}
            /\ b.ever = a.ever \cup b.asked
            => Lifecycle!Ask(a, b)
         /\ /\ a.status = "working" /\ a.cancel = FALSE /\ b.status \in {"completed", "failed"}
            /\ b.cancel = FALSE /\ b.asked = a.asked /\ b.answers = {} /\ b.ever = a.ever
            => Lifecycle!Settle(a, b)
         /\ /\ a.status = "working" /\ a.cancel = FALSE /\ b.status = a.status /\ b.cancel = TRUE
            /\ b.asked = a.asked /\ b.answers = {} /\ b.ever = a.ever
            => Lifecycle!Intend(a, b)
         /\ /\ a.status \in {"working", "input_required"} /\ b.status = "cancelled"
            /\ b.cancel = FALSE /\ b.asked = {} /\ b.answers = {} /\ b.ever = a.ever
            => Lifecycle!Cancel(a, b)
         /\ /\ a.status # "absent" /\ b.status = "gone" /\ b.cancel = FALSE
            /\ b.asked = {} /\ b.answers = {} /\ b.ever = {}
            => Lifecycle!Forget(a, b)
<1>1. /\ a.status = "absent" /\ b.status = "working"
      /\ b.cancel = a.cancel /\ b.asked = a.asked /\ b.answers = a.answers /\ b.ever = a.ever
      => Lifecycle!Create(a, b)
  BY DEF Lifecycle!Create, Lives
<1>2. /\ a.status = "working" /\ a.cancel = FALSE /\ b.asked # {} /\ b.asked \cap a.ever = {}
      /\ b.status = "input_required" /\ b.cancel = FALSE /\ b.answers = {}
      /\ b.ever = a.ever \cup b.asked
      => Lifecycle!Ask(a, b)
  BY DEF Lifecycle!Ask, Lives
<1>3. /\ a.status = "working" /\ a.cancel = FALSE /\ b.status \in {"completed", "failed"}
      /\ b.cancel = FALSE /\ b.asked = a.asked /\ b.answers = {} /\ b.ever = a.ever
      => Lifecycle!Settle(a, b)
  BY DEF Lifecycle!Settle, Lives
<1>4. /\ a.status = "working" /\ a.cancel = FALSE /\ b.status = a.status /\ b.cancel = TRUE
      /\ b.asked = a.asked /\ b.answers = {} /\ b.ever = a.ever
      => Lifecycle!Intend(a, b)
  BY DEF Lifecycle!Intend, Lives
<1>5. /\ a.status \in {"working", "input_required"} /\ b.status = "cancelled"
      /\ b.cancel = FALSE /\ b.asked = {} /\ b.answers = {} /\ b.ever = a.ever
      => Lifecycle!Cancel(a, b)
  BY DEF Lifecycle!Cancel, Lives
<1>6. /\ a.status # "absent" /\ b.status = "gone" /\ b.cancel = FALSE
      /\ b.asked = {} /\ b.answers = {} /\ b.ever = {}
      => Lifecycle!Forget(a, b)
  <2>1. Lifecycle!Fresh \in Lives
    BY DEF Lifecycle!Fresh, Lives, Statuses
  <2>2. /\ Lifecycle!Fresh.cancel = FALSE /\ Lifecycle!Fresh.asked = {}
        /\ Lifecycle!Fresh.answers = {} /\ Lifecycle!Fresh.ever = {}
    BY DEF Lifecycle!Fresh
  <2> QED
    BY <2>1, <2>2 DEF Lifecycle!Forget, Lives
<1> QED
  BY <1>1, <1>2, <1>3, <1>4, <1>5, <1>6

\* The fields of a replacement, and of the life it leaves.
Replaced(x, y, s, asked, answers) ==
  /\ y.status = s /\ y.asked = asked /\ y.history = x.history \cup asked
  /\ y.accepted = answers /\ y.cancel = FALSE /\ y.gen > x.gen /\ LifeOf(y) \in Lives
  /\ LifeOf(y).status = s /\ LifeOf(y).asked = asked /\ LifeOf(y).ever = x.history \cup asked
  /\ LifeOf(y).answers = answers /\ LifeOf(y).cancel = FALSE

LEMMA ReplaceFields ==
  ASSUME NEW x, RecInv(x), NEW s \in Statuses, NEW asked \in SUBSET Keys, NEW answers \in SUBSET Keys,
         x.cancel => s \in Terminal
  PROVE  Replaced(x, ReplaceTask(x, s, asked, answers), s, asked, answers)
<1> DEFINE y == ReplaceTask(x, s, asked, answers)
<1>1. x \in TaskRecords
  BY DEF RecInv
<1>2. /\ y.status = s /\ y.gen = x.gen + 1 /\ y.asked = asked /\ y.accepted = answers
      /\ y.cancel = FALSE
  BY <1>1, RecFields DEF ReplaceTask, TaskRecords
<1>3. y.history = x.history \cup asked
  BY <1>1, RecFields DEF ReplaceTask, TaskRecords
<1>4. x.gen \in Nat /\ x.history \cup asked \in SUBSET Keys
  BY <1>1, RecFields, CounterAssumption
<1> HIDE DEF y
<1>5. y.gen > x.gen
  BY <1>2, <1>4
<1>6. /\ LifeOf(y) \in Lives /\ LifeOf(y).status = s /\ LifeOf(y).asked = asked
      /\ LifeOf(y).ever = x.history \cup asked /\ LifeOf(y).answers = answers
      /\ LifeOf(y).cancel = FALSE
  BY <1>2, <1>3, <1>4, LifeFields
<1>7. Replaced(x, y, s, asked, answers)
  BY <1>2, <1>3, <1>5, <1>6 DEF Replaced
<1> QED
  BY <1>7 DEF y

\* A cancellation, by whoever finds the task active.
LEMMA CancelRound ==
  ASSUME NEW x, RecInv(x), RoundInv(x), x.status \in Active
  PROVE  RoundStep(x, ReplaceTask(x, "cancelled", {}, {}))
<1>0. PICK y : y = ReplaceTask(x, "cancelled", {}, {})
  OBVIOUS
<1> SUFFICES RoundStep(x, y)
  BY <1>0
<1>1. "cancelled" \in Statuses /\ "cancelled" \in Terminal /\ {} \in SUBSET Keys
  BY DEF Statuses, Terminal
<1>2. /\ y.status = "cancelled" /\ y.asked = {} /\ y.accepted = {} /\ y.cancel = FALSE
      /\ y.gen > x.gen /\ y.history = x.history \cup {} /\ LifeOf(y) \in Lives
      /\ LifeOf(y).status = "cancelled" /\ LifeOf(y).asked = {} /\ LifeOf(y).answers = {}
      /\ LifeOf(y).cancel = FALSE /\ LifeOf(y).ever = x.history \cup {}
  <2>1. Replaced(x, y, "cancelled", {}, {})
    BY <1>0, <1>1, ReplaceFields
  <2> QED
    BY <2>1 DEF Replaced
<1>3. x.history \cup {} = x.history /\ x.status \in {"working", "input_required"}
  BY DEF Active
<1>4. Lifecycle!Cancel(LifeOf(x), LifeOf(y))
  BY <1>2, <1>3, RecordLife, LifeSteps
<1> QED
  BY <1>2, <1>3, <1>4 DEF RoundStep, RoundInv, Lifecycle!Step

\* What a dispatch commits: it asks, settles, or honours a cancellation.
LEMMA FencedRound ==
  ASSUME NEW x, RecInv(x), RoundInv(x), NEW s \in Terminal \cup {"input_required"},
         NEW asked \in SUBSET Keys, s = "input_required" <=> asked # {}, NEW g, NEW o, NEW f,
         CanReplaceFenced(x, g, o, f, s), CanReplace(x, asked)
  PROVE  RoundStep(x, ReplaceTask(x, s, asked, {}))
<1>0. PICK y : y = ReplaceTask(x, s, asked, {})
  OBVIOUS
<1> SUFFICES RoundStep(x, y)
  BY <1>0
<1>1. x.lease.elected /\ (x.cancel <=> s = "cancelled") /\ x.cancel \in BOOLEAN
  BY RecFields DEF CanReplaceFenced, OwnsDispatch, RecInv
<1>2. x.status = "working" /\ x.asked = {}
  BY <1>1, NoLeaseType DEF RecInv, Leased, RoundInv
<1>3. s \in Statuses /\ {} \in SUBSET Keys /\ (x.cancel => s \in Terminal)
  BY <1>1 DEF Statuses, Active, Terminal
<1>4. /\ y.status = s /\ y.asked = asked /\ y.history = x.history \cup asked
      /\ y.accepted = {} /\ y.cancel = FALSE /\ y.gen > x.gen /\ LifeOf(y) \in Lives
      /\ LifeOf(y).status = s /\ LifeOf(y).asked = asked /\ LifeOf(y).ever = x.history \cup asked
      /\ LifeOf(y).answers = {} /\ LifeOf(y).cancel = FALSE
  <2>1. Replaced(x, y, s, asked, {})
    BY <1>0, <1>3, ReplaceFields
  <2> QED
    BY <2>1 DEF Replaced
<1>5. CASE s = "input_required"
  <2>1. asked \cap x.history = {} /\ asked # {} /\ ~x.cancel
    BY <1>1, <1>2, <1>5 DEF CanReplace
  <2>2. Lifecycle!Ask(LifeOf(x), LifeOf(y))
    <3>1. /\ LifeOf(x) \in Lives /\ LifeOf(x).status = "working" /\ LifeOf(x).cancel = FALSE
          /\ LifeOf(x).ever = x.history
      BY <1>1, <1>2, <2>1, RecordLife
    <3> QED
      BY <1>4, <1>5, <2>1, <3>1, LifeSteps
  <2> QED
    BY <1>2, <1>4, <1>5, <2>1, <2>2 DEF RoundStep, RoundInv, Lifecycle!Step
<1>6. CASE s = "cancelled"
  <2>1. asked = {}
    BY <1>6
  <2>2. y = ReplaceTask(x, "cancelled", {}, {})
    BY <1>0, <1>6, <2>1
  <2> QED
    BY <1>2, <2>2, CancelRound DEF Active
<1>7. CASE s \in {"completed", "failed"}
  <2>1. asked = {} /\ x.history \cup asked = x.history /\ ~x.cancel
    BY <1>1, <1>7
  <2>2. Lifecycle!Settle(LifeOf(x), LifeOf(y))
    <3>1. /\ LifeOf(x) \in Lives /\ LifeOf(x).status = "working" /\ LifeOf(x).cancel = FALSE
          /\ LifeOf(x).asked = {} /\ LifeOf(x).ever = x.history
      BY <1>1, <1>2, <2>1, RecordLife
    <3>2. /\ LifeOf(y) \in Lives /\ LifeOf(y).status \in {"completed", "failed"}
          /\ LifeOf(y).cancel = FALSE /\ LifeOf(y).asked = {} /\ LifeOf(y).answers = {}
          /\ LifeOf(y).ever = x.history
      BY <1>4, <1>7, <2>1
    <3> QED
      BY <3>1, <3>2, LifeSteps
  <2> QED
    BY <1>2, <1>4, <1>7, <2>1, <2>2 DEF RoundStep, RoundInv, Lifecycle!Step
<1> QED
  BY <1>5, <1>6, <1>7 DEF Terminal

\* Answers to some of the questions outstanding.
LEMMA AnswerRound ==
  ASSUME NEW x, RecInv(x), RoundInv(x), NEW keys, NEW asked, keys # {}, keys \cap asked = {},
         x.asked = asked \cup keys, x.accepted \cup keys \in SUBSET Keys, NEW s, s = IF asked = {} THEN "working" ELSE "input_required"
  PROVE  RoundStep(x, ReplaceTask(x, s, asked, x.accepted \cup keys))
<1>0. PICK y : y = ReplaceTask(x, s, asked, x.accepted \cup keys)
  OBVIOUS
<1> SUFFICES RoundStep(x, y)
  BY <1>0
<1>1. x.status = "input_required" /\ x.cancel = FALSE
  <2>1. x.asked # {}
    OBVIOUS
  <2> QED
    BY <2>1, RecFields DEF RecInv, RoundInv
<1>2. /\ y.status = s /\ y.asked = asked /\ y.history = x.history \cup asked
      /\ y.accepted = x.accepted \cup keys /\ y.cancel = FALSE /\ y.gen > x.gen /\ LifeOf(y) \in Lives
      /\ LifeOf(y).status = s /\ LifeOf(y).asked = asked /\ LifeOf(y).ever = x.history \cup asked
      /\ LifeOf(y).answers = x.accepted \cup keys /\ LifeOf(y).cancel = FALSE
  <2>1. s \in Statuses /\ asked \in SUBSET Keys
    BY RecFields DEF Statuses, Active, RecInv
  <2>2. Replaced(x, y, s, asked, x.accepted \cup keys)
    BY <1>0, <1>1, <2>1, ReplaceFields
  <2> QED
    BY <2>2 DEF Replaced
<1>3. x.history \cup asked = x.history /\ asked = x.asked \ keys /\ keys \in SUBSET x.asked
      /\ (asked = {} <=> keys = x.asked)
  BY DEF RoundInv
<1>4. /\ LifeOf(x) \in Lives /\ LifeOf(x).status = "input_required" /\ LifeOf(x).cancel = FALSE
      /\ LifeOf(x).asked = x.asked /\ LifeOf(x).answers = x.accepted /\ LifeOf(x).ever = x.history
  BY <1>1, RecordLife
<1>5. LifeOf(y) = [LifeOf(x) EXCEPT !.asked = @ \ keys, !.answers = @ \cup keys,
                     !.status = IF keys = LifeOf(x).asked THEN "working" ELSE @]
  <2>1. /\ LifeOf(y).asked = LifeOf(x).asked \ keys /\ LifeOf(y).answers = LifeOf(x).answers \cup keys
        /\ LifeOf(y).cancel = LifeOf(x).cancel /\ LifeOf(y).ever = LifeOf(x).ever
        /\ LifeOf(y).status = IF keys = LifeOf(x).asked THEN "working" ELSE LifeOf(x).status
    BY <1>1, <1>2, <1>3, <1>4
  <2> QED
    BY <1>2, <1>4, <2>1 DEF Lives
<1>6. Lifecycle!Answer(LifeOf(x), LifeOf(y))
  BY <1>3, <1>4, <1>5 DEF Lifecycle!Answer
<1> QED
  BY <1>1, <1>2, <1>3, <1>6 DEF RoundStep, RoundInv, Lifecycle!Step

\* An intent is recorded once; a second request changes nothing.
LEMMA RecordRound ==
  ASSUME NEW x, RecInv(x), RoundInv(x), Dispatched(x)
  PROVE  RoundStep(x, RecordCancellation(x))
<1>0. PICK y : y = RecordCancellation(x)
  OBVIOUS
<1> SUFFICES RoundStep(x, y)
  BY <1>0
<1>1. x \in TaskRecords /\ x.status = "working" /\ x.cancel \in BOOLEAN /\ x.asked = {}
  BY RecFields DEF RecInv, Dispatched, RoundInv
<1>2. /\ y.status = x.status /\ y.asked = x.asked /\ y.history = x.history /\ y.accepted = {}
      /\ y.cancel = TRUE /\ y.gen = x.gen
  BY <1>0, <1>1 DEF RecordCancellation, TaskRecords
<1>3. RecInv(y)
  BY <1>0, RecordStep DEF StepOK
<1>4. CASE x.cancel
  <2>1. x.cancel = TRUE /\ x.accepted = {}
    BY <1>1, <1>4 DEF RoundInv
  <2> QED
    BY <1>2, <2>1, SameRound
<1>5. CASE ~x.cancel
  <2>1. Lifecycle!Intend(LifeOf(x), LifeOf(y))
    <3>1. /\ LifeOf(x) \in Lives /\ LifeOf(x).status = "working" /\ LifeOf(x).cancel = FALSE
          /\ LifeOf(x).asked = x.asked /\ LifeOf(x).ever = x.history
      BY <1>1, <1>5, RecordLife
    <3>2. /\ LifeOf(y) \in Lives /\ LifeOf(y).status = "working" /\ LifeOf(y).cancel = TRUE
          /\ LifeOf(y).asked = x.asked /\ LifeOf(y).answers = {} /\ LifeOf(y).ever = x.history
      BY <1>1, <1>2, <1>3, RecordLife
    <3> QED
      BY <3>1, <3>2, LifeSteps
  <2>2. RoundInv(y) /\ x.status # "gone"
    BY <1>1, <1>2 DEF RoundInv
  <2> QED
    BY <1>2, <2>1, <2>2 DEF RoundStep, Lifecycle!Step
<1> QED
  BY <1>1, <1>4, <1>5

\* A new task works, with nothing asked or answered.
LEMMA CreateRound ==
  ASSUME NEW x, RecInv(x), RoundInv(x), x.status = "absent"
  PROVE  RoundStep(x, CreateTask(x))
<1> DEFINE y == CreateTask(x)
<1>1. x \in TaskRecords /\ x.asked = {} /\ x.gen = 0 /\ x.cancel = FALSE
  BY DEF RecInv, Missing
<1>2. /\ y.status = "working" /\ y.asked = x.asked /\ y.history = x.history
      /\ y.accepted = x.accepted /\ y.cancel = x.cancel /\ y.gen = 1
  BY <1>1 DEF CreateTask, TaskRecords
<1> HIDE DEF y
<1>3. Lifecycle!Create(LifeOf(x), LifeOf(y))
  BY <1>2 DEF Lifecycle!Create, LifeOf
<1>4. RoundStep(x, y)
  BY <1>1, <1>2, <1>3 DEF RoundStep, RoundInv, Lifecycle!Step
<1> QED
  BY <1>4 DEF y

\* Reclamation forgets, cancels, or is not noticed, and a task that is active
\* after it was not touched.
LEMMA ReclaimRound ==
  ASSUME NEW x, RecInv(x), RoundInv(x), NEW a \in BOOLEAN, NEW y, y = Reclaim(x, a)
  PROVE  /\ RoundStep(x, y)
         /\ y.status \in Active => LifeOf(y) = LifeOf(x) /\ (y.gen = x.gen \/ y.gen > x.gen)
<1>0. x \in TaskRecords /\ x.gen \in Nat /\ x.cancel \in BOOLEAN
  BY RecFields, CounterAssumption DEF RecInv
<1>1. CASE a /\ Retained(x)
  <2>1. y = Missing("gone", x.fences) /\ x.status # "absent" /\ x.status # "gone"
    BY <1>1 DEF Reclaim, Retained, Active, Terminal
  <2>2. Lifecycle!Forget(LifeOf(x), LifeOf(y))
    <3>1. x.fences \in 0..MaxFence
      BY <1>0, RecFields
    <3>2. RecInv(y)
      BY <2>1, <3>1, MissingInv
    <3>3. /\ y.status = "gone" /\ y.asked = {} /\ y.cancel = FALSE /\ y.accepted = {}
          /\ y.history = {}
      BY <2>1 DEF Missing
    <3>4. /\ LifeOf(y) \in Lives /\ LifeOf(y).status = "gone" /\ LifeOf(y).cancel = FALSE
          /\ LifeOf(y).asked = {} /\ LifeOf(y).answers = {} /\ LifeOf(y).ever = {}
      BY <3>2, <3>3, RecordLife
    <3>5. LifeOf(x) \in Lives /\ LifeOf(x).status # "absent"
      BY <2>1, RecordLife
    <3> QED
      BY <3>4, <3>5, LifeSteps
  <2>3. y.status = "gone" /\ y.asked = {} /\ y.cancel = FALSE
    BY <2>1 DEF Missing
  <2> QED
    BY <2>2, <2>3 DEF RoundStep, RoundInv, Lifecycle!Step, Active
<1>2. CASE ~(a /\ Retained(x))
  <2>1. y = ReclaimLease(x)
    BY <1>2 DEF Reclaim
  <2>2. CASE y = x
    BY <2>2, SameRound
  <2>3. CASE y = ReplaceTask(x, "cancelled", {}, {}) /\ x.status = "working"
    <3>1. RoundStep(x, y)
      BY <2>3, CancelRound DEF Active
    <3>2. y.status = "cancelled"
      BY <1>0, <2>3 DEF ReplaceTask, TaskRecords
    <3> QED
      BY <3>1, <3>2 DEF Active
  <2>4. CASE y = [x EXCEPT !.gen = @ + 1, !.lease = NoLease]
    <3>1. /\ y.status = x.status /\ y.cancel = x.cancel /\ y.asked = x.asked
          /\ y.accepted = x.accepted /\ y.history = x.history /\ y.gen > x.gen
      BY <1>0, <2>4 DEF TaskRecords
    <3> QED
      BY <3>1, SameRound
  <2>5. CASE y = [x EXCEPT !.lease = NoLease]
    <3>1. /\ y.status = x.status /\ y.cancel = x.cancel /\ y.asked = x.asked
          /\ y.accepted = x.accepted /\ y.history = x.history /\ y.gen = x.gen
      BY <1>0, <2>5 DEF TaskRecords
    <3> QED
      BY <3>1, SameRound
  <2> QED
    BY <2>1, <2>2, <2>3, <2>4, <2>5 DEF ReclaimLease
<1> QED
  BY <1>1, <1>2

\* The store as an operation finds it.
LEMMA CurrentRound ==
  ASSUME IInv, RoundsOK, NEW t \in Tasks
  PROVE  /\ RecInv(store[t]) /\ RoundInv(store[t]) /\ RecInv(Current(t)) /\ RoundInv(Current(t))
         /\ RoundStep(store[t], Current(t))
         /\ Current(t).status \in Active =>
              /\ LifeOf(Current(t)) = LifeOf(store[t])
              /\ Current(t).gen = store[t].gen \/ Current(t).gen > store[t].gen
<1>1. RecInv(store[t]) /\ RoundInv(store[t]) /\ (t \in aged) \in BOOLEAN /\ RecInv(Current(t))
  BY CurrentStep DEF RoundsOK
<1>2. /\ RoundStep(store[t], Current(t))
      /\ Current(t).status \in Active =>
           /\ LifeOf(Current(t)) = LifeOf(store[t])
           /\ Current(t).gen = store[t].gen \/ Current(t).gen > store[t].gen
  BY <1>1, ReclaimRound DEF Current
<1> QED
  BY <1>1, <1>2 DEF RoundStep

\* An operation on a task it found active is a step from what was stored.
LEMMA ComposedRound ==
  ASSUME IInv, RoundsOK, NEW t \in Tasks, Current(t).status \in Active,
         NEW y, RecInv(y), RoundStep(Current(t), y)
  PROVE  RoundStep(store[t], y)
<1> DEFINE x == store[t]
           z == Current(t)
<1>1. LifeOf(z) = LifeOf(x) /\ (z.gen = x.gen \/ z.gen > x.gen) /\ x.status = z.status
      /\ x.asked = z.asked
  BY CurrentRound DEF LifeOf
<1>2. x.gen \in Nat /\ y.gen \in Nat /\ z.gen \in Nat
  BY CurrentRound, RecFields, CounterAssumption DEF RecInv
<1>3. y.status = "gone" \/ y.gen > z.gen \/ (y.gen = z.gen /\ y.asked = z.asked)
  BY DEF RoundStep
<1>4. x.status # "gone"
  BY <1>1 DEF Active
<1> HIDE DEF x, z
<1>5. y.status = "gone" \/ y.gen > x.gen \/ (y.gen = x.gen /\ y.asked = x.asked)
  BY <1>1, <1>2, <1>3
<1>6. RoundInv(y) /\ (LifeOf(y) = LifeOf(x) \/ Lifecycle!Step(LifeOf(x), LifeOf(y)))
  BY <1>1 DEF RoundStep, x, z
<1> QED
  BY <1>4, <1>5, <1>6 DEF RoundStep, x

\* All tasks take a step or none in every operation of the store.
AllStep == \A t \in Tasks : RoundStep(store[t], store'[t])

\* An operation reclaims every task and replaces the one it is about.
LEMMA ApplyRounds ==
  ASSUME IInv, RoundsOK, NEW t \in Tasks, NEW y, RoundStep(store[t], y), NEW by, Apply(t, y, by)
  PROVE  AllStep
  BY CurrentRound DEF Apply, AllStep

\* An operation that stores nothing reclaims all the same.
LEMMA ReadRounds ==
  ASSUME IInv, RoundsOK, NEW t \in Tasks, Read(t)
  PROVE  AllStep
  BY CurrentRound, ApplyRounds DEF Read

\* A step that leaves the store alone.
LEMMA StillRounds ==
  ASSUME RoundsOK, store' = store
  PROVE  AllStep
  BY SameRound DEF RoundsOK, AllStep

\* An operation that only touches the lease of an active task.
LEMMA LeaseRounds ==
  ASSUME IInv, RoundsOK, NEW t \in Tasks, Current(t).status = "working", NEW y, RecInv(y),
         y.status = Current(t).status, y.cancel = Current(t).cancel, y.asked = Current(t).asked,
         y.accepted = Current(t).accepted, y.history = Current(t).history, y.gen = Current(t).gen,
         Write(t, y)
  PROVE  AllStep
<1>1. RoundStep(Current(t), y)
  BY CurrentRound, SameRound
<1> QED
  BY <1>1, ComposedRound, ApplyRounds DEF Write, Active

\* The steps of a service.
LEMMA RunnerRounds ==
  ASSUME IInv, RoundsOK, NEW r \in Runners, RunnerStep(r)
  PROVE  AllStep
<1> DEFINE q == runner[r]
           x == Current(q.task)
<1>0. q.pc \in Holding \cup {"candidate"} => q.task \in Tasks
  BY RunnerFacts
<1>1. CASE EnterService(r) \/ RecoveryWake(r)
  BY <1>1, StillRounds DEF EnterService, RecoveryWake
<1>2. ASSUME NEW t \in Tasks, ScanEnds(r, t) \/ \E kind \in Kinds : ScanCandidate(r, t, kind)
      PROVE  AllStep
  BY <1>2, ReadRounds DEF ScanEnds, ScanCandidate
<1>3. CASE ValidateClaim(r) \/ ProbeCancellation(r) \/ RenewLease(r) \/ CancellationObserved(r)
             \/ CheckTransition(r)
  <2>1. q.pc \in Holding /\ Read(q.task)
    BY <1>3 DEF ValidateClaim, ProbeCancellation, RenewLease, CancellationObserved,
       CheckTransition, At, Holding
  <2> QED
    BY <1>0, <2>1, ReadRounds
<1>4. CASE FinishHandoff(r)
  <2>1. q.pc = "finish"
    BY <1>4 DEF FinishHandoff, At
  <2>2. Read(q.task)
    BY <1>4, <2>1, NothingToFinish DEF FinishHandoff
  <2> QED
    BY <1>0, <2>1, <2>2, ReadRounds DEF Holding
<1>5. CASE ClaimHandoff(r)
  <2>1. q.pc = "candidate" /\ q.task \in Tasks
    BY <1>0, <1>5 DEF ClaimHandoff, At
  <2>2. CASE CanTake(x, q.gen, q.kind)
    <3> DEFINE y == Take(x, q.gen, q.kind, r)
    <3>1. RecInv(x) /\ x \in TaskRecords /\ x.status = "working"
      BY <2>1, <2>2, CurrentStep DEF CanTake
    <3>2. Write(q.task, y)
      BY <1>5, <2>2 DEF ClaimHandoff
    <3>3. RecInv(y)
      BY <2>2, <3>1, TakeStep, RunnerFacts DEF StepOK
    <3>4. /\ y.status = x.status /\ y.cancel = x.cancel /\ y.asked = x.asked
          /\ y.accepted = x.accepted /\ y.history = x.history /\ y.gen = x.gen
      BY <3>1 DEF Take, TaskRecords
    <3> HIDE DEF y
    <3> QED
      BY <2>1, <3>1, <3>2, <3>3, <3>4, LeaseRounds
  <2>3. CASE ~CanTake(x, q.gen, q.kind)
    BY <1>5, <2>1, <2>3, ReadRounds DEF ClaimHandoff
  <2> QED
    BY <2>2, <2>3
<1>6. CASE ElectDispatch(r)
  <2>1. q.pc = "guarded" /\ q.task \in Tasks
    BY <1>0, <1>6 DEF ElectDispatch, At, Holding
  <2>2. CASE CanBegin(x, q.gen, r) /\ x.fences < MaxFence
    <3> DEFINE y == BeginDispatch(x)
    <3>1. RecInv(x) /\ x \in TaskRecords /\ x.status = "working"
      BY <2>1, <2>2, CurrentStep DEF CanBegin
    <3>2. Write(q.task, y)
      BY <1>6, <2>2 DEF ElectDispatch
    <3>3. RecInv(y)
      BY <2>1, <2>2, <3>1, BeginStep, RunnerFacts DEF StepOK, Holding
    <3>4. /\ y.status = x.status /\ y.cancel = x.cancel /\ y.asked = x.asked
          /\ y.accepted = x.accepted /\ y.history = x.history /\ y.gen = x.gen
      BY <3>1 DEF BeginDispatch, TaskRecords
    <3> HIDE DEF y
    <3> QED
      BY <2>1, <3>1, <3>2, <3>3, <3>4, LeaseRounds
  <2>3. CASE ~(CanBegin(x, q.gen, r) /\ x.fences < MaxFence)
    <3>1. Read(q.task)
      BY <1>6, <2>3 DEF ElectDispatch
    <3> QED
      BY <2>1, <3>1, ReadRounds
  <2> QED
    BY <2>2, <2>3
<1>7. CASE HonorCancellation(r)
  <2>1. q.pc = "honor" /\ q.task \in Tasks
    BY <1>0, <1>7 DEF HonorCancellation, At, Holding
  <2> DEFINE can == CanReplaceFenced(x, q.gen, r, q.fence, "cancelled") /\ CanReplace(x, {})
  <2>2. CASE can
    <3>1. Apply(q.task, ReplaceTask(x, "cancelled", {}, {}), {<<q.task, q.fence>>})
      BY <1>7, <2>2 DEF HonorCancellation
    <3>2. RecInv(x) /\ RoundInv(x) /\ x.status \in Active
      BY <2>1, <2>2, CurrentRound DEF CanReplace
    <3>3. RoundStep(x, ReplaceTask(x, "cancelled", {}, {}))
      BY <3>2, CancelRound
    <3>4. RecInv(ReplaceTask(x, "cancelled", {}, {}))
      BY <2>2, <3>2, ReplaceStep DEF StepOK, Terminal
    <3> QED
      BY <2>1, <3>1, <3>2, <3>3, <3>4, ComposedRound, ApplyRounds
  <2>3. CASE ~can
    <3>1. Read(q.task)
      BY <1>7, <2>3 DEF HonorCancellation
    <3> QED
      BY <2>1, <3>1, ReadRounds
  <2> QED
    BY <2>2, <2>3
<1>8. CASE RestoreHandoff(r)
  <2>1. q.pc = "restore" /\ q.task \in Tasks /\ q.gen >= 1
    BY <1>0, <1>8, RunnerFacts DEF RestoreHandoff, At, Holding
  <2> DEFINE restored == q.armed /\ q.task \notin aged /\ CanRestore(x, q.gen, q.kind, r, q.fence)
  <2>2. CASE restored
    <3> DEFINE y == Release(x)
    <3>1. Write(q.task, y)
      BY <1>8, <2>2 DEF RestoreHandoff
    <3>2. RecInv(x) /\ x \in TaskRecords /\ ~x.cancel /\ x.lease.gen >= 1
      BY <2>1, <2>2, CurrentStep DEF CanRestore
    <3>3. Leased(x) /\ x.status = "working"
      BY <3>2, NoLeaseType DEF Leased, RecInv
    <3>4. RecInv(y)
      BY <3>2, <3>3, RestoreStep DEF StepOK
    <3>5. /\ y.status = x.status /\ y.cancel = x.cancel /\ y.asked = x.asked
          /\ y.accepted = x.accepted /\ y.history = x.history /\ y.gen = x.gen
      BY <3>2 DEF Release, TaskRecords
    <3> HIDE DEF y
    <3> QED
      BY <2>1, <3>1, <3>3, <3>4, <3>5, LeaseRounds
  <2>3. CASE ~restored
    <3>1. Read(q.task)
      BY <1>8, <2>3 DEF RestoreHandoff
    <3> QED
      BY <2>1, <3>1, ReadRounds
  <2> QED
    BY <2>2, <2>3
<1> QED
  BY <1>1, <1>2, <1>3, <1>4, <1>5, <1>6, <1>7, <1>8 DEF RunnerStep

\* The steps of the application and of the clock.
LEMMA WorldRounds ==
  ASSUME IInv, RoundsOK
  PROVE  /\ \A t \in Tasks : LeaseRunsOut(t) \/ TaskAges(t) => AllStep
         /\ \A a \in issued, s \in Terminal \cup {"input_required"}, asked \in SUBSET Keys :
              AuthorityCommits(a, s, asked) => AllStep
<1>1. ASSUME NEW t \in Tasks, TaskAges(t) PROVE AllStep
  BY <1>1, StillRounds DEF TaskAges
<1>2. ASSUME NEW t \in Tasks, LeaseRunsOut(t) PROVE AllStep
  <2>1. store \in [Tasks -> TaskRecords] /\ \A u \in Tasks : RoundInv(store[u])
    BY DEF IInv, TypeOK, RoundsOK
  <2> DEFINE y == [store[t] EXCEPT !.lease.due = TRUE]
  <2>2. \A u \in Tasks : store'[u] = IF u = t THEN y ELSE store[u]
    BY <1>2, <2>1 DEF LeaseRunsOut
  <2>3. /\ y.status = store[t].status /\ y.cancel = store[t].cancel /\ y.asked = store[t].asked
        /\ y.accepted = store[t].accepted /\ y.history = store[t].history /\ y.gen = store[t].gen
    BY <2>1 DEF TaskRecords
  <2> HIDE DEF y
  <2>4. RoundStep(store[t], y) /\ \A u \in Tasks : RoundStep(store[u], store[u])
    BY <2>1, <2>3, SameRound
  <2> QED
    BY <2>2, <2>4 DEF AllStep
<1>3. ASSUME NEW a \in issued, NEW s \in Terminal \cup {"input_required"}, NEW asked \in SUBSET Keys,
             AuthorityCommits(a, s, asked)
      PROVE  AllStep
  <2> DEFINE x == Current(a.task)
             y == ReplaceTask(x, s, asked, {})
  <2>1. a.task \in Tasks
    BY DEF IInv, TypeOK, Authorities
  <2>2. /\ s = "input_required" <=> asked # {}
        /\ CanReplaceFenced(x, a.gen, a.owner, a.fence, s) /\ CanReplace(x, asked)
        /\ Apply(a.task, y, {<<a.task, a.fence>>})
    BY <1>3 DEF AuthorityCommits
  <2>3. RecInv(x) /\ RoundInv(x) /\ x.status \in Active
    BY <2>1, <2>2, CurrentRound DEF CanReplace
  <2>4. RoundStep(x, y)
    BY <2>2, <2>3, FencedRound
  <2>5. s \in Active \cup Terminal /\ s # "working" /\ (x.cancel => s \in Terminal)
    BY <2>2 DEF CanReplaceFenced, Active, Terminal
  <2>6. RecInv(y)
    BY <2>2, <2>3, <2>5, ReplaceStep DEF StepOK
  <2> QED
    BY <2>1, <2>2, <2>3, <2>4, <2>6, ComposedRound, ApplyRounds
<1> QED
  BY <1>1, <1>2, <1>3

\* The steps of a request handler.
LEMMA ClientRounds ==
  ASSUME IInv, RoundsOK, NEW c \in Clients
  PROVE  /\ ClientUpdates(c) \/ ClientCancels(c) \/ ClientConfirms(c) => AllStep
         /\ \A t \in Tasks : ClientCreates(c, t) \/ ClientReadsForCancel(c, t) => AllStep
         /\ \A t \in Tasks, keys \in SUBSET Keys : ClientReadsForUpdate(c, t, keys) => AllStep
<1> DEFINE q == client[c]
           x == Current(q.task)
<1>0. q \in ClientStates /\ ReqOK(q, store) /\ Reading(q, store)
  BY DEF IInv, TypeOK, RoundsOK
<1>1. ASSUME ClientConfirms(c) PROVE AllStep
  <2>1. q.task \in Tasks /\ Read(q.task)
    BY <1>0, <1>1 DEF ClientConfirms, ReqOK
  <2> QED
    BY <2>1, ReadRounds
<1>2. ASSUME NEW t \in Tasks, ClientCreates(c, t) PROVE AllStep
  <2>1. store[t].status = "absent" /\ Apply(t, CreateTask(store[t]), {})
    BY <1>2 DEF ClientCreates, Write
  <2>2. RoundStep(store[t], CreateTask(store[t]))
    BY <2>1, CurrentRound, CreateRound
  <2> QED
    BY <2>1, <2>2, ApplyRounds
<1>3. ASSUME NEW t \in Tasks, NEW keys \in SUBSET Keys,
             ClientReadsForUpdate(c, t, keys) \/ ClientReadsForCancel(c, t)
      PROVE  AllStep
  BY <1>3, ReadRounds DEF ClientReadsForUpdate, ClientReadsForCancel
<1>4. ASSUME ClientUpdates(c) PROVE AllStep
  <2>1. q.task \in Tasks /\ q.pc = "commit" /\ q.op = "update"
    BY <1>0, <1>4 DEF ClientUpdates, ReqOK
  <2>2. CASE x.gen = q.gen /\ CanReplace(x, q.asked)
    <3> DEFINE y == ReplaceTask(x, q.status, q.asked, x.accepted \cup q.keys)
    <3>1. Apply(q.task, y, {})
      BY <1>4, <2>2 DEF ClientUpdates, Write
    <3>2. RecInv(x) /\ RoundInv(x) /\ x.status \in Active /\ RecInv(store[q.task])
          /\ RoundStep(store[q.task], x)
      BY <2>1, <2>2, CurrentRound DEF CanReplace
    <3>3. /\ q.keys # {} /\ q.keys \cap q.asked = {}
          /\ q.status = IF q.asked = {} THEN "working" ELSE "input_required"
      BY <1>0, <2>1 DEF Reading
    <3>4. \/ store[q.task].status = "gone" \/ store[q.task].gen > q.gen
          \/ store[q.task].gen = q.gen /\ store[q.task].asked = q.asked \cup q.keys
      BY <1>0, <2>1 DEF Reading
    <3>5. x.gen \in Nat /\ store[q.task].gen \in Nat /\ q.gen \in Nat
      BY <1>0, <3>2, RecFields, CounterAssumption DEF RecInv, ClientStates
    <3>6. x.status # "gone"
      BY <3>2 DEF Active
    <3>7. x.gen > store[q.task].gen \/ (x.gen = store[q.task].gen /\ x.asked = store[q.task].asked)
      BY <3>2, <3>6 DEF RoundStep
    <3>8. store[q.task].status # "gone"
      BY <3>2, <3>6 DEF RoundStep
    <3>9. x.asked = q.asked \cup q.keys
      <4>1. LifeOf(x) = LifeOf(store[q.task])
        BY <2>1, <3>2, CurrentRound
      <4>2. x.asked = store[q.task].asked
        BY <4>1 DEF LifeOf
      <4> QED
        BY <2>2, <3>4, <3>5, <3>7, <3>8, <4>2
    <3>10. q.keys \in SUBSET Keys /\ q.asked \in SUBSET Keys /\ x.accepted \cup q.keys \in SUBSET Keys
           /\ x.accepted \cup q.keys # {}
      BY <1>0, <3>2, <3>3, RecFields DEF ClientStates, RecInv
    <3>11. RoundStep(x, y)
      BY <3>2, <3>3, <3>9, <3>10, AnswerRound
    <3>12. ~x.cancel /\ q.status \in Active \cup Terminal
      BY <3>2, <3>3, <3>9 DEF RoundInv, RecInv, Active
    <3>13. RecInv(y)
      BY <2>2, <3>2, <3>10, <3>12, ReplaceStep DEF StepOK
    <3> HIDE DEF y
    <3> QED
      BY <2>1, <3>1, <3>2, <3>11, <3>13, ComposedRound, ApplyRounds
  <2>3. CASE ~(x.gen = q.gen /\ CanReplace(x, q.asked))
    BY <1>4, <2>1, <2>3, ReadRounds DEF ClientUpdates
  <2> QED
    BY <2>2, <2>3
<1>5. ASSUME ClientCancels(c) PROVE AllStep
  <2>1. q.task \in Tasks
    BY <1>0, <1>5 DEF ClientCancels, ReqOK
  <2> DEFINE can == x.gen = q.gen /\ (Dispatched(x) \/ CanReplace(x, {}))
             y == IF Dispatched(x) THEN RecordCancellation(x) ELSE ReplaceTask(x, "cancelled", {}, {})
  <2>2. CASE can
    <3>1. Apply(q.task, y, {})
      BY <1>5, <2>2 DEF ClientCancels, Write
    <3>2. RecInv(x) /\ RoundInv(x)
      BY <2>1, CurrentRound
    <3>3. x.status \in Active /\ RoundStep(x, y) /\ RecInv(y)
      <4>1. CASE Dispatched(x)
        <5>1. x.status \in Active
          BY <3>2, <4>1 DEF RecInv, Dispatched, Active
        <5>2. RoundStep(x, RecordCancellation(x)) /\ RecInv(RecordCancellation(x))
          BY <3>2, <4>1, RecordRound, RecordStep DEF StepOK
        <5> QED
          BY <4>1, <5>1, <5>2
      <4>2. CASE ~Dispatched(x)
        <5>1. x.status \in Active /\ CanReplace(x, {})
          BY <2>2, <4>2 DEF CanReplace
        <5>2. RoundStep(x, ReplaceTask(x, "cancelled", {}, {}))
          BY <3>2, <5>1, CancelRound
        <5>3. RecInv(ReplaceTask(x, "cancelled", {}, {}))
          BY <3>2, <5>1, ReplaceStep DEF StepOK, Terminal
        <5> QED
          BY <4>2, <5>1, <5>2, <5>3
      <4> QED
        BY <4>1, <4>2
    <3> HIDE DEF y
    <3> QED
      BY <2>1, <3>1, <3>3, ComposedRound, ApplyRounds
  <2>3. CASE ~can
    BY <1>5, <2>1, <2>3, ReadRounds DEF ClientCancels
  <2> QED
    BY <2>2, <2>3
<1>6. {} \in SUBSET Keys
  OBVIOUS
<1> QED
  BY <1>1, <1>2, <1>3, <1>4, <1>5, <1>6

\* Every step of the system is a step of each task's life, or none.
LEMMA StepRounds ==
  ASSUME IInv, RoundsOK, [Next]_vars
  PROVE  AllStep
<1>1. CASE UNCHANGED vars
  BY <1>1, StillRounds DEF vars
<1>2. ASSUME NEW r \in Runners, StopService(r) \/ Crash(r) PROVE AllStep
  BY <1>2, StillRounds DEF StopService, Crash
<1>3. ASSUME NEW r \in Runners, NEW t \in Tasks, NEW kind \in Kinds, ReceiveWakeup(r, t, kind) PROVE AllStep
  BY <1>3, ReadRounds DEF ReceiveWakeup
<1>4. ASSUME NEW r \in Runners, NEW res \in {"ok", "error"}, SupervisorReturns(r, res) PROVE AllStep
  BY <1>4, StillRounds DEF SupervisorReturns
<1> QED
  BY <1>1, <1>2, <1>3, <1>4, RunnerRounds, WorldRounds, ClientRounds DEF Next

\* What a handler read stays true of its generation.
LEMMA ReadingStays ==
  ASSUME IInv, IInv', AllStep, NEW d \in ClientStates, ReqOK(d, store), Reading(d, store)
  PROVE  Reading(d, store')
<1> SUFFICES ASSUME d.pc = "commit", d.op = "update" PROVE Reading(d, store')
  BY DEF Reading
<1>1. d.task \in Tasks
  BY DEF ReqOK
<1> DEFINE x == store[d.task]
           y == store'[d.task]
<1>2. x.gen \in Nat /\ y.gen \in Nat /\ d.gen \in Nat
  BY <1>1, RecFields, CounterAssumption DEF IInv, RecInv, ClientStates
<1>3. /\ x.status = "gone" => y.status = "gone"
      /\ y.status = "gone" \/ y.gen > x.gen \/ (y.gen = x.gen /\ y.asked = x.asked)
  BY <1>1 DEF AllStep, RoundStep
<1>4. x.status = "gone" \/ x.gen > d.gen \/ (x.gen = d.gen /\ x.asked = d.asked \cup d.keys)
  BY DEF Reading
<1> HIDE DEF x, y
<1>5. y.status = "gone" \/ y.gen > d.gen \/ (y.gen = d.gen /\ y.asked = d.asked \cup d.keys)
  BY <1>2, <1>3, <1>4
<1> QED
  BY <1>5 DEF Reading, y

\* Only tasks/update reads a round.
LEMMA ClientMoves ==
  ASSUME IInv, [Next]_vars, NEW c \in Clients
  PROVE  \/ client'[c] = client[c]
         \/ ~(client'[c].pc = "commit" /\ client'[c].op = "update")
         \/ \E t \in Tasks, keys \in SUBSET Keys : ClientReadsForUpdate(c, t, keys)
<1> DEFINE Plain == client'[c] = client[c] \/ ~(client'[c].pc = "commit" /\ client'[c].op = "update")
<1>0. client \in [Clients -> ClientStates]
  BY DEF IInv, TypeOK
<1>1. ASSUME client' = client PROVE Plain
  BY <1>1
<1>2. ASSUME NEW p \in Clients, ClientUpdates(p) \/ ClientCancels(p) \/ ClientConfirms(p) PROVE Plain
  <2>1. PICK n : client' = [client EXCEPT ![p] = n] /\ n.pc \in {"idle", "confirm", "lost"}
    BY <1>0, <1>2 DEF ClientUpdates, ClientCancels, ClientConfirms, NoRequest, ClientStates
  <2> QED
    BY <1>0, <2>1
<1>3. ASSUME NEW p \in Clients, NEW t \in Tasks, ClientCreates(p, t) \/ ClientReadsForCancel(p, t)
      PROVE  Plain
  <2>1. PICK n : client' = [client EXCEPT ![p] = n] /\ n.op \in {"create", "cancel"}
    BY <1>0, <1>3 DEF ClientCreates, ClientReadsForCancel, NoRequest
  <2> QED
    BY <1>0, <2>1
<1>4. ASSUME NEW p \in Clients, NEW t \in Tasks, NEW keys \in SUBSET Keys, ClientReadsForUpdate(p, t, keys),
             p # c
      PROVE  Plain
  BY <1>0, <1>4 DEF ClientReadsForUpdate
<1>5. ASSUME NEW r \in Runners, RunnerStep(r) \/ StopService(r) \/ Crash(r)
             \/ (\E t \in Tasks, kind \in Kinds : ReceiveWakeup(r, t, kind))
             \/ \E res \in {"ok", "error"} : SupervisorReturns(r, res)
      PROVE  client' = client
  BY <1>5 DEF RunnerStep, EnterService, RecoveryWake, ScanEnds, ScanCandidate, ClaimHandoff,
     ValidateClaim, ElectDispatch, ProbeCancellation, HonorCancellation, RenewLease,
     CancellationObserved, CheckTransition, RestoreHandoff, FinishHandoff, StopService, Crash,
     ReceiveWakeup, SupervisorReturns, RunnerOnly
<1>6. ASSUME NEW t \in Tasks, LeaseRunsOut(t) \/ TaskAges(t) PROVE client' = client
  BY <1>6 DEF LeaseRunsOut, TaskAges
<1>7. ASSUME NEW a \in issued, NEW s \in Terminal \cup {"input_required"}, NEW asked \in SUBSET Keys,
             AuthorityCommits(a, s, asked)
      PROVE  client' = client
  BY <1>7 DEF AuthorityCommits
<1>8. CASE UNCHANGED vars
  BY <1>8 DEF vars
<1> HIDE DEF Plain
<1> DEFINE Reads(p) == \E t \in Tasks, keys \in SUBSET Keys : ClientReadsForUpdate(p, t, keys)
<1>9. ASSUME NEW p \in Clients,
             \/ ClientUpdates(p) \/ ClientCancels(p) \/ ClientConfirms(p)
             \/ \E t \in Tasks : \/ ClientCreates(p, t) \/ ClientReadsForCancel(p, t)
                               \/ \E keys \in SUBSET Keys : ClientReadsForUpdate(p, t, keys)
      PROVE  Plain \/ Reads(c)
  <2>1. ASSUME Reads(p) PROVE Plain \/ Reads(c)
    BY <1>4, <2>1
  <2> QED
    BY <1>2, <1>3, <1>9, <2>1
<1> HIDE DEF Reads
<1>10. CASE Next
  <2>1. \/ \E r \in Runners : \/ RunnerStep(r) \/ StopService(r) \/ Crash(r)
                             \/ (\E t \in Tasks, kind \in Kinds : ReceiveWakeup(r, t, kind))
                             \/ \E res \in {"ok", "error"} : SupervisorReturns(r, res)
        \/ \E a \in issued, s \in Terminal \cup {"input_required"}, asked \in SUBSET Keys :
             AuthorityCommits(a, s, asked)
        \/ \E p \in Clients :
             \/ ClientUpdates(p) \/ ClientCancels(p) \/ ClientConfirms(p)
             \/ \E t \in Tasks : \/ ClientCreates(p, t) \/ ClientReadsForCancel(p, t)
                               \/ \E keys \in SUBSET Keys : ClientReadsForUpdate(p, t, keys)
        \/ \E t \in Tasks : LeaseRunsOut(t) \/ TaskAges(t)
    BY <1>10 DEF Next
  <2>2. Plain \/ Reads(c)
    BY <1>1, <1>5, <1>6, <1>7, <1>9, <2>1
  <2> QED
    BY <2>2 DEF Plain, Reads
<1>11. CASE UNCHANGED vars
  BY <1>1, <1>8, <1>11 DEF Plain
<1> QED
  BY <1>10, <1>11

\* RoundsOK is inductive on top of IInv.
LEMMA RoundsStay ==
  ASSUME IInv, RoundsOK, [Next]_vars
  PROVE  RoundsOK' /\ AllStep
<1>1. IInv' /\ AllStep
  BY StepInv, StepRounds
<1>2. ASSUME NEW c \in Clients PROVE Reading(client'[c], store')
  <2>1. client[c] \in ClientStates /\ ReqOK(client[c], store) /\ Reading(client[c], store)
    BY DEF IInv, TypeOK, RoundsOK
  <2>2. CASE client'[c] = client[c]
    BY <1>1, <2>1, <2>2, ReadingStays
  <2>3. CASE ~(client'[c].pc = "commit" /\ client'[c].op = "update")
    BY <2>3 DEF Reading
  <2>4. ASSUME NEW t \in Tasks, NEW keys \in SUBSET Keys, ClientReadsForUpdate(c, t, keys)
        PROVE  Reading(client'[c], store')
    <3> DEFINE x == Current(t)
               d == client'[c]
    <3>1. /\ d.task = t /\ d.gen = x.gen /\ d.keys = keys /\ d.asked = x.asked \ keys
          /\ d.status = IF keys = x.asked THEN "working" ELSE "input_required"
          /\ keys # {} /\ keys \subseteq x.asked
      BY <2>4 DEF ClientReadsForUpdate, IInv, TypeOK
    <3>2. store'[t] = x
      BY <2>4 DEF ClientReadsForUpdate, Read, Apply
    <3> HIDE DEF x, d
    <3>3. /\ d.keys \cap d.asked = {} /\ x.asked = d.asked \cup d.keys
          /\ d.status = IF d.asked = {} THEN "working" ELSE "input_required"
      BY <3>1
    <3>4. Reading(d, store')
      BY <3>1, <3>2, <3>3 DEF Reading
    <3> QED
      BY <3>4 DEF d
  <2> QED
    BY <2>2, <2>3, <2>4, ClientMoves
<1>3. \A t \in Tasks : RoundInv(store'[t])
  BY <1>1 DEF AllStep, RoundStep
<1> QED
  BY <1>1, <1>2, <1>3 DEF RoundsOK

\* The stored tasks implement TaskLifecycle: over all interleavings of clients,
\* runners, crashes, expiries and stale authorities a client sees every answer
\* kept until the worker resumes, outcomes that are final, and a recorded
\* cancellation that ends in nothing but "cancelled".
THEOREM ImplementsLifecycle == Spec => RefinesLifecycle
<1>1. Init => Lifecycle!Init /\ RoundsOK
  <2> SUFFICES ASSUME Init PROVE Lifecycle!Init /\ RoundsOK
    OBVIOUS
  <2>1. \A t \in Tasks : store[t] = Missing("absent", 0)
    BY DEF Init
  <2>2. \A t \in Tasks : Life(t) = Lifecycle!Fresh
    <3> TAKE t \in Tasks
    <3>1. /\ store[t].status = "absent" /\ store[t].cancel = FALSE /\ store[t].asked = {}
          /\ store[t].accepted = {} /\ store[t].history = {}
      BY <2>1 DEF Missing
    <3> QED
      BY <3>1, Zenon DEF Life, Lifecycle!Fresh
  <2>3. \A t \in Tasks : RoundInv(store[t])
    BY <2>1 DEF RoundInv, Missing
  <2>4. \A c \in Clients : Reading(client[c], store)
    BY DEF Init, Reading, NoRequest
  <2> QED
    BY <2>2, <2>3, <2>4 DEF Lifecycle!Init, RoundsOK
<1>2. IInv /\ RoundsOK /\ [Next]_vars => RoundsOK' /\ [Lifecycle!Next]_([t \in Tasks |-> Life(t)])
  <2> SUFFICES ASSUME IInv, RoundsOK, [Next]_vars PROVE RoundsOK' /\ Lifecycle!Next
    OBVIOUS
  <2>1. RoundsOK' /\ AllStep
    BY RoundsStay
  <2>2. \A t \in Tasks : Life(t) = LifeOf(store[t]) /\ Life(t)' = LifeOf(store'[t])
    BY DEF Life, LifeOf
  <2>3. \A t \in Tasks : Life(t)' = Life(t) \/ Lifecycle!Step(Life(t), Life(t)')
    BY <2>1, <2>2 DEF AllStep, RoundStep
  <2> QED
    BY <2>1, <2>3 DEF Lifecycle!Next
<1> QED
  BY <1>1, <1>2, Invariance, PTL DEF Spec, RefinesLifecycle, Lifecycle!Spec
=============================================================================
