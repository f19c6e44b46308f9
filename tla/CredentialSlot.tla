---------------------------- MODULE CredentialSlot ----------------------------
(***************************************************************************)
(* Custody of one protected credential across crashes: SecureAtomicFile    *)
(* (an owner-private file replaced by rename and directory sync),          *)
(* DurableCredentialSlot (generations, tombstones, exact recovery) and     *)
(* CoordinatedCredentialSlot (prepare anchor -> commit file -> settle      *)
(* anchor -> deliver), all under fastmcp-client/src/http_auth/secure_file. *)
(*                                                                         *)
(* The file lock admits one handle at a time, so the model has one owner   *)
(* that closes, crashes and reopens.  A revision is (generation, SHA-256   *)
(* of the record); it is modelled by the record itself.  The anchor is the *)
(* deployment's linearizable store, known here only through the trait      *)
(* CredentialCommitAnchor.  A dispatched compare-exchange may be applied   *)
(* at any later time or never, also after its sender crashed.              *)
(***************************************************************************)
EXTENDS Integers, FiniteSets

CONSTANTS
  Payloads,     \* protected payloads
  Tomb,         \* a record without a payload
  MaxGen,       \* u64::MAX of the generation counter
  MaxSeq,       \* u64::MAX of the anchor's sequence
  MaxRestores   \* how often a backup of the data file may be restored

ASSUME PayloadAssumption == Tomb \notin Payloads /\ Payloads \cap {"load", "take", "invalidate"} = {}
ASSUME BoundAssumption == MaxGen \in Nat /\ MaxSeq \in Nat /\ MaxRestores \in Nat

Records == [gen : 0..MaxGen, payload : Payloads \cup {Tomb}]

\* An absent file; generation zero is no valid record.
Absent == [gen |-> 0, payload |-> Tomb]

Stable(rec) == [kind |-> "stable", prev |-> rec, prop |-> rec]
Pending(from, to) == [kind |-> "pending", prev |-> from, prop |-> to]
AnchorStates == [kind : {"stable", "pending"}, prev : Records, prop : Records]
Snapshots == [seq : 0..MaxSeq, state : AnchorStates]
Intents == [from : Snapshots, to : AnchorStates]
Ops == {"load", "take", "invalidate"} \cup Payloads

VARIABLES
  file,      \* the record the directory entry names
  durable,   \* the record a power loss would leave
  anchor,    \* the anchor's linearized snapshot
  sent,      \* compare-exchanges dispatched and still able to apply
  pc,        \* where the owner is
  op,        \* the operation it runs
  current,   \* DurableCredentialSlot.current
  snapshot,  \* CoordinatedCredentialSlot.snapshot
  proposed,  \* the record of the prepared mutation
  takes,     \* takes[g]: payloads of generation g delivered by take
  loaded,    \* the record the last load returned, Absent if none
  past,      \* every record the file ever held: what a backup may contain
  restores

disk == <<file, durable, past, restores>>
remote == <<anchor, sent>>
handle == <<op, current, snapshot, proposed>>
out == <<takes, loaded>>
vars == <<disk, remote, pc, handle, out>>

Opening == {"opened", "read", "recovered", "recovering"}
Committing == {"prepared", "anchoring", "anchored", "renamed", "synced", "settling", "settled"}

\* Types: the file, its durable copy, the anchor and the transaction.
TypeOK ==
  /\ file \in Records /\ durable \in Records
  /\ anchor \in Snapshots
  /\ sent \in SUBSET Intents
  /\ pc \in {"closed", "idle", "admitted", "quarantined"} \cup Opening \cup Committing
  /\ op \in Ops
  /\ current \in Records
  /\ snapshot \in Snapshots
  /\ proposed \in Records
  /\ takes \in [0..MaxGen -> Nat]
  /\ loaded \in Records
  /\ past \in SUBSET Records
  /\ restores \in 0..MaxRestores

\* An explicitly provisioned empty slot.
Init ==
  /\ file = Absent /\ durable = Absent
  /\ anchor = [seq |-> 0, state |-> Stable(Absent)]
  /\ sent = {}
  /\ pc = "closed"
  /\ op = "load"
  /\ current = Absent
  /\ snapshot = anchor
  /\ proposed = Absent
  /\ takes = [g \in 0..MaxGen |-> 0]
  /\ loaded = Absent
  /\ past = {Absent}
  /\ restores = 0

-----------------------------------------------------------------------------
(* The anchor (external) and the requests the owner sends it. *)

\* The provider compares the complete snapshot and advances the sequence by
\* one.  Every other request in flight compares against an older snapshot and
\* can no longer apply.
AnchorApply ==
  \E r \in sent :
    /\ r.from = anchor
    /\ anchor' = [seq |-> anchor.seq + 1, state |-> r.to]
    /\ sent' = {}
    /\ UNCHANGED <<disk, pc, handle, out>>

\* transition(): dispatch a compare-exchange from the owner's snapshot.
Dispatch(to, waiting) ==
  /\ snapshot.seq + 1 <= MaxSeq
  /\ sent' = sent \cup {[from |-> snapshot, to |-> to]}
  /\ pc' = waiting
  /\ UNCHANGED <<disk, anchor, handle, out>>

\* A successful, validated response: exactly the requested state, one further.
Confirmed(to) == anchor = [seq |-> snapshot.seq + 1, state |-> to]

Accept(to, where) ==
  /\ Confirmed(to)
  /\ snapshot' = anchor
  /\ pc' = where
  /\ UNCHANGED <<disk, remote, op, current, proposed, out>>

\* Drop of the handle: its fields are gone, the lock is released.
Forget ==
  /\ pc' = "closed"
  /\ op' = "load"
  /\ current' = Absent /\ proposed' = Absent
  /\ snapshot' = [seq |-> 0, state |-> Stable(Absent)]
  /\ loaded' = Absent

Quarantine ==
  /\ pc' = "quarantined"
  /\ UNCHANGED <<disk, remote, handle, out>>

-----------------------------------------------------------------------------
(* Opening and recovery. *)

\* SecureAtomicFile::open synchronizes the directory before the first read.
OpenFile ==
  /\ pc = "closed"
  /\ pc' = "opened"
  /\ durable' = file
  /\ UNCHANGED <<file, past, restores, remote, handle, out>>

\* anchor.current(): the authoritative snapshot.
ReadAnchor ==
  /\ pc = "opened"
  /\ pc' = "read"
  /\ snapshot' = anchor
  /\ UNCHANGED <<disk, remote, op, current, proposed, out>>

\* Faulty variant: open adopts whatever the file holds.
OpenAdopting ==
  /\ pc = "read"
  /\ snapshot.state.kind = "stable"
  /\ pc' = "idle"
  /\ current' = file
  /\ UNCHANGED <<disk, remote, op, snapshot, proposed, out>>

\* DurableCredentialSlot::open admits only the exact trusted revision.
OpenStable ==
  /\ pc = "read"
  /\ snapshot.state.kind = "stable"
  /\ file = snapshot.state.prev
  /\ pc' = "idle"
  /\ current' = file
  /\ UNCHANGED <<disk, remote, op, snapshot, proposed, out>>

\* Faulty variant: recovery assumes that the proposed record won.
RecoverProposed ==
  /\ pc = "read"
  /\ snapshot.state.kind = "pending"
  /\ file \in {snapshot.state.prop, snapshot.state.prev}
  /\ pc' = "recovered"
  /\ current' = snapshot.state.prop
  /\ durable' = file
  /\ UNCHANGED <<file, past, restores, remote, op, snapshot, proposed, out>>

\* Faulty variant: recovery hands the retired payload out once more.
RecoverRedelivering ==
  /\ pc = "read"
  /\ snapshot.state.kind = "pending"
  /\ file \in {snapshot.state.prop, snapshot.state.prev}
  /\ pc' = "recovered"
  /\ current' = file
  /\ durable' = file
  /\ takes' = IF file = snapshot.state.prop THEN [takes EXCEPT ![file.gen - 1] = @ + 1] ELSE takes
  /\ UNCHANGED <<file, past, restores, remote, op, snapshot, proposed, loaded>>

\* DurableCredentialSlot::recover: the old or the proposed record, nothing
\* else, made durable before the outcome is declared.
Recover ==
  /\ pc = "read"
  /\ snapshot.state.kind = "pending"
  /\ file \in {snapshot.state.prop, snapshot.state.prev}
  /\ pc' = "recovered"
  /\ current' = file
  /\ durable' = file
  /\ UNCHANGED <<file, past, restores, remote, op, snapshot, proposed, out>>

SettleRecovery == pc = "recovered" /\ Dispatch(Stable(current), "recovering")

RecoverySettled == pc = "recovering" /\ Accept(Stable(current), "idle")

\* Every error of open drops the handle: a foreign revision, a provider
\* failure, an exhausted sequence, cancellation.
OpenFails ==
  /\ pc \in Opening
  /\ Forget
  /\ UNCHANGED <<disk, remote, takes>>

-----------------------------------------------------------------------------
(* Operations of an open handle. *)

\* admit(): a fresh anchor read that must equal the retained snapshot.
Admit(o) ==
  /\ pc = "idle"
  /\ IF anchor = snapshot
       THEN /\ pc' = "admitted" /\ op' = o /\ loaded' = Absent
            /\ UNCHANGED <<disk, remote, current, snapshot, proposed, takes>>
       ELSE Quarantine

\* A provider failure quarantines even an unchanged handle.
AdmitFails == pc = "idle" /\ Quarantine

\* Faulty variant: load returns what the file holds.
LoadUnchecked ==
  /\ pc = "admitted" /\ op = "load"
  /\ pc' = "idle" /\ loaded' = file
  /\ UNCHANGED <<disk, remote, handle, takes>>

\* load(): the file must still be the trusted revision.
Load ==
  /\ pc = "admitted" /\ op = "load"
  /\ IF file = current
       THEN /\ pc' = "idle" /\ loaded' = file
            /\ UNCHANGED <<disk, remote, handle, takes>>
       ELSE Quarantine

\* Faulty variant: the generation counter wraps around.
NextGenerationUnchecked(payload) ==
  /\ proposed' = [gen |-> current.gen + 1, payload |-> payload]
  /\ pc' = "prepared"

\* next_generation and prepare(): the record of the mutation.
NextGeneration(payload) ==
  /\ current.gen < MaxGen
  /\ proposed' = [gen |-> current.gen + 1, payload |-> payload]
  /\ pc' = "prepared"

PrepareReplace ==
  /\ pc = "admitted" /\ op \in Payloads
  /\ file = current
  /\ NextGeneration(op)
  /\ UNCHANGED <<disk, remote, op, current, snapshot, out>>

\* prepare_take keeps the payload inside the mutation.
PrepareTake ==
  /\ pc = "admitted" /\ op = "take"
  /\ file = current /\ current.payload # Tomb
  /\ NextGeneration(Tomb)
  /\ UNCHANGED <<disk, remote, op, current, snapshot, out>>

\* invalidate(): a tombstone, also for an absent slot; a tombstone is kept.
Invalidate ==
  /\ pc = "admitted" /\ op = "invalidate"
  /\ \/ file # current /\ Quarantine
     \/ /\ file = current /\ current # Absent /\ current.payload = Tomb
        /\ pc' = "idle"
        /\ UNCHANGED <<disk, remote, handle, out>>
     \/ /\ file = current /\ (current = Absent \/ current.payload # Tomb)
        /\ NextGeneration(Tomb)
        /\ UNCHANGED <<disk, remote, op, current, snapshot, out>>

\* Any other error of the read behind load and invalidate quarantines too.
ReadFails == pc = "admitted" /\ op \in {"load", "invalidate"} /\ Quarantine

\* An error before any effect: wrong expected revision, oversized or missing
\* payload, exhausted generation or sequence, cancellation.  The handle stays
\* usable.
Refuse ==
  /\ pc \in {"admitted", "prepared"}
  /\ pc' = "idle"
  /\ UNCHANGED <<disk, remote, handle, out>>

-----------------------------------------------------------------------------
(* CoordinatedCredentialSlot::commit. *)

\* Faulty variant: only the first increment is reserved.
AnchorIntentUnreserved ==
  /\ pc = "prepared"
  /\ Dispatch(Pending(current, proposed), "anchoring")

\* Both sequence increments are reserved before any effect.
AnchorIntent ==
  /\ pc = "prepared"
  /\ snapshot.seq + 2 <= MaxSeq
  /\ Dispatch(Pending(current, proposed), "anchoring")

IntentAnchored == pc = "anchoring" /\ Accept(Pending(current, proposed), "anchored")

\* SecureAtomicFile::replace up to the rename, against the expected version.
Rename ==
  /\ pc = "anchored"
  /\ file = current
  /\ pc' = "renamed"
  /\ file' = proposed
  /\ past' = past \cup {proposed}
  /\ UNCHANGED <<durable, restores, remote, handle, out>>

\* Faulty variant: the rename is not followed by a directory sync.
SyncSkipped ==
  /\ pc = "renamed"
  /\ pc' = "synced" /\ current' = proposed
  /\ UNCHANGED <<disk, remote, op, snapshot, proposed, out>>

\* The directory sync decides durability; the payload stays in the mutation.
Sync ==
  /\ pc = "renamed"
  /\ durable' = file
  /\ pc' = "synced" /\ current' = proposed
  /\ UNCHANGED <<file, past, restores, remote, op, snapshot, proposed, out>>

\* CommitUncertain: the rename may or may not have become durable.
SyncFails ==
  /\ pc = "renamed"
  /\ durable' \in {durable, file}
  /\ pc' = "quarantined"
  /\ UNCHANGED <<file, past, restores, remote, handle, out>>

SettleCommit == pc = "synced" /\ Dispatch(Stable(current), "settling")

CommitSettled == pc = "settling" /\ Accept(Stable(current), "settled")

\* Any error after the intent was sent leaves the handle quarantined.
CommitFails ==
  /\ pc \in {"anchoring", "anchored", "synced", "settling"}
  /\ Quarantine

\* The settled take hands out its payload.
Deliver ==
  /\ pc = "settled"
  /\ pc' = "idle"
  /\ takes' = IF op = "take" THEN [takes EXCEPT ![current.gen - 1] = @ + 1] ELSE takes
  /\ UNCHANGED <<disk, remote, handle, loaded>>

\* CommittedWithoutDelivery: cancelled after settlement.
WithoutDelivery ==
  /\ pc = "settled"
  /\ pc' = "idle"
  /\ UNCHANGED <<disk, remote, handle, out>>

-----------------------------------------------------------------------------
(* Faults. *)

\* The process dies or drops the handle; the file stays as it is.
Close ==
  /\ pc # "closed"
  /\ Forget
  /\ UNCHANGED <<disk, remote, takes>>

\* Power loss may undo a rename that was not synchronized.
PowerLoss ==
  /\ file' \in {file, durable}
  /\ durable' = file'
  /\ Forget
  /\ UNCHANGED <<past, restores, remote, takes>>

\* Somebody restores a backup of the data file, not of the anchor.
RestoreBackup ==
  /\ restores < MaxRestores
  /\ restores' = restores + 1
  /\ file' \in past
  /\ durable' = file'
  /\ UNCHANGED <<past, remote, pc, handle, out>>

Next ==
  \/ AnchorApply
  \/ OpenFile \/ ReadAnchor \/ OpenStable \/ Recover \/ SettleRecovery
  \/ RecoverySettled \/ OpenFails
  \/ \E o \in Ops : Admit(o)
  \/ AdmitFails \/ Load \/ ReadFails \/ PrepareReplace \/ PrepareTake \/ Invalidate \/ Refuse
  \/ AnchorIntent \/ IntentAnchored \/ Rename \/ Sync \/ SyncFails
  \/ SettleCommit \/ CommitSettled \/ CommitFails \/ Deliver \/ WithoutDelivery
  \/ Close \/ PowerLoss \/ RestoreBackup

Spec == Init /\ [][Next]_vars

-----------------------------------------------------------------------------
(* Properties. *)

\* "Restart reconciles exactly the old/proposed record and never redelivers a
\* take": over all crashes, late anchor answers and restored backups, the
\* payload of a generation is handed out by take at most once.
TakeAtMostOnce == \A g \in 0..MaxGen : takes[g] <= 1

\* A consumed credential is never readable again: load returns a generation
\* newer than every generation a take has handed out.
NoReadAfterTake ==
  [][loaded' # loaded /\ loaded' # Absent =>
       \A g \in 0..MaxGen : takes[g] > 0 => g < loaded'.gen]_vars

\* "A pending state must never be stranded merely because its settlement
\* cannot increment" the sequence.
PendingCanSettle == anchor.state.kind = "pending" => anchor.seq < MaxSeq

\* Without a restored backup the anchor always names what the file holds, on
\* disk and in the page cache, so reopening never meets a foreign revision,
\* whatever crash or late compare-exchange came before.
FileMatchesAnchor ==
  restores = 0 =>
    IF anchor.state.kind = "stable"
      THEN file = anchor.state.prev /\ durable = anchor.state.prev
      ELSE {file, durable} \subseteq {anchor.state.prev, anchor.state.prop}

\* The settled generation never goes back: neither recovery nor a late
\* compare-exchange revives a credential that was replaced or retired.
NoRollback == [][anchor'.state.prev.gen >= anchor.state.prev.gen]_vars

\* Until somebody restores a backup the transaction refines atomic custody: the
\* cell is what a power loss would leave, and the payload of a take is outside
\* the cell from the directory sync until it is delivered or dropped.
Custody == INSTANCE CredentialCustody WITH
  cell <- durable,
  handoff <- IF pc \in {"synced", "settling", "settled"} /\ op = "take"
               THEN {current.gen - 1} ELSE {}

RefinesCustody ==
  Custody!Init /\ [][restores' = 0 => [Custody!Next]_(Custody!vars)]_vars

\* What a crash leaves behind can be brought to an end: the types hold, a
\* pending intent has a sequence number left to settle with, and the anchor
\* names what the file holds (the coordinator's recovery and commit).
AnchorIsSound == TypeOK /\ PendingCanSettle /\ FileMatchesAnchor

\* Time runs one way for a credential, through crashes and restored backups: a
\* taken one is never read again, a settled generation is never rolled back.
NeverGoesBack == NoReadAfterTake /\ NoRollback
===============================================================================
