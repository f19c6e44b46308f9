------------------------- MODULE CredentialSlot_proofs -------------------------
(***************************************************************************)
(* Proofs about CredentialSlot, for any payloads, limits and number of     *)
(* restored backups.                                                       *)
(*                                                                         *)
(* The argument: the anchor moves only along Step, so its floor (the       *)
(* generation of the revision it settled last) never falls.  A handle      *)
(* that has read the anchor knows a floor that is not above the anchor's   *)
(* and above every generation taken so far; a take retires the generation  *)
(* at that floor and is delivered only once the floor has passed it.       *)
(***************************************************************************)
EXTENDS CredentialSlot, TLAPS

Floor(s) == s.state.prev.gen

\* The two transitions a compare-exchange may ask for.
Step(s, t) ==
  \/ /\ s.kind = "stable" /\ t.kind = "pending"
     /\ t.prev = s.prev /\ t.prop.gen = t.prev.gen + 1
  \/ /\ s.kind = "pending" /\ t.kind = "stable"
     /\ t = Stable(t.prev) /\ t.prev \in {s.prev, s.prop}

WellFormed(s) ==
  /\ s.kind = "pending" => s.prop.gen = s.prev.gen + 1
  /\ s.kind = "stable" => s = Stable(s.prev)

\* Every request in flight is such a step and fits the sequence.
RequestsInv ==
  \A r \in sent :
    /\ Step(r.from.state, r.to)
    /\ r.from.seq + 1 <= MaxSeq
    /\ r.to.kind = "pending" => r.from.seq + 2 <= MaxSeq

AnchorInv ==
  /\ WellFormed(anchor.state) /\ WellFormed(snapshot.state)
  /\ Floor(snapshot) <= Floor(anchor)

\* What the owner knows at each point of open and commit.
OwnerInv ==
  /\ pc \in {"idle", "admitted", "prepared", "anchoring", "settled"} =>
       snapshot.state = Stable(current)
  /\ pc \in {"prepared", "anchoring", "anchored", "renamed"} =>
       proposed.gen = current.gen + 1
  /\ pc \in {"anchored", "renamed"} => snapshot.state = Pending(current, proposed)
  /\ pc \in {"synced", "settling"} =>
       snapshot.state.kind = "pending" /\ snapshot.state.prop = current
  /\ pc \in {"recovered", "recovering"} =>
       snapshot.state.kind = "pending" /\ current \in {snapshot.state.prev, snapshot.state.prop}
  /\ pc = "settled" => current.gen >= 1 /\ takes[current.gen - 1] = 0

\* Taken generations are below the anchor's floor, and below the floor the
\* owner has seen.
TakenInv ==
  \A g \in 0..MaxGen : takes[g] > 0 =>
    /\ g < Floor(anchor)
    /\ pc \notin {"closed", "opened"} => g < Floor(snapshot)

IInv ==
  /\ TypeOK /\ RequestsInv /\ AnchorInv /\ OwnerInv /\ TakenInv
  /\ TakeAtMostOnce /\ PendingCanSettle

-----------------------------------------------------------------------------
(* Facts about the sets of records. *)

LEMMA StateTypes ==
  ASSUME NEW a \in Records, NEW b \in Records, a.gen \in 0..MaxGen
  PROVE  /\ Stable(a) \in AnchorStates /\ Pending(a, b) \in AnchorStates
         /\ Stable(a).kind = "stable" /\ Stable(a).prev = a /\ Stable(a).prop = a
         /\ Pending(a, b).kind = "pending" /\ Pending(a, b).prev = a /\ Pending(a, b).prop = b
BY DEF AnchorStates, Stable, Pending

LEMMA RecordTypes ==
  /\ Absent \in Records /\ Absent.gen = 0
  /\ \A rec \in Records : rec.gen \in 0..MaxGen
  /\ \A s \in AnchorStates : s.kind \in {"stable", "pending"} /\ s.prev \in Records /\ s.prop \in Records
  /\ \A s \in Snapshots : s.seq \in 0..MaxSeq /\ s.state \in AnchorStates
  /\ \A r \in Intents : r.from \in Snapshots /\ r.to \in AnchorStates
BY BoundAssumption DEF Absent, Records, AnchorStates, Snapshots, Intents

\* Along a step the floor does not fall.
LEMMA StepFloor ==
  ASSUME NEW s \in AnchorStates, NEW t \in AnchorStates, WellFormed(s), Step(s, t)
  PROVE  s.prev.gen <= t.prev.gen /\ WellFormed(t)
BY RecordTypes DEF Step, WellFormed

-----------------------------------------------------------------------------
(* Steps that several actions share. *)

\* Dropping the handle.
LEMMA ForgetIInv ==
  ASSUME IInv, Forget, file' \in Records, durable' \in Records,
         UNCHANGED <<past, restores, remote, takes>>
  PROVE  IInv'
<1> USE DEF IInv
<1> DEFINE fresh == [seq |-> 0, state |-> Stable(Absent)]
<1>1. Stable(Absent) \in AnchorStates /\ Stable(Absent).kind = "stable" /\ Stable(Absent).prev = Absent
  BY StateTypes, RecordTypes
<1>2. fresh \in Snapshots /\ fresh.state = Stable(Absent)
  BY <1>1, BoundAssumption DEF Snapshots
<1>3. TypeOK'
  BY <1>2, RecordTypes DEF TypeOK, Forget, remote, Ops
<1>4. RequestsInv' /\ TakeAtMostOnce' /\ PendingCanSettle'
  BY DEF RequestsInv, TakeAtMostOnce, PendingCanSettle, remote
<1>5. snapshot' = fresh /\ pc' = "closed" /\ anchor' = anchor /\ takes' = takes
  BY DEF Forget, remote
<1>6. AnchorInv'
  <2>1. anchor.state.prev.gen \in 0..MaxGen
    BY RecordTypes DEF TypeOK
  <2> QED BY <1>1, <1>2, <1>5, <2>1, RecordTypes DEF AnchorInv, WellFormed, Floor
<1>7. OwnerInv'
  BY <1>5 DEF OwnerInv
<1>8. TakenInv'
  BY <1>5 DEF TakenInv
<1> QED BY <1>3, <1>4, <1>6, <1>7, <1>8

\* Losing trust in the handle.
LEMMA QuarantineIInv ==
  ASSUME IInv, Quarantine, pc \notin {"closed", "opened"}
  PROVE  IInv'
<1> USE DEF IInv
<1>1. pc' = "quarantined" /\ UNCHANGED <<anchor, sent, snapshot, takes>>
  BY DEF Quarantine, remote, handle, out
<1>2. TypeOK'
  BY DEF TypeOK, Quarantine, disk, remote, handle, out
<1>3. RequestsInv' /\ AnchorInv' /\ TakeAtMostOnce' /\ PendingCanSettle'
  BY <1>1 DEF RequestsInv, AnchorInv, TakeAtMostOnce, PendingCanSettle
<1>4. OwnerInv' /\ TakenInv'
  BY <1>1 DEF OwnerInv, TakenInv
<1> QED BY <1>2, <1>3, <1>4

\* Sending a request that is a step from the owner's snapshot.
LEMMA DispatchIInv ==
  ASSUME IInv, NEW to \in AnchorStates, NEW w \in {"recovering", "anchoring", "settling"},
         Dispatch(to, w), Step(snapshot.state, to),
         to.kind = "pending" => snapshot.seq + 2 <= MaxSeq
  PROVE  /\ TypeOK' /\ RequestsInv' /\ AnchorInv' /\ TakeAtMostOnce' /\ PendingCanSettle'
         /\ pc' = w /\ UNCHANGED <<current, snapshot, proposed, takes, anchor>>
<1> USE DEF IInv
<1> DEFINE req == [from |-> snapshot, to |-> to]
<1>1. /\ sent' = sent \cup {req} /\ pc' = w /\ snapshot.seq + 1 <= MaxSeq
      /\ UNCHANGED <<disk, anchor, handle, out>>
  BY DEF Dispatch
<1>2. UNCHANGED <<current, snapshot, proposed, takes, anchor>>
  BY <1>1 DEF handle, out
<1>3. req \in Intents /\ req.from = snapshot /\ req.to = to
  BY DEF Intents, TypeOK
<1>4. TypeOK'
  <2>1. sent' \in SUBSET Intents
    BY <1>1, <1>3 DEF TypeOK
  <2>2. pc' \in {"closed", "idle", "admitted", "quarantined"} \cup Opening \cup Committing
    BY <1>1 DEF Opening, Committing
  <2> QED BY <1>1, <2>1, <2>2 DEF TypeOK, disk, handle, out
<1>5. RequestsInv'
  <2> SUFFICES ASSUME NEW r \in sent'
               PROVE  /\ Step(r.from.state, r.to)
                      /\ r.from.seq + 1 <= MaxSeq
                      /\ r.to.kind = "pending" => r.from.seq + 2 <= MaxSeq
    BY DEF RequestsInv
  <2>1. CASE r \in sent
    BY <2>1 DEF RequestsInv
  <2>2. CASE r = req
    BY <2>2, <1>1, <1>3
  <2> QED BY <1>1, <2>1, <2>2
<1>6. AnchorInv' /\ TakeAtMostOnce' /\ PendingCanSettle'
  BY <1>2 DEF AnchorInv, TakeAtMostOnce, PendingCanSettle
<1> QED BY <1>1, <1>2, <1>4, <1>5, <1>6

\* Accepting a validated answer: the snapshot becomes the anchor's.
LEMMA AcceptIInv ==
  ASSUME IInv, NEW to, NEW w \in {"idle", "anchored", "settled"},
         Accept(to, w)
  PROVE  /\ TypeOK' /\ RequestsInv' /\ AnchorInv' /\ TakenInv'
         /\ TakeAtMostOnce' /\ PendingCanSettle'
         /\ pc' = w /\ snapshot'.state = to /\ UNCHANGED <<current, proposed, takes>>
<1> USE DEF IInv
<1>1. /\ snapshot' = anchor /\ pc' = w /\ anchor' = anchor /\ sent' = sent
      /\ takes' = takes /\ current' = current /\ proposed' = proposed
      /\ op' = op /\ UNCHANGED <<disk, loaded>>
  BY DEF Accept, remote, out
<1>2. anchor.state = to
  BY DEF Accept, Confirmed
<1>3. TypeOK'
  <2>1. w \in {"closed", "idle", "admitted", "quarantined"} \cup Opening \cup Committing
    BY DEF Opening, Committing
  <2> QED BY <1>1, <2>1 DEF TypeOK, disk
<1>4. RequestsInv' /\ TakeAtMostOnce' /\ PendingCanSettle'
  BY <1>1 DEF RequestsInv, TakeAtMostOnce, PendingCanSettle
<1>5. AnchorInv'
  <2>1. anchor.state.prev.gen \in 0..MaxGen
    BY RecordTypes DEF TypeOK
  <2> QED BY <1>1, <2>1 DEF AnchorInv, Floor
<1>6. TakenInv'
  BY <1>1 DEF TakenInv, Floor
<1> QED BY <1>1, <1>2, <1>3, <1>4, <1>5, <1>6

\* Steps of the owner that touch neither the anchor, nor the requests, nor
\* what was taken, and leave the snapshot alone.
LEMMA LocalIInv ==
  ASSUME IInv, UNCHANGED <<remote, snapshot, takes>>, TypeOK', OwnerInv',
         pc \notin {"closed", "opened"}
  PROVE  IInv'
<1> USE DEF IInv
<1>1. UNCHANGED <<anchor, sent, snapshot, takes>>
  BY DEF remote
<1>2. RequestsInv' /\ AnchorInv' /\ TakeAtMostOnce' /\ PendingCanSettle' /\ TakenInv'
  BY <1>1 DEF RequestsInv, AnchorInv, TakeAtMostOnce, PendingCanSettle, TakenInv
<1> QED BY <1>2
-----------------------------------------------------------------------------
(* The inductive invariant. *)

LEMMA InitIInv == Init => IInv
<1> SUFFICES ASSUME Init PROVE IInv
  OBVIOUS
<1> USE DEF Init
<1>1. Stable(Absent) \in AnchorStates /\ Stable(Absent).kind = "stable" /\ Stable(Absent).prev = Absent
  BY StateTypes, RecordTypes
<1>2. anchor \in Snapshots /\ anchor.state = Stable(Absent) /\ snapshot = anchor
  BY <1>1, BoundAssumption DEF Snapshots
<1>3. TypeOK
  BY <1>2, RecordTypes, BoundAssumption DEF TypeOK, Ops
<1>4. RequestsInv /\ OwnerInv /\ TakenInv /\ TakeAtMostOnce
  BY DEF RequestsInv, OwnerInv, TakenInv, TakeAtMostOnce
<1>5. AnchorInv /\ PendingCanSettle
  BY <1>1, <1>2, RecordTypes DEF AnchorInv, PendingCanSettle, WellFormed, Floor
<1> QED BY <1>3, <1>4, <1>5 DEF IInv

\* The anchor applies a request.
LEMMA AnchorApplyIInv == ASSUME IInv, AnchorApply PROVE IInv' /\ Floor(anchor) <= Floor(anchor')
<1> USE DEF IInv
<1>1. PICK r \in sent : /\ r.from = anchor
                        /\ anchor' = [seq |-> anchor.seq + 1, state |-> r.to]
                        /\ sent' = {}
                        /\ UNCHANGED <<disk, pc, handle, out>>
  BY DEF AnchorApply
<1>2. r.to \in AnchorStates /\ anchor.state \in AnchorStates /\ anchor.seq \in 0..MaxSeq
  BY RecordTypes DEF TypeOK
<1>3. Step(anchor.state, r.to) /\ anchor.seq + 1 <= MaxSeq /\ (r.to.kind = "pending" => anchor.seq + 2 <= MaxSeq)
  BY <1>1 DEF RequestsInv
<1>4. anchor'.seq = anchor.seq + 1 /\ anchor'.state = r.to
  BY <1>1
<1>5. anchor.state.prev.gen <= r.to.prev.gen /\ WellFormed(r.to)
  BY <1>2, <1>3, StepFloor DEF AnchorInv
<1>6. UNCHANGED <<pc, op, current, snapshot, proposed, takes, loaded>>
  BY <1>1 DEF handle, out
<1>7. TypeOK'
  <2>1. anchor' \in Snapshots
    BY <1>1, <1>2, <1>3, BoundAssumption DEF Snapshots
  <2> QED BY <1>1, <1>6, <2>1 DEF TypeOK, disk
<1>8. RequestsInv' /\ TakeAtMostOnce' /\ OwnerInv'
  BY <1>1, <1>6 DEF RequestsInv, TakeAtMostOnce, OwnerInv
<1>9. PendingCanSettle'
  BY <1>2, <1>3, <1>4, BoundAssumption DEF PendingCanSettle
<1>10. Floor(anchor) <= Floor(anchor')
  BY <1>4, <1>5 DEF Floor
<1>11. Floor(snapshot) \in 0..MaxGen /\ Floor(anchor) \in 0..MaxGen /\ Floor(anchor') \in 0..MaxGen
  BY <1>2, <1>4, RecordTypes DEF TypeOK, Floor
<1>12. AnchorInv'
  BY <1>4, <1>5, <1>6, <1>10, <1>11 DEF AnchorInv, Floor
<1>13. TakenInv'
  BY <1>6, <1>10, <1>11 DEF TakenInv, Floor
<1> QED BY <1>7, <1>8, <1>9, <1>10, <1>12, <1>13

LEMMA NextIInv == IInv /\ [Next]_vars => IInv'
<1> SUFFICES ASSUME IInv, [Next]_vars PROVE IInv'
  OBVIOUS
<1>0. TypeOK /\ RequestsInv /\ AnchorInv /\ OwnerInv /\ TakenInv /\ TakeAtMostOnce /\ PendingCanSettle
  BY DEF IInv
<1>T. /\ current \in Records /\ snapshot.state \in AnchorStates
      /\ current.gen \in 0..MaxGen /\ snapshot.state.prev \in Records
      /\ snapshot.state.prev.gen \in 0..MaxGen /\ snapshot.seq \in 0..MaxSeq
  BY <1>0, RecordTypes DEF TypeOK
<1>1. CASE AnchorApply
  BY <1>1, AnchorApplyIInv
<1>2. CASE OpenFile
  <2>1. TypeOK' /\ OwnerInv'
    BY <1>0, <1>2 DEF OpenFile, TypeOK, OwnerInv, Opening, remote, handle, out
  <2>2. UNCHANGED <<anchor, sent, snapshot, takes>> /\ pc' = "opened"
    BY <1>2 DEF OpenFile, remote, handle, out
  <2>3. RequestsInv' /\ AnchorInv' /\ TakenInv' /\ TakeAtMostOnce' /\ PendingCanSettle'
    BY <1>0, <2>2 DEF RequestsInv, AnchorInv, TakenInv, TakeAtMostOnce, PendingCanSettle
  <2> QED BY <2>1, <2>3 DEF IInv
<1>3. CASE ReadAnchor
  <2>1. TypeOK' /\ OwnerInv'
    BY <1>0, <1>3 DEF ReadAnchor, TypeOK, OwnerInv, Opening, disk, remote, out
  <2>2. UNCHANGED <<anchor, sent, takes>> /\ snapshot' = anchor
    BY <1>3 DEF ReadAnchor, remote, out
  <2>3. RequestsInv' /\ TakeAtMostOnce' /\ PendingCanSettle'
    BY <1>0, <2>2 DEF RequestsInv, TakeAtMostOnce, PendingCanSettle
  <2>4. Floor(anchor) \in 0..MaxGen
    BY <1>0, RecordTypes DEF TypeOK, Floor
  <2>5. AnchorInv' /\ TakenInv'
    BY <1>0, <2>2, <2>4 DEF AnchorInv, TakenInv, Floor
  <2> QED BY <2>1, <2>3, <2>5 DEF IInv
<1>4. CASE OpenStable
  <2>1. TypeOK' /\ UNCHANGED <<remote, snapshot, takes>> /\ pc \notin {"closed", "opened"}
    BY <1>0, <1>4 DEF OpenStable, TypeOK, disk, remote, out
  <2>2. OwnerInv'
    BY <1>0, <1>4, <1>T DEF OpenStable, OwnerInv, AnchorInv, WellFormed
  <2> QED BY <2>1, <2>2, LocalIInv
<1>5. CASE Recover
  <2>1. TypeOK' /\ UNCHANGED <<remote, snapshot, takes>> /\ pc \notin {"closed", "opened"}
    BY <1>0, <1>5 DEF Recover, TypeOK, Opening, remote, out
  <2>2. OwnerInv'
    BY <1>0, <1>5 DEF Recover, OwnerInv
  <2> QED BY <2>1, <2>2, LocalIInv
<1>6. CASE SettleRecovery
  <2>1. Stable(current) \in AnchorStates /\ Stable(current).kind = "stable" /\ Stable(current).prev = current
    BY <1>T, StateTypes
  <2>2. pc = "recovered" /\ Dispatch(Stable(current), "recovering") /\ Step(snapshot.state, Stable(current))
    BY <1>0, <1>6, <2>1 DEF SettleRecovery, OwnerInv, Step
  <2>3. /\ TypeOK' /\ RequestsInv' /\ AnchorInv' /\ TakeAtMostOnce' /\ PendingCanSettle'
        /\ pc' = "recovering" /\ UNCHANGED <<current, snapshot, proposed, takes, anchor>>
    BY <2>1, <2>2, DispatchIInv
  <2>4. OwnerInv' /\ TakenInv'
    BY <1>0, <2>2, <2>3 DEF OwnerInv, TakenInv
  <2> QED BY <2>3, <2>4 DEF IInv
<1>7. CASE RecoverySettled
  <2>1. Accept(Stable(current), "idle")
    BY <1>7 DEF RecoverySettled
  <2>2. /\ TypeOK' /\ RequestsInv' /\ AnchorInv' /\ TakenInv' /\ TakeAtMostOnce' /\ PendingCanSettle'
        /\ pc' = "idle" /\ snapshot'.state = Stable(current) /\ UNCHANGED <<current, proposed, takes>>
    BY <2>1, AcceptIInv
  <2>3. OwnerInv'
    BY <2>2 DEF OwnerInv
  <2> QED BY <2>2, <2>3 DEF IInv
<1>8. CASE OpenFails
  BY <1>0, <1>8, ForgetIInv DEF OpenFails, disk, TypeOK
<1>9. CASE \E o \in Ops : Admit(o)
  <2>1. PICK o \in Ops : Admit(o)
    BY <1>9
  <2>2. CASE anchor = snapshot
    <3>1. TypeOK' /\ OwnerInv' /\ UNCHANGED <<remote, snapshot, takes>> /\ pc \notin {"closed", "opened"}
      BY <1>0, <2>1, <2>2, RecordTypes DEF Admit, TypeOK, OwnerInv, disk, remote
    <3> QED BY <3>1, LocalIInv
  <2>3. CASE anchor # snapshot
    BY <2>1, <2>3, QuarantineIInv DEF Admit
  <2> QED BY <2>2, <2>3
<1>10. CASE AdmitFails \/ ReadFails \/ CommitFails
  BY <1>10, QuarantineIInv DEF AdmitFails, ReadFails, CommitFails
<1>11. CASE Load
  <2>1. CASE file = current
    <3>1. TypeOK' /\ OwnerInv' /\ UNCHANGED <<remote, snapshot, takes>> /\ pc \notin {"closed", "opened"}
      BY <1>0, <1>11, <2>1 DEF Load, TypeOK, OwnerInv, disk, remote, handle
    <3> QED BY <3>1, LocalIInv
  <2>2. CASE file # current
    BY <1>11, <2>2, QuarantineIInv DEF Load
  <2> QED BY <2>1, <2>2
<1>12. ASSUME NEW p \in Payloads \cup {Tomb}, pc = "admitted", NextGeneration(p),
              UNCHANGED <<disk, remote, op, current, snapshot, out>>
       PROVE  IInv'
  <2>1. proposed' = [gen |-> current.gen + 1, payload |-> p] /\ current.gen < MaxGen /\ pc' = "prepared"
    BY <1>12 DEF NextGeneration
  <2>2. proposed' \in Records /\ proposed'.gen = current.gen + 1
    BY <1>T, <1>12, <2>1, BoundAssumption DEF Records
  <2>3. TypeOK'
    BY <1>0, <1>12, <2>1, <2>2 DEF TypeOK, Committing, disk, remote, out
  <2>4. OwnerInv'
    BY <1>0, <1>12, <2>1, <2>2 DEF OwnerInv
  <2> QED BY <1>12, <2>3, <2>4, LocalIInv DEF out
<1>13. CASE PrepareReplace
  BY <1>12, <1>13 DEF PrepareReplace
<1>14. CASE PrepareTake
  BY <1>12, <1>14 DEF PrepareTake
<1>15. CASE Invalidate
  <2>1. CASE Quarantine
    BY <1>15, <2>1, QuarantineIInv DEF Invalidate
  <2>2. CASE pc' = "idle" /\ UNCHANGED <<disk, remote, handle, out>>
    <3>1. TypeOK' /\ OwnerInv' /\ UNCHANGED <<remote, snapshot, takes>> /\ pc \notin {"closed", "opened"}
      BY <1>0, <1>15, <2>2 DEF Invalidate, TypeOK, OwnerInv, disk, remote, handle, out
    <3> QED BY <3>1, LocalIInv
  <2>3. CASE NextGeneration(Tomb) /\ UNCHANGED <<disk, remote, op, current, snapshot, out>>
    BY <1>12, <1>15, <2>3 DEF Invalidate
  <2> QED BY <1>15, <2>1, <2>2, <2>3 DEF Invalidate
<1>16. CASE Refuse \/ WithoutDelivery
  <2>1. TypeOK' /\ OwnerInv' /\ UNCHANGED <<remote, snapshot, takes>> /\ pc \notin {"closed", "opened"}
    BY <1>0, <1>16 DEF Refuse, WithoutDelivery, TypeOK, OwnerInv, disk, remote, handle, out
  <2> QED BY <2>1, LocalIInv
<1>17. CASE AnchorIntent
  <2>1. /\ pc = "prepared" /\ snapshot.seq + 2 <= MaxSeq
        /\ Dispatch(Pending(current, proposed), "anchoring") /\ proposed \in Records
    BY <1>0, <1>17 DEF AnchorIntent, TypeOK
  <2>2. /\ Pending(current, proposed) \in AnchorStates /\ Pending(current, proposed).kind = "pending"
        /\ Pending(current, proposed).prev = current /\ Pending(current, proposed).prop = proposed
        /\ Stable(current).kind = "stable" /\ Stable(current).prev = current
    BY <1>T, <2>1, StateTypes
  <2>3. Step(snapshot.state, Pending(current, proposed))
    BY <1>0, <2>1, <2>2 DEF OwnerInv, Step
  <2>4. /\ TypeOK' /\ RequestsInv' /\ AnchorInv' /\ TakeAtMostOnce' /\ PendingCanSettle'
        /\ pc' = "anchoring" /\ UNCHANGED <<current, snapshot, proposed, takes, anchor>>
    BY <2>1, <2>2, <2>3, DispatchIInv
  <2>5. OwnerInv' /\ TakenInv'
    BY <1>0, <2>1, <2>4 DEF OwnerInv, TakenInv
  <2> QED BY <2>4, <2>5 DEF IInv
<1>18. CASE IntentAnchored
  <2>1. pc = "anchoring" /\ Accept(Pending(current, proposed), "anchored")
    BY <1>18 DEF IntentAnchored
  <2>2. /\ TypeOK' /\ RequestsInv' /\ AnchorInv' /\ TakenInv' /\ TakeAtMostOnce' /\ PendingCanSettle'
        /\ pc' = "anchored" /\ snapshot'.state = Pending(current, proposed)
        /\ UNCHANGED <<current, proposed, takes>>
    BY <2>1, AcceptIInv
  <2>3. OwnerInv'
    BY <1>0, <2>1, <2>2 DEF OwnerInv
  <2> QED BY <2>2, <2>3 DEF IInv
<1>19. CASE Rename
  <2>1. TypeOK' /\ OwnerInv' /\ UNCHANGED <<remote, snapshot, takes>> /\ pc \notin {"closed", "opened"}
    BY <1>0, <1>19 DEF Rename, TypeOK, OwnerInv, Committing, remote, handle, out
  <2> QED BY <2>1, LocalIInv
<1>20. CASE Sync
  <2>1. TypeOK' /\ UNCHANGED <<remote, snapshot, takes>> /\ pc \notin {"closed", "opened"}
    BY <1>0, <1>20 DEF Sync, TypeOK, Committing, remote, out
  <2>2. Pending(current, proposed).kind = "pending" /\ Pending(current, proposed).prop = proposed
    BY DEF Pending
  <2>3. OwnerInv'
    BY <1>0, <1>20, <2>2 DEF Sync, OwnerInv
  <2> QED BY <2>1, <2>3, LocalIInv
<1>21. CASE SyncFails
  <2>1. TypeOK' /\ OwnerInv' /\ UNCHANGED <<remote, snapshot, takes>> /\ pc \notin {"closed", "opened"}
    BY <1>0, <1>21 DEF SyncFails, TypeOK, OwnerInv, remote, handle, out
  <2> QED BY <2>1, LocalIInv
<1>22. CASE SettleCommit
  <2>1. Stable(current) \in AnchorStates /\ Stable(current).kind = "stable" /\ Stable(current).prev = current
    BY <1>T, StateTypes
  <2>2. pc = "synced" /\ Dispatch(Stable(current), "settling") /\ Step(snapshot.state, Stable(current))
    BY <1>0, <1>22, <2>1 DEF SettleCommit, OwnerInv, Step
  <2>3. /\ TypeOK' /\ RequestsInv' /\ AnchorInv' /\ TakeAtMostOnce' /\ PendingCanSettle'
        /\ pc' = "settling" /\ UNCHANGED <<current, snapshot, proposed, takes, anchor>>
    BY <2>1, <2>2, DispatchIInv
  <2>4. OwnerInv' /\ TakenInv'
    BY <1>0, <2>2, <2>3 DEF OwnerInv, TakenInv
  <2> QED BY <2>3, <2>4 DEF IInv
<1>23. CASE CommitSettled
  <2>1. pc = "settling" /\ Accept(Stable(current), "settled")
    BY <1>23 DEF CommitSettled
  <2>2. /\ TypeOK' /\ RequestsInv' /\ AnchorInv' /\ TakenInv' /\ TakeAtMostOnce' /\ PendingCanSettle'
        /\ pc' = "settled" /\ snapshot'.state = Stable(current)
        /\ UNCHANGED <<current, proposed, takes>>
    BY <2>1, AcceptIInv
  <2>3. current.gen = Floor(snapshot) + 1
    BY <1>0, <2>1 DEF OwnerInv, AnchorInv, WellFormed, Floor
  <2>4. Floor(snapshot) \in 0..MaxGen /\ current.gen - 1 = Floor(snapshot) /\ current.gen >= 1
    BY <1>T, <2>3 DEF Floor
  <2>5. takes[Floor(snapshot)] = 0
    BY <1>0, <2>1, <2>4 DEF TakenInv, TypeOK
  <2>6. OwnerInv'
    BY <2>2, <2>4, <2>5 DEF OwnerInv
  <2> QED BY <2>2, <2>6 DEF IInv
<1>24. CASE Deliver
  <2>1. /\ pc = "settled" /\ pc' = "idle" /\ UNCHANGED <<file, durable, past, restores, anchor, sent>>
        /\ UNCHANGED <<op, current, snapshot, proposed, loaded>>
        /\ \/ takes' = takes
           \/ takes' = [takes EXCEPT ![current.gen - 1] = @ + 1]
    BY <1>24 DEF Deliver, disk, remote, handle
  <2>2. /\ current.gen - 1 \in 0..MaxGen /\ takes[current.gen - 1] = 0
        /\ snapshot.state = Stable(current) /\ takes \in [0..MaxGen -> Nat]
    BY <1>0, <1>T, <2>1, BoundAssumption DEF OwnerInv, TypeOK
  <2>3. Floor(snapshot) = current.gen
    BY <2>2 DEF Floor, Stable
  <2>4. /\ takes' \in [0..MaxGen -> Nat]
        /\ \A g \in 0..MaxGen : takes'[g] = takes[g] \/ (g = current.gen - 1 /\ takes'[g] = 1)
    <3> DEFINE h == current.gen - 1
    <3>1. h \in 0..MaxGen /\ takes[h] = 0
      BY <2>2
    <3>2. CASE takes' = takes
      BY <2>2, <3>2
    <3>3. CASE takes' = [takes EXCEPT ![h] = @ + 1]
      <4> HIDE DEF h
      <4>1. takes' = [takes EXCEPT ![h] = 1]
        BY <2>2, <3>1, <3>3
      <4>2. \A g \in 0..MaxGen : takes'[g] = takes[g] \/ (g = h /\ takes'[g] = 1)
        BY <2>2, <3>1, <4>1
      <4>3. takes' \in [0..MaxGen -> Nat]
        BY <2>2, <3>1, <4>1
      <4> QED BY <4>2, <4>3 DEF h
    <3> QED BY <2>1, <3>2, <3>3
  <2>5. TypeOK' /\ OwnerInv'
    BY <1>0, <2>1, <2>2, <2>4 DEF TypeOK, OwnerInv
  <2>6. RequestsInv' /\ AnchorInv' /\ PendingCanSettle'
    BY <1>0, <2>1 DEF RequestsInv, AnchorInv, PendingCanSettle
  <2>7. TakeAtMostOnce'
    BY <1>0, <2>4 DEF TakeAtMostOnce
  <2>8. TakenInv'
    <3>1. Floor(anchor) \in 0..MaxGen /\ Floor(snapshot) <= Floor(anchor)
      BY <1>0, RecordTypes DEF TypeOK, Floor, AnchorInv
    <3> QED BY <1>0, <1>T, <2>1, <2>3, <2>4, <3>1 DEF TakenInv
  <2> QED BY <2>5, <2>6, <2>7, <2>8 DEF IInv
<1>25. CASE Close
  BY <1>0, <1>25, ForgetIInv DEF Close, disk, TypeOK
<1>26. CASE PowerLoss
  BY <1>0, <1>26, ForgetIInv DEF PowerLoss, TypeOK
<1>27. CASE RestoreBackup \/ UNCHANGED vars
  <2>1. TypeOK'
    BY <1>0, <1>27, BoundAssumption DEF RestoreBackup, TypeOK, vars, disk, remote, handle, out
  <2>2. UNCHANGED <<anchor, sent, pc, current, snapshot, proposed, takes>>
    BY <1>27 DEF RestoreBackup, vars, disk, remote, handle, out
  <2>3. /\ RequestsInv' /\ AnchorInv' /\ OwnerInv' /\ TakenInv'
        /\ TakeAtMostOnce' /\ PendingCanSettle'
    BY <1>0, <2>2 DEF RequestsInv, AnchorInv, OwnerInv, TakenInv, TakeAtMostOnce, PendingCanSettle
  <2> QED BY <2>1, <2>3 DEF IInv
<1> QED
  BY <1>1, <1>2, <1>3, <1>4, <1>5, <1>6, <1>7, <1>8, <1>9, <1>10, <1>11, <1>13, <1>14, <1>15,
     <1>16, <1>17, <1>18, <1>19, <1>20, <1>21, <1>22, <1>23, <1>24, <1>25, <1>26, <1>27 DEF Next

LEMMA Invariance == Spec => []IInv
BY InitIInv, NextIInv, PTL DEF Spec

-----------------------------------------------------------------------------
(* Theorems. *)

\* Type correctness: generation and anchor sequence stay within their width.
THEOREM TypeCorrect == Spec => []TypeOK
BY Invariance, PTL DEF IInv

\* Over all crashes, late compare-exchanges and restored backups, take hands
\* out the payload of a generation at most once.
THEOREM NeverRedelivered == Spec => []TakeAtMostOnce
BY Invariance, PTL DEF IInv

\* No pending intent is written whose settlement the sequence cannot express.
THEOREM IntentsCanSettle == Spec => []PendingCanSettle
BY Invariance, PTL DEF IInv

\* The settled generation never goes back.
THEOREM SettledNeverRolledBack == Spec => NoRollback
<1>1. IInv /\ [Next]_vars => [anchor'.state.prev.gen >= anchor.state.prev.gen]_vars
  <2> SUFFICES ASSUME IInv, [Next]_vars PROVE anchor'.state.prev.gen >= anchor.state.prev.gen
    OBVIOUS
  <2>1. anchor.state.prev.gen \in 0..MaxGen
    BY RecordTypes DEF IInv, TypeOK
  <2>2. CASE AnchorApply
    <3>1. Floor(anchor) <= Floor(anchor') /\ IInv'
      BY <2>2, AnchorApplyIInv
    <3>2. anchor'.state.prev.gen \in 0..MaxGen
      BY <3>1, RecordTypes DEF IInv, TypeOK
    <3> QED BY <2>1, <3>1, <3>2 DEF Floor
  <2>3. CASE anchor' = anchor
    BY <2>1, <2>3
  <2>4. AnchorApply \/ anchor' = anchor
    BY DEF Next, vars, remote, handle, OpenFile, ReadAnchor, OpenStable, Recover, SettleRecovery,
       RecoverySettled, OpenFails, Admit, AdmitFails, Load, ReadFails, PrepareReplace, PrepareTake,
       Invalidate, Refuse, AnchorIntent, IntentAnchored, Rename, Sync, SyncFails, SettleCommit,
       CommitSettled, CommitFails, Deliver, WithoutDelivery, Close, PowerLoss, RestoreBackup,
       Dispatch, Accept, Quarantine
  <2> QED BY <2>2, <2>3, <2>4
<1> QED BY <1>1, Invariance, PTL DEF Spec, NoRollback

\* Load never returns a generation that a take has handed out.
THEOREM TakenNeverRead == Spec => NoReadAfterTake
<1> DEFINE Fresh == loaded' # loaded /\ loaded' # Absent =>
                      \A g \in 0..MaxGen : takes[g] > 0 => g < loaded'.gen
<1>1. IInv /\ [Next]_vars => [Fresh]_vars
  <2> SUFFICES ASSUME IInv, [Next]_vars PROVE Fresh
    OBVIOUS
  <2>1. CASE Load /\ file = current
    <3>1. loaded' = current /\ pc = "admitted"
      BY <2>1 DEF Load
    <3>2. Floor(snapshot) = current.gen
      BY <3>1 DEF IInv, OwnerInv, Floor, Stable
    <3> QED BY <3>1, <3>2 DEF IInv, TakenInv
  <2>2. CASE loaded' = loaded \/ loaded' = Absent
    BY <2>2
  <2>3. (Load /\ file = current) \/ loaded' = loaded \/ loaded' = Absent
    BY DEF Next, vars, out, AnchorApply, OpenFile, ReadAnchor, OpenStable, Recover, SettleRecovery,
       RecoverySettled, OpenFails, Admit, AdmitFails, Load, ReadFails, PrepareReplace, PrepareTake,
       Invalidate, Refuse, AnchorIntent, IntentAnchored, Rename, Sync, SyncFails, SettleCommit,
       CommitSettled, CommitFails, Deliver, WithoutDelivery, Close, PowerLoss, RestoreBackup,
       Dispatch, Accept, Quarantine, Forget
  <2> QED BY <2>1, <2>2, <2>3
<1> QED BY <1>1, Invariance, PTL DEF Spec, NoReadAfterTake
-----------------------------------------------------------------------------
(* The file and the anchor, and the refinement of CredentialCustody.       *)
(*                                                                         *)
(* A request is never newer than the snapshot of the owner that may still  *)
(* send one, so between the accepted intent and the settlement nothing can *)
(* move the anchor; a settling request is only sent when the file holds    *)
(* what it settles, durably.                                               *)

SequenceInv ==
  /\ snapshot.seq <= anchor.seq
  /\ \A r \in sent : r.from.seq <= anchor.seq
  /\ pc \notin {"closed", "opened"} => \A r \in sent : r.from.seq <= snapshot.seq
  /\ pc \in {"anchored", "renamed", "synced"} =>
       anchor = snapshot /\ \A r \in sent : r.from.seq < snapshot.seq

\* What the disk holds at each point.
DiskInv ==
  /\ pc \notin {"closed", "renamed", "quarantined"} => file = durable
  /\ file # durable =>
       anchor.state.kind = "pending" /\ durable = anchor.state.prev /\ file = anchor.state.prop
  /\ pc \in {"recovered", "recovering", "synced", "settling"} => file = current
  /\ pc = "renamed" => file = proposed /\ durable = current
  /\ \A r \in sent : r.from = anchor /\ r.to.kind = "stable" =>
       file = r.to.prev /\ durable = r.to.prev

\* A take in progress, and when the last load is forgotten.
TakeInv ==
  /\ pc \in {"prepared", "anchoring", "anchored", "renamed"} /\ op = "take" =>
       current.payload # Tomb /\ proposed.payload = Tomb
  /\ pc \in {"closed", "admitted"} \cup Opening \cup Committing => loaded = Absent

Match ==
  IF anchor.state.kind = "stable"
    THEN file = anchor.state.prev /\ durable = anchor.state.prev
    ELSE {file, durable} \subseteq {anchor.state.prev, anchor.state.prop}

RInv == SequenceInv /\ DiskInv /\ TakeInv /\ Match

\* The anchor applies a request.
LEMMA AnchorApplyRInv == ASSUME IInv, RInv, AnchorApply PROVE RInv'
<1> USE DEF RInv
<1>1. PICK r \in sent : /\ r.from = anchor
                        /\ anchor' = [seq |-> anchor.seq + 1, state |-> r.to]
                        /\ sent' = {}
                        /\ UNCHANGED <<disk, pc, handle, out>>
  BY DEF AnchorApply
<1>2. UNCHANGED <<file, durable, pc, op, current, snapshot, proposed, loaded>>
  BY <1>1 DEF disk, handle, out
<1>3. /\ anchor'.state = r.to /\ anchor'.seq = anchor.seq + 1
      /\ anchor.seq \in 0..MaxSeq /\ snapshot.seq \in 0..MaxSeq
  BY <1>1, RecordTypes DEF IInv, TypeOK
<1>4. Step(anchor.state, r.to)
  BY <1>1 DEF IInv, RequestsInv
<1>5. pc \notin {"anchored", "renamed", "synced"}
  BY <1>1, <1>3 DEF SequenceInv
<1>6. SequenceInv'
  BY <1>1, <1>2, <1>3, <1>5, BoundAssumption DEF SequenceInv
<1>7. Match'
  BY <1>1, <1>2, <1>3, <1>4 DEF Match, DiskInv, Step
<1>8. DiskInv'
  BY <1>1, <1>2, <1>3, <1>4, <1>5 DEF Match, DiskInv, Step
<1>9. TakeInv'
  BY <1>2 DEF TakeInv
<1> QED BY <1>6, <1>7, <1>8, <1>9

\* Dropping the handle, with or without a power loss.
LEMMA ForgetRInv ==
  ASSUME IInv, RInv, Forget, UNCHANGED remote,
         \/ UNCHANGED <<file, durable>>
         \/ file' \in {file, durable} /\ durable' = file'
  PROVE  RInv'
<1>1. /\ pc' = "closed" /\ loaded' = Absent /\ anchor' = anchor /\ sent' = sent
      /\ snapshot'.seq = 0
  BY DEF Forget, remote
<1>2. anchor.seq \in 0..MaxSeq
  BY RecordTypes DEF IInv, TypeOK
<1>3. SequenceInv' /\ TakeInv'
  BY <1>1, <1>2, BoundAssumption DEF RInv, SequenceInv, TakeInv
<1>4. DiskInv' /\ Match'
  BY <1>1 DEF RInv, DiskInv, Match
<1> QED BY <1>3, <1>4 DEF RInv

\* Sending a request: a settling one names what the disk holds.
LEMMA DispatchRInv ==
  ASSUME IInv, RInv, NEW to, NEW w, Dispatch(to, w),
         \/ pc = "prepared" /\ w = "anchoring" /\ to.kind = "pending"
         \/ pc = "recovered" /\ w = "recovering" /\ to.prev = current
         \/ pc = "synced" /\ w = "settling" /\ to.prev = current
  PROVE  RInv'
<1> DEFINE req == [from |-> snapshot, to |-> to]
<1>1. /\ sent' = sent \cup {req} /\ pc' = w
      /\ UNCHANGED <<file, durable, anchor, op, current, snapshot, proposed, loaded>>
  BY DEF Dispatch, disk, handle, out
<1>2. req.from = snapshot /\ req.to = to /\ snapshot.seq \in 0..MaxSeq
  BY RecordTypes DEF IInv, TypeOK
<1> HIDE DEF req
<1>3. SequenceInv'
  BY <1>1, <1>2 DEF RInv, SequenceInv
<1>4. DiskInv'
  BY <1>1, <1>2 DEF RInv, DiskInv
<1>5. TakeInv' /\ Match'
  BY <1>1 DEF RInv, TakeInv, Match, Opening, Committing
<1> QED BY <1>3, <1>4, <1>5 DEF RInv

\* Accepting an answer: every request still in flight is older.
LEMMA AcceptRInv ==
  ASSUME IInv, RInv, NEW to, NEW w, Accept(to, w),
         \/ pc = "anchoring" /\ w = "anchored"
         \/ pc = "recovering" /\ w = "idle"
         \/ pc = "settling" /\ w = "settled"
  PROVE  RInv'
<1>1. /\ snapshot' = anchor /\ pc' = w /\ anchor.seq = snapshot.seq + 1
      /\ UNCHANGED <<file, durable, anchor, sent, op, current, proposed, loaded>>
  BY DEF Accept, Confirmed, disk, remote, out
<1>2. snapshot.seq \in 0..MaxSeq /\ \A r \in sent : r.from.seq \in 0..MaxSeq
  BY RecordTypes DEF IInv, TypeOK
<1>3. SequenceInv'
  BY <1>1, <1>2, BoundAssumption DEF RInv, SequenceInv
<1>4. DiskInv'
  BY <1>1 DEF RInv, DiskInv
<1>5. TakeInv' /\ Match'
  BY <1>1 DEF RInv, TakeInv, Match, Opening, Committing
<1> QED BY <1>3, <1>4, <1>5 DEF RInv

\* Steps of an open handle that leave disk, requests and anchor alone.
LEMMA HandleRInv ==
  ASSUME IInv, RInv, UNCHANGED <<file, durable, anchor, sent, snapshot>>,
         pc \notin {"closed", "opened", "renamed"}, TakeInv',
         pc' = "quarantined" \/ (pc' \in {"idle", "admitted", "prepared"} /\ pc # "quarantined")
  PROVE  RInv'
<1>1. SequenceInv' /\ Match'
  BY DEF RInv, SequenceInv, Match
<1>2. DiskInv'
  BY DEF RInv, DiskInv
<1> QED BY <1>1, <1>2 DEF RInv

LEMMA RestoresGrow ==
  ASSUME IInv, [Next]_vars, restores' = 0
  PROVE  restores = 0 /\ ~RestoreBackup
<1>1. restores \in Nat
  BY BoundAssumption DEF IInv, TypeOK
<1>2. RestoreBackup \/ restores' = restores
  BY DEF Next, vars, disk, AnchorApply, OpenFile, ReadAnchor, OpenStable, Recover, SettleRecovery,
     RecoverySettled, OpenFails, Admit, AdmitFails, Load, ReadFails, PrepareReplace, PrepareTake,
     Invalidate, Refuse, AnchorIntent, IntentAnchored, Rename, Sync, SyncFails, SettleCommit,
     CommitSettled, CommitFails, Deliver, WithoutDelivery, Close, PowerLoss,
     Dispatch, Accept, Quarantine
<1>3. ~RestoreBackup
  BY <1>1 DEF RestoreBackup
<1> QED BY <1>2, <1>3

LEMMA NextRInv ==
  ASSUME IInv, RInv, [Next]_vars, ~RestoreBackup
  PROVE  RInv'
<1>0. /\ SequenceInv /\ DiskInv /\ TakeInv /\ Match
      /\ \A rec \in Records : Stable(rec).prev = rec /\ Stable(rec).kind = "stable"
      /\ current \in Records /\ proposed \in Records
  BY DEF IInv, RInv, TypeOK, Stable
<1>1. CASE AnchorApply
  BY <1>1, AnchorApplyRInv
<1>2. CASE OpenFile
  BY <1>0, <1>2 DEF OpenFile, RInv, SequenceInv, DiskInv, TakeInv, Match, remote, handle, out, Opening
<1>3. CASE ReadAnchor
  <2>1. anchor.seq \in 0..MaxSeq
    BY RecordTypes DEF IInv, TypeOK
  <2> QED BY <1>0, <1>3, <2>1 DEF ReadAnchor, RInv, SequenceInv, DiskInv, TakeInv, Match, disk, remote, out, Opening
<1>4. CASE OpenStable
  <2>1. TakeInv'
    BY <1>0, <1>4 DEF OpenStable, TakeInv, Opening, Committing
  <2> QED BY <1>4, <2>1, HandleRInv DEF OpenStable, disk, remote
<1>5. CASE Recover
  BY <1>0, <1>5 DEF Recover, RInv, SequenceInv, DiskInv, TakeInv, Match, remote, out, Opening
<1>6. CASE SettleRecovery
  BY <1>0, <1>6, DispatchRInv DEF SettleRecovery
<1>7. CASE RecoverySettled \/ IntentAnchored \/ CommitSettled
  BY <1>7, AcceptRInv DEF RecoverySettled, IntentAnchored, CommitSettled
<1>8. CASE OpenFails \/ Close
  BY <1>8, ForgetRInv DEF OpenFails, Close, disk
<1>9. CASE PowerLoss
  BY <1>9, ForgetRInv DEF PowerLoss
<1>10. ASSUME Quarantine, pc \notin {"closed", "opened", "renamed"} PROVE RInv'
  <2>1. TakeInv'
    BY <1>0, <1>10 DEF Quarantine, TakeInv, Opening, Committing
  <2> QED BY <1>10, <2>1, HandleRInv DEF Quarantine, disk, remote, handle
<1>11. CASE \E o \in Ops : Admit(o)
  <2>1. CASE Quarantine
    BY <1>10, <1>11, <2>1 DEF Admit
  <2>2. CASE /\ pc = "idle" /\ pc' = "admitted" /\ loaded' = Absent
             /\ UNCHANGED <<disk, remote, current, snapshot, proposed, takes>>
    <3>1. TakeInv'
      BY <2>2 DEF TakeInv
    <3> QED BY <2>2, <3>1, HandleRInv DEF disk, remote
  <2> QED BY <1>11, <2>1, <2>2 DEF Admit
<1>12. CASE AdmitFails \/ ReadFails \/ CommitFails
  BY <1>10, <1>12 DEF AdmitFails, ReadFails, CommitFails
<1>13. CASE Load
  <2>1. CASE Quarantine
    BY <1>10, <1>13, <2>1 DEF Load
  <2>2. CASE pc = "admitted" /\ pc' = "idle" /\ UNCHANGED <<disk, remote, handle, takes>>
    <3>1. TakeInv'
      BY <2>2 DEF TakeInv, Opening, Committing
    <3> QED BY <2>2, <3>1, HandleRInv DEF disk, remote, handle
  <2> QED BY <1>13, <2>1, <2>2 DEF Load
<1>14. ASSUME NEW p, pc = "admitted", op = "take" => p = Tomb /\ current.payload # Tomb,
              NextGeneration(p), UNCHANGED <<disk, remote, op, current, snapshot, out>>
       PROVE  RInv'
  <2>1. TakeInv'
    BY <1>0, <1>14 DEF NextGeneration, TakeInv, out
  <2> QED BY <1>14, <2>1, HandleRInv DEF NextGeneration, disk, remote
<1>15. CASE PrepareReplace
  BY <1>14, <1>15, PayloadAssumption DEF PrepareReplace
<1>16. CASE PrepareTake
  BY <1>14, <1>16 DEF PrepareTake
<1>17. ASSUME pc \in {"admitted", "prepared", "settled"}, pc' = "idle",
              UNCHANGED <<disk, remote, handle>>
       PROVE  RInv'
  <2>1. TakeInv'
    BY <1>17 DEF TakeInv, Opening, Committing
  <2> QED BY <1>17, <2>1, HandleRInv DEF disk, remote, handle
<1>18. CASE Invalidate
  <2>1. CASE Quarantine
    BY <1>10, <1>18, <2>1 DEF Invalidate
  <2>2. CASE pc' = "idle" /\ UNCHANGED <<disk, remote, handle, out>>
    BY <1>17, <1>18, <2>2 DEF Invalidate
  <2>3. CASE NextGeneration(Tomb) /\ UNCHANGED <<disk, remote, op, current, snapshot, out>>
    BY <1>14, <1>18, <2>3 DEF Invalidate
  <2> QED BY <1>18, <2>1, <2>2, <2>3 DEF Invalidate
<1>19. CASE Refuse \/ WithoutDelivery \/ Deliver
  BY <1>17, <1>19 DEF Refuse, WithoutDelivery, Deliver
<1>20. CASE AnchorIntent
  BY <1>20, DispatchRInv DEF AnchorIntent, Pending
<1>21. CASE Rename
  <2>1. snapshot.state = Pending(current, proposed) /\ anchor = snapshot /\ pc = "anchored"
    BY <1>0, <1>21 DEF Rename, IInv, OwnerInv, SequenceInv
  <2>2. anchor.state.kind = "pending" /\ anchor.state.prev = current /\ anchor.state.prop = proposed
    BY <2>1 DEF Pending
  <2>3. snapshot.seq \in 0..MaxSeq /\ \A r \in sent : r.from # anchor
    BY <1>0, <2>1, RecordTypes DEF SequenceInv, IInv, TypeOK
  <2>4. /\ file' = proposed /\ file = current /\ pc' = "renamed"
        /\ UNCHANGED <<durable, anchor, sent, op, current, snapshot, proposed, loaded>>
    BY <1>21 DEF Rename, remote, handle, out
  <2>5. SequenceInv' /\ TakeInv'
    BY <1>0, <2>1, <2>4 DEF SequenceInv, TakeInv, Committing
  <2>6. DiskInv' /\ Match'
    BY <1>0, <2>1, <2>2, <2>3, <2>4 DEF DiskInv, Match
  <2> QED BY <2>5, <2>6 DEF RInv
<1>22. CASE Sync \/ SyncFails
  <2>1. /\ pc = "renamed" /\ durable' \in {durable, file} /\ file' = file
        /\ UNCHANGED <<anchor, sent, op, snapshot, proposed, loaded>>
        /\ \/ pc' = "synced" /\ current' = proposed /\ durable' = file
           \/ pc' = "quarantined" /\ current' = current
    BY <1>22 DEF Sync, SyncFails, remote, handle, out
  <2>2. snapshot.state = Pending(current, proposed) /\ anchor = snapshot
    BY <1>0, <2>1 DEF IInv, OwnerInv, SequenceInv
  <2>3. anchor.state.kind = "pending" /\ anchor.state.prev = current /\ anchor.state.prop = proposed
    BY <2>2 DEF Pending
  <2>4. snapshot.seq \in 0..MaxSeq /\ \A r \in sent : r.from # anchor
    BY <1>0, <2>1, <2>2, RecordTypes DEF SequenceInv, IInv, TypeOK
  <2>5. SequenceInv' /\ TakeInv'
    BY <1>0, <2>1 DEF SequenceInv, TakeInv, Opening, Committing
  <2>6. DiskInv' /\ Match'
    BY <1>0, <2>1, <2>3, <2>4 DEF DiskInv, Match
  <2> QED BY <2>5, <2>6 DEF RInv
<1>23. CASE SettleCommit
  BY <1>0, <1>23, DispatchRInv DEF SettleCommit
<1>24. CASE UNCHANGED vars
  BY <1>0, <1>24 DEF vars, RInv, SequenceInv, DiskInv, TakeInv, Match, disk, remote, handle, out
<1> QED
  BY <1>1, <1>2, <1>3, <1>4, <1>5, <1>6, <1>7, <1>8, <1>9, <1>11, <1>12, <1>13, <1>15, <1>16,
     <1>18, <1>19, <1>20, <1>21, <1>22, <1>23, <1>24 DEF Next

LEMMA InitRInv == Init => RInv
<1> SUFFICES ASSUME Init PROVE RInv
  OBVIOUS
<1>1. anchor.seq = 0 /\ snapshot.seq = 0 /\ anchor.state.kind = "stable" /\ anchor.state.prev = Absent
  BY DEF Init, Stable
<1> QED BY <1>1 DEF Init, RInv, SequenceInv, DiskInv, TakeInv, Match

\* Without a restored backup the anchor always names what the disk holds.
THEOREM AnchorNamesTheFile == Spec => []FileMatchesAnchor
<1> DEFINE Cond == restores = 0 => RInv
<1>1. Init => Cond
  BY InitRInv
<1>2. IInv /\ Cond /\ [Next]_vars => Cond'
  BY RestoresGrow, NextRInv
<1>3. Cond => FileMatchesAnchor
  BY DEF RInv, Match, FileMatchesAnchor
<1> QED BY <1>1, <1>2, <1>3, Invariance, PTL DEF Spec
-----------------------------------------------------------------------------
(* The transaction implements atomic custody. *)

Handoff == IF pc \in {"synced", "settling", "settled"} /\ op = "take" THEN {current.gen - 1} ELSE {}

\* A step that keeps the durable record, the takes and the loaded record keeps
\* the abstract state or loses the handoff.
LEMMA QuietStep ==
  ASSUME durable' = durable, takes' = takes, loaded' \in {loaded, Absent},
         Handoff' = {} \/ (Handoff' = Handoff /\ loaded' = loaded)
  PROVE  [Custody!Next]_(Custody!vars)
BY DEF Handoff, Custody!Next, Custody!vars, Custody!Lose, Custody!Absent, Absent

\* A step that makes the renamed record durable without a take to hand out.
LEMMA PutStep ==
  ASSUME IInv, RInv, file # durable, durable' = file, takes' = takes, loaded' = Absent, Handoff' = {}
  PROVE  [Custody!Next]_(Custody!vars)
<1>1. file \in Records /\ durable \in Records
  BY DEF IInv, TypeOK
<1>2. file.gen = durable.gen + 1
  BY DEF IInv, AnchorInv, WellFormed, RInv, DiskInv
<1>3. /\ file = [gen |-> file.gen, payload |-> file.payload] /\ file.payload \in Payloads \cup {Tomb}
      /\ file.gen \in 0..MaxGen /\ durable.gen \in 0..MaxGen
  BY <1>1 DEF Records
<1>4. durable.gen < MaxGen /\ durable' = [gen |-> durable.gen + 1, payload |-> file.payload]
  BY <1>2, <1>3, BoundAssumption
<1>5. Custody!Advance(file.payload) /\ Custody!Put
  BY <1>3, <1>4 DEF Custody!Advance, Custody!Put, Custody!Absent, Absent, Handoff
<1> QED BY <1>5 DEF Custody!Next

LEMMA StepRefines ==
  ASSUME IInv, RInv, [Next]_vars, ~RestoreBackup
  PROVE  [Custody!Next]_(Custody!vars)
<1>0. /\ SequenceInv /\ DiskInv /\ TakeInv /\ Match
      /\ durable \in Records /\ current \in Records /\ proposed \in Records
  BY DEF IInv, RInv, TypeOK
<1>1. CASE AnchorApply \/ UNCHANGED vars
  BY <1>1, QuietStep DEF AnchorApply, vars, disk, handle, out, Handoff
<1>2. CASE OpenFile
  <2>1. pc = "closed" /\ pc' = "opened" /\ durable' = file /\ takes' = takes /\ loaded' = Absent /\ loaded = Absent
    BY <1>0, <1>2 DEF OpenFile, TakeInv, out
  <2>2. Handoff' = {}
    BY <2>1 DEF Handoff
  <2>3. CASE file = durable
    BY <2>1, <2>2, <2>3, QuietStep
  <2>4. CASE file # durable
    BY <2>1, <2>2, <2>4, PutStep
  <2> QED BY <2>3, <2>4
<1>3. CASE ReadAnchor \/ OpenStable \/ SettleRecovery \/ RecoverySettled
  BY <1>3, QuietStep
     DEF ReadAnchor, OpenStable, SettleRecovery, RecoverySettled, Dispatch, Accept, Handoff, disk, out
<1>4. CASE Recover
  BY <1>0, <1>4, QuietStep DEF Recover, DiskInv, Handoff, out
<1>5. CASE OpenFails \/ Close
  BY <1>5, QuietStep DEF OpenFails, Close, Forget, Handoff, disk
<1>6. CASE \E o \in Ops : Admit(o)
  BY <1>6, QuietStep DEF Admit, Quarantine, Handoff, disk, out
<1>7. CASE AdmitFails \/ ReadFails \/ CommitFails
  BY <1>7, QuietStep DEF AdmitFails, ReadFails, CommitFails, Quarantine, Handoff, disk, out
<1>8. CASE Load
  <2>1. CASE Quarantine
    BY <1>8, <2>1, QuietStep DEF Quarantine, Load, Handoff, disk, out
  <2>2. CASE pc' = "idle" /\ loaded' = file /\ UNCHANGED <<disk, remote, handle, takes>>
    <3>1. loaded' = durable /\ durable' = durable /\ takes' = takes /\ Handoff = {} /\ Handoff' = {}
      BY <1>0, <1>8, <2>2 DEF Load, DiskInv, Handoff, disk
    <3> QED BY <3>1 DEF Custody!Next, Custody!Load, Handoff
  <2> QED BY <1>8, <2>1, <2>2 DEF Load
<1>9. CASE PrepareReplace \/ PrepareTake \/ Refuse
  BY <1>9, QuietStep DEF PrepareReplace, PrepareTake, Refuse, NextGeneration, Handoff, disk, out
<1>10. CASE Invalidate
  BY <1>10, QuietStep DEF Invalidate, Quarantine, NextGeneration, Handoff, disk, out
<1>11. CASE AnchorIntent \/ IntentAnchored
  BY <1>11, QuietStep DEF AnchorIntent, IntentAnchored, Dispatch, Accept, Handoff, disk, out
<1>12. CASE Rename
  BY <1>12, QuietStep DEF Rename, Handoff, out
<1>13. CASE Sync
  <2>1. /\ pc = "renamed" /\ pc' = "synced" /\ durable' = file /\ current' = proposed /\ op' = op
        /\ takes' = takes /\ loaded' = Absent
    BY <1>0, <1>13 DEF Sync, TakeInv, Committing, out
  <2>2. file = proposed /\ durable = current /\ proposed.gen = current.gen + 1
    BY <1>0, <2>1 DEF DiskInv, IInv, OwnerInv
  <2>3. current.gen \in 0..MaxGen /\ proposed.gen \in 0..MaxGen
    BY <1>0, RecordTypes
  <2>4. CASE op = "take"
    <3>1. durable.payload # Tomb /\ proposed.payload = Tomb
      BY <1>0, <2>1, <2>2, <2>4 DEF TakeInv
    <3>2. proposed = [gen |-> durable.gen + 1, payload |-> Tomb]
      BY <1>0, <2>2, <3>1 DEF Records
    <3>3. durable.gen < MaxGen
      BY <2>2, <2>3, BoundAssumption
    <3>4. Handoff' = {durable.gen}
      BY <2>1, <2>2, <2>3, <2>4 DEF Handoff
    <3>5. Custody!Take
      BY <2>1, <2>2, <3>1, <3>2, <3>3, <3>4
         DEF Custody!Take, Custody!Advance, Custody!Absent, Absent, Handoff
    <3> QED BY <3>5 DEF Custody!Next
  <2>5. CASE op # "take"
    <3>1. Handoff' = {} /\ file # durable
      BY <2>1, <2>2, <2>3, <2>5 DEF Handoff
    <3> QED BY <2>1, <3>1, PutStep
  <2> QED BY <2>4, <2>5
<1>14. CASE SyncFails
  <2>1. /\ durable' \in {durable, file} /\ takes' = takes /\ loaded' = Absent /\ loaded = Absent /\ Handoff' = {}
    BY <1>0, <1>14 DEF SyncFails, TakeInv, Committing, Handoff, out
  <2>2. CASE durable' = durable
    BY <2>1, <2>2, QuietStep
  <2>3. CASE durable' # durable
    BY <2>1, <2>3, PutStep
  <2> QED BY <2>2, <2>3
<1>15. CASE SettleCommit \/ CommitSettled
  BY <1>15, QuietStep DEF SettleCommit, CommitSettled, Dispatch, Accept, Handoff, disk, handle, out
<1>16. CASE Deliver
  <2>1. pc = "settled" /\ Handoff' = {} /\ durable' = durable /\ loaded' = loaded
    BY <1>16 DEF Deliver, Handoff, disk
  <2>2. CASE op = "take"
    <3>1. takes' = [takes EXCEPT ![current.gen - 1] = @ + 1] /\ Handoff = {current.gen - 1}
      BY <1>16, <2>1, <2>2 DEF Deliver, Handoff
    <3>2. Custody!Deliver
      BY <2>1, <3>1 DEF Custody!Deliver, Handoff
    <3> QED BY <3>2 DEF Custody!Next
  <2>3. CASE op # "take"
    BY <1>16, <2>1, <2>3, QuietStep DEF Deliver
  <2> QED BY <2>2, <2>3
<1>17. CASE WithoutDelivery
  BY <1>17, QuietStep DEF WithoutDelivery, Handoff, disk, out
<1>18. CASE PowerLoss
  <2>1. durable' \in {file, durable} /\ takes' = takes /\ loaded' = Absent /\ Handoff' = {}
    BY <1>18 DEF PowerLoss, Forget, Handoff
  <2>2. CASE durable' = durable
    BY <2>1, <2>2, QuietStep
  <2>3. CASE durable' # durable
    BY <2>1, <2>3, PutStep
  <2> QED BY <2>2, <2>3
<1> QED
  BY <1>1, <1>2, <1>3, <1>4, <1>5, <1>6, <1>7, <1>8, <1>9, <1>10, <1>11, <1>12, <1>13, <1>14,
     <1>15, <1>16, <1>17, <1>18 DEF Next

\* Until somebody restores the data file behind the anchor's back, secure file,
\* slot and coordinator together implement CredentialCustody: crashes, power
\* losses and late compare-exchanges are invisible to the owner except as a
\* lost handoff.
THEOREM ImplementsCustody == Spec => RefinesCustody
<1> DEFINE Cond == restores = 0 => RInv
<1>1. Init => Custody!Init /\ Cond
  BY InitRInv DEF Init, Custody!Init, Custody!Absent, Absent
<1>2. IInv /\ Cond /\ [Next]_vars => Cond'
  BY RestoresGrow, NextRInv
<1>3. IInv /\ Cond /\ [Next]_vars => (restores' = 0 => [Custody!Next]_(Custody!vars))
  BY RestoresGrow, StepRefines
<1> HIDE DEF Cond
<1> QED BY <1>1, <1>2, <1>3, Invariance, PTL DEF Spec, RefinesCustody

\* What a crash leaves behind can always be brought to an end.
THEOREM AnchorStaysSound == Spec => []AnchorIsSound
BY TypeCorrect, IntentsCanSettle, AnchorNamesTheFile, PTL DEF AnchorIsSound

\* A taken credential is never read again, a settled generation never undone.
THEOREM CredentialsNeverGoBack == Spec => NeverGoesBack
BY TakenNeverRead, SettledNeverRolledBack, PTL DEF NeverGoesBack
================================================================================
