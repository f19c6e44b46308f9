---------------------------- MODULE DispatchState ----------------------------
(***************************************************************************)
(* DispatchQueueState, the mutex-protected bookkeeping a connection keeps  *)
(* between a request's admission and the end of its response attempt, and  *)
(* the three-valued word of McpRequestCancellation                         *)
(* (fastmcp-server/src/lib.rs, fastmcp-core/src/context.rs).               *)
(*                                                                         *)
(* The state is one record q; every operator below is one critical section *)
(* of the mutex and returns the record it leaves behind.  q.owner stands   *)
(* for `reserved` and `admitted_cancellations`, which are inserted and     *)
(* removed together: the request whose cancellation word is kept under     *)
(* the id.  q.registered stands for `modern_cancellations`.                *)
(***************************************************************************)
EXTENDS Integers, FiniteSets

CONSTANTS
  Reqs,        \* request frames of the peer
  Ids,         \* correlation keys
  Scenarios,   \* the connections a behaviour may be about
  NoId, NoReq

\* Which connection this is; it never changes.
VARIABLE scenario

IdOf == scenario.idOf           \* IdOf[r]: the id of a frame, NoId for a notification
Protected == scenario.protected \* initialize requests, not cancellable by the peer
Size == scenario.size           \* measure_dispatch_request
Depth == scenario.depth         \* MAX_DISPATCH_QUEUE_DEPTH
MaxBytes == scenario.maxBytes   \* MAX_DISPATCH_QUEUE_BYTES

ASSUME RequestAssumption ==
  /\ IsFiniteSet(Reqs) /\ NoReq \notin Reqs
  /\ NoId \notin Ids
  /\ \A s \in Scenarios :
       /\ s.idOf \in [Reqs -> Ids \cup {NoId}]
       /\ s.protected \subseteq Reqs
       /\ s.size \in [Reqs -> Nat]
       /\ s.depth \in Nat \ {0} /\ s.maxBytes \in Nat

QueueStates ==
  [owner: [Ids -> Reqs \cup {NoReq}], protected: SUBSET Ids,
   dispatching: SUBSET Ids, cancelled: SUBSET Ids, registered: SUBSET Reqs,
   inFlight: Nat, bytes: Nat, stopping: BOOLEAN]

EmptyQueue ==
  [owner |-> [i \in Ids |-> NoReq], protected |-> {}, dispatching |-> {},
   cancelled |-> {}, registered |-> {}, inFlight |-> 0, bytes |-> 0,
   stopping |-> FALSE]

Correlated(r) == IdOf[r] \in Ids

Reserved(q) == {i \in Ids : q.owner[i] # NoReq}

-----------------------------------------------------------------------------
(* McpRequestCancellation: the first of cancel and begin_finalization wins. *)

Words == {"active", "cancelled", "finalizing"}

Cancel(words, S) ==
  [r \in Reqs |-> IF r \in S /\ words[r] = "active" THEN "cancelled"
                                                     ELSE words[r]]

BeginFinalization(words, r) ==
  IF words[r] = "active" THEN [words EXCEPT ![r] = "finalizing"] ELSE words

-----------------------------------------------------------------------------
(* Admission and release. *)

CanAdmit(q, r) == ~q.stopping /\ q.owner[IdOf[r]] = NoReq

Admit(q, r) ==
  [q EXCEPT !.owner[IdOf[r]] = r,
            !.protected = IF r \in Protected THEN @ \cup {IdOf[r]} ELSE @]

\* Faulty variant: the id keeps the marks of the request that left.
DiscardOwnerOnly(q, r) ==
  IF Correlated(r) THEN [q EXCEPT !.owner[IdOf[r]] = NoReq] ELSE q

Discard(q, r) ==
  IF Correlated(r)
  THEN [q EXCEPT !.owner[IdOf[r]] = NoReq,
                 !.protected = @ \ {IdOf[r]},
                 !.dispatching = @ \ {IdOf[r]},
                 !.cancelled = @ \ {IdOf[r]}]
  ELSE q

CanReserveBytes(q, r) == ~q.stopping /\ q.bytes + Size[r] <= MaxBytes
ReserveBytes(q, r) == [q EXCEPT !.bytes = @ + Size[r]]
ReleaseBytes(q, r) ==
  [q EXCEPT !.bytes = IF @ >= Size[r] THEN @ - Size[r] ELSE 0]

CanReserveSlot(q) == ~q.stopping /\ q.inFlight < Depth
ReserveSlot(q) == [q EXCEPT !.inFlight = @ + 1]
ReleaseSlot(q) == [q EXCEPT !.inFlight = IF @ > 0 THEN @ - 1 ELSE 0]

\* register_modern_cancellation inserts only while the queue is not stopping;
\* otherwise it cancels the new child's word at once.
Register(q, r) ==
  IF q.stopping THEN q ELSE [q EXCEPT !.registered = @ \cup {r}]
RegisterCancels(q, r) == IF q.stopping THEN {r} ELSE {}
Unregister(q, r) == [q EXCEPT !.registered = @ \ {r}]

Uncorrelated(q) == {r \in q.registered : ~Correlated(r)}

-----------------------------------------------------------------------------
(* Cancellation, dispatch and stop. *)

\* cancel_reserved: what becomes of a peer cancellation of id i.
Disposition(q, words, i) ==
  CASE i \notin Reserved(q) -> "not_owned"
    [] i \in Reserved(q) /\ i \in q.protected -> "protected"
    [] i \in Reserved(q) /\ i \notin q.protected ->
         IF words[q.owner[i]] = "active" THEN "accepted" ELSE "already_settled"

CancelReserved(q, i) ==
  IF i \in Reserved(q) \ (q.protected \cup q.dispatching)
  THEN [q EXCEPT !.cancelled = @ \cup {i}]
  ELSE q

CancelReservedWords(q, words, i) ==
  IF Disposition(q, words, i) = "accepted" THEN Cancel(words, {q.owner[i]})
                                           ELSE words

\* The mark begin_dispatch leaves, and whether it reports a cancellation.
BeginDispatch(q, r) ==
  IF Correlated(r)
  THEN [q EXCEPT !.dispatching = @ \cup {IdOf[r]},
                 !.cancelled = @ \ {IdOf[r]}]
  ELSE q
CancelledBeforeDispatch(q, r) ==
  Correlated(r) /\ (IdOf[r] \in q.cancelled \/ q.stopping)

ModernStart(q, r) ==
  CASE q.stopping -> "stopping"
    [] ~q.stopping /\ Correlated(r) /\ IdOf[r] \in q.cancelled -> "cancelled"
    [] OTHER -> "ready"
BeginModernDispatch(q, r) == IF q.stopping THEN q ELSE BeginDispatch(q, r)

Stop(q) ==
  [q EXCEPT !.stopping = TRUE,
            !.cancelled = @ \cup (Reserved(q) \ q.dispatching)]

\* Faulty variant: only requests already handed to a child are cancelled.
StopSnapshotRegistered(q) == q.registered

\* The words stop copies under the lock and cancels after releasing it.
StopSnapshot(q) == q.registered \cup {q.owner[i] : i \in Reserved(q)}
==============================================================================
