---------------------------- MODULE ReverseRequests ----------------------------
(***************************************************************************)
(* Server-to-client ("reverse") requests of one connection: the tracker    *)
(* PendingRequests, the future RequestSender::send_request with its        *)
(* PendingRequestGuard, and the request-local McpRequestCancellation that  *)
(* owns a reverse call (fastmcp-server/src/bidirectional.rs,               *)
(* fastmcp-core/src/context.rs).                                           *)
(*                                                                         *)
(* One step is one critical section of the tracker's mutex, one atomic     *)
(* read-modify-write of a cancellation word, or one stretch of             *)
(* send_request between two reads of shared state.  A response leaves the  *)
(* map in one step (under the lock) and reaches its oneshot channel in a   *)
(* later one (send_blocking runs after the lock is released).              *)
(***************************************************************************)
EXTENDS Integers, FiniteSets

CONSTANTS
  Calls,        \* invocations of send_request on this connection
  Requests,     \* incoming requests that own reverse calls
  Owner,        \* Owner[c]: the request of RequestSender::for_request
  Legacy2024,   \* era = ProtocolEra::Legacy2024
  Negative,     \* id_domain = ExactLegacyNegative
  FirstId,      \* PendingIdDomain::first_id
  LastId,       \* last id of the domain
  MaxInFlight,  \* PendingRequests::max_in_flight
  NoCall, NoId, NoRequest, NoOutcome

Ids == IF Negative THEN LastId..FirstId ELSE FirstId..LastId

PeerOutcomes == {"ok", "undecodable", "error", "remote_cancelled"}
Outcomes == PeerOutcomes \cup {"closed", "cancelled"}
Results == {"none", "ok", "payload_error", "error", "remote_cancelled",
            "cancelled", "closed", "send_error", "limit", "exhausted", "dropped"}

ASSUME IdAssumption ==
  /\ FirstId \in Int /\ LastId \in Int
  /\ IF Negative THEN LastId <= FirstId ELSE FirstId <= LastId
  /\ NoId \notin Int
ASSUME LimitAssumption == MaxInFlight \in Nat \ {0}
ASSUME CallAssumption ==
  /\ IsFiniteSet(Calls)
  /\ Owner \in [Calls -> Requests \cup {NoRequest}]
  /\ NoCall \notin Calls
  /\ NoRequest \notin Requests
  /\ NoOutcome \notin Outcomes
  /\ Legacy2024 \in BOOLEAN /\ Negative \in BOOLEAN

VARIABLES
  requests,   \* PendingState.requests: the call waiting under each id
  nextId,     \* PendingState.next_id
  closed,     \* PendingState.closed
  terminal,   \* McpRequestCancellation.state of each incoming request
  cx,         \* the caller's Cx is cancelled or out of budget
  pc,         \* where each call is in send_request
  id,         \* the id a call registered
  held,       \* outcome removed from the map and not yet sent on the channel
  answer,     \* the value in the oneshot channel, then what its poll returned
  result,     \* what send_request returned
  requested,  \* ids whose request frame reached the transport
  notices,    \* notifications/cancelled frames sent per id
  routed      \* ids whose peer response was taken from the map

tracker == <<requests, nextId, closed>>
peer == <<requested, notices, routed>>
call == <<pc, answer, result>>
vars == <<tracker, terminal, cx, id, held, call, peer>>

\* Types: the tracker, the calls and what the peer saw.
TypeOK ==
  /\ requests \in [Ids -> Calls \cup {NoCall}]
  /\ nextId \in Ids \cup {NoId}
  /\ closed \in BOOLEAN
  /\ terminal \in [Requests -> {"active", "cancelled", "finalizing"}]
  /\ cx \in [Calls -> BOOLEAN]
  /\ pc \in [Calls -> {"start", "checked", "registered", "sending", "waiting",
                       "polled", "failed", "accepted", "done"}]
  /\ id \in [Calls -> Ids \cup {NoId}]
  /\ held \in [Calls -> Outcomes \cup {NoOutcome}]
  /\ answer \in [Calls -> Outcomes \cup {NoOutcome}]
  /\ result \in [Calls -> Results]
  /\ requested \in SUBSET Ids
  /\ notices \in [Ids -> Nat]
  /\ routed \in SUBSET Ids

Init ==
  /\ requests = [i \in Ids |-> NoCall]
  /\ nextId = FirstId
  /\ closed = FALSE
  /\ terminal = [r \in Requests |-> "active"]
  /\ cx = [c \in Calls |-> FALSE]
  /\ pc = [c \in Calls |-> "start"]
  /\ id = [c \in Calls |-> NoId]
  /\ held = [c \in Calls |-> NoOutcome]
  /\ answer = [c \in Calls |-> NoOutcome]
  /\ result = [c \in Calls |-> "none"]
  /\ requested = {}
  /\ notices = [i \in Ids |-> 0]
  /\ routed = {}

-----------------------------------------------------------------------------
(* The tracker. *)

Live == {i \in Ids : requests[i] # NoCall}

\* Candidate number n of the scan.
Candidate(n) == IF Negative THEN nextId - n ELSE nextId + n

\* Faulty variant: no range filter, the counter runs past the domain.
NextIdUnfiltered(i) == IF Negative THEN i - 1 ELSE i + 1

NextIdAfter(i) ==
  IF i = LastId THEN NoId ELSE IF Negative THEN i - 1 ELSE i + 1

\* Faulty variant: off by one at the open end of the issued suffix.
SuffixClosed(i) == Negative /\ (nextId = NoId \/ nextId <= i)

\* Whether an id of the domain belongs to the already issued negative suffix.
IsIssuedNegativeSuffix(i) == Negative /\ (nextId = NoId \/ nextId < i)

Disposition(i) ==
  CASE requests[i] # NoCall -> "delivered"
    [] requests[i] = NoCall /\ IsIssuedNegativeSuffix(i) -> "retired"
    [] OTHER -> "unmatched"

\* The receiver will still be polled.
Receiving == {"registered", "sending", "waiting"}

Terminal(c) == Owner[c] # NoRequest /\ terminal[Owner[c]] # "active"

\* cx.checkpoint().is_err() || self.request_is_terminal()
Stopped(c) == cx[c] \/ Terminal(c)

\* Faulty variant: the guard forgets the entry.
ReleasedNever(c) == requests

\* PendingRequests::remove, a no-op when the entry is gone.
Released(c) ==
  IF id[c] \in Ids THEN [requests EXCEPT ![id[c]] = NoCall] ELSE requests

\* send_cancellation_notification: only for a sent request of the legacy era.
Notified(c) ==
  IF Legacy2024 /\ id[c] \in requested
    THEN [notices EXCEPT ![id[c]] = @ + 1]
    ELSE notices

\* A step inside send_request, a failed one, and one that leaves it: the
\* locals of a finished call go out of scope.
Goto(c, where) == pc' = [pc EXCEPT ![c] = where] /\ UNCHANGED <<answer, result>>

Fail(c, e) ==
  /\ pc' = [pc EXCEPT ![c] = "failed"]
  /\ answer' = [answer EXCEPT ![c] = e]
  /\ UNCHANGED result

Return(c, r) ==
  /\ pc' = [pc EXCEPT ![c] = "done"]
  /\ answer' = [answer EXCEPT ![c] = NoOutcome]
  /\ result' = [result EXCEPT ![c] = r]

\* PendingRequestGuard::finish and its drop: free the slot, tell nobody.
Finish(c, r) ==
  /\ requests' = Released(c)
  /\ Return(c, r)
  /\ UNCHANGED notices

\* PendingRequestGuard::cancel, and drop of an unfinished guard.
Abandon(c, r) ==
  /\ requests' = Released(c)
  /\ notices' = Notified(c)
  /\ Return(c, r)

-----------------------------------------------------------------------------
(* One call of send_request. *)

\* The first checkpoint, before anything is registered.
Begin(c) ==
  /\ pc[c] = "start"
  /\ IF Stopped(c) THEN Return(c, "cancelled") ELSE Goto(c, "checked")
  /\ UNCHANGED <<tracker, terminal, cx, id, held, peer>>

\* Install the waiter under the first vacant candidate, if the scan finds one.
Allocate(c) ==
  LET Usable(n) == Candidate(n) \in Ids /\ requests[Candidate(n)] = NoCall
      Scan == 0..MaxInFlight
  IN IF nextId # NoId /\ \E n \in Scan : Usable(n)
       THEN \E n \in Scan :
              /\ Usable(n)
              /\ \A m \in 0..(n - 1) : ~Usable(m)
              /\ requests' = [requests EXCEPT ![Candidate(n)] = c]
              /\ nextId' = NextIdAfter(Candidate(n))
              /\ id' = [id EXCEPT ![c] = Candidate(n)]
              /\ Goto(c, "registered")
       ELSE /\ nextId' = IF nextId # NoId /\ Candidate(MaxInFlight) \in Ids
                           THEN NextIdAfter(Candidate(MaxInFlight))
                           ELSE NoId
            /\ Return(c, "exhausted")
            /\ UNCHANGED <<requests, id>>

Refuse(c, r) == Return(c, r) /\ UNCHANGED <<requests, nextId, id>>

\* Faulty variant: no check of the closed flag.
RegisterAfterClose(c) ==
  /\ pc[c] = "checked"
  /\ IF Cardinality(Live) >= MaxInFlight THEN Refuse(c, "limit") ELSE Allocate(c)
  /\ UNCHANGED <<closed, terminal, cx, held, peer>>

\* Faulty variant: the limit is checked with > instead of >=.
RegisterOneTooMany(c) ==
  /\ pc[c] = "checked"
  /\ IF closed THEN Refuse(c, "closed")
     ELSE IF Cardinality(Live) > MaxInFlight THEN Refuse(c, "limit")
     ELSE Allocate(c)
  /\ UNCHANGED <<closed, terminal, cx, held, peer>>

\* register_with_cancellation: one critical section.
Register(c) ==
  /\ pc[c] = "checked"
  /\ IF closed THEN Refuse(c, "closed")
     ELSE IF Cardinality(Live) >= MaxInFlight THEN Refuse(c, "limit")
     ELSE Allocate(c)
  /\ UNCHANGED <<closed, terminal, cx, held, peer>>

\* The checkpoint between registration and send; the guard frees the slot.
Recheck(c) ==
  /\ pc[c] = "registered"
  /\ IF Stopped(c)
       THEN Abandon(c, "cancelled")
       ELSE Goto(c, "sending") /\ UNCHANGED <<requests, notices>>
  /\ UNCHANGED <<nextId, closed, terminal, cx, id, held, requested, routed>>

\* send_fn succeeds and the guard is marked, or fails and the guard is dropped.
Send(c, ok) ==
  /\ pc[c] = "sending"
  /\ IF ok
       THEN /\ requested' = requested \cup {id[c]}
            /\ Goto(c, "waiting")
            /\ UNCHANGED <<requests, notices>>
       ELSE Abandon(c, "send_error") /\ UNCHANGED requested
  /\ UNCHANGED <<nextId, closed, terminal, cx, id, held, routed>>

\* Faulty variant: the wait does not watch the owning request.
PollCxOnly(c) ==
  /\ pc[c] = "waiting"
  /\ cx[c]
  /\ Fail(c, "cancelled")
  /\ UNCHANGED <<tracker, terminal, cx, id, held, peer>>

\* The poll finds the owning request terminal, or recv observes the Cx.
PollStopped(c) ==
  /\ pc[c] = "waiting"
  /\ Stopped(c)
  /\ Fail(c, "cancelled")
  /\ UNCHANGED <<tracker, terminal, cx, id, held, peer>>

\* The poll takes the value out of the oneshot channel.
PollReceive(c) ==
  /\ pc[c] = "waiting"
  /\ answer[c] # NoOutcome
  /\ Goto(c, "polled")
  /\ UNCHANGED <<tracker, terminal, cx, id, held, peer>>

\* The check after polling: request termination owns the tie.
PollDecide(c) ==
  /\ pc[c] = "polled"
  /\ IF Terminal(c) THEN Fail(c, "cancelled")
     ELSE IF answer[c] \in {"ok", "undecodable"} THEN Goto(c, "accepted")
     ELSE Goto(c, "failed")
  /\ UNCHANGED <<tracker, terminal, cx, id, held, peer>>

\* Faulty variant: a cancelled call finishes its guard like any other error.
FailCallSilently(c) ==
  /\ pc[c] = "failed"
  /\ Finish(c, answer[c])
  /\ UNCHANGED <<nextId, closed, terminal, cx, id, held, requested, routed>>

\* The error arm of send_request.
FailCall(c) ==
  /\ pc[c] = "failed"
  /\ IF answer[c] \in {"cancelled", "remote_cancelled"} /\ Stopped(c)
       THEN Abandon(c, answer[c])
       ELSE Finish(c, answer[c])
  /\ UNCHANGED <<nextId, closed, terminal, cx, id, held, requested, routed>>

\* Faulty variant: no check for cancellation before the payload is decoded.
AcceptUnchecked(c) ==
  /\ pc[c] = "accepted"
  /\ Finish(c, IF answer[c] = "ok" THEN "ok" ELSE "payload_error")
  /\ UNCHANGED <<nextId, closed, terminal, cx, id, held, requested, routed>>

\* The success arm: cancellation first, then the typed payload.
AcceptResponse(c) ==
  /\ pc[c] = "accepted"
  /\ IF Stopped(c)
       THEN Abandon(c, "cancelled")
       ELSE Finish(c, IF answer[c] = "ok" THEN "ok" ELSE "payload_error")
  /\ UNCHANGED <<nextId, closed, terminal, cx, id, held, requested, routed>>

\* The future is dropped at its only await point.
DropCall(c) ==
  /\ pc[c] = "waiting"
  /\ Abandon(c, "dropped")
  /\ UNCHANGED <<nextId, closed, terminal, cx, id, held, requested, routed>>

-----------------------------------------------------------------------------
(* The connection loop, the peer and the owners of the calls. *)

\* Faulty variant: the entry is looked up and stays in the map.
RoutePeek(i, v) ==
  /\ Disposition(i) = "delivered"
  /\ held' = [held EXCEPT ![requests[i]] = v]
  /\ routed' = routed \cup {i}
  /\ UNCHANGED <<tracker, terminal, cx, id, call, requested, notices>>

\* route_response_with_disposition: the critical section.
RouteResponse(i, v) ==
  /\ Disposition(i) = "delivered"
  /\ requests' = [requests EXCEPT ![i] = NoCall]
  /\ held' = [held EXCEPT ![requests[i]] = v]
  /\ routed' = routed \cup {i}
  /\ UNCHANGED <<nextId, closed, terminal, cx, id, call, requested, notices>>

\* send_blocking after the critical section; a value nobody will poll is lost.
HandOver(c) ==
  /\ held[c] # NoOutcome
  /\ held' = [held EXCEPT ![c] = NoOutcome]
  /\ answer' = IF pc[c] \in Receiving THEN [answer EXCEPT ![c] = held[c]] ELSE answer
  /\ UNCHANGED <<tracker, terminal, cx, id, pc, result, peer>>

\* Faulty variant: the waiters are dropped without a value.
EvictSilently(gone, v) ==
  /\ requests' = [i \in Ids |-> IF i \in gone THEN NoCall ELSE requests[i]]
  /\ UNCHANGED held

\* Removing a set of ids from the map and sending each waiter the same error.
Evict(gone, v) ==
  /\ requests' = [i \in Ids |-> IF i \in gone THEN NoCall ELSE requests[i]]
  /\ held' = [c \in Calls |-> IF \E i \in gone : requests[i] = c THEN v ELSE held[c]]

\* cancel_cancelled, run by the connection loop after an accepted cancellation.
CancelCancelled ==
  /\ \E r \in Requests : terminal[r] = "cancelled"
  /\ Evict({i \in Live : Terminal(requests[i])}, "cancelled")
  /\ UNCHANGED <<nextId, closed, terminal, cx, id, call, peer>>

\* cancel_all at connection teardown.
CancelAll ==
  /\ closed' = TRUE
  /\ Evict(Live, "closed")
  /\ UNCHANGED <<nextId, terminal, cx, id, call, peer>>

\* McpRequestCancellation::cancel and ::begin_finalization: one CAS each.
Terminate(r, to) ==
  /\ terminal[r] = "active"
  /\ terminal' = [terminal EXCEPT ![r] = to]
  /\ UNCHANGED <<tracker, cx, id, held, call, peer>>

CancelRequest(r) == Terminate(r, "cancelled")

BeginFinalization(r) == Terminate(r, "finalizing")

\* The caller-owned Cx is cancelled or runs out of budget (external).
CancelCx(c) ==
  /\ ~cx[c]
  /\ cx' = [cx EXCEPT ![c] = TRUE]
  /\ UNCHANGED <<tracker, terminal, id, held, call, peer>>

\* The steps a call takes by itself once it has been started.
CallStep(c) ==
  \/ Register(c)
  \/ Recheck(c)
  \/ \E ok \in BOOLEAN : Send(c, ok)
  \/ PollStopped(c)
  \/ PollReceive(c)
  \/ PollDecide(c)
  \/ FailCall(c)
  \/ AcceptResponse(c)

Next ==
  \/ \E c \in Calls : \/ Begin(c)
                      \/ CallStep(c)
                      \/ DropCall(c)
                      \/ HandOver(c)
                      \/ CancelCx(c)
  \/ \E i \in Ids, v \in PeerOutcomes : RouteResponse(i, v)
  \/ \E r \in Requests : CancelRequest(r) \/ BeginFinalization(r)
  \/ CancelCancelled
  \/ CancelAll

Spec == Init /\ [][Next]_vars

(***************************************************************************)
(* The runtime keeps polling a started call whose waker fired, and the     *)
(* synchronous sender that took a waiter out of the map runs on to         *)
(* send_blocking.  Nothing is assumed of the peer or of cancellation.      *)
(***************************************************************************)
Fairness == \A c \in Calls : WF_vars(CallStep(c)) /\ WF_vars(HandOver(c))

FairSpec == Spec /\ Fairness

-----------------------------------------------------------------------------
(* Properties. *)

\* register_with_cancellation never lets the map grow past max_in_flight,
\* however registrations, responses and evictions interleave.
InFlightBound == Cardinality(Live) <= MaxInFlight

\* cancel_all: "prevents a request racing with connection teardown from
\* installing an orphaned waiter after the drain".
ClosedIsEmpty == closed => Live = {}

\* Every exit of send_request, error paths and dropped futures included,
\* leaves the map without its entry.
NoLeakedSlot ==
  \A i \in Live : id[requests[i]] = i /\ pc[requests[i]] # "done"

\* A waiting call can always still be answered: its entry is in the map, or
\* whoever removed the entry owes it a value, or the value has arrived.  The
\* oneshot is never closed under it (RESPONSE_CHANNEL_ERROR is unreachable).
WaiterReachable ==
  \A c \in Calls : pc[c] \in Receiving =>
    \/ requests[id[c]] = c
    \/ held[c] # NoOutcome
    \/ answer[c] # NoOutcome

\* A waiter is answered at most once: the entry, the value on its way and the
\* value in the channel exclude each other.
AnsweredOnce ==
  \A c \in Calls :
    pc[c] \in Receiving =>
      /\ requests[id[c]] = c => held[c] = NoOutcome /\ answer[c] = NoOutcome
      /\ held[c] # NoOutcome => answer[c] = NoOutcome

\* PendingRequestGuard: a legacy peer that was sent a request whose call ended
\* without a routed response is told to stop, unless the connection closed;
\* nobody is told twice, about an unsent request, or in another era.
PeerToldToStop ==
  /\ \A i \in Ids : notices[i] <= (IF Legacy2024 /\ i \in requested THEN 1 ELSE 0)
  /\ \A c \in Calls :
       /\ Legacy2024 /\ pc[c] = "done"
       /\ id[c] \in requested \ routed
       /\ result[c] # "closed"
       => notices[id[c]] = 1

\* is_issued_negative_suffix recognises, without a tombstone per request,
\* exactly the ids this tracker has issued, also once the domain is exhausted.
SuffixIsIssued ==
  \A i \in Ids : Negative =>
    (IsIssuedNegativeSuffix(i) <=> \E c \in Calls : id[c] = i)

\* Termination of the owning request takes precedence over an answer that
\* becomes visible together with it.
TerminalOwnerNeverAnswered ==
  [][\A c \in Calls : Terminal(c) /\ pc[c] # "done" => result'[c] # "ok"]_vars

\* The tracker's books are exact whatever interleaves: the map is typed, within
\* its limit and empty once closed, its entries belong to running calls, and
\* the classification of retired ids accepts the issued ones only
\* (register_with_cancellation, cancel_all, remove, is_issued_negative_suffix).
TrackerIsExact ==
  TypeOK /\ InFlightBound /\ ClosedIsEmpty /\ NoLeakedSlot /\ SuffixIsIssued

\* A waiting call is reached by exactly one value: never orphaned by routing,
\* eviction or teardown, and never answered twice by two of them.
WaitersAreServed == WaiterReachable /\ AnsweredOnce

\* Teardown, and the end of the owning request, release every started call,
\* although the peer never has to answer (cancel_all, cancel_cancelled and the
\* terminal checks of send_request).
CallsAreReleased ==
  \A c \in Calls : (closed \/ Terminal(c)) ~> (pc[c] \in {"start", "done"})
=============================================================================
