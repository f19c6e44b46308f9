------------------------ MODULE ReverseRequests_proofs ------------------------
(***************************************************************************)
(* Proofs about ReverseRequests, for every set of calls, every id domain   *)
(* and every in-flight limit.                                              *)
(***************************************************************************)
EXTENDS ReverseRequests, FiniteSetTheorems, TLAPS

(***************************************************************************)
(* The inductive invariant.  The map is only as good as the ids in it: a   *)
(* guard releases "its" id, so a waiter stays reachable only if no two     *)
(* calls ever share an id, which in turn holds because every issued id     *)
(* lies behind next_id.                                                    *)
(***************************************************************************)
Active == {"registered", "sending", "waiting", "polled", "failed", "accepted"}

Past(n, i) == n = NoId \/ (IF Negative THEN n < i ELSE i < n)

IdOfCall ==
  \A c \in Calls : /\ pc[c] \in {"start", "checked"} => id[c] = NoId
                   /\ pc[c] \in Active => id[c] \in Ids

Issued == \A c \in Calls : id[c] \in Ids => Past(nextId, id[c])

DistinctIds == \A c, d \in Calls : id[c] \in Ids /\ id[c] = id[d] => c = d

\* A call that polled its receiver holds a value until it returns, and the
\* two arms of send_request never hold each other's.
AnswerHeld ==
  \A c \in Calls :
    /\ pc[c] \in {"polled", "failed", "accepted"} => answer[c] # NoOutcome
    /\ pc[c] = "failed" => answer[c] \notin {"ok", "undecodable"}
    /\ pc[c] = "accepted" => answer[c] \in {"ok", "undecodable"}

IInv == /\ TypeOK
        /\ AnswerHeld
        /\ IdOfCall
        /\ Issued
        /\ DistinctIds
        /\ NoLeakedSlot
        /\ WaiterReachable
        /\ ClosedIsEmpty

-----------------------------------------------------------------------------
(* Facts about the operators. *)

\* The ids of a domain are integers, and nothing else is taken for one.
LEMMA IdsAreIntegers == Ids \subseteq Int /\ NoId \notin Ids /\ FirstId \in Ids
BY IdAssumption DEF Ids

\* Every error a waiter can be sent is also something send_request returns; a
\* successful outcome is renamed when the payload does not decode.
LEMMA OutcomesAreResults == Outcomes \ {"undecodable"} \subseteq Results
BY DEF Outcomes, PeerOutcomes, Results

\* next_id_after stays in the domain, moves past the id it is applied to and
\* never back over an id that was issued.
LEMMA NextIdAfterAdvances ==
  ASSUME NEW i \in Ids, NEW j \in Ids,
         nextId \in Ids \cup {NoId}, nextId' = NextIdAfter(i), ~Past(nextId, i)
  PROVE  /\ nextId' \in Ids \cup {NoId}
         /\ Past(nextId', i)
         /\ Past(nextId, j) => Past(nextId', j)
BY IdAssumption, IdsAreIntegers DEF NextIdAfter, Past, Ids

\* A registration either installs the call under a fresh, vacant id or leaves
\* the map alone.
LEMMA AllocateCases ==
  ASSUME TypeOK, NEW c \in Calls, Allocate(c)
  PROVE  /\ nextId' \in Ids \cup {NoId}
         /\ \A j \in Ids : Past(nextId, j) => Past(nextId', j)
         /\ \/ /\ Return(c, "exhausted")
               /\ UNCHANGED <<requests, id>>
            \/ \E i \in Ids : /\ requests[i] = NoCall
                              /\ ~Past(nextId, i) /\ Past(nextId', i)
                              /\ requests' = [requests EXCEPT ![i] = c]
                              /\ id' = [id EXCEPT ![c] = i]
                              /\ Goto(c, "registered")
<1> DEFINE Usable(n) == Candidate(n) \in Ids /\ requests[Candidate(n)] = NoCall
<1>0. nextId \in Ids \cup {NoId} /\ Ids \subseteq Int
  BY IdsAreIntegers DEF TypeOK
<1>1. ASSUME nextId # NoId, NEW n \in 0..MaxInFlight, Candidate(n) \in Ids
      PROVE  ~Past(nextId, Candidate(n))
  BY <1>0, <1>1, LimitAssumption DEF Past, Candidate
<1>2. CASE nextId # NoId /\ \E n \in 0..MaxInFlight : Usable(n)
  <2>1. PICK n \in 0..MaxInFlight :
             /\ Usable(n)
             /\ requests' = [requests EXCEPT ![Candidate(n)] = c]
             /\ nextId' = NextIdAfter(Candidate(n))
             /\ id' = [id EXCEPT ![c] = Candidate(n)]
             /\ Goto(c, "registered")
    BY <1>2 DEF Allocate
  <2>2. ~Past(nextId, Candidate(n))
    BY <1>1, <1>2, <2>1
  <2> QED
    BY <1>0, <2>1, <2>2, NextIdAfterAdvances
<1>3. CASE ~(nextId # NoId /\ \E n \in 0..MaxInFlight : Usable(n))
  <2>1. /\ nextId' = IF nextId # NoId /\ Candidate(MaxInFlight) \in Ids
                       THEN NextIdAfter(Candidate(MaxInFlight))
                       ELSE NoId
        /\ Return(c, "exhausted")
        /\ UNCHANGED <<requests, id>>
    BY <1>3 DEF Allocate
  <2>2. CASE nextId # NoId /\ Candidate(MaxInFlight) \in Ids
    <3>1. ~Past(nextId, Candidate(MaxInFlight))
      BY <1>1, <2>2, LimitAssumption
    <3> QED
      BY <1>0, <2>1, <2>2, <3>1, NextIdAfterAdvances
  <2>3. CASE ~(nextId # NoId /\ Candidate(MaxInFlight) \in Ids)
    BY <2>1, <2>3 DEF Past
  <2> QED
    BY <2>2, <2>3
<1> QED
  BY <1>2, <1>3

-----------------------------------------------------------------------------
(* The invariant is inductive. *)

LEMMA InitIInv == Init => IInv
<1> SUFFICES ASSUME Init PROVE IInv
  OBVIOUS
<1> USE IdsAreIntegers, CallAssumption DEF Init
<1>1. TypeOK
  BY DEF TypeOK, Results
<1>2. IdOfCall /\ Issued /\ DistinctIds /\ AnswerHeld
  BY DEF IdOfCall, Issued, DistinctIds, Active, AnswerHeld
<1>3. NoLeakedSlot /\ WaiterReachable /\ ClosedIsEmpty
  BY DEF NoLeakedSlot, WaiterReachable, ClosedIsEmpty, Live, Receiving
<1> QED
  BY <1>1, <1>2, <1>3 DEF IInv

\* Leaving send_request through the guard, with or without a notification.
LEMMA LeaveIInv ==
  ASSUME IInv, NEW c \in Calls, pc[c] \in Active, NEW r \in Results,
         Abandon(c, r) \/ Finish(c, r),
         UNCHANGED <<nextId, closed, terminal, cx, id, held, requested, routed>>
  PROVE  IInv'
<1> USE IdsAreIntegers, CallAssumption
<1>1. /\ requests' = [requests EXCEPT ![id[c]] = NoCall]
      /\ notices' \in [Ids -> Nat]
      /\ id[c] \in Ids
      /\ Return(c, r)
  BY DEF IInv, IdOfCall, TypeOK, Abandon, Finish, Released, Notified
<1>2. TypeOK'
  BY <1>1 DEF IInv, TypeOK, Return
<1>3. IdOfCall' /\ Issued' /\ DistinctIds' /\ AnswerHeld'
  BY <1>1 DEF IInv, IdOfCall, Issued, DistinctIds, AnswerHeld, Past, Active, TypeOK, Return
<1>4. NoLeakedSlot'
  BY <1>1 DEF IInv, NoLeakedSlot, Live, TypeOK, Return
<1>5. WaiterReachable' /\ ClosedIsEmpty'
  BY <1>1 DEF IInv, WaiterReachable, ClosedIsEmpty, IdOfCall, DistinctIds, Live, Receiving,
     Active, TypeOK, Return
<1> QED
  BY <1>2, <1>3, <1>4, <1>5 DEF IInv

\* Removing waiters from the map and sending each of them an error.
LEMMA EvictIInv ==
  ASSUME IInv, NEW gone \in SUBSET Live, NEW v \in {"closed", "cancelled"},
         Evict(gone, v),
         closed' = closed \/ (closed' = TRUE /\ gone = Live),
         UNCHANGED <<nextId, terminal, cx, id, call, peer>>
  PROVE  IInv'
<1> USE IdsAreIntegers, CallAssumption DEF IInv
<1>1. TypeOK'
  BY DEF TypeOK, Evict, Outcomes, call, peer
<1>2. IdOfCall' /\ Issued' /\ DistinctIds' /\ AnswerHeld'
  BY DEF IdOfCall, Issued, DistinctIds, AnswerHeld, Past, call
<1>3. NoLeakedSlot' /\ ClosedIsEmpty'
  BY DEF NoLeakedSlot, ClosedIsEmpty, Live, Evict, call, TypeOK
<1>4. WaiterReachable'
  BY DEF WaiterReachable, IdOfCall, Live, Receiving, Active, Evict, call, TypeOK, Outcomes
<1> QED
  BY <1>1, <1>2, <1>3, <1>4

LEMMA NextIInv == IInv /\ [Next]_vars => IInv'
<1> SUFFICES ASSUME IInv, [Next]_vars PROVE IInv'
  OBVIOUS
<1> USE IdsAreIntegers, CallAssumption DEF IInv
<1>1. ASSUME NEW c \in Calls, \/ Begin(c) \/ CallStep(c) \/ DropCall(c)
                              \/ HandOver(c) \/ CancelCx(c)
      PROVE  IInv'
  <2>1. CASE Begin(c)
    <3>1. TypeOK'
      BY <2>1 DEF TypeOK, IdOfCall, Active, Begin, Return, Goto, Results, tracker, peer
    <3>2. IdOfCall' /\ Issued' /\ DistinctIds' /\ AnswerHeld'
      BY <2>1 DEF IdOfCall, Issued, DistinctIds, AnswerHeld, Past, Active, TypeOK, Begin, Return, Goto, Results, tracker, peer
    <3>3. NoLeakedSlot' /\ WaiterReachable' /\ ClosedIsEmpty'
      BY <2>1 DEF NoLeakedSlot, WaiterReachable, ClosedIsEmpty, IdOfCall, Live, Receiving,
         Active, TypeOK, Begin, Return, Goto, Results, tracker, peer
    <3> QED
      BY <3>1, <3>2, <3>3
  <2>2. CASE Recheck(c)
    <3>1. CASE ~Stopped(c)
      <4>1. TypeOK'
        BY <2>2, <3>1 DEF TypeOK, IdOfCall, Active, Recheck, Goto
      <4>2. IdOfCall' /\ Issued' /\ DistinctIds' /\ AnswerHeld'
        BY <2>2, <3>1 DEF IdOfCall, Issued, DistinctIds, AnswerHeld, Past, Active, TypeOK,
           Recheck, Goto
      <4>3. NoLeakedSlot' /\ WaiterReachable' /\ ClosedIsEmpty'
        BY <2>2, <3>1 DEF NoLeakedSlot, WaiterReachable, ClosedIsEmpty, IdOfCall, Live,
           Receiving, Active, TypeOK, Recheck, Goto
      <4> QED
        BY <4>1, <4>2, <4>3
    <3>2. CASE ~(~Stopped(c))
      BY <2>2, <3>2, LeaveIInv DEF Recheck, Active, Results
    <3> QED
      BY <3>1, <3>2
  <2>3. CASE Send(c, TRUE) \/ Send(c, FALSE)
    <3>1. CASE Send(c, TRUE)
      <4>0. requested' \in SUBSET Ids
        BY <2>3, <3>1 DEF TypeOK, IdOfCall, Active, Send
      <4>1. TypeOK'
        BY <2>3, <3>1, <4>0 DEF TypeOK, Send, Goto
      <4>2. IdOfCall' /\ Issued' /\ DistinctIds' /\ AnswerHeld'
        BY <2>3, <3>1 DEF IdOfCall, Issued, DistinctIds, AnswerHeld, Past, Active, TypeOK,
           Send, Goto
      <4>3. NoLeakedSlot' /\ WaiterReachable' /\ ClosedIsEmpty'
        BY <2>3, <3>1 DEF NoLeakedSlot, WaiterReachable, ClosedIsEmpty, IdOfCall, Live,
           Receiving, Active, TypeOK, Send, Goto
      <4> QED
        BY <4>1, <4>2, <4>3
    <3>2. CASE ~(Send(c, TRUE))
      BY <2>3, <3>2, LeaveIInv DEF Send, Active, Results
    <3> QED
      BY <3>1, <3>2
  <2>4. CASE PollStopped(c)
    <3>1. TypeOK'
      BY <2>4 DEF TypeOK, IdOfCall, Active, PollStopped, Fail, Outcomes, tracker, peer
    <3>2. IdOfCall' /\ Issued' /\ DistinctIds' /\ AnswerHeld'
      BY <2>4 DEF IdOfCall, Issued, DistinctIds, AnswerHeld, Past, Active, TypeOK, PollStopped, Fail, Outcomes, tracker, peer
    <3>3. NoLeakedSlot' /\ WaiterReachable' /\ ClosedIsEmpty'
      BY <2>4 DEF NoLeakedSlot, WaiterReachable, ClosedIsEmpty, IdOfCall, Live, Receiving,
         Active, TypeOK, PollStopped, Fail, Outcomes, tracker, peer
    <3> QED
      BY <3>1, <3>2, <3>3
  <2>5. CASE PollReceive(c)
    <3>1. TypeOK'
      BY <2>5 DEF TypeOK, IdOfCall, Active, PollReceive, Goto, tracker, peer
    <3>2. IdOfCall' /\ Issued' /\ DistinctIds' /\ AnswerHeld'
      BY <2>5 DEF IdOfCall, Issued, DistinctIds, AnswerHeld, Past, Active, TypeOK, PollReceive, Goto, tracker, peer
    <3>3. NoLeakedSlot' /\ WaiterReachable' /\ ClosedIsEmpty'
      BY <2>5 DEF NoLeakedSlot, WaiterReachable, ClosedIsEmpty, IdOfCall, Live, Receiving,
         Active, TypeOK, PollReceive, Goto, tracker, peer
    <3> QED
      BY <3>1, <3>2, <3>3
  <2>6. CASE PollDecide(c)
    <3>1. TypeOK'
      BY <2>6 DEF TypeOK, IdOfCall, Active, PollDecide, Fail, Goto, Outcomes, tracker, peer
    <3>2. IdOfCall' /\ Issued' /\ DistinctIds' /\ AnswerHeld'
      BY <2>6 DEF IdOfCall, Issued, DistinctIds, AnswerHeld, Past, Active, TypeOK, PollDecide, Fail, Goto, Outcomes, tracker, peer
    <3>3. NoLeakedSlot' /\ WaiterReachable' /\ ClosedIsEmpty'
      BY <2>6 DEF NoLeakedSlot, WaiterReachable, ClosedIsEmpty, IdOfCall, Live, Receiving,
         Active, TypeOK, PollDecide, Fail, Goto, Outcomes, tracker, peer
    <3> QED
      BY <3>1, <3>2, <3>3
  <2>7. CASE FailCall(c)
    <3>0. pc[c] = "failed" /\ answer[c] \in Outcomes \ {"undecodable"}
      BY <2>7 DEF FailCall, AnswerHeld, TypeOK
    <3>1. answer[c] \in Results /\ pc[c] \in Active
      BY <3>0, OutcomesAreResults DEF Active
    <3> QED
      BY <2>7, <3>1, LeaveIInv DEF FailCall
  <2>8. CASE AcceptResponse(c)
    BY <2>8, LeaveIInv DEF AcceptResponse, Active, Results
  <2>9. CASE DropCall(c)
    BY <2>9, LeaveIInv DEF DropCall, Active, Results
  <2>10. CASE HandOver(c)
    <3>1. TypeOK'
      BY <2>10 DEF TypeOK, IdOfCall, Active, HandOver, Outcomes, tracker, peer
    <3>2. IdOfCall' /\ Issued' /\ DistinctIds' /\ AnswerHeld'
      BY <2>10 DEF IdOfCall, Issued, DistinctIds, AnswerHeld, Past, Active, TypeOK, HandOver, Receiving, Outcomes, tracker, peer
    <3>3. NoLeakedSlot' /\ WaiterReachable' /\ ClosedIsEmpty'
      BY <2>10 DEF NoLeakedSlot, WaiterReachable, ClosedIsEmpty, IdOfCall, Live, Receiving,
         Active, TypeOK, HandOver, Outcomes, tracker, peer
    <3> QED
      BY <3>1, <3>2, <3>3
  <2>11. CASE CancelCx(c)
    <3>1. TypeOK'
      BY <2>11 DEF TypeOK, IdOfCall, Active, CancelCx, tracker, peer, call
    <3>2. IdOfCall' /\ Issued' /\ DistinctIds' /\ AnswerHeld'
      BY <2>11 DEF IdOfCall, Issued, DistinctIds, AnswerHeld, Past, Active, TypeOK, CancelCx, tracker, peer, call
    <3>3. NoLeakedSlot' /\ WaiterReachable' /\ ClosedIsEmpty'
      BY <2>11 DEF NoLeakedSlot, WaiterReachable, ClosedIsEmpty, IdOfCall, Live, Receiving,
         Active, TypeOK, CancelCx, tracker, peer, call
    <3> QED
      BY <3>1, <3>2, <3>3
  <2>12. CASE Register(c)
    <3> USE <2>12
    <3>1. CASE Return(c, "closed") \/ Return(c, "limit") \/ Return(c, "exhausted")
      <4>1. CASE UNCHANGED <<requests, id>> /\ nextId' \in Ids \cup {NoId}
                 /\ \A j \in Ids : Past(nextId, j) => Past(nextId', j)
        <5>1. TypeOK'
          BY <3>1, <4>1 DEF TypeOK, Register, Return, Results, tracker, peer
        <5>2. IdOfCall' /\ AnswerHeld'
          BY <3>1, <4>1 DEF IdOfCall, AnswerHeld, Active, TypeOK, Return
        <5>4. Issued' /\ DistinctIds'
          BY <4>1 DEF Issued, DistinctIds, TypeOK
        <5>3. NoLeakedSlot' /\ WaiterReachable' /\ ClosedIsEmpty'
          BY <3>1, <4>1 DEF NoLeakedSlot, WaiterReachable, ClosedIsEmpty, IdOfCall,
             Live, Receiving, Active, TypeOK, Register, Return
        <5> QED
          BY <5>1, <5>2, <5>3, <5>4
      <4>2. CASE UNCHANGED <<requests, nextId, id>>
        BY <4>1, <4>2 DEF TypeOK
      <4> QED
        BY <3>1, <4>1, <4>2, AllocateCases DEF Register, Refuse, Goto, Return, TypeOK
    <3>2. CASE ~closed /\ Allocate(c) /\ Goto(c, "registered")
      <4>0. ~Return(c, "exhausted")
        BY <3>2 DEF Goto, Return, TypeOK
      <4>1. PICK i \in Ids : /\ requests[i] = NoCall
                             /\ ~Past(nextId, i) /\ Past(nextId', i)
                             /\ requests' = [requests EXCEPT ![i] = c]
                             /\ id' = [id EXCEPT ![c] = i]
        BY <3>2, <4>0, AllocateCases
      <4>2. nextId' \in Ids \cup {NoId} /\ \A j \in Ids : Past(nextId, j) => Past(nextId', j)
        BY <3>2, AllocateCases
      <4>3. TypeOK'
        BY <3>2, <4>1, <4>2 DEF TypeOK, Register, Goto, tracker, peer
      <4>4. IdOfCall' /\ AnswerHeld'
        BY <3>2, <4>1 DEF IdOfCall, AnswerHeld, Active, TypeOK, Register, Goto
      <4>6. \A d \in Calls : id[d] # i
        BY <4>1 DEF Issued
      <4>7. Issued' /\ DistinctIds'
        <5>1. Issued'
          BY <4>1, <4>2 DEF Issued, TypeOK
        <5>2. DistinctIds'
          BY <4>1, <4>6 DEF DistinctIds, TypeOK
        <5> QED
          BY <5>1, <5>2
      <4>5. NoLeakedSlot' /\ WaiterReachable' /\ ClosedIsEmpty'
        BY <3>2, <4>1 DEF NoLeakedSlot, WaiterReachable, ClosedIsEmpty, IdOfCall, Issued,
           Live, Receiving, Active, TypeOK, Register, Goto
      <4> QED
        BY <4>3, <4>4, <4>5, <4>7
    <3> QED
      BY <3>1, <3>2, AllocateCases DEF Register, Refuse
  <2> QED
    BY <1>1, <2>1, <2>2, <2>3, <2>4, <2>5, <2>6, <2>7, <2>8, <2>9, <2>10, <2>11, <2>12
    DEF CallStep
<1>2. ASSUME NEW i \in Ids, NEW v \in PeerOutcomes, RouteResponse(i, v)
      PROVE  IInv'
  <2>1. requests[i] \in Calls /\ requests[i] # NoCall
    BY <1>2 DEF RouteResponse, Disposition, TypeOK
  <2>2. TypeOK'
    BY <1>2, <2>1 DEF TypeOK, RouteResponse, Outcomes, call
  <2>3. IdOfCall' /\ Issued' /\ DistinctIds' /\ AnswerHeld'
    BY <1>2 DEF IdOfCall, Issued, DistinctIds, AnswerHeld, Past, RouteResponse, call
  <2>4. NoLeakedSlot' /\ WaiterReachable' /\ ClosedIsEmpty'
    BY <1>2, <2>1 DEF NoLeakedSlot, WaiterReachable, ClosedIsEmpty, IdOfCall,
       Live, Receiving, Active, TypeOK, RouteResponse, call, Outcomes
  <2> QED
    BY <2>2, <2>3, <2>4
<1>3. ASSUME NEW r \in Requests, CancelRequest(r) \/ BeginFinalization(r)
      PROVE  IInv'
  <2> USE DEF CancelRequest, BeginFinalization, Terminate, tracker, peer, call
  <2>1. TypeOK'
    BY <1>3 DEF TypeOK
  <2>2. IdOfCall' /\ Issued' /\ DistinctIds' /\ AnswerHeld'
    BY <1>3 DEF IdOfCall, Issued, DistinctIds, AnswerHeld, Past
  <2>3. NoLeakedSlot' /\ WaiterReachable' /\ ClosedIsEmpty'
    BY <1>3 DEF NoLeakedSlot, WaiterReachable, ClosedIsEmpty, Live
  <2> QED
    BY <2>1, <2>2, <2>3
<1>5. CASE CancelCancelled
  <2> DEFINE gone == {i \in Live : Terminal(requests[i])}
  <2>1. gone \in SUBSET Live
    OBVIOUS
  <2>2. Evict(gone, "cancelled") /\ closed' = closed
        /\ UNCHANGED <<nextId, terminal, cx, id, call, peer>>
    BY <1>5 DEF CancelCancelled
  <2> HIDE DEF gone
  <2> QED
    BY <2>1, <2>2, EvictIInv
<1>6. CASE CancelAll
  BY <1>6, EvictIInv DEF CancelAll
<1>7. CASE UNCHANGED vars
  BY <1>7 DEF TypeOK, IdOfCall, Issued, DistinctIds, AnswerHeld, Past, NoLeakedSlot, WaiterReachable,
     ClosedIsEmpty, Live, vars, tracker, peer, call
<1> QED
  BY <1>1, <1>2, <1>3, <1>5, <1>6, <1>7 DEF Next

\* Every reachable state satisfies the inductive invariant.
THEOREM Invariance == Spec => []IInv
<1>1. Init => IInv
  BY InitIInv
<1>2. IInv /\ [Next]_vars => IInv'
  BY NextIInv
<1> QED
  BY <1>1, <1>2, PTL DEF Spec

\* Every variable of the tracker and of its calls keeps its type.
THEOREM TypeCorrect == Spec => []TypeOK
<1>1. IInv => TypeOK
  BY DEF IInv
<1> QED
  BY <1>1, Invariance, PTL

\* No exit of send_request leaves an entry behind, whatever the number of
\* calls and however teardown, responses and cancellation interleave.
THEOREM SlotsAreFreed == Spec => []NoLeakedSlot
<1>1. IInv => NoLeakedSlot
  BY DEF IInv
<1> QED
  BY <1>1, Invariance, PTL

\* No waiter is ever orphaned: RESPONSE_CHANNEL_ERROR cannot occur.
THEOREM WaitersStayReachable == Spec => []WaiterReachable
<1>1. IInv => WaiterReachable
  BY DEF IInv
<1> QED
  BY <1>1, Invariance, PTL

\* A registration racing with cancel_all never lands in the drained map.
THEOREM TeardownLeavesNothing == Spec => []ClosedIsEmpty
<1>1. IInv => ClosedIsEmpty
  BY DEF IInv
<1> QED
  BY <1>1, Invariance, PTL

-----------------------------------------------------------------------------
(* The in-flight limit. *)

\* Only a registration adds an entry, and it adds one below the limit.
LEMMA LiveGrowsByOne ==
  ASSUME IInv, [Next]_vars
  PROVE  \/ Live' \subseteq Live
         \/ Cardinality(Live) < MaxInFlight /\ \E i \in Ids : Live' \subseteq Live \cup {i}
<1> USE IdsAreIntegers DEF IInv
<1>1. ASSUME NEW c \in Calls, Register(c)
      PROVE  \/ Live' \subseteq Live
             \/ /\ ~(Cardinality(Live) >= MaxInFlight)
                /\ \E i \in Ids : Live' \subseteq Live \cup {i}
  <2>1. CASE Allocate(c) /\ ~(Cardinality(Live) >= MaxInFlight)
    <3>1. \/ requests' = requests
          \/ \E i \in Ids : requests' = [requests EXCEPT ![i] = c]
      BY <2>1, AllocateCases
    <3> QED
      BY <2>1, <3>1 DEF Live, TypeOK
  <2>2. CASE requests' = requests
    BY <2>2 DEF Live
  <2> QED
    BY <1>1, <2>1, <2>2 DEF Register, Refuse
<1>2. ASSUME NEW c \in Calls,
             Recheck(c) \/ (\E ok \in BOOLEAN : Send(c, ok)) \/ FailCall(c)
               \/ AcceptResponse(c) \/ DropCall(c)
      PROVE  Live' \subseteq Live
  <2>1. requests' = requests \/ requests' = Released(c)
    BY <1>2 DEF Recheck, Send, FailCall, AcceptResponse, DropCall, Abandon, Finish
  <2> QED
    BY <2>1 DEF Live, Released, TypeOK
<1>3. ASSUME NEW c \in Calls,
             Begin(c) \/ PollStopped(c) \/ PollReceive(c) \/ PollDecide(c)
               \/ HandOver(c) \/ CancelCx(c)
      PROVE  Live' \subseteq Live
  BY <1>3 DEF Begin, PollStopped, PollReceive, PollDecide, HandOver, CancelCx, tracker, Live
<1>4. ASSUME NEW i \in Ids, NEW v \in PeerOutcomes, RouteResponse(i, v)
      PROVE  Live' \subseteq Live
  BY <1>4 DEF RouteResponse, Live, TypeOK
<1>5. ASSUME NEW r \in Requests, CancelRequest(r) \/ BeginFinalization(r)
      PROVE  Live' \subseteq Live
  BY <1>5 DEF CancelRequest, BeginFinalization, Terminate, tracker, Live
<1>6. CASE CancelCancelled \/ CancelAll
  <2>1. PICK gone \in SUBSET Ids :
             requests' = [i \in Ids |-> IF i \in gone THEN NoCall ELSE requests[i]]
    BY <1>6 DEF CancelCancelled, CancelAll, Evict, Live
  <2> QED
    BY <2>1 DEF Live
<1>7. CASE UNCHANGED vars
  BY <1>7 DEF vars, tracker, Live
<1>8. Cardinality(Live) \in Nat
  <2>1. IsFiniteSet(Ids)
    BY IdAssumption, FS_Interval DEF Ids
  <2>2. IsFiniteSet(Live)
    BY <2>1, FS_Subset DEF Live
  <2> QED
    BY <2>2, FS_CardinalityType
<1> QED
  BY <1>1, <1>2, <1>3, <1>4, <1>5, <1>6, <1>7, <1>8, LimitAssumption DEF Next, CallStep

\* The number of entries never exceeds the configured limit.
THEOREM LimitIsKept == Spec => []InFlightBound
<1>0. IsFiniteSet(Ids)
  BY IdAssumption, FS_Interval DEF Ids
<1>1. Init => InFlightBound
  <2> SUFFICES ASSUME Init PROVE InFlightBound
    OBVIOUS
  <2>1. Live = {}
    BY DEF Init, Live
  <2> QED
    BY <2>1, FS_EmptySet, LimitAssumption DEF InFlightBound
<1>2. IInv /\ InFlightBound /\ [Next]_vars => InFlightBound'
  <2> SUFFICES ASSUME IInv, InFlightBound, [Next]_vars PROVE InFlightBound'
    OBVIOUS
  <2>1. IsFiniteSet(Live) /\ IsFiniteSet(Live')
    BY <1>0, FS_Subset DEF Live
  <2>2. Cardinality(Live) \in Nat /\ Cardinality(Live') \in Nat
    BY <2>1, FS_CardinalityType
  <2>3. CASE Live' \subseteq Live
    BY <2>1, <2>2, <2>3, FS_Subset, LimitAssumption DEF InFlightBound
  <2>4. ASSUME NEW i \in Ids, Live' \subseteq Live \cup {i}, Cardinality(Live) < MaxInFlight
        PROVE  InFlightBound'
    <3>1. /\ IsFiniteSet(Live \cup {i})
          /\ Cardinality(Live \cup {i}) <= Cardinality(Live) + 1
      BY <2>1, <2>2, FS_AddElement
    <3>2. /\ Cardinality(Live \cup {i}) \in Nat
          /\ Cardinality(Live') <= Cardinality(Live \cup {i})
      BY <2>4, <3>1, FS_Subset, FS_CardinalityType
    <3> QED
      BY <2>2, <2>4, <3>1, <3>2, LimitAssumption DEF InFlightBound
  <2> QED
    BY <2>3, <2>4, LiveGrowsByOne
<1> QED
  BY <1>1, <1>2, Invariance, PTL DEF Spec

-----------------------------------------------------------------------------
(* The issued suffix of the id domain. *)

\* No id is skipped: the first candidate of a scan is always vacant.
Gapless == \A i \in Ids : Past(nextId, i) => \E c \in Calls : id[c] = i

\* What an allocation does once the first candidate is known to be vacant.
LEMMA AllocateTakesNext ==
  ASSUME IInv, NEW c \in Calls, Allocate(c)
  PROVE  \/ nextId = NoId /\ nextId' = NoId /\ id' = id
         \/ /\ nextId \in Ids
            /\ nextId' = NextIdAfter(nextId)
            /\ id' = [id EXCEPT ![c] = nextId]
<1> DEFINE Usable(n) == Candidate(n) \in Ids /\ requests[Candidate(n)] = NoCall
<1>1. CASE nextId = NoId
  BY <1>1 DEF Allocate
<1>2. CASE nextId # NoId
  <2>1. nextId \in Ids /\ nextId \in Int
    BY <1>2, IdsAreIntegers DEF IInv, TypeOK
  <2>2. Candidate(0) = nextId
    BY <2>1 DEF Candidate
  <2>3. ~Past(nextId, nextId)
    BY <1>2, <2>1 DEF Past
  <2>4. requests[nextId] = NoCall
    <3> SUFFICES ASSUME requests[nextId] # NoCall PROVE FALSE
      OBVIOUS
    <3>1. requests[nextId] \in Calls /\ id[requests[nextId]] = nextId
      BY <2>1 DEF IInv, TypeOK, NoLeakedSlot, Live
    <3> QED
      BY <2>1, <2>3, <3>1 DEF IInv, Issued
  <2>5. Usable(0) /\ 0 \in 0..MaxInFlight
    BY <2>1, <2>2, <2>4, LimitAssumption
  <2>6. PICK n \in 0..MaxInFlight :
             /\ \A m \in 0..(n - 1) : ~Usable(m)
             /\ nextId' = NextIdAfter(Candidate(n))
             /\ id' = [id EXCEPT ![c] = Candidate(n)]
    BY <1>2, <2>5 DEF Allocate
  <2>7. n = 0
    <3> SUFFICES ASSUME n # 0 PROVE FALSE
      OBVIOUS
    <3>1. 0 \in 0..(n - 1)
      BY LimitAssumption
    <3> QED
      BY <2>5, <2>6, <3>1
  <2> QED
    BY <2>1, <2>2, <2>6, <2>7
<1> QED
  BY <1>1, <1>2

LEMMA GaplessStep == IInv /\ Gapless /\ [Next]_vars => Gapless'
<1> SUFFICES ASSUME IInv, Gapless, [Next]_vars PROVE Gapless'
  OBVIOUS
<1>1. CASE UNCHANGED <<nextId, id>>
  BY <1>1 DEF Gapless
<1>2. ASSUME NEW c \in Calls, pc[c] = "checked", Allocate(c)
      PROVE  Gapless'
  <2>1. CASE nextId = NoId /\ nextId' = NoId /\ id' = id
    BY <2>1 DEF Gapless
  <2>2. CASE /\ nextId \in Ids
             /\ nextId' = NextIdAfter(nextId)
             /\ id' = [id EXCEPT ![c] = nextId]
    <3>1. \A i \in Ids : Past(nextId', i) => i = nextId \/ Past(nextId, i)
      BY <2>2, IdAssumption, IdsAreIntegers DEF NextIdAfter, Past, Ids
    <3>2. id \in [Calls -> Ids \cup {NoId}] /\ id[c] = NoId /\ NoId \notin Ids
      BY <1>2, IdsAreIntegers DEF IInv, TypeOK, IdOfCall
    <3>3. \A d \in Calls : id[d] \in Ids => id'[d] = id[d]
      BY <2>2, <3>2
    <3>4. id'[c] = nextId
      BY <2>2, <3>2
    <3> QED
      BY <2>2, <3>1, <3>3, <3>4 DEF Gapless
  <2> QED
    BY <1>2, <2>1, <2>2, AllocateTakesNext
<1>3. ASSUME NEW c \in Calls, Register(c)
      PROVE  Gapless'
  BY <1>1, <1>2, <1>3 DEF Register, Refuse
<1>4. ASSUME NEW c \in Calls,
             \/ Begin(c) \/ Recheck(c) \/ (\E ok \in BOOLEAN : Send(c, ok))
             \/ PollStopped(c) \/ PollReceive(c) \/ PollDecide(c) \/ FailCall(c)
             \/ AcceptResponse(c) \/ DropCall(c) \/ HandOver(c) \/ CancelCx(c)
      PROVE  UNCHANGED <<nextId, id>>
  BY <1>4 DEF Begin, Recheck, Send, PollStopped, PollReceive, PollDecide, FailCall,
     AcceptResponse, DropCall, HandOver, CancelCx, tracker
<1>5. ASSUME NEW i \in Ids, NEW v \in PeerOutcomes, RouteResponse(i, v)
      PROVE  UNCHANGED <<nextId, id>>
  BY <1>5 DEF RouteResponse
<1>6. ASSUME NEW r \in Requests, CancelRequest(r) \/ BeginFinalization(r)
      PROVE  UNCHANGED <<nextId, id>>
  BY <1>6 DEF CancelRequest, BeginFinalization, Terminate, tracker
<1>7. CASE CancelCancelled \/ CancelAll \/ UNCHANGED vars
  BY <1>1, <1>7 DEF CancelCancelled, CancelAll, vars, tracker
<1> QED
  BY <1>1, <1>3, <1>4, <1>5, <1>6, <1>7 DEF Next, CallStep

\* The O(1) classification of a response to a retired negative id is exact:
\* it accepts every id the tracker issued and no other, for any domain size.
THEOREM SuffixClassificationExact == Spec => []SuffixIsIssued
<1>1. Init => Gapless
  BY IdsAreIntegers, IdAssumption DEF Init, Gapless, Past, Ids
<1>2. IInv /\ Gapless /\ [Next]_vars => Gapless'
  BY GaplessStep
<1>3. IInv /\ Gapless => SuffixIsIssued
  BY DEF IInv, Issued, Gapless, SuffixIsIssued, IsIssuedNegativeSuffix, Past
<1> QED
  BY <1>1, <1>2, <1>3, Invariance, PTL DEF Spec

-----------------------------------------------------------------------------
(* What the peer is told. *)

\* Where a value on its way to a call comes from: the peer, or a cancellation
\* that the call can still observe.
Provenance ==
  \A c \in Calls : \A v \in {held[c], answer[c]} :
    /\ v \in PeerOutcomes => id[c] \in routed
    /\ v = "cancelled" => Stopped(c)

\* Only registered ids are sent, after the registration, and a call that is
\* still running has not told the peer anything.
SentIds ==
  /\ \A i \in requested : \E c \in Calls : id[c] = i
  /\ \A c \in Calls : pc[c] \in {"registered", "sending"} => id[c] \notin requested
  /\ \A c \in Calls : pc[c] \in Active => notices[id[c]] = 0

PeerInv == Provenance /\ SentIds /\ PeerToldToStop

\* Cancellation and finalization are final, and so is a cancelled Cx.
LEMMA StoppedIsStable ==
  ASSUME IInv, [Next]_vars, NEW c \in Calls, Stopped(c)
  PROVE  Stopped(c)'
<1>1. \A d \in Calls : cx[d] => cx'[d]
  <2>1. cx' = cx \/ \E d \in Calls : cx' = [cx EXCEPT ![d] = TRUE]
    BY DEF Next, CallStep, Begin, Register, Recheck, Send, PollStopped, PollReceive,
       PollDecide, FailCall, AcceptResponse, DropCall, HandOver, CancelCx, RouteResponse,
       CancelRequest, BeginFinalization, Terminate, CancelCancelled, CancelAll, vars
  <2> QED
    BY <2>1 DEF IInv, TypeOK
<1>2. \A r \in Requests : terminal[r] # "active" => terminal'[r] # "active"
  <2>1. \/ terminal' = terminal
        \/ \E r \in Requests, to \in {"cancelled", "finalizing"} :
             terminal' = [terminal EXCEPT ![r] = to]
    BY DEF Next, CallStep, Begin, Register, Recheck, Send, PollStopped, PollReceive,
       PollDecide, FailCall, AcceptResponse, DropCall, HandOver, CancelCx, RouteResponse,
       CancelRequest, BeginFinalization, Terminate, CancelCancelled, CancelAll, vars
  <2> QED
    BY <2>1 DEF IInv, TypeOK
<1> QED
  BY <1>1, <1>2, CallAssumption DEF Stopped, Terminal

\* Leaving send_request: cancel() and drop tell the peer, finish() may keep
\* silent because a response was routed or the connection is gone.
LEMMA LeaveKeepsPeerInv ==
  ASSUME IInv, PeerInv, [Next]_vars, NEW c \in Calls, pc[c] \in Active, NEW r \in Results,
         Abandon(c, r) \/ (Finish(c, r) /\ (r = "closed" \/ id[c] \in routed)),
         UNCHANGED <<nextId, closed, terminal, cx, id, held, requested, routed>>
  PROVE  PeerInv'
<1> USE DEF IInv, PeerInv
<1>1. Return(c, r) /\ id[c] \in Ids
  BY DEF Abandon, Finish, IdOfCall
<1>2. Provenance'
  BY <1>1, CallAssumption DEF Provenance, Return, TypeOK, Stopped, Terminal, Outcomes
<1>3. /\ notices' \in [Ids -> Nat]
      /\ \A i \in Ids : i # id[c] => notices'[i] = notices[i]
      /\ notices'[id[c]] <= (IF Legacy2024 /\ id[c] \in requested THEN 1 ELSE 0)
      /\ \/ notices'[id[c]] = 1
         \/ ~Legacy2024 \/ id[c] \notin requested \/ r = "closed" \/ id[c] \in routed
  BY <1>1 DEF Abandon, Finish, Notified, SentIds, TypeOK
<1>4. SentIds'
  BY <1>1, <1>3 DEF SentIds, Return, Active, TypeOK, DistinctIds, IdOfCall
<1>5. PeerToldToStop'
  BY <1>1, <1>3, IdsAreIntegers DEF PeerToldToStop, Return, TypeOK, DistinctIds
<1> QED
  BY <1>2, <1>4, <1>5

\* Leaving send_request before an id was registered.
LEMMA RefusalKeepsPeerInv ==
  ASSUME IInv, PeerInv, [Next]_vars, NEW c \in Calls, NEW r \in Results,
         pc[c] \in {"start", "checked"}, Return(c, r), UNCHANGED <<id, held, peer>>
  PROVE  PeerInv'
<1> USE DEF IInv, PeerInv
<1>1. id[c] = NoId /\ id[c] \notin requested
  BY IdsAreIntegers DEF IdOfCall, TypeOK
<1>2. \A d \in Calls : Stopped(d) => Stopped(d)'
  BY StoppedIsStable
<1>3. Provenance'
  BY <1>2, CallAssumption DEF Provenance, TypeOK, Return, Outcomes, peer
<1>4. SentIds'
  BY DEF SentIds, TypeOK, Return, Active, peer
<1>5. PeerToldToStop'
  BY <1>1 DEF PeerToldToStop, TypeOK, Return, peer
<1> QED
  BY <1>3, <1>4, <1>5

LEMMA PeerInvStep == IInv /\ PeerInv /\ [Next]_vars => PeerInv'
<1> SUFFICES ASSUME IInv, PeerInv, [Next]_vars PROVE PeerInv'
  OBVIOUS
<1> USE IdsAreIntegers, CallAssumption DEF IInv, PeerInv
<1>0. \A c \in Calls : Stopped(c) => Stopped(c)'
  BY StoppedIsStable
<1>1. ASSUME NEW c \in Calls, Begin(c)
      PROVE  PeerInv'
  <2>1. CASE Return(c, "cancelled")
    BY <1>1, <2>1, RefusalKeepsPeerInv DEF Begin, Results
  <2>2. CASE Goto(c, "checked")
    <3>1. Provenance'
      BY <1>0, <1>1, <2>2 DEF Begin, Provenance, TypeOK, Goto, Active, peer
    <3>2. SentIds' /\ PeerToldToStop'
      BY <1>1, <2>2 DEF Begin, SentIds, PeerToldToStop, TypeOK, Goto, Active, peer
    <3> QED
      BY <3>1, <3>2
  <2> QED
    BY <1>1, <2>1, <2>2 DEF Begin
<1>2. ASSUME NEW c \in Calls, Register(c)
      PROVE  PeerInv'
  <2>1. ASSUME NEW r \in Results, Return(c, r), id' = id
        PROVE  PeerInv'
    BY <1>2, <2>1, RefusalKeepsPeerInv DEF Register
  <2>2. ASSUME NEW i \in Ids, requests[i] = NoCall, ~Past(nextId, i),
               id' = [id EXCEPT ![c] = i], Goto(c, "registered")
        PROVE  PeerInv'
    <3>1. \A d \in Calls : id[d] # i
      BY <2>2 DEF Issued
    <3>2. i \notin requested /\ notices[i] = 0
      BY <3>1 DEF SentIds, PeerToldToStop, TypeOK
    <3>3. id[c] = NoId /\ id[c] \notin routed
      BY <1>2 DEF Register, IdOfCall, TypeOK
    <3>4. Provenance'
      BY <1>0, <1>2, <2>2, <3>3 DEF Register, Provenance, TypeOK, Goto, peer
    <3>5. SentIds'
      BY <1>2, <2>2, <3>2, <3>3 DEF Register, SentIds, TypeOK, Goto, Active, peer
    <3>6. PeerToldToStop'
      BY <1>2, <2>2, <3>2 DEF Register, PeerToldToStop, TypeOK, Goto, peer
    <3> QED
      BY <3>4, <3>5, <3>6
  <2>3. CASE Allocate(c)
    BY <2>1, <2>2, <2>3, AllocateCases DEF Results
  <2> QED
    BY <1>2, <2>1, <2>3 DEF Register, Refuse, Results
<1>3. ASSUME NEW c \in Calls, Recheck(c) \/ DropCall(c) \/ Send(c, FALSE)
      PROVE  PeerInv'
  <2>1. CASE Goto(c, "sending") /\ Recheck(c) /\ UNCHANGED notices
    <3>1. Provenance'
      BY <1>0, <2>1 DEF Recheck, Provenance, TypeOK, Goto, Active
    <3>2. SentIds' /\ PeerToldToStop'
      BY <2>1 DEF Recheck, SentIds, PeerToldToStop, TypeOK, Goto, Active
    <3> QED
      BY <3>1, <3>2
  <2>2. ASSUME NEW r \in Results, Abandon(c, r)
        PROVE  PeerInv'
    <3>1. pc[c] \in Active
          /\ UNCHANGED <<nextId, closed, terminal, cx, id, held, requested, routed>>
      BY <1>3 DEF Recheck, DropCall, Send, Active
    <3> QED
      BY <2>2, <3>1, LeaveKeepsPeerInv
  <2> QED
    BY <1>3, <2>1, <2>2 DEF Recheck, DropCall, Send, Results
<1>4. ASSUME NEW c \in Calls, Send(c, TRUE)
      PROVE  PeerInv'
  <2>1. id[c] \in Ids /\ notices[id[c]] = 0
    BY <1>4 DEF Send, IdOfCall, SentIds, Active
  <2>2. Provenance'
    BY <1>0, <1>4 DEF Send, Provenance, TypeOK, Goto, Active
  <2>3. SentIds'
    <3>1. \A i \in requested' : \E d \in Calls : id'[d] = i
      BY <1>4 DEF Send, SentIds
    <3>2. \A d \in Calls : pc'[d] \in {"registered", "sending"} => id'[d] \notin requested'
      BY <1>4, <2>1 DEF Send, SentIds, TypeOK, Goto, DistinctIds, IdOfCall, Active
    <3>3. \A d \in Calls : pc'[d] \in Active => notices'[id'[d]] = 0
      BY <1>4, <2>1 DEF Send, SentIds, TypeOK, Goto, Active
    <3> QED
      BY <3>1, <3>2, <3>3 DEF SentIds
  <2>4. PeerToldToStop'
    BY <1>4, <2>1 DEF Send, PeerToldToStop, TypeOK, Goto, DistinctIds
  <2> QED
    BY <2>2, <2>3, <2>4
<1>5. ASSUME NEW c \in Calls, PollStopped(c) \/ PollReceive(c) \/ PollDecide(c)
      PROVE  PeerInv'
  <2>1. Provenance'
    BY <1>0, <1>5 DEF PollStopped, PollReceive, PollDecide, Provenance, TypeOK, Goto, Fail,
       Active, Stopped, PeerOutcomes, peer
  <2>2. \E where \in Active : pc' = [pc EXCEPT ![c] = where]
                               /\ where \notin {"registered", "sending"}
    BY <1>5 DEF PollStopped, PollReceive, PollDecide, Goto, Fail, Active
  <2>3. pc[c] \in Active /\ UNCHANGED <<id, result, peer>>
    BY <1>5 DEF PollStopped, PollReceive, PollDecide, Goto, Fail, Active
  <2>4. SentIds'
    BY <2>2, <2>3 DEF SentIds, TypeOK, peer
  <2>5. PeerToldToStop'
    BY <2>2, <2>3 DEF PeerToldToStop, TypeOK, Active, peer
  <2> QED
    BY <2>1, <2>4, <2>5
<1>6. ASSUME NEW c \in Calls, FailCall(c) \/ AcceptResponse(c)
      PROVE  PeerInv'
  <2>1. pc[c] \in Active /\ UNCHANGED <<nextId, closed, terminal, cx, id, held, requested, routed>>
    BY <1>6 DEF FailCall, AcceptResponse, Active
  <2>2. ASSUME NEW r \in Results, Abandon(c, r)
        PROVE  PeerInv'
    BY <2>1, <2>2, LeaveKeepsPeerInv
  <2>3. ASSUME NEW r \in Results, Finish(c, r), r = "closed" \/ id[c] \in routed
        PROVE  PeerInv'
    BY <2>1, <2>3, LeaveKeepsPeerInv
  <2>4. CASE FailCall(c)
    <3>1. answer[c] \in Outcomes \ {"ok", "undecodable"}
      BY <2>4 DEF FailCall, AnswerHeld, TypeOK
    <3>2. answer[c] \in Results
      BY <3>1, OutcomesAreResults
    <3>3. /\ answer[c] \in PeerOutcomes => id[c] \in routed
          /\ answer[c] = "cancelled" => Stopped(c)
      BY <2>1 DEF Provenance
    <3>4. answer[c] \in PeerOutcomes \/ answer[c] = "closed" \/ answer[c] = "cancelled"
      BY <3>1 DEF Outcomes
    <3> QED
      BY <2>2, <2>3, <2>4, <3>2, <3>3, <3>4 DEF FailCall
  <2>5. CASE AcceptResponse(c)
    <3>0. answer[c] \in {"ok", "undecodable"}
      BY <2>5 DEF AcceptResponse, AnswerHeld
    <3>1. id[c] \in routed
      BY <3>0 DEF Provenance, PeerOutcomes
    <3> QED
      BY <2>2, <2>3, <2>5, <3>1 DEF AcceptResponse, Results
  <2> QED
    BY <1>6, <2>4, <2>5
<1>7. ASSUME NEW c \in Calls, HandOver(c)
      PROVE  PeerInv'
  <2>1. Provenance'
    BY <1>0, <1>7 DEF HandOver, Provenance, TypeOK, Outcomes, peer
  <2>2. SentIds' /\ PeerToldToStop'
    BY <1>7 DEF HandOver, SentIds, PeerToldToStop, peer
  <2> QED
    BY <2>1, <2>2
<1>8. ASSUME NEW i \in Ids, NEW v \in PeerOutcomes, RouteResponse(i, v)
      PROVE  PeerInv'
  <2>1. requests[i] \in Calls /\ id[requests[i]] = i
    BY <1>8 DEF RouteResponse, Disposition, TypeOK, NoLeakedSlot, Live
  <2>2. Provenance'
    BY <1>0, <1>8, <2>1 DEF RouteResponse, Provenance, TypeOK, call, PeerOutcomes
  <2>3. SentIds' /\ PeerToldToStop'
    BY <1>8 DEF RouteResponse, SentIds, PeerToldToStop, call
  <2> QED
    BY <2>2, <2>3
<1>9. CASE CancelCancelled
  <2>1. Provenance'
    BY <1>0, <1>9 DEF CancelCancelled, Evict, Provenance, TypeOK, call, peer, PeerOutcomes,
       Stopped, Live, NoLeakedSlot
  <2>2. SentIds' /\ PeerToldToStop'
    BY <1>9 DEF CancelCancelled, SentIds, PeerToldToStop, call, peer
  <2> QED
    BY <2>1, <2>2
<1>10. CASE CancelAll
  <2>1. Provenance'
    BY <1>0, <1>10 DEF CancelAll, Evict, Provenance, TypeOK, call, peer, PeerOutcomes
  <2>2. SentIds' /\ PeerToldToStop'
    BY <1>10 DEF CancelAll, SentIds, PeerToldToStop, call, peer
  <2> QED
    BY <2>1, <2>2
<1>11. ASSUME UNCHANGED <<id, held, call, peer>>
       PROVE  PeerInv'
  <2>1. Provenance'
    BY <1>0, <1>11 DEF Provenance, call, peer
  <2>2. SentIds' /\ PeerToldToStop'
    BY <1>11 DEF SentIds, PeerToldToStop, call, peer
  <2> QED
    BY <2>1, <2>2
<1>12. ASSUME NEW c \in Calls, CancelCx(c)
       PROVE  PeerInv'
  BY <1>11, <1>12 DEF CancelCx
<1>13. ASSUME NEW r \in Requests, CancelRequest(r) \/ BeginFinalization(r)
       PROVE  PeerInv'
  BY <1>11, <1>13 DEF CancelRequest, BeginFinalization, Terminate
<1>14. CASE UNCHANGED vars
  BY <1>11, <1>14 DEF vars
<1> QED
  BY <1>1, <1>2, <1>3, <1>4, <1>5, <1>6, <1>7, <1>8, <1>9, <1>10, <1>12, <1>13, <1>14
  DEF Next, CallStep

\* A legacy peer whose request is abandoned without a response is told to stop,
\* once; nobody else is told anything.
THEOREM AbandonedPeersAreTold == Spec => []PeerToldToStop
<1>1. Init => PeerInv
  BY IdsAreIntegers, CallAssumption
  DEF Init, PeerInv, Provenance, SentIds, PeerToldToStop, Active, Outcomes
<1>2. IInv /\ PeerInv /\ [Next]_vars => PeerInv'
  BY PeerInvStep
<1>3. PeerInv => PeerToldToStop
  BY DEF PeerInv
<1> QED
  BY <1>1, <1>2, <1>3, Invariance, PTL DEF Spec

-----------------------------------------------------------------------------
(* One value for each waiter. *)

\* A call owns one oneshot: nothing is sent to it before it registers, nothing
\* is on its way while its entry is in the map, and what has arrived is not
\* followed by another value.
OneValue ==
  \A c \in Calls :
    /\ pc[c] \in {"start", "checked"} => held[c] = NoOutcome /\ answer[c] = NoOutcome
    /\ pc[c] \in Receiving /\ held[c] # NoOutcome => answer[c] = NoOutcome
    /\ \A i \in Ids : requests[i] = c =>
         held[c] = NoOutcome /\ (pc[c] \in Receiving => answer[c] = NoOutcome)

\* Steps that move one call on, or out, and at most take entries off the map.
LEMMA MovingKeepsOneValue ==
  ASSUME IInv, OneValue, NEW c \in Calls, NEW where, NEW v,
         \A i \in Ids : requests'[i] \in {requests[i], NoCall},
         held' = held,
         pc' = [pc EXCEPT ![c] = where],
         \/ answer' = answer /\ (where \in Receiving => pc[c] \in Receiving)
         \/ answer' = [answer EXCEPT ![c] = v] /\ where \notin Receiving,
         where # "start",
         where = "checked" => pc[c] = "start" /\ answer' = answer
  PROVE  OneValue'
BY CallAssumption DEF IInv, TypeOK, OneValue, Receiving

\* A guard takes at most its own entry off the map.
LEMMA ReleasedShrinks ==
  ASSUME TypeOK, NEW c \in Calls, requests' = Released(c) \/ requests' = requests
  PROVE  \A i \in Ids : requests'[i] \in {requests[i], NoCall}
BY DEF TypeOK, Released

\* Whoever takes entries off the map owes each of their waiters one value.
LEMMA EvictKeepsOneValue ==
  ASSUME IInv, OneValue, NEW gone \in SUBSET Ids, NEW v,
         Evict(gone, v), UNCHANGED <<pc, answer>>
  PROVE  OneValue'
<1> SUFFICES ASSUME NEW c \in Calls
             PROVE  /\ pc[c] \in {"start", "checked"} => held'[c] = NoOutcome /\ answer[c] = NoOutcome
                    /\ pc[c] \in Receiving /\ held'[c] # NoOutcome => answer[c] = NoOutcome
                    /\ \A i \in Ids : requests'[i] = c =>
                         held'[c] = NoOutcome /\ (pc[c] \in Receiving => answer[c] = NoOutcome)
  BY DEF OneValue
<1>1. \A i \in Ids : requests[i] = c => id[c] = i /\ pc[c] # "done"
  BY CallAssumption DEF IInv, NoLeakedSlot, Live
<1>2. CASE \E i \in gone : requests[i] = c
  <2>1. \A i \in Ids : requests'[i] # c
    BY <1>1, <1>2, CallAssumption DEF Evict
  <2>2. pc[c] \notin {"start", "checked"}
    BY <1>1, <1>2, IdsAreIntegers DEF IInv, IdOfCall
  <2> QED
    BY <1>2, <2>1, <2>2 DEF OneValue
<1>3. CASE ~ \E i \in gone : requests[i] = c
  <2>1. held'[c] = held[c] /\ \A i \in Ids : requests'[i] = c => requests[i] = c
    BY <1>3, CallAssumption DEF Evict
  <2> QED
    BY <2>1 DEF OneValue
<1> QED
  BY <1>2, <1>3

LEMMA OneValueStep == IInv /\ OneValue /\ [Next]_vars => OneValue'
<1> SUFFICES ASSUME IInv, OneValue, [Next]_vars PROVE OneValue'
  OBVIOUS
<1> USE CallAssumption
<1>0. TypeOK
  BY DEF IInv
<1>1. ASSUME NEW c \in Calls, Begin(c)
      PROVE  OneValue'
  <2>1. (\A i \in Ids : requests'[i] \in {requests[i], NoCall}) /\ held' = held
    BY <1>1 DEF Begin, tracker
  <2>2. CASE Return(c, "cancelled")
    BY <2>1, <2>2, MovingKeepsOneValue DEF Return, Receiving
  <2>3. CASE Goto(c, "checked")
    BY <1>1, <2>1, <2>3, MovingKeepsOneValue DEF Begin, Goto, Receiving
  <2> QED
    BY <1>1, <2>2, <2>3 DEF Begin
<1>2. ASSUME NEW c \in Calls, Register(c)
      PROVE  OneValue'
  <2>1. ASSUME NEW r, Return(c, r), requests' = requests
        PROVE  OneValue'
    BY <1>2, <2>1, MovingKeepsOneValue DEF Register, Return, Receiving
  <2>2. ASSUME NEW i \in Ids, requests[i] = NoCall, Goto(c, "registered"),
               requests' = [requests EXCEPT ![i] = c]
        PROVE  OneValue'
    BY <1>0, <1>2, <2>2 DEF Register, Goto, OneValue, TypeOK, Receiving
  <2>3. CASE Allocate(c)
    BY <1>0, <2>1, <2>2, <2>3, AllocateCases
  <2> QED
    BY <1>2, <2>1, <2>3 DEF Register, Refuse
<1>3. ASSUME NEW c \in Calls, pc[c] \in Active, held' = held,
             NEW r, Abandon(c, r) \/ Finish(c, r)
      PROVE  OneValue'
  <2>1. \A i \in Ids : requests'[i] \in {requests[i], NoCall}
    BY <1>0, <1>3, ReleasedShrinks DEF Abandon, Finish
  <2>2. Return(c, r)
    BY <1>3 DEF Abandon, Finish
  <2> QED
    BY <1>3, <2>1, <2>2, MovingKeepsOneValue DEF Return, Receiving
<1>4. ASSUME NEW c \in Calls, pc[c] \in Receiving, held' = held, requests' = requests,
             NEW where \in {"sending", "waiting", "polled"}, Goto(c, where)
      PROVE  OneValue'
  BY <1>4, MovingKeepsOneValue DEF Goto, Receiving
<1>5. ASSUME NEW c \in Calls, Recheck(c) \/ (\E ok \in BOOLEAN : Send(c, ok)) \/ DropCall(c)
      PROVE  OneValue'
  BY <1>3, <1>4, <1>5 DEF Recheck, Send, DropCall, Active, Receiving
<1>6. ASSUME NEW c \in Calls, PollStopped(c) \/ PollReceive(c) \/ PollDecide(c)
      PROVE  OneValue'
  <2>1. held' = held /\ requests' = requests /\ pc[c] \in {"waiting", "polled"}
    BY <1>6 DEF PollStopped, PollReceive, PollDecide, tracker
  <2>2. CASE Fail(c, "cancelled")
    BY <2>1, <2>2, MovingKeepsOneValue DEF Fail, Receiving
  <2>3. ASSUME NEW where \in {"polled", "failed", "accepted"}, Goto(c, where)
        PROVE  OneValue'
    BY <2>1, <2>3, MovingKeepsOneValue DEF Goto, Receiving
  <2> QED
    BY <1>6, <2>2, <2>3 DEF PollStopped, PollReceive, PollDecide
<1>7. ASSUME NEW c \in Calls, FailCall(c) \/ AcceptResponse(c)
      PROVE  OneValue'
  BY <1>3, <1>7 DEF FailCall, AcceptResponse, Active
<1>8. ASSUME NEW c \in Calls, HandOver(c)
      PROVE  OneValue'
  BY <1>0, <1>8 DEF HandOver, OneValue, TypeOK, tracker, Receiving
<1>9. ASSUME NEW i \in Ids, NEW v \in PeerOutcomes, RouteResponse(i, v)
      PROVE  OneValue'
  <2>1. requests[i] \in Calls /\ pc' = pc /\ answer' = answer
    BY <1>0, <1>9 DEF RouteResponse, Disposition, TypeOK, call
  <2>2. \A j \in Ids : requests[j] = requests[i] => j = i
    BY <2>1 DEF IInv, NoLeakedSlot, Live
  <2>3. Evict({i}, v)
    <3>1. requests' = [j \in Ids |-> IF j \in {i} THEN NoCall ELSE requests[j]]
      BY <1>0, <1>9 DEF RouteResponse, TypeOK
    <3>2. held' = [c \in Calls |-> IF \E j \in {i} : requests[j] = c THEN v ELSE held[c]]
      BY <1>0, <1>9 DEF RouteResponse, TypeOK
    <3> QED
      BY <3>1, <3>2 DEF Evict
  <2> QED
    BY <2>1, <2>3, EvictKeepsOneValue
<1>10. CASE CancelCancelled \/ CancelAll
  <2>1. pc' = pc /\ answer' = answer
        /\ \E gone \in SUBSET Ids, v \in Outcomes : Evict(gone, v)
    BY <1>10 DEF CancelCancelled, CancelAll, Live, call, Outcomes
  <2> QED
    BY <2>1, EvictKeepsOneValue
<1>11. ASSUME UNCHANGED <<requests, held, pc, answer>>
       PROVE  OneValue'
  BY <1>11 DEF OneValue
<1>12. ASSUME NEW c \in Calls, CancelCx(c)
       PROVE  OneValue'
  BY <1>11, <1>12 DEF CancelCx, tracker, call
<1>13. ASSUME NEW r \in Requests, CancelRequest(r) \/ BeginFinalization(r)
       PROVE  OneValue'
  BY <1>11, <1>13 DEF CancelRequest, BeginFinalization, Terminate, tracker, call
<1>14. CASE UNCHANGED vars
  BY <1>11, <1>14 DEF vars, tracker, call
<1> QED
  BY <1>1, <1>2, <1>5, <1>6, <1>7, <1>8, <1>9, <1>10, <1>12, <1>13, <1>14 DEF Next, CallStep

\* No waiter is answered twice: routing, eviction and teardown each take the
\* entry before they send, so at most one value is ever on its way.
THEOREM AnsweredAtMostOnce == Spec => []AnsweredOnce
<1>1. Init => OneValue
  BY CallAssumption DEF Init, OneValue, Receiving
<1>2. IInv /\ OneValue => AnsweredOnce
  BY DEF IInv, IdOfCall, Active, Receiving, OneValue, AnsweredOnce
<1> QED
  BY <1>1, <1>2, OneValueStep, Invariance, PTL DEF Spec

-----------------------------------------------------------------------------
(* Termination of the owner and the answer. *)

RunningHasNoResult == \A c \in Calls : pc[c] # "done" => result[c] = "none"

\* A step returns from at most one call, and returns an answer only to a call
\* that is not stopped.
LEMMA ReturnsOnce ==
  ASSUME IInv, [Next]_vars
  PROVE  \/ /\ result' = result
            /\ \A c \in Calls : pc'[c] # "done" => pc[c] # "done"
         \/ \E c \in Calls, r \in Results :
              /\ Return(c, r)
              /\ r = "ok" => ~Stopped(c)
<1> DEFINE Moves == /\ result' = result
                    /\ \A c \in Calls : pc'[c] # "done" => pc[c] # "done"
           Leaves(c) == \E r \in Results : Return(c, r) /\ (r = "ok" => ~Stopped(c))
<1> USE DEF Results
<1>0. /\ pc \in [Calls -> {"start", "checked", "registered", "sending", "waiting",
                           "polled", "failed", "accepted", "done"}]
      /\ TypeOK
  BY DEF IInv, TypeOK
<1>1. ASSUME NEW c \in Calls, pc[c] # "done", NEW where, Goto(c, where) \/ Fail(c, "cancelled")
      PROVE  Moves
  BY <1>0, <1>1 DEF Goto, Fail
<1>2. ASSUME NEW c \in Calls, NEW r \in Results \ {"ok"}, Abandon(c, r) \/ Finish(c, r)
      PROVE  Leaves(c)
  BY <1>2 DEF Abandon, Finish
<1>3. ASSUME NEW c \in Calls, Begin(c) \/ Recheck(c) \/ (\E ok \in BOOLEAN : Send(c, ok))
      PROVE  Moves \/ Leaves(c)
  BY <1>1, <1>2, <1>3 DEF Begin, Recheck, Send
<1>4. ASSUME NEW c \in Calls, Register(c)
      PROVE  Moves \/ Leaves(c)
  <2>1. CASE Allocate(c)
    BY <1>0, <1>1, <1>4, <2>1, AllocateCases DEF Register
  <2> QED
    BY <1>4, <2>1 DEF Register, Refuse
<1>5. ASSUME NEW c \in Calls, PollStopped(c) \/ PollReceive(c) \/ PollDecide(c)
      PROVE  Moves
  BY <1>1, <1>5 DEF PollStopped, PollReceive, PollDecide
<1>6. ASSUME NEW c \in Calls, FailCall(c)
      PROVE  Leaves(c)
  <2>1. answer[c] \in Results \ {"ok"}
    BY <1>6 DEF FailCall, IInv, AnswerHeld, TypeOK, Outcomes, PeerOutcomes
  <2> QED
    BY <1>2, <1>6, <2>1 DEF FailCall
<1>7. ASSUME NEW c \in Calls, AcceptResponse(c)
      PROVE  Leaves(c)
  <2>1. CASE Stopped(c)
    BY <1>2, <1>7, <2>1 DEF AcceptResponse
  <2>2. CASE ~Stopped(c)
    BY <1>7, <2>2 DEF AcceptResponse, Finish
  <2> QED
    BY <2>1, <2>2
<1>8. ASSUME NEW c \in Calls, DropCall(c)
      PROVE  Leaves(c)
  BY <1>2, <1>8 DEF DropCall
<1>9. ASSUME pc' = pc, result' = result
      PROVE  Moves
  BY <1>9
<1>10. ASSUME NEW c \in Calls, HandOver(c) \/ CancelCx(c)
       PROVE  Moves
  BY <1>9, <1>10 DEF HandOver, CancelCx, call
<1>11. ASSUME NEW i \in Ids, NEW v \in PeerOutcomes, RouteResponse(i, v)
       PROVE  Moves
  BY <1>9, <1>11 DEF RouteResponse, call
<1>12. ASSUME NEW r \in Requests, CancelRequest(r) \/ BeginFinalization(r)
       PROVE  Moves
  BY <1>9, <1>12 DEF CancelRequest, BeginFinalization, Terminate, call
<1>13. ASSUME CancelCancelled \/ CancelAll \/ UNCHANGED vars
       PROVE  Moves
  BY <1>9, <1>13 DEF CancelCancelled, CancelAll, vars, call
<1> HIDE DEF Moves, Leaves
<1>14. Moves \/ \E c \in Calls : Leaves(c)
  BY <1>3, <1>4, <1>5, <1>6, <1>7, <1>8, <1>10, <1>11, <1>12, <1>13 DEF Next, CallStep
<1> QED
  BY <1>14 DEF Moves, Leaves

\* Once the request that owns a call is cancelled or finalizing, send_request
\* no longer returns an answer, however the response raced the termination.
THEOREM TerminationWins == Spec => TerminalOwnerNeverAnswered
<1>1. Init => RunningHasNoResult
  BY DEF Init, RunningHasNoResult
<1>2. IInv /\ RunningHasNoResult /\ [Next]_vars => RunningHasNoResult'
  BY ReturnsOnce DEF IInv, TypeOK, RunningHasNoResult, Return
<1>3. IInv /\ RunningHasNoResult /\ [Next]_vars =>
        \A c \in Calls : Terminal(c) /\ pc[c] # "done" => result'[c] # "ok"
  BY ReturnsOnce DEF IInv, TypeOK, RunningHasNoResult, Return, Stopped
<1> QED
  BY <1>1, <1>2, <1>3, Invariance, PTL DEF Spec, TerminalOwnerNeverAnswered

-----------------------------------------------------------------------------
(* The properties the model checker looks at, for every instance. *)

\* The tracker's books are exact in every reachable state.
THEOREM TrackerStaysExact == Spec => []TrackerIsExact
BY TypeCorrect, LimitIsKept, TeardownLeavesNothing, SlotsAreFreed,
   SuffixClassificationExact, PTL DEF TrackerIsExact

\* A waiting call is reached by exactly one value, whoever removes its entry.
THEOREM WaitersStayServed == Spec => []WaitersAreServed
BY WaitersStayReachable, AnsweredAtMostOnce, PTL DEF WaitersAreServed
===============================================================================
