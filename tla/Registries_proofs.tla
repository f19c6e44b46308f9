-------------------------- MODULE Registries_proofs --------------------------
(***************************************************************************)
(* Proofs about the two registries of exchanges in progress:               *)
(* ExchangeRegistry, the server's, for any number of issuing requests and  *)
(* of racing retries and for all limits; and CallbackPool, the client's,   *)
(* for every set of requests, every assignment of ids, every limit, both   *)
(* pools and every combination of faults.                                  *)
(***************************************************************************)
EXTENDS ExchangeRegistry, CallbackPool, FiniteSetTheorems, TLAPS

-----------------------------------------------------------------------------
(* ExchangeRegistry *)

(***************************************************************************)
(* The inductive invariant.  A request state says nothing about the past   *)
(* of its exchange; the invariant does: who issued it, with which inputs   *)
(* and when, and which accepted retries account for the inputs that are    *)
(* no longer asked for.                                                    *)
(***************************************************************************)
ExchangeFields == {"owner", "expires", "round", "total", "requests", "responses", "binding"}
IssueFields == {"pc", "requests", "at"}
RetryFields == {"pc", "token", "binding", "answers", "stateOnly", "expected", "at", "gave",
                "owner"}

\* The fields of the records.
Shapes ==
  /\ \A k \in DOMAIN exchanges : DOMAIN exchanges[k] = ExchangeFields
  /\ DOMAIN issue = Issues /\ \A i \in Issues : DOMAIN issue[i] = IssueFields
  /\ DOMAIN retry = Retries /\ \A r \in Retries : DOMAIN retry[r] = RetryFields

\* Every retained exchange descends from what its owner issued.
Descends ==
  \A k \in DOMAIN exchanges :
    LET x == exchanges[k] IN
    /\ issue[x.owner].pc = "issued"
    /\ x.binding = BindingOf[x.owner]
    /\ x.expires = issue[x.owner].at + Ttl

\* An input is asked for or answered, by a retry of this exchange that was
\* accepted with the binding of the issuing request.
Accounted ==
  \A k \in DOMAIN exchanges :
    LET x == exchanges[k] IN
    /\ x.requests \cup DOMAIN x.responses = issue[x.owner].requests
    /\ \A key \in DOMAIN x.responses :
         LET q == x.responses[key] IN
         /\ q \in Retries /\ Accepted(q) /\ retry[q].answers[key]
         /\ retry[q].owner = x.owner /\ retry[q].binding = BindingOf[x.owner]

\* What is about to be issued is within the limit of inputs.
WithinInputs ==
  \A i \in Issues : issue[i].pc = "locking" => Cardinality(issue[i].requests) <= MaxInputs

\* An accepted retry belongs to an exchange that was issued, and hands on what
\* retries gave.
AcceptedWasIssued ==
  \A r \in Retries : Accepted(r) =>
    /\ retry[r].owner \in Issues /\ issue[retry[r].owner].pc = "issued"
    /\ \A k \in DOMAIN retry[r].gave : retry[r].gave[k] \in Retries

\* The fence holds for what is retained.
Fenced ==
  stateless_closed => \A k \in DOMAIN exchanges : exchanges[k].binding \notin Stateless

IInv == /\ TypeOK
        /\ Shapes
        /\ Descends
        /\ Accounted
        /\ WithinInputs
        /\ AcceptedWasIssued
        /\ Fenced
        /\ OneUse
        /\ CompletionIsExact
        /\ LimitsHold
        /\ DeadlineIsInherited

-----------------------------------------------------------------------------
(* Facts about the operators. *)

\* A retained set of states is finite: its states were drawn.
LEMMA StatesAreFinite == TypeOK => IsFiniteSet(DOMAIN exchanges)
<1>. SUFFICES ASSUME TypeOK PROVE IsFiniteSet(DOMAIN exchanges)
  OBVIOUS
<1>1. IsFiniteSet(1..minted)
  BY FS_Interval DEF TypeOK
<1>2. DOMAIN exchanges \subseteq 1..minted
  BY DEF TypeOK, Tokens
<1>. QED BY <1>1, <1>2, FS_Subset

\* Sets of inputs are finite and no part is larger than the whole.
LEMMA InputCounts ==
  ASSUME NEW S \in SUBSET Keys, NEW T \in SUBSET S
  PROVE  /\ Cardinality(S) \in Nat /\ Cardinality(T) \in Nat
         /\ Cardinality(T) <= Cardinality(S)
<1>1. IsFiniteSet(S)
  BY BindingAssumption, FS_Subset
<1>2. IsFiniteSet(T) /\ Cardinality(T) <= Cardinality(S)
  BY <1>1, FS_Subset
<1>. QED BY <1>1, <1>2, FS_CardinalityType

\* A retry that fails forgets everything.
LEMMA FailFields ==
  ASSUME Shapes, NEW r \in Retries, Fail(r)
  PROVE  /\ DOMAIN retry' = Retries /\ DOMAIN retry'[r] = RetryFields
         /\ \A q \in Retries \ {r} : retry'[q] = retry[q]
         /\ retry'[r].pc = "failed" /\ retry'[r].token = 0 /\ retry'[r].binding = Unbound
         /\ retry'[r].expected = {} /\ retry'[r].at = 0
BY DEF Shapes, Fail, NewRetry, RetryFields

\* An issue that is refused keeps its fields.
LEMMA RefusedFields ==
  ASSUME Shapes, NEW i \in Issues, Refused(i)
  PROVE  /\ DOMAIN issue' = Issues /\ DOMAIN issue'[i] = IssueFields
         /\ \A j \in Issues \ {i} : issue'[j] = issue[j]
         /\ issue'[i].pc = "refused" /\ issue'[i].requests = issue[i].requests
         /\ issue'[i].at = issue[i].at
BY DEF Shapes, Refused, IssueFields

\* A successor keeps owner, binding and deadline, asks for what this retry did
\* not answer and remembers who answered what.
LEMMA SuccessorFields ==
  ASSUME NEW r, NEW x, NEW got, DOMAIN x = ExchangeFields
  PROVE  /\ DOMAIN Successor(r, x, got) = ExchangeFields
         /\ Successor(r, x, got).owner = x.owner
         /\ Successor(r, x, got).binding = x.binding
         /\ Successor(r, x, got).expires = x.expires
         /\ Successor(r, x, got).round = x.round + 1
         /\ Successor(r, x, got).total = x.total + Cardinality(x.requests \ got)
         /\ Successor(r, x, got).requests = x.requests \ got
         /\ Successor(r, x, got).responses = Merge(x.responses, [k \in got |-> r])
BY DEF Successor, ExchangeFields

\* What a retry carries while it waits for the lock is kept when it is done.
LEMMA DoneFields ==
  ASSUME Shapes, NEW r \in Retries, NEW pc, NEW y, Done(r, pc, y)
  PROVE  /\ DOMAIN retry' = Retries /\ DOMAIN retry'[r] = RetryFields
         /\ \A q \in Retries \ {r} : retry'[q] = retry[q]
         /\ retry'[r].pc = pc /\ retry'[r].gave = y.responses /\ retry'[r].owner = y.owner
         /\ retry'[r].token = retry[r].token /\ retry'[r].binding = retry[r].binding
         /\ retry'[r].answers = retry[r].answers /\ retry'[r].expected = retry[r].expected
         /\ retry'[r].at = retry[r].at
BY DEF Shapes, Done, RetryFields

\* An issued exchange.
LEMMA ExchangeIsNew ==
  ASSUME NEW i, NEW req, NEW at
  PROVE  /\ DOMAIN Exchange(i, req, at) = ExchangeFields
         /\ Exchange(i, req, at).owner = i /\ Exchange(i, req, at).expires = at + Ttl
         /\ Exchange(i, req, at).round = 1 /\ Exchange(i, req, at).total = Cardinality(req)
         /\ Exchange(i, req, at).requests = req
         /\ DOMAIN Exchange(i, req, at).responses = {}
         /\ Exchange(i, req, at).binding = BindingOf[i]
BY DEF Exchange, ExchangeFields, Empty

-----------------------------------------------------------------------------
(* Steps that only remove exchanges: expiry, refusal, the fence. *)

Shrinks ==
  /\ DOMAIN exchanges' \subseteq DOMAIN exchanges
  /\ \A k \in DOMAIN exchanges' : exchanges'[k] = exchanges[k]

IssuedStays == \A i \in Issues : issue[i].pc = "issued" => issue'[i] = issue[i]

\* No retry is accepted in the step, and none that was changes.
NoneAccepted ==
  \A r \in Retries : /\ Accepted(r)' => Accepted(r)
                     /\ Accepted(r) => retry'[r] = retry[r]

\* Purging and removing one state only remove.
LEMMA RemovalShrinks ==
  ASSUME \/ UNCHANGED exchanges
         \/ \E t : exchanges' = PurgeStale(exchanges, t)
         \/ \E k : exchanges' = Without(k)
         \/ CloseStateless
  PROVE  Shrinks
BY DEF Shrinks, PurgeStale, Without, CloseStateless, Restrict

\* A step that accepts nothing and only removes exchanges keeps everything the
\* invariant says of exchanges and of accepted retries.
LEMMA ShrinkingKeeps ==
  ASSUME IInv, TypeOK', Shapes', WithinInputs', Shrinks, IssuedStays, NoneAccepted,
         stateless_closed' => stateless_closed \/ Fenced'
  PROVE  IInv'
<1>1. Descends' /\ Fenced'
  BY DEF IInv, Descends, Fenced, Shrinks, IssuedStays, TypeOK
<1>2. Accounted'
  <2>. SUFFICES ASSUME NEW k \in DOMAIN exchanges' PROVE Accounted!(k)'
    BY DEF Accounted
  <2>1. exchanges'[k] = exchanges[k] /\ issue'[exchanges[k].owner] = issue[exchanges[k].owner]
    BY DEF Shrinks, IInv, Descends, IssuedStays, TypeOK
  <2>2. Accounted!(k)
    BY DEF IInv, Accounted, Shrinks
  <2>. QED BY <2>1, <2>2 DEF NoneAccepted, Accepted
<1>3. AcceptedWasIssued' /\ DeadlineIsInherited'
  BY DEF IInv, AcceptedWasIssued, DeadlineIsInherited, NoneAccepted, IssuedStays
<1>4. OneUse'
  <2>1. \A r \in Retries : Accepted(r)' => Accepted(r) /\ retry'[r] = retry[r]
    BY DEF NoneAccepted
  <2>2. \A r \in Retries : retry'[r].pc = "complete" => retry[r].pc = "complete"
    BY <2>1 DEF Accepted
  <2>. QED BY <2>1, <2>2 DEF IInv, OneUse, Shrinks, Accepted
<1>5. CompletionIsExact'
  <2>. SUFFICES ASSUME NEW r \in Retries, retry'[r].pc = "complete"
                PROVE  CompletionIsExact!(r)'
    BY DEF CompletionIsExact
  <2>1. Accepted(r) /\ retry'[r] = retry[r]
    BY DEF NoneAccepted, Accepted
  <2>2. issue'[retry[r].owner] = issue[retry[r].owner]
    BY <2>1 DEF IInv, AcceptedWasIssued, IssuedStays
  <2>3. CompletionIsExact!(r)
    BY DEF IInv, CompletionIsExact
  <2>4. \A k \in DOMAIN retry[r].gave : retry[r].gave[k] \in Retries
    BY <2>1 DEF IInv, AcceptedWasIssued
  <2>. QED BY <2>1, <2>2, <2>3, <2>4 DEF NoneAccepted, Accepted
<1>6. LimitsHold'
  <2>1. Cardinality(DOMAIN exchanges') <= Cardinality(DOMAIN exchanges)
        /\ Cardinality(DOMAIN exchanges) \in Nat /\ Cardinality(DOMAIN exchanges') \in Nat
    BY StatesAreFinite, FS_Subset, FS_CardinalityType DEF IInv, Shrinks
  <2>. QED BY <2>1, LimitAssumption DEF IInv, LimitsHold, Shrinks
<1>. QED BY <1>1, <1>2, <1>3, <1>4, <1>5, <1>6 DEF IInv

-----------------------------------------------------------------------------
(* Every action preserves the invariant. *)

\* The checks of issue_at before the lock.
LEMMA IssueStartKeeps == ASSUME IInv, NEW i \in Issues, IssueStart(i) PROVE IInv'
<1>1. PICK req \in SUBSET Keys :
        \/ Refused(i)
        \/ /\ Cardinality(req) <= MaxInputs
           /\ issue' = [issue EXCEPT ![i] = [pc |-> "locking", requests |-> req, at |-> now]]
  <2>1. \A req \in SUBSET Keys : Cardinality(req) \in Nat
    BY InputCounts
  <2>. QED BY <2>1, LimitAssumption DEF IssueStart
<1>2. /\ DOMAIN issue' = Issues /\ DOMAIN issue'[i] = IssueFields
      /\ \A j \in Issues \ {i} : issue'[j] = issue[j]
      /\ issue'[i].pc \in {"locking", "refused"}
      /\ issue'[i].requests \subseteq Keys /\ issue'[i].at \in 0..now
      /\ issue'[i].pc = "locking" => Cardinality(issue'[i].requests) <= MaxInputs
  <2>1. CASE Refused(i)
    BY <2>1, RefusedFields DEF IInv, TypeOK
  <2>2. CASE ~Refused(i)
    BY <2>2, <1>1 DEF IInv, TypeOK, Shapes, IssueFields
  <2>. QED BY <2>1, <2>2
<1>3. TypeOK'
  BY <1>2 DEF IInv, TypeOK, Tokens, IssueStart
<1>4. Shapes' /\ WithinInputs'
  BY <1>2 DEF IInv, Shapes, WithinInputs, IssueStart
<1>5. Shrinks /\ IssuedStays /\ NoneAccepted
  BY <1>2 DEF IssueStart, Shrinks, IssuedStays, NoneAccepted, Accepted
<1>. QED BY <1>3, <1>4, <1>5, ShrinkingKeeps DEF IssueStart

\* Cancellation is a flag beside the registry.
LEMMA CancelKeeps == ASSUME IInv, NEW i \in Issues, Cancel(i) PROVE IInv'
<1>1. TypeOK' /\ Shapes' /\ WithinInputs'
  BY DEF IInv, TypeOK, Tokens, Shapes, WithinInputs, Cancel
<1>2. Shrinks /\ IssuedStays /\ NoneAccepted
  BY DEF Cancel, Shrinks, IssuedStays, NoneAccepted, Accepted
<1>. QED BY <1>1, <1>2, ShrinkingKeeps DEF Cancel

\* The clock moves while requests and retries hold what they read of it.
LEMMA TickKeeps == ASSUME IInv, Tick PROVE IInv'
<1>1. TypeOK'
  BY LimitAssumption DEF IInv, TypeOK, Tokens, Tick
<1>2. Shapes' /\ WithinInputs' /\ Shrinks /\ IssuedStays /\ NoneAccepted
  BY DEF IInv, Shapes, WithinInputs, Tick, Shrinks, IssuedStays, NoneAccepted, Accepted
<1>. QED BY <1>1, <1>2, ShrinkingKeeps DEF Tick

\* A step that removes states and touches nothing else keeps the types.
LEMMA ShrinkingTypes ==
  ASSUME IInv, Shrinks, UNCHANGED <<issue, retry, cancelled, now, minted>>,
         stateless_closed' \in BOOLEAN
  PROVE  TypeOK' /\ Shapes' /\ WithinInputs' /\ IssuedStays /\ NoneAccepted
<1>1. TypeOK'
  BY DEF IInv, TypeOK, Tokens, Shrinks
<1>. QED BY <1>1 DEF IInv, Shapes, WithinInputs, Shrinks, IssuedStays, NoneAccepted, Accepted

\* active_len purges.
LEMMA ActiveLenKeeps == ASSUME IInv, ActiveLen PROVE IInv'
<1>1. Shrinks
  BY RemovalShrinks DEF ActiveLen
<1>2. TypeOK' /\ Shapes' /\ WithinInputs' /\ IssuedStays /\ NoneAccepted
  BY <1>1, ShrinkingTypes DEF ActiveLen, IInv, TypeOK
<1>. QED BY <1>1, <1>2, ShrinkingKeeps DEF ActiveLen

\* close_stateless closes the fence and clears what it fences.
LEMMA CloseStatelessKeeps == ASSUME IInv, CloseStateless PROVE IInv'
<1>1. Shrinks
  BY RemovalShrinks
<1>2. TypeOK' /\ Shapes' /\ WithinInputs' /\ IssuedStays /\ NoneAccepted
  BY <1>1, ShrinkingTypes DEF CloseStateless
<1>3. Fenced'
  BY DEF CloseStateless, Fenced, Restrict, OutlivesFence
<1>. QED BY <1>1, <1>2, <1>3, ShrinkingKeeps

\* A retry moves on its thread, without being accepted.
Moves(r) ==
  /\ DOMAIN retry' = Retries /\ DOMAIN retry'[r] = RetryFields
  /\ \A q \in Retries \ {r} : retry'[q] = retry[q]
  /\ retry[r].pc \in {"ready", "decoding", "accepting"}
  /\ retry'[r].pc \in {"decoding", "accepting", "failed"}
  /\ retry'[r].token \in 0..minted /\ retry'[r].binding \in Bindings
  /\ retry'[r].expected \subseteq Keys /\ retry'[r].at \in 0..now

\* Such a step keeps the invariant whatever states it removes.
LEMMA MovingKeeps ==
  ASSUME IInv, NEW r \in Retries, Moves(r), Shrinks,
         UNCHANGED <<stateless_closed, issue, cancelled, now, minted>>
  PROVE  IInv'
<1>1. TypeOK'
  BY DEF IInv, TypeOK, Tokens, Shrinks, Moves
<1>2. Shapes' /\ WithinInputs'
  BY DEF IInv, Shapes, WithinInputs, Shrinks, Moves
<1>3. IssuedStays /\ NoneAccepted
  BY DEF IssuedStays, NoneAccepted, Accepted, Moves
<1>. QED BY <1>1, <1>2, <1>3, ShrinkingKeeps

\* A refused retry moves.
LEMMA FailMoves ==
  ASSUME IInv, NEW r \in Retries, retry[r].pc \in {"ready", "decoding", "accepting"}, Fail(r)
  PROVE  Moves(r)
<1>1. /\ DOMAIN retry' = Retries /\ DOMAIN retry'[r] = RetryFields
      /\ \A q \in Retries \ {r} : retry'[q] = retry[q]
      /\ retry'[r].pc = "failed" /\ retry'[r].token = 0 /\ retry'[r].binding = Unbound
      /\ retry'[r].expected = {} /\ retry'[r].at = 0
  BY FailFields DEF IInv
<1>. QED BY <1>1, BindingAssumption DEF Moves, IInv, TypeOK

\* accept reads the clock and waits for the lock.
LEMMA AcceptTypedMoves ==
  ASSUME IInv, NEW r \in Retries, AcceptTyped(r) PROVE Moves(r) /\ Shrinks
<1>1. PICK k \in Tokens, a \in Answers :
        \/ Fail(r)
        \/ retry' = [retry EXCEPT ![r] = [@ EXCEPT !.pc = "accepting",
                       !.token = k, !.answers = a, !.at = now]]
  BY DEF AcceptTyped
<1>2. Moves(r)
  <2>1. CASE Fail(r)
    BY <2>1, FailMoves DEF AcceptTyped
  <2>2. CASE ~Fail(r)
    <3>1. DOMAIN retry = Retries /\ DOMAIN retry[r] = RetryFields
      BY DEF IInv, Shapes
    <3>2. /\ DOMAIN retry' = Retries /\ DOMAIN retry'[r] = RetryFields
          /\ \A q \in Retries \ {r} : retry'[q] = retry[q]
          /\ retry'[r].pc = "accepting" /\ retry'[r].token = k
          /\ retry'[r].binding = retry[r].binding
          /\ retry'[r].expected = retry[r].expected /\ retry'[r].at = now
      BY <2>2, <1>1, <3>1 DEF RetryFields
    <3>. QED BY <3>2 DEF Moves, IInv, TypeOK, Tokens, AcceptTyped
  <2>. QED BY <2>1, <2>2
<1>. QED BY <1>2, RemovalShrinks DEF AcceptTyped

\* accept_state_only_bound does the same without answers.
LEMMA AcceptStateOnlyMoves ==
  ASSUME IInv, NEW r \in Retries, AcceptStateOnly(r) PROVE Moves(r) /\ Shrinks
<1>1. PICK k \in Tokens, b \in Bindings \ {Unbound} :
        \/ Fail(r)
        \/ retry' = [retry EXCEPT ![r] = [@ EXCEPT !.pc = "accepting",
                       !.token = k, !.binding = b, !.stateOnly = TRUE, !.at = now]]
  BY DEF AcceptStateOnly
<1>2. Moves(r)
  <2>1. CASE Fail(r)
    BY <2>1, FailMoves DEF AcceptStateOnly
  <2>2. CASE ~Fail(r)
    <3>1. DOMAIN retry = Retries /\ DOMAIN retry[r] = RetryFields
      BY DEF IInv, Shapes
    <3>2. /\ DOMAIN retry' = Retries /\ DOMAIN retry'[r] = RetryFields
          /\ \A q \in Retries \ {r} : retry'[q] = retry[q]
          /\ retry'[r].pc = "accepting" /\ retry'[r].token = k /\ retry'[r].binding = b
          /\ retry'[r].expected = retry[r].expected /\ retry'[r].at = now
      BY <2>2, <1>1, <3>1 DEF RetryFields
    <3>. QED BY <3>2 DEF Moves, IInv, TypeOK, Tokens, AcceptStateOnly
  <2>. QED BY <2>1, <2>2
<1>. QED BY <1>2, RemovalShrinks DEF AcceptStateOnly

\* The first critical section of a wire retry.
LEMMA AcceptWireMoves ==
  ASSUME IInv, NEW r \in Retries, AcceptWire(r) PROVE Moves(r) /\ Shrinks
<1>1. PICK k \in Tokens, b \in Bindings, a \in Answers :
        \/ Fail(r)
        \/ /\ k \in DOMAIN exchanges
           /\ retry' = [retry EXCEPT ![r] = [@ EXCEPT !.pc = "decoding",
                !.token = k, !.binding = b, !.answers = a, !.expected = exchanges[k].requests]]
  BY DEF AcceptWire, Bound
<1>2. Moves(r)
  <2>1. CASE Fail(r)
    BY <2>1, FailMoves DEF AcceptWire
  <2>2. CASE ~Fail(r)
    <3>1. DOMAIN retry = Retries /\ DOMAIN retry[r] = RetryFields
      BY DEF IInv, Shapes
    <3>2. /\ DOMAIN retry' = Retries /\ DOMAIN retry'[r] = RetryFields
          /\ \A q \in Retries \ {r} : retry'[q] = retry[q]
          /\ retry'[r].pc = "decoding" /\ retry'[r].token = k /\ retry'[r].binding = b
          /\ retry'[r].expected = exchanges[k].requests /\ retry'[r].at = retry[r].at
          /\ k \in DOMAIN exchanges
      BY <2>2, <1>1, <3>1 DEF RetryFields
    <3>. QED BY <3>2 DEF Moves, IInv, TypeOK, Tokens, AcceptWire
  <2>. QED BY <2>1, <2>2
<1>3. Shrinks
  BY RemovalShrinks DEF AcceptWire
<1>. QED BY <1>2, <1>3

\* Decoding happens without the lock and touches only the retry.
LEMMA DecodeMoves ==
  ASSUME IInv, NEW r \in Retries, Decode(r) PROVE Moves(r) /\ Shrinks
<1>1. \/ Fail(r)
      \/ \E known : retry' = [retry EXCEPT ![r] = [@ EXCEPT !.pc = "accepting", !.at = now,
                                !.answers = Restrict(@, known), !.expected = {}]]
  BY DEF Decode
<1>2. Moves(r)
  <2>1. CASE Fail(r)
    BY <2>1, FailMoves DEF Decode
  <2>2. CASE ~Fail(r)
    <3>1. DOMAIN retry = Retries /\ DOMAIN retry[r] = RetryFields
      BY DEF IInv, Shapes
    <3>2. /\ DOMAIN retry' = Retries /\ DOMAIN retry'[r] = RetryFields
          /\ \A q \in Retries \ {r} : retry'[q] = retry[q]
          /\ retry'[r].pc = "accepting" /\ retry'[r].token = retry[r].token
          /\ retry'[r].binding = retry[r].binding
          /\ retry'[r].expected = {} /\ retry'[r].at = now
      BY <2>2, <1>1, <3>1 DEF RetryFields
    <3>. QED BY <3>2 DEF Moves, IInv, TypeOK, Tokens, Decode
  <2>. QED BY <2>1, <2>2
<1>. QED BY <1>2, RemovalShrinks DEF Decode

\* One state is drawn for x, and others may be removed.
Grows(x) ==
  /\ minted' = minted + 1
  /\ minted' \in DOMAIN exchanges' /\ exchanges'[minted'] = x
  /\ \A k \in DOMAIN exchanges' \ {minted'} :
       k \in DOMAIN exchanges /\ exchanges'[k] = exchanges[k]

\* A state that is drawn was never drawn before.
LEMMA DrawnIsFresh ==
  ASSUME TypeOK, minted' = minted + 1
  PROVE  /\ minted' \in Nat /\ minted' \notin DOMAIN exchanges /\ Tokens \subseteq Tokens'
         /\ minted' \in Tokens'
         /\ \A r \in Retries : retry[r].token # minted' /\ retry[r].token \in 0..minted'
BY DEF TypeOK, Tokens

\* issue_at under the lock.
LEMMA IssueCommitKeeps == ASSUME IInv, NEW i \in Issues, IssueCommit(i) PROVE IInv'
<1>. DEFINE xs == PurgeStale(exchanges, issue[i].at)
            x == Exchange(i, issue[i].requests, issue[i].at)
<1>1. CASE exchanges' = xs /\ Refused(i) /\ UNCHANGED minted
  <2>1. Shrinks
    BY <1>1, RemovalShrinks
  <2>2. /\ DOMAIN issue' = Issues /\ DOMAIN issue'[i] = IssueFields
        /\ \A j \in Issues \ {i} : issue'[j] = issue[j]
        /\ issue'[i].pc = "refused" /\ issue'[i].requests = issue[i].requests
        /\ issue'[i].at = issue[i].at
    BY <1>1, RefusedFields DEF IInv
  <2>3. TypeOK'
    BY <1>1, <2>1, <2>2 DEF IInv, TypeOK, Tokens, Shrinks, IssueCommit
  <2>4. Shapes' /\ WithinInputs'
    BY <1>1, <2>1, <2>2 DEF IInv, Shapes, WithinInputs, Shrinks, IssueCommit
  <2>5. IssuedStays /\ NoneAccepted
    BY <2>2 DEF IssuedStays, NoneAccepted, Accepted, IssueCommit
  <2>. QED BY <2>1, <2>3, <2>4, <2>5, ShrinkingKeeps DEF IssueCommit
<1>2. CASE /\ Admits(i, xs)
           /\ minted' = minted + 1
           /\ exchanges' = Insert(xs, minted', x)
           /\ issue' = [issue EXCEPT ![i].pc = "issued"]
  <2>. /\ issue[i].pc = "locking"
       /\ UNCHANGED <<stateless_closed, retry, cancelled, now>>
    BY DEF IssueCommit
  <2>1. /\ DOMAIN issue' = Issues /\ DOMAIN issue'[i] = IssueFields
        /\ \A j \in Issues \ {i} : issue'[j] = issue[j]
        /\ issue'[i].pc = "issued" /\ issue'[i].requests = issue[i].requests
        /\ issue'[i].at = issue[i].at
    BY <1>2 DEF IInv, Shapes, IssueFields
  <2>2. /\ DOMAIN exchanges' = DOMAIN xs \cup {minted'} /\ DOMAIN xs \subseteq DOMAIN exchanges
        /\ Grows(x)
    BY <1>2 DEF Insert, PurgeStale, Restrict, Grows
  <2>3. /\ minted' \in Nat /\ minted' \notin DOMAIN exchanges /\ Tokens \subseteq Tokens'
        /\ minted' \in Tokens'
        /\ \A r \in Retries : retry[r].token # minted' /\ retry[r].token \in 0..minted'
    BY <1>2, DrawnIsFresh DEF IInv
  <2>4. /\ DOMAIN x = ExchangeFields
        /\ x.owner = i /\ x.expires = issue[i].at + Ttl
        /\ x.round = 1 /\ x.total = Cardinality(issue[i].requests)
        /\ x.requests = issue[i].requests /\ DOMAIN x.responses = {}
        /\ x.binding = BindingOf[i]
    BY ExchangeIsNew
  <2>5. /\ issue[i].requests \subseteq Keys /\ issue[i].at \in Nat /\ BindingOf[i] \in Bindings
        /\ Cardinality(issue[i].requests) \in Nat
        /\ Cardinality(issue[i].requests) <= MaxInputs
    BY InputCounts, BindingAssumption DEF IInv, TypeOK, WithinInputs
  <2>. HIDE DEF xs, x
  <2>6. \A k \in DOMAIN exchanges : exchanges[k].owner # i
    BY DEF IInv, Descends
  <2>7. \A r \in Retries : Accepted(r) => retry[r].owner # i /\ retry[r].owner \in Issues
    BY DEF IInv, AcceptedWasIssued
  <2>8. TypeOK'
    <3>1. x.expires \in Nat
      BY <2>4, <2>5, LimitAssumption
    <3>2. \A k \in DOMAIN exchanges' : TypeOK!1!(k)'
      BY <2>2, <2>3, <2>4, <2>5, <3>1 DEF IInv, TypeOK, Grows
    <3>3. \A j \in Issues : /\ issue'[j].pc \in {"ready", "locking", "issued", "refused"}
                            /\ issue'[j].requests \subseteq Keys /\ issue'[j].at \in 0..now'
      BY <2>1 DEF IInv, TypeOK
    <3>. QED BY <2>3, <3>2, <3>3 DEF IInv, TypeOK
  <2>9. Shapes' /\ WithinInputs'
    BY <2>1, <2>2, <2>4 DEF IInv, Shapes, WithinInputs, Grows
  <2>10. Descends'
    BY <2>1, <2>2, <2>4, <2>6 DEF IInv, TypeOK, Descends, Grows
  <2>11. Accounted'
    <3>. SUFFICES ASSUME NEW k \in DOMAIN exchanges' PROVE Accounted!(k)'
      BY DEF Accounted
    <3>1. CASE k = minted'
      BY <3>1, <2>1, <2>2, <2>4 DEF Grows
    <3>2. CASE k # minted'
      <4>1. k \in DOMAIN exchanges /\ exchanges'[k] = exchanges[k]
        BY <3>2, <2>2 DEF Grows
      <4>2. Accounted!(k) /\ issue'[exchanges[k].owner] = issue[exchanges[k].owner]
        BY <4>1, <2>1, <2>6 DEF IInv, Accounted, TypeOK
      <4>. QED BY <4>1, <4>2 DEF Accepted
    <3>. QED BY <3>1, <3>2
  <2>12. AcceptedWasIssued' /\ DeadlineIsInherited'
    BY <2>1, <2>7 DEF IInv, AcceptedWasIssued, DeadlineIsInherited, Accepted
  <2>13. Fenced'
    BY <1>2, <2>2, <2>4 DEF IInv, Fenced, Grows, Admits
  <2>14. OneUse'
    BY <2>2, <2>3, <2>4, <2>6, <2>7 DEF IInv, OneUse, Grows, Accepted
  <2>15. CompletionIsExact'
    BY <2>1, <2>7 DEF IInv, CompletionIsExact, Accepted
  <2>16. LimitsHold'
    <3>1. IsFiniteSet(DOMAIN xs) /\ Cardinality(DOMAIN xs) \in Nat
      BY <2>2, StatesAreFinite, FS_Subset, FS_CardinalityType DEF IInv
    <3>2. Cardinality(DOMAIN exchanges') = Cardinality(DOMAIN xs) + 1
      BY <2>2, <2>3, <3>1, FS_AddElement
    <3>3. Cardinality(DOMAIN exchanges') <= MaxStates
      BY <1>2, <3>1, <3>2, LimitAssumption DEF Admits
    <3>. QED BY <3>3, <2>2, <2>4, <2>5, LimitAssumption DEF IInv, LimitsHold, Grows
  <2>. QED BY <2>8, <2>9, <2>10, <2>11, <2>12, <2>13, <2>14, <2>15, <2>16 DEF IInv
<1>. QED BY <1>1, <1>2 DEF IssueCommit

\* What accept_at knows of the exchange it takes a retry for.
Takes(r, k, x, y) ==
  /\ retry[r].pc = "accepting" /\ k = retry[r].token
  /\ k \in DOMAIN exchanges /\ x = exchanges[k] /\ x.binding = retry[r].binding
  /\ Live(x, retry[r].at) /\ ~Inert(r, x)
  /\ y = Successor(r, x, DOMAIN retry[r].answers \cap x.requests)
  /\ UNCHANGED <<stateless_closed, issue, cancelled, now>>

\* What the exchange has become: same owner, binding and deadline, and its inputs
\* are still accounted for.
LEMMA SuccessorDescends ==
  ASSUME IInv, NEW r \in Retries, NEW k, NEW x, NEW y, Takes(r, k, x, y)
  PROVE  /\ DOMAIN x = ExchangeFields /\ DOMAIN y = ExchangeFields
         /\ y.owner = x.owner /\ y.binding = x.binding /\ y.expires = x.expires
         /\ y.requests \subseteq x.requests /\ x.requests \subseteq Keys
         /\ y.round = x.round + 1 /\ y.round \in Nat \ {0}
         /\ y.total = x.total + Cardinality(y.requests) /\ y.total \in Nat
         /\ x.owner \in Issues /\ issue[x.owner].pc = "issued"
         /\ x.binding = BindingOf[x.owner] /\ x.expires = issue[x.owner].at + Ttl
         /\ x.expires \in Nat /\ DOMAIN y.responses \subseteq Keys
         /\ y.requests \cup DOMAIN y.responses = issue[x.owner].requests
         /\ y.requests = {} => DOMAIN y.responses = issue[x.owner].requests
<1>. DEFINE got == DOMAIN retry[r].answers \cap x.requests
<1>1. DOMAIN x = ExchangeFields
  BY DEF IInv, Shapes, Takes
<1>2. /\ DOMAIN y = ExchangeFields
      /\ y.owner = x.owner /\ y.binding = x.binding /\ y.expires = x.expires
      /\ y.round = x.round + 1 /\ y.total = x.total + Cardinality(x.requests \ got)
      /\ y.requests = x.requests \ got
      /\ y.responses = Merge(x.responses, [j \in got |-> r])
  BY <1>1, SuccessorFields DEF Takes
<1>3. /\ x.owner \in Issues /\ issue[x.owner].pc = "issued"
      /\ x.binding = BindingOf[x.owner] /\ x.expires = issue[x.owner].at + Ttl
      /\ x.requests \subseteq Keys /\ DOMAIN x.responses \subseteq Keys
      /\ x.requests \cup DOMAIN x.responses = issue[x.owner].requests
      /\ x.expires \in Nat /\ x.round \in Nat \ {0} /\ x.total \in Nat
  BY DEF IInv, TypeOK, Descends, Accounted, Takes
<1>4. DOMAIN y.responses = DOMAIN x.responses \cup got
  BY <1>2 DEF Merge
<1>5. Cardinality(y.requests) \in Nat
  BY <1>2, <1>3, InputCounts
<1>6. y.requests \cup DOMAIN y.responses = issue[x.owner].requests
  BY <1>2, <1>3, <1>4
<1>7. ASSUME y.requests = {} PROVE DOMAIN y.responses = issue[x.owner].requests
  BY <1>6, <1>7
<1>8. /\ y.requests \subseteq x.requests /\ DOMAIN y.responses \subseteq Keys
      /\ y.round \in Nat \ {0} /\ y.total \in Nat
      /\ y.total = x.total + Cardinality(y.requests)
  BY <1>2, <1>3, <1>4, <1>5
<1>. QED BY <1>1, <1>2, <1>3, <1>6, <1>7, <1>8

\* Every answer that y holds is one of an accepted retry of this exchange, this
\* one included, which was not accepted before.
LEMMA AnswersAreAccounted ==
  ASSUME IInv, NEW r \in Retries, NEW k, NEW x, NEW y, Takes(r, k, x, y),
         NEW pc \in {"complete", "rotated"}, Done(r, pc, y)
  PROVE  \A key \in DOMAIN y.responses :
           LET q == y.responses[key] IN
           /\ q \in Retries /\ Accepted(q)' /\ retry'[q].answers[key]
           /\ retry'[q].owner = x.owner /\ retry'[q].binding = BindingOf[x.owner]
<1>. DEFINE got == DOMAIN retry[r].answers \cap x.requests
<1>1. /\ y.responses = Merge(x.responses, [j \in got |-> r])
      /\ y.owner = x.owner
  <2>1. DOMAIN x = ExchangeFields
    BY DEF Takes, IInv, Shapes
  <2>2. y = Successor(r, x, got)
    BY DEF Takes
  <2>. QED BY <2>1, <2>2 DEF Successor, ExchangeFields
<1>2. /\ \A q \in Retries \ {r} : retry'[q] = retry[q]
      /\ retry'[r].pc = pc /\ retry'[r].owner = x.owner
      /\ retry'[r].binding = retry[r].binding /\ retry'[r].answers = retry[r].answers
  BY <1>1, DoneFields DEF IInv
<1>3. /\ x.binding = BindingOf[x.owner] /\ retry[r].binding = x.binding
      /\ \A key \in DOMAIN x.responses :
           LET q == x.responses[key] IN
           /\ q \in Retries /\ Accepted(q) /\ retry[q].answers[key]
           /\ retry[q].owner = x.owner /\ retry[q].binding = BindingOf[x.owner]
  BY DEF IInv, Descends, Accounted, Takes
<1>. SUFFICES ASSUME NEW key \in DOMAIN y.responses
              PROVE  LET q == y.responses[key] IN
                     /\ q \in Retries /\ Accepted(q)' /\ retry'[q].answers[key]
                     /\ retry'[q].owner = x.owner /\ retry'[q].binding = BindingOf[x.owner]
  OBVIOUS
<1>4. CASE key \in DOMAIN x.responses
  <2>1. y.responses[key] = x.responses[key]
    BY <1>1, <1>4 DEF Merge
  <2>2. x.responses[key] \in Retries \ {r}
    BY <1>3, <1>4 DEF Takes, Accepted
  <2>. QED BY <1>2, <1>3, <1>4, <2>1, <2>2 DEF Accepted
<1>5. CASE key \notin DOMAIN x.responses
  <2>1. key \in got /\ y.responses[key] = r
    BY <1>1, <1>5 DEF Merge
  <2>2. retry[r].answers[key]
    BY <2>1 DEF Takes, Inert
  <2>. QED BY <1>2, <1>3, <2>1, <2>2 DEF Accepted
<1>. QED BY <1>4, <1>5

\* The facts about accepted retries, after one more was accepted.
LEMMA AcceptingKeeps ==
  ASSUME IInv, NEW r \in Retries, NEW k, NEW x, NEW y, Takes(r, k, x, y),
         NEW pc \in {"complete", "rotated"}, Done(r, pc, y)
  PROVE  /\ Shapes!2' /\ Shapes!3' /\ WithinInputs' /\ AcceptedWasIssued'
         /\ DeadlineIsInherited'
         /\ \A q \in Retries : /\ Accepted(q)' <=> Accepted(q) \/ q = r
                               /\ q # r => retry'[q] = retry[q]
         /\ ~Accepted(r) /\ retry'[r].pc = pc
         /\ retry'[r].token = k /\ retry'[r].owner = x.owner /\ retry'[r].gave = y.responses
         /\ retry'[r].binding = x.binding /\ retry'[r].expected = retry[r].expected
         /\ retry'[r].at = retry[r].at
<1>1. /\ y.owner = x.owner /\ x.owner \in Issues /\ issue[x.owner].pc = "issued"
      /\ x.expires = issue[x.owner].at + Ttl
  BY SuccessorDescends
<1>2. /\ DOMAIN retry' = Retries /\ DOMAIN retry'[r] = RetryFields
      /\ \A q \in Retries \ {r} : retry'[q] = retry[q]
      /\ retry'[r].pc = pc /\ retry'[r].gave = y.responses /\ retry'[r].owner = y.owner
      /\ retry'[r].token = retry[r].token /\ retry'[r].binding = retry[r].binding
      /\ retry'[r].expected = retry[r].expected /\ retry'[r].at = retry[r].at
  BY DoneFields DEF IInv
<1>3. \A q \in Retries : /\ Accepted(q)' <=> Accepted(q) \/ q = r
                         /\ q # r => retry'[q] = retry[q]
  BY <1>2 DEF Accepted
<1>4. ~Accepted(r)
  BY DEF Takes, Accepted
<1>5. \A key \in DOMAIN y.responses : y.responses[key] \in Retries
  BY AnswersAreAccounted
<1>6. AcceptedWasIssued'
  <2>1. UNCHANGED issue
    BY DEF Takes
  <2>2. \A q \in Retries : Accepted(q)' => AcceptedWasIssued!(q)!2'
    BY <1>1, <1>2, <1>3, <1>5, <2>1 DEF IInv, AcceptedWasIssued
  <2>. QED BY <2>2 DEF AcceptedWasIssued
<1>7. DeadlineIsInherited'
  BY <1>1, <1>2, <1>3 DEF IInv, DeadlineIsInherited, Takes, Live
<1>8. Shapes!2' /\ Shapes!3' /\ WithinInputs'
  BY <1>2 DEF IInv, Shapes, WithinInputs, Takes
<1>. QED BY <1>1, <1>2, <1>3, <1>4, <1>6, <1>7, <1>8 DEF Takes

\* accept_at completes the exchange: its state goes and none replaces it.
LEMMA CompleteKeeps ==
  ASSUME IInv, NEW r \in Retries, NEW k, NEW x, NEW y, Takes(r, k, x, y),
         y.requests = {}, exchanges' = Without(k), Done(r, "complete", y), UNCHANGED minted
  PROVE  IInv'
<1>1. /\ x.owner \in Issues /\ issue[x.owner].pc = "issued"
      /\ DOMAIN y.responses = issue[x.owner].requests
  BY SuccessorDescends
<1>2. /\ Shapes!2' /\ Shapes!3' /\ WithinInputs' /\ AcceptedWasIssued'
      /\ DeadlineIsInherited'
  BY AcceptingKeeps
<1>3. /\ \A q \in Retries : /\ Accepted(q)' <=> Accepted(q) \/ q = r
                            /\ q # r => retry'[q] = retry[q]
      /\ ~Accepted(r) /\ retry'[r].pc = "complete"
      /\ retry'[r].token = k /\ retry'[r].owner = x.owner /\ retry'[r].gave = y.responses
      /\ retry'[r].binding = x.binding /\ retry'[r].expected = retry[r].expected
      /\ retry'[r].at = retry[r].at
  BY AcceptingKeeps
<1>4. /\ k \in DOMAIN exchanges /\ x = exchanges[k] /\ k = retry[r].token
      /\ UNCHANGED <<stateless_closed, issue, cancelled, now>>
  BY DEF Takes
<1>5. DOMAIN exchanges' = DOMAIN exchanges \ {k} /\ Shrinks
  BY DEF Without, Restrict, Shrinks
<1>6. TypeOK'
  BY <1>3, <1>4, <1>5 DEF IInv, TypeOK, Tokens, Shrinks
<1>7. Shapes' /\ Descends' /\ Fenced'
  BY <1>2, <1>4, <1>5 DEF IInv, Shapes, Descends, Fenced, Shrinks
<1>8. Accounted'
  <2>. SUFFICES ASSUME NEW j \in DOMAIN exchanges' PROVE Accounted!(j)'
    BY DEF Accounted
  <2>1. exchanges'[j] = exchanges[j] /\ Accounted!(j)
    BY <1>5 DEF IInv, Accounted, Shrinks
  <2>. QED BY <1>3, <1>4, <2>1
<1>9. OneUse'
  <2>1. \A j, m \in DOMAIN exchanges : exchanges[j].owner = exchanges[m].owner => j = m
    BY DEF IInv, OneUse
  <2>2. \A q \in Retries : Accepted(q) => retry[q].token \notin DOMAIN exchanges
    BY DEF IInv, OneUse
  <2>3. \A q \in Retries, j \in DOMAIN exchanges :
          retry[q].pc = "complete" => exchanges[j].owner # retry[q].owner
    BY DEF IInv, OneUse
  <2>4. \A q \in Retries : q # r /\ retry'[q].pc = "complete" => Accepted(q)
    BY <1>3 DEF Accepted
  <2>5. OneUse!1'
    BY <1>5, <2>1 DEF Shrinks
  <2>6. OneUse!2'
    BY <1>3, <1>4, <1>5, <2>2
  <2>7. OneUse!3'
    BY <1>3, <1>4, <2>2 DEF IInv, OneUse
  <2>8. OneUse!4'
    BY <1>3, <1>4, <1>5, <2>1, <2>3 DEF Shrinks
  <2>9. OneUse!5'
    BY <1>3, <1>4, <2>3 DEF IInv, OneUse
  <2>. QED BY <2>5, <2>6, <2>7, <2>8, <2>9 DEF OneUse
<1>10. CompletionIsExact'
  <2>. SUFFICES ASSUME NEW q \in Retries, retry'[q].pc = "complete"
                PROVE  CompletionIsExact!(q)!2'
    BY DEF CompletionIsExact
  <2>1. CASE q = r
    BY <2>1, <1>1, <1>3, <1>4, AnswersAreAccounted
  <2>2. CASE q # r
    <3>1. retry'[q] = retry[q] /\ Accepted(q) /\ CompletionIsExact!(q)!2
      BY <2>2, <1>3 DEF IInv, CompletionIsExact, Accepted
    <3>2. \A key \in DOMAIN retry[q].gave : retry[q].gave[key] \in Retries
      BY <3>1 DEF IInv, AcceptedWasIssued
    <3>. QED BY <1>3, <1>4, <3>1, <3>2
  <2>. QED BY <2>1, <2>2
<1>11. LimitsHold'
  <2>1. Cardinality(DOMAIN exchanges') <= Cardinality(DOMAIN exchanges)
        /\ Cardinality(DOMAIN exchanges) \in Nat /\ Cardinality(DOMAIN exchanges') \in Nat
    BY <1>5, StatesAreFinite, FS_Subset, FS_CardinalityType DEF IInv, Shrinks
  <2>. QED BY <2>1, <1>5, LimitAssumption DEF IInv, LimitsHold, Shrinks
<1>. QED BY <1>2, <1>6, <1>7, <1>8, <1>9, <1>10, <1>11 DEF IInv

\* accept_at replaces the state by a successor that is within every limit.
LEMMA RotateKeeps ==
  ASSUME IInv, NEW r \in Retries, NEW k, NEW x, NEW y, Takes(r, k, x, y),
         y.requests # {}, ~OverLimit(y), exchanges' = Replace(k, y), minted' = minted + 1,
         Done(r, "rotated", y)
  PROVE  IInv'
<1>1. /\ DOMAIN y = ExchangeFields /\ y.owner = x.owner
      /\ y.binding = x.binding /\ y.expires = x.expires
      /\ y.requests \subseteq x.requests /\ x.requests \subseteq Keys
      /\ y.round \in Nat \ {0} /\ y.total \in Nat
      /\ x.owner \in Issues /\ issue[x.owner].pc = "issued"
      /\ x.binding = BindingOf[x.owner] /\ x.expires = issue[x.owner].at + Ttl
      /\ x.expires \in Nat /\ DOMAIN y.responses \subseteq Keys
      /\ y.requests \cup DOMAIN y.responses = issue[x.owner].requests
  BY SuccessorDescends
<1>2. /\ Shapes!2' /\ Shapes!3' /\ WithinInputs' /\ AcceptedWasIssued'
      /\ DeadlineIsInherited'
  BY AcceptingKeeps
<1>3. /\ \A q \in Retries : /\ Accepted(q)' <=> Accepted(q) \/ q = r
                            /\ q # r => retry'[q] = retry[q]
      /\ ~Accepted(r) /\ retry'[r].pc = "rotated"
      /\ retry'[r].token = k /\ retry'[r].owner = x.owner /\ retry'[r].gave = y.responses
      /\ retry'[r].binding = x.binding /\ retry'[r].expected = retry[r].expected
      /\ retry'[r].at = retry[r].at
  BY AcceptingKeeps
<1>4. /\ k \in DOMAIN exchanges /\ x = exchanges[k] /\ k = retry[r].token
      /\ UNCHANGED <<stateless_closed, issue, cancelled, now>>
  BY DEF Takes
<1>5. /\ DOMAIN exchanges' = (DOMAIN exchanges \ {k}) \cup {minted'}
      /\ Grows(y)
  BY DEF Replace, Insert, Without, Restrict, Grows
<1>6. /\ minted' \in Nat /\ minted' \notin DOMAIN exchanges /\ Tokens \subseteq Tokens'
      /\ minted' \in Tokens'
      /\ \A q \in Retries : retry[q].token # minted' /\ retry[q].token \in 0..minted'
  BY DrawnIsFresh DEF IInv
<1>7. TypeOK'
  <2>1. \A j \in DOMAIN exchanges' : TypeOK!1!(j)'
    BY <1>1, <1>4, <1>5, <1>6 DEF IInv, TypeOK, Grows
  <2>2. \A q \in Retries : TypeOK!5!(q)'
    BY <1>3, <1>4, <1>6 DEF IInv, TypeOK
  <2>. QED BY <1>4, <1>6, <2>1, <2>2 DEF IInv, TypeOK
<1>8. Shapes' /\ Descends' /\ Fenced'
  BY <1>1, <1>2, <1>4, <1>5 DEF IInv, Shapes, Descends, Fenced, Grows
<1>9. Accounted'
  <2>. SUFFICES ASSUME NEW j \in DOMAIN exchanges' PROVE Accounted!(j)'
    BY DEF Accounted
  <2>1. CASE j = minted'
    <3>1. exchanges'[j] = y /\ UNCHANGED issue /\ y.owner = x.owner
      BY <2>1, <1>1, <1>4, <1>5 DEF Grows
    <3>2. \A key \in DOMAIN y.responses :
            LET q == y.responses[key] IN
            /\ q \in Retries /\ Accepted(q)' /\ retry'[q].answers[key]
            /\ retry'[q].owner = x.owner /\ retry'[q].binding = BindingOf[x.owner]
      BY AnswersAreAccounted
    <3>. QED BY <1>1, <3>1, <3>2
  <2>2. CASE j # minted'
    <3>1. exchanges'[j] = exchanges[j] /\ Accounted!(j)
      BY <2>2, <1>5 DEF IInv, Accounted, Grows
    <3>. QED BY <1>3, <1>4, <3>1
  <2>. QED BY <2>1, <2>2
<1>10. OneUse'
  <2>1. \A j, m \in DOMAIN exchanges : exchanges[j].owner = exchanges[m].owner => j = m
    BY DEF IInv, OneUse
  <2>2. \A q \in Retries : Accepted(q) => retry[q].token \notin DOMAIN exchanges
    BY DEF IInv, OneUse
  <2>3. \A q \in Retries, j \in DOMAIN exchanges :
          retry[q].pc = "complete" => exchanges[j].owner # retry[q].owner
    BY DEF IInv, OneUse
  <2>4. \A q \in Retries : retry'[q].pc = "complete" => q # r /\ retry'[q] = retry[q]
    BY <1>3
  <2>5. OneUse!1'
    BY <1>1, <1>4, <1>5, <2>1 DEF Grows
  <2>6. OneUse!2'
    BY <1>3, <1>4, <1>5, <1>6, <2>2
  <2>7. OneUse!3'
    BY <1>3, <1>4, <2>2 DEF IInv, OneUse
  <2>8. OneUse!4'
    BY <1>1, <1>4, <1>5, <2>3, <2>4 DEF Grows
  <2>9. OneUse!5'
    BY <2>4 DEF IInv, OneUse
  <2>. QED BY <2>5, <2>6, <2>7, <2>8, <2>9 DEF OneUse
<1>11. CompletionIsExact'
  <2>. SUFFICES ASSUME NEW q \in Retries, retry'[q].pc = "complete"
                PROVE  CompletionIsExact!(q)!2'
    BY DEF CompletionIsExact
  <2>1. retry'[q] = retry[q] /\ Accepted(q) /\ CompletionIsExact!(q)!2
    BY <1>3 DEF IInv, CompletionIsExact, Accepted
  <2>2. \A key \in DOMAIN retry[q].gave : retry[q].gave[key] \in Retries
    BY <2>1 DEF IInv, AcceptedWasIssued
  <2>. QED BY <1>3, <1>4, <2>1, <2>2
<1>12. LimitsHold'
  <2>1. IsFiniteSet(DOMAIN exchanges) /\ Cardinality(DOMAIN exchanges) \in Nat
    BY StatesAreFinite, FS_CardinalityType DEF IInv
  <2>2. /\ IsFiniteSet(DOMAIN exchanges \ {k})
        /\ Cardinality(DOMAIN exchanges \ {k}) = Cardinality(DOMAIN exchanges) - 1
    BY <1>4, <2>1, FS_RemoveElement
  <2>3. Cardinality(DOMAIN exchanges') = Cardinality(DOMAIN exchanges)
    <3>1. minted' \notin DOMAIN exchanges \ {k}
      BY <1>6
    <3>2. Cardinality(DOMAIN exchanges') = Cardinality(DOMAIN exchanges \ {k}) + 1
      BY <1>5, <2>2, <3>1, FS_AddElement
    <3>. QED BY <2>1, <2>2, <3>2
  <2>4. Cardinality(y.requests) \in Nat
    BY <1>1, InputCounts
  <2>. QED BY <1>1, <1>5, <2>3, <2>4, LimitAssumption DEF IInv, LimitsHold, Grows, OverLimit
<1>. QED BY <1>2, <1>7, <1>8, <1>9, <1>10, <1>11, <1>12 DEF IInv

\* accept_at, one critical section.
LEMMA AcceptAtKeeps == ASSUME IInv, NEW r \in Retries, AcceptAt(r) PROVE IInv'
<1>. DEFINE k == retry[r].token
            x == exchanges[k]
            y == Successor(r, x, DOMAIN retry[r].answers \cap x.requests)
<1>1. CASE Fail(r) /\ UNCHANGED minted
  <2>1. Moves(r)
    BY <1>1, FailMoves DEF AcceptAt
  <2>2. Shrinks
    BY <1>1, RemovalShrinks DEF AcceptAt, IInv, TypeOK
  <2>. QED BY <1>1, <2>1, <2>2, MovingKeeps DEF AcceptAt
<1>2. CASE /\ Takes(r, k, x, y) /\ y.requests = {} /\ exchanges' = Without(k)
           /\ Done(r, "complete", y) /\ UNCHANGED minted
  BY <1>2, CompleteKeeps
<1>3. CASE /\ Takes(r, k, x, y) /\ y.requests # {} /\ ~OverLimit(y)
           /\ exchanges' = Replace(k, y) /\ minted' = minted + 1 /\ Done(r, "rotated", y)
  BY <1>3, RotateKeeps
<1>. QED BY <1>1, <1>2, <1>3 DEF AcceptAt, Takes, Bound

-----------------------------------------------------------------------------
(* The theorems. *)

\* The registry starts without an exchange.
LEMMA InitEstablishes == Init => IInv
<1>. SUFFICES ASSUME Init PROVE IInv
  OBVIOUS
<1>1. DOMAIN exchanges = {}
  BY DEF Init, Empty
<1>2. \A i \in Issues : issue[i] = NewIssue
  BY DEF Init
<1>3. \A r \in Retries : retry[r] = NewRetry /\ ~Accepted(r)
  BY DEF Init, NewRetry, Accepted
<1>4. TypeOK
  <2>1. \A i \in Issues : TypeOK!4!(i)
    BY <1>2 DEF Init, NewIssue
  <2>2. \A r \in Retries : TypeOK!5!(r)
    BY <1>3, BindingAssumption DEF Init, NewRetry
  <2>3. minted \in Nat /\ now \in 0..MaxTime /\ cancelled \subseteq Issues
    BY LimitAssumption DEF Init
  <2>4. stateless_closed \in BOOLEAN
    BY Zenon DEF Init
  <2>. QED BY <1>1, <2>1, <2>2, <2>3, <2>4 DEF TypeOK
<1>5. Shapes
  BY <1>1, <1>2, <1>3 DEF Init, Shapes, NewIssue, NewRetry, IssueFields, RetryFields
<1>6. Descends /\ Accounted /\ WithinInputs /\ AcceptedWasIssued /\ Fenced
  BY <1>1, <1>2, <1>3 DEF Descends, Accounted, WithinInputs, AcceptedWasIssued, Fenced, NewIssue
<1>7. OneUse /\ CompletionIsExact /\ DeadlineIsInherited
  BY <1>1, <1>3 DEF OneUse, CompletionIsExact, DeadlineIsInherited, Accepted
<1>8. LimitsHold
  BY <1>1, FS_EmptySet, LimitAssumption DEF LimitsHold
<1>. QED BY <1>4, <1>5, <1>6, <1>7, <1>8 DEF IInv

\* No step of an issuing request, of a retry or of the listener breaks it.
LEMMA NextPreserves == IInv /\ [Next]_vars => IInv'
<1>. SUFFICES ASSUME IInv, [Next]_vars PROVE IInv'
  OBVIOUS
<1>1. ASSUME NEW i \in Issues, IssueStart(i) \/ IssueCommit(i) \/ Cancel(i) PROVE IInv'
  BY <1>1, IssueStartKeeps, IssueCommitKeeps, CancelKeeps
<1>2. ASSUME NEW r \in Retries,
             \/ AcceptTyped(r) \/ AcceptStateOnly(r) \/ AcceptWire(r)
             \/ Decode(r) \/ AcceptAt(r)
      PROVE  IInv'
  <2>1. CASE AcceptAt(r)
    BY <2>1, AcceptAtKeeps
  <2>2. CASE ~AcceptAt(r)
    <3>1. Moves(r) /\ Shrinks
      BY <1>2, <2>2, AcceptTypedMoves, AcceptStateOnlyMoves, AcceptWireMoves, DecodeMoves
    <3>. QED BY <1>2, <2>2, <3>1, MovingKeeps DEF AcceptTyped, AcceptStateOnly, AcceptWire, Decode
  <2>. QED BY <2>1, <2>2
<1>3. CASE ActiveLen \/ CloseStateless \/ Tick
  BY <1>3, ActiveLenKeeps, CloseStatelessKeeps, TickKeeps
<1>4. CASE UNCHANGED vars
  BY <1>4 DEF vars, IInv, TypeOK, Tokens, Shapes, Descends, Accounted, WithinInputs,
     AcceptedWasIssued, Fenced, OneUse, CompletionIsExact, LimitsHold, DeadlineIsInherited,
     Accepted
<1>. QED BY <1>1, <1>2, <1>3, <1>4 DEF Next

\* The inductive invariant holds in every reachable state of the registry.
THEOREM Inductive == Spec => []IInv
BY InitEstablishes, NextPreserves, PTL DEF Spec

\* A request state is used once whatever retries race on it, and a completed
\* exchange hands on exactly what was asked, from retries with its binding.
THEOREM AcceptanceHolds == Spec => []AcceptanceIsExact
<1>1. IInv => AcceptanceIsExact
  BY DEF IInv, AcceptanceIsExact
<1>. QED BY <1>1, Inductive, PTL

\* The limits on states, rounds and inputs hold, and no chain of partial retries
\* outlives the period of its first state.
THEOREM BoundsHold == Spec => []ExchangesAreBounded
<1>1. IInv => ExchangesAreBounded
  BY DEF IInv, ExchangesAreBounded
<1>. QED BY <1>1, Inductive, PTL

\* Nothing but accept_at accepts a retry, and it does so with the binding of an
\* exchange that is retained.
LEMMA AcceptedWhileRetained ==
  ASSUME IInv, [Next]_vars, NEW r \in Retries, Accepted(r)', ~Accepted(r)
  PROVE  \E k \in DOMAIN exchanges : retry'[r].binding = exchanges[k].binding
<1>1. AcceptAt(r)
  <2>1. ASSUME NEW q \in Retries, Moves(q) PROVE FALSE
    BY <2>1 DEF Moves, Accepted
  <2>2. ASSUME NEW q \in Retries, AcceptAt(q), q # r PROVE FALSE
    <3>1. retry'[r] = retry[r]
      BY <2>2, FailFields, DoneFields DEF AcceptAt, IInv
    <3>. QED BY <3>1 DEF Accepted
  <2>3. CASE UNCHANGED retry
    BY <2>3 DEF Accepted
  <2>. QED
    BY <2>1, <2>2, <2>3, AcceptTypedMoves, AcceptStateOnlyMoves, AcceptWireMoves, DecodeMoves
       DEF Next, IssueStart, IssueCommit, Cancel, ActiveLen, CloseStateless, Tick, vars
<1>2. ~Fail(r)
  BY FailFields DEF IInv, Accepted
<1>3. Bound(retry[r].token, retry[r].binding)
  BY <1>1, <1>2 DEF AcceptAt
<1>4. retry'[r].binding = retry[r].binding
  BY <1>1, <1>2, DoneFields DEF AcceptAt, IInv
<1>. QED BY <1>3, <1>4 DEF Bound

\* close_stateless is a fence for exchanges that are retained, being issued or
\* being retried when it closes.
THEOREM FenceHolds == Spec => StatelessFence
<1>1. ASSUME IInv, IInv', [Next]_vars
      PROVE  stateless_closed' =>
               /\ \A k \in DOMAIN exchanges' : exchanges'[k].binding \notin Stateless
               /\ \A r \in Retries :
                    stateless_closed /\ Accepted(r)' /\ ~Accepted(r)
                      => retry'[r].binding \notin Stateless
  <2>1. stateless_closed' => \A k \in DOMAIN exchanges' : exchanges'[k].binding \notin Stateless
    BY <1>1 DEF IInv, Fenced
  <2>2. ASSUME NEW r \in Retries, stateless_closed, Accepted(r)', ~Accepted(r)
        PROVE  retry'[r].binding \notin Stateless
    BY <1>1, <2>2, AcceptedWhileRetained DEF IInv, Fenced
  <2>. QED BY <2>1, <2>2
<1>. QED BY <1>1, Inductive, PTL DEF Spec, StatelessFence

\* Why a request state may disappear.
MayGo(k) ==
  LET x == exchanges[k] IN
  \/ ~Live(x, now)
  \/ x.binding \in Stateless /\ stateless_closed'
  \/ \E r \in Retries :
       /\ retry[r].pc = "accepting" /\ retry[r].token = k
       /\ retry[r].binding = x.binding
       /\ x.requests = {} \/ x.requests \cap DOMAIN retry[r].answers # {}
       /\ Accepted(r)' \/ x.round = MaxRounds
            \/ x.total + Cardinality(x.requests) > MaxTotal

\* A state that was dead at a clock that was read earlier is dead now.
LEMMA DeadStaysDead ==
  ASSUME TypeOK, NEW k \in DOMAIN exchanges, NEW t \in 0..now, ~Live(exchanges[k], t)
  PROVE  MayGo(k)
BY DEF TypeOK, Live, MayGo

\* accept_at spends a state only on a retry that answers, or at a limit.
LEMMA AcceptAtSpends ==
  ASSUME IInv, NEW r \in Retries, AcceptAt(r), NEW k \in DOMAIN exchanges \ DOMAIN exchanges'
  PROVE  MayGo(k)
<1>. DEFINE x == exchanges[k]
            y == Successor(r, x, DOMAIN retry[r].answers \cap x.requests)
<1>1. k = retry[r].token /\ retry[r].pc = "accepting"
  BY DEF AcceptAt, Without, Replace, Insert, Restrict
<1>2. CASE ~Live(x, retry[r].at)
  BY <1>2, DeadStaysDead DEF IInv, TypeOK
<1>3. CASE Live(x, retry[r].at)
  <2>1. /\ Bound(k, retry[r].binding) /\ ~Inert(r, x)
        /\ OverLimit(y) \/ Done(r, "complete", y) \/ Done(r, "rotated", y)
    <3>1. exchanges' # exchanges
      OBVIOUS
    <3>. QED BY <1>1, <1>3, <3>1 DEF AcceptAt
  <2>2. /\ retry[r].binding = x.binding
        /\ x.requests = {} \/ x.requests \cap DOMAIN retry[r].answers # {}
    BY <2>1 DEF Bound, Inert
  <2>3. CASE Done(r, "complete", y) \/ Done(r, "rotated", y)
    <3>1. Accepted(r)'
      BY <2>3, DoneFields DEF IInv, Accepted
    <3>. QED BY <1>1, <2>2, <3>1 DEF MayGo
  <2>4. CASE OverLimit(y)
    <3>1. /\ y.round = x.round + 1 /\ y.requests \subseteq x.requests
          /\ y.total = x.total + Cardinality(y.requests)
      <4>1. DOMAIN x = ExchangeFields
        BY DEF IInv, Shapes
      <4>. QED BY <4>1 DEF Successor, ExchangeFields
    <3>2. /\ x.round \in Nat /\ x.round <= MaxRounds /\ x.total \in Nat
          /\ x.requests \subseteq Keys /\ Cardinality(x.requests) <= MaxInputs
      BY DEF IInv, TypeOK, LimitsHold
    <3>3. /\ Cardinality(x.requests) \in Nat /\ Cardinality(y.requests) \in Nat
          /\ Cardinality(y.requests) <= Cardinality(x.requests)
      BY <3>1, <3>2, InputCounts
    <3>. HIDE DEF x, y
    <3>4. x.round = MaxRounds \/ x.total + Cardinality(x.requests) > MaxTotal
      BY <2>4, <3>1, <3>2, <3>3, LimitAssumption DEF OverLimit
    <3>. QED BY <1>1, <2>2, <3>4 DEF MayGo, x
  <2>. QED BY <2>1, <2>3, <2>4
<1>. QED BY <1>2, <1>3

\* Malformed, unknown, cross-kind and foreign retries leave a good state alone.
THEOREM NothingBurns == Spec => NothingIsBurnt
<1>1. ASSUME IInv, [Next]_vars, NEW k \in DOMAIN exchanges \ DOMAIN exchanges'
      PROVE  MayGo(k)
  <2>1. ASSUME NEW i \in Issues, IssueCommit(i) PROVE MayGo(k)
    <3>1. ~Live(exchanges[k], issue[i].at)
      BY <1>1, <2>1 DEF IssueCommit, PurgeStale, Insert, Restrict
    <3>. QED BY <1>1, <3>1, DeadStaysDead DEF IInv, TypeOK
  <2>2. ASSUME NEW r \in Retries, AcceptWire(r) PROVE MayGo(k)
    <3>1. ~Live(exchanges[k], now)
      BY <1>1, <2>2 DEF AcceptWire, PurgeStale, Without, Restrict
    <3>. QED BY <3>1 DEF MayGo
  <2>3. ASSUME NEW r \in Retries, AcceptAt(r) PROVE MayGo(k)
    BY <1>1, <2>3, AcceptAtSpends
  <2>4. CASE ActiveLen
    <3>1. ~Live(exchanges[k], now)
      BY <1>1, <2>4 DEF ActiveLen, PurgeStale, Restrict
    <3>. QED BY <3>1 DEF MayGo
  <2>5. CASE CloseStateless
    BY <1>1, <2>5 DEF CloseStateless, Restrict, OutlivesFence, MayGo
  <2>6. CASE UNCHANGED exchanges
    BY <1>1, <2>6
  <2>. QED
    BY <1>1, <2>1, <2>2, <2>3, <2>4, <2>5, <2>6
       DEF Next, IssueStart, Cancel, AcceptTyped, AcceptStateOnly, Decode, Tick, vars
<1>2. IInv /\ [Next]_vars => [\A k \in DOMAIN exchanges \ DOMAIN exchanges' : MayGo(k)]_vars
  BY <1>1
<1>. QED BY <1>2, Inductive, PTL DEF Spec, NothingIsBurnt, MayGo

-----------------------------------------------------------------------------
(* CallbackPool *)

(***************************************************************************)
(* The inductive invariant.  The properties speak of entries, tokens and   *)
(* tasks separately; what carries them is how the three move together: an  *)
(* entry is an open token, a token that was sent belongs to a task past    *)
(* its election, and the request the receiving thread works on has no task *)
(* and no answer yet.                                                      *)
(***************************************************************************)
InTurn == {"reap", "check", "admit", "respond"}

\* The request at hand was neither admitted nor answered.
CurrentIsFresh ==
  /\ loop \in InTurn => cur \in Reqs /\ task[cur] = "none" /\ answers[cur] = 0
  /\ loop = "abort" => cur \in Reqs

\* A response is written before the task ends, or without one.
AnswerEndsTask ==
  \A r \in Reqs : answers[r] = 1 => task[r] \in {"none", "done", "reaped"}

\* The token of an entry, and of a request without a task, is open; one that
\* was sent belongs to a task that has been elected.
TokenFollowsTask ==
  \A r \in Reqs :
    /\ r \in active \/ task[r] = "none" => token[r] = "open"
    /\ task[r] = "writing" => token[r] = "sent"
    /\ token[r] = "sent" => task[r] \in {"writing", "failing", "closing", "done", "reaped"}

\* A task that is about to cancel the entries has stored its error.
FailureIsStored == \A r \in Reqs : task[r] = "closing" => failed

IdsAreUnique == \A r, s \in active : IdOf[r] = IdOf[s] => r = s

\* The room that dispatch found is still there when the request is admitted.
RoomIsKept ==
  /\ Cardinality(Registered) <= Capacity
  /\ loop \in {"check", "admit"} => Cardinality(Registered) < Capacity

PoolInv ==
  /\ PoolTypeOK
  /\ CurrentIsFresh
  /\ AnswerEndsTask
  /\ TokenFollowsTask
  /\ LostOwnerIsTold
  /\ NoEntryOutlivesClosing
  /\ IdsAreUnique
  /\ PanicIsTerminal
  /\ ElectedIsWritten
  /\ FailureIsStored
  /\ RoomIsKept

-----------------------------------------------------------------------------
(* Facts about the registry's helpers. *)

\* No task is added, and the thread does not come nearer to adding one.
RoomNarrows ==
  /\ Registered' \subseteq Registered
  /\ loop' \in {"check", "admit"} => loop \in {"check", "admit"}

\* A registered set that does not grow keeps the room that was found in it.
LEMMA RoomSurvives ==
  ASSUME RoomIsKept, RoomNarrows PROVE RoomIsKept'
<1>1. IsFiniteSet(Registered)
  BY PoolAssumption, FS_Subset DEF Registered
<1>2. /\ IsFiniteSet(Registered') /\ Cardinality(Registered') <= Cardinality(Registered)
  BY <1>1, FS_Subset DEF RoomNarrows
<1>3. Cardinality(Registered) \in Nat /\ Cardinality(Registered') \in Nat
  BY <1>1, <1>2, FS_CardinalityType
<1>. QED BY <1>2, <1>3, PoolAssumption DEF RoomIsKept, RoomNarrows

\* reap_finished_tasks keeps the types of what it changes.
LEMMA ReapTypes ==
  ASSUME PoolTypeOK, Reap
  PROVE  task' \in [Reqs -> Tasks] /\ active' \subseteq Reqs
BY DEF PoolTypeOK, Reap, Finished, Tasks

\* fail_connection by the receiving thread keeps them too.
LEMMA FailReapedTypes ==
  ASSUME PoolTypeOK, FailReaped
  PROVE  /\ task' \in [Reqs -> Tasks] /\ active' \subseteq Reqs
         /\ token' \in [Reqs -> {"open", "cancelled", "sent"}]
         /\ failed' \in BOOLEAN /\ closing' \in BOOLEAN
BY DEF PoolTypeOK, FailReaped, CancelTokens, Finished, Tasks

-----------------------------------------------------------------------------
(* Every action preserves the invariant. *)

\* drain_completed_reverse_callbacks stops at a stored error, fails the
\* connection with a panic it reaps, or retires what has finished.
LEMMA DrainKeeps ==
  ASSUME PoolInv, Drain, UNCHANGED scenario PROVE PoolInv'
<1>1. PoolTypeOK'
  BY ReapTypes, FailReapedTypes DEF PoolInv, Drain, Goto, Panicked, Panics, registry, PoolTypeOK,
     Loops, Tasks, Finished
<1>2. CurrentIsFresh' /\ AnswerEndsTask'
  BY DEF PoolInv, Drain, FailReaped, CancelTokens, Finished, Goto, Panicked, Panics, Reap,
     registry, PoolTypeOK, Loops, Tasks, CurrentIsFresh, InTurn, AnswerEndsTask
<1>3. TokenFollowsTask' /\ LostOwnerIsTold'
  BY PoolAssumption DEF PoolInv, Drain, FailReaped, CancelTokens, Finished, Goto, Panicked, Panics,
     Reap, registry, PoolTypeOK, Loops, Tasks, CurrentIsFresh, InTurn, TokenFollowsTask,
     LostOwnerIsTold, NoEntryOutlivesClosing, IdsAreUnique
<1>4. NoEntryOutlivesClosing' /\ IdsAreUnique'
  BY PoolAssumption DEF PoolInv, Drain, FailReaped, CancelTokens, Finished, Goto, Panicked, Panics,
     Reap, registry, PoolTypeOK, Loops, Tasks, CurrentIsFresh, InTurn,
     NoEntryOutlivesClosing, IdsAreUnique
<1>5. PanicIsTerminal' /\ ElectedIsWritten' /\ FailureIsStored'
  BY PoolAssumption DEF PoolInv, Drain, FailReaped, CancelTokens, Finished, Goto, Panicked, Panics,
     Reap, registry, PoolTypeOK, Loops, Tasks, TokenFollowsTask, PanicIsTerminal, WebSocket,
     ElectedIsWritten, FailureIsStored
<1>6. RoomNarrows
  BY PoolAssumption DEF PoolInv, Drain, FailReaped, CancelTokens, Finished, Goto, Panicked, Panics,
     Reap, registry, RoomNarrows, Registered, PoolTypeOK, Loops, Tasks
<1>7. RoomIsKept'
  BY <1>6, RoomSurvives DEF PoolInv
<1>. QED BY <1>1, <1>2, <1>3, <1>4, <1>5, <1>6, <1>7 DEF PoolInv

\* A receive without a frame changes nothing.
LEMMA SliceKeeps ==
  ASSUME PoolInv, Slice, UNCHANGED scenario PROVE PoolInv'
<1>1. PoolTypeOK' /\ CurrentIsFresh' /\ AnswerEndsTask'
  BY PoolAssumption DEF PoolInv, Slice, Goto, registry, PoolTypeOK, Loops, Tasks, Finished,
     CurrentIsFresh, InTurn, AnswerEndsTask
<1>2. TokenFollowsTask' /\ LostOwnerIsTold'
  BY PoolAssumption DEF PoolInv, Slice, Goto, registry, PoolTypeOK, Loops, Tasks, Finished,
     CurrentIsFresh, InTurn, TokenFollowsTask, LostOwnerIsTold, NoEntryOutlivesClosing,
     IdsAreUnique
<1>3. NoEntryOutlivesClosing' /\ IdsAreUnique'
  BY PoolAssumption DEF PoolInv, Slice, Goto, registry, PoolTypeOK, Loops, Tasks, Finished,
     CurrentIsFresh, InTurn, NoEntryOutlivesClosing, IdsAreUnique
<1>4. PanicIsTerminal' /\ ElectedIsWritten' /\ FailureIsStored'
  BY PoolAssumption DEF PoolInv, Slice, Goto, registry, PoolTypeOK, Loops, Tasks, Finished,
     TokenFollowsTask, PanicIsTerminal, WebSocket, ElectedIsWritten, FailureIsStored
<1>5. RoomNarrows
  BY PoolAssumption DEF PoolInv, Slice, Goto, registry, RoomNarrows, Registered, PoolTypeOK,
     Loops, Tasks, Finished
<1>6. RoomIsKept'
  BY <1>5, RoomSurvives DEF PoolInv
<1>. QED BY <1>1, <1>2, <1>3, <1>4, <1>5, <1>6 DEF PoolInv

\* close only starts the shutdown.
LEMMA CloseKeeps ==
  ASSUME PoolInv, Close, UNCHANGED scenario PROVE PoolInv'
<1>1. PoolTypeOK' /\ CurrentIsFresh' /\ AnswerEndsTask'
  BY PoolAssumption DEF PoolInv, Close, Faults, Goto, registry, PoolTypeOK, Loops, Tasks,
     Finished, CurrentIsFresh, InTurn, AnswerEndsTask
<1>2. TokenFollowsTask' /\ LostOwnerIsTold'
  BY PoolAssumption DEF PoolInv, Close, Faults, Goto, registry, PoolTypeOK, Loops, Tasks,
     Finished, CurrentIsFresh, InTurn, TokenFollowsTask, LostOwnerIsTold,
     NoEntryOutlivesClosing, IdsAreUnique
<1>3. NoEntryOutlivesClosing' /\ IdsAreUnique'
  BY PoolAssumption DEF PoolInv, Close, Faults, Goto, registry, PoolTypeOK, Loops, Tasks,
     Finished, CurrentIsFresh, InTurn, NoEntryOutlivesClosing, IdsAreUnique
<1>4. PanicIsTerminal' /\ ElectedIsWritten' /\ FailureIsStored'
  BY PoolAssumption DEF PoolInv, Close, Faults, Goto, registry, PoolTypeOK, Loops, Tasks,
     Finished, TokenFollowsTask, PanicIsTerminal, WebSocket, ElectedIsWritten,
     FailureIsStored
<1>5. RoomNarrows
  BY PoolAssumption DEF PoolInv, Close, Faults, Goto, registry, RoomNarrows, Registered,
     PoolTypeOK, Loops, Tasks, Finished
<1>6. RoomIsKept'
  BY <1>5, RoomSurvives DEF PoolInv
<1>. QED BY <1>1, <1>2, <1>3, <1>4, <1>5, <1>6 DEF PoolInv

\* join_bounded reaps like drain, whatever it finds the tasks doing.
LEMMA JoinKeeps ==
  ASSUME PoolInv, Join, UNCHANGED scenario PROVE PoolInv'
<1>1. PoolTypeOK'
  BY ReapTypes, FailReapedTypes DEF PoolInv, Join, Finished, Goto, Panicked, Panics, Registered,
     WebSocket, PoolTypeOK, Loops, Tasks
<1>2. CurrentIsFresh' /\ AnswerEndsTask'
  BY DEF PoolInv, Join, FailReaped, CancelTokens, Finished, Goto, Panicked, Panics, Reap,
     Registered, WebSocket, PoolTypeOK, Loops, Tasks, CurrentIsFresh, InTurn, AnswerEndsTask
<1>3. TokenFollowsTask' /\ LostOwnerIsTold'
  BY PoolAssumption DEF PoolInv, Join, FailReaped, CancelTokens, Finished, Goto, Panicked, Panics,
     Reap, Registered, WebSocket, PoolTypeOK, Loops, Tasks, CurrentIsFresh, InTurn,
     TokenFollowsTask, LostOwnerIsTold, NoEntryOutlivesClosing, IdsAreUnique
<1>4. NoEntryOutlivesClosing' /\ IdsAreUnique'
  BY PoolAssumption DEF PoolInv, Join, FailReaped, CancelTokens, Finished, Goto, Panicked, Panics,
     Reap, Registered, WebSocket, PoolTypeOK, Loops, Tasks, CurrentIsFresh, InTurn,
     NoEntryOutlivesClosing, IdsAreUnique
<1>5. PanicIsTerminal' /\ ElectedIsWritten' /\ FailureIsStored'
  BY PoolAssumption DEF PoolInv, Join, FailReaped, CancelTokens, Finished, Goto, Panicked, Panics,
     Reap, Registered, WebSocket, PoolTypeOK, Loops, Tasks, TokenFollowsTask,
     PanicIsTerminal, ElectedIsWritten, FailureIsStored
<1>6. RoomNarrows
  BY PoolAssumption DEF PoolInv, Join, FailReaped, CancelTokens, Finished, Goto, Panicked, Panics,
     Reap, Registered, WebSocket, RoomNarrows, PoolTypeOK, Loops, Tasks
<1>7. RoomIsKept'
  BY <1>6, RoomSurvives DEF PoolInv
<1>. QED BY <1>1, <1>2, <1>3, <1>4, <1>5, <1>6, <1>7 DEF PoolInv

\* The request at hand is one that has neither task nor answer.
LEMMA RequestKeeps ==
  ASSUME PoolInv, NEW r \in Reqs, Request(r), UNCHANGED scenario PROVE PoolInv'
<1>1. PoolTypeOK' /\ CurrentIsFresh' /\ AnswerEndsTask'
  BY PoolAssumption DEF PoolInv, Request, Faults, Outstanding, SameId, WebSocket, registry,
     PoolTypeOK, Loops, Tasks, Finished, CurrentIsFresh, InTurn, AnswerEndsTask
<1>2. TokenFollowsTask' /\ LostOwnerIsTold'
  BY PoolAssumption DEF PoolInv, Request, Faults, Outstanding, SameId, WebSocket, registry,
     PoolTypeOK, Loops, Tasks, Finished, CurrentIsFresh, InTurn, TokenFollowsTask,
     LostOwnerIsTold, NoEntryOutlivesClosing, IdsAreUnique
<1>3. NoEntryOutlivesClosing' /\ IdsAreUnique'
  BY PoolAssumption DEF PoolInv, Request, Faults, Outstanding, SameId, WebSocket, registry,
     PoolTypeOK, Loops, Tasks, Finished, CurrentIsFresh, InTurn, NoEntryOutlivesClosing,
     IdsAreUnique
<1>4. PanicIsTerminal' /\ ElectedIsWritten' /\ FailureIsStored'
  BY PoolAssumption DEF PoolInv, Request, Faults, Outstanding, SameId, WebSocket, registry,
     PoolTypeOK, Loops, Tasks, Finished, TokenFollowsTask, PanicIsTerminal, ElectedIsWritten,
     FailureIsStored
<1>5. RoomNarrows
  BY PoolAssumption DEF PoolInv, Request, Faults, Outstanding, SameId, WebSocket, registry,
     RoomNarrows, Registered, PoolTypeOK, Loops, Tasks, Finished
<1>6. RoomIsKept'
  BY <1>5, RoomSurvives DEF PoolInv
<1>. QED BY <1>1, <1>2, <1>3, <1>4, <1>5, <1>6 DEF PoolInv

\* handle_cancel closes the token of the entry it removes.
LEMMA PeerCancelKeeps ==
  ASSUME PoolInv, NEW r \in Reqs, PeerCancel(r), UNCHANGED scenario PROVE PoolInv'
<1>1. PoolTypeOK' /\ CurrentIsFresh' /\ AnswerEndsTask'
  BY PoolAssumption DEF PoolInv, PeerCancel, CancelTokens, Faults, Outstanding, SameId,
     PoolTypeOK, Loops, Tasks, Finished, CurrentIsFresh, InTurn, AnswerEndsTask
<1>2. TokenFollowsTask' /\ LostOwnerIsTold'
  BY PoolAssumption DEF PoolInv, PeerCancel, CancelTokens, Faults, Outstanding, SameId,
     PoolTypeOK, Loops, Tasks, Finished, CurrentIsFresh, InTurn, TokenFollowsTask,
     LostOwnerIsTold, NoEntryOutlivesClosing, IdsAreUnique
<1>3. NoEntryOutlivesClosing' /\ IdsAreUnique'
  BY PoolAssumption DEF PoolInv, PeerCancel, CancelTokens, Faults, Outstanding, SameId,
     PoolTypeOK, Loops, Tasks, Finished, CurrentIsFresh, InTurn, NoEntryOutlivesClosing,
     IdsAreUnique
<1>4. PanicIsTerminal' /\ ElectedIsWritten' /\ FailureIsStored'
  BY PoolAssumption DEF PoolInv, PeerCancel, CancelTokens, Faults, Outstanding, SameId,
     PoolTypeOK, Loops, Tasks, Finished, TokenFollowsTask, PanicIsTerminal, WebSocket,
     ElectedIsWritten, FailureIsStored
<1>5. RoomNarrows
  BY PoolAssumption DEF PoolInv, PeerCancel, CancelTokens, Faults, Outstanding, SameId,
     RoomNarrows, Registered, PoolTypeOK, Loops, Tasks, Finished
<1>6. RoomIsKept'
  BY <1>5, RoomSurvives DEF PoolInv
<1>. QED BY <1>1, <1>2, <1>3, <1>4, <1>5, <1>6 DEF PoolInv

\* A cancelled context is not yet the end of a task.
LEMMA OwnerCancelledKeeps ==
  ASSUME PoolInv, NEW r \in Reqs, OwnerCancelled(r), UNCHANGED scenario PROVE PoolInv'
<1>1. PoolTypeOK' /\ CurrentIsFresh' /\ AnswerEndsTask'
  BY PoolAssumption DEF PoolInv, OwnerCancelled, Faults, receiver, registry, PoolTypeOK, Loops,
     Tasks, Finished, CurrentIsFresh, InTurn, AnswerEndsTask
<1>2. TokenFollowsTask' /\ LostOwnerIsTold'
  BY PoolAssumption DEF PoolInv, OwnerCancelled, Faults, receiver, registry, PoolTypeOK, Loops,
     Tasks, Finished, CurrentIsFresh, InTurn, TokenFollowsTask, LostOwnerIsTold,
     NoEntryOutlivesClosing, IdsAreUnique
<1>3. NoEntryOutlivesClosing' /\ IdsAreUnique'
  BY PoolAssumption DEF PoolInv, OwnerCancelled, Faults, receiver, registry, PoolTypeOK, Loops,
     Tasks, Finished, CurrentIsFresh, InTurn, NoEntryOutlivesClosing, IdsAreUnique
<1>4. PanicIsTerminal' /\ ElectedIsWritten' /\ FailureIsStored'
  BY PoolAssumption DEF PoolInv, OwnerCancelled, Faults, receiver, registry, PoolTypeOK, Loops,
     Tasks, Finished, TokenFollowsTask, PanicIsTerminal, WebSocket, ElectedIsWritten,
     FailureIsStored
<1>5. RoomNarrows
  BY PoolAssumption DEF PoolInv, OwnerCancelled, Faults, receiver, registry, RoomNarrows,
     Registered, PoolTypeOK, Loops, Tasks, Finished
<1>6. RoomIsKept'
  BY <1>5, RoomSurvives DEF PoolInv
<1>. QED BY <1>1, <1>2, <1>3, <1>4, <1>5, <1>6 DEF PoolInv

\* What dispatch counts after its reap is the room it admits into.
LEMMA DispatchReapKeeps ==
  ASSUME PoolInv, DispatchReap, UNCHANGED scenario PROVE PoolInv'
<1>1. PoolTypeOK'
  BY ReapTypes, FailReapedTypes DEF PoolInv, DispatchReap, Finished, Goto, Panicked, Panics,
     Refuse, WebSocket, Registered, PoolTypeOK, Loops, Tasks
<1>2. CurrentIsFresh' /\ AnswerEndsTask'
  BY DEF PoolInv, DispatchReap, FailReaped, CancelTokens, Finished, Goto, Panicked, Panics, Reap,
     Refuse, WebSocket, Registered, PoolTypeOK, Loops, Tasks, CurrentIsFresh, InTurn,
     AnswerEndsTask
<1>3. TokenFollowsTask' /\ LostOwnerIsTold'
  BY PoolAssumption DEF PoolInv, DispatchReap, FailReaped, CancelTokens, Finished, Goto,
     Panicked, Panics, Reap, Refuse, WebSocket, Registered, PoolTypeOK, Loops, Tasks,
     CurrentIsFresh, InTurn, TokenFollowsTask, LostOwnerIsTold, NoEntryOutlivesClosing,
     IdsAreUnique
<1>4. NoEntryOutlivesClosing' /\ IdsAreUnique'
  BY PoolAssumption DEF PoolInv, DispatchReap, FailReaped, CancelTokens, Finished, Goto,
     Panicked, Panics, Reap, Refuse, WebSocket, Registered, PoolTypeOK, Loops, Tasks,
     CurrentIsFresh, InTurn, NoEntryOutlivesClosing, IdsAreUnique
<1>5. PanicIsTerminal' /\ ElectedIsWritten' /\ FailureIsStored'
  BY PoolAssumption DEF PoolInv, DispatchReap, FailReaped, CancelTokens, Finished, Goto,
     Panicked, Panics, Reap, Refuse, WebSocket, Registered, PoolTypeOK, Loops, Tasks,
     TokenFollowsTask, PanicIsTerminal, ElectedIsWritten, FailureIsStored
<1>6. Registered' = {s \in Registered : task[s] \notin Finished}
  BY DEF PoolInv, DispatchReap, FailReaped, CancelTokens, Finished, Goto, Panicked, Panics, Reap,
     Refuse, WebSocket, Registered, PoolTypeOK, Loops, Tasks
<1>7. Registered' \subseteq Registered
  BY <1>6
<1>8. RoomIsKept'
  <2>1. CASE loop' = "check"
    <3>1. Cardinality(Registered') \in Nat
      BY <1>7, PoolAssumption, FS_Subset, FS_CardinalityType DEF Registered
    <3>2. ~(Cardinality(Registered') >= Capacity)
      BY <1>6, <2>1 DEF DispatchReap, Goto, Refuse
    <3>. QED BY <3>1, <3>2, PoolAssumption DEF RoomIsKept
  <2>2. CASE loop' # "check"
    <3>1. loop' \notin {"check", "admit"}
      BY <2>2 DEF DispatchReap, Goto, Refuse
    <3>. QED BY <3>1, <1>7, RoomSurvives DEF PoolInv, RoomNarrows
  <2>. QED BY <2>1, <2>2
<1>. QED BY <1>1, <1>2, <1>3, <1>4, <1>5, <1>6, <1>7, <1>8 DEF PoolInv

\* The first look at terminal_error holds no lock.
LEMMA AdmitCheckKeeps ==
  ASSUME PoolInv, AdmitCheck, UNCHANGED scenario PROVE PoolInv'
<1>1. PoolTypeOK' /\ CurrentIsFresh' /\ AnswerEndsTask'
  BY PoolAssumption DEF PoolInv, AdmitCheck, Goto, Refuse, WebSocket, registry, PoolTypeOK,
     Loops, Tasks, Finished, CurrentIsFresh, InTurn, AnswerEndsTask
<1>2. TokenFollowsTask' /\ LostOwnerIsTold'
  BY PoolAssumption DEF PoolInv, AdmitCheck, Goto, Refuse, WebSocket, registry, PoolTypeOK,
     Loops, Tasks, Finished, CurrentIsFresh, InTurn, TokenFollowsTask, LostOwnerIsTold,
     NoEntryOutlivesClosing, IdsAreUnique
<1>3. NoEntryOutlivesClosing' /\ IdsAreUnique'
  BY PoolAssumption DEF PoolInv, AdmitCheck, Goto, Refuse, WebSocket, registry, PoolTypeOK,
     Loops, Tasks, Finished, CurrentIsFresh, InTurn, NoEntryOutlivesClosing,
     IdsAreUnique
<1>4. PanicIsTerminal' /\ ElectedIsWritten' /\ FailureIsStored'
  BY PoolAssumption DEF PoolInv, AdmitCheck, Goto, Refuse, WebSocket, registry, PoolTypeOK,
     Loops, Tasks, Finished, TokenFollowsTask, PanicIsTerminal, ElectedIsWritten,
     FailureIsStored
<1>5. RoomNarrows
  BY PoolAssumption DEF PoolInv, AdmitCheck, Goto, Refuse, WebSocket, registry,
     RoomNarrows, Registered, PoolTypeOK, Loops, Tasks, Finished
<1>6. RoomIsKept'
  BY <1>5, RoomSurvives DEF PoolInv
<1>. QED BY <1>1, <1>2, <1>3, <1>4, <1>5, <1>6 DEF PoolInv

\* The locked half of admit: nothing enters a registry that is closing or
\* full, or holds the id.
LEMMA AdmitKeeps ==
  ASSUME PoolInv, Admit, UNCHANGED scenario PROVE PoolInv'
<1>1. PoolTypeOK' /\ CurrentIsFresh' /\ AnswerEndsTask'
  BY PoolAssumption DEF PoolInv, Admit, Faults, Goto, Refuse, WebSocket, Shut, SameId,
     registry, PoolTypeOK, Loops, Tasks, Finished, CurrentIsFresh, InTurn, AnswerEndsTask
<1>2. TokenFollowsTask' /\ LostOwnerIsTold'
  BY PoolAssumption DEF PoolInv, Admit, Faults, Goto, Refuse, WebSocket, Shut, SameId,
     registry, PoolTypeOK, Loops, Tasks, Finished, CurrentIsFresh, InTurn, TokenFollowsTask,
     LostOwnerIsTold, NoEntryOutlivesClosing, IdsAreUnique
<1>3. NoEntryOutlivesClosing' /\ IdsAreUnique'
  BY PoolAssumption DEF PoolInv, Admit, Faults, Goto, Refuse, WebSocket, Shut, SameId,
     registry, PoolTypeOK, Loops, Tasks, Finished, CurrentIsFresh, InTurn,
     NoEntryOutlivesClosing, IdsAreUnique
<1>4. PanicIsTerminal' /\ ElectedIsWritten' /\ FailureIsStored'
  BY PoolAssumption DEF PoolInv, Admit, Faults, Goto, Refuse, WebSocket, Shut, SameId,
     registry, PoolTypeOK, Loops, Tasks, Finished, TokenFollowsTask, PanicIsTerminal,
     ElectedIsWritten, FailureIsStored
<1>5. RoomIsKept'
  <2>1. CASE Registered' = Registered /\ loop' \notin {"check", "admit"}
    BY <2>1, RoomSurvives DEF PoolInv, RoomNarrows
  <2>2. CASE Registered' = Registered \cup {cur} /\ loop' = "drain"
    <3>1. IsFiniteSet(Registered) /\ Cardinality(Registered) < Capacity
      BY PoolAssumption, FS_Subset DEF PoolInv, RoomIsKept, Admit, Registered
    <3>2. Cardinality(Registered) \in Nat
      BY <3>1, FS_CardinalityType
    <3>3. \/ Cardinality(Registered') = Cardinality(Registered)
          \/ Cardinality(Registered') = Cardinality(Registered) + 1
      BY <3>1, <2>2, FS_AddElement
    <3>. QED BY <2>2, <3>1, <3>2, <3>3, PoolAssumption DEF RoomIsKept
  <2>3. \/ Registered' = Registered /\ loop' \notin {"check", "admit"}
        \/ Registered' = Registered \cup {cur} /\ loop' = "drain"
    BY DEF PoolInv, Admit, Faults, Goto, Refuse, WebSocket, Shut, SameId, registry, PoolTypeOK,
       Loops, Tasks, Finished, CurrentIsFresh, InTurn, Registered
  <2>. QED BY <2>1, <2>2, <2>3
<1>. QED BY <1>1, <1>2, <1>3, <1>4, <1>5 DEF PoolInv

\* The receiving thread answers only the request it did not admit.
LEMMA RespondKeeps ==
  ASSUME PoolInv, Respond, UNCHANGED scenario PROVE PoolInv'
<1>1. PoolTypeOK' /\ CurrentIsFresh' /\ AnswerEndsTask'
  BY PoolAssumption DEF PoolInv, Respond, Faults, Goto, WebSocket, registry, PoolTypeOK, Loops,
     Tasks, Finished, CurrentIsFresh, InTurn, AnswerEndsTask
<1>2. TokenFollowsTask' /\ LostOwnerIsTold'
  BY PoolAssumption DEF PoolInv, Respond, Faults, Goto, WebSocket, registry, PoolTypeOK, Loops,
     Tasks, Finished, CurrentIsFresh, InTurn, TokenFollowsTask, LostOwnerIsTold,
     NoEntryOutlivesClosing, IdsAreUnique
<1>3. NoEntryOutlivesClosing' /\ IdsAreUnique'
  BY PoolAssumption DEF PoolInv, Respond, Faults, Goto, WebSocket, registry, PoolTypeOK, Loops,
     Tasks, Finished, CurrentIsFresh, InTurn, NoEntryOutlivesClosing, IdsAreUnique
<1>4. PanicIsTerminal' /\ ElectedIsWritten' /\ FailureIsStored'
  BY PoolAssumption DEF PoolInv, Respond, Faults, Goto, WebSocket, registry, PoolTypeOK, Loops,
     Tasks, Finished, TokenFollowsTask, PanicIsTerminal, ElectedIsWritten, FailureIsStored,
     AnswerEndsTask, CurrentIsFresh, InTurn
<1>5. RoomNarrows
  BY PoolAssumption DEF PoolInv, Respond, Faults, Goto, WebSocket, registry, RoomNarrows,
     Registered, PoolTypeOK, Loops, Tasks, Finished
<1>6. RoomIsKept'
  BY <1>5, RoomSurvives DEF PoolInv
<1>. QED BY <1>1, <1>2, <1>3, <1>4, <1>5, <1>6 DEF PoolInv

\* Aborting the tasks of an id touches their contexts only.
LEMMA AbortIdKeeps ==
  ASSUME PoolInv, AbortId, UNCHANGED scenario PROVE PoolInv'
<1>1. PoolTypeOK' /\ CurrentIsFresh' /\ AnswerEndsTask'
  BY PoolAssumption DEF PoolInv, AbortId, Goto, Registered, SameId, registry, PoolTypeOK,
     Loops, Tasks, Finished, CurrentIsFresh, InTurn, AnswerEndsTask
<1>2. TokenFollowsTask' /\ LostOwnerIsTold'
  BY PoolAssumption DEF PoolInv, AbortId, Goto, Registered, SameId, registry, PoolTypeOK,
     Loops, Tasks, Finished, CurrentIsFresh, InTurn, TokenFollowsTask, LostOwnerIsTold,
     NoEntryOutlivesClosing, IdsAreUnique
<1>3. NoEntryOutlivesClosing' /\ IdsAreUnique'
  BY PoolAssumption DEF PoolInv, AbortId, Goto, Registered, SameId, registry, PoolTypeOK,
     Loops, Tasks, Finished, CurrentIsFresh, InTurn, NoEntryOutlivesClosing,
     IdsAreUnique
<1>4. PanicIsTerminal' /\ ElectedIsWritten' /\ FailureIsStored'
  BY PoolAssumption DEF PoolInv, AbortId, Goto, Registered, SameId, registry, PoolTypeOK,
     Loops, Tasks, Finished, TokenFollowsTask, PanicIsTerminal, WebSocket,
     ElectedIsWritten, FailureIsStored
<1>5. RoomNarrows
  BY PoolAssumption DEF PoolInv, AbortId, Goto, Registered, SameId, registry, RoomNarrows,
     PoolTypeOK, Loops, Tasks, Finished
<1>6. RoomIsKept'
  BY <1>5, RoomSurvives DEF PoolInv
<1>. QED BY <1>1, <1>2, <1>3, <1>4, <1>5, <1>6 DEF PoolInv

\* cancel_all tells every callback that still has an entry.
LEMMA StopKeeps ==
  ASSUME PoolInv, Stop, UNCHANGED scenario PROVE PoolInv'
<1>1. PoolTypeOK' /\ CurrentIsFresh' /\ AnswerEndsTask'
  BY PoolAssumption DEF PoolInv, Stop, CancelAll, CancelTokens, Goto, PoolTypeOK, Loops, Tasks,
     Finished, CurrentIsFresh, InTurn, AnswerEndsTask
<1>2. TokenFollowsTask' /\ LostOwnerIsTold'
  BY PoolAssumption DEF PoolInv, Stop, CancelAll, CancelTokens, Goto, PoolTypeOK, Loops, Tasks,
     Finished, CurrentIsFresh, InTurn, TokenFollowsTask, LostOwnerIsTold,
     NoEntryOutlivesClosing, IdsAreUnique
<1>3. NoEntryOutlivesClosing' /\ IdsAreUnique'
  BY PoolAssumption DEF PoolInv, Stop, CancelAll, CancelTokens, Goto, PoolTypeOK, Loops, Tasks,
     Finished, CurrentIsFresh, InTurn, NoEntryOutlivesClosing, IdsAreUnique
<1>4. PanicIsTerminal' /\ ElectedIsWritten' /\ FailureIsStored'
  BY PoolAssumption DEF PoolInv, Stop, CancelAll, CancelTokens, Goto, PoolTypeOK, Loops, Tasks,
     Finished, TokenFollowsTask, PanicIsTerminal, WebSocket, ElectedIsWritten,
     FailureIsStored
<1>5. RoomNarrows
  BY PoolAssumption DEF PoolInv, Stop, CancelAll, CancelTokens, Goto, RoomNarrows,
     Registered, PoolTypeOK, Loops, Tasks, Finished
<1>6. RoomIsKept'
  BY <1>5, RoomSurvives DEF PoolInv
<1>. QED BY <1>1, <1>2, <1>3, <1>4, <1>5, <1>6 DEF PoolInv

\* Aborting every task touches their contexts only.
LEMMA AbortAllKeeps ==
  ASSUME PoolInv, AbortAll, UNCHANGED scenario PROVE PoolInv'
<1>1. PoolTypeOK' /\ CurrentIsFresh' /\ AnswerEndsTask'
  BY PoolAssumption DEF PoolInv, AbortAll, Goto, Registered, registry, PoolTypeOK, Loops,
     Tasks, Finished, CurrentIsFresh, InTurn, AnswerEndsTask
<1>2. TokenFollowsTask' /\ LostOwnerIsTold'
  BY PoolAssumption DEF PoolInv, AbortAll, Goto, Registered, registry, PoolTypeOK, Loops,
     Tasks, Finished, CurrentIsFresh, InTurn, TokenFollowsTask, LostOwnerIsTold,
     NoEntryOutlivesClosing, IdsAreUnique
<1>3. NoEntryOutlivesClosing' /\ IdsAreUnique'
  BY PoolAssumption DEF PoolInv, AbortAll, Goto, Registered, registry, PoolTypeOK, Loops,
     Tasks, Finished, CurrentIsFresh, InTurn, NoEntryOutlivesClosing, IdsAreUnique
<1>4. PanicIsTerminal' /\ ElectedIsWritten' /\ FailureIsStored'
  BY PoolAssumption DEF PoolInv, AbortAll, Goto, Registered, registry, PoolTypeOK, Loops,
     Tasks, Finished, TokenFollowsTask, PanicIsTerminal, WebSocket, ElectedIsWritten,
     FailureIsStored
<1>5. RoomNarrows
  BY PoolAssumption DEF PoolInv, AbortAll, Goto, Registered, registry, RoomNarrows, PoolTypeOK,
     Loops, Tasks, Finished
<1>6. RoomIsKept'
  BY <1>5, RoomSurvives DEF PoolInv
<1>. QED BY <1>1, <1>2, <1>3, <1>4, <1>5, <1>6 DEF PoolInv

\* A task begins, or ends before it has begun.
LEMMA StartKeeps ==
  ASSUME PoolInv, NEW r \in Reqs, Start(r), UNCHANGED scenario PROVE PoolInv'
<1>1. PoolTypeOK' /\ CurrentIsFresh' /\ AnswerEndsTask'
  BY PoolAssumption DEF PoolInv, Start, Step, receiver, registry, PoolTypeOK, Loops, Tasks,
     Finished, CurrentIsFresh, InTurn, AnswerEndsTask
<1>2. TokenFollowsTask' /\ LostOwnerIsTold'
  BY PoolAssumption DEF PoolInv, Start, Step, receiver, registry, PoolTypeOK, Loops, Tasks,
     Finished, CurrentIsFresh, InTurn, TokenFollowsTask, LostOwnerIsTold,
     NoEntryOutlivesClosing, IdsAreUnique
<1>3. NoEntryOutlivesClosing' /\ IdsAreUnique'
  BY PoolAssumption DEF PoolInv, Start, Step, receiver, registry, PoolTypeOK, Loops, Tasks,
     Finished, CurrentIsFresh, InTurn, NoEntryOutlivesClosing, IdsAreUnique
<1>4. PanicIsTerminal' /\ ElectedIsWritten' /\ FailureIsStored'
  BY PoolAssumption DEF PoolInv, Start, Step, receiver, registry, PoolTypeOK, Loops, Tasks,
     Finished, TokenFollowsTask, PanicIsTerminal, WebSocket, ElectedIsWritten,
     FailureIsStored
<1>5. RoomNarrows
  BY PoolAssumption DEF PoolInv, Start, Step, receiver, registry, RoomNarrows, Registered,
     PoolTypeOK, Loops, Tasks, Finished
<1>6. RoomIsKept'
  BY <1>5, RoomSurvives DEF PoolInv
<1>. QED BY <1>1, <1>2, <1>3, <1>4, <1>5, <1>6 DEF PoolInv

\* A handler's return changes no entry.
LEMMA HandlerReturnsKeeps ==
  ASSUME PoolInv, NEW r \in Reqs, HandlerReturns(r), UNCHANGED scenario PROVE PoolInv'
<1>1. PoolTypeOK' /\ CurrentIsFresh' /\ AnswerEndsTask'
  BY PoolAssumption DEF PoolInv, HandlerReturns, Step, receiver, registry, PoolTypeOK, Loops,
     Tasks, Finished, CurrentIsFresh, InTurn, AnswerEndsTask
<1>2. TokenFollowsTask' /\ LostOwnerIsTold'
  BY PoolAssumption DEF PoolInv, HandlerReturns, Step, receiver, registry, PoolTypeOK, Loops,
     Tasks, Finished, CurrentIsFresh, InTurn, TokenFollowsTask, LostOwnerIsTold,
     NoEntryOutlivesClosing, IdsAreUnique
<1>3. NoEntryOutlivesClosing' /\ IdsAreUnique'
  BY PoolAssumption DEF PoolInv, HandlerReturns, Step, receiver, registry, PoolTypeOK, Loops,
     Tasks, Finished, CurrentIsFresh, InTurn, NoEntryOutlivesClosing, IdsAreUnique
<1>4. PanicIsTerminal' /\ ElectedIsWritten' /\ FailureIsStored'
  BY PoolAssumption DEF PoolInv, HandlerReturns, Step, receiver, registry, PoolTypeOK, Loops,
     Tasks, Finished, TokenFollowsTask, PanicIsTerminal, WebSocket, ElectedIsWritten,
     FailureIsStored
<1>5. RoomNarrows
  BY PoolAssumption DEF PoolInv, HandlerReturns, Step, receiver, registry, RoomNarrows,
     Registered, PoolTypeOK, Loops, Tasks, Finished
<1>6. RoomIsKept'
  BY <1>5, RoomSurvives DEF PoolInv
<1>. QED BY <1>1, <1>2, <1>3, <1>4, <1>5, <1>6 DEF PoolInv

\* A panic leaves the entry to whoever observes it.
LEMMA HandlerPanicsKeeps ==
  ASSUME PoolInv, NEW r \in Reqs, HandlerPanics(r), UNCHANGED scenario PROVE PoolInv'
<1>1. PoolTypeOK' /\ CurrentIsFresh' /\ AnswerEndsTask'
  BY PoolAssumption DEF PoolInv, HandlerPanics, Faults, Step, WebSocket, receiver,
     registry, PoolTypeOK, Loops, Tasks, Finished, CurrentIsFresh, InTurn, AnswerEndsTask
<1>2. TokenFollowsTask' /\ LostOwnerIsTold'
  BY PoolAssumption DEF PoolInv, HandlerPanics, Faults, Step, WebSocket, receiver,
     registry, PoolTypeOK, Loops, Tasks, Finished, CurrentIsFresh, InTurn, TokenFollowsTask,
     LostOwnerIsTold, NoEntryOutlivesClosing, IdsAreUnique
<1>3. NoEntryOutlivesClosing' /\ IdsAreUnique'
  BY PoolAssumption DEF PoolInv, HandlerPanics, Faults, Step, WebSocket, receiver,
     registry, PoolTypeOK, Loops, Tasks, Finished, CurrentIsFresh, InTurn,
     NoEntryOutlivesClosing, IdsAreUnique
<1>4. PanicIsTerminal' /\ ElectedIsWritten' /\ FailureIsStored'
  BY PoolAssumption DEF PoolInv, HandlerPanics, Faults, Step, WebSocket, receiver,
     registry, PoolTypeOK, Loops, Tasks, Finished, TokenFollowsTask, PanicIsTerminal,
     ElectedIsWritten, FailureIsStored
<1>5. RoomNarrows
  BY PoolAssumption DEF PoolInv, HandlerPanics, Faults, Step, WebSocket, receiver,
     registry, RoomNarrows, Registered, PoolTypeOK, Loops, Tasks, Finished
<1>6. RoomIsKept'
  BY <1>5, RoomSurvives DEF PoolInv
<1>. QED BY <1>1, <1>2, <1>3, <1>4, <1>5, <1>6 DEF PoolInv

\* The completion guard cancels everything unless its request was
\* cancelled before.
LEMMA GuardDropKeeps ==
  ASSUME PoolInv, NEW r \in Reqs, GuardDrop(r), UNCHANGED scenario PROVE PoolInv'
<1>1. PoolTypeOK' /\ CurrentIsFresh' /\ AnswerEndsTask'
  BY PoolAssumption DEF PoolInv, GuardDrop, CancelAll, CancelTokens, Faults, Step,
     WebSocket, receiver, registry, PoolTypeOK, Loops, Tasks, Finished, CurrentIsFresh,
     InTurn, AnswerEndsTask
<1>2. TokenFollowsTask' /\ LostOwnerIsTold'
  BY PoolAssumption DEF PoolInv, GuardDrop, CancelAll, CancelTokens, Faults, Step,
     WebSocket, receiver, registry, PoolTypeOK, Loops, Tasks, Finished, CurrentIsFresh,
     InTurn, TokenFollowsTask, LostOwnerIsTold, NoEntryOutlivesClosing, IdsAreUnique
<1>3. NoEntryOutlivesClosing' /\ IdsAreUnique'
  BY PoolAssumption DEF PoolInv, GuardDrop, CancelAll, CancelTokens, Faults, Step,
     WebSocket, receiver, registry, PoolTypeOK, Loops, Tasks, Finished, CurrentIsFresh,
     InTurn, NoEntryOutlivesClosing, IdsAreUnique
<1>4. PanicIsTerminal' /\ ElectedIsWritten' /\ FailureIsStored'
  BY PoolAssumption DEF PoolInv, GuardDrop, CancelAll, CancelTokens, Faults, Step,
     WebSocket, receiver, registry, PoolTypeOK, Loops, Tasks, Finished, TokenFollowsTask,
     PanicIsTerminal, ElectedIsWritten, FailureIsStored
<1>5. RoomNarrows
  BY PoolAssumption DEF PoolInv, GuardDrop, CancelAll, CancelTokens, Faults, Step,
     WebSocket, receiver, registry, RoomNarrows, Registered, PoolTypeOK, Loops, Tasks,
     Finished
<1>6. RoomIsKept'
  BY <1>5, RoomSurvives DEF PoolInv
<1>. QED BY <1>1, <1>2, <1>3, <1>4, <1>5, <1>6 DEF PoolInv

\* The writer has one holder, and a task that gives up waiting was
\* cancelled or fails the connection.
LEMMA TakeWriterKeeps ==
  ASSUME PoolInv, NEW r \in Reqs, TakeWriter(r), UNCHANGED scenario PROVE PoolInv'
<1>1. PoolTypeOK' /\ CurrentIsFresh' /\ AnswerEndsTask'
  BY PoolAssumption DEF PoolInv, TakeWriter, Faults, Step, WebSocket, receiver, registry,
     PoolTypeOK, Loops, Tasks, Finished, CurrentIsFresh, InTurn, AnswerEndsTask
<1>2. TokenFollowsTask' /\ LostOwnerIsTold'
  BY PoolAssumption DEF PoolInv, TakeWriter, Faults, Step, WebSocket, receiver, registry,
     PoolTypeOK, Loops, Tasks, Finished, CurrentIsFresh, InTurn, TokenFollowsTask,
     LostOwnerIsTold, NoEntryOutlivesClosing, IdsAreUnique
<1>3. NoEntryOutlivesClosing' /\ IdsAreUnique'
  BY PoolAssumption DEF PoolInv, TakeWriter, Faults, Step, WebSocket, receiver, registry,
     PoolTypeOK, Loops, Tasks, Finished, CurrentIsFresh, InTurn, NoEntryOutlivesClosing,
     IdsAreUnique
<1>4. PanicIsTerminal' /\ ElectedIsWritten' /\ FailureIsStored'
  BY PoolAssumption DEF PoolInv, TakeWriter, Faults, Step, WebSocket, receiver, registry,
     PoolTypeOK, Loops, Tasks, Finished, TokenFollowsTask, PanicIsTerminal, ElectedIsWritten,
     FailureIsStored
<1>5. RoomNarrows
  BY PoolAssumption DEF PoolInv, TakeWriter, Faults, Step, WebSocket, receiver, registry,
     RoomNarrows, Registered, PoolTypeOK, Loops, Tasks, Finished
<1>6. RoomIsKept'
  BY <1>5, RoomSurvives DEF PoolInv
<1>. QED BY <1>1, <1>2, <1>3, <1>4, <1>5, <1>6 DEF PoolInv

\* claim_response_if_open: the entry it removes is its own, because no
\* other entry has that id.
LEMMA ClaimKeeps ==
  ASSUME PoolInv, NEW r \in Reqs, Claim(r), UNCHANGED scenario PROVE PoolInv'
<1>1. PoolTypeOK' /\ CurrentIsFresh' /\ AnswerEndsTask'
  BY PoolAssumption DEF PoolInv, Claim, Claimable, SameId, Step, receiver, PoolTypeOK, Loops,
     Tasks, Finished, CurrentIsFresh, InTurn, AnswerEndsTask
<1>2. TokenFollowsTask' /\ LostOwnerIsTold'
  BY PoolAssumption DEF PoolInv, Claim, Claimable, SameId, Step, receiver, PoolTypeOK, Loops,
     Tasks, Finished, CurrentIsFresh, InTurn, TokenFollowsTask, LostOwnerIsTold,
     NoEntryOutlivesClosing, IdsAreUnique
<1>3. NoEntryOutlivesClosing' /\ IdsAreUnique'
  BY PoolAssumption DEF PoolInv, Claim, Claimable, SameId, Step, receiver, PoolTypeOK, Loops,
     Tasks, Finished, CurrentIsFresh, InTurn, NoEntryOutlivesClosing, IdsAreUnique
<1>4. PanicIsTerminal' /\ ElectedIsWritten' /\ FailureIsStored'
  BY PoolAssumption DEF PoolInv, Claim, Claimable, SameId, Step, receiver, PoolTypeOK, Loops,
     Tasks, Finished, TokenFollowsTask, PanicIsTerminal, WebSocket, ElectedIsWritten,
     FailureIsStored
<1>5. RoomNarrows
  BY PoolAssumption DEF PoolInv, Claim, Claimable, SameId, Step, receiver, RoomNarrows,
     Registered, PoolTypeOK, Loops, Tasks, Finished
<1>6. RoomIsKept'
  BY <1>5, RoomSurvives DEF PoolInv
<1>. QED BY <1>1, <1>2, <1>3, <1>4, <1>5, <1>6 DEF PoolInv

\* A write that fails silently belongs to a task that was aborted.
LEMMA WriteKeeps ==
  ASSUME PoolInv, NEW r \in Reqs, Write(r), UNCHANGED scenario PROVE PoolInv'
<1>1. PoolTypeOK' /\ CurrentIsFresh' /\ AnswerEndsTask'
  BY PoolAssumption DEF PoolInv, Write, Faults, Step, WebSocket, receiver, registry,
     PoolTypeOK, Loops, Tasks, Finished, CurrentIsFresh, InTurn, AnswerEndsTask
<1>2. TokenFollowsTask' /\ LostOwnerIsTold'
  BY PoolAssumption DEF PoolInv, Write, Faults, Step, WebSocket, receiver, registry,
     PoolTypeOK, Loops, Tasks, Finished, CurrentIsFresh, InTurn, TokenFollowsTask,
     LostOwnerIsTold, NoEntryOutlivesClosing, IdsAreUnique
<1>3. NoEntryOutlivesClosing' /\ IdsAreUnique'
  BY PoolAssumption DEF PoolInv, Write, Faults, Step, WebSocket, receiver, registry,
     PoolTypeOK, Loops, Tasks, Finished, CurrentIsFresh, InTurn, NoEntryOutlivesClosing,
     IdsAreUnique
<1>4. PanicIsTerminal' /\ ElectedIsWritten' /\ FailureIsStored'
  BY PoolAssumption DEF PoolInv, Write, Faults, Step, WebSocket, receiver, registry,
     PoolTypeOK, Loops, Tasks, Finished, TokenFollowsTask, PanicIsTerminal,
     ElectedIsWritten, FailureIsStored, AnswerEndsTask
<1>5. RoomNarrows
  BY PoolAssumption DEF PoolInv, Write, Faults, Step, WebSocket, receiver, registry,
     RoomNarrows, Registered, PoolTypeOK, Loops, Tasks, Finished
<1>6. RoomIsKept'
  BY <1>5, RoomSurvives DEF PoolInv
<1>. QED BY <1>1, <1>2, <1>3, <1>4, <1>5, <1>6 DEF PoolInv

\* The error is stored before the entries are cancelled.
LEMMA TaskFailsKeeps ==
  ASSUME PoolInv, NEW r \in Reqs, TaskFails(r), UNCHANGED scenario PROVE PoolInv'
<1>1. PoolTypeOK' /\ CurrentIsFresh' /\ AnswerEndsTask'
  BY PoolAssumption DEF PoolInv, TaskFails, Step, receiver, PoolTypeOK, Loops, Tasks, Finished,
     CurrentIsFresh, InTurn, AnswerEndsTask
<1>2. TokenFollowsTask' /\ LostOwnerIsTold'
  BY PoolAssumption DEF PoolInv, TaskFails, Step, receiver, PoolTypeOK, Loops, Tasks, Finished,
     CurrentIsFresh, InTurn, TokenFollowsTask, LostOwnerIsTold, NoEntryOutlivesClosing,
     IdsAreUnique
<1>3. NoEntryOutlivesClosing' /\ IdsAreUnique'
  BY PoolAssumption DEF PoolInv, TaskFails, Step, receiver, PoolTypeOK, Loops, Tasks, Finished,
     CurrentIsFresh, InTurn, NoEntryOutlivesClosing, IdsAreUnique
<1>4. PanicIsTerminal' /\ ElectedIsWritten' /\ FailureIsStored'
  BY PoolAssumption DEF PoolInv, TaskFails, Step, receiver, PoolTypeOK, Loops, Tasks, Finished,
     TokenFollowsTask, PanicIsTerminal, WebSocket, ElectedIsWritten, FailureIsStored
<1>5. RoomNarrows
  BY PoolAssumption DEF PoolInv, TaskFails, Step, receiver, RoomNarrows, Registered,
     PoolTypeOK, Loops, Tasks, Finished
<1>6. RoomIsKept'
  BY <1>5, RoomSurvives DEF PoolInv
<1>. QED BY <1>1, <1>2, <1>3, <1>4, <1>5, <1>6 DEF PoolInv

\* fail_connection cancels every entry that is left.
LEMMA TaskCancelsAllKeeps ==
  ASSUME PoolInv, NEW r \in Reqs, TaskCancelsAll(r), UNCHANGED scenario PROVE PoolInv'
<1>1. PoolTypeOK' /\ CurrentIsFresh' /\ AnswerEndsTask'
  BY PoolAssumption DEF PoolInv, TaskCancelsAll, CancelAll, CancelTokens, Step, receiver,
     PoolTypeOK, Loops, Tasks, Finished, CurrentIsFresh, InTurn, AnswerEndsTask
<1>2. TokenFollowsTask' /\ LostOwnerIsTold'
  BY PoolAssumption DEF PoolInv, TaskCancelsAll, CancelAll, CancelTokens, Step, receiver,
     PoolTypeOK, Loops, Tasks, Finished, CurrentIsFresh, InTurn, TokenFollowsTask,
     LostOwnerIsTold, NoEntryOutlivesClosing, IdsAreUnique
<1>3. NoEntryOutlivesClosing' /\ IdsAreUnique'
  BY PoolAssumption DEF PoolInv, TaskCancelsAll, CancelAll, CancelTokens, Step, receiver,
     PoolTypeOK, Loops, Tasks, Finished, CurrentIsFresh, InTurn, NoEntryOutlivesClosing,
     IdsAreUnique
<1>4. PanicIsTerminal' /\ ElectedIsWritten' /\ FailureIsStored'
  BY PoolAssumption DEF PoolInv, TaskCancelsAll, CancelAll, CancelTokens, Step, receiver,
     PoolTypeOK, Loops, Tasks, Finished, TokenFollowsTask, PanicIsTerminal, WebSocket,
     ElectedIsWritten, FailureIsStored
<1>5. RoomNarrows
  BY PoolAssumption DEF PoolInv, TaskCancelsAll, CancelAll, CancelTokens, Step, receiver,
     RoomNarrows, Registered, PoolTypeOK, Loops, Tasks, Finished
<1>6. RoomIsKept'
  BY <1>5, RoomSurvives DEF PoolInv
<1>. QED BY <1>1, <1>2, <1>3, <1>4, <1>5, <1>6 DEF PoolInv

-----------------------------------------------------------------------------
(* The theorems. *)

\* No state of Init has an entry, a task or a token that is not open.
LEMMA PoolInitEstablishes == PoolInit => PoolInv
<1>. SUFFICES ASSUME PoolInit PROVE PoolInv
  OBVIOUS
<1>1. Registered = {}
  BY DEF PoolInit, Registered
<1>2. RoomIsKept
  BY <1>1, FS_EmptySet, PoolAssumption DEF RoomIsKept, PoolInit
<1>3. PoolTypeOK
  <2>1. answers \in [Reqs -> 0..1]
    BY DEF PoolInit
  <2>2. task \in [Reqs -> Tasks] /\ token \in [Reqs -> {"open", "cancelled", "sent"}]
    BY DEF PoolInit, Tasks
  <2>. QED BY <2>1, <2>2 DEF PoolInit, PoolTypeOK, Loops
<1>4. CurrentIsFresh /\ AnswerEndsTask /\ TokenFollowsTask
  BY DEF PoolInit, CurrentIsFresh, InTurn, AnswerEndsTask, TokenFollowsTask
<1>5. LostOwnerIsTold /\ NoEntryOutlivesClosing /\ IdsAreUnique
  BY PoolAssumption DEF PoolInit, LostOwnerIsTold, NoEntryOutlivesClosing, IdsAreUnique
<1>6. PanicIsTerminal /\ ElectedIsWritten /\ FailureIsStored
  BY DEF PoolInit, PanicIsTerminal, ElectedIsWritten, FailureIsStored
<1>. QED BY <1>2, <1>3, <1>4, <1>5, <1>6 DEF PoolInv

\* No step of the receiving thread, of a task or of the peer breaks it.
LEMMA PoolNextPreserves == PoolInv /\ [PoolNext]_poolVars => PoolInv'
<1>. SUFFICES ASSUME PoolInv, [PoolNext]_poolVars PROVE PoolInv'
  OBVIOUS
<1>1. CASE Turn
  BY <1>1, DispatchReapKeeps, AdmitCheckKeeps, AdmitKeeps, RespondKeeps, AbortIdKeeps,
     StopKeeps, AbortAllKeeps DEF Turn
<1>2. ASSUME NEW r \in Reqs, TaskStep(r) PROVE PoolInv'
  BY <1>2, StartKeeps, HandlerReturnsKeeps, HandlerPanicsKeeps, GuardDropKeeps,
     TakeWriterKeeps, ClaimKeeps, WriteKeeps, TaskFailsKeeps, TaskCancelsAllKeeps DEF TaskStep
<1>3. ASSUME UNCHANGED scenario, Drain \/ Slice \/ Close \/ Join PROVE PoolInv'
  BY <1>3, DrainKeeps, SliceKeeps, CloseKeeps, JoinKeeps
<1>4. ASSUME UNCHANGED scenario, NEW r \in Reqs,
             Request(r) \/ PeerCancel(r) \/ OwnerCancelled(r)
      PROVE  PoolInv'
  BY <1>4, RequestKeeps, PeerCancelKeeps, OwnerCancelledKeeps
<1>5. CASE Ended \/ UNCHANGED poolVars
  BY <1>5 DEF Ended, PoolInv, poolVars, PoolTypeOK, CurrentIsFresh, AnswerEndsTask, TokenFollowsTask,
     LostOwnerIsTold, NoEntryOutlivesClosing, IdsAreUnique, PanicIsTerminal, WebSocket,
     ElectedIsWritten, FailureIsStored, RoomIsKept, Registered
<1>. QED BY <1>1, <1>2, <1>3, <1>4, <1>5 DEF PoolNext

\* The inductive invariant holds in every reachable state of the pools.
THEOREM PoolInductive == PoolSpec => []PoolInv
BY PoolInitEstablishes, PoolNextPreserves, PTL DEF PoolSpec

\* The invariant bounds the entries, because every entry has a task.
LEMMA EntriesAreBounded == PoolInv => Cardinality(active) <= Capacity
<1>. SUFFICES ASSUME PoolInv PROVE Cardinality(active) <= Capacity
  OBVIOUS
<1>1. IsFiniteSet(Registered)
  BY PoolAssumption, FS_Subset DEF Registered
<1>2. active \subseteq Registered
  BY DEF PoolInv, PoolTypeOK, NoEntryOutlivesClosing, Registered
<1>3. IsFiniteSet(active) /\ Cardinality(active) <= Cardinality(Registered)
  BY <1>1, <1>2, FS_Subset
<1>4. Cardinality(active) \in Nat /\ Cardinality(Registered) \in Nat
  BY <1>1, <1>3, FS_CardinalityType
<1>. QED BY <1>3, <1>4, PoolAssumption DEF PoolInv, RoomIsKept

\* The registry and its tasks agree in every reachable state: whoever lost its
\* entry can tell, closing leaves no entry, and neither the limit nor an id is
\* shared beyond its bound.
THEOREM RegistryHolds == PoolSpec => []RegistryIsExact
<1>1. PoolInv => RegistryIsExact
  BY EntriesAreBounded DEF PoolInv, RegistryIsExact, CapacityHolds, IdsAreUnique, RoomIsKept
<1>. QED BY <1>1, PoolInductive, PTL

\* A panic observed on a WebSocket ends its connection, and an elected response
\* is written or the connection fails: on stdio whichever contexts are cancelled,
\* on a WebSocket unless the context of the task itself was cancelled.
THEOREM NothingDisappears == PoolSpec => []NothingIsSwallowed
<1>1. PoolInv => NothingIsSwallowed
  BY DEF PoolInv, NothingIsSwallowed
<1>. QED BY <1>1, PoolInductive, PTL

\* A response is written by the receiving thread for a request it refused, or by
\* the elected callback that holds the writer.
LEMMA WriterWasElected ==
  ASSUME PoolInv, [PoolNext]_poolVars, NEW s \in Reqs, answers'[s] > answers[s]
  PROVE  \/ task[s] = "none" /\ loop = "respond" /\ cur = s
         \/ token[s] = "sent" /\ writer = s /\ task[s] = "writing"
<1>1. answers' # answers
  BY DEF PoolInv, PoolTypeOK
<1>2. CASE Respond
  BY <1>2 DEF PoolInv, PoolTypeOK, CurrentIsFresh, InTurn, Respond, Goto
<1>3. ASSUME NEW r \in Reqs, Write(r)
      PROVE  token[s] = "sent" /\ writer = s /\ task[s] = "writing"
  BY <1>3 DEF PoolInv, PoolTypeOK, TokenFollowsTask, LostOwnerIsTold, Write
<1>4. Respond \/ \E r \in Reqs : Write(r)
  BY <1>1 DEF PoolNext, Turn, TaskStep, Ended, poolVars, Drain, Slice, Close, Join, Request, PeerCancel,
     OwnerCancelled, DispatchReap, AdmitCheck, Admit, AbortId, Stop, AbortAll, Start,
     HandlerReturns, HandlerPanics, GuardDrop, TakeWriter, Claim, TaskFails, TaskCancelsAll
<1>. QED BY <1>2, <1>3, <1>4

\* A token that is not open keeps its state, and its request never has an entry.
LEMMA ClosedTokenStays ==
  ASSUME PoolInv, PoolInv', [PoolNext]_poolVars, NEW s \in Reqs, token[s] # "open"
  PROVE  token'[s] = token[s] /\ s \notin active'
<1>1. s \notin active
  BY DEF PoolInv, TokenFollowsTask
<1>2. CASE UNCHANGED token
  BY <1>2 DEF PoolInv, TokenFollowsTask
<1>3. ASSUME NEW R, token' = CancelTokens(token, R) PROVE token'[s] = token[s]
  BY <1>3 DEF CancelTokens
<1>4. ASSUME NEW r \in Reqs, Claim(r) PROVE token'[s] = token[s]
  BY <1>4 DEF PoolInv, PoolTypeOK, Claim, Claimable
<1>. DEFINE TokenMoves == \/ UNCHANGED token
                          \/ \E R \in SUBSET active : token' = CancelTokens(token, R)
                          \/ \E r \in Reqs : Claim(r)
<1>5. TokenMoves
  <2>1. CASE Turn
    BY <2>1 DEF Turn, DispatchReap, FailReaped, AdmitCheck, Admit, Respond, AbortId, Stop,
       AbortAll, CancelAll, registry
  <2>2. ASSUME NEW r \in Reqs, TaskStep(r) PROVE TokenMoves
    BY <2>2 DEF TaskStep, Start, HandlerReturns, HandlerPanics, GuardDrop, TakeWriter, Write,
       TaskFails, TaskCancelsAll, CancelAll, registry
  <2>. QED
    BY <2>1, <2>2 DEF PoolNext, Ended, poolVars, Drain, FailReaped, Slice, Close, Join, Request,
       PeerCancel, OwnerCancelled, registry
<1>6. token'[s] = token[s]
  BY <1>3, <1>4, <1>5
<1>. QED BY <1>6 DEF PoolInv, TokenFollowsTask

\* The election decides who writes, and an election or a cancellation is never
\* undone.
THEOREM ElectionHolds == PoolSpec => ElectionDecides
<1>1. PoolInv /\ [PoolNext]_poolVars
        => [\A r \in Reqs : answers'[r] > answers[r] =>
              \/ task[r] = "none" /\ loop = "respond" /\ cur = r
              \/ token[r] = "sent" /\ writer = r /\ task[r] = "writing"]_poolVars
  BY WriterWasElected
<1>2. PoolInv /\ PoolInv' /\ [PoolNext]_poolVars
        => [\A r \in Reqs : token[r] # "open" => token'[r] = token[r] /\ r \notin active']_poolVars
  BY ClosedTokenStays
<1>3. PoolSpec => OnlyElectedWrites
  BY <1>1, PoolInductive, PTL DEF PoolSpec, OnlyElectedWrites
<1>4. PoolSpec => ElectionIsFinal
  BY <1>2, PoolInductive, PTL DEF PoolSpec, ElectionIsFinal
<1>. QED BY <1>3, <1>4, PTL DEF ElectionDecides
=============================================================================
