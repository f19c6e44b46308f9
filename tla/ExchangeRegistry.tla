---------------------------- MODULE ExchangeRegistry ----------------------------
(***************************************************************************)
(* MrtrExchangeRegistry (fastmcp-server/src/bidirectional.rs): the one-use *)
(* request states of final multi-round-trip requests.                      *)
(*                                                                         *)
(* A handler that needs input ends its request with input_required: the    *)
(* registry keeps the exchange and mints a random request state for it.    *)
(* The client retries the request with that state and some answers, on a   *)
(* thread of its own; the retry either completes the exchange or replaces  *)
(* its state by a successor that asks for what is still missing.  A client *)
(* that lost a response sends its retry again, so any number of retries of *)
(* one state may run at once.                                              *)
(*                                                                         *)
(* A wire retry takes the lock twice: it copies the ledger of expected     *)
(* inputs, decodes the answers without the lock and accepts them under it. *)
(* The clock is read before the second lock is obtained.  Cancellation of  *)
(* the owning request is a flag that no lock protects; accept_at reads it  *)
(* twice under the lock, and a cancellation between the two reads has the  *)
(* effect of one before the first or after the second, so accept_at is one *)
(* step.  A request state is a number here: each is drawn once, from 32    *)
(* random bytes.                                                           *)
(***************************************************************************)
EXTENDS Integers, FiniteSets, Functions

CONSTANTS
  Issues,        \* requests whose handler asks for input
  Retries,       \* client retries, each on its own thread
  Keys,          \* names of inputs
  Elicitations,  \* the keys whose input is an elicitation
  Bindings,      \* immutable facts of a request: operation, session, principal
  NoOwner,       \* the owner of a retry that was not accepted
  Unbound,       \* binding None, of the typed interface
  Stateless,     \* bindings of stateless HTTP requests
  Anonymous,     \* bindings without a verified principal
  BindingOf,     \* [Issues -> Bindings]
  Answers,       \* answer maps that clients send: key |-> does the value decode
  MaxStates, MaxRounds, MaxInputs, MaxTotal,  \* the limits of with_limits
  Ttl,           \* request_state_ttl
  MaxTime        \* the clock stops here (bound)

ASSUME BindingAssumption ==
  /\ Stateless \subseteq Bindings /\ Anonymous \subseteq Bindings
  /\ Unbound \in Bindings \ Stateless /\ NoOwner \notin Issues
  /\ BindingOf \in [Issues -> Bindings]
  /\ Elicitations \subseteq Keys /\ IsFiniteSet(Keys)
  /\ \A a \in Answers : a \in [DOMAIN a -> BOOLEAN]
ASSUME LimitAssumption ==
  /\ MaxStates \in Nat \ {0} /\ MaxRounds \in Nat \ {0}
  /\ MaxInputs \in Nat \ {0} /\ MaxTotal \in Nat /\ MaxInputs <= MaxTotal
  /\ Ttl \in Nat \ {0} /\ MaxTime \in Nat

VARIABLES
  exchanges,         \* state.exchanges: request state |-> exchange
  stateless_closed,  \* state.stateless_closed
  issue,             \* progress of each issuing request
  retry,             \* progress of each retry
  cancelled,         \* issuing requests whose cancellation was requested
  now,               \* the clock
  minted             \* request states drawn so far

vars == <<exchanges, stateless_closed, issue, retry, cancelled, now, minted>>

Tokens == 1..minted
Empty == [k \in {} |-> 0]

\* An exchange.  The ledger of expected kinds is that of its requests; the
\* private handler state names the issuing request, as the owner does.
Exchange(i, req, at) ==
  [owner |-> i, expires |-> at + Ttl, round |-> 1, total |-> Cardinality(req),
   requests |-> req, responses |-> Empty, binding |-> BindingOf[i]]

NewIssue == [pc |-> "ready", requests |-> {}, at |-> 0]
NewRetry == [pc |-> "ready", token |-> 0, binding |-> Unbound, answers |-> Empty,
             stateOnly |-> FALSE, expected |-> {}, at |-> 0,
             gave |-> Empty, owner |-> NoOwner]

Init ==
  /\ exchanges = Empty /\ stateless_closed = FALSE
  /\ issue = [i \in Issues |-> NewIssue]
  /\ retry = [r \in Retries |-> NewRetry]
  /\ cancelled = {} /\ now = 0 /\ minted = 0

-----------------------------------------------------------------------------
(* The registry *)

Live(x, t) == t < x.expires /\ x.owner \notin cancelled

PurgeStale(xs, t) == Restrict(xs, {k \in DOMAIN xs : Live(xs[k], t)})

Without(k) == Restrict(exchanges, DOMAIN exchanges \ {k})

\* The binding that the registry refuses before it looks at anything.
Unverified(b) == b \in Stateless \cap Anonymous

-----------------------------------------------------------------------------
(* issue_at *)

Refused(i) == issue' = [issue EXCEPT ![i].pc = "refused"]

\* The checks before the lock, and the clock.
IssueStart(i) ==
  /\ issue[i].pc = "ready"
  /\ \E req \in SUBSET Keys :
       IF Unverified(BindingOf[i]) \/ i \in cancelled \/ Cardinality(req) > MaxInputs
         THEN Refused(i)
         ELSE issue' = [issue EXCEPT ![i] =
                          [pc |-> "locking", requests |-> req, at |-> now]]
  /\ UNCHANGED <<exchanges, stateless_closed, retry, cancelled, now, minted>>

Insert(xs, k, x) == [j \in DOMAIN xs \cup {k} |-> IF j = k THEN x ELSE xs[j]]

\* Faulty variant: the fence is not looked at under the lock.
AdmitsUnfenced(i, xs) == Cardinality(DOMAIN xs) < MaxStates

\* Faulty variant: the capacity check is off by one.
AdmitsOneMore(i, xs) ==
  /\ ~(stateless_closed /\ BindingOf[i] \in Stateless)
  /\ Cardinality(DOMAIN xs) <= MaxStates

Admits(i, xs) ==
  /\ ~(stateless_closed /\ BindingOf[i] \in Stateless)
  /\ Cardinality(DOMAIN xs) < MaxStates

\* Under the lock.  Drawing the request state may fail too.
IssueCommit(i) ==
  /\ issue[i].pc = "locking"
  /\ LET xs == PurgeStale(exchanges, issue[i].at) IN
       \/ /\ exchanges' = xs
          /\ Refused(i)
          /\ UNCHANGED minted
       \/ /\ Admits(i, xs)
          /\ minted' = minted + 1
          /\ exchanges' = Insert(xs, minted', Exchange(i, issue[i].requests, issue[i].at))
          /\ issue' = [issue EXCEPT ![i].pc = "issued"]
  /\ UNCHANGED <<stateless_closed, retry, cancelled, now>>

-----------------------------------------------------------------------------
(* Retries *)

\* append_accepted_if_absent for each response
Merge(f, g) == [k \in DOMAIN f \cup DOMAIN g |-> IF k \in DOMAIN f THEN f[k] ELSE g[k]]

Fail(r) == retry' = [retry EXCEPT ![r] = [NewRetry EXCEPT !.pc = "failed"]]

\* The exchange of a request state, when it exists and the binding matches.
Bound(k, b) == k \in DOMAIN exchanges /\ exchanges[k].binding = b

\* Stateless HTTP cannot resume an elicitation.
NeedsConnection(x) == x.binding \in Stateless /\ x.requests \cap Elicitations # {}

\* accept and accept_state_only_bound: the answers are typed already, or
\* absent; only the clock is read before the lock.
AcceptTyped(r) ==
  /\ retry[r].pc = "ready"
  /\ \E k \in Tokens, a \in Answers :
       IF Cardinality(DOMAIN a) > MaxInputs
         THEN Fail(r)
         ELSE retry' = [retry EXCEPT ![r] = [@ EXCEPT !.pc = "accepting",
                          !.token = k, !.answers = a, !.at = now]]
  /\ UNCHANGED <<exchanges, stateless_closed, issue, cancelled, now, minted>>

AcceptStateOnly(r) ==
  /\ retry[r].pc = "ready"
  /\ \E k \in Tokens, b \in Bindings \ {Unbound} :
       IF Unverified(b)
         THEN Fail(r)
         ELSE retry' = [retry EXCEPT ![r] = [@ EXCEPT !.pc = "accepting",
                          !.token = k, !.binding = b, !.stateOnly = TRUE, !.at = now]]
  /\ UNCHANGED <<exchanges, stateless_closed, issue, cancelled, now, minted>>

\* accept_wire_entries_with_binding up to the end of its first critical
\* section, whose clock is read under the lock.
AcceptWire(r) ==
  /\ retry[r].pc = "ready"
  /\ \E k \in Tokens, b \in Bindings, a \in Answers :
       \/ /\ Unverified(b) \/ Cardinality(DOMAIN a) > MaxInputs \/ ~Bound(k, b)
          /\ Fail(r)
          /\ UNCHANGED exchanges
       \/ /\ ~Unverified(b) /\ Cardinality(DOMAIN a) <= MaxInputs /\ Bound(k, b)
          /\ LET x == exchanges[k] IN
             \/ /\ ~Live(x, now)
                /\ exchanges' = Without(k)
                /\ Fail(r)
             \/ /\ Live(x, now) /\ NeedsConnection(x)
                /\ Fail(r)
                /\ UNCHANGED exchanges
             \/ /\ Live(x, now) /\ ~NeedsConnection(x)
                /\ exchanges' = PurgeStale(exchanges, now)
                /\ retry' = [retry EXCEPT ![r] = [@ EXCEPT !.pc = "decoding",
                     !.token = k, !.binding = b, !.answers = a, !.expected = x.requests]]
  /\ UNCHANGED <<stateless_closed, issue, cancelled, now, minted>>

\* The values of the expected keys are decoded without the lock; one that is
\* not of the issued kind fails the retry, as does a map without any.  Then
\* the clock is read for accept_at.
Decode(r) ==
  /\ retry[r].pc = "decoding"
  /\ LET known == DOMAIN retry[r].answers \cap retry[r].expected IN
       IF known = {} \/ \E k \in known : ~retry[r].answers[k]
         THEN Fail(r)
         ELSE retry' = [retry EXCEPT ![r] = [@ EXCEPT !.pc = "accepting", !.at = now,
                          !.answers = Restrict(@, known), !.expected = {}]]
  /\ UNCHANGED <<exchanges, stateless_closed, issue, cancelled, now, minted>>

\* Faulty variant: a successor lives for a full period from its retry.
SuccessorRenewed(r, x, got) ==
  [x EXCEPT !.round = @ + 1, !.total = @ + Cardinality(x.requests \ got),
            !.requests = @ \ got, !.responses = Merge(@, [k \in got |-> r]),
            !.expires = retry[r].at + Ttl]

\* Faulty variant: a successor starts with this retry's answers only.
SuccessorForgets(r, x, got) ==
  [x EXCEPT !.round = @ + 1, !.total = @ + Cardinality(x.requests \ got),
            !.requests = @ \ got, !.responses = [k \in got |-> r]]

\* Faulty variant: answers to unknown keys are kept too.
SuccessorKeepsUnknown(r, x, got) ==
  [x EXCEPT !.round = @ + 1, !.total = @ + Cardinality(x.requests \ got),
            !.requests = @ \ got,
            !.responses = Merge(@, [k \in DOMAIN retry[r].answers |-> r])]

Successor(r, x, got) ==
  [x EXCEPT !.round = @ + 1, !.total = @ + Cardinality(x.requests \ got),
            !.requests = @ \ got, !.responses = Merge(@, [k \in got |-> r])]

OverLimit(y) == y.round > MaxRounds \/ Cardinality(y.requests) > MaxInputs \/ y.total > MaxTotal

\* Faulty variant: a retry without progress is not refused.
InertUnlessWrong(r, x) ==
  \/ NeedsConnection(x)
  \/ retry[r].stateOnly /\ x.requests # {}
  \/ \E k \in DOMAIN retry[r].answers \cap x.requests : ~retry[r].answers[k]

\* A retry that is refused and leaves the request state as it was: an
\* elicitation over stateless HTTP, a state-only retry of a state that asks
\* for input, an answer of another kind, or no progress.
Inert(r, x) ==
  \/ NeedsConnection(x)
  \/ retry[r].stateOnly /\ x.requests # {}
  \/ \E k \in DOMAIN retry[r].answers \cap x.requests : ~retry[r].answers[k]
  \/ x.requests # {} /\ DOMAIN retry[r].answers \cap x.requests = {}

Done(r, pc, y) ==
  retry' = [retry EXCEPT ![r].pc = pc, ![r].gave = y.responses, ![r].owner = y.owner]

\* Faulty variant: the successor is inserted and the old state stays.
ReplaceKeepsOld(k, y) == Insert(exchanges, minted + 1, y)

Replace(k, y) == Insert(Without(k), minted + 1, y)

\* accept_at, one critical section.  The successor's state is drawn before
\* the old one is consumed; when that fails the old one stays.
AcceptAt(r) ==
  /\ retry[r].pc = "accepting"
  /\ LET k == retry[r].token
         x == exchanges[k]
         y == Successor(r, x, DOMAIN retry[r].answers \cap x.requests)
     IN \/ /\ ~Bound(k, retry[r].binding)
           /\ Fail(r) /\ UNCHANGED <<exchanges, minted>>
        \/ /\ Bound(k, retry[r].binding) /\ ~Live(x, retry[r].at)
           /\ exchanges' = Without(k)
           /\ Fail(r) /\ UNCHANGED minted
        \/ /\ Bound(k, retry[r].binding) /\ Live(x, retry[r].at) /\ Inert(r, x)
           /\ Fail(r) /\ UNCHANGED <<exchanges, minted>>
        \/ /\ Bound(k, retry[r].binding) /\ Live(x, retry[r].at) /\ ~Inert(r, x)
           /\ \/ /\ y.requests = {}
                 /\ exchanges' = Without(k)
                 /\ Done(r, "complete", y) /\ UNCHANGED minted
              \/ /\ y.requests # {} /\ OverLimit(y)
                 /\ exchanges' = Without(k)
                 /\ Fail(r) /\ UNCHANGED minted
              \/ /\ y.requests # {} /\ ~OverLimit(y)
                 /\ \/ /\ exchanges' = Replace(k, y)
                       /\ minted' = minted + 1
                       /\ Done(r, "rotated", y)
                    \/ /\ Fail(r) /\ UNCHANGED <<exchanges, minted>>
  /\ UNCHANGED <<stateless_closed, issue, cancelled, now>>

-----------------------------------------------------------------------------
(* The rest of the system *)

ActiveLen ==
  /\ exchanges' = PurgeStale(exchanges, now)
  /\ UNCHANGED <<stateless_closed, issue, retry, cancelled, now, minted>>

OutlivesFence(x) == x.binding \notin Stateless

\* close_stateless, when the HTTP listener shuts down
CloseStateless ==
  /\ stateless_closed' = TRUE
  /\ exchanges' = Restrict(exchanges, {k \in DOMAIN exchanges : OutlivesFence(exchanges[k])})
  /\ UNCHANGED <<issue, retry, cancelled, now, minted>>

Cancel(i) ==
  /\ cancelled' = cancelled \cup {i}
  /\ UNCHANGED <<exchanges, stateless_closed, issue, retry, now, minted>>

Tick ==
  /\ now < MaxTime
  /\ now' = now + 1
  /\ UNCHANGED <<exchanges, stateless_closed, issue, retry, cancelled, minted>>

Next ==
  \/ \E i \in Issues : IssueStart(i) \/ IssueCommit(i) \/ Cancel(i)
  \/ \E r \in Retries :
       \/ AcceptTyped(r) \/ AcceptStateOnly(r) \/ AcceptWire(r)
       \/ Decode(r) \/ AcceptAt(r)
  \/ ActiveLen \/ CloseStateless \/ Tick

Spec == Init /\ [][Next]_vars

-----------------------------------------------------------------------------
(* Properties *)

Accepted(r) == retry[r].pc \in {"complete", "rotated"}

\* Types: retained exchanges, issues and retries.
TypeOK ==
  /\ \A k \in DOMAIN exchanges :
       /\ k \in Tokens
       /\ exchanges[k].owner \in Issues /\ exchanges[k].binding \in Bindings
       /\ exchanges[k].requests \subseteq Keys
       /\ DOMAIN exchanges[k].responses \subseteq Keys
       /\ exchanges[k].round \in Nat \ {0} /\ exchanges[k].total \in Nat
       /\ exchanges[k].expires \in Nat
  /\ minted \in Nat /\ now \in 0..MaxTime
  /\ stateless_closed \in BOOLEAN /\ cancelled \subseteq Issues
  /\ \A i \in Issues :
       /\ issue[i].pc \in {"ready", "locking", "issued", "refused"}
       /\ issue[i].requests \subseteq Keys /\ issue[i].at \in 0..now
  /\ \A r \in Retries :
       /\ retry[r].pc \in {"ready", "decoding", "accepting", "complete", "rotated", "failed"}
       /\ retry[r].token \in 0..minted /\ retry[r].binding \in Bindings
       /\ retry[r].expected \subseteq Keys /\ retry[r].at \in 0..now

\* One-use states: whatever retries race on it, an exchange has at most one
\* request state, a state was accepted from at most one retry and is gone then,
\* and an exchange that completed once, resuming its handler, has none left.
OneUse ==
  /\ \A j, k \in DOMAIN exchanges : exchanges[j].owner = exchanges[k].owner => j = k
  /\ \A r \in Retries : Accepted(r) => retry[r].token \notin DOMAIN exchanges
  /\ \A r, q \in Retries :
       r # q /\ Accepted(r) /\ Accepted(q) => retry[r].token # retry[q].token
  /\ \A r \in Retries, k \in DOMAIN exchanges :
       retry[r].pc = "complete" => exchanges[k].owner # retry[r].owner
  /\ \A r, q \in Retries :
       r # q /\ retry[r].pc = "complete" /\ retry[q].pc = "complete"
         => retry[r].owner # retry[q].owner

\* What a completed exchange hands to the handler: an answer of the issued kind
\* for exactly the inputs it asked for, each from an accepted retry that carried
\* the binding of the issuing request.
CompletionIsExact ==
  \A r \in Retries : retry[r].pc = "complete" =>
    /\ DOMAIN retry[r].gave = issue[retry[r].owner].requests
    /\ \A k \in DOMAIN retry[r].gave :
         LET q == retry[r].gave[k] IN
         /\ Accepted(q) /\ retry[q].answers[k]
         /\ retry[q].owner = retry[r].owner
         /\ retry[q].binding = BindingOf[retry[r].owner]

\* Neither limit of with_limits is ever exceeded, and nothing is asked twice
\* beyond it: the successor of a partial retry counts again what it asks again.
LimitsHold ==
  /\ Cardinality(DOMAIN exchanges) <= MaxStates
  /\ \A k \in DOMAIN exchanges :
       /\ exchanges[k].round <= MaxRounds
       /\ exchanges[k].total <= MaxTotal
       /\ Cardinality(exchanges[k].requests) <= MaxInputs

\* No chain of partial retries outlives the period of its first state: each
\* accepted retry read the clock within Ttl of the clock its exchange was issued at.
DeadlineIsInherited ==
  \A r \in Retries : Accepted(r) => retry[r].at < issue[retry[r].owner].at + Ttl

\* close_stateless is a fence: after it there is no exchange of a stateless
\* request, although an issue or a retry was on its way, and none is accepted.
StatelessFence ==
  [][stateless_closed' =>
       /\ \A k \in DOMAIN exchanges' : exchanges'[k].binding \notin Stateless
       /\ \A r \in Retries :
            stateless_closed /\ Accepted(r)' /\ ~Accepted(r)
              => retry'[r].binding \notin Stateless]_vars

\* A request state that is still good disappears only by a retry that answers
\* something (or has nothing to answer), by the round limit, or by the fence:
\* malformed, unknown, cross-kind and foreign retries leave it to be used.
NothingIsBurnt ==
  [][\A k \in DOMAIN exchanges \ DOMAIN exchanges' :
       LET x == exchanges[k] IN
       \/ ~Live(x, now)
       \/ x.binding \in Stateless /\ stateless_closed'
       \/ \E r \in Retries :
            /\ retry[r].pc = "accepting" /\ retry[r].token = k
            /\ retry[r].binding = x.binding
            /\ x.requests = {} \/ x.requests \cap DOMAIN retry[r].answers # {}
            /\ Accepted(r)' \/ x.round = MaxRounds
                 \/ x.total + Cardinality(x.requests) > MaxTotal]_vars

\* A request state is used once, and what its completion hands on is exactly
\* what was asked, from those who were asked (accept under the second lock).
AcceptanceIsExact == OneUse /\ CompletionIsExact

\* Every limit holds, in number and in time: states, rounds, inputs, deadline.
ExchangesAreBounded == TypeOK /\ LimitsHold /\ DeadlineIsInherited
=============================================================================
