----------------------------- MODULE ClientExecutor -----------------------------
(***************************************************************************)
(* RequestExecutor (fastmcp-client/src/execution.rs): the requests a       *)
(* client has in flight on one connection.                                 *)
(*                                                                         *)
(* An execution is one generation of a request id: pending until its one   *)
(* terminal transition (a response, a timeout, a cancellation, the drop of *)
(* its handle, the loss of the connection), then retained for its owner    *)
(* while a tombstone keeps late responses to its id away from a successor. *)
(* All state is under one mutex.  Owners run on threads of their own; an   *)
(* owner that waits reads the transport itself and holds the mutex while   *)
(* it does, unless a connection-owned driver hands frames in.  A handle    *)
(* that is dropped while the mutex is taken only sets a flag, and one that *)
(* is dropped otherwise queues its cancellation: in both cases the next    *)
(* operation of the executor sends it.                                     *)
(*                                                                         *)
(* An operation may send several cancellations, and the connection fails   *)
(* with the first that cannot be sent.  Operators below map the state of   *)
(* the executor to the set of its possible results [s, ok]; ok is FALSE    *)
(* where the code returns an error.  Left out: the decoding of results,    *)
(* the observer queue of cancellation events and task subscriptions.       *)
(***************************************************************************)
EXTENDS Integers, FiniteSets, Sequences, Functions

CONSTANTS
  Execs,            \* executions: the generations
  Ids,              \* request ids
  Scenarios,        \* the environments a behaviour may run in
  None,             \* no thread, no execution
  MaxInFlight, MaxCorrelations,  \* limits of the executor
  MaxActivity,      \* MAX_RETAINED_PEER_ACTIVITY
  Retention,        \* DEFAULT_TOMBSTONE_RETENTION
  Idle, Absolute,   \* the timeout policy
  Patience          \* a peer answers at most this long after an execution ended

AllFaults == {"busy", "lost", "read", "malformed", "shutdown", "fail", "flood"}

ASSUME ExecutionAssumption ==
  /\ IsFiniteSet(Execs) /\ None \notin Execs
  /\ Scenarios \subseteq [ids : [Execs -> Ids], kind : [Execs -> {"plain", "initialize", "listen"}],
                           waiters : SUBSET Execs, external : BOOLEAN,
                           faults : SUBSET AllFaults, until : Nat]
ASSUME NumberAssumption ==
  /\ MaxInFlight \in Nat \ {0} /\ MaxCorrelations \in Nat \ {0} /\ MaxActivity \in Nat
  /\ Retention \in Nat \ {0} /\ Patience \in Nat
  /\ Idle \in Nat \ {0} /\ Absolute \in Nat /\ Idle <= Absolute

VARIABLES
  scenario, \* what the application and the environment do
  ex,       \* ExecutorState, see Fresh
  pc,       \* what the owner of each execution is doing
  dropped,  \* owner_dropped
  lock,     \* the thread that holds the mutex while it reads, or None
  now,      \* the clock
  canceller \* whose handle asked for the end of each execution, or None (history)

vars == <<scenario, ex, pc, dropped, lock, now, canceller>>

IdOf == scenario.ids
Initialize == {e \in Execs : scenario.kind[e] = "initialize"} \* its cancellation is not sent
Listens == {e \in Execs : scenario.kind[e] = "listen"}        \* subscriptions/listen
Waiters == scenario.waiters    \* executions whose owner calls wait
External == scenario.external  \* does a connection-owned driver hand in frames
Faults == scenario.faults
MaxTime == scenario.until      \* the clock stops here (bound)

Zero == [e \in Execs |-> 0]
Empty == [k \in {} |-> 0]

Outcomes == {"none", "response", "badResult", "caller", "dropped", "teardown",
             "idle", "absolute", "lost", "shutdown"}

\* The last five fields are history: when and how each execution ended, whose
\* response it was given, which request was last sent with an id, and how often
\* the peer was told to cancel the request it then knew under that id.
Fresh ==
  [pending |-> {}, idle |-> Zero, absolute |-> Zero, stream |-> Zero,
   tombs |-> Empty, retained |-> Empty, deferred |-> <<>>,
   notes |-> 0, stray |-> 0, ingress |-> "unclaimed", error |-> FALSE, shutdown |-> FALSE,
   ended |-> Zero, outcome |-> [e \in Execs |-> "none"], from |-> [e \in Execs |-> None],
   latest |-> [i \in Ids |-> None], told |-> Zero]

Init ==
  /\ scenario \in Scenarios
  /\ ex = Fresh
  /\ pc = [e \in Execs |-> "new"]
  /\ dropped = {} /\ lock = None /\ now = 0
  /\ canceller = [e \in Execs |-> None]

-----------------------------------------------------------------------------
(* Results of an operation *)

Ok(s) == [s |-> s, ok |-> TRUE]
Err(s) == [s |-> s, ok |-> FALSE]
Then(R, F(_)) == UNION {IF r.ok THEN F(r.s) ELSE {r} : r \in R}

-----------------------------------------------------------------------------
(* ExecutorState *)

PruneTombstones(s) ==
  [s EXCEPT !.tombs = Restrict(@, {i \in DOMAIN @ : @[i].expires > now})]

\* Pruning the terminal of an execution forgets its stream too.
PruneRetained(s) ==
  LET old == {e \in DOMAIN s.retained : s.retained[e] <= now} IN
  [s EXCEPT !.retained = Restrict(@, DOMAIN @ \ old),
            !.stream = [e \in Execs |-> IF e \in old THEN 0 ELSE @[e]]]

Put(f, S, v) == [k \in DOMAIN f \cup S |-> IF k \in S THEN v ELSE f[k]]

\* The terminal transition of a set of executions.
Retain(s, S, why) ==
  [s EXCEPT !.pending = @ \ S,
            !.retained = Put(@, S, now + Retention),
            !.outcome = [e \in Execs |-> IF e \in S THEN why[e] ELSE @[e]],
            !.ended = [e \in Execs |-> IF e \in S THEN now ELSE @[e]],
            !.idle = [e \in Execs |-> IF e \in S THEN 0 ELSE @[e]],
            !.absolute = [e \in Execs |-> IF e \in S THEN 0 ELSE @[e]]]

Release(s, S) == [s EXCEPT !.retained = Restrict(@, DOMAIN @ \ S)]

\* loud: late responses to the id are kept as diagnostics
Bury(s, S, loud) ==
  [s EXCEPT !.tombs = Put(@, {IdOf[e] : e \in S}, [expires |-> now + Retention, loud |-> loud])]

Hush(s, S) == [s EXCEPT !.stream = [e \in Execs |-> IF e \in S THEN 0 ELSE @[e]]]

\* Faulty variant: the owners are left pending.
FailOnly(s) == [s EXCEPT !.error = TRUE, !.tombs = Empty, !.deferred = <<>>]

FailAll(s) ==
  IF s.error THEN s
  ELSE [Hush(Retain(s, s.pending, [e \in Execs |-> "lost"]), s.pending) EXCEPT
          !.error = TRUE, !.tombs = Empty, !.deferred = <<>>]

\* A cancellation notification names an id; the peer applies it to the last
\* request that it received with that id.  That of initialize is not sent.
Tell(s, S) ==
  LET hit == {s.latest[IdOf[e]] : e \in S \ Initialize} IN
  [s EXCEPT !.told = [e \in Execs |-> IF e \in hit THEN @[e] + 1 ELSE @[e]]]

\* Faulty variant: no tombstone for a cancelled execution.
CancelUnburied(s, S, why) == Hush(Retain(s, S, why), S)

Cancelled(s, S, why) == Hush(Bury(Retain(s, S, why), S, FALSE), S)

\* cancel_pending_locked for each execution of S, in some order, until a
\* notification cannot be sent.
CancelPending(s, S, why) ==
  {Ok(Tell(Cancelled(s, S, why), S))} \cup
  {Err(FailAll(Tell(Cancelled(s, P \cup {e}, why), P))) :
     e \in {f \in S \ Initialize : "lost" \in Faults}, P \in SUBSET S}

All(why) == [e \in Execs |-> why]
OfId(s, id) == {e \in s.pending : IdOf[e] = id}

\* flush_deferred_drop_cancellations_locked
FlushDeferred(s) ==
  LET first(n) == {s.deferred[j] : j \in 1..n} IN
  {Ok([Tell(s, first(Len(s.deferred))) EXCEPT !.deferred = <<>>])} \cup
  {Err(FailAll(Tell(s, first(n - 1)))) : n \in {m \in DOMAIN s.deferred : "lost" \in Faults}}

\* drain_abandoned_locked; a dropped owner has no use for its outcome
DrainAbandoned(s) ==
  Then(FlushDeferred(PruneRetained(PruneTombstones(s))),
       LAMBDA u : {[r EXCEPT !.s = Release(@, {e \in dropped : @.outcome[e] = "dropped"})] :
                     r \in CancelPending(u, u.pending \cap dropped, All("dropped"))})

\* Faulty variant: matching progress keeps an execution alive for ever.
ExpireIdleOnly(s) ==
  CancelPending(s, {e \in s.pending : now >= s.idle[e] /\ s.idle[e] < s.absolute[e]}, All("idle"))

ExpireTimeouts(s) ==
  CancelPending(s, {e \in s.pending : now >= s.absolute[e] \/ now >= s.idle[e]},
                [e \in Execs |-> IF now >= s.absolute[e] THEN "absolute" ELSE "idle"])

\* Faulty variant: deadlines are left to the caller's polling.
PrepareUntimed(s) ==
  Then(DrainAbandoned(s), LAMBDA u : {IF u.error THEN Err(u) ELSE Ok(u)})

PrepareDrive(s) ==
  Then(Then(DrainAbandoned(s), ExpireTimeouts), LAMBDA u : {IF u.error THEN Err(u) ELSE Ok(u)})

-----------------------------------------------------------------------------
(* Inbound frames *)

Frame(k, e, g) == [kind |-> k, of |-> e, good |-> g]

\* What a peer may send: responses to requests it received, good or not, also
\* twice and late but within its patience; responses to no request;
\* notifications; progress and teardown of an execution.  A read may fail.
Frames ==
  LET sent == {e \in Execs : ex.outcome[e] # "none"} \cup ex.pending IN
  {Frame("response", e, g) : e \in {f \in sent :
      f \in ex.pending \/ now <= ex.ended[f] + Patience}, g \in BOOLEAN}
  \cup {Frame("progress", e, TRUE) : e \in sent}
  \cup {Frame("teardown", e, TRUE) : e \in sent \cap Listens}
  \cup {Frame(k, None, TRUE) : k \in {f \in {"note", "unknown"} : "flood" \in Faults}}
  \cup {Frame(k, None, TRUE) : k \in {"read", "malformed"} \cap Faults}

Uncorrelated(s) ==
  IF s.stray < MaxActivity THEN [s EXCEPT !.stray = @ + 1] ELSE FailAll(s)

\* route_response_with_raw_result_locked; a result that cannot be admitted
\* fails its owner and drops its stream.
RouteResponse(s, id, e, good) ==
  LET P == OfId(s, id)
      settled == Bury(Retain(s, P, All(IF good THEN "response" ELSE "badResult")), P, TRUE)
  IN IF id \in DOMAIN s.tombs
       THEN IF s.tombs[id].loud THEN Uncorrelated(s) ELSE s
     ELSE IF P # {}
       THEN Hush([settled EXCEPT !.from = [p \in Execs |-> IF p \in P THEN e ELSE @[p]]],
                 IF good THEN {} ELSE P)
     ELSE Uncorrelated(s)

Note(s) == IF s.notes < MaxActivity THEN Ok([s EXCEPT !.notes = @ + 1]) ELSE Err(FailAll(s))

\* Faulty variant: a stream has no limit.
ProgressUnbounded(s, e) == IF e \notin s.pending THEN Note(s) ELSE Ok([s EXCEPT !.stream[e] = @ + 1])

\* route_stream_notification_locked: progress restarts the idle period, never
\* beyond the absolute deadline.  A full stream fails the caller that reads.
Progress(s, e) ==
  LET next == IF now + Idle < s.absolute[e] THEN now + Idle ELSE s.absolute[e]
      s1 == [s EXCEPT !.idle[e] = next]
  IN IF e \notin s.pending THEN Note(s)
     ELSE IF s.stream[e] >= MaxActivity THEN Err(s1)
     ELSE Ok([s1 EXCEPT !.stream[e] = @ + 1])

Route(s, f) ==
  CASE f.kind = "response" -> {Ok(RouteResponse(s, IdOf[f.of], f.of, f.good))}
    [] f.kind = "unknown"  -> {Ok(Uncorrelated(s))}
    [] f.kind = "note"     -> {Note(s)}
    [] f.kind = "progress" -> {Progress(s, f.of)}
    [] f.kind = "teardown" -> {Ok(Cancelled(s, OfId(s, IdOf[f.of]) \cap Listens, All("teardown")))}
    [] OTHER               -> {Err(FailAll(s))}

-----------------------------------------------------------------------------
(* Starting and waiting *)

Full(s) ==
  \/ Cardinality(s.pending) >= MaxInFlight
  \/ Cardinality(s.pending) + Cardinality(DOMAIN s.tombs)
       + Cardinality(DOMAIN s.retained) >= MaxCorrelations

\* Faulty variant: the tombstone of the id does not refuse it.
RefusedUnlessPending(s, e) == s.shutdown \/ s.error \/ OfId(s, IdOf[e]) # {} \/ Full(s)

Refused(s, e) ==
  \/ s.shutdown \/ s.error \/ OfId(s, IdOf[e]) # {} \/ IdOf[e] \in DOMAIN s.tombs \/ Full(s)

Admit(s, e) ==
  [s EXCEPT !.pending = @ \cup {e}, !.latest[IdOf[e]] = e,
            !.idle[e] = now + Idle, !.absolute[e] = now + Absolute]

\* Faulty variant: queued cancellations of dropped handles wait for the next read.
SettleLater(s) == {Ok(PruneRetained(PruneTombstones(s)))}

Settle(s) == DrainAbandoned(s)

\* execute_with_timeout_policy; a send may be refused for now, or fail.  The
\* clock covers the deadline of every execution (bound).
Execute(e) ==
  /\ pc[e] = "new" /\ lock = None /\ now + Absolute <= MaxTime
  /\ \E r \in Settle(ex) :
       \/ /\ ~r.ok \/ Refused(r.s, e)
          /\ ex' = r.s /\ UNCHANGED pc
       \/ /\ r.ok /\ ~Refused(r.s, e)
          /\ \/ ex' = Admit(r.s, e) /\ pc' = [pc EXCEPT ![e] = "live"]
             \/ "busy" \in Faults /\ ex' = r.s /\ UNCHANGED pc
             \/ "lost" \in Faults /\ ex' = FailAll(r.s) /\ UNCHANGED pc
  /\ UNCHANGED <<scenario, dropped, lock, now>>

\* take_terminal_outcome; next is where the owner goes while it is pending, and
\* an owner whose outcome was pruned gets an error.
Take(s, e, next) ==
  LET u == PruneRetained(s) IN
  IF e \in DOMAIN u.retained
    THEN ex' = Hush(Release(u, {e}), {e}) /\ pc' = [pc EXCEPT ![e] = "done"]
    ELSE ex' = u /\ pc' = [pc EXCEPT ![e] = IF e \in u.pending THEN next ELSE "live"]

Poll(e) ==
  /\ pc[e] = "live" /\ lock = None
  /\ Take(ex, e, "live")
  /\ UNCHANGED <<scenario, dropped, lock, now>>

\* wait_for_terminal: look, then drive, and look again
Wait(e) ==
  /\ e \in Waiters /\ pc[e] \in {"live", "waiting"} /\ lock = None
  /\ Take(ex, e, "checked")
  /\ UNCHANGED <<scenario, dropped, lock, now>>

\* drive up to the read, for which the mutex stays locked
Enter(e) ==
  /\ pc[e] = "checked" /\ lock = None
  /\ \/ /\ ex.ingress = "external"
        /\ pc' = [pc EXCEPT ![e] = "live"] /\ UNCHANGED <<ex, lock>>
     \/ /\ ex.ingress # "external"
        /\ \E r \in PrepareDrive([ex EXCEPT !.ingress = "self"]) :
             /\ ex' = r.s
             /\ pc' = [pc EXCEPT ![e] = IF r.ok THEN "reading" ELSE "live"]
             /\ lock' = IF r.ok THEN e ELSE None
  /\ UNCHANGED <<scenario, dropped, now>>

Receive(e) ==
  /\ lock = e
  /\ \E f \in Frames : \E r \in Route(ex, f) :
       /\ ex' = r.s
       /\ pc' = [pc EXCEPT ![e] = IF r.ok THEN "waiting" ELSE "live"]
  /\ lock' = None
  /\ UNCHANGED <<scenario, dropped, now>>

\* drive_frame, by the connection's own reader
DriveFrame ==
  /\ External /\ lock = None /\ ex.ingress # "self"
  /\ \E r \in PrepareDrive([ex EXCEPT !.ingress = "external"]) :
       \/ ~r.ok /\ ex' = r.s
       \/ r.ok /\ \E f \in Frames : \E q \in Route(r.s, f) : ex' = q.s
  /\ UNCHANGED <<scenario, pc, dropped, lock, now>>

-----------------------------------------------------------------------------
(* Other ends of an execution *)

\* cancel: names the id of the handle, not its generation
Cancel(e) ==
  /\ pc[e] = "live" /\ lock = None
  /\ \E r \in CancelPending(ex, OfId(ex, IdOf[e]), All("caller")) : ex' = r.s
  /\ UNCHANGED <<scenario, pc, dropped, lock, now>>

\* a waiting owner whose context is cancelled
WaitCancelled(e) ==
  /\ pc[e] = "checked" /\ lock = None
  /\ \E r \in CancelPending(ex, OfId(ex, IdOf[e]), All("caller")) :
       IF r.ok THEN Take(r.s, e, "live")
       ELSE ex' = r.s /\ pc' = [pc EXCEPT ![e] = "live"]
  /\ UNCHANGED <<scenario, dropped, lock, now>>

\* accept_subscription_teardown
AcceptTeardown(e) ==
  /\ pc[e] = "live" /\ lock = None
  /\ ex' = Cancelled(ex, OfId(ex, IdOf[e]) \cap Listens, All("teardown"))
  /\ UNCHANGED <<scenario, pc, dropped, lock, now>>

\* Faulty variant: the execution of a dropped handle stays pending.
AbandonLate(s, e) ==
  Hush(Bury([Release(Retain(s, {e}, All("dropped")), {e}) EXCEPT !.pending = s.pending],
            {e}, FALSE), {e})

Abandon(s, e) == Hush(Bury(Release(Retain(s, {e}, All("dropped")), {e}), {e}, FALSE), {e})

\* Drop of a handle: when the mutex is taken, also by an operation that is not
\* a step of its own here, only the flag is set.
Drop(e) ==
  /\ pc[e] = "live"
  /\ pc' = [pc EXCEPT ![e] = "gone"]
  /\ dropped' = dropped \cup {e}
  /\ \/ UNCHANGED ex
     \/ /\ lock = None /\ e \notin ex.pending
        /\ ex' = Hush(Release(ex, {e}), {e})
     \/ /\ lock = None /\ e \in ex.pending
        /\ ex' = [Abandon(ex, e) EXCEPT
                    !.deferred = IF e \in Initialize THEN @ ELSE Append(@, e)]
  /\ UNCHANGED <<scenario, lock, now>>

PollTimeouts ==
  /\ lock = None
  /\ \E r \in Then(DrainAbandoned(ex), ExpireTimeouts) : ex' = r.s
  /\ UNCHANGED <<scenario, pc, dropped, lock, now>>

FailConnection ==
  /\ "fail" \in Faults /\ lock = None
  /\ ex' = FailAll(ex)
  /\ UNCHANGED <<scenario, pc, dropped, lock, now>>

\* A failed notification does not stop the shutdown, and closing may fail too.
Shutdown ==
  /\ "shutdown" \in Faults /\ lock = None /\ ~ex.shutdown
  /\ \E r \in FlushDeferred(ex) :
     \E q \in CancelPending([r.s EXCEPT !.shutdown = TRUE], r.s.pending, All("shutdown")) :
       \/ ex' = [q.s EXCEPT !.error = TRUE]
       \/ "lost" \in Faults /\ ex' = FailAll(q.s)
  /\ UNCHANGED <<scenario, pc, dropped, lock, now>>

TakeNotifications ==
  /\ lock = None /\ ex' = [ex EXCEPT !.notes = 0]
  /\ UNCHANGED <<scenario, pc, dropped, lock, now>>

TakeUncorrelated ==
  /\ lock = None /\ ex' = [ex EXCEPT !.stray = 0]
  /\ UNCHANGED <<scenario, pc, dropped, lock, now>>

TakeStream(e) ==
  /\ pc[e] = "live" /\ lock = None
  /\ ex' = Hush(ex, {e})
  /\ UNCHANGED <<scenario, pc, dropped, lock, now>>

TerminalRecords ==
  /\ lock = None /\ ex' = PruneRetained(ex)
  /\ UNCHANGED <<scenario, pc, dropped, lock, now>>

Tick ==
  /\ now < MaxTime /\ now' = now + 1
  /\ UNCHANGED <<scenario, ex, pc, dropped, lock>>

\* The handle of e was used to end executions, whichever they are.
AskedBy(e) ==
  canceller' = [x \in Execs |->
    IF ex.outcome[x] = "none" /\ ex'.outcome[x] \in {"caller", "teardown"}
    THEN e ELSE canceller[x]]

Next ==
  \/ \E e \in Execs : (Cancel(e) \/ WaitCancelled(e) \/ AcceptTeardown(e)) /\ AskedBy(e)
  \/ /\ \/ \E e \in Execs :
             \/ Execute(e) \/ Poll(e) \/ Wait(e) \/ Enter(e) \/ Receive(e)
             \/ Drop(e) \/ TakeStream(e)
        \/ DriveFrame \/ PollTimeouts \/ FailConnection \/ Shutdown
        \/ TakeNotifications \/ TakeUncorrelated \/ TerminalRecords \/ Tick
     /\ UNCHANGED canceller

Spec == Init /\ [][Next]_vars

\* The clock runs, whoever drives the connection polls its deadlines, and an
\* owner in wait is scheduled whenever it can go on.  Nothing is assumed of the
\* peer: a read may block for ever.
FairSpec ==
  /\ Spec
  /\ WF_vars(Tick /\ UNCHANGED canceller) /\ WF_vars(PollTimeouts /\ UNCHANGED canceller)
  /\ \A e \in Execs : /\ WF_vars(Wait(e) /\ UNCHANGED canceller)
                      /\ WF_vars(Enter(e) /\ UNCHANGED canceller)

-----------------------------------------------------------------------------
(* Properties *)

\* Types: the tables of the executor and the positions of its callers.
TypeOK ==
  /\ scenario \in Scenarios
  /\ ex.pending \subseteq Execs /\ DOMAIN ex.retained \subseteq Execs
  /\ DOMAIN ex.tombs \subseteq Ids
  /\ \A e \in Execs : /\ ex.outcome[e] \in Outcomes /\ ex.from[e] \in Execs \cup {None}
                      /\ ex.idle[e] \in Nat /\ ex.absolute[e] \in Nat
                      /\ ex.stream[e] \in 0..MaxActivity /\ ex.told[e] \in Nat
                      /\ ex.ended[e] \in 0..now
  /\ \A j \in DOMAIN ex.deferred : ex.deferred[j] \in Execs
  /\ ex.notes \in 0..MaxActivity /\ ex.stray \in 0..MaxActivity
  /\ ex.ingress \in {"unclaimed", "self", "external"}
  /\ ex.error \in BOOLEAN /\ ex.shutdown \in BOOLEAN
  /\ pc \in [Execs -> {"new", "live", "waiting", "checked", "reading", "done", "gone"}]
  /\ dropped \subseteq Execs
  /\ lock \in Execs \cup {None} /\ now \in 0..MaxTime
  /\ canceller \in [Execs -> Execs \cup {None}]

\* A response belongs to the execution it is given to, and never to an earlier
\* one with the same id that was cancelled, dropped or timed out: as long as
\* peers are not slower than the tombstones last.
AnswersMatch ==
  \A e \in Execs : ex.outcome[e] \in {"response", "badResult"} => ex.from[e] = e

\* The peer is told at most once to cancel a request, only one that it still
\* knows under that id, and only when the client has given that execution up,
\* whoever asked for it.
CancelReachesItsRequest ==
  \A e \in Execs : ex.told[e] > 0 =>
    /\ ex.told[e] = 1
    /\ ex.outcome[e] \in {"caller", "dropped", "idle", "absolute", "shutdown"}

\* cancel and accept_subscription_teardown of a handle name its id.  They end
\* the execution of the handle, or one that took over the id when the handle's
\* own had been over for the whole retention: never one of another id, nor a
\* successor while answers to its predecessor are still kept away.
CancelNamesItsOwner ==
  \A e \in Execs :
    LET c == canceller[e] IN
    c \notin {None, e} =>
      /\ IdOf[c] = IdOf[e] /\ ex.outcome[c] # "none"
      /\ ex.ended[c] + Retention <= ex.ended[e]

\* Each request that was sent is pending or has its outcome, and a connection
\* that failed or shut down has nothing pending and nothing left to send.
NoOwnerIsStranded ==
  /\ \A e \in Execs : pc[e] # "new" => e \in ex.pending \/ ex.outcome[e] # "none"
  /\ ex.error => ex.pending = {} /\ ex.deferred = <<>>

\* pending and tombstones share one namespace of ids, whose size is bounded.
IdsAreExclusive ==
  /\ \A e, f \in ex.pending : IdOf[e] = IdOf[f] => e = f
  /\ \A e \in ex.pending : IdOf[e] \notin DOMAIN ex.tombs
  /\ Cardinality(ex.pending) + Cardinality(DOMAIN ex.tombs) <= MaxCorrelations
  /\ Cardinality(ex.pending) <= MaxInFlight

\* One terminal transition: whatever races, the first outcome stays, and an
\* owner that took its outcome has none retained again.
OutcomeIsFinal ==
  [][\A e \in Execs :
       /\ ex.outcome[e] # "none" =>
            /\ ex'.outcome[e] = ex.outcome[e] /\ ex'.from[e] = ex.from[e]
            /\ e \notin ex'.pending
       /\ pc[e] = "done" => e \notin DOMAIN ex'.retained]_vars

\* However much progress a peer reports, the absolute deadline of an execution
\* stays and a poll leaves nothing pending whose deadline has passed.  The
\* driver of a connection retires an expired execution before it routes a
\* frame, so it accepts no answer after a deadline.
DeadlinesBind ==
  [][/\ \A e \in ex.pending \cap ex'.pending :
          /\ ex'.absolute[e] = ex.absolute[e]
          /\ PollTimeouts => now < ex'.absolute[e] /\ now < ex'.idle[e]
     /\ \A e \in Execs :
          ex'.ingress = "external" /\ ex.outcome[e] = "none" /\ ex'.outcome[e] = "response"
            => now < ex.idle[e] /\ ex.idle[e] <= ex.absolute[e]]_vars

\* A waiting owner whose response was routed returns from wait with it.
RoutedWaiterReturns ==
  \A e \in Execs :
    (pc[e] \in {"waiting", "checked", "reading"} /\ ex.outcome[e] = "response")
      ~> (pc[e] \in {"done", "live"})

\* An id means one request at a time, to the client and to the peer: a response
\* is given to the request it answers, the peer drops the request that the
\* client gave up, and a handle ends its own execution, or that of a later user
\* of the id once the retention has passed (pending, tombstones, retire).
IdsAreNeverConfused ==
  /\ TypeOK /\ IdsAreExclusive /\ AnswersMatch
  /\ CancelReachesItsRequest /\ CancelNamesItsOwner
=============================================================================
