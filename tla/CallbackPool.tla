------------------------------ MODULE CallbackPool ------------------------------
(***************************************************************************)
(* The callbacks a client runs for requests of its server: the registry    *)
(* ReverseCallbackState and the two pools over it, ReverseCallbackPool of  *)
(* the stdio client and WebSocketReverseCallbackPool (fastmcp-client/src/  *)
(* lib.rs).                                                                *)
(*                                                                         *)
(* One thread receives: it admits requests, applies cancellations, reaps   *)
(* finished tasks and closes the connection.  Each admitted request has a  *)
(* task, which runs the handler, takes the writer, elects its response     *)
(* against cancellation in the registry and only then writes.  A pool can  *)
(* abort a task, which cancels the context of its handler and of its write *)
(* and does not stop it.                                                   *)
(*                                                                         *)
(* Left out: decoding, requests answered without a handler, and the other  *)
(* writers, which only delay.                                              *)
(***************************************************************************)
EXTENDS Naturals, FiniteSets

CONSTANTS
  Reqs,       \* the requests the peer sends
  Ids, IdOf,  \* request ids, [Reqs -> Ids]
  Capacity,   \* MAX_QUEUED_REVERSE_CALLBACKS
  Scenarios,  \* the environments a behaviour may run in
  None

\* a handler panics; the response cannot be built; a write fails; a task cannot
\* be spawned; the context that owns a task is cancelled; the peer cancels; the
\* client is closed; the peer uses an id again that it still waits for
AllFaults == {"panic", "drop", "write", "spawn", "owner", "cancel", "close", "duplicate"}

ASSUME PoolAssumption ==
  /\ IsFiniteSet(Reqs) /\ None \notin Reqs /\ IdOf \in [Reqs -> Ids]
  /\ Capacity \in Nat \ {0}
  /\ Scenarios \subseteq [pool : {"stdio", "websocket"}, sends : SUBSET Reqs,
                           faults : SUBSET AllFaults]

VARIABLES
  scenario,  \* which of the two pools, the requests sent, the faults that happen
  active,    \* requests with an entry in the registry
  token,     \* the state of each ReverseRequestCancellation
  closing,   \* admission has stopped
  failed,    \* terminal_error
  task,      \* where the task of each request is
  aborted,   \* requests whose task's context is cancelled
  writer,    \* the task that holds the writer, or None
  loop, cur, \* what the receiving thread does, and for which request
  withdrawn, \* requests the peer has cancelled, in time or not (history)
  answers,   \* responses written for each request (history)
  unheeded   \* requests whose panic was observed and ended nothing (history)

registry == <<active, token, closing, failed>>
receiver == <<loop, cur>>
poolVars == <<scenario, active, token, closing, failed, task, aborted, writer, loop, cur,
              withdrawn, answers, unheeded>>

WebSocket == scenario.pool = "websocket"
Faults == scenario.faults

Finished == {"done", "cancelled", "panicked"}
Tasks == {"none", "spawned", "handler", "answering", "locked", "writing",
          "failing", "closing", "reaped"} \cup Finished
Loops == {"drain", "recv", "reap", "check", "admit", "abort", "respond",
          "stop", "abortAll", "join", "down", "closed"}

Registered == {r \in Reqs : task[r] \notin {"none", "reaped"}}
SameId(r) == {s \in Reqs : IdOf[s] = IdOf[r]}

PoolInit ==
  /\ scenario \in Scenarios
  /\ active = {} /\ token = [r \in Reqs |-> "open"] /\ closing = FALSE /\ failed = FALSE
  /\ task = [r \in Reqs |-> "none"] /\ aborted = {} /\ writer = None
  /\ loop = "drain" /\ cur = None /\ withdrawn = {}
  /\ answers = [r \in Reqs |-> 0] /\ unheeded = {}

-----------------------------------------------------------------------------
(* ReverseCallbackState *)

CancelTokens(t, R) == [r \in Reqs |-> IF r \in R /\ t[r] = "open" THEN "cancelled" ELSE t[r]]

\* Faulty variant: the callbacks are not told.
DrainAll == closing' = TRUE /\ active' = {} /\ UNCHANGED token

CancelAll == closing' = TRUE /\ token' = CancelTokens(token, active) /\ active' = {}

\* Faulty variant: the entry is looked up by id only.
ClaimableById(r) == ~closing /\ active \cap SameId(r) # {}

Claimable(r) == ~closing /\ r \in active /\ token[r] = "open"

-----------------------------------------------------------------------------
(* The receiving thread *)

Goto(l) == loop' = l /\ UNCHANGED cur

\* Faulty variant: a cancelled task keeps its entry.
ReapDoneOnly ==
  /\ task' = [r \in Reqs |-> IF task[r] \in Finished THEN "reaped" ELSE task[r]]
  /\ active' = active \ {r \in Reqs : task[r] = "done"}

\* reap_finished_tasks: retires the entries of finished tasks
Reap ==
  LET gone == {r \in Reqs : task[r] \in Finished} IN
  /\ task' = [r \in Reqs |-> IF r \in gone THEN "reaped" ELSE task[r]]
  /\ active' = active \ gone

Panics == {r \in Reqs : task[r] = "panicked"}
Panicked == Panics # {}

\* fail_connection by the thread that reaped
FailReaped ==
  /\ failed' = TRUE /\ closing' = TRUE
  /\ task' = [r \in Reqs |-> IF task[r] \in Finished THEN "reaped" ELSE task[r]]
  /\ token' = CancelTokens(token, {r \in active : task[r] \notin Finished})
  /\ active' = {}

\* drain_completed_reverse_callbacks, between receives
Drain ==
  /\ loop = "drain"
  /\ \/ failed /\ Goto("stop") /\ UNCHANGED <<registry, task>>
     \/ ~failed /\ Panicked /\ FailReaped /\ Goto("stop")
     \/ ~failed /\ ~Panicked /\ Reap /\ Goto("recv") /\ UNCHANGED <<token, closing, failed>>
  /\ UNCHANGED <<aborted, writer, withdrawn, answers, unheeded>>

\* a bounded receive that ends without a frame
Slice ==
  /\ loop = "recv" /\ Goto("drain")
  /\ UNCHANGED <<registry, task, aborted, writer, withdrawn, answers, unheeded>>

\* The peer waits for the answer to the request.
Outstanding(r) == task[r] # "none" /\ answers[r] = 0 /\ r \notin withdrawn

Request(r) ==
  /\ r \in scenario.sends /\ loop = "recv" /\ task[r] = "none" /\ answers[r] = 0
  /\ "duplicate" \in Faults \/ \A s \in SameId(r) : ~Outstanding(s)
  /\ cur' = r /\ loop' = IF WebSocket /\ failed THEN "stop" ELSE "reap"
  /\ UNCHANGED <<registry, task, aborted, writer, withdrawn, answers, unheeded>>

\* A request that is not admitted is answered with the error at once, except on
\* a WebSocket whose connection has failed.
Refuse == Goto(IF WebSocket /\ failed' THEN "stop" ELSE "respond")

\* Faulty variant: both pools report a panic to the request at hand.
DispatchReapQuietly ==
  /\ loop = "reap" /\ Reap /\ unheeded' = unheeded \cup Panics
  /\ UNCHANGED <<token, closing, failed, aborted, writer, withdrawn, answers>>
  /\ IF Panicked THEN Refuse ELSE Goto("check")

\* dispatch, first part.  The stdio pool reports an observed panic to the
\* request at hand, the WebSocket pool fails the connection with it.
DispatchReap ==
  /\ loop = "reap"
  /\ \/ /\ Panicked /\ WebSocket
        /\ FailReaped /\ Refuse /\ UNCHANGED unheeded
     \/ /\ Panicked /\ ~WebSocket
        /\ Reap /\ unheeded' = unheeded \cup Panics
        /\ UNCHANGED <<token, closing, failed>> /\ Refuse
     \/ /\ ~Panicked /\ Reap /\ UNCHANGED <<token, closing, failed, unheeded>>
        /\ IF Cardinality({r \in Registered : task[r] \notin Finished}) >= Capacity
           THEN Refuse ELSE Goto("check")
  /\ UNCHANGED <<aborted, writer, withdrawn, answers>>

\* admit: terminal_error is read before the registry is locked
AdmitCheck ==
  /\ loop = "check" /\ UNCHANGED registry
  /\ IF failed THEN Refuse ELSE Goto("admit")
  /\ UNCHANGED <<task, aborted, writer, withdrawn, answers, unheeded>>

\* Faulty variant: ids may be in use.
ShutByCount == closing \/ Cardinality(active) >= Capacity

Shut == closing \/ Cardinality(active) >= Capacity \/ active \cap SameId(cur) # {}

Admit ==
  /\ loop = "admit"
  /\ \/ Shut /\ UNCHANGED <<registry, task>> /\ Refuse
     \/ /\ ~Shut /\ active' = active \cup {cur} /\ task' = [task EXCEPT ![cur] = "spawned"]
        /\ Goto("drain") /\ UNCHANGED <<token, closing, failed>>
     \/ /\ ~Shut /\ "spawn" \in Faults
        /\ UNCHANGED <<registry, task>> /\ Refuse
  /\ UNCHANGED <<aborted, writer, withdrawn, answers, unheeded>>

\* Faulty variant: the error is sent and the dispatch goes on.
RespondAgain ==
  /\ loop = "respond" /\ writer = None /\ answers[cur] < 3
  /\ answers' = [answers EXCEPT ![cur] = @ + 1] /\ loop' \in {"respond", "drain"}
  /\ UNCHANGED <<registry, task, aborted, writer, cur, withdrawn, unheeded>>

\* The response is sent by the receiving thread itself, or the connection ends.
Respond ==
  /\ loop = "respond"
  /\ \/ /\ writer = None /\ ~(WebSocket /\ failed)
        /\ answers' = [answers EXCEPT ![cur] = @ + 1] /\ Goto("drain")
     \/ /\ "write" \in Faults \/ (WebSocket /\ failed)
        /\ Goto("stop") /\ UNCHANGED answers
  /\ UNCHANGED <<registry, task, aborted, writer, withdrawn, unheeded>>

\* notifications/cancelled: the entry goes, then the tasks of that id are aborted
PeerCancel(r) ==
  /\ "cancel" \in Faults /\ loop = "recv" /\ Outstanding(r)
  /\ withdrawn' = withdrawn \cup {r}
  /\ active' = active \ SameId(r) /\ token' = CancelTokens(token, active \cap SameId(r))
  /\ cur' = r /\ loop' = IF active \cap SameId(r) = {} THEN "drain" ELSE "abort"
  /\ UNCHANGED <<closing, failed, task, aborted, writer, answers, unheeded>>

AbortId ==
  /\ loop = "abort"
  /\ aborted' = aborted \cup (Registered \cap SameId(cur)) /\ Goto("drain")
  /\ UNCHANGED <<registry, task, writer, withdrawn, answers, unheeded>>

\* close by the user, also again after a join that did not finish
Close ==
  /\ "close" \in Faults /\ loop \in {"drain", "down"} /\ Goto("stop")
  /\ UNCHANGED <<registry, task, aborted, writer, withdrawn, answers, unheeded>>

Stop ==
  /\ loop = "stop" /\ CancelAll /\ Goto("abortAll")
  /\ UNCHANGED <<failed, task, aborted, writer, withdrawn, answers, unheeded>>

AbortAll ==
  /\ loop = "abortAll" /\ aborted' = aborted \cup Registered /\ Goto("join")
  /\ UNCHANGED <<registry, task, writer, withdrawn, answers, unheeded>>

\* join_bounded: until no task is left, or the time is up
Join ==
  /\ loop = "join"
  /\ \/ /\ Panicked /\ Goto("down")
        /\ IF WebSocket THEN FailReaped ELSE Reap /\ UNCHANGED <<token, closing, failed>>
     \/ /\ ~Panicked /\ Reap /\ UNCHANGED <<token, closing, failed>>
        /\ IF \A r \in Registered : task[r] \in Finished THEN Goto("closed")
           ELSE loop' \in {"join", "down"} /\ UNCHANGED cur
  /\ UNCHANGED <<aborted, writer, withdrawn, answers, unheeded>>

-----------------------------------------------------------------------------
(* The task of a request *)

Step(r, l) == task' = [task EXCEPT ![r] = l]

\* the context of the thread that dispatched the request is cancelled
OwnerCancelled(r) ==
  /\ "owner" \in Faults /\ task[r] \in {"spawned", "handler", "answering", "locked", "writing"}
  /\ aborted' = aborted \cup {r}
  /\ UNCHANGED <<registry, task, writer, receiver, withdrawn, answers, unheeded>>

\* A task whose context is cancelled may end before it has begun.
Start(r) ==
  /\ task[r] = "spawned"
  /\ \/ Step(r, "handler")
     \/ r \in aborted /\ Step(r, "cancelled")
  /\ UNCHANGED <<registry, aborted, writer, receiver, withdrawn, answers, unheeded>>

HandlerReturns(r) ==
  /\ task[r] = "handler" /\ Step(r, "answering")
  /\ UNCHANGED <<registry, aborted, writer, receiver, withdrawn, answers, unheeded>>

\* The WebSocket task catches the panic and fails the connection.
HandlerPanics(r) ==
  /\ "panic" \in Faults /\ task[r] = "handler"
  /\ Step(r, IF WebSocket THEN "failing" ELSE "panicked")
  /\ UNCHANGED <<registry, aborted, writer, receiver, withdrawn, answers, unheeded>>

\* Drop of the completion guard in a task that unwinds outside the handler.
GuardDrop(r) ==
  /\ "drop" \in Faults /\ WebSocket /\ task[r] \in {"handler", "answering"} /\ Step(r, "panicked")
  /\ IF token[r] = "open" THEN failed' = TRUE /\ CancelAll
     ELSE UNCHANGED registry
  /\ UNCHANGED <<aborted, writer, receiver, withdrawn, answers, unheeded>>

\* The writer is taken before the election.  A WebSocket task gives up waiting
\* when its context is cancelled; a stdio task after a time.
TakeWriter(r) ==
  /\ task[r] = "answering"
  /\ \/ writer = None /\ writer' = r /\ Step(r, "locked")
     \/ /\ WebSocket /\ r \in aborted /\ UNCHANGED writer
        /\ Step(r, IF token[r] = "open" THEN "failing" ELSE "done")
     \/ /\ ~WebSocket /\ "write" \in Faults /\ writer # None /\ UNCHANGED writer
        /\ Step(r, "failing")
  /\ UNCHANGED <<registry, aborted, receiver, withdrawn, answers, unheeded>>

\* Faulty variant: a callback writes what it has.
ClaimUnchecked(r) ==
  /\ task[r] = "locked" /\ Step(r, "writing") /\ active' = active \ {r}
  /\ UNCHANGED <<token, closing, failed, aborted, writer, receiver, withdrawn, answers, unheeded>>

\* claim_response_if_open
Claim(r) ==
  /\ task[r] = "locked"
  /\ \/ /\ Claimable(r)
        /\ token' = [token EXCEPT ![r] = "sent"] /\ active' = active \ SameId(r)
        /\ Step(r, "writing") /\ UNCHANGED writer
     \/ /\ ~Claimable(r)
        /\ Step(r, "done") /\ writer' = None /\ active' = active \ {r} /\ UNCHANGED token
  /\ UNCHANGED <<closing, failed, aborted, receiver, withdrawn, answers, unheeded>>

\* Faulty variant: a failed write is not reported.
WriteUnreported(r) ==
  /\ task[r] = "writing" /\ writer' = None /\ Step(r, "done")
  /\ \/ answers' = [answers EXCEPT ![r] = @ + 1]
     \/ "write" \in Faults /\ UNCHANGED answers
  /\ UNCHANGED <<registry, aborted, receiver, withdrawn, unheeded>>

\* The write ends; on a WebSocket, one that a cancelled context prevented is
\* taken for a response that was suppressed.
Write(r) ==
  /\ task[r] = "writing" /\ writer' = None
  /\ \/ Step(r, "done") /\ answers' = [answers EXCEPT ![r] = @ + 1]
     \/ /\ "write" \in Faults \/ r \in aborted
        /\ Step(r, "failing") /\ UNCHANGED answers
     \/ /\ WebSocket /\ r \in aborted
        /\ Step(r, "done") /\ UNCHANGED answers
  /\ UNCHANGED <<registry, aborted, receiver, withdrawn, unheeded>>

\* Faulty variant: the task ends and nobody hears of the failure.
TaskEnds(r) ==
  /\ task[r] = "failing" /\ active' = active \ {r} /\ Step(r, "done")
  /\ UNCHANGED <<token, closing, failed, aborted, writer, receiver, withdrawn, answers, unheeded>>

\* fail_connection by a task: the error is stored, then every entry is cancelled
TaskFails(r) ==
  /\ task[r] = "failing" /\ failed' = TRUE /\ Step(r, "closing")
  /\ UNCHANGED <<active, token, closing, aborted, writer, receiver, withdrawn, answers, unheeded>>

TaskCancelsAll(r) ==
  /\ task[r] = "closing" /\ CancelAll /\ Step(r, "done")
  /\ UNCHANGED <<failed, aborted, writer, receiver, withdrawn, answers, unheeded>>

-----------------------------------------------------------------------------
Turn ==
  /\ DispatchReap \/ AdmitCheck \/ Admit \/ Respond \/ AbortId \/ Stop \/ AbortAll
  /\ UNCHANGED scenario

Ended == loop = "closed" /\ UNCHANGED poolVars

TaskStep(r) ==
  /\ \/ Start(r) \/ HandlerReturns(r) \/ HandlerPanics(r) \/ GuardDrop(r) \/ TakeWriter(r)
     \/ Claim(r) \/ Write(r) \/ TaskFails(r) \/ TaskCancelsAll(r)
  /\ UNCHANGED scenario

PoolNext ==
  \/ Turn \/ Ended \/ \E r \in Reqs : TaskStep(r)
  \/ /\ \/ Drain \/ Slice \/ Close \/ Join
        \/ \E r \in Reqs : Request(r) \/ PeerCancel(r) \/ OwnerCancelled(r)
     /\ UNCHANGED scenario

PoolSpec == PoolInit /\ [][PoolNext]_poolVars

\* The receiving thread finishes the turn it is in, and tasks run; handlers
\* return or panic.  Nobody has to receive again.
PoolFairSpec == PoolSpec /\ WF_poolVars(Turn) /\ \A r \in Reqs : WF_poolVars(TaskStep(r))

-----------------------------------------------------------------------------
(* Properties *)

\* Types: phases of the loop, the tasks and the tokens.
PoolTypeOK ==
  /\ scenario \in Scenarios
  /\ active \subseteq Reqs /\ aborted \subseteq Reqs /\ withdrawn \subseteq Reqs
  /\ unheeded \subseteq Reqs
  /\ token \in [Reqs -> {"open", "cancelled", "sent"}]
  /\ closing \in BOOLEAN /\ failed \in BOOLEAN
  /\ task \in [Reqs -> Tasks] /\ writer \in Reqs \cup {None}
  /\ loop \in Loops /\ cur \in Reqs \cup {None} /\ answers \in [Reqs -> 0..1]

\* A callback whose request has lost its entry can tell: the request was
\* cancelled, or answered by this callback.  Whoever holds the writer is about
\* to use or to release it.
LostOwnerIsTold ==
  /\ \A r \in Reqs : task[r] \in {"spawned", "handler", "answering"} /\ r \notin active
                       => token[r] = "cancelled"
  /\ \A r \in Reqs : writer = r <=> task[r] \in {"locked", "writing"}

\* Once admission has stopped no entry is left, also when a request was being
\* admitted at that moment; every entry has a task that the next reap retires.
NoEntryOutlivesClosing ==
  /\ closing => active = {}
  /\ \A r \in active : task[r] \notin {"none", "reaped"}

\* The limit holds for tasks as for entries, and no two entries share an id.
CapacityHolds ==
  /\ Cardinality(Registered) <= Capacity /\ Cardinality(active) <= Capacity
  /\ \A r, s \in active : IdOf[r] = IdOf[s] => r = s

\* A response is written by the callback that was elected, never after the
\* request was cancelled and never over another write.
OnlyElectedWrites ==
  [][\A r \in Reqs : answers'[r] > answers[r] =>
       \/ task[r] = "none" /\ loop = "respond" /\ cur = r
       \/ token[r] = "sent" /\ writer = r /\ task[r] = "writing"]_poolVars

\* A cancellation that was accepted, or an election that was won, is never undone.
ElectionIsFinal ==
  [][\A r \in Reqs : token[r] # "open" => token'[r] = token[r] /\ r \notin active']_poolVars

\* A panicked callback ends the connection of a WebSocket client as soon as it
\* is observed, also by a call that serves another request.
PanicIsTerminal == WebSocket => unheeded = {}

\* The task of an elected response does not end before the response is written
\* or the connection has failed, whichever contexts are cancelled meanwhile.
\* Only a WebSocket task whose own context was cancelled may drop it.
ElectedIsWritten ==
  \A r \in Reqs : token[r] = "sent" /\ task[r] \in {"done", "reaped"}
    => answers[r] = 1 \/ failed \/ (WebSocket /\ r \in aborted)

\* The requests that the code leaves without an answer on a connection that
\* lives on: the owner's context was cancelled before the task had begun, or
\* during the write of a WebSocket; the panic of a stdio callback is not reaped
\* yet, or was reported to another request.
LeftUnanswered(r) ==
  \/ r \in aborted /\ token[r] = "open" /\ task[r] \in {"cancelled", "reaped"}
  \/ WebSocket /\ r \in aborted /\ token[r] = "sent" /\ task[r] \in {"done", "reaped"}
  \/ ~WebSocket /\ r \in Panics \cup unheeded

\* A request is answered or withdrawn, or the connection ends, if the peer uses
\* no id again that it still waits for, in all but the cases of LeftUnanswered;
\* and nothing that follows makes it unsettled again.
EveryRequestSettles ==
  \A r \in Reqs : ("duplicate" \notin Faults /\ (cur = r \/ r \in active)) ~>
    [](answers[r] = 1 \/ r \in withdrawn \/ failed \/ closing \/ LeftUnanswered(r))

\* The registry and its tasks agree: who lost its entry is told, closing leaves
\* none, every entry has a task, and no limit or id is shared beyond its bound.
RegistryIsExact ==
  PoolTypeOK /\ LostOwnerIsTold /\ NoEntryOutlivesClosing /\ CapacityHolds

\* What a task ends with reaches the connection: on a WebSocket the panic of a
\* callback, and an elected response that was not written.
NothingIsSwallowed == PanicIsTerminal /\ ElectedIsWritten

\* The election decides who writes, once and for good.
ElectionDecides == OnlyElectedWrites /\ ElectionIsFinal
=============================================================================
