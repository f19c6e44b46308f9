----------------------------- MODULE Subscriptions -----------------------------
(***************************************************************************)
(* FinalSubscriptionRegistry and the subscriptions/listen streams it owns  *)
(* (fastmcp-server/src/lib.rs).                                            *)
(*                                                                         *)
(* A stream is opened by its listener, which reserves an entry, sends the  *)
(* acknowledgement, drains the events that arrived meanwhile and then      *)
(* waits; publishers deliver events from their own threads; the server     *)
(* terminates every stream once.  All three meet in the election of the    *)
(* stream, a phase under a mutex that is never held across a sender        *)
(* callback: a callback is a step of its own between two critical          *)
(* sections, and whoever finds the server termination pending after the    *)
(* last callback sends the terminal control.                               *)
(*                                                                         *)
(* A stream is of one of three kinds: "stdio", a request of a stdio        *)
(* connection; "http", the SSE body of a modern HTTP request, with its     *)
(* dispatcher, outcome gate, receipt and socket writer; "local", a         *)
(* SubscriptionListenHandle with an application callback, which may panic. *)
(* The owner map of the registry holds exactly the http entries and is not *)
(* a variable of its own; each body owns a fresh generation, so an owner   *)
(* is never taken twice.                                                   *)
(***************************************************************************)
EXTENDS Integers, Sequences, FiniteSets, TerminalDelivery

CONSTANTS
  Streams, Publishers, Server, \* the actors
  Scenarios      \* the environments a behaviour may run in

VARIABLE scenario  \* the environment of this behaviour; it never changes

Kind == scenario.kind             \* [Streams -> {"stdio", "http", "local"}]
Opened == scenario.opened         \* streams a client may open
Publishing == scenario.publishing \* publishers with events
MaxEvents == scenario.maxEvents   \* events of one publisher (bound)
MaxStreams == scenario.maxStreams \* MAX_FINAL_SUBSCRIPTION_STREAMS
MaxOpening == scenario.maxOpening \* MAX_FINAL_SUBSCRIPTION_OPENING_EVENTS
Faults == scenario.faults         \* which of AllFaults happen

AllFaults == {"peer", "panic", "send", "write", "context", "timeout", "drop"}

ASSUME ActorAssumption ==
  /\ IsFiniteSet(Streams) /\ IsFiniteSet(Publishers) /\ Streams \cap Publishers = {}
  /\ Server \notin Streams \cup Publishers
ASSUME ScenarioAssumption ==
  \A s \in Scenarios :
    /\ s.kind \in [Streams -> {"stdio", "http", "local"}]
    /\ s.opened \subseteq Streams /\ s.publishing \subseteq Publishers
    /\ s.maxEvents \in Nat /\ s.maxStreams \in Nat \ {0} /\ s.maxOpening \in Nat \ {0}
    /\ s.faults \subseteq AllFaults

Actors == Streams \cup Publishers \cup {Server}

Frame(k, p, i) == [kind |-> k, by |-> p, nr |-> i]
Plain(k) == Frame(k, Server, 0)
Events == {Frame("event", p, i) : p \in Publishers, i \in 1..MaxEvents}
NoEvent == Plain("none")

VARIABLES
  entries,      \* registry.entries
  terminating,  \* registry.terminating
  phase,        \* election.phase: [at, n]
  opening,      \* election.opening_events
  graceful,     \* election.graceful_completion
  word,         \* request_cancellation
  live,         \* the request's Cx is not cancelled
  receipt,      \* terminal_delivery (http only)
  body,         \* what the sender of the stream committed, see NewBody
  gate,         \* ModernSseOutcomeGate
  writer,       \* program counter of send_modern_sse_stream
  pc,           \* program counters of listeners, publishers and the server
  job,          \* what an actor's callback works on: [on, event, sent]
  todo,         \* streams a publisher or the server has still to visit
  outcome,      \* what the listen request returns
  owed,         \* receipt.terminal_deliveries of the server's termination
  admitted,     \* history: events queued behind the acknowledgement
  faulted       \* history: streams a peer, callback, context or writer broke

registry == <<entries, terminating>>
election == <<phase, opening, graceful>>
request == <<word, live>>
transport == <<body, gate, writer>>
history == <<admitted, faulted>>
vars == <<scenario, registry, election, request, receipt, transport,
          pc, job, todo, outcome, owed, history>>

-----------------------------------------------------------------------------
PhaseNames == {"Opening", "OpeningDelivery", "Active", "EventDelivery",
               "Pending", "PeerTerminated", "ServerTerminated"}
Phase(name, n) == [at |-> name, n |-> n]
AtPhase(l, S) == phase[l].at \in S
Elected(l, name, n) == phase' = [phase EXCEPT ![l] = Phase(name, n)]

\* The phases a peer-side end may still overrule.
Open4 == {"Opening", "OpeningDelivery", "Active", "EventDelivery"}

\* frames: committed to the body; failed: notification_commit_failed;
\* committed: terminal_committed; closed: the transport body is finished;
\* popped, flushed: how many frames the writer took and put on the socket.
NewBody == [frames |-> <<>>, failed |-> FALSE, committed |-> FALSE,
            closed |-> FALSE, popped |-> 0, flushed |-> 0]

IsCancelled(l) == word[l] = "cancelled"
CancelledWord(w) == IF w = "active" THEN "cancelled" ELSE w
Cancel(l) == word' = [word EXCEPT ![l] = CancelledWord(@)]
Goto(a, label) == pc' = [pc EXCEPT ![a] = label]
FailReceipt(l) ==
  receipt' = IF Kind[l] = "http" THEN [receipt EXCEPT ![l] = Failed(@)] ELSE receipt
Fault(l) == faulted' = faulted \cup {l}
Clear(l) == opening' = [opening EXCEPT ![l] = <<>>]
Elect(l, e) == gate' = [gate EXCEPT ![l] = IF @ = "awaiting" THEN e ELSE @]

Init ==
  /\ scenario \in Scenarios
  /\ entries = {} /\ terminating = FALSE
  /\ phase = [l \in Streams |-> Phase("Opening", 0)]
  /\ opening = [l \in Streams |-> <<>>]
  /\ graceful = [l \in Streams |-> FALSE]
  /\ word = [l \in Streams |-> "active"]
  /\ live = [l \in Streams |-> TRUE]
  /\ receipt = [l \in Streams |-> NewReceipt]
  /\ body = [l \in Streams |-> NewBody]
  /\ gate = [l \in Streams |-> "awaiting"]
  /\ writer = [l \in Streams |-> IF Kind[l] = "http" THEN "await" ELSE "off"]
  /\ pc = [a \in Actors |-> IF a \in Publishers THEN "next" ELSE "idle"]
  /\ job = [a \in Actors |->
             [on |-> a, event |-> NoEvent, sent |-> TRUE, count |-> 0]]
  /\ todo = [a \in Publishers \cup {Server} |-> {}]
  /\ outcome = [l \in Streams |-> "none"]
  /\ owed = {}
  /\ admitted = [l \in Streams |-> <<>>]
  /\ faulted = {}

-----------------------------------------------------------------------------
(* The sender of a stream.  A stdio sender drops what a cancelled request  *)
(* sends and cancels the request when the transport refuses; an http       *)
(* sender drops everything after its first refusal; only an application    *)
(* callback panics, and only a panic counts as not sent.                   *)

Mute(l) ==
  \/ Kind[l] = "stdio" /\ IsCancelled(l)
  \/ Kind[l] = "http" /\ body[l].failed

\* Nothing can be committed any more.
Barred(l) == ~live[l] \/ (Kind[l] = "http" /\ (body[l].closed \/ body[l].committed))

Outcomes(l) ==
  CASE Kind[l] = "local" ->
         {"sent"} \cup (IF "panic" \in Faults THEN {"panic"} ELSE {})
    [] Kind[l] # "local" /\ Mute(l) -> {"dropped"}
    [] Kind[l] # "local" /\ ~Mute(l) /\ Barred(l) -> {"refused"}
    [] OTHER -> {"sent"} \cup (IF "send" \in Faults THEN {"refused"} ELSE {})

Transmit(l, f, o) ==
  /\ body' = [body EXCEPT ![l].frames = IF o = "sent" THEN Append(@, f) ELSE @,
                          ![l].failed = @ \/ o = "refused"]
  /\ IF o = "refused"
     THEN Cancel(l) /\ FailReceipt(l)
     ELSE UNCHANGED <<word, receipt>>
  /\ IF o \in {"refused", "panic"} THEN Fault(l) ELSE UNCHANGED faulted

-----------------------------------------------------------------------------
(* open_with_task_principal, run by the listener of the stream.            *)

Listen(l) ==
  /\ l \in Opened /\ pc[l] = "idle"
  /\ Goto(l, "check")
  /\ UNCHANGED <<scenario, registry, election, request, receipt, transport, job, todo,
                 outcome, owed, history>>

Return(l, o, label) == outcome' = [outcome EXCEPT ![l] = o] /\ Goto(l, label)

CheckOpen(l) ==
  /\ pc[l] = "check"
  /\ \/ /\ IsCancelled(l) \/ ~live[l]
        /\ Return(l, "error", "respond")
     \/ /\ ~IsCancelled(l) /\ live[l] /\ terminating
        /\ Return(l, "refused", "respond")
     \/ /\ ~IsCancelled(l) /\ live[l] /\ ~terminating
        /\ Goto(l, "reserve") /\ UNCHANGED outcome
  /\ UNCHANGED <<scenario, registry, election, request, receipt, transport, job, todo,
                 owed, history>>

\* Faulty variant: the terminating flag is not read again under the lock.
ReserveUnchecked(l) ==
  /\ pc[l] = "reserve"
  /\ IF Cardinality(entries) >= MaxStreams
     THEN Return(l, "refused", "respond") /\ UNCHANGED <<entries, phase>>
     ELSE /\ entries' = entries \cup {l}
          /\ Elected(l, "Opening", 0)
          /\ Goto(l, "ack") /\ UNCHANGED outcome
  /\ UNCHANGED <<scenario, terminating, opening, graceful, request, receipt, transport,
                 job, todo, owed, history>>

Reserve(l) ==
  /\ pc[l] = "reserve"
  /\ IF terminating \/ Cardinality(entries) >= MaxStreams
     THEN Return(l, "refused", "respond") /\ UNCHANGED <<entries, phase>>
     ELSE /\ entries' = entries \cup {l}
          /\ Elected(l, "Opening", 0)
          /\ Goto(l, "ack") /\ UNCHANGED outcome
  /\ UNCHANGED <<scenario, terminating, opening, graceful, request, receipt, transport,
                 job, todo, owed, history>>

\* The acknowledgement callback.  On an http body it also moves the deferred
\* notifications to Streaming and elects the representation.
Acknowledge(l) ==
  /\ pc[l] = "ack"
  /\ \E o \in Outcomes(l) :
       /\ Transmit(l, Plain("ack"), o)
       /\ Goto(l, CASE o = "panic" -> "retract"
                    [] o = "sent" /\ Kind[l] = "http" -> "admit"
                    [] OTHER -> "drain")
       /\ CASE Kind[l] = "http" /\ o = "sent" -> Elect(l, "stream")
            [] Kind[l] = "http" /\ o # "sent" -> Elect(l, "failed")
            [] OTHER -> UNCHANGED gate
  /\ UNCHANGED <<scenario, registry, election, live, writer, job, todo, outcome, owed,
                 admitted>>

AdmitStream(l) ==
  /\ pc[l] = "admit"
  /\ receipt' = [receipt EXCEPT ![l] = ControlNotRequired(@)]
  /\ Goto(l, "drain")
  /\ UNCHANGED <<scenario, registry, election, request, transport, job, todo, outcome,
                 owed, history>>

\* The acknowledgement callback panicked.
RetractEntry(l) ==
  /\ pc[l] = "retract"
  /\ entries' = entries \ {l}
  /\ Goto(l, "retracted")
  /\ UNCHANGED <<scenario, terminating, election, request, receipt, transport, job, todo,
                 outcome, owed, history>>

RetractElection(l) ==
  /\ pc[l] = "retracted"
  /\ IF AtPhase(l, {"Opening", "OpeningDelivery", "Active", "Pending"})
     THEN Elected(l, "PeerTerminated", 0) ELSE UNCHANGED phase
  /\ Clear(l)
  /\ FailReceipt(l)
  /\ Cancel(l)
  /\ Return(l, "error", "respond")
  /\ UNCHANGED <<scenario, registry, graceful, live, transport, job, todo, owed, history>>

-----------------------------------------------------------------------------
(* The drain loop: one queued event per turn, the phase kept in the        *)
(* opening pair so that nobody overtakes it.                               *)

Overrule(l, label) == Elected(l, "PeerTerminated", 0) /\ Clear(l) /\ Goto(l, label)

\* Faulty variant: the newest queued event is sent first.
DrainNewest(l) ==
  /\ pc[l] = "drain"
  /\ IF phase[l] = Phase("Opening", 0) /\ ~IsCancelled(l) /\ opening[l] # <<>>
     THEN /\ Elected(l, "OpeningDelivery", 0)
          /\ job' = [job EXCEPT ![l].event = opening[l][Len(opening[l])]]
          /\ opening' = [opening EXCEPT ![l] = SubSeq(@, 1, Len(@) - 1)]
          /\ Goto(l, "deliver")
     ELSE Elected(l, "Active", 0) /\ Goto(l, "listen") /\ UNCHANGED <<job, opening>>
  /\ UNCHANGED <<scenario, registry, graceful, request, receipt, transport, todo, outcome,
                 owed, history>>

Drain(l) ==
  /\ pc[l] = "drain"
  /\ CASE phase[l] = Phase("Opening", 0) /\ ~IsCancelled(l) /\ opening[l] # <<>> ->
            /\ Elected(l, "OpeningDelivery", 0)
            /\ job' = [job EXCEPT ![l].event = Head(opening[l])]
            /\ opening' = [opening EXCEPT ![l] = Tail(@)]
            /\ Goto(l, "deliver")
       [] phase[l] = Phase("Opening", 0) /\ ~IsCancelled(l) /\ opening[l] = <<>> ->
            Elected(l, "Active", 0) /\ Goto(l, "listen") /\ UNCHANGED <<job, opening>>
       [] phase[l] = Phase("Pending", 0) /\ ~IsCancelled(l) ->
            Elected(l, "ServerTerminated", 0) /\ Clear(l) /\ Goto(l, "control")
            /\ UNCHANGED job
       [] OTHER -> Overrule(l, "abandon") /\ UNCHANGED job
  /\ UNCHANGED <<scenario, registry, graceful, request, receipt, transport, todo, outcome,
                 owed, history>>

DeliverOpening(l) ==
  /\ pc[l] = "deliver"
  /\ \E o \in Outcomes(l) :
       /\ Transmit(l, job[l].event, o)
       /\ job' = [job EXCEPT ![l].sent = (o # "panic")]
  /\ Goto(l, "delivered")
  /\ UNCHANGED <<scenario, registry, election, live, gate, writer, todo, outcome, owed,
                 admitted>>

\* Faulty variant: the stream becomes publishable after its first event.
DeliveredActive(l) ==
  /\ pc[l] = "delivered"
  /\ IF AtPhase(l, {"OpeningDelivery"}) /\ job[l].sent /\ ~IsCancelled(l)
     THEN Elected(l, "Active", 0) /\ Goto(l, "listen") /\ UNCHANGED opening
     ELSE Overrule(l, "abandon")
  /\ UNCHANGED <<scenario, registry, graceful, request, receipt, transport, job, todo,
                 outcome, owed, history>>

DeliveredOpening(l) ==
  /\ pc[l] = "delivered"
  /\ LET ok == job[l].sent /\ ~IsCancelled(l)
     IN CASE ok /\ AtPhase(l, {"OpeningDelivery"}) ->
               Elected(l, "Opening", 0) /\ Goto(l, "drain") /\ UNCHANGED opening
          [] ok /\ phase[l] = Phase("Pending", 1) ->
               Elected(l, "ServerTerminated", 0) /\ Goto(l, "control")
               /\ UNCHANGED opening
          [] OTHER -> Overrule(l, "abandon")
  /\ UNCHANGED <<scenario, registry, graceful, request, receipt, transport, job, todo,
                 outcome, owed, history>>

Abandon(l) ==
  /\ pc[l] = "abandon"
  /\ entries' = entries \ {l}
  /\ FailReceipt(l)
  /\ Cancel(l)
  /\ Return(l, "error", "respond")
  /\ UNCHANGED <<scenario, terminating, election, live, transport, job, todo, owed, history>>

-----------------------------------------------------------------------------
(* complete_final_subscription_server_termination, run by whichever actor  *)
(* moved the phase to ServerTerminated: job[a].on is the stream.           *)

\* The actor goes on: a listener with its lease or with an error, a
\* publisher or the server with its next stream.
Resume(a, done) ==
  IF a \in Streams
  THEN IF done THEN Goto(a, "listen") /\ UNCHANGED outcome
               ELSE Return(a, "error", "respond")
  ELSE Goto(a, "next") /\ UNCHANGED outcome

SendControl(a) ==
  /\ pc[a] = "control"
  /\ LET l == job[a].on
     IN IF Kind[l] = "http"
        THEN /\ receipt' = [receipt EXCEPT ![l] = ControlNotRequired(@)]
             /\ UNCHANGED <<word, body, faulted, job>>
        ELSE \E o \in Outcomes(l) :
               /\ Transmit(l, Plain("control"), o)
               /\ job' = [job EXCEPT ![a].sent = (o # "panic")]
  /\ Goto(a, "decide")
  /\ UNCHANGED <<scenario, registry, election, live, gate, writer, todo, outcome, owed,
                 admitted>>

Decide(a) ==
  /\ pc[a] = "decide"
  /\ LET l == job[a].on
         http == Kind[l] = "http"
     IN IF \/ ~http /\ ~job[a].sent
           \/ IsCancelled(l) /\ ~(http /\ Committed(receipt[l]))
        THEN FailReceipt(l) /\ Cancel(l) /\ Goto(a, "unelect")
        ELSE Goto(a, "graceful") /\ UNCHANGED <<receipt, word>>
  /\ UNCHANGED <<scenario, registry, election, live, transport, job, todo, outcome, owed,
                 history>>

Unelect(a) ==
  /\ pc[a] = "unelect"
  /\ Elected(job[a].on, "PeerTerminated", 0)
  /\ Resume(a, FALSE)
  /\ UNCHANGED <<scenario, registry, opening, graceful, request, receipt, transport, job,
                 todo, owed, history>>

\* Faulty variant: the waiting request is woken before the flag is set.
WakeFirst(a) ==
  /\ pc[a] = "graceful"
  /\ Cancel(job[a].on)
  /\ Goto(a, "wake")
  /\ UNCHANGED <<scenario, registry, election, live, receipt, transport, job, todo,
                 outcome, owed, history>>

MarkGraceful(a) ==
  /\ pc[a] = "graceful"
  /\ graceful' = [graceful EXCEPT ![job[a].on] = TRUE]
  /\ Goto(a, "wake")
  /\ UNCHANGED <<scenario, registry, phase, opening, request, receipt, transport, job,
                 todo, outcome, owed, history>>

\* The request's cancellation is its wake-up.  The server's own pass puts
\* the receipt of the stream on its list.
Wake(a) ==
  /\ pc[a] = "wake"
  /\ Cancel(job[a].on)
  /\ Resume(a, TRUE)
  /\ owed' = IF a = Server /\ Kind[job[a].on] = "http"
             THEN owed \cup {job[a].on} ELSE owed
  /\ UNCHANGED <<scenario, registry, election, live, receipt, transport, job, todo, history>>

-----------------------------------------------------------------------------
(* The listen request after open returned its lease.                       *)

\* An in-process handle is kept until its owner drops it.
DropHandle(l) ==
  /\ pc[l] = "listen" /\ Kind[l] = "local"
  /\ "drop" \in Faults
  /\ Fault(l)
  /\ Goto(l, "drop")
  /\ UNCHANGED <<scenario, registry, election, request, receipt, transport, job, todo,
                 outcome, owed, admitted>>

ListenStart(l) ==
  /\ pc[l] = "listen" /\ Kind[l] # "local"
  /\ Goto(l, IF terminating THEN "settling" ELSE "polled")
  /\ UNCHANGED <<scenario, registry, election, request, receipt, transport, job, todo,
                 outcome, owed, history>>

\* The first check of a turn, then the wait for a reason to leave the loop.
ListenPoll(l) ==
  /\ pc[l] = "polled"
  /\ Goto(l, IF IsCancelled(l) \/ ~live[l] THEN "exiting" ELSE "parked")
  /\ UNCHANGED <<scenario, registry, election, request, receipt, transport, job, todo,
                 outcome, owed, history>>

ListenParked(l) ==
  /\ pc[l] = "parked"
  /\ \/ (IsCancelled(l) \/ ~live[l]) /\ Goto(l, "exiting")
     \/ ~live[l] /\ ~IsCancelled(l) /\ Goto(l, "holding")
     \/ terminating /\ Goto(l, "settling")
  /\ UNCHANGED <<scenario, registry, election, request, receipt, transport, job, todo,
                 outcome, owed, history>>

\* The Cx died between the two checks of a turn: keep the lease.
ListenHold(l) ==
  /\ pc[l] = "holding"
  /\ terminating \/ IsCancelled(l)
  /\ IF IsCancelled(l) /\ ~terminating /\ ~graceful[l]
     THEN Return(l, "error", "drop")
     ELSE Goto(l, "settling") /\ UNCHANGED outcome
  /\ UNCHANGED <<scenario, registry, election, request, receipt, transport, job, todo,
                 owed, history>>

ListenSettle(l) ==
  /\ pc[l] = "settling"
  /\ graceful[l] \/ AtPhase(l, {"PeerTerminated"}) \/ IsCancelled(l)
  /\ Goto(l, "ending")
  /\ UNCHANGED <<scenario, registry, election, request, receipt, transport, job, todo,
                 outcome, owed, history>>

\* "exiting" leaves from inside the loop and fails the receipt, "ending"
\* from the wait behind it.
ListenReturn(l) ==
  /\ pc[l] \in {"exiting", "ending"}
  /\ Return(l, IF graceful[l] THEN "complete" ELSE "error", "drop")
  /\ IF pc[l] = "exiting" /\ ~graceful[l] THEN FailReceipt(l)
                                          ELSE UNCHANGED receipt
  /\ UNCHANGED <<scenario, registry, election, request, transport, job, todo, owed, history>>

\* FinalSubscriptionLease::drop
DropLease(l) ==
  /\ pc[l] = "drop"
  /\ entries' = entries \ {l}
  /\ Goto(l, IF l \in entries THEN "dropped" ELSE "respond")
  /\ UNCHANGED <<scenario, terminating, election, request, receipt, transport, job, todo,
                 outcome, owed, history>>

PeerEnds(l) ==
  IF AtPhase(l, Open4) THEN Elected(l, "PeerTerminated", 0) /\ Clear(l)
                       ELSE UNCHANGED <<phase, opening>>

DropElection(l) ==
  /\ pc[l] = "dropped"
  /\ PeerEnds(l)
  /\ Goto(l, "respond")
  /\ UNCHANGED <<scenario, registry, graceful, request, receipt, transport, job, todo,
                 outcome, owed, history>>

-----------------------------------------------------------------------------
(* The response of the listen request.  A stdio child sends the completion *)
(* of a graceful close although its request is cancelled and turns every   *)
(* other response of a cancelled request into an error; the http           *)
(* dispatcher marks the elected completion before it commits it.           *)

Finalize(l) == word' = [word EXCEPT ![l] = IF @ = "active" THEN "finalizing" ELSE @]

ResponseFrame(l) == Plain(IF outcome[l] = "complete" THEN "complete" ELSE "error")

RespondStdio(l) ==
  /\ pc[l] = "respond" /\ Kind[l] = "stdio"
  /\ IF outcome[l] = "complete" THEN UNCHANGED word ELSE Finalize(l)
  /\ \/ /\ live[l]
        /\ body' = [body EXCEPT ![l].frames = Append(@, ResponseFrame(l))]
        /\ UNCHANGED faulted
     \/ /\ ~live[l] \/ "send" \in Faults
        /\ Fault(l) /\ UNCHANGED body
  /\ Goto(l, "done")
  /\ UNCHANGED <<scenario, registry, election, live, receipt, gate, writer, job, todo,
                 outcome, owed, admitted>>

ReturnLocal(l) ==
  /\ pc[l] = "respond" /\ Kind[l] = "local"
  /\ Goto(l, "done")
  /\ UNCHANGED <<scenario, registry, election, request, receipt, transport, job, todo,
                 outcome, owed, history>>

RespondHttp(l) ==
  /\ pc[l] = "respond" /\ Kind[l] = "http"
  /\ CASE body[l].failed ->
            /\ FailReceipt(l) /\ Elect(l, "failed") /\ Goto(l, "done")
            /\ UNCHANGED <<word, job>>
       [] ~body[l].failed /\ outcome[l] = "complete" ->
            /\ receipt' = [receipt EXCEPT ![l] = CompletionEnqueued(@)]
            /\ Goto(l, "commit") /\ UNCHANGED <<word, job, gate>>
       [] ~body[l].failed /\ outcome[l] # "complete" /\ ~IsCancelled(l) ->
            /\ Finalize(l) /\ Goto(l, "commit")
            /\ UNCHANGED <<receipt, job, gate>>
       [] OTHER ->
            /\ FailReceipt(l) /\ Goto(l, "elect")
            /\ job' = [job EXCEPT ![l].sent = FALSE]
            /\ UNCHANGED <<word, gate>>
  /\ UNCHANGED <<scenario, registry, election, live, body, writer, todo, outcome, owed,
                 history>>

\* The commit of the elected completion is masked against a cancelled Cx.
CommitResponse(l) ==
  /\ pc[l] = "commit"
  /\ \/ /\ ~body[l].closed
        /\ live[l] \/ outcome[l] = "complete"
        /\ body' = [body EXCEPT ![l].frames = Append(@, ResponseFrame(l)),
                                ![l].committed = TRUE]
        /\ job' = [job EXCEPT ![l].sent = TRUE]
        /\ UNCHANGED <<receipt, word, faulted>>
     \/ /\ \/ body[l].closed \/ "send" \in Faults
           \/ ~live[l] /\ outcome[l] # "complete"
        /\ FailReceipt(l) /\ Cancel(l) /\ Fault(l)
        /\ job' = [job EXCEPT ![l].sent = FALSE]
        /\ UNCHANGED body
  /\ Goto(l, "elect")
  /\ UNCHANGED <<scenario, registry, election, live, gate, writer, todo, outcome, owed,
                 admitted>>

ElectOutcome(l) ==
  /\ pc[l] = "elect"
  /\ Elect(l, IF job[l].sent THEN "stream" ELSE "failed")
  /\ Goto(l, "done")
  /\ UNCHANGED <<scenario, registry, election, request, receipt, body, writer, job, todo,
                 outcome, owed, history>>

-----------------------------------------------------------------------------
(* publish and publish_prepared.  The targets are copied under the         *)
(* registry lock and visited one after the other.                          *)

Publish(p) ==
  /\ p \in Publishing /\ pc[p] = "next" /\ todo[p] = {} /\ entries # {}
  /\ job[p].count < MaxEvents
  /\ todo' = [todo EXCEPT ![p] = entries]
  /\ job' = [job EXCEPT ![p].count = @ + 1,
                        ![p].event = Frame("event", p, job[p].count + 1)]
  /\ UNCHANGED <<scenario, registry, election, request, receipt, transport, pc, outcome,
                 owed, history>>

Visit(a, l) ==
  /\ pc[a] = "next" /\ l \in todo[a]
  /\ todo' = [todo EXCEPT ![a] = @ \ {l}]

\* Faulty variant: the queue of an opening stream has no bound.
QueueUnbounded(p, l) ==
  /\ Visit(p, l)
  /\ AtPhase(l, {"Opening", "OpeningDelivery"})
  /\ opening' = [opening EXCEPT ![l] = Append(@, job[p].event)]
  /\ admitted' = [admitted EXCEPT ![l] = Append(@, job[p].event)]
  /\ UNCHANGED <<scenario, registry, phase, graceful, request, receipt, transport, pc, job,
                 outcome, owed, faulted>>

Queue(p, l) ==
  /\ Visit(p, l)
  /\ AtPhase(l, {"Opening", "OpeningDelivery"})
  /\ CASE IsCancelled(l) ->
            /\ Elected(l, "PeerTerminated", 0) /\ Clear(l) /\ FailReceipt(l)
            /\ UNCHANGED <<word, history>>
       [] ~IsCancelled(l) /\ Len(opening[l]) >= MaxOpening ->
            /\ Elected(l, "PeerTerminated", 0) /\ Clear(l) /\ FailReceipt(l)
            /\ Cancel(l) /\ Fault(l) /\ UNCHANGED admitted
       [] OTHER ->
            /\ opening' = [opening EXCEPT ![l] = Append(@, job[p].event)]
            /\ admitted' = [admitted EXCEPT ![l] = Append(@, job[p].event)]
            /\ UNCHANGED <<phase, receipt, word, faulted>>
  /\ UNCHANGED <<scenario, registry, graceful, live, transport, pc, job, outcome, owed>>

\* Faulty variant: a second callback in flight is not counted.
OfferUncounted(p, l) ==
  /\ Visit(p, l)
  /\ AtPhase(l, {"Active", "EventDelivery"})
  /\ Elected(l, "EventDelivery", 1)
  /\ job' = [job EXCEPT ![p].on = l]
  /\ Goto(p, "deliver")
  /\ UNCHANGED <<scenario, registry, opening, graceful, request, receipt, transport,
                 outcome, owed, history>>

Offer(p, l) ==
  /\ Visit(p, l)
  /\ AtPhase(l, {"Active", "EventDelivery"})
  /\ IF AtPhase(l, {"Active"}) /\ IsCancelled(l)
     THEN Elected(l, "PeerTerminated", 0) /\ UNCHANGED <<pc, job>>
     ELSE /\ Elected(l, "EventDelivery", phase[l].n + 1)
          /\ job' = [job EXCEPT ![p].on = l]
          /\ Goto(p, "deliver")
  /\ UNCHANGED <<scenario, registry, opening, graceful, request, receipt, transport,
                 outcome, owed, history>>

Skip(p, l) ==
  /\ Visit(p, l)
  /\ AtPhase(l, {"Pending", "PeerTerminated", "ServerTerminated"})
  /\ UNCHANGED <<scenario, registry, election, request, receipt, transport, pc, job,
                 outcome, owed, history>>

DeliverEvent(p) ==
  /\ pc[p] = "deliver"
  /\ \E o \in Outcomes(job[p].on) :
       /\ Transmit(job[p].on, job[p].event, o)
       /\ job' = [job EXCEPT ![p].sent = (o # "panic")]
  /\ Goto(p, "delivered")
  /\ UNCHANGED <<scenario, registry, election, live, gate, writer, todo, outcome, owed,
                 admitted>>

\* Faulty variant: the last callback of a pending termination is counted
\* like the others, and nobody sends the control.
DeliveredUncounted(p) ==
  /\ pc[p] = "delivered"
  /\ LET l == job[p].on
     IN IF AtPhase(l, {"EventDelivery", "Pending"})
        THEN Elected(l, IF AtPhase(l, {"EventDelivery"}) /\ phase[l].n = 1
                        THEN "Active" ELSE phase[l].at, phase[l].n - 1)
        ELSE UNCHANGED phase
  /\ Goto(p, "next")
  /\ UNCHANGED <<scenario, registry, opening, graceful, request, receipt, transport, job,
                 todo, outcome, owed, history>>

DeliveredEvent(p) ==
  /\ pc[p] = "delivered"
  /\ LET l == job[p].on
         n == phase[l].n
         ok == job[p].sent /\ ~IsCancelled(l)
     IN CASE ok /\ AtPhase(l, {"EventDelivery"}) ->
               /\ Elected(l, IF n = 1 THEN "Active" ELSE "EventDelivery", n - 1)
               /\ Goto(p, "next") /\ UNCHANGED <<opening, receipt, word>>
          [] ok /\ AtPhase(l, {"Pending"}) /\ n > 1 ->
               /\ Elected(l, "Pending", n - 1)
               /\ Goto(p, "next") /\ UNCHANGED <<opening, receipt, word>>
          [] ok /\ AtPhase(l, {"Pending"}) /\ n = 1 ->
               /\ Elected(l, "ServerTerminated", 0)
               /\ Goto(p, "control") /\ UNCHANGED <<opening, receipt, word>>
          [] ~AtPhase(l, {"EventDelivery", "Pending"}) ->
               Goto(p, "next") /\ UNCHANGED <<phase, opening, receipt, word>>
          [] OTHER ->
               /\ Elected(l, "PeerTerminated", 0) /\ Clear(l)
               /\ FailReceipt(l) /\ Cancel(l) /\ Goto(p, "next")
  /\ UNCHANGED <<scenario, registry, graceful, live, transport, job, todo, outcome, owed,
                 history>>

-----------------------------------------------------------------------------
(* terminate_with_receipt and the bounded drain of the HTTP listener.      *)

Terminate ==
  /\ pc[Server] = "idle"
  /\ terminating' = TRUE
  /\ Goto(Server, "take")
  /\ UNCHANGED <<scenario, entries, election, request, receipt, transport, job, todo,
                 outcome, owed, history>>

\* Faulty variant: the entries are copied, not taken.
CopyEntries ==
  /\ pc[Server] = "take"
  /\ todo' = [todo EXCEPT ![Server] = entries]
  /\ Goto(Server, "next")
  /\ UNCHANGED <<scenario, registry, election, request, receipt, transport, job, outcome,
                 owed, history>>

TakeEntries ==
  /\ pc[Server] = "take"
  /\ todo' = [todo EXCEPT ![Server] = entries]
  /\ entries' = {}
  /\ Goto(Server, "next")
  /\ UNCHANGED <<scenario, terminating, election, request, receipt, transport, job,
                 outcome, owed, history>>

\* Faulty variant: callbacks in flight are not waited for.
TerminateAtOnce(l) ==
  /\ Visit(Server, l)
  /\ IF AtPhase(l, {"Active", "EventDelivery"}) /\ ~IsCancelled(l)
     THEN Elected(l, "ServerTerminated", 0) /\ Goto(Server, "control")
     ELSE UNCHANGED <<phase, pc>>
  /\ job' = [job EXCEPT ![Server].on = l]
  /\ UNCHANGED <<scenario, registry, opening, graceful, request, receipt, transport,
                 outcome, owed, history>>

TerminateEntry(l) ==
  /\ Visit(Server, l)
  /\ job' = [job EXCEPT ![Server].on = l]
  /\ LET owe == owed' = IF Kind[l] = "http" THEN owed \cup {l} ELSE owed
     IN CASE IsCancelled(l) /\ AtPhase(l, Open4) ->
               /\ Elected(l, "PeerTerminated", 0)
               /\ IF AtPhase(l, {"Opening", "OpeningDelivery"}) THEN Clear(l)
                                                                ELSE UNCHANGED opening
               /\ IF AtPhase(l, {"Active"}) THEN UNCHANGED receipt
                                            ELSE FailReceipt(l)
               /\ UNCHANGED <<pc, owed>>
          [] ~IsCancelled(l) /\ AtPhase(l, {"Opening", "OpeningDelivery"}) ->
               /\ Elected(l, "Pending", IF AtPhase(l, {"Opening"}) THEN 0 ELSE 1)
               /\ Clear(l) /\ owe /\ UNCHANGED <<pc, receipt>>
          [] ~IsCancelled(l) /\ AtPhase(l, {"Active"}) ->
               /\ Elected(l, "ServerTerminated", 0) /\ Goto(Server, "control")
               /\ UNCHANGED <<opening, receipt, owed>>
          [] ~IsCancelled(l) /\ AtPhase(l, {"EventDelivery"}) ->
               /\ Elected(l, "Pending", phase[l].n)
               /\ owe /\ UNCHANGED <<pc, opening, receipt>>
          [] OTHER -> UNCHANGED <<phase, pc, opening, receipt, owed>>
  /\ UNCHANGED <<scenario, registry, graceful, request, transport, outcome, history>>

\* Everything the listener waits for: the receipts of its termination, or
\* HTTP_TERMINAL_DRAIN_TIMEOUT, after which what is pending has failed.
DrainReceipts ==
  /\ pc[Server] = "next" /\ todo[Server] = {}
  /\ LET pending == {l \in owed : ~Settled(receipt[l])}
     IN /\ pending = {} \/ "timeout" \in Faults
        /\ receipt' = [l \in Streams |->
                        IF l \in pending THEN Failed(receipt[l]) ELSE receipt[l]]
        /\ faulted' = faulted \cup pending
  /\ Goto(Server, "done")
  /\ UNCHANGED <<scenario, registry, election, request, transport, job, todo, outcome,
                 owed, admitted>>

-----------------------------------------------------------------------------
(* send_modern_sse_stream: the task that owns the socket of an http body.  *)

WriterAt(l, label) == writer' = [writer EXCEPT ![l] = label]

\* A ready election is authoritative; without one, cancellation wins.
WriterAwait(l) ==
  /\ writer[l] = "await"
  /\ \/ gate[l] = "stream" /\ WriterAt(l, "head")
     \/ gate[l] = "failed" /\ WriterAt(l, "error")
     \/ gate[l] = "awaiting" /\ IsCancelled(l) /\ WriterAt(l, "error")
  /\ UNCHANGED <<scenario, registry, election, request, receipt, body, gate, pc, job, todo,
                 outcome, owed, history>>

WriterHead(l) ==
  /\ writer[l] = "head"
  /\ WriterAt(l, "stream")
  /\ UNCHANGED <<scenario, registry, election, request, receipt, body, gate, pc, job, todo,
                 outcome, owed, history>>

Waiting(l) == body[l].popped < Len(body[l].frames)
NextFrame(l) == body[l].frames[body[l].popped + 1]
IsResponse(f) == f.kind \in {"complete", "error"}

\* Taking the terminal response finishes the transport body and cancels the
\* request.
WriterPop(l) ==
  /\ writer[l] = "stream" /\ ~Settled(receipt[l]) /\ Waiting(l)
  /\ WriterAt(l, "write")
  /\ LET last == IsResponse(NextFrame(l))
     IN /\ body' = [body EXCEPT ![l].popped = @ + 1, ![l].closed = @ \/ last]
        /\ IF last THEN Cancel(l) ELSE UNCHANGED word
  /\ UNCHANGED <<scenario, registry, election, live, receipt, gate, pc, job, todo, outcome,
                 owed, history>>

WriterIdle(l) ==
  /\ writer[l] = "stream"
  /\ \/ Settled(receipt[l]) /\ WriterAt(l, "error") /\ UNCHANGED receipt
     \/ /\ ~Settled(receipt[l]) /\ ~Waiting(l)
        /\ \/ body[l].closed /\ WriterAt(l, "trailer") /\ UNCHANGED receipt
           \/ /\ ~body[l].closed
              /\ \/ IsCancelled(l) /\ ~Committed(receipt[l])
                 \/ ~live[l]
              /\ FailReceipt(l) /\ WriterAt(l, "trailer")
  /\ UNCHANGED <<scenario, registry, election, request, body, gate, pc, job, todo, outcome,
                 owed, history>>

WriterFlush(l) ==
  /\ writer[l] = "write"
  /\ body' = [body EXCEPT ![l].flushed = body[l].popped]
  /\ LET d == IF IsResponse(body[l].frames[body[l].popped])
              THEN CompletionDrained(receipt[l]) ELSE receipt[l]
     IN /\ receipt' = [receipt EXCEPT ![l] = d]
        /\ WriterAt(l, IF Settled(d) THEN "trailer" ELSE "stream")
  /\ UNCHANGED <<scenario, registry, election, request, gate, pc, job, todo, outcome, owed,
                 history>>

\* The peer closed the connection.
WriterBreaks(l) ==
  /\ "write" \in Faults
  /\ writer[l] \in {"head", "write", "trailer"}
  /\ WriterAt(l, "error")
  /\ Fault(l)
  /\ UNCHANGED <<scenario, registry, election, request, receipt, body, gate, pc, job, todo,
                 outcome, owed, admitted>>

CloseBody(l) ==
  /\ body' = [body EXCEPT ![l].closed = TRUE]
  /\ Cancel(l)

\* The body of a successful writer is dropped with its receipt settled.
WriterTrailer(l) ==
  /\ writer[l] = "trailer"
  /\ IF Settled(receipt[l]) THEN UNCHANGED receipt ELSE FailReceipt(l)
  /\ CloseBody(l)
  /\ WriterAt(l, "done")
  /\ UNCHANGED <<scenario, registry, election, live, gate, pc, job, todo, outcome, owed,
                 history>>

\* A failed writer fails the receipt and takes the dispatch back: the owner's
\* entry, its election, its cancellation and its task.
WriterFails(l) ==
  /\ writer[l] = "error"
  /\ FailReceipt(l)
  /\ entries' = entries \ {l}
  /\ WriterAt(l, IF l \in entries THEN "revoke" ELSE "abort")
  /\ UNCHANGED <<scenario, terminating, election, request, body, gate, pc, job, todo,
                 outcome, owed, history>>

CancelModernHttpOwner(l) ==
  /\ writer[l] = "revoke"
  /\ PeerEnds(l)
  /\ IF AtPhase(l, Open4) THEN Cancel(l) ELSE UNCHANGED word
  /\ WriterAt(l, "abort")
  /\ UNCHANGED <<scenario, registry, graceful, live, receipt, body, gate, pc, job, todo,
                 outcome, owed, history>>

WriterAborts(l) ==
  /\ writer[l] = "abort"
  /\ CloseBody(l)
  /\ live' = [live EXCEPT ![l] = FALSE]
  /\ WriterAt(l, "done")
  /\ UNCHANGED <<scenario, registry, election, receipt, gate, pc, job, todo, outcome, owed,
                 history>>

-----------------------------------------------------------------------------
(* The environment. *)

Running(l) == pc[l] \notin {"idle", "done"}

\* notifications/cancelled of a stdio client
PeerCancels(l) ==
  /\ "peer" \in Faults /\ Kind[l] = "stdio"
  /\ Running(l) /\ word[l] = "active"
  /\ Cancel(l) /\ Fault(l)
  /\ UNCHANGED <<scenario, registry, election, live, receipt, transport, pc, job, todo,
                 outcome, owed, admitted>>

\* The region that owns the request is cancelled.
ContextDies(l) ==
  /\ "context" \in Faults /\ Kind[l] # "local"
  /\ Running(l) /\ live[l]
  /\ live' = [live EXCEPT ![l] = FALSE]
  /\ Fault(l)
  /\ UNCHANGED <<scenario, registry, election, word, receipt, transport, pc, job, todo,
                 outcome, owed, admitted>>

-----------------------------------------------------------------------------
OpenerStep(l) ==
  \/ CheckOpen(l) \/ Reserve(l) \/ Acknowledge(l) \/ AdmitStream(l)
  \/ RetractEntry(l) \/ RetractElection(l) \/ Drain(l) \/ DeliverOpening(l)
  \/ DeliveredOpening(l) \/ Abandon(l)

ListenerStep(l) ==
  \/ ListenStart(l) \/ ListenPoll(l) \/ ListenParked(l) \/ ListenHold(l)
  \/ ListenSettle(l) \/ ListenReturn(l) \/ DropLease(l) \/ DropElection(l)
  \/ RespondStdio(l) \/ ReturnLocal(l) \/ RespondHttp(l) \/ CommitResponse(l)
  \/ ElectOutcome(l)

CompletionStep(a) ==
  SendControl(a) \/ Decide(a) \/ Unelect(a) \/ MarkGraceful(a) \/ Wake(a)

PublisherStep(p) ==
  \/ DeliverEvent(p) \/ DeliveredEvent(p)
  \/ \E l \in Streams : Queue(p, l) \/ Offer(p, l) \/ Skip(p, l)

ServerStep ==
  \/ TakeEntries \/ DrainReceipts
  \/ \E l \in Streams : TerminateEntry(l)

WriterStep(l) ==
  \/ WriterAwait(l) \/ WriterHead(l) \/ WriterPop(l) \/ WriterIdle(l)
  \/ WriterFlush(l)
  \/ WriterTrailer(l) \/ WriterFails(l) \/ CancelModernHttpOwner(l)
  \/ WriterAborts(l)

Next ==
  \/ \E l \in Streams :
       \/ Listen(l) \/ OpenerStep(l) \/ ListenerStep(l) \/ WriterStep(l)
       \/ DropHandle(l) \/ WriterBreaks(l) \/ PeerCancels(l) \/ ContextDies(l)
  \/ \E p \in Publishers : Publish(p) \/ PublisherStep(p)
  \/ \E a \in Actors : CompletionStep(a)
  \/ Terminate \/ ServerStep

Spec == Init /\ [][Next]_vars

(* Threads and tasks run and sender callbacks return.  Nobody has to open,  *)
(* publish, terminate, cancel or fail.                                      *)
FairSpec ==
  /\ Spec
  /\ \A l \in Streams : /\ WF_vars(OpenerStep(l) \/ ListenerStep(l) \/ CompletionStep(l))
                        /\ WF_vars(WriterStep(l))
  /\ \A p \in Publishers : WF_vars(PublisherStep(p) \/ CompletionStep(p))
  /\ WF_vars(ServerStep \/ CompletionStep(Server))

-----------------------------------------------------------------------------
(* Properties *)

\* Every variable keeps its type: phases with their counters, receipts,
\* program counters and the frames of a body.
TypeOK ==
  /\ scenario \in Scenarios
  /\ entries \subseteq Streams /\ terminating \in BOOLEAN
  /\ phase \in [Streams -> [at: PhaseNames, n: 0..Cardinality(Publishers)]]
  /\ \A l \in Streams : Len(opening[l]) <= MaxOpening
  /\ graceful \in [Streams -> BOOLEAN]
  /\ word \in [Streams -> {"active", "cancelled", "finalizing"}]
  /\ live \in [Streams -> BOOLEAN]
  /\ receipt \in [Streams -> Receipts]
  /\ Cardinality(entries) <= MaxStreams
  /\ owed \subseteq Streams /\ faulted \subseteq Streams

IsEvent(f) == f.kind = "event"

\* How many of the first i frames of a stream are events.
Rank(l, i) == Cardinality({j \in 1..i : IsEvent(body[l].frames[j])})

\* Events that arrive while the acknowledgement or an earlier opening event
\* is in flight reach the stream in the order they were queued, and no event
\* delivered directly overtakes one of them: the k-th event on the stream is
\* the k-th that was queued, or none of the queued ones if there are fewer
\* (FinalSubscriptionPhase, OpeningDelivery).
OpeningOrder ==
  \A l \in Streams : \A i \in DOMAIN body[l].frames :
    LET f == body[l].frames[i]
        k == Rank(l, i)
    IN IsEvent(f) => IF k <= Len(admitted[l])
                     THEN f = admitted[l][k]
                     ELSE \A j \in DOMAIN admitted[l] : f # admitted[l][j]

\* What one publisher published reaches a stream in publication order and at
\* most once, whichever thread delivers it (publish_prepared and the drain
\* loop of open).
PublisherOrder ==
  \A l \in Streams :
    \A i, j \in DOMAIN body[l].frames :
      LET f == body[l].frames[i]
          g == body[l].frames[j]
      IN i < j /\ f.kind = "event" /\ g.kind = "event" /\ f.by = g.by
           => f.nr < g.nr

InCallback(l) ==
  {a \in Publishers \cup {l} : pc[a] \in {"deliver", "delivered"} /\ job[a].on = l}

\* The counters of EventDelivery and ServerTerminationPending are exactly the
\* callbacks in flight, so the terminal control waits for all of them and for
\* nothing else.
InFlightIsExact ==
  \A l \in Streams :
    /\ AtPhase(l, {"EventDelivery"}) =>
         phase[l].n = Cardinality(InCallback(l)) /\ phase[l].n > 0
    /\ AtPhase(l, {"Pending"}) => phase[l].n = Cardinality(InCallback(l))
    /\ AtPhase(l, {"Opening", "Active"}) => InCallback(l) = {}

\* A graceful completion belongs to the server's election: once the flag is
\* set the phase is ServerTerminated and stays so, and the registry no longer
\* holds the stream.
GracefulIsElected ==
  \A l \in Streams :
    graceful[l] => AtPhase(l, {"ServerTerminated"}) /\ l \notin entries

\* An open racing the termination does not escape it: after the server took
\* the entries no stream is registered, and every stream that was opened is
\* still to be visited or its end is decided (the second check of terminating
\* under the registry lock).
NoStreamEscapes ==
  pc[Server] \in {"next", "control", "decide", "unelect", "graceful", "wake", "done"} =>
    /\ entries = {}
    /\ \A l \in Streams :
         AtPhase(l, Open4) /\ pc[l] \in {"ack", "admit", "drain", "deliver", "delivered",
                                         "listen", "polled", "parked", "holding", "settling"}
           => l \in todo[Server] \/ writer[l] = "revoke"

\* A server-owned graceful close is not turned into a cancellation: a listen
\* request ends with an error only if the peer, a callback, the context, the
\* socket or a full queue broke the stream (the wait behind the listen loop).
GracefulCloseIsAnswered ==
  \A l \in Streams : outcome[l] = "error" => l \in faulted

\* A receipt is settled as drained only when the completion was flushed to
\* the socket, so the listener that waits for it does not shut down early
\* (mark_completion_enqueued before the commit, mark_completion_drained after
\* the flush).
DrainedIsFlushed ==
  \A l \in Streams :
    receipt[l].completion = "drained" =>
      \E i \in 1..body[l].flushed : body[l].frames[i].kind = "complete"

\* The frames of every stream follow the contract of SubscriptionContract.
Contract == INSTANCE SubscriptionContract
              WITH Event <- IsEvent,
                   wire <- [l \in Streams |-> body[l].frames]
StreamContract == Contract!Spec

\* Once the server terminates, every listen request returns and the drain of
\* its receipts ends without the timeout, although streams are opening,
\* delivering, failing or being cancelled at that moment.
TerminationCompletes ==
  terminating ~> pc[Server] = "done"
ListenersReturn ==
  \A l \in Streams :
    terminating /\ Running(l) /\ Kind[l] # "local" ~> pc[l] = "done"

\* Both orders of a stream hold: of the opening queue and of each publisher.
OrderIsKept == OpeningOrder /\ PublisherOrder

\* The end of a stream is elected once: its phase counts the callbacks in
\* flight, a graceful end belongs to the server, and no racing open escapes it.
ElectionIsExact == TypeOK /\ InFlightIsExact /\ GracefulIsElected /\ NoStreamEscapes

\* A graceful end is answered as such, and settled only when it is on the wire.
EndIsDelivered == GracefulCloseIsAnswered /\ DrainedIsFlushed

\* Under fair threads the termination completes and every listener returns.
StreamsEnd == TerminationCompletes /\ ListenersReturn
=============================================================================
