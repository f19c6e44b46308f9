------------------------- MODULE Subscriptions_proofs -------------------------
(***************************************************************************)
(* Proofs about Subscriptions, for every set of streams of every kind,     *)
(* every set of publishers, every limit and every combination of faults.   *)
(***************************************************************************)
EXTENDS Subscriptions, FiniteSetTheorems, SequenceTheorems, TLAPS

-----------------------------------------------------------------------------
(* Names and types. *)

\* Where a listener, a publisher or the server can be.
Opener == {"idle", "check", "reserve", "ack", "admit", "retract", "retracted", "drain",
           "deliver", "delivered", "abandon"}
Completing == {"control", "decide", "unelect", "graceful", "wake"}
Waits == {"listen", "polled", "parked", "holding", "settling"}
Leaving == {"exiting", "ending", "drop", "dropped", "respond", "commit", "elect", "done"}
InSender == {"deliver", "delivered"}
ListenerLabels == Opener \cup Completing \cup Waits \cup Leaving
PublisherLabels == {"next"} \cup InSender \cup Completing
ServerLabels == {"idle", "take", "next", "done"} \cup Completing
Labels == ListenerLabels \cup PublisherLabels \cup ServerLabels
WriterLabels == {"off", "await", "head", "stream", "write", "trailer", "error", "revoke",
                 "abort", "done"}

Kinds == {"none", "ack", "event", "control", "complete", "error"}

\* What a stream carries, what its opening queue holds, and the shapes of the
\* state.
Frames == [kind: Kinds, by: Actors, nr: Nat]
Queueable == [kind: {"event"}, by: Publishers, nr: Nat]
Phases == [at: PhaseNames, n: Nat]
Words == {"active", "cancelled", "finalizing"}
Bodies == [frames: Seq(Frames), failed: BOOLEAN, committed: BOOLEAN, closed: BOOLEAN,
           popped: Nat, flushed: Nat]
Gates == {"awaiting", "stream", "failed"}
Jobs == [on: Actors, event: Frames, sent: BOOLEAN, count: Nat]
Results == {"none", "complete", "error", "refused"}

Owners == Publishers \cup {Server}

\* Every variable has its type.
Typed ==
  /\ scenario \in Scenarios
  /\ entries \subseteq Streams /\ terminating \in BOOLEAN
  /\ phase \in [Streams -> Phases]
  /\ opening \in [Streams -> Seq(Queueable)]
  /\ graceful \in [Streams -> BOOLEAN]
  /\ word \in [Streams -> Words]
  /\ live \in [Streams -> BOOLEAN]
  /\ receipt \in [Streams -> Receipts]
  /\ body \in [Streams -> Bodies]
  /\ gate \in [Streams -> Gates]
  /\ writer \in [Streams -> WriterLabels]
  /\ pc \in [Actors -> Labels]
  /\ job \in [Actors -> Jobs]
  /\ todo \in [Owners -> SUBSET Streams]
  /\ outcome \in [Streams -> Results]
  /\ owed \subseteq Streams /\ faulted \subseteq Streams
  /\ admitted \in [Streams -> Seq(Queueable)]

\* Every actor is at a label of its own program.
Labelled ==
  /\ \A l \in Streams : pc[l] \in ListenerLabels
  /\ \A p \in Publishers : pc[p] \in PublisherLabels
  /\ pc[Server] \in ServerLabels

\* A listener works on its own stream; a callback or a completion works on a
\* stream.
Aimed ==
  /\ \A l \in Streams : job[l].on = l
  /\ \A a \in Actors : pc[a] \in InSender \cup Completing => job[a].on \in Streams

\* An actor that is to deliver holds an event.
Carrying ==
  /\ \A p \in Publishers :
       todo[p] # {} \/ pc[p] = "deliver" => job[p].event \in Queueable
  /\ \A l \in Streams : pc[l] \in InSender => job[l].event \in Queueable

\* A stream in EventDelivery counts at least one callback.
Positive == \A l \in Streams : phase[l].at = "EventDelivery" => phase[l].n > 0
Placed == Labelled /\ Aimed /\ Carrying /\ Positive
Shape == Typed /\ Placed

-----------------------------------------------------------------------------
(* Updates. *)

\* g is f with the value v at x, and still a function of its type.
Sets(f, g, D, R, x, v) ==
  g \in [D -> R] /\ g[x] = v /\ \A y \in D : y # x => g[y] = f[y]

\* What a step does to one variable of one stream or actor.
Moves(a, x) == Sets(pc, pc', Actors, Labels, a, x)
Elects(l, at, n) == Sets(phase, phase', Streams, Phases, l, [at |-> at, n |-> n])
Queues(l, s) == Sets(opening, opening', Streams, Seq(Queueable), l, s)
Graces(l) == Sets(graceful, graceful', Streams, BOOLEAN, l, TRUE)
Cancels(l) == Sets(word, word', Streams, Words, l, CancelledWord(word[l]))
Finalizes(l) ==
  Sets(word, word', Streams, Words, l, IF word[l] = "active" THEN "finalizing" ELSE word[l])
Dies(l) == Sets(live, live', Streams, BOOLEAN, l, FALSE)
Marked(l, r) == Sets(receipt, receipt', Streams, Receipts, l, r)
FailsReceipt(l) == Marked(l, IF Kind[l] = "http" THEN Failed(receipt[l]) ELSE receipt[l])
Gated(l, e) == Sets(gate, gate', Streams, Gates, l, IF gate[l] = "awaiting" THEN e ELSE gate[l])
Writes(l, x) == Sets(writer, writer', Streams, WriterLabels, l, x)
Works(a, on, e, s, c) ==
  /\ job' \in [Actors -> Jobs]
  /\ job'[a].on = on /\ job'[a].event = e /\ job'[a].sent = s /\ job'[a].count = c
  /\ \A b \in Actors : b # a => job'[b] = job[b]
Plans(a, S) == Sets(todo, todo', Owners, SUBSET Streams, a, S)
Answers(l, r) == Sets(outcome, outcome', Streams, Results, l, r)
Admits(l, f) == Sets(admitted, admitted', Streams, Seq(Queueable), l, Append(admitted[l], f))
Holds(l, fr, fa, co, cl, po, fl) ==
  /\ body' \in [Streams -> Bodies]
  /\ body'[l].frames = fr /\ body'[l].failed = fa /\ body'[l].committed = co
  /\ body'[l].closed = cl /\ body'[l].popped = po /\ body'[l].flushed = fl
  /\ \A m \in Streams : m # l => body'[m] = body[m]

\* The four ways a sender callback ends.
Blames(l) == faulted' = faulted \cup {l}

Sends(l, f) ==
  /\ Holds(l, Append(body[l].frames, f), body[l].failed, body[l].committed, body[l].closed,
           body[l].popped, body[l].flushed)
  /\ UNCHANGED <<word, receipt, faulted>>
Refuses(l) ==
  /\ Holds(l, body[l].frames, TRUE, body[l].committed, body[l].closed, body[l].popped,
           body[l].flushed)
  /\ Cancels(l) /\ FailsReceipt(l) /\ Blames(l)
Drops(l) == UNCHANGED <<body, word, receipt, faulted>>
Panics(l) == UNCHANGED <<body, word, receipt>> /\ Blames(l)

\* The sender accepts another frame.
Ready(l) == ~Mute(l) /\ (Kind[l] = "local" \/ ~Barred(l))

-----------------------------------------------------------------------------
(* Facts about the operators. *)

\* What each outcome of a sender says of its stream.
LEMMA OutcomesAre ==
  ASSUME NEW l \in Streams, NEW o \in Outcomes(l)
  PROVE  /\ o \in {"sent", "refused", "dropped", "panic"}
         /\ o = "sent" => Ready(l)
         /\ o = "refused" => ~Mute(l) /\ Kind[l] # "local"
         /\ o = "dropped" => Mute(l)
         /\ o = "panic" => Kind[l] = "local"
<1>1. CASE Kind[l] = "local"
  BY <1>1 DEF Outcomes, Mute, Ready
<1>2. CASE Kind[l] # "local" /\ Mute(l)
  BY <1>2 DEF Outcomes
<1>3. CASE Kind[l] # "local" /\ ~Mute(l)
  BY <1>3 DEF Outcomes, Ready
<1>. QED BY <1>1, <1>2, <1>3

\* The assignments of the model, as updates of one component.
LEMMA GotoIs ==
  ASSUME Shape, NEW a \in Actors, NEW x \in Labels, Goto(a, x) PROVE Moves(a, x)
BY DEF Shape, Typed, Goto, Moves, Sets

LEMMA ElectedIs ==
  ASSUME Shape, NEW l \in Streams, NEW x \in PhaseNames, NEW n \in Nat, Elected(l, x, n)
  PROVE  Elects(l, x, n)
BY DEF Shape, Typed, Elected, Phase, Phases, Elects, Sets

LEMMA ClearIs == ASSUME Shape, NEW l \in Streams, Clear(l) PROVE Queues(l, <<>>)
BY DEF Shape, Typed, Clear, Queues, Sets

LEMMA CancelIs == ASSUME Shape, NEW l \in Streams, Cancel(l) PROVE Cancels(l)
BY DEF Shape, Typed, Cancel, CancelledWord, Cancels, Sets, Words

LEMMA FinalizeIs == ASSUME Shape, NEW l \in Streams, Finalize(l) PROVE Finalizes(l)
BY DEF Shape, Typed, Finalize, Finalizes, Sets, Words

\* The receipt's operations keep its type.
LEMMA ReceiptsMove ==
  ASSUME NEW d \in Receipts
  PROVE  /\ Failed(d) \in Receipts /\ ControlNotRequired(d) \in Receipts
         /\ CompletionEnqueued(d) \in Receipts /\ CompletionDrained(d) \in Receipts
BY DEF Receipts, Marks, Failed, FailMark, ControlNotRequired, CompletionEnqueued,
   CompletionDrained

LEMMA FailReceiptIs == ASSUME Shape, NEW l \in Streams, FailReceipt(l) PROVE FailsReceipt(l)
BY ReceiptsMove DEF Shape, Typed, FailReceipt, FailsReceipt, Marked, Sets

LEMMA MarkIs ==
  ASSUME Shape, NEW l \in Streams, NEW d \in Receipts, receipt' = [receipt EXCEPT ![l] = d]
  PROVE  Marked(l, d)
BY DEF Shape, Typed, Marked, Sets

LEMMA ElectIs ==
  ASSUME Shape, NEW l \in Streams, NEW e \in Gates, Elect(l, e) PROVE Gated(l, e)
BY DEF Shape, Typed, Elect, Gated, Sets

LEMMA WriterAtIs ==
  ASSUME Shape, NEW l \in Streams, NEW x \in WriterLabels, WriterAt(l, x) PROVE Writes(l, x)
BY DEF Shape, Typed, WriterAt, Writes, Sets

LEMMA OutcomeIs ==
  ASSUME Shape, NEW l \in Streams, NEW r \in Results, outcome' = [outcome EXCEPT ![l] = r]
  PROVE  Answers(l, r)
BY DEF Shape, Typed, Answers, Sets

LEMMA ReturnIs ==
  ASSUME Shape, NEW l \in Streams, NEW r \in Results, NEW x \in Labels, Return(l, r, x)
  PROVE  Answers(l, r) /\ Moves(l, x)
BY GotoIs, OutcomeIs DEF Return, Actors

LEMMA VisitIs ==
  ASSUME Shape, NEW a \in Owners, NEW l \in Streams, Visit(a, l)
  PROVE  pc[a] = "next" /\ l \in todo[a] /\ Plans(a, todo[a] \ {l})
BY DEF Shape, Typed, Visit, Plans, Sets

LEMMA SentIs ==
  ASSUME Shape, NEW a \in Actors, NEW s \in BOOLEAN, job' = [job EXCEPT ![a].sent = s]
  PROVE  Works(a, job[a].on, job[a].event, s, job[a].count)
<1>1. job \in [Actors -> Jobs]
  BY DEF Shape, Typed
<1>. QED BY <1>1 DEF Jobs, Works

LEMMA OnIs ==
  ASSUME Shape, NEW a \in Actors, NEW l \in Streams, job' = [job EXCEPT ![a].on = l]
  PROVE  Works(a, l, job[a].event, job[a].sent, job[a].count)
<1>1. job \in [Actors -> Jobs]
  BY DEF Shape, Typed
<1>. QED BY <1>1 DEF Jobs, Works, Actors

LEMMA EventIs ==
  ASSUME Shape, NEW a \in Actors, NEW e \in Frames, job' = [job EXCEPT ![a].event = e]
  PROVE  Works(a, job[a].on, e, job[a].sent, job[a].count)
<1>1. job \in [Actors -> Jobs]
  BY DEF Shape, Typed
<1>. QED BY <1>1 DEF Jobs, Works, Actors

\* The labels are labels.
LEMMA LabelNames ==
  /\ Opener \cup Completing \cup Waits \cup Leaving \subseteq Labels
  /\ {"next", "take"} \subseteq Labels
BY DEF Labels, ListenerLabels, PublisherLabels, ServerLabels

LEMMA QueueableIs == Queueable \subseteq Frames
BY DEF Queueable, Frames, Kinds, Actors

LEMMA PlainIs ==
  ASSUME NEW k \in Kinds PROVE Plain(k) \in Frames
BY DEF Plain, Frame, Frames, Actors

LEMMA TransmitIs ==
  ASSUME Shape, NEW l \in Streams, NEW f \in Frames, NEW o \in Outcomes(l), Transmit(l, f, o)
  PROVE  \/ o = "sent" /\ Sends(l, f)
         \/ o = "refused" /\ Refuses(l)
         \/ o = "dropped" /\ Drops(l)
         \/ o = "panic" /\ Panics(l)
<1>1. body \in [Streams -> Bodies]
  BY DEF Shape, Typed
<1>2. body' \in [Streams -> Bodies]
  <2>. DEFINE frames == IF o = "sent" THEN Append(body[l].frames, f) ELSE body[l].frames
              failed == body[l].failed \/ o = "refused"
              b == [body[l] EXCEPT !.frames = frames, !.failed = failed]
  <2>1. frames \in Seq(Frames) /\ failed \in BOOLEAN
    BY <1>1 DEF Bodies
  <2>2. body' = [body EXCEPT ![l] = b]
    BY <1>1 DEF Transmit, Bodies
  <2>. HIDE DEF frames, failed
  <2>3. b \in Bodies
    BY <1>1, <2>1 DEF Bodies
  <2>. HIDE DEF b
  <2>. QED BY <1>1, <2>2, <2>3
<1>3. ASSUME o = "sent" PROVE Sends(l, f)
  BY <1>1, <1>2, <1>3 DEF Transmit, Sends, Holds, Bodies
<1>4. ASSUME o = "refused" PROVE Refuses(l)
  BY <1>1, <1>2, <1>4, CancelIs, FailReceiptIs DEF Transmit, Refuses, Holds, Bodies, Fault, Blames
<1>5. ASSUME o = "dropped" PROVE Drops(l)
  BY <1>1, <1>5 DEF Transmit, Drops, Bodies
<1>6. ASSUME o = "panic" PROVE Panics(l)
  BY <1>1, <1>6 DEF Transmit, Panics, Bodies, Fault, Blames
<1>. QED BY <1>3, <1>4, <1>5, <1>6, OutcomesAre

\* Whoever is in a callback or in a completion works on a stream.
LEMMA OnAStream ==
  ASSUME Shape, NEW a \in Actors, pc[a] \in InSender \cup Completing
  PROVE  job[a].on \in Streams
BY DEF Shape, Placed, Aimed

LEMMA FramesIs ==
  ASSUME Shape, NEW l \in Streams, NEW fr \in Seq(Frames), body' = [body EXCEPT ![l].frames = fr]
  PROVE  Holds(l, fr, body[l].failed, body[l].committed, body[l].closed, body[l].popped,
               body[l].flushed)
<1>1. body \in [Streams -> Bodies]
  BY DEF Shape, Typed
<1>2. \A m \in Streams : m # l => body'[m] = body[m]
  BY <1>1
<1>3. body'[l] = [body[l] EXCEPT !.frames = fr]
  BY <1>1
<1>4. /\ body'[l] \in Bodies /\ body'[l].frames = fr /\ body'[l].failed = body[l].failed
      /\ body'[l].committed = body[l].committed /\ body'[l].closed = body[l].closed
      /\ body'[l].popped = body[l].popped /\ body'[l].flushed = body[l].flushed
  BY <1>1, <1>3 DEF Bodies
<1>5. body' \in [Streams -> Bodies]
  BY <1>1, <1>2, <1>4
<1>. QED BY <1>2, <1>4, <1>5 DEF Holds

LEMMA CommittedBody ==
  ASSUME NEW b \in Bodies, NEW c \in BOOLEAN PROVE [b EXCEPT !.committed = c] \in Bodies
BY DEF Bodies

LEMMA CommitIs ==
  ASSUME Shape, NEW l \in Streams, NEW fr \in Seq(Frames), NEW c \in BOOLEAN,
         body' = [body EXCEPT ![l].frames = fr, ![l].committed = c]
  PROVE  Holds(l, fr, body[l].failed, c, body[l].closed, body[l].popped, body[l].flushed)
<1>1. body \in [Streams -> Bodies]
  BY DEF Shape, Typed
<1>2. \A m \in Streams : m # l => body'[m] = body[m]
  BY <1>1
<1>3. body'[l] = [body[l] EXCEPT !.frames = fr, !.committed = c]
  BY <1>1
<1>4. PICK b \in Bodies : b = [body[l] EXCEPT !.frames = fr]
  BY <1>1 DEF Bodies
<1>5. body'[l] = [b EXCEPT !.committed = c]
  BY <1>1, <1>3, <1>4 DEF Bodies
<1>6. /\ body'[l].frames = fr /\ body'[l].failed = body[l].failed
      /\ body'[l].committed = c /\ body'[l].closed = body[l].closed
      /\ body'[l].popped = body[l].popped /\ body'[l].flushed = body[l].flushed
  BY <1>1, <1>4, <1>5 DEF Bodies
<1>7. body'[l] \in Bodies
  BY <1>4, <1>5, CommittedBody
<1>8. body' \in [Streams -> Bodies]
  BY <1>1, <1>2, <1>7
<1>. QED BY <1>2, <1>6, <1>7, <1>8 DEF Holds

LEMMA PopIs ==
  ASSUME Shape, NEW l \in Streams, NEW last \in BOOLEAN,
         body' = [body EXCEPT ![l].popped = @ + 1, ![l].closed = @ \/ last]
  PROVE  Holds(l, body[l].frames, body[l].failed, body[l].committed, body[l].closed \/ last,
               body[l].popped + 1, body[l].flushed)
<1>1. body \in [Streams -> Bodies]
  BY DEF Shape, Typed
<1>2. body[l].popped + 1 \in Nat /\ (body[l].closed \/ last) \in BOOLEAN
  BY <1>1 DEF Bodies
<1>. QED BY <1>1, <1>2 DEF Bodies, Holds

LEMMA FlushIs ==
  ASSUME Shape, NEW l \in Streams, body' = [body EXCEPT ![l].flushed = body[l].popped]
  PROVE  Holds(l, body[l].frames, body[l].failed, body[l].committed, body[l].closed,
               body[l].popped, body[l].popped)
<1>1. body \in [Streams -> Bodies]
  BY DEF Shape, Typed
<1>. QED BY <1>1 DEF Bodies, Holds

LEMMA CloseBodyIs ==
  ASSUME Shape, NEW l \in Streams, CloseBody(l)
  PROVE  /\ Cancels(l)
         /\ Holds(l, body[l].frames, body[l].failed, body[l].committed, TRUE, body[l].popped,
                  body[l].flushed)
<1>1. body \in [Streams -> Bodies]
  BY DEF Shape, Typed
<1>. QED BY <1>1, CancelIs DEF CloseBody, Bodies, Holds

LEMMA PlanIs ==
  ASSUME Shape, NEW a \in Owners, todo' = [todo EXCEPT ![a] = entries] PROVE Plans(a, entries)
BY DEF Shape, Typed, Plans, Sets

LEMMA JobOfEvent ==
  ASSUME NEW b \in Jobs, NEW e \in Frames PROVE [b EXCEPT !.event = e] \in Jobs
BY DEF Jobs

LEMMA NewEventIs ==
  ASSUME Shape, NEW a \in Actors, NEW e \in Frames, NEW n \in Nat,
         job' = [job EXCEPT ![a].count = n, ![a].event = e]
  PROVE  Works(a, job[a].on, e, job[a].sent, n)
<1>1. job \in [Actors -> Jobs]
  BY DEF Shape, Typed
<1>2. PICK b \in Jobs : b = [job[a] EXCEPT !.count = n]
  BY <1>1 DEF Jobs
<1>3. job'[a] = [b EXCEPT !.event = e] /\ \A c \in Actors : c # a => job'[c] = job[c]
  BY <1>1, <1>2 DEF Jobs
<1>4. /\ job'[a].on = job[a].on /\ job'[a].event = e /\ job'[a].sent = job[a].sent
      /\ job'[a].count = n
  BY <1>1, <1>2, <1>3 DEF Jobs
<1>5. job'[a] \in Jobs
  BY <1>2, <1>3, JobOfEvent
<1>6. job' \in [Actors -> Jobs]
  BY <1>1, <1>3, <1>5
<1>. QED BY <1>3, <1>4, <1>6 DEF Works

\* What a publisher publishes is an event.
LEMMA EventFrame ==
  ASSUME NEW p \in Publishers, NEW n \in Nat PROVE Frame("event", p, n) \in Queueable
BY DEF Frame, Queueable

-----------------------------------------------------------------------------
(***************************************************************************)
(* What every step does, one definition per action of the model: its       *)
(* guard, the components it updates and what it leaves alone.  Proofs      *)
(* about a step are made from these postconditions and never from the      *)
(* action itself.                                                          *)
(***************************************************************************)

ListenDoes(l) ==
  /\ pc[l] = "idle" /\ Moves(l, "check")
  /\ UNCHANGED <<scenario, entries, terminating, phase, opening, graceful, word, live,
                  receipt, body, gate, writer, job, todo, outcome, owed, admitted, faulted>>

CheckOpenDoes(l) ==
  /\ pc[l] = "check"
  /\ \/ Moves(l, "respond") /\ Answers(l, "error") /\ (IsCancelled(l) \/ ~live[l])
     \/ Moves(l, "respond") /\ Answers(l, "refused")
     \/ Moves(l, "reserve") /\ outcome' = outcome /\ ~IsCancelled(l) /\ live[l]
  /\ UNCHANGED <<scenario, entries, terminating, phase, opening, graceful, word, live,
                  receipt, body, gate, writer, job, todo, owed, admitted, faulted>>

ReserveDoes(l) ==
  /\ pc[l] = "reserve"
  /\ \/ Moves(l, "respond") /\ Answers(l, "refused") /\ UNCHANGED <<entries, phase>>
     \/ /\ ~terminating /\ ~(Cardinality(entries) >= MaxStreams)
        /\ entries' = entries \cup {l} /\ Elects(l, "Opening", 0)
        /\ Moves(l, "ack") /\ outcome' = outcome
  /\ UNCHANGED <<scenario, terminating, opening, graceful, word, live, receipt, body, gate,
                  writer, job, todo, owed, admitted, faulted>>

AcknowledgeDoes(l) ==
  /\ pc[l] = "ack"
  /\ \/ /\ Kind[l] = "local" /\ Panics(l) /\ Moves(l, "retract") /\ gate' = gate
     \/ /\ Sends(l, Plain("ack")) /\ Ready(l)
        /\ IF Kind[l] = "http" THEN Moves(l, "admit") /\ Gated(l, "stream")
                               ELSE Moves(l, "drain") /\ gate' = gate
     \/ /\ \/ Refuses(l) /\ ~Mute(l)
           \/ Drops(l) /\ Mute(l)
        /\ Kind[l] # "local" /\ Moves(l, "drain")
        /\ IF Kind[l] = "http" THEN Gated(l, "failed") ELSE gate' = gate
  /\ UNCHANGED <<scenario, entries, terminating, phase, opening, graceful, live, writer,
                  job, todo, outcome, owed, admitted>>

AdmitStreamDoes(l) ==
  /\ pc[l] = "admit" /\ Marked(l, ControlNotRequired(receipt[l])) /\ Moves(l, "drain")
  /\ UNCHANGED <<scenario, entries, terminating, phase, opening, graceful, word, live, body,
                  gate, writer, job, todo, outcome, owed, admitted, faulted>>

RetractEntryDoes(l) ==
  /\ pc[l] = "retract" /\ entries' = entries \ {l} /\ Moves(l, "retracted")
  /\ UNCHANGED <<scenario, terminating, phase, opening, graceful, word, live, receipt, body,
                  gate, writer, job, todo, outcome, owed, admitted, faulted>>

RetractElectionDoes(l) ==
  /\ pc[l] = "retracted"
  /\ \/ Elects(l, "PeerTerminated", 0)
     \/ phase' = phase /\ ~AtPhase(l, {"Opening", "OpeningDelivery", "Active", "Pending"})
  /\ Queues(l, <<>>) /\ FailsReceipt(l) /\ Cancels(l)
  /\ Answers(l, "error") /\ Moves(l, "respond")
  /\ UNCHANGED <<scenario, entries, terminating, graceful, live, body, gate, writer, job,
                  todo, owed, admitted, faulted>>

DrainDoes(l) ==
  /\ pc[l] = "drain"
  /\ \/ /\ phase[l].at = "Opening" /\ ~IsCancelled(l) /\ opening[l] # <<>>
        /\ Elects(l, "OpeningDelivery", 0) /\ Moves(l, "deliver")
        /\ Queues(l, Tail(opening[l]))
        /\ Works(l, job[l].on, Head(opening[l]), job[l].sent, job[l].count)
     \/ /\ phase[l].at = "Opening" /\ ~IsCancelled(l) /\ opening[l] = <<>>
        /\ Elects(l, "Active", 0) /\ Moves(l, "listen") /\ UNCHANGED <<opening, job>>
     \/ /\ phase[l] = [at |-> "Pending", n |-> 0] /\ ~IsCancelled(l)
        /\ Elects(l, "ServerTerminated", 0) /\ Moves(l, "control")
        /\ Queues(l, <<>>) /\ job' = job
     \/ /\ \/ IsCancelled(l)
           \/ phase[l] # [at |-> "Opening", n |-> 0] /\ phase[l] # [at |-> "Pending", n |-> 0]
        /\ Elects(l, "PeerTerminated", 0) /\ Moves(l, "abandon")
        /\ Queues(l, <<>>) /\ job' = job
  /\ UNCHANGED <<scenario, entries, terminating, graceful, word, live, receipt, body, gate,
                  writer, todo, outcome, owed, admitted, faulted>>

DeliverOpeningDoes(l) ==
  /\ pc[l] = "deliver" /\ Moves(l, "delivered")
  /\ \/ /\ \/ Sends(l, job[l].event) /\ Ready(l)
           \/ Refuses(l) /\ ~Mute(l) /\ Kind[l] # "local"
           \/ Drops(l) /\ Mute(l)
        /\ Works(l, job[l].on, job[l].event, TRUE, job[l].count)
     \/ /\ Panics(l) /\ Kind[l] = "local"
        /\ Works(l, job[l].on, job[l].event, FALSE, job[l].count)
  /\ UNCHANGED <<scenario, entries, terminating, phase, opening, graceful, live, gate,
                  writer, todo, outcome, owed, admitted>>

DeliveredOpeningDoes(l) ==
  /\ pc[l] = "delivered"
  /\ \/ /\ phase[l].at = "OpeningDelivery" /\ job[l].sent /\ ~IsCancelled(l)
        /\ Elects(l, "Opening", 0) /\ Moves(l, "drain") /\ opening' = opening
     \/ /\ phase[l] = [at |-> "Pending", n |-> 1] /\ job[l].sent /\ ~IsCancelled(l)
        /\ Elects(l, "ServerTerminated", 0) /\ Moves(l, "control") /\ opening' = opening
     \/ /\ \/ ~job[l].sent \/ IsCancelled(l)
           \/ phase[l].at # "OpeningDelivery" /\ phase[l] # [at |-> "Pending", n |-> 1]
        /\ Elects(l, "PeerTerminated", 0) /\ Moves(l, "abandon") /\ Queues(l, <<>>)
  /\ UNCHANGED <<scenario, entries, terminating, graceful, word, live, receipt, body, gate,
                  writer, job, todo, outcome, owed, admitted, faulted>>

AbandonDoes(l) ==
  /\ pc[l] = "abandon" /\ entries' = entries \ {l} /\ FailsReceipt(l) /\ Cancels(l)
  /\ Answers(l, "error") /\ Moves(l, "respond")
  /\ UNCHANGED <<scenario, terminating, phase, opening, graceful, live, body, gate, writer,
                  job, todo, owed, admitted, faulted>>

DropHandleDoes(l) ==
  /\ pc[l] = "listen" /\ Kind[l] = "local" /\ Moves(l, "drop") /\ Blames(l)
  /\ UNCHANGED <<scenario, entries, terminating, phase, opening, graceful, word, live,
                  receipt, body, gate, writer, job, todo, outcome, owed, admitted>>

ListenStartDoes(l) ==
  /\ pc[l] = "listen" /\ Kind[l] # "local"
  /\ \/ terminating /\ Moves(l, "settling")
     \/ ~terminating /\ Moves(l, "polled")
  /\ UNCHANGED <<scenario, entries, terminating, phase, opening, graceful, word, live,
                  receipt, body, gate, writer, job, todo, outcome, owed, admitted, faulted>>

ListenPollDoes(l) ==
  /\ pc[l] = "polled"
  /\ \/ (IsCancelled(l) \/ ~live[l]) /\ Moves(l, "exiting")
     \/ Moves(l, "parked")
  /\ UNCHANGED <<scenario, entries, terminating, phase, opening, graceful, word, live,
                  receipt, body, gate, writer, job, todo, outcome, owed, admitted, faulted>>

ListenParkedDoes(l) ==
  /\ pc[l] = "parked"
  /\ \/ (IsCancelled(l) \/ ~live[l]) /\ Moves(l, "exiting")
     \/ ~live[l] /\ Moves(l, "holding")
     \/ terminating /\ Moves(l, "settling")
  /\ UNCHANGED <<scenario, entries, terminating, phase, opening, graceful, word, live,
                  receipt, body, gate, writer, job, todo, outcome, owed, admitted, faulted>>

ListenHoldDoes(l) ==
  /\ pc[l] = "holding"
  /\ \/ /\ IsCancelled(l) /\ ~terminating /\ ~graceful[l]
        /\ Answers(l, "error") /\ Moves(l, "drop")
     \/ (terminating \/ IsCancelled(l)) /\ Moves(l, "settling") /\ outcome' = outcome
  /\ UNCHANGED <<scenario, entries, terminating, phase, opening, graceful, word, live,
                  receipt, body, gate, writer, job, todo, owed, admitted, faulted>>

ListenSettleDoes(l) ==
  /\ pc[l] = "settling" /\ Moves(l, "ending")
  /\ graceful[l] \/ phase[l].at = "PeerTerminated" \/ IsCancelled(l)
  /\ UNCHANGED <<scenario, entries, terminating, phase, opening, graceful, word, live,
                  receipt, body, gate, writer, job, todo, outcome, owed, admitted, faulted>>

ListenReturnDoes(l) ==
  /\ pc[l] \in {"exiting", "ending"} /\ Moves(l, "drop")
  /\ \/ graceful[l] /\ Answers(l, "complete") /\ receipt' = receipt
     \/ /\ ~graceful[l] /\ Answers(l, "error")
        /\ IF pc[l] = "exiting" THEN FailsReceipt(l) ELSE receipt' = receipt
  /\ UNCHANGED <<scenario, entries, terminating, phase, opening, graceful, word, live, body,
                  gate, writer, job, todo, owed, admitted, faulted>>

DropLeaseDoes(l) ==
  /\ pc[l] = "drop" /\ entries' = entries \ {l}
  /\ \/ l \in entries /\ Moves(l, "dropped")
     \/ l \notin entries /\ Moves(l, "respond")
  /\ UNCHANGED <<scenario, terminating, phase, opening, graceful, word, live, receipt, body,
                  gate, writer, job, todo, outcome, owed, admitted, faulted>>

DropElectionDoes(l) ==
  /\ pc[l] = "dropped" /\ Moves(l, "respond")
  /\ \/ AtPhase(l, Open4) /\ Elects(l, "PeerTerminated", 0) /\ Queues(l, <<>>)
     \/ ~AtPhase(l, Open4) /\ UNCHANGED <<phase, opening>>
  /\ UNCHANGED <<scenario, entries, terminating, graceful, word, live, receipt, body, gate,
                  writer, job, todo, outcome, owed, admitted, faulted>>

RespondStdioDoes(l) ==
  /\ pc[l] = "respond" /\ Kind[l] = "stdio" /\ Moves(l, "done")
  /\ IF outcome[l] = "complete" THEN word' = word ELSE Finalizes(l)
  /\ \/ /\ live[l] /\ faulted' = faulted
        /\ Holds(l, Append(body[l].frames, ResponseFrame(l)), body[l].failed, body[l].committed,
                 body[l].closed, body[l].popped, body[l].flushed)
     \/ body' = body /\ Blames(l)
  /\ UNCHANGED <<scenario, entries, terminating, phase, opening, graceful, live, receipt,
                  gate, writer, job, todo, outcome, owed, admitted>>

ReturnLocalDoes(l) ==
  /\ pc[l] = "respond" /\ Kind[l] = "local" /\ Moves(l, "done")
  /\ UNCHANGED <<scenario, entries, terminating, phase, opening, graceful, word, live,
                  receipt, body, gate, writer, job, todo, outcome, owed, admitted, faulted>>

RespondHttpDoes(l) ==
  /\ pc[l] = "respond" /\ Kind[l] = "http"
  /\ \/ /\ body[l].failed /\ FailsReceipt(l) /\ Gated(l, "failed") /\ Moves(l, "done")
        /\ UNCHANGED <<word, job>>
     \/ /\ ~body[l].failed /\ outcome[l] = "complete"
        /\ Marked(l, CompletionEnqueued(receipt[l])) /\ Moves(l, "commit")
        /\ UNCHANGED <<word, job, gate>>
     \/ /\ ~body[l].failed /\ outcome[l] # "complete" /\ ~IsCancelled(l)
        /\ Finalizes(l) /\ Moves(l, "commit") /\ UNCHANGED <<receipt, job, gate>>
     \/ /\ outcome[l] # "complete" /\ IsCancelled(l) /\ ~body[l].failed
        /\ FailsReceipt(l) /\ Moves(l, "elect")
        /\ Works(l, job[l].on, job[l].event, FALSE, job[l].count) /\ UNCHANGED <<word, gate>>
  /\ UNCHANGED <<scenario, entries, terminating, phase, opening, graceful, live, body,
                  writer, todo, outcome, owed, admitted, faulted>>

CommitResponseDoes(l) ==
  /\ pc[l] = "commit" /\ Moves(l, "elect")
  /\ \/ /\ ~body[l].closed /\ (live[l] \/ outcome[l] = "complete")
        /\ Holds(l, Append(body[l].frames, ResponseFrame(l)), body[l].failed, TRUE,
                 body[l].closed, body[l].popped, body[l].flushed)
        /\ Works(l, job[l].on, job[l].event, TRUE, job[l].count)
        /\ UNCHANGED <<receipt, word, faulted>>
     \/ /\ FailsReceipt(l) /\ Cancels(l) /\ Blames(l) /\ body' = body
        /\ Works(l, job[l].on, job[l].event, FALSE, job[l].count)
  /\ UNCHANGED <<scenario, entries, terminating, phase, opening, graceful, live, gate,
                  writer, todo, outcome, owed, admitted>>

ElectOutcomeDoes(l) ==
  /\ pc[l] = "elect" /\ Moves(l, "done")
  /\ Gated(l, IF job[l].sent THEN "stream" ELSE "failed")
  /\ UNCHANGED <<scenario, entries, terminating, phase, opening, graceful, word, live,
                  receipt, body, writer, job, todo, outcome, owed, admitted, faulted>>

SendControlDoes(a) ==
  /\ pc[a] = "control" /\ Moves(a, "decide") /\ job[a].on \in Streams
  /\ \/ /\ Kind[job[a].on] = "http" /\ UNCHANGED <<word, body, faulted, job>>
        /\ Marked(job[a].on, ControlNotRequired(receipt[job[a].on]))
     \/ /\ Kind[job[a].on] # "http"
        /\ \/ /\ \/ Sends(job[a].on, Plain("control")) /\ Ready(job[a].on)
                 \/ Refuses(job[a].on) /\ ~Mute(job[a].on) /\ Kind[job[a].on] # "local"
                 \/ Drops(job[a].on) /\ Mute(job[a].on)
              /\ Works(a, job[a].on, job[a].event, TRUE, job[a].count)
           \/ /\ Panics(job[a].on) /\ Kind[job[a].on] = "local"
              /\ Works(a, job[a].on, job[a].event, FALSE, job[a].count)
  /\ UNCHANGED <<scenario, entries, terminating, phase, opening, graceful, live, gate,
                  writer, todo, outcome, owed, admitted>>

DecideDoes(a) ==
  /\ pc[a] = "decide" /\ job[a].on \in Streams
  /\ \/ /\ \/ Kind[job[a].on] # "http" /\ ~job[a].sent
           \/ /\ IsCancelled(job[a].on)
              /\ ~(Kind[job[a].on] = "http" /\ Committed(receipt[job[a].on]))
        /\ FailsReceipt(job[a].on) /\ Cancels(job[a].on) /\ Moves(a, "unelect")
     \/ /\ Kind[job[a].on] = "http" \/ job[a].sent
        /\ \/ ~IsCancelled(job[a].on)
           \/ Kind[job[a].on] = "http" /\ Committed(receipt[job[a].on])
        /\ Moves(a, "graceful") /\ UNCHANGED <<receipt, word>>
  /\ UNCHANGED <<scenario, entries, terminating, phase, opening, graceful, live, body, gate,
                  writer, job, todo, outcome, owed, admitted, faulted>>

UnelectDoes(a) ==
  /\ pc[a] = "unelect" /\ job[a].on \in Streams /\ Elects(job[a].on, "PeerTerminated", 0)
  /\ \/ a \in Streams /\ Answers(a, "error") /\ Moves(a, "respond")
     \/ a \notin Streams /\ Moves(a, "next") /\ outcome' = outcome
  /\ UNCHANGED <<scenario, entries, terminating, opening, graceful, word, live, receipt,
                  body, gate, writer, job, todo, owed, admitted, faulted>>

MarkGracefulDoes(a) ==
  /\ pc[a] = "graceful" /\ job[a].on \in Streams /\ Graces(job[a].on) /\ Moves(a, "wake")
  /\ UNCHANGED <<scenario, entries, terminating, phase, opening, word, live, receipt, body,
                  gate, writer, job, todo, outcome, owed, admitted, faulted>>

WakeDoes(a) ==
  /\ pc[a] = "wake" /\ owed' \subseteq Streams /\ job[a].on \in Streams /\ Cancels(job[a].on)
  /\ \/ a \in Streams /\ Moves(a, "listen")
     \/ a \notin Streams /\ Moves(a, "next")
  /\ UNCHANGED <<scenario, entries, terminating, phase, opening, graceful, live, receipt,
                  body, gate, writer, job, todo, outcome, admitted, faulted>>

PublishDoes(p) ==
  /\ pc[p] = "next" /\ todo[p] = {} /\ Plans(p, entries)
  /\ Works(p, job[p].on, Frame("event", p, job[p].count + 1), job[p].sent, job[p].count + 1)
  /\ UNCHANGED <<scenario, entries, terminating, phase, opening, graceful, word, live,
                  receipt, body, gate, writer, pc, outcome, owed, admitted, faulted>>

QueueDoes(p, l) ==
  /\ pc[p] = "next" /\ l \in todo[p] /\ Plans(p, todo[p] \ {l})
  /\ AtPhase(l, {"Opening", "OpeningDelivery"})
  /\ \/ /\ IsCancelled(l) /\ Elects(l, "PeerTerminated", 0) /\ Queues(l, <<>>)
        /\ FailsReceipt(l) /\ UNCHANGED <<word, admitted, faulted>>
     \/ /\ ~IsCancelled(l) /\ Elects(l, "PeerTerminated", 0) /\ Queues(l, <<>>)
        /\ FailsReceipt(l) /\ Cancels(l) /\ Blames(l) /\ admitted' = admitted
     \/ /\ ~IsCancelled(l) /\ ~(Len(opening[l]) >= MaxOpening)
        /\ Queues(l, Append(opening[l], job[p].event)) /\ Admits(l, job[p].event)
        /\ UNCHANGED <<phase, receipt, word, faulted>>
  /\ UNCHANGED <<scenario, entries, terminating, graceful, live, body, gate, writer, pc,
                  job, outcome, owed>>

OfferDoes(p, l) ==
  /\ pc[p] = "next" /\ l \in todo[p] /\ Plans(p, todo[p] \ {l})
  /\ AtPhase(l, {"Active", "EventDelivery"})
  /\ \/ /\ phase[l].at = "Active" /\ IsCancelled(l) /\ Elects(l, "PeerTerminated", 0)
        /\ UNCHANGED <<pc, job>>
     \/ /\ Elects(l, "EventDelivery", phase[l].n + 1) /\ Moves(p, "deliver")
        /\ Works(p, l, job[p].event, job[p].sent, job[p].count)
  /\ UNCHANGED <<scenario, entries, terminating, opening, graceful, word, live, receipt,
                  body, gate, writer, outcome, owed, admitted, faulted>>

SkipDoes(p, l) ==
  /\ pc[p] = "next" /\ l \in todo[p] /\ Plans(p, todo[p] \ {l})
  /\ AtPhase(l, {"Pending", "PeerTerminated", "ServerTerminated"})
  /\ UNCHANGED <<scenario, entries, terminating, phase, opening, graceful, word, live,
                  receipt, body, gate, writer, pc, job, outcome, owed, admitted, faulted>>

DeliverEventDoes(p) ==
  /\ pc[p] = "deliver" /\ job[p].on \in Streams /\ Moves(p, "delivered")
  /\ \/ /\ \/ Sends(job[p].on, job[p].event) /\ Ready(job[p].on)
           \/ Refuses(job[p].on) /\ ~Mute(job[p].on) /\ Kind[job[p].on] # "local"
           \/ Drops(job[p].on) /\ Mute(job[p].on)
        /\ Works(p, job[p].on, job[p].event, TRUE, job[p].count)
     \/ /\ Panics(job[p].on) /\ Kind[job[p].on] = "local"
        /\ Works(p, job[p].on, job[p].event, FALSE, job[p].count)
  /\ UNCHANGED <<scenario, entries, terminating, phase, opening, graceful, live, gate,
                  writer, todo, outcome, owed, admitted>>

DeliveredEventDoes(p) ==
  /\ pc[p] = "delivered" /\ job[p].on \in Streams
  /\ \/ /\ job[p].sent /\ ~IsCancelled(job[p].on) /\ phase[job[p].on].at = "EventDelivery"
        /\ \/ phase[job[p].on].n = 1 /\ Elects(job[p].on, "Active", 0)
           \/ /\ phase[job[p].on].n # 1
              /\ Elects(job[p].on, "EventDelivery", phase[job[p].on].n - 1)
        /\ Moves(p, "next") /\ UNCHANGED <<opening, receipt, word>>
     \/ /\ job[p].sent /\ ~IsCancelled(job[p].on) /\ phase[job[p].on].at = "Pending"
        /\ phase[job[p].on].n > 1 /\ Elects(job[p].on, "Pending", phase[job[p].on].n - 1)
        /\ Moves(p, "next") /\ UNCHANGED <<opening, receipt, word>>
     \/ /\ job[p].sent /\ ~IsCancelled(job[p].on) /\ phase[job[p].on].at = "Pending"
        /\ phase[job[p].on].n = 1 /\ Elects(job[p].on, "ServerTerminated", 0)
        /\ Moves(p, "control") /\ UNCHANGED <<opening, receipt, word>>
     \/ /\ ~AtPhase(job[p].on, {"EventDelivery", "Pending"})
        /\ Moves(p, "next") /\ UNCHANGED <<phase, opening, receipt, word>>
     \/ /\ ~job[p].sent \/ IsCancelled(job[p].on)
           \/ (phase[job[p].on].at = "Pending" /\ phase[job[p].on].n = 0)
        /\ AtPhase(job[p].on, {"EventDelivery", "Pending"})
        /\ Elects(job[p].on, "PeerTerminated", 0) /\ Queues(job[p].on, <<>>)
        /\ FailsReceipt(job[p].on) /\ Cancels(job[p].on) /\ Moves(p, "next")
  /\ UNCHANGED <<scenario, entries, terminating, graceful, live, body, gate, writer, job,
                  todo, outcome, owed, admitted, faulted>>

TerminateDoes ==
  /\ pc[Server] = "idle" /\ Moves(Server, "take") /\ terminating'
  /\ UNCHANGED <<scenario, entries, phase, opening, graceful, word, live, receipt, body,
                  gate, writer, job, todo, outcome, owed, admitted, faulted>>

TakeEntriesDoes ==
  /\ pc[Server] = "take" /\ Moves(Server, "next") /\ entries' = {}
  /\ Plans(Server, entries)
  /\ UNCHANGED <<scenario, terminating, phase, opening, graceful, word, live, receipt, body,
                  gate, writer, job, outcome, owed, admitted, faulted>>

TerminateEntryDoes(l) ==
  /\ owed' \subseteq Streams
  /\ pc[Server] = "next" /\ l \in todo[Server] /\ Plans(Server, todo[Server] \ {l})
  /\ Works(Server, l, job[Server].event, job[Server].sent, job[Server].count)
  /\ \/ /\ IsCancelled(l) /\ AtPhase(l, Open4) /\ Elects(l, "PeerTerminated", 0)
        /\ IF AtPhase(l, {"Opening", "OpeningDelivery"}) THEN Queues(l, <<>>)
                                                         ELSE opening' = opening
        /\ FailsReceipt(l) \/ receipt' = receipt
        /\ UNCHANGED <<pc, owed>>
     \/ /\ ~IsCancelled(l) /\ AtPhase(l, {"Opening", "OpeningDelivery"})
        /\ Elects(l, "Pending", IF phase[l].at = "Opening" THEN 0 ELSE 1)
        /\ Queues(l, <<>>) /\ UNCHANGED <<pc, receipt>>
     \/ /\ ~IsCancelled(l) /\ phase[l].at = "Active" /\ Elects(l, "ServerTerminated", 0)
        /\ Moves(Server, "control") /\ UNCHANGED <<opening, receipt, owed>>
     \/ /\ ~IsCancelled(l) /\ phase[l].at = "EventDelivery"
        /\ Elects(l, "Pending", phase[l].n) /\ UNCHANGED <<pc, opening, receipt>>
     \/ ~AtPhase(l, Open4) /\ UNCHANGED <<phase, pc, opening, receipt, owed>>
  /\ UNCHANGED <<scenario, entries, terminating, graceful, word, live, body, gate, writer,
                  outcome, admitted, faulted>>

DrainReceiptsDoes ==
  /\ pc[Server] = "next" /\ todo[Server] = {} /\ Moves(Server, "done")
  /\ faulted \subseteq faulted' /\ faulted' \subseteq Streams
  /\ receipt' \in [Streams -> Receipts]
  /\ \A l \in Streams :
       \/ receipt'[l] = receipt[l]
       \/ ~Settled(receipt[l]) /\ l \in owed /\ l \in faulted' /\ receipt'[l] = Failed(receipt[l])
  /\ UNCHANGED <<scenario, entries, terminating, phase, opening, graceful, word, live, body,
                  gate, writer, job, todo, outcome, owed, admitted>>

WriterAwaitDoes(l) ==
  /\ writer[l] = "await"
  /\ \/ gate[l] = "stream" /\ Writes(l, "head")
     \/ gate[l] = "failed" /\ Writes(l, "error")
     \/ IsCancelled(l) /\ Writes(l, "error")
  /\ UNCHANGED <<scenario, entries, terminating, phase, opening, graceful, word, live,
                  receipt, body, gate, pc, job, todo, outcome, owed, admitted, faulted>>

WriterHeadDoes(l) ==
  /\ writer[l] = "head" /\ Writes(l, "stream")
  /\ UNCHANGED <<scenario, entries, terminating, phase, opening, graceful, word, live,
                  receipt, body, gate, pc, job, todo, outcome, owed, admitted, faulted>>

WriterPopDoes(l) ==
  /\ writer[l] = "stream" /\ body[l].popped < Len(body[l].frames) /\ Writes(l, "write")
  /\ \/ /\ IsResponse(NextFrame(l)) /\ Cancels(l)
        /\ Holds(l, body[l].frames, body[l].failed, body[l].committed, TRUE, body[l].popped + 1,
                 body[l].flushed)
     \/ /\ ~IsResponse(NextFrame(l)) /\ word' = word
        /\ Holds(l, body[l].frames, body[l].failed, body[l].committed, body[l].closed,
                 body[l].popped + 1, body[l].flushed)
  /\ UNCHANGED <<scenario, entries, terminating, phase, opening, graceful, live, receipt,
                  gate, pc, job, todo, outcome, owed, admitted, faulted>>

WriterIdleDoes(l) ==
  /\ writer[l] = "stream"
  /\ \/ Settled(receipt[l]) /\ Writes(l, "error") /\ receipt' = receipt
     \/ body[l].closed /\ Writes(l, "trailer") /\ receipt' = receipt
     \/ (IsCancelled(l) \/ ~live[l]) /\ FailsReceipt(l) /\ Writes(l, "trailer")
  /\ UNCHANGED <<scenario, entries, terminating, phase, opening, graceful, word, live, body,
                  gate, pc, job, todo, outcome, owed, admitted, faulted>>

WriterFlushDoes(l) ==
  /\ writer[l] = "write"
  /\ Holds(l, body[l].frames, body[l].failed, body[l].committed, body[l].closed, body[l].popped,
           body[l].popped)
  /\ Marked(l, IF IsResponse(body[l].frames[body[l].popped]) THEN CompletionDrained(receipt[l])
                                                             ELSE receipt[l])
  /\ \/ Writes(l, "trailer") /\ Settled(receipt'[l])
     \/ Writes(l, "stream")
  /\ UNCHANGED <<scenario, entries, terminating, phase, opening, graceful, word, live, gate,
                  pc, job, todo, outcome, owed, admitted, faulted>>

WriterBreaksDoes(l) ==
  /\ writer[l] \in {"head", "write", "trailer"} /\ Writes(l, "error")
  /\ Blames(l)
  /\ UNCHANGED <<scenario, entries, terminating, phase, opening, graceful, word, live,
                  receipt, body, gate, pc, job, todo, outcome, owed, admitted>>

WriterTrailerDoes(l) ==
  /\ writer[l] = "trailer" /\ Writes(l, "done") /\ Cancels(l)
  /\ FailsReceipt(l) \/ receipt' = receipt
  /\ Holds(l, body[l].frames, body[l].failed, body[l].committed, TRUE, body[l].popped,
           body[l].flushed)
  /\ UNCHANGED <<scenario, entries, terminating, phase, opening, graceful, live, gate, pc,
                  job, todo, outcome, owed, admitted, faulted>>

WriterFailsDoes(l) ==
  /\ writer[l] = "error" /\ entries' = entries \ {l} /\ FailsReceipt(l)
  /\ \/ l \in entries /\ Writes(l, "revoke")
     \/ l \notin entries /\ Writes(l, "abort")
  /\ UNCHANGED <<scenario, terminating, phase, opening, graceful, word, live, body, gate,
                  pc, job, todo, outcome, owed, admitted, faulted>>

CancelModernHttpOwnerDoes(l) ==
  /\ writer[l] = "revoke" /\ Writes(l, "abort")
  /\ \/ AtPhase(l, Open4) /\ Elects(l, "PeerTerminated", 0) /\ Queues(l, <<>>) /\ Cancels(l)
     \/ ~AtPhase(l, Open4) /\ UNCHANGED <<phase, opening, word>>
  /\ UNCHANGED <<scenario, entries, terminating, graceful, live, receipt, body, gate, pc,
                  job, todo, outcome, owed, admitted, faulted>>

WriterAbortsDoes(l) ==
  /\ writer[l] = "abort" /\ Writes(l, "done") /\ Cancels(l) /\ Dies(l)
  /\ Holds(l, body[l].frames, body[l].failed, body[l].committed, TRUE, body[l].popped,
           body[l].flushed)
  /\ UNCHANGED <<scenario, entries, terminating, phase, opening, graceful, receipt, gate,
                  pc, job, todo, outcome, owed, admitted, faulted>>

PeerCancelsDoes(l) ==
  /\ pc[l] \notin {"idle", "done"} /\ Kind[l] = "stdio" /\ Cancels(l) /\ Blames(l)
  /\ UNCHANGED <<scenario, entries, terminating, phase, opening, graceful, live, receipt,
                  body, gate, writer, pc, job, todo, outcome, owed, admitted>>

ContextDiesDoes(l) ==
  /\ pc[l] \notin {"idle", "done"} /\ Kind[l] # "local" /\ Dies(l) /\ Blames(l)
  /\ UNCHANGED <<scenario, entries, terminating, phase, opening, graceful, word, receipt,
                  body, gate, writer, pc, job, todo, outcome, owed, admitted>>

-----------------------------------------------------------------------------
(***************************************************************************)
(* Every action does what its postcondition says, and keeps the types.     *)
(***************************************************************************)

LEMMA ListenEffect ==
  ASSUME Shape, NEW l \in Streams, Listen(l) PROVE Typed' /\ ListenDoes(l)
<1>1. UNCHANGED <<scenario, entries, terminating, phase, opening, graceful, word, live,
                  receipt, body, gate, writer, job, todo, outcome, owed, admitted, faulted>>
  BY DEF Listen, registry, election, request, transport, history
<1>. USE <1>1 DEF ListenDoes
<1>2. ListenDoes(l)
  BY GotoIs, LabelNames DEF Listen, Opened, Actors, Opener, Completing, Waits, Leaving
<1>3. Typed'
  BY <1>2 DEF Shape, Typed, Moves, Sets
<1>. QED BY <1>2, <1>3

LEMMA CheckOpenEffect ==
  ASSUME Shape, NEW l \in Streams, CheckOpen(l) PROVE Typed' /\ CheckOpenDoes(l)
<1>1. UNCHANGED <<scenario, entries, terminating, phase, opening, graceful, word, live,
                  receipt, body, gate, writer, job, todo, owed, admitted, faulted>>
  BY DEF CheckOpen, registry, election, request, transport, history
<1>. USE <1>1 DEF CheckOpenDoes
<1>2. CheckOpenDoes(l)
  BY GotoIs, LabelNames, ReturnIs DEF CheckOpen, IsCancelled, Actors, Opener, Completing,
     Waits, Leaving, Results
<1>3. Typed'
  BY <1>2 DEF Shape, Typed, Moves, Sets, Answers
<1>. QED BY <1>2, <1>3

LEMMA ReserveEffect ==
  ASSUME Shape, NEW l \in Streams, Reserve(l) PROVE Typed' /\ ReserveDoes(l)
<1>1. UNCHANGED <<scenario, terminating, opening, graceful, word, live, receipt, body, gate,
                  writer, job, todo, owed, admitted, faulted>>
  BY DEF Reserve, registry, election, request, transport, history
<1>. USE <1>1 DEF ReserveDoes
<1>2. ReserveDoes(l)
  BY GotoIs, LabelNames, ReturnIs, ElectedIs DEF Reserve, Actors, Opener, Completing, Waits,
     Leaving, PhaseNames, Results
<1>3. Typed'
  BY <1>2 DEF Shape, Typed, Elects, Sets, Moves, Answers
<1>. QED BY <1>2, <1>3

LEMMA AcknowledgeEffect ==
  ASSUME Shape, NEW l \in Streams, Acknowledge(l) PROVE Typed' /\ AcknowledgeDoes(l)
<1>1. UNCHANGED <<scenario, entries, terminating, phase, opening, graceful, live, writer,
                  job, todo, outcome, owed, admitted>>
  BY DEF Acknowledge, registry, election, request, transport, history
<1>. USE <1>1 DEF AcknowledgeDoes
<1>2. AcknowledgeDoes(l)
  <2>1. PICK o \in Outcomes(l) :
          /\ Transmit(l, Plain("ack"), o)
          /\ Goto(l, CASE o = "panic" -> "retract"
                       [] o = "sent" /\ Kind[l] = "http" -> "admit"
                       [] OTHER -> "drain")
          /\ CASE Kind[l] = "http" /\ o = "sent" -> Elect(l, "stream")
               [] Kind[l] = "http" /\ o # "sent" -> Elect(l, "failed")
               [] OTHER -> UNCHANGED gate
    BY DEF Acknowledge
  <2>2. Plain("ack") \in Frames /\ l \in Actors /\ pc[l] = "ack"
    BY PlainIs DEF Kinds, Actors, Acknowledge
  <2>3. CASE o = "sent"
    <3>1. Sends(l, Plain("ack")) /\ Ready(l)
      BY <2>1, <2>2, <2>3, TransmitIs, OutcomesAre
    <3>2. CASE Kind[l] = "http"
      BY <2>1, <2>2, <2>3, <3>1, <3>2, GotoIs, LabelNames, ElectIs DEF Opener, Gates
    <3>3. CASE Kind[l] # "http"
      BY <2>1, <2>2, <2>3, <3>1, <3>3, GotoIs, LabelNames DEF Opener
    <3>. QED BY <3>2, <3>3
  <2>4. CASE o = "refused"
    BY <2>1, <2>2, <2>4, TransmitIs, OutcomesAre, GotoIs, LabelNames, ElectIs DEF Opener, Gates
  <2>5. CASE o = "dropped"
    BY <2>1, <2>2, <2>5, TransmitIs, OutcomesAre, GotoIs, LabelNames, ElectIs
       DEF Opener, Gates, Mute
  <2>6. CASE o = "panic"
    BY <2>1, <2>2, <2>6, TransmitIs, OutcomesAre, GotoIs, LabelNames DEF Opener
  <2>. QED BY <2>3, <2>4, <2>5, <2>6, OutcomesAre
<1>3. Typed'
  BY <1>2 DEF Shape, Typed, Sets, Gated, Moves, Sends, Drops, Panics, Refuses, Holds,
     Cancels, FailsReceipt, Marked, Blames
<1>. QED BY <1>2, <1>3

LEMMA AdmitStreamEffect ==
  ASSUME Shape, NEW l \in Streams, AdmitStream(l) PROVE Typed' /\ AdmitStreamDoes(l)
<1>1. UNCHANGED <<scenario, entries, terminating, phase, opening, graceful, word, live,
                  body, gate, writer, job, todo, outcome, owed, admitted, faulted>>
  BY DEF AdmitStream, registry, election, request, transport, history
<1>. USE <1>1 DEF AdmitStreamDoes
<1>2. AdmitStreamDoes(l)
  BY GotoIs, LabelNames, MarkIs, ReceiptsMove
     DEF AdmitStream, Actors, Opener, Shape, Typed
<1>3. Typed'
  BY <1>2 DEF Shape, Typed, Marked, Sets, Moves
<1>. QED BY <1>2, <1>3

LEMMA RetractEntryEffect ==
  ASSUME Shape, NEW l \in Streams, RetractEntry(l) PROVE Typed' /\ RetractEntryDoes(l)
<1>1. UNCHANGED <<scenario, terminating, phase, opening, graceful, word, live, receipt,
                  body, gate, writer, job, todo, outcome, owed, admitted, faulted>>
  BY DEF RetractEntry, registry, election, request, transport, history
<1>. USE <1>1 DEF RetractEntryDoes
<1>2. RetractEntryDoes(l)
  BY GotoIs, LabelNames DEF RetractEntry, Actors, Opener, Completing, Waits, Leaving
<1>3. Typed'
  BY <1>2 DEF Shape, Typed, Moves, Sets
<1>. QED BY <1>2, <1>3

LEMMA RetractElectionEffect ==
  ASSUME Shape, NEW l \in Streams, RetractElection(l) PROVE Typed' /\ RetractElectionDoes(l)
<1>1. UNCHANGED <<scenario, entries, terminating, graceful, live, body, gate, writer, job,
                  todo, owed, admitted, faulted>>
  BY DEF RetractElection, registry, election, request, transport, history
<1>. USE <1>1 DEF RetractElectionDoes
<1>2. RetractElectionDoes(l)
  BY ElectedIs, ClearIs, FailReceiptIs, CancelIs, ReturnIs, LabelNames, GotoIs DEF
     RetractElection, AtPhase, Actors, Opener, Completing, Waits, Leaving, PhaseNames,
     Results
<1>3. Typed'
  BY <1>2 DEF Shape, Typed, Elects, Sets, Queues, Cancels, FailsReceipt, Moves, Answers,
     Marked
<1>. QED BY <1>2, <1>3

LEMMA DrainEffect ==
  ASSUME Shape, NEW l \in Streams, Drain(l) PROVE Typed' /\ DrainDoes(l)
<1>1. UNCHANGED <<scenario, entries, terminating, graceful, word, live, receipt, body, gate,
                  writer, todo, outcome, owed, admitted, faulted>>
  BY DEF Drain, registry, election, request, transport, history
<1>. USE <1>1 DEF DrainDoes
<1>2. DrainDoes(l)
  <2>1. pc[l] = "drain" /\ l \in Actors /\ phase[l] \in Phases /\ opening[l] \in Seq(Queueable)
    BY DEF Drain, Actors, Shape, Typed
  <2>2. CASE phase[l] = Phase("Opening", 0) /\ ~IsCancelled(l) /\ opening[l] # <<>>
    <3>1. Head(opening[l]) \in Frames /\ Tail(opening[l]) \in Seq(Queueable)
      BY <2>1, <2>2, QueueableIs
    <3>2. /\ Elected(l, "OpeningDelivery", 0) /\ Goto(l, "deliver")
          /\ job' = [job EXCEPT ![l].event = Head(opening[l])]
          /\ opening' = [opening EXCEPT ![l] = Tail(@)]
      BY <2>2 DEF Drain, Phase, IsCancelled
    <3>3. Queues(l, Tail(opening[l]))
      BY <3>1, <3>2 DEF Queues, Sets, Shape, Typed
    <3>4. Works(l, job[l].on, Head(opening[l]), job[l].sent, job[l].count)
      BY <2>1, <3>1, <3>2, EventIs
    <3>. QED BY <2>1, <2>2, <3>2, <3>3, <3>4, ElectedIs, GotoIs, LabelNames
             DEF Phase, PhaseNames, Opener
  <2>3. CASE phase[l] = Phase("Opening", 0) /\ ~IsCancelled(l) /\ opening[l] = <<>>
    BY <2>1, <2>3, ElectedIs, GotoIs, LabelNames DEF Drain, Phase, PhaseNames, Waits
  <2>4. CASE phase[l] = Phase("Pending", 0) /\ ~IsCancelled(l)
    BY <2>1, <2>4, ElectedIs, GotoIs, ClearIs, LabelNames DEF Drain, Phase, PhaseNames, Completing
  <2>5. CASE \/ IsCancelled(l)
             \/ phase[l] # Phase("Opening", 0) /\ phase[l] # Phase("Pending", 0)
    BY <2>1, <2>5, ElectedIs, GotoIs, ClearIs, LabelNames
       DEF Drain, Overrule, Phase, PhaseNames, Opener
  <2>. QED BY <2>2, <2>3, <2>4, <2>5
<1>3. Typed'
  BY <1>2 DEF Shape, Typed, Elects, Sets, Queues, Moves, Works
<1>. QED BY <1>2, <1>3

LEMMA DeliverOpeningEffect ==
  ASSUME Shape, NEW l \in Streams, DeliverOpening(l) PROVE Typed' /\ DeliverOpeningDoes(l)
<1>1. UNCHANGED <<scenario, entries, terminating, phase, opening, graceful, live, gate,
                  writer, todo, outcome, owed, admitted>>
  BY DEF DeliverOpening, registry, election, request, transport, history
<1>. USE <1>1 DEF DeliverOpeningDoes
<1>2. DeliverOpeningDoes(l)
  <2>1. l \in Actors /\ pc[l] = "deliver" /\ Goto(l, "delivered")
    BY DEF DeliverOpening, Actors
  <2>2. l \in Streams /\ job[l].event \in Frames
    BY <2>1, OnAStream, PlainIs, QueueableIs DEF InSender, Completing, Kinds, Shape, Placed, Aimed, Carrying, Positive
  <2>3. Moves(l, "delivered")
    BY <2>1, GotoIs, LabelNames DEF Opener, Completing
  <2>5. PICK o \in Outcomes(l) :
          /\ Transmit(l, job[l].event, o)
          /\ job' = [job EXCEPT ![l].sent = (o # "panic")]
    BY DEF DeliverOpening
  <2>6. Works(l, job[l].on, job[l].event, o # "panic", job[l].count)
    BY <2>1, <2>5, SentIs
  <2>7. CASE o = "panic"
    <3>1. Panics(l) /\ Kind[l] = "local"
      BY <2>2, <2>5, <2>7, TransmitIs, OutcomesAre
    <3>. QED BY <2>1, <2>2, <2>3, <2>6, <2>7, <3>1
  <2>8. CASE o # "panic"
    <3>1. \/ Sends(l, job[l].event) /\ Ready(l)
          \/ Refuses(l) /\ ~Mute(l) /\ Kind[l] # "local"
          \/ Drops(l) /\ Mute(l)
      <4>1. o \in Outcomes(l) /\ o \in {"sent", "refused", "dropped", "panic"}
        BY <2>2, <2>5, OutcomesAre
      <4>2. CASE o = "sent"
        BY <2>2, <2>5, <4>2, TransmitIs, OutcomesAre
      <4>3. CASE o = "refused"
        BY <2>2, <2>5, <4>3, TransmitIs, OutcomesAre
      <4>4. CASE o = "dropped"
        BY <2>2, <2>5, <4>4, TransmitIs, OutcomesAre
      <4>. QED BY <2>8, <4>1, <4>2, <4>3, <4>4
    <3>. QED BY <2>1, <2>2, <2>3, <2>6, <2>8, <3>1
  <2>. QED BY <2>7, <2>8
<1>3. Typed'
  BY <1>2 DEF Shape, Typed, Sets, Moves, Works, Sends, Drops, Panics, Refuses, Holds,
     Cancels, FailsReceipt, Marked, Blames
<1>. QED BY <1>2, <1>3

LEMMA DeliveredOpeningEffect ==
  ASSUME Shape, NEW l \in Streams, DeliveredOpening(l) PROVE Typed' /\ DeliveredOpeningDoes(l)
<1>1. UNCHANGED <<scenario, entries, terminating, graceful, word, live, receipt, body, gate,
                  writer, job, todo, outcome, owed, admitted, faulted>>
  BY DEF DeliveredOpening, registry, election, request, transport, history
<1>. USE <1>1 DEF DeliveredOpeningDoes
<1>2. DeliveredOpeningDoes(l)
  <2>1. pc[l] = "delivered" /\ l \in Actors /\ phase[l] \in Phases
    BY DEF DeliveredOpening, Actors, Shape, Typed
  <2>2. CASE job[l].sent /\ ~IsCancelled(l) /\ phase[l].at = "OpeningDelivery"
    BY <2>1, <2>2, ElectedIs, GotoIs, LabelNames
       DEF DeliveredOpening, AtPhase, Phase, PhaseNames, Opener
  <2>3. CASE job[l].sent /\ ~IsCancelled(l) /\ phase[l] = Phase("Pending", 1)
    BY <2>1, <2>3, ElectedIs, GotoIs, LabelNames
       DEF DeliveredOpening, AtPhase, Phase, PhaseNames, Completing
  <2>4. CASE \/ ~job[l].sent \/ IsCancelled(l)
             \/ phase[l].at # "OpeningDelivery" /\ phase[l] # Phase("Pending", 1)
    BY <2>1, <2>4, ElectedIs, GotoIs, ClearIs, LabelNames
       DEF DeliveredOpening, AtPhase, Overrule, Phase, PhaseNames, Opener
  <2>. QED BY <2>2, <2>3, <2>4
<1>3. Typed'
  BY <1>2 DEF Shape, Typed, Elects, Sets, Queues, Moves
<1>. QED BY <1>2, <1>3

LEMMA AbandonEffect ==
  ASSUME Shape, NEW l \in Streams, Abandon(l) PROVE Typed' /\ AbandonDoes(l)
<1>1. UNCHANGED <<scenario, terminating, phase, opening, graceful, live, body, gate, writer,
                  job, todo, owed, admitted, faulted>>
  BY DEF Abandon, registry, election, request, transport, history
<1>. USE <1>1 DEF AbandonDoes
<1>2. AbandonDoes(l)
  BY FailReceiptIs, CancelIs, ReturnIs, LabelNames, GotoIs DEF Abandon, Actors, Opener,
     Completing, Waits, Leaving, Results
<1>3. Typed'
  BY <1>2 DEF Shape, Typed, Cancels, Sets, FailsReceipt, Moves, Answers, Marked
<1>. QED BY <1>2, <1>3

LEMMA DropHandleEffect ==
  ASSUME Shape, NEW l \in Streams, DropHandle(l) PROVE Typed' /\ DropHandleDoes(l)
<1>1. UNCHANGED <<scenario, entries, terminating, phase, opening, graceful, word, live,
                  receipt, body, gate, writer, job, todo, outcome, owed, admitted>>
  BY DEF DropHandle, registry, election, request, transport, history
<1>. USE <1>1 DEF DropHandleDoes
<1>2. DropHandleDoes(l)
  BY GotoIs, LabelNames DEF DropHandle, Fault, Actors, Opener, Completing, Waits, Leaving,
     Blames
<1>3. Typed'
  BY <1>2 DEF Shape, Typed, Moves, Sets, Blames
<1>. QED BY <1>2, <1>3

LEMMA ListenStartEffect ==
  ASSUME Shape, NEW l \in Streams, ListenStart(l) PROVE Typed' /\ ListenStartDoes(l)
<1>1. UNCHANGED <<scenario, entries, terminating, phase, opening, graceful, word, live,
                  receipt, body, gate, writer, job, todo, outcome, owed, admitted, faulted>>
  BY DEF ListenStart, registry, election, request, transport, history
<1>. USE <1>1 DEF ListenStartDoes
<1>2. ListenStartDoes(l)
  BY GotoIs, LabelNames DEF ListenStart, Actors, Opener, Completing, Waits, Leaving
<1>3. Typed'
  BY <1>2 DEF Shape, Typed, Moves, Sets
<1>. QED BY <1>2, <1>3

LEMMA ListenPollEffect ==
  ASSUME Shape, NEW l \in Streams, ListenPoll(l) PROVE Typed' /\ ListenPollDoes(l)
<1>1. UNCHANGED <<scenario, entries, terminating, phase, opening, graceful, word, live,
                  receipt, body, gate, writer, job, todo, outcome, owed, admitted, faulted>>
  BY DEF ListenPoll, registry, election, request, transport, history
<1>. USE <1>1 DEF ListenPollDoes
<1>2. ListenPollDoes(l)
  BY GotoIs, LabelNames DEF ListenPoll, IsCancelled, Actors, Opener, Completing, Waits,
     Leaving
<1>3. Typed'
  BY <1>2 DEF Shape, Typed, Moves, Sets
<1>. QED BY <1>2, <1>3

LEMMA ListenParkedEffect ==
  ASSUME Shape, NEW l \in Streams, ListenParked(l) PROVE Typed' /\ ListenParkedDoes(l)
<1>1. UNCHANGED <<scenario, entries, terminating, phase, opening, graceful, word, live,
                  receipt, body, gate, writer, job, todo, outcome, owed, admitted, faulted>>
  BY DEF ListenParked, registry, election, request, transport, history
<1>. USE <1>1 DEF ListenParkedDoes
<1>2. ListenParkedDoes(l)
  BY GotoIs, LabelNames DEF ListenParked, IsCancelled, Actors, Opener, Completing, Waits,
     Leaving
<1>3. Typed'
  BY <1>2 DEF Shape, Typed, Moves, Sets
<1>. QED BY <1>2, <1>3

LEMMA ListenHoldEffect ==
  ASSUME Shape, NEW l \in Streams, ListenHold(l) PROVE Typed' /\ ListenHoldDoes(l)
<1>1. UNCHANGED <<scenario, entries, terminating, phase, opening, graceful, word, live,
                  receipt, body, gate, writer, job, todo, owed, admitted, faulted>>
  BY DEF ListenHold, registry, election, request, transport, history
<1>. USE <1>1 DEF ListenHoldDoes
<1>2. ListenHoldDoes(l)
  BY GotoIs, LabelNames, ReturnIs DEF ListenHold, IsCancelled, Actors, Opener, Completing,
     Waits, Leaving, Results
<1>3. Typed'
  BY <1>2 DEF Shape, Typed, Moves, Sets, Answers
<1>. QED BY <1>2, <1>3

LEMMA ListenSettleEffect ==
  ASSUME Shape, NEW l \in Streams, ListenSettle(l) PROVE Typed' /\ ListenSettleDoes(l)
<1>1. UNCHANGED <<scenario, entries, terminating, phase, opening, graceful, word, live,
                  receipt, body, gate, writer, job, todo, outcome, owed, admitted, faulted>>
  BY DEF ListenSettle, registry, election, request, transport, history
<1>. USE <1>1 DEF ListenSettleDoes
<1>2. ListenSettleDoes(l)
  BY GotoIs, LabelNames DEF ListenSettle, IsCancelled, AtPhase, Actors, Opener, Completing,
     Waits, Leaving
<1>3. Typed'
  BY <1>2 DEF Shape, Typed, Moves, Sets
<1>. QED BY <1>2, <1>3

LEMMA ListenReturnEffect ==
  ASSUME Shape, NEW l \in Streams, ListenReturn(l) PROVE Typed' /\ ListenReturnDoes(l)
<1>1. UNCHANGED <<scenario, entries, terminating, phase, opening, graceful, word, live,
                  body, gate, writer, job, todo, owed, admitted, faulted>>
  BY DEF ListenReturn, registry, election, request, transport, history
<1>. USE <1>1 DEF ListenReturnDoes
<1>2. ListenReturnDoes(l)
  BY ReturnIs, LabelNames, GotoIs, FailReceiptIs DEF ListenReturn, Actors, Opener,
     Completing, Waits, Leaving, Results
<1>3. Typed'
  BY <1>2 DEF Shape, Typed, FailsReceipt, Sets, Moves, Answers, Marked
<1>. QED BY <1>2, <1>3

LEMMA DropLeaseEffect ==
  ASSUME Shape, NEW l \in Streams, DropLease(l) PROVE Typed' /\ DropLeaseDoes(l)
<1>1. UNCHANGED <<scenario, terminating, phase, opening, graceful, word, live, receipt,
                  body, gate, writer, job, todo, outcome, owed, admitted, faulted>>
  BY DEF DropLease, registry, election, request, transport, history
<1>. USE <1>1 DEF DropLeaseDoes
<1>2. DropLeaseDoes(l)
  BY GotoIs, LabelNames DEF DropLease, Actors, Opener, Completing, Waits, Leaving
<1>3. Typed'
  BY <1>2 DEF Shape, Typed, Moves, Sets
<1>. QED BY <1>2, <1>3

LEMMA DropElectionEffect ==
  ASSUME Shape, NEW l \in Streams, DropElection(l) PROVE Typed' /\ DropElectionDoes(l)
<1>1. UNCHANGED <<scenario, entries, terminating, graceful, word, live, receipt, body, gate,
                  writer, job, todo, outcome, owed, admitted, faulted>>
  BY DEF DropElection, registry, election, request, transport, history
<1>. USE <1>1 DEF DropElectionDoes
<1>2. DropElectionDoes(l)
  BY ElectedIs, ClearIs, GotoIs, LabelNames DEF DropElection, PeerEnds, AtPhase, Actors,
     Opener, Completing, Waits, Leaving, PhaseNames
<1>3. Typed'
  BY <1>2 DEF Shape, Typed, Elects, Sets, Queues, Moves
<1>. QED BY <1>2, <1>3

LEMMA RespondStdioEffect ==
  ASSUME Shape, NEW l \in Streams, RespondStdio(l) PROVE Typed' /\ RespondStdioDoes(l)
<1>1. UNCHANGED <<scenario, entries, terminating, phase, opening, graceful, live, receipt,
                  gate, writer, job, todo, outcome, owed, admitted>>
  BY DEF RespondStdio, registry, election, request, transport, history
<1>. USE <1>1 DEF RespondStdioDoes
<1>2. RespondStdioDoes(l)
  <2>1. pc[l] = "respond" /\ Kind[l] = "stdio" /\ Moves(l, "done")
    BY GotoIs, LabelNames DEF RespondStdio, Actors, Leaving
  <2>2. IF outcome[l] = "complete" THEN word' = word ELSE Finalizes(l)
    BY FinalizeIs DEF RespondStdio
  <2>3. CASE /\ live[l] /\ UNCHANGED faulted
             /\ body' = [body EXCEPT ![l].frames = Append(@, ResponseFrame(l))]
    <3>1. Append(body[l].frames, ResponseFrame(l)) \in Seq(Frames)
      BY PlainIs DEF ResponseFrame, Kinds, Shape, Typed, Bodies
    <3>. QED BY <2>1, <2>2, <2>3, <3>1, FramesIs
  <2>4. CASE Fault(l) /\ UNCHANGED body
    BY <2>1, <2>2, <2>4 DEF Fault, Blames
  <2>. QED BY <2>3, <2>4 DEF RespondStdio
<1>3. Typed'
  BY <1>2 DEF Shape, Typed, Finalizes, Sets, Holds, Moves, Blames
<1>. QED BY <1>2, <1>3

LEMMA ReturnLocalEffect ==
  ASSUME Shape, NEW l \in Streams, ReturnLocal(l) PROVE Typed' /\ ReturnLocalDoes(l)
<1>1. UNCHANGED <<scenario, entries, terminating, phase, opening, graceful, word, live,
                  receipt, body, gate, writer, job, todo, outcome, owed, admitted, faulted>>
  BY DEF ReturnLocal, registry, election, request, transport, history
<1>. USE <1>1 DEF ReturnLocalDoes
<1>2. ReturnLocalDoes(l)
  BY GotoIs, LabelNames DEF ReturnLocal, Actors, Opener, Completing, Waits, Leaving
<1>3. Typed'
  BY <1>2 DEF Shape, Typed, Moves, Sets
<1>. QED BY <1>2, <1>3

LEMMA RespondHttpEffect ==
  ASSUME Shape, NEW l \in Streams, RespondHttp(l) PROVE Typed' /\ RespondHttpDoes(l)
<1>1. UNCHANGED <<scenario, entries, terminating, phase, opening, graceful, live, body,
                  writer, todo, outcome, owed, admitted, faulted>>
  BY DEF RespondHttp, registry, election, request, transport, history
<1>. USE <1>1 DEF RespondHttpDoes
<1>2. RespondHttpDoes(l)
  <2>1. pc[l] = "respond" /\ Kind[l] = "http" /\ l \in Actors
    BY DEF RespondHttp, Actors
  <2>2. CASE body[l].failed
    BY <2>1, <2>2, FailReceiptIs, ElectIs, GotoIs, LabelNames DEF RespondHttp, Leaving, Gates
  <2>3. CASE ~body[l].failed /\ outcome[l] = "complete"
    BY <2>1, <2>3, MarkIs, ReceiptsMove, GotoIs, LabelNames
       DEF RespondHttp, Leaving, Shape, Typed
  <2>4. CASE ~body[l].failed /\ outcome[l] # "complete" /\ ~IsCancelled(l)
    BY <2>1, <2>4, FinalizeIs, GotoIs, LabelNames DEF RespondHttp, Leaving
  <2>5. CASE ~body[l].failed /\ outcome[l] # "complete" /\ IsCancelled(l)
    <3>1. Works(l, job[l].on, job[l].event, FALSE, job[l].count)
      BY <2>1, <2>5, SentIs DEF RespondHttp
    <3>. QED BY <2>1, <2>5, <3>1, FailReceiptIs, GotoIs, LabelNames DEF RespondHttp, Leaving
  <2>. QED BY <2>2, <2>3, <2>4, <2>5
<1>3. Typed'
  BY <1>2 DEF Shape, Typed, Finalizes, Sets, Marked, FailsReceipt, Gated, Moves, Works
<1>. QED BY <1>2, <1>3

LEMMA CommitResponseEffect ==
  ASSUME Shape, NEW l \in Streams, CommitResponse(l) PROVE Typed' /\ CommitResponseDoes(l)
<1>1. UNCHANGED <<scenario, entries, terminating, phase, opening, graceful, live, gate,
                  writer, todo, outcome, owed, admitted>>
  BY DEF CommitResponse, registry, election, request, transport, history
<1>. USE <1>1 DEF CommitResponseDoes
<1>2. CommitResponseDoes(l)
  <2>1. pc[l] = "commit" /\ l \in Actors /\ Moves(l, "elect")
    BY GotoIs, LabelNames DEF CommitResponse, Actors, Leaving
  <2>2. CASE /\ ~body[l].closed /\ (live[l] \/ outcome[l] = "complete")
             /\ body' = [body EXCEPT ![l].frames = Append(@, ResponseFrame(l)),
                                     ![l].committed = TRUE]
             /\ job' = [job EXCEPT ![l].sent = TRUE]
             /\ UNCHANGED <<receipt, word, faulted>>
    <3>1. Append(body[l].frames, ResponseFrame(l)) \in Seq(Frames)
      BY PlainIs DEF ResponseFrame, Kinds, Shape, Typed, Bodies
    <3>2. Holds(l, Append(body[l].frames, ResponseFrame(l)), body[l].failed, TRUE,
                body[l].closed, body[l].popped, body[l].flushed)
      BY <2>2, <3>1, CommitIs
    <3>3. Works(l, job[l].on, job[l].event, TRUE, job[l].count)
      BY <2>1, <2>2, SentIs
    <3>. QED BY <2>1, <2>2, <3>2, <3>3
  <2>3. CASE /\ FailReceipt(l) /\ Cancel(l) /\ Fault(l)
             /\ job' = [job EXCEPT ![l].sent = FALSE]
             /\ UNCHANGED body
    <3>1. Works(l, job[l].on, job[l].event, FALSE, job[l].count)
      BY <2>1, <2>3, SentIs
    <3>. QED BY <2>1, <2>3, <3>1, FailReceiptIs, CancelIs DEF Fault, Blames
  <2>. QED BY <2>2, <2>3 DEF CommitResponse
<1>3. Typed'
  BY <1>2 DEF Shape, Typed, Cancels, Sets, FailsReceipt, Holds, Moves, Works, Blames, Marked
<1>. QED BY <1>2, <1>3

LEMMA ElectOutcomeEffect ==
  ASSUME Shape, NEW l \in Streams, ElectOutcome(l) PROVE Typed' /\ ElectOutcomeDoes(l)
<1>1. UNCHANGED <<scenario, entries, terminating, phase, opening, graceful, word, live,
                  receipt, body, writer, job, todo, outcome, owed, admitted, faulted>>
  BY DEF ElectOutcome, registry, election, request, transport, history
<1>. USE <1>1 DEF ElectOutcomeDoes
<1>2. ElectOutcomeDoes(l)
  BY ElectIs, GotoIs, LabelNames DEF ElectOutcome, Actors, Opener, Completing, Waits,
     Leaving, Gates
<1>3. Typed'
  BY <1>2 DEF Shape, Typed, Gated, Sets, Moves
<1>. QED BY <1>2, <1>3

LEMMA SendControlEffect ==
  ASSUME Shape, NEW a \in Actors, SendControl(a) PROVE Typed' /\ SendControlDoes(a)
<1>1. UNCHANGED <<scenario, entries, terminating, phase, opening, graceful, live, gate,
                  writer, todo, outcome, owed, admitted>>
  BY DEF SendControl, registry, election, request, transport, history
<1>. USE <1>1 DEF SendControlDoes
<1>2. SendControlDoes(a)
  <2>1. a \in Actors /\ pc[a] = "control" /\ Goto(a, "decide")
    BY DEF SendControl, Actors
  <2>2. job[a].on \in Streams /\ Plain("control") \in Frames
    BY <2>1, OnAStream, PlainIs, QueueableIs DEF InSender, Completing, Kinds, Shape, Placed, Aimed, Carrying, Positive
  <2>3. Moves(a, "decide")
    BY <2>1, GotoIs, LabelNames DEF Opener, Completing
  <2>4. CASE Kind[job[a].on] = "http"
    <3>1. Marked(job[a].on, ControlNotRequired(receipt[job[a].on]))
      BY <2>2, <2>4, MarkIs, ReceiptsMove DEF SendControl, Shape, Typed
    <3>. QED BY <2>1, <2>2, <2>3, <2>4, <3>1 DEF SendControl
  <2>5. CASE Kind[job[a].on] # "http"
    <3>1. PICK o \in Outcomes(job[a].on) :
            /\ Transmit(job[a].on, Plain("control"), o)
            /\ job' = [job EXCEPT ![a].sent = (o # "panic")]
      BY <2>5 DEF SendControl
    <3>2. Works(a, job[a].on, job[a].event, o # "panic", job[a].count)
      BY <2>1, <3>1, SentIs
    <3>3. CASE o = "panic"
      <4>1. Panics(job[a].on) /\ Kind[job[a].on] = "local"
        BY <2>2, <3>1, <3>3, TransmitIs, OutcomesAre
      <4>. QED BY <2>1, <2>2, <2>3, <3>2, <3>3, <4>1, <2>5
    <3>4. CASE o # "panic"
      <4>1. \/ Sends(job[a].on, Plain("control")) /\ Ready(job[a].on)
            \/ Refuses(job[a].on) /\ ~Mute(job[a].on) /\ Kind[job[a].on] # "local"
            \/ Drops(job[a].on) /\ Mute(job[a].on)
        <5>1. o \in Outcomes(job[a].on) /\ o \in {"sent", "refused", "dropped", "panic"}
          BY <2>2, <3>1, OutcomesAre
        <5>2. CASE o = "sent"
          BY <2>2, <3>1, <5>2, TransmitIs, OutcomesAre
        <5>3. CASE o = "refused"
          BY <2>2, <3>1, <5>3, TransmitIs, OutcomesAre
        <5>4. CASE o = "dropped"
          BY <2>2, <3>1, <5>4, TransmitIs, OutcomesAre
        <5>. QED BY <3>4, <5>1, <5>2, <5>3, <5>4
      <4>. QED BY <2>1, <2>2, <2>3, <3>2, <3>4, <4>1, <2>5
    <3>. QED BY <3>3, <3>4
  <2>. QED BY <2>4, <2>5
<1>3. Typed'
  BY <1>2 DEF Shape, Typed, Sets, Marked, Moves, Works, Sends, Drops, Panics, Refuses,
     Holds, Cancels, FailsReceipt, Blames
<1>. QED BY <1>2, <1>3

LEMMA DecideEffect ==
  ASSUME Shape, NEW a \in Actors, Decide(a) PROVE Typed' /\ DecideDoes(a)
<1>1. UNCHANGED <<scenario, entries, terminating, phase, opening, graceful, live, body,
                  gate, writer, job, todo, outcome, owed, admitted, faulted>>
  BY DEF Decide, registry, election, request, transport, history
<1>. USE <1>1 DEF DecideDoes
<1>2. DecideDoes(a)
  <2>1. pc[a] = "decide" /\ job[a].on \in Streams
    BY OnAStream DEF Decide, Completing
  <2>2. CASE \/ Kind[job[a].on] # "http" /\ ~job[a].sent
             \/ /\ IsCancelled(job[a].on)
                /\ ~(Kind[job[a].on] = "http" /\ Committed(receipt[job[a].on]))
    BY <2>1, <2>2, FailReceiptIs, CancelIs, GotoIs, LabelNames DEF Decide, Completing
  <2>3. CASE /\ Kind[job[a].on] = "http" \/ job[a].sent
             /\ \/ ~IsCancelled(job[a].on)
                \/ Kind[job[a].on] = "http" /\ Committed(receipt[job[a].on])
    BY <2>1, <2>3, GotoIs, LabelNames DEF Decide, Completing
  <2>. QED BY <2>2, <2>3 DEF IsCancelled
<1>3. Typed'
  BY <1>2 DEF Shape, Typed, Cancels, Sets, FailsReceipt, Moves, Marked
<1>. QED BY <1>2, <1>3

LEMMA UnelectEffect ==
  ASSUME Shape, NEW a \in Actors, Unelect(a) PROVE Typed' /\ UnelectDoes(a)
<1>1. UNCHANGED <<scenario, entries, terminating, opening, graceful, word, live, receipt,
                  body, gate, writer, job, todo, owed, admitted, faulted>>
  BY DEF Unelect, registry, election, request, transport, history
<1>. USE <1>1 DEF UnelectDoes
<1>2. UnelectDoes(a)
  <2>1. pc[a] = "unelect" /\ job[a].on \in Streams
    BY OnAStream DEF Unelect, Completing
  <2>. QED BY <2>1, ElectedIs, ReturnIs, GotoIs, LabelNames
           DEF Unelect, Resume, PhaseNames, Results, Leaving
<1>3. Typed'
  BY <1>2 DEF Shape, Typed, Elects, Sets, Moves, Answers
<1>. QED BY <1>2, <1>3

LEMMA MarkGracefulEffect ==
  ASSUME Shape, NEW a \in Actors, MarkGraceful(a) PROVE Typed' /\ MarkGracefulDoes(a)
<1>1. UNCHANGED <<scenario, entries, terminating, phase, opening, word, live, receipt, body,
                  gate, writer, job, todo, outcome, owed, admitted, faulted>>
  BY DEF MarkGraceful, registry, election, request, transport, history
<1>. USE <1>1 DEF MarkGracefulDoes
<1>2. MarkGracefulDoes(a)
  <2>1. pc[a] = "graceful" /\ job[a].on \in Streams
    BY OnAStream DEF MarkGraceful, Completing
  <2>2. Graces(job[a].on)
    BY <2>1 DEF MarkGraceful, Graces, Sets, Shape, Typed
  <2>. QED BY <2>1, <2>2, GotoIs, LabelNames DEF MarkGraceful, Completing
<1>3. Typed'
  BY <1>2 DEF Shape, Typed, Graces, Sets, Moves
<1>. QED BY <1>2, <1>3

LEMMA WakeEffect ==
  ASSUME Shape, NEW a \in Actors, Wake(a) PROVE Typed' /\ WakeDoes(a)
<1>1. UNCHANGED <<scenario, entries, terminating, phase, opening, graceful, live, receipt,
                  body, gate, writer, job, todo, outcome, admitted, faulted>>
  BY DEF Wake, registry, election, request, transport, history, Resume
<1>. USE <1>1 DEF WakeDoes
<1>2. WakeDoes(a)
  <2>1. pc[a] = "wake" /\ job[a].on \in Streams
    BY OnAStream DEF Wake, Completing
  <2>2. owed' \subseteq Streams
    BY <2>1 DEF Wake, Shape, Typed
  <2>. QED BY <2>1, <2>2, CancelIs, GotoIs, LabelNames DEF Wake, Resume, Waits
<1>3. Typed'
  BY <1>2 DEF Shape, Typed, Cancels, Sets, Moves
<1>. QED BY <1>2, <1>3

LEMMA PublishEffect ==
  ASSUME Shape, NEW p \in Publishers, Publish(p) PROVE Typed' /\ PublishDoes(p)
<1>1. UNCHANGED <<scenario, entries, terminating, phase, opening, graceful, word, live,
                  receipt, body, gate, writer, pc, outcome, owed, admitted, faulted>>
  BY DEF Publish, registry, election, request, transport, history
<1>. USE <1>1 DEF PublishDoes
<1>2. PublishDoes(p)
  <2>1. pc[p] = "next" /\ todo[p] = {} /\ Plans(p, entries) /\ p \in Actors
    BY PlanIs DEF Publish, Owners, Actors
  <2>2. job[p].count \in Nat /\ job[p].count + 1 \in Nat
    BY <2>1 DEF Shape, Typed, Jobs
  <2>3. Frame("event", p, job[p].count + 1) \in Frames
    BY <2>2, EventFrame, QueueableIs
  <2>4. job' = [job EXCEPT ![p].count = job[p].count + 1,
                           ![p].event = Frame("event", p, job[p].count + 1)]
    BY DEF Publish
  <2>. QED BY <2>1, <2>2, <2>3, <2>4, NewEventIs
<1>3. Typed'
  BY <1>2 DEF Shape, Typed, Works, Plans, Sets
<1>. QED BY <1>2, <1>3

LEMMA QueueEffect ==
  ASSUME Shape, NEW p \in Publishers, NEW l \in Streams, Queue(p, l) PROVE Typed' /\ QueueDoes(p, l)
<1>1. UNCHANGED <<scenario, entries, terminating, graceful, live, body, gate, writer, pc,
                  job, outcome, owed>>
  BY DEF Queue, registry, election, request, transport, history
<1>. USE <1>1 DEF QueueDoes
<1>2. QueueDoes(p, l)
  <2>1. /\ pc[p] = "next" /\ l \in todo[p] /\ Plans(p, todo[p] \ {l})
        /\ AtPhase(l, {"Opening", "OpeningDelivery"})
    BY VisitIs DEF Queue, Owners
  <2>2. CASE IsCancelled(l)
    BY <2>1, <2>2, ElectedIs, ClearIs, FailReceiptIs DEF Queue, PhaseNames, history
  <2>3. CASE ~IsCancelled(l) /\ Len(opening[l]) >= MaxOpening
    BY <2>1, <2>3, ElectedIs, ClearIs, FailReceiptIs, CancelIs
       DEF Queue, PhaseNames, Fault, Blames
  <2>4. CASE ~IsCancelled(l) /\ ~(Len(opening[l]) >= MaxOpening)
    <3>1. /\ opening' = [opening EXCEPT ![l] = Append(@, job[p].event)]
          /\ admitted' = [admitted EXCEPT ![l] = Append(@, job[p].event)]
          /\ UNCHANGED <<phase, receipt, word, faulted>>
      BY <2>4 DEF Queue
    <3>2. job[p].event \in Queueable
      BY <2>1 DEF Shape, Placed, Aimed, Carrying, Positive
    <3>3. Queues(l, Append(opening[l], job[p].event)) /\ Admits(l, job[p].event)
      BY <3>1, <3>2 DEF Queues, Admits, Sets, Shape, Typed
    <3>. QED BY <2>1, <2>4, <3>1, <3>3
  <2>. QED BY <2>2, <2>3, <2>4
<1>3. Typed'
  BY <1>2 DEF Shape, Typed, Elects, Sets, Queues, Cancels, FailsReceipt, Plans, Admits,
     Blames, Marked
<1>. QED BY <1>2, <1>3

LEMMA OfferEffect ==
  ASSUME Shape, NEW p \in Publishers, NEW l \in Streams, Offer(p, l) PROVE Typed' /\ OfferDoes(p, l)
<1>1. UNCHANGED <<scenario, entries, terminating, opening, graceful, word, live, receipt,
                  body, gate, writer, outcome, owed, admitted, faulted>>
  BY DEF Offer, registry, election, request, transport, history
<1>. USE <1>1 DEF OfferDoes
<1>2. OfferDoes(p, l)
  <2>0. phase[l].n + 1 \in Nat
    BY DEF Shape, Typed, Phases
  <2>1. /\ pc[p] = "next" /\ l \in todo[p] /\ Plans(p, todo[p] \ {l}) /\ p \in Actors
        /\ AtPhase(l, {"Active", "EventDelivery"}) /\ phase[l].n + 1 \in Nat
    BY <2>0, VisitIs DEF Offer, Owners, Actors
  <2>2. CASE AtPhase(l, {"Active"}) /\ IsCancelled(l)
    BY <2>1, <2>2, ElectedIs DEF Offer, PhaseNames, AtPhase
  <2>3. CASE ~(AtPhase(l, {"Active"}) /\ IsCancelled(l))
    BY <2>1, <2>3, ElectedIs, GotoIs, OnIs, LabelNames DEF Offer, PhaseNames, Opener
  <2>. QED BY <2>2, <2>3
<1>3. Typed'
  BY <1>2 DEF Shape, Typed, Elects, Sets, Moves, Works, Plans
<1>. QED BY <1>2, <1>3

LEMMA SkipEffect ==
  ASSUME Shape, NEW p \in Publishers, NEW l \in Streams, Skip(p, l) PROVE Typed' /\ SkipDoes(p, l)
<1>1. UNCHANGED <<scenario, entries, terminating, phase, opening, graceful, word, live,
                  receipt, body, gate, writer, pc, job, outcome, owed, admitted, faulted>>
  BY DEF Skip, registry, election, request, transport, history
<1>. USE <1>1 DEF SkipDoes
<1>2. SkipDoes(p, l)
  BY VisitIs, ActorAssumption DEF Skip, AtPhase, Actors, Owners
<1>3. Typed'
  BY <1>2 DEF Shape, Typed, Plans, Sets
<1>. QED BY <1>2, <1>3

LEMMA DeliverEventEffect ==
  ASSUME Shape, NEW p \in Publishers, DeliverEvent(p) PROVE Typed' /\ DeliverEventDoes(p)
<1>1. UNCHANGED <<scenario, entries, terminating, phase, opening, graceful, live, gate,
                  writer, todo, outcome, owed, admitted>>
  BY DEF DeliverEvent, registry, election, request, transport, history
<1>. USE <1>1 DEF DeliverEventDoes
<1>2. DeliverEventDoes(p)
  <2>1. p \in Actors /\ pc[p] = "deliver" /\ Goto(p, "delivered")
    BY DEF DeliverEvent, Actors
  <2>2. job[p].on \in Streams /\ job[p].event \in Frames
    BY <2>1, OnAStream, PlainIs, QueueableIs DEF InSender, Completing, Kinds, Shape, Placed, Aimed, Carrying, Positive
  <2>3. Moves(p, "delivered")
    BY <2>1, GotoIs, LabelNames DEF Opener, Completing
  <2>5. PICK o \in Outcomes(job[p].on) :
          /\ Transmit(job[p].on, job[p].event, o)
          /\ job' = [job EXCEPT ![p].sent = (o # "panic")]
    BY DEF DeliverEvent
  <2>6. Works(p, job[p].on, job[p].event, o # "panic", job[p].count)
    BY <2>1, <2>5, SentIs
  <2>7. CASE o = "panic"
    <3>1. Panics(job[p].on) /\ Kind[job[p].on] = "local"
      BY <2>2, <2>5, <2>7, TransmitIs, OutcomesAre
    <3>. QED BY <2>1, <2>2, <2>3, <2>6, <2>7, <3>1
  <2>8. CASE o # "panic"
    <3>1. \/ Sends(job[p].on, job[p].event) /\ Ready(job[p].on)
          \/ Refuses(job[p].on) /\ ~Mute(job[p].on) /\ Kind[job[p].on] # "local"
          \/ Drops(job[p].on) /\ Mute(job[p].on)
      <4>1. o \in Outcomes(job[p].on) /\ o \in {"sent", "refused", "dropped", "panic"}
        BY <2>2, <2>5, OutcomesAre
      <4>2. CASE o = "sent"
        BY <2>2, <2>5, <4>2, TransmitIs, OutcomesAre
      <4>3. CASE o = "refused"
        BY <2>2, <2>5, <4>3, TransmitIs, OutcomesAre
      <4>4. CASE o = "dropped"
        BY <2>2, <2>5, <4>4, TransmitIs, OutcomesAre
      <4>. QED BY <2>8, <4>1, <4>2, <4>3, <4>4
    <3>. QED BY <2>1, <2>2, <2>3, <2>6, <2>8, <3>1
  <2>. QED BY <2>7, <2>8
<1>3. Typed'
  BY <1>2 DEF Shape, Typed, Sets, Moves, Works, Sends, Drops, Panics, Refuses, Holds,
     Cancels, FailsReceipt, Marked, Blames
<1>. QED BY <1>2, <1>3

LEMMA DeliveredEventEffect ==
  ASSUME Shape, NEW p \in Publishers, DeliveredEvent(p) PROVE Typed' /\ DeliveredEventDoes(p)
<1>1. UNCHANGED <<scenario, entries, terminating, graceful, live, body, gate, writer, job,
                  todo, outcome, owed, admitted, faulted>>
  BY DEF DeliveredEvent, registry, election, request, transport, history
<1>. USE <1>1 DEF DeliveredEventDoes
<1>2. DeliveredEventDoes(p)
  <2>1. pc[p] = "delivered" /\ job[p].on \in Streams /\ p \in Actors
    BY OnAStream DEF DeliveredEvent, Actors, InSender
  <2>2. phase[job[p].on] \in Phases /\ phase[job[p].on].n \in Nat
    BY <2>1 DEF Shape, Typed, Phases
  <2>3. CASE job[p].sent /\ ~IsCancelled(job[p].on) /\ AtPhase(job[p].on, {"EventDelivery"})
    <3>1. CASE phase[job[p].on].n = 1
      BY <2>1, <2>3, <3>1, ElectedIs, GotoIs, LabelNames DEF DeliveredEvent, PhaseNames, AtPhase
    <3>2. CASE phase[job[p].on].n = 0
      BY <2>1, <2>3, <3>2 DEF AtPhase, Shape, Placed, Aimed, Carrying, Positive
    <3>3. CASE phase[job[p].on].n > 1
      <4>1. phase[job[p].on].n - 1 \in Nat
        BY <2>2, <3>3
      <4>. QED BY <2>1, <2>2, <2>3, <3>3, <4>1, ElectedIs, GotoIs, LabelNames
               DEF DeliveredEvent, PhaseNames, AtPhase
    <3>. QED BY <2>2, <3>1, <3>2, <3>3
  <2>4. CASE /\ job[p].sent /\ ~IsCancelled(job[p].on) /\ AtPhase(job[p].on, {"Pending"})
             /\ phase[job[p].on].n > 1
    <3>1. phase[job[p].on].n - 1 \in Nat
      BY <2>2, <2>4
    <3>. QED BY <2>1, <2>2, <2>4, <3>1, ElectedIs, GotoIs, LabelNames
             DEF DeliveredEvent, PhaseNames, AtPhase
  <2>5. CASE /\ job[p].sent /\ ~IsCancelled(job[p].on) /\ AtPhase(job[p].on, {"Pending"})
             /\ phase[job[p].on].n = 1
    BY <2>1, <2>5, ElectedIs, GotoIs, LabelNames DEF DeliveredEvent, PhaseNames, AtPhase,
       Completing
  <2>6. CASE ~AtPhase(job[p].on, {"EventDelivery", "Pending"})
    BY <2>1, <2>6, GotoIs, LabelNames DEF DeliveredEvent, AtPhase
  <2>7. CASE /\ ~job[p].sent \/ IsCancelled(job[p].on)
                \/ (AtPhase(job[p].on, {"Pending"}) /\ phase[job[p].on].n = 0)
             /\ AtPhase(job[p].on, {"EventDelivery", "Pending"})
    BY <2>1, <2>7, ElectedIs, ClearIs, FailReceiptIs, CancelIs, GotoIs, LabelNames
       DEF DeliveredEvent, PhaseNames, AtPhase
  <2>. QED BY <2>2, <2>3, <2>4, <2>5, <2>6, <2>7 DEF AtPhase
<1>3. Typed'
  BY <1>2 DEF Shape, Typed, Elects, Sets, Queues, Cancels, FailsReceipt, Moves, Marked
<1>. QED BY <1>2, <1>3

LEMMA TerminateEffect ==
  ASSUME Shape, Terminate PROVE Typed' /\ TerminateDoes
<1>1. UNCHANGED <<scenario, entries, phase, opening, graceful, word, live, receipt, body,
                  gate, writer, job, todo, outcome, owed, admitted, faulted>>
  BY DEF Terminate, registry, election, request, transport, history
<1>. USE <1>1 DEF TerminateDoes
<1>2. TerminateDoes
  BY GotoIs, LabelNames, ActorAssumption DEF Terminate, Actors, Opener, Completing, Waits,
     Leaving
<1>3. Typed'
  BY <1>2 DEF Shape, Typed, Moves, Sets
<1>. QED BY <1>2, <1>3

LEMMA TakeEntriesEffect ==
  ASSUME Shape, TakeEntries PROVE Typed' /\ TakeEntriesDoes
<1>1. UNCHANGED <<scenario, terminating, phase, opening, graceful, word, live, receipt,
                  body, gate, writer, job, outcome, owed, admitted, faulted>>
  BY DEF TakeEntries, registry, election, request, transport, history
<1>. USE <1>1 DEF TakeEntriesDoes
<1>2. TakeEntriesDoes
  BY GotoIs, LabelNames, PlanIs DEF TakeEntries, Actors, Owners
<1>3. Typed'
  BY <1>2 DEF Shape, Typed, Moves, Sets, Plans
<1>. QED BY <1>2, <1>3

LEMMA TerminateEntryEffect ==
  ASSUME Shape, NEW l \in Streams, TerminateEntry(l) PROVE Typed' /\ TerminateEntryDoes(l)
<1>1. UNCHANGED <<scenario, entries, terminating, graceful, word, live, body, gate, writer,
                  outcome, admitted, faulted>>
  BY DEF TerminateEntry, registry, election, request, transport, history
<1>. USE <1>1 DEF TerminateEntryDoes
<1>2. TerminateEntryDoes(l)
  <2>1. /\ pc[Server] = "next" /\ l \in todo[Server] /\ Plans(Server, todo[Server] \ {l})
        /\ Server \in Actors
    BY VisitIs DEF TerminateEntry, Owners, Actors
  <2>2. Works(Server, l, job[Server].event, job[Server].sent, job[Server].count)
    BY <2>1, OnIs DEF TerminateEntry
  <2>3. phase[l] \in Phases /\ phase[l].n \in Nat /\ phase[l].at \in PhaseNames
    BY DEF Shape, Typed, Phases
  <2>4. owed \subseteq Streams
    BY DEF Shape, Typed
  <2>5. CASE IsCancelled(l) /\ AtPhase(l, Open4)
    BY <2>1, <2>2, <2>4, <2>5, ElectedIs, ClearIs, FailReceiptIs
       DEF TerminateEntry, PhaseNames, AtPhase, Open4
  <2>6. CASE ~IsCancelled(l) /\ AtPhase(l, {"Opening"})
    BY <2>1, <2>2, <2>4, <2>6, ElectedIs, ClearIs DEF TerminateEntry, PhaseNames, AtPhase, Open4
  <2>7. CASE ~IsCancelled(l) /\ AtPhase(l, {"OpeningDelivery"})
    BY <2>1, <2>2, <2>4, <2>7, ElectedIs, ClearIs DEF TerminateEntry, PhaseNames, AtPhase, Open4
  <2>8. CASE ~IsCancelled(l) /\ AtPhase(l, {"Active"})
    BY <2>1, <2>2, <2>4, <2>8, ElectedIs, GotoIs, LabelNames
       DEF TerminateEntry, PhaseNames, AtPhase, Open4, Completing
  <2>9. CASE ~IsCancelled(l) /\ AtPhase(l, {"EventDelivery"})
    BY <2>1, <2>2, <2>3, <2>4, <2>9, ElectedIs DEF TerminateEntry, PhaseNames, AtPhase, Open4
  <2>10. CASE ~AtPhase(l, Open4)
    BY <2>1, <2>2, <2>4, <2>10 DEF TerminateEntry, AtPhase, Open4
  <2>. QED BY <2>5, <2>6, <2>7, <2>8, <2>9, <2>10 DEF AtPhase, Open4
<1>3. Typed'
  BY <1>2 DEF Shape, Typed, Elects, Sets, Queues, FailsReceipt, Moves, Works, Plans, Marked
<1>. QED BY <1>2, <1>3

LEMMA DrainReceiptsEffect ==
  ASSUME Shape, DrainReceipts PROVE Typed' /\ DrainReceiptsDoes
<1>1. UNCHANGED <<scenario, entries, terminating, phase, opening, graceful, word, live,
                  body, gate, writer, job, todo, outcome, owed, admitted>>
  BY DEF DrainReceipts, registry, election, request, transport, history
<1>. USE <1>1 DEF DrainReceiptsDoes
<1>2. DrainReceiptsDoes
  <2>1. pc[Server] = "next" /\ todo[Server] = {} /\ Moves(Server, "done")
    BY GotoIs, LabelNames DEF DrainReceipts, Actors, Leaving
  <2>. DEFINE pending == {l \in owed : ~Settled(receipt[l])}
  <2>2. /\ faulted' = faulted \cup pending
        /\ receipt' = [l \in Streams |-> IF l \in pending THEN Failed(receipt[l])
                                                         ELSE receipt[l]]
    BY DEF DrainReceipts
  <2>3. pending \subseteq Streams
    BY DEF Shape, Typed
  <2>4. receipt' \in [Streams -> Receipts]
    BY <2>2, ReceiptsMove DEF Shape, Typed
  <2>5. faulted \subseteq faulted' /\ faulted' \subseteq Streams
    BY <2>2, <2>3 DEF Shape, Typed
  <2>6. \A l \in Streams :
          \/ receipt'[l] = receipt[l]
          \/ /\ ~Settled(receipt[l]) /\ l \in owed /\ l \in faulted'
             /\ receipt'[l] = Failed(receipt[l])
    BY <2>2
  <2>. QED BY <2>1, <2>4, <2>5, <2>6
<1>3. Typed'
  BY <1>2 DEF Shape, Typed, Sets, Moves
<1>. QED BY <1>2, <1>3

LEMMA WriterAwaitEffect ==
  ASSUME Shape, NEW l \in Streams, WriterAwait(l) PROVE Typed' /\ WriterAwaitDoes(l)
<1>1. UNCHANGED <<scenario, entries, terminating, phase, opening, graceful, word, live,
                  receipt, body, gate, pc, job, todo, outcome, owed, admitted, faulted>>
  BY DEF WriterAwait, registry, election, request, transport, history
<1>. USE <1>1 DEF WriterAwaitDoes
<1>2. WriterAwaitDoes(l)
  BY WriterAtIs DEF WriterAwait, IsCancelled, Actors, WriterLabels
<1>3. Typed'
  BY <1>2 DEF Shape, Typed, Writes, Sets
<1>. QED BY <1>2, <1>3

LEMMA WriterHeadEffect ==
  ASSUME Shape, NEW l \in Streams, WriterHead(l) PROVE Typed' /\ WriterHeadDoes(l)
<1>1. UNCHANGED <<scenario, entries, terminating, phase, opening, graceful, word, live,
                  receipt, body, gate, pc, job, todo, outcome, owed, admitted, faulted>>
  BY DEF WriterHead, registry, election, request, transport, history
<1>. USE <1>1 DEF WriterHeadDoes
<1>2. WriterHeadDoes(l)
  BY WriterAtIs DEF WriterHead, Actors, WriterLabels
<1>3. Typed'
  BY <1>2 DEF Shape, Typed, Writes, Sets
<1>. QED BY <1>2, <1>3

LEMMA WriterPopEffect ==
  ASSUME Shape, NEW l \in Streams, WriterPop(l) PROVE Typed' /\ WriterPopDoes(l)
<1>1. UNCHANGED <<scenario, entries, terminating, phase, opening, graceful, live, receipt,
                  gate, pc, job, todo, outcome, owed, admitted, faulted>>
  BY DEF WriterPop, registry, election, request, transport, history
<1>. USE <1>1 DEF WriterPopDoes
<1>2. WriterPopDoes(l)
  <2>1. /\ writer[l] = "stream" /\ body[l].popped < Len(body[l].frames) /\ Writes(l, "write")
    BY WriterAtIs DEF WriterPop, Waiting, WriterLabels
  <2>2. CASE IsResponse(NextFrame(l))
    <3>1. /\ body' = [body EXCEPT ![l].popped = @ + 1, ![l].closed = @ \/ TRUE]
          /\ Cancel(l)
      BY <2>2 DEF WriterPop
    <3>2. Holds(l, body[l].frames, body[l].failed, body[l].committed, body[l].closed \/ TRUE,
                body[l].popped + 1, body[l].flushed)
      BY <3>1, PopIs
    <3>. QED BY <2>1, <2>2, <3>1, <3>2, CancelIs
  <2>3. CASE ~IsResponse(NextFrame(l))
    <3>1. /\ body' = [body EXCEPT ![l].popped = @ + 1, ![l].closed = @ \/ FALSE]
          /\ UNCHANGED word
      BY <2>3 DEF WriterPop
    <3>2. Holds(l, body[l].frames, body[l].failed, body[l].committed, body[l].closed \/ FALSE,
                body[l].popped + 1, body[l].flushed)
      BY <3>1, PopIs
    <3>3. body[l].closed \in BOOLEAN
      BY DEF Shape, Typed, Bodies
    <3>. QED BY <2>1, <2>3, <3>1, <3>2, <3>3 DEF Holds
  <2>. QED BY <2>2, <2>3
<1>3. Typed'
  BY <1>2 DEF Shape, Typed, Cancels, Sets, Holds, Writes
<1>. QED BY <1>2, <1>3

LEMMA WriterIdleEffect ==
  ASSUME Shape, NEW l \in Streams, WriterIdle(l) PROVE Typed' /\ WriterIdleDoes(l)
<1>1. UNCHANGED <<scenario, entries, terminating, phase, opening, graceful, word, live,
                  body, gate, pc, job, todo, outcome, owed, admitted, faulted>>
  BY DEF WriterIdle, registry, election, request, transport, history
<1>. USE <1>1 DEF WriterIdleDoes
<1>2. WriterIdleDoes(l)
  BY WriterAtIs, FailReceiptIs DEF WriterIdle, IsCancelled, Actors, WriterLabels
<1>3. Typed'
  BY <1>2 DEF Shape, Typed, FailsReceipt, Sets, Writes, Marked
<1>. QED BY <1>2, <1>3

LEMMA WriterFlushEffect ==
  ASSUME Shape, NEW l \in Streams, WriterFlush(l) PROVE Typed' /\ WriterFlushDoes(l)
<1>1. UNCHANGED <<scenario, entries, terminating, phase, opening, graceful, word, live,
                  gate, pc, job, todo, outcome, owed, admitted, faulted>>
  BY DEF WriterFlush, registry, election, request, transport, history
<1>. USE <1>1 DEF WriterFlushDoes
<1>2. WriterFlushDoes(l)
  <2>. DEFINE d == IF IsResponse(body[l].frames[body[l].popped])
                   THEN CompletionDrained(receipt[l]) ELSE receipt[l]
  <2>1. d \in Receipts
    BY ReceiptsMove DEF Shape, Typed
  <2>2. /\ receipt' = [receipt EXCEPT ![l] = d]
        /\ WriterAt(l, IF Settled(d) THEN "trailer" ELSE "stream")
        /\ writer[l] = "write" /\ body' = [body EXCEPT ![l].flushed = body[l].popped]
    BY DEF WriterFlush
  <2>3. Marked(l, d)
    BY <2>1, <2>2, MarkIs
  <2>4. receipt'[l] = d
    BY <2>3 DEF Marked, Sets
  <2>5. \/ Writes(l, "trailer") /\ Settled(d)
        \/ Writes(l, "stream")
    BY <2>2, WriterAtIs DEF WriterLabels
  <2>. QED BY <2>2, <2>3, <2>4, <2>5, FlushIs
<1>3. Typed'
  BY <1>2 DEF Shape, Typed, Marked, Sets, Holds, Writes
<1>. QED BY <1>2, <1>3

LEMMA WriterBreaksEffect ==
  ASSUME Shape, NEW l \in Streams, WriterBreaks(l) PROVE Typed' /\ WriterBreaksDoes(l)
<1>1. UNCHANGED <<scenario, entries, terminating, phase, opening, graceful, word, live,
                  receipt, body, gate, pc, job, todo, outcome, owed, admitted>>
  BY DEF WriterBreaks, registry, election, request, transport, history
<1>. USE <1>1 DEF WriterBreaksDoes
<1>2. WriterBreaksDoes(l)
  BY WriterAtIs DEF WriterBreaks, Fault, Actors, Blames, WriterLabels
<1>3. Typed'
  BY <1>2 DEF Shape, Typed, Writes, Sets, Blames
<1>. QED BY <1>2, <1>3

LEMMA WriterTrailerEffect ==
  ASSUME Shape, NEW l \in Streams, WriterTrailer(l) PROVE Typed' /\ WriterTrailerDoes(l)
<1>1. UNCHANGED <<scenario, entries, terminating, phase, opening, graceful, live, gate, pc,
                  job, todo, outcome, owed, admitted, faulted>>
  BY DEF WriterTrailer, registry, election, request, transport, history
<1>. USE <1>1 DEF WriterTrailerDoes
<1>2. WriterTrailerDoes(l)
  BY WriterAtIs, FailReceiptIs, CloseBodyIs DEF WriterTrailer, WriterLabels
<1>3. Typed'
  BY <1>2 DEF Shape, Typed, Cancels, Sets, FailsReceipt, Holds, Writes, Marked
<1>. QED BY <1>2, <1>3

LEMMA WriterFailsEffect ==
  ASSUME Shape, NEW l \in Streams, WriterFails(l) PROVE Typed' /\ WriterFailsDoes(l)
<1>1. UNCHANGED <<scenario, terminating, phase, opening, graceful, word, live, body, gate,
                  pc, job, todo, outcome, owed, admitted, faulted>>
  BY DEF WriterFails, registry, election, request, transport, history
<1>. USE <1>1 DEF WriterFailsDoes
<1>2. WriterFailsDoes(l)
  BY WriterAtIs, FailReceiptIs DEF WriterFails, Actors, WriterLabels
<1>3. Typed'
  BY <1>2 DEF Shape, Typed, FailsReceipt, Sets, Writes, Marked
<1>. QED BY <1>2, <1>3

LEMMA CancelModernHttpOwnerEffect ==
  ASSUME Shape, NEW l \in Streams, CancelModernHttpOwner(l) PROVE Typed' /\ CancelModernHttpOwnerDoes(l)
<1>1. UNCHANGED <<scenario, entries, terminating, graceful, live, receipt, body, gate, pc,
                  job, todo, outcome, owed, admitted, faulted>>
  BY DEF CancelModernHttpOwner, registry, election, request, transport, history
<1>. USE <1>1 DEF CancelModernHttpOwnerDoes
<1>2. CancelModernHttpOwnerDoes(l)
  BY WriterAtIs, ElectedIs, ClearIs, CancelIs DEF CancelModernHttpOwner, PeerEnds, AtPhase,
     Actors, PhaseNames, WriterLabels
<1>3. Typed'
  BY <1>2 DEF Shape, Typed, Elects, Sets, Queues, Cancels, Writes
<1>. QED BY <1>2, <1>3

LEMMA WriterAbortsEffect ==
  ASSUME Shape, NEW l \in Streams, WriterAborts(l) PROVE Typed' /\ WriterAbortsDoes(l)
<1>1. UNCHANGED <<scenario, entries, terminating, phase, opening, graceful, receipt, gate,
                  pc, job, todo, outcome, owed, admitted, faulted>>
  BY DEF WriterAborts, registry, election, request, transport, history
<1>. USE <1>1 DEF WriterAbortsDoes
<1>2. WriterAbortsDoes(l)
  <2>1. Dies(l)
    BY DEF WriterAborts, Dies, Sets, Shape, Typed
  <2>. QED BY <2>1, WriterAtIs, CloseBodyIs DEF WriterAborts, WriterLabels
<1>3. Typed'
  BY <1>2 DEF Shape, Typed, Cancels, Sets, Dies, Holds, Writes
<1>. QED BY <1>2, <1>3

LEMMA PeerCancelsEffect ==
  ASSUME Shape, NEW l \in Streams, PeerCancels(l) PROVE Typed' /\ PeerCancelsDoes(l)
<1>1. UNCHANGED <<scenario, entries, terminating, phase, opening, graceful, live, receipt,
                  body, gate, writer, pc, job, todo, outcome, owed, admitted>>
  BY DEF PeerCancels, registry, election, request, transport, history
<1>. USE <1>1 DEF PeerCancelsDoes
<1>2. PeerCancelsDoes(l)
  BY CancelIs DEF PeerCancels, Running, Fault, Blames
<1>3. Typed'
  BY <1>2 DEF Shape, Typed, Cancels, Sets, Blames
<1>. QED BY <1>2, <1>3

LEMMA ContextDiesEffect ==
  ASSUME Shape, NEW l \in Streams, ContextDies(l) PROVE Typed' /\ ContextDiesDoes(l)
<1>1. UNCHANGED <<scenario, entries, terminating, phase, opening, graceful, word, receipt,
                  body, gate, writer, pc, job, todo, outcome, owed, admitted>>
  BY DEF ContextDies, registry, election, request, transport, history
<1>. USE <1>1 DEF ContextDiesDoes
<1>2. ContextDiesDoes(l)
  <2>1. Dies(l)
    BY DEF ContextDies, Dies, Sets, Shape, Typed
  <2>. QED BY <2>1 DEF ContextDies, Running, Fault, Blames
<1>3. Typed'
  BY <1>2 DEF Shape, Typed, Dies, Sets, Blames
<1>. QED BY <1>2, <1>3

\* Every step keeps the types, and a variable changes only by one of the
\* steps listed with it.
LEMMA Writers ==
  ASSUME Shape, [Next]_vars
  PROVE  /\ Typed' /\ scenario' = scenario
         /\ \/ entries' = entries
            \/ \E l \in Streams : ReserveDoes(l) \/ RetractEntryDoes(l) \/ AbandonDoes(l)
                                  \/ DropLeaseDoes(l) \/ WriterFailsDoes(l)
            \/ TakeEntriesDoes
         /\ \/ terminating' = terminating
            \/ TerminateDoes
         /\ \/ phase' = phase
            \/ \E l \in Streams : ReserveDoes(l) \/ RetractElectionDoes(l) \/ DrainDoes(l)
                                  \/ DeliveredOpeningDoes(l) \/ DropElectionDoes(l)
                                  \/ TerminateEntryDoes(l) \/ CancelModernHttpOwnerDoes(l)
            \/ \E p \in Publishers : DeliveredEventDoes(p)
            \/ \E p \in Publishers, l \in Streams : QueueDoes(p, l) \/ OfferDoes(p, l)
            \/ \E a \in Actors : UnelectDoes(a)
         /\ \/ opening' = opening
            \/ \E l \in Streams : RetractElectionDoes(l) \/ DrainDoes(l)
                                  \/ DeliveredOpeningDoes(l) \/ DropElectionDoes(l)
                                  \/ TerminateEntryDoes(l) \/ CancelModernHttpOwnerDoes(l)
            \/ \E p \in Publishers : DeliveredEventDoes(p)
            \/ \E p \in Publishers, l \in Streams : QueueDoes(p, l)
         /\ \/ graceful' = graceful
            \/ \E a \in Actors : MarkGracefulDoes(a)
         /\ \/ word' = word
            \/ \E l \in Streams : AcknowledgeDoes(l) \/ RetractElectionDoes(l)
                                  \/ DeliverOpeningDoes(l) \/ AbandonDoes(l)
                                  \/ RespondStdioDoes(l) \/ RespondHttpDoes(l)
                                  \/ CommitResponseDoes(l) \/ WriterPopDoes(l)
                                  \/ WriterTrailerDoes(l) \/ CancelModernHttpOwnerDoes(l)
                                  \/ WriterAbortsDoes(l) \/ PeerCancelsDoes(l)
            \/ \E p \in Publishers : DeliverEventDoes(p) \/ DeliveredEventDoes(p)
            \/ \E p \in Publishers, l \in Streams : QueueDoes(p, l)
            \/ \E a \in Actors : SendControlDoes(a) \/ DecideDoes(a) \/ WakeDoes(a)
         /\ \/ live' = live
            \/ \E l \in Streams : WriterAbortsDoes(l) \/ ContextDiesDoes(l)
         /\ \/ receipt' = receipt
            \/ \E l \in Streams : AcknowledgeDoes(l) \/ AdmitStreamDoes(l)
                                  \/ RetractElectionDoes(l) \/ DeliverOpeningDoes(l)
                                  \/ AbandonDoes(l) \/ ListenReturnDoes(l)
                                  \/ RespondHttpDoes(l) \/ CommitResponseDoes(l)
                                  \/ TerminateEntryDoes(l) \/ WriterIdleDoes(l)
                                  \/ WriterFlushDoes(l) \/ WriterTrailerDoes(l)
                                  \/ WriterFailsDoes(l)
            \/ \E p \in Publishers : DeliverEventDoes(p) \/ DeliveredEventDoes(p)
            \/ \E p \in Publishers, l \in Streams : QueueDoes(p, l)
            \/ \E a \in Actors : SendControlDoes(a) \/ DecideDoes(a)
            \/ DrainReceiptsDoes
         /\ \/ body' = body
            \/ \E l \in Streams : AcknowledgeDoes(l) \/ DeliverOpeningDoes(l)
                                  \/ RespondStdioDoes(l) \/ CommitResponseDoes(l)
                                  \/ WriterPopDoes(l) \/ WriterFlushDoes(l)
                                  \/ WriterTrailerDoes(l) \/ WriterAbortsDoes(l)
            \/ \E p \in Publishers : DeliverEventDoes(p)
            \/ \E a \in Actors : SendControlDoes(a)
         /\ \/ gate' = gate
            \/ \E l \in Streams : AcknowledgeDoes(l) \/ RespondHttpDoes(l)
                                  \/ ElectOutcomeDoes(l)
         /\ \/ writer' = writer
            \/ \E l \in Streams : WriterAwaitDoes(l) \/ WriterHeadDoes(l)
                                  \/ WriterPopDoes(l) \/ WriterIdleDoes(l)
                                  \/ WriterFlushDoes(l) \/ WriterBreaksDoes(l)
                                  \/ WriterTrailerDoes(l) \/ WriterFailsDoes(l)
                                  \/ CancelModernHttpOwnerDoes(l) \/ WriterAbortsDoes(l)
         /\ \/ pc' = pc
            \/ \E l \in Streams : ListenDoes(l) \/ CheckOpenDoes(l) \/ ReserveDoes(l)
                                  \/ AcknowledgeDoes(l) \/ AdmitStreamDoes(l)
                                  \/ RetractEntryDoes(l) \/ RetractElectionDoes(l)
                                  \/ DrainDoes(l) \/ DeliverOpeningDoes(l)
                                  \/ DeliveredOpeningDoes(l) \/ AbandonDoes(l)
                                  \/ DropHandleDoes(l) \/ ListenStartDoes(l)
                                  \/ ListenPollDoes(l) \/ ListenParkedDoes(l)
                                  \/ ListenHoldDoes(l) \/ ListenSettleDoes(l)
                                  \/ ListenReturnDoes(l) \/ DropLeaseDoes(l)
                                  \/ DropElectionDoes(l) \/ RespondStdioDoes(l)
                                  \/ ReturnLocalDoes(l) \/ RespondHttpDoes(l)
                                  \/ CommitResponseDoes(l) \/ ElectOutcomeDoes(l)
                                  \/ TerminateEntryDoes(l)
            \/ \E p \in Publishers : DeliverEventDoes(p) \/ DeliveredEventDoes(p)
            \/ \E p \in Publishers, l \in Streams : OfferDoes(p, l)
            \/ \E a \in Actors : SendControlDoes(a) \/ DecideDoes(a) \/ UnelectDoes(a)
                                 \/ MarkGracefulDoes(a) \/ WakeDoes(a)
            \/ TerminateDoes \/ TakeEntriesDoes \/ DrainReceiptsDoes
         /\ \/ job' = job
            \/ \E l \in Streams : DrainDoes(l) \/ DeliverOpeningDoes(l)
                                  \/ RespondHttpDoes(l) \/ CommitResponseDoes(l)
                                  \/ TerminateEntryDoes(l)
            \/ \E p \in Publishers : PublishDoes(p) \/ DeliverEventDoes(p)
            \/ \E p \in Publishers, l \in Streams : OfferDoes(p, l)
            \/ \E a \in Actors : SendControlDoes(a)
         /\ \/ todo' = todo
            \/ \E l \in Streams : TerminateEntryDoes(l)
            \/ \E p \in Publishers : PublishDoes(p)
            \/ \E p \in Publishers, l \in Streams : QueueDoes(p, l) \/ OfferDoes(p, l)
                                                    \/ SkipDoes(p, l)
            \/ TakeEntriesDoes
         /\ \/ outcome' = outcome
            \/ \E l \in Streams : CheckOpenDoes(l) \/ ReserveDoes(l)
                                  \/ RetractElectionDoes(l) \/ AbandonDoes(l)
                                  \/ ListenHoldDoes(l) \/ ListenReturnDoes(l)
            \/ \E a \in Actors : UnelectDoes(a)
         /\ \/ owed' = owed
            \/ \E l \in Streams : TerminateEntryDoes(l)
            \/ \E a \in Actors : WakeDoes(a)
         /\ \/ admitted' = admitted
            \/ \E p \in Publishers, l \in Streams : QueueDoes(p, l)
         /\ \/ faulted' = faulted
            \/ \E l \in Streams : AcknowledgeDoes(l) \/ DeliverOpeningDoes(l)
                                  \/ DropHandleDoes(l) \/ RespondStdioDoes(l)
                                  \/ CommitResponseDoes(l) \/ WriterBreaksDoes(l)
                                  \/ PeerCancelsDoes(l) \/ ContextDiesDoes(l)
            \/ \E p \in Publishers : DeliverEventDoes(p)
            \/ \E p \in Publishers, l \in Streams : QueueDoes(p, l)
            \/ \E a \in Actors : SendControlDoes(a)
            \/ DrainReceiptsDoes
<1>1. ASSUME NEW l \in Streams, Listen(l)
      PROVE  Typed' /\ ListenDoes(l)
             /\ UNCHANGED << scenario, entries, terminating, phase, opening, graceful, word,
                         live, receipt, body, gate, writer, job, todo, outcome, owed,
                         admitted, faulted>>
  BY <1>1, ListenEffect DEF ListenDoes
<1>2. ASSUME NEW l \in Streams, CheckOpen(l)
      PROVE  Typed' /\ CheckOpenDoes(l)
             /\ UNCHANGED << scenario, entries, terminating, phase, opening, graceful, word,
                         live, receipt, body, gate, writer, job, todo, owed, admitted,
                         faulted>>
  BY <1>2, CheckOpenEffect DEF CheckOpenDoes
<1>3. ASSUME NEW l \in Streams, Reserve(l)
      PROVE  Typed' /\ ReserveDoes(l)
             /\ UNCHANGED << scenario, terminating, opening, graceful, word, live, receipt,
                         body, gate, writer, job, todo, owed, admitted, faulted>>
  BY <1>3, ReserveEffect DEF ReserveDoes
<1>4. ASSUME NEW l \in Streams, Acknowledge(l)
      PROVE  Typed' /\ AcknowledgeDoes(l)
             /\ UNCHANGED << scenario, entries, terminating, phase, opening, graceful, live,
                         writer, job, todo, outcome, owed, admitted>>
  BY <1>4, AcknowledgeEffect DEF AcknowledgeDoes
<1>5. ASSUME NEW l \in Streams, AdmitStream(l)
      PROVE  Typed' /\ AdmitStreamDoes(l)
             /\ UNCHANGED << scenario, entries, terminating, phase, opening, graceful, word,
                         live, body, gate, writer, job, todo, outcome, owed, admitted,
                         faulted>>
  BY <1>5, AdmitStreamEffect DEF AdmitStreamDoes
<1>6. ASSUME NEW l \in Streams, RetractEntry(l)
      PROVE  Typed' /\ RetractEntryDoes(l)
             /\ UNCHANGED << scenario, terminating, phase, opening, graceful, word, live,
                         receipt, body, gate, writer, job, todo, outcome, owed, admitted,
                         faulted>>
  BY <1>6, RetractEntryEffect DEF RetractEntryDoes
<1>7. ASSUME NEW l \in Streams, RetractElection(l)
      PROVE  Typed' /\ RetractElectionDoes(l)
             /\ UNCHANGED << scenario, entries, terminating, graceful, live, body, gate,
                         writer, job, todo, owed, admitted, faulted>>
  BY <1>7, RetractElectionEffect DEF RetractElectionDoes
<1>8. ASSUME NEW l \in Streams, Drain(l)
      PROVE  Typed' /\ DrainDoes(l)
             /\ UNCHANGED << scenario, entries, terminating, graceful, word, live, receipt,
                         body, gate, writer, todo, outcome, owed, admitted, faulted>>
  BY <1>8, DrainEffect DEF DrainDoes
<1>9. ASSUME NEW l \in Streams, DeliverOpening(l)
      PROVE  Typed' /\ DeliverOpeningDoes(l)
             /\ UNCHANGED << scenario, entries, terminating, phase, opening, graceful, live,
                         gate, writer, todo, outcome, owed, admitted>>
  BY <1>9, DeliverOpeningEffect DEF DeliverOpeningDoes
<1>10. ASSUME NEW l \in Streams, DeliveredOpening(l)
      PROVE  Typed' /\ DeliveredOpeningDoes(l)
             /\ UNCHANGED << scenario, entries, terminating, graceful, word, live, receipt,
                         body, gate, writer, job, todo, outcome, owed, admitted, faulted>>
  BY <1>10, DeliveredOpeningEffect DEF DeliveredOpeningDoes
<1>11. ASSUME NEW l \in Streams, Abandon(l)
      PROVE  Typed' /\ AbandonDoes(l)
             /\ UNCHANGED << scenario, terminating, phase, opening, graceful, live, body,
                         gate, writer, job, todo, owed, admitted, faulted>>
  BY <1>11, AbandonEffect DEF AbandonDoes
<1>12. ASSUME NEW l \in Streams, DropHandle(l)
      PROVE  Typed' /\ DropHandleDoes(l)
             /\ UNCHANGED << scenario, entries, terminating, phase, opening, graceful, word,
                         live, receipt, body, gate, writer, job, todo, outcome, owed,
                         admitted>>
  BY <1>12, DropHandleEffect DEF DropHandleDoes
<1>13. ASSUME NEW l \in Streams, ListenStart(l)
      PROVE  Typed' /\ ListenStartDoes(l)
             /\ UNCHANGED << scenario, entries, terminating, phase, opening, graceful, word,
                         live, receipt, body, gate, writer, job, todo, outcome, owed,
                         admitted, faulted>>
  BY <1>13, ListenStartEffect DEF ListenStartDoes
<1>14. ASSUME NEW l \in Streams, ListenPoll(l)
      PROVE  Typed' /\ ListenPollDoes(l)
             /\ UNCHANGED << scenario, entries, terminating, phase, opening, graceful, word,
                         live, receipt, body, gate, writer, job, todo, outcome, owed,
                         admitted, faulted>>
  BY <1>14, ListenPollEffect DEF ListenPollDoes
<1>15. ASSUME NEW l \in Streams, ListenParked(l)
      PROVE  Typed' /\ ListenParkedDoes(l)
             /\ UNCHANGED << scenario, entries, terminating, phase, opening, graceful, word,
                         live, receipt, body, gate, writer, job, todo, outcome, owed,
                         admitted, faulted>>
  BY <1>15, ListenParkedEffect DEF ListenParkedDoes
<1>16. ASSUME NEW l \in Streams, ListenHold(l)
      PROVE  Typed' /\ ListenHoldDoes(l)
             /\ UNCHANGED << scenario, entries, terminating, phase, opening, graceful, word,
                         live, receipt, body, gate, writer, job, todo, owed, admitted,
                         faulted>>
  BY <1>16, ListenHoldEffect DEF ListenHoldDoes
<1>17. ASSUME NEW l \in Streams, ListenSettle(l)
      PROVE  Typed' /\ ListenSettleDoes(l)
             /\ UNCHANGED << scenario, entries, terminating, phase, opening, graceful, word,
                         live, receipt, body, gate, writer, job, todo, outcome, owed,
                         admitted, faulted>>
  BY <1>17, ListenSettleEffect DEF ListenSettleDoes
<1>18. ASSUME NEW l \in Streams, ListenReturn(l)
      PROVE  Typed' /\ ListenReturnDoes(l)
             /\ UNCHANGED << scenario, entries, terminating, phase, opening, graceful, word,
                         live, body, gate, writer, job, todo, owed, admitted, faulted>>
  BY <1>18, ListenReturnEffect DEF ListenReturnDoes
<1>19. ASSUME NEW l \in Streams, DropLease(l)
      PROVE  Typed' /\ DropLeaseDoes(l)
             /\ UNCHANGED << scenario, terminating, phase, opening, graceful, word, live,
                         receipt, body, gate, writer, job, todo, outcome, owed, admitted,
                         faulted>>
  BY <1>19, DropLeaseEffect DEF DropLeaseDoes
<1>20. ASSUME NEW l \in Streams, DropElection(l)
      PROVE  Typed' /\ DropElectionDoes(l)
             /\ UNCHANGED << scenario, entries, terminating, graceful, word, live, receipt,
                         body, gate, writer, job, todo, outcome, owed, admitted, faulted>>
  BY <1>20, DropElectionEffect DEF DropElectionDoes
<1>21. ASSUME NEW l \in Streams, RespondStdio(l)
      PROVE  Typed' /\ RespondStdioDoes(l)
             /\ UNCHANGED << scenario, entries, terminating, phase, opening, graceful, live,
                         receipt, gate, writer, job, todo, outcome, owed, admitted>>
  BY <1>21, RespondStdioEffect DEF RespondStdioDoes
<1>22. ASSUME NEW l \in Streams, ReturnLocal(l)
      PROVE  Typed' /\ ReturnLocalDoes(l)
             /\ UNCHANGED << scenario, entries, terminating, phase, opening, graceful, word,
                         live, receipt, body, gate, writer, job, todo, outcome, owed,
                         admitted, faulted>>
  BY <1>22, ReturnLocalEffect DEF ReturnLocalDoes
<1>23. ASSUME NEW l \in Streams, RespondHttp(l)
      PROVE  Typed' /\ RespondHttpDoes(l)
             /\ UNCHANGED << scenario, entries, terminating, phase, opening, graceful, live,
                         body, writer, todo, outcome, owed, admitted, faulted>>
  BY <1>23, RespondHttpEffect DEF RespondHttpDoes
<1>24. ASSUME NEW l \in Streams, CommitResponse(l)
      PROVE  Typed' /\ CommitResponseDoes(l)
             /\ UNCHANGED << scenario, entries, terminating, phase, opening, graceful, live,
                         gate, writer, todo, outcome, owed, admitted>>
  BY <1>24, CommitResponseEffect DEF CommitResponseDoes
<1>25. ASSUME NEW l \in Streams, ElectOutcome(l)
      PROVE  Typed' /\ ElectOutcomeDoes(l)
             /\ UNCHANGED << scenario, entries, terminating, phase, opening, graceful, word,
                         live, receipt, body, writer, job, todo, outcome, owed, admitted,
                         faulted>>
  BY <1>25, ElectOutcomeEffect DEF ElectOutcomeDoes
<1>26. ASSUME NEW a \in Actors, SendControl(a)
      PROVE  Typed' /\ SendControlDoes(a)
             /\ UNCHANGED << scenario, entries, terminating, phase, opening, graceful, live,
                         gate, writer, todo, outcome, owed, admitted>>
  BY <1>26, SendControlEffect DEF SendControlDoes
<1>27. ASSUME NEW a \in Actors, Decide(a)
      PROVE  Typed' /\ DecideDoes(a)
             /\ UNCHANGED << scenario, entries, terminating, phase, opening, graceful, live,
                         body, gate, writer, job, todo, outcome, owed, admitted, faulted>>
  BY <1>27, DecideEffect DEF DecideDoes
<1>28. ASSUME NEW a \in Actors, Unelect(a)
      PROVE  Typed' /\ UnelectDoes(a)
             /\ UNCHANGED << scenario, entries, terminating, opening, graceful, word, live,
                         receipt, body, gate, writer, job, todo, owed, admitted, faulted>>
  BY <1>28, UnelectEffect DEF UnelectDoes
<1>29. ASSUME NEW a \in Actors, MarkGraceful(a)
      PROVE  Typed' /\ MarkGracefulDoes(a)
             /\ UNCHANGED << scenario, entries, terminating, phase, opening, word, live,
                         receipt, body, gate, writer, job, todo, outcome, owed, admitted,
                         faulted>>
  BY <1>29, MarkGracefulEffect DEF MarkGracefulDoes
<1>30. ASSUME NEW a \in Actors, Wake(a)
      PROVE  Typed' /\ WakeDoes(a)
             /\ UNCHANGED << scenario, entries, terminating, phase, opening, graceful, live,
                         receipt, body, gate, writer, job, todo, outcome, admitted, faulted>>
  BY <1>30, WakeEffect DEF WakeDoes
<1>31. ASSUME NEW p \in Publishers, Publish(p)
      PROVE  Typed' /\ PublishDoes(p)
             /\ UNCHANGED << scenario, entries, terminating, phase, opening, graceful, word,
                         live, receipt, body, gate, writer, pc, outcome, owed, admitted,
                         faulted>>
  BY <1>31, PublishEffect DEF PublishDoes
<1>32. ASSUME NEW p \in Publishers, NEW l \in Streams, Queue(p, l)
      PROVE  Typed' /\ QueueDoes(p, l)
             /\ UNCHANGED << scenario, entries, terminating, graceful, live, body, gate,
                         writer, pc, job, outcome, owed>>
  BY <1>32, QueueEffect DEF QueueDoes
<1>33. ASSUME NEW p \in Publishers, NEW l \in Streams, Offer(p, l)
      PROVE  Typed' /\ OfferDoes(p, l)
             /\ UNCHANGED << scenario, entries, terminating, opening, graceful, word, live,
                         receipt, body, gate, writer, outcome, owed, admitted, faulted>>
  BY <1>33, OfferEffect DEF OfferDoes
<1>34. ASSUME NEW p \in Publishers, NEW l \in Streams, Skip(p, l)
      PROVE  Typed' /\ SkipDoes(p, l)
             /\ UNCHANGED << scenario, entries, terminating, phase, opening, graceful, word,
                         live, receipt, body, gate, writer, pc, job, outcome, owed,
                         admitted, faulted>>
  BY <1>34, SkipEffect DEF SkipDoes
<1>35. ASSUME NEW p \in Publishers, DeliverEvent(p)
      PROVE  Typed' /\ DeliverEventDoes(p)
             /\ UNCHANGED << scenario, entries, terminating, phase, opening, graceful, live,
                         gate, writer, todo, outcome, owed, admitted>>
  BY <1>35, DeliverEventEffect DEF DeliverEventDoes
<1>36. ASSUME NEW p \in Publishers, DeliveredEvent(p)
      PROVE  Typed' /\ DeliveredEventDoes(p)
             /\ UNCHANGED << scenario, entries, terminating, graceful, live, body, gate,
                         writer, job, todo, outcome, owed, admitted, faulted>>
  BY <1>36, DeliveredEventEffect DEF DeliveredEventDoes
<1>37. ASSUME Terminate
      PROVE  Typed' /\ TerminateDoes
             /\ UNCHANGED << scenario, entries, phase, opening, graceful, word, live,
                         receipt, body, gate, writer, job, todo, outcome, owed, admitted,
                         faulted>>
  BY <1>37, TerminateEffect DEF TerminateDoes
<1>38. ASSUME TakeEntries
      PROVE  Typed' /\ TakeEntriesDoes
             /\ UNCHANGED << scenario, terminating, phase, opening, graceful, word, live,
                         receipt, body, gate, writer, job, outcome, owed, admitted, faulted>>
  BY <1>38, TakeEntriesEffect DEF TakeEntriesDoes
<1>39. ASSUME NEW l \in Streams, TerminateEntry(l)
      PROVE  Typed' /\ TerminateEntryDoes(l)
             /\ UNCHANGED << scenario, entries, terminating, graceful, word, live, body,
                         gate, writer, outcome, admitted, faulted>>
  BY <1>39, TerminateEntryEffect DEF TerminateEntryDoes
<1>40. ASSUME DrainReceipts
      PROVE  Typed' /\ DrainReceiptsDoes
             /\ UNCHANGED << scenario, entries, terminating, phase, opening, graceful, word,
                         live, body, gate, writer, job, todo, outcome, owed, admitted>>
  BY <1>40, DrainReceiptsEffect DEF DrainReceiptsDoes
<1>41. ASSUME NEW l \in Streams, WriterAwait(l)
      PROVE  Typed' /\ WriterAwaitDoes(l)
             /\ UNCHANGED << scenario, entries, terminating, phase, opening, graceful, word,
                         live, receipt, body, gate, pc, job, todo, outcome, owed, admitted,
                         faulted>>
  BY <1>41, WriterAwaitEffect DEF WriterAwaitDoes
<1>42. ASSUME NEW l \in Streams, WriterHead(l)
      PROVE  Typed' /\ WriterHeadDoes(l)
             /\ UNCHANGED << scenario, entries, terminating, phase, opening, graceful, word,
                         live, receipt, body, gate, pc, job, todo, outcome, owed, admitted,
                         faulted>>
  BY <1>42, WriterHeadEffect DEF WriterHeadDoes
<1>43. ASSUME NEW l \in Streams, WriterPop(l)
      PROVE  Typed' /\ WriterPopDoes(l)
             /\ UNCHANGED << scenario, entries, terminating, phase, opening, graceful, live,
                         receipt, gate, pc, job, todo, outcome, owed, admitted, faulted>>
  BY <1>43, WriterPopEffect DEF WriterPopDoes
<1>44. ASSUME NEW l \in Streams, WriterIdle(l)
      PROVE  Typed' /\ WriterIdleDoes(l)
             /\ UNCHANGED << scenario, entries, terminating, phase, opening, graceful, word,
                         live, body, gate, pc, job, todo, outcome, owed, admitted, faulted>>
  BY <1>44, WriterIdleEffect DEF WriterIdleDoes
<1>45. ASSUME NEW l \in Streams, WriterFlush(l)
      PROVE  Typed' /\ WriterFlushDoes(l)
             /\ UNCHANGED << scenario, entries, terminating, phase, opening, graceful, word,
                         live, gate, pc, job, todo, outcome, owed, admitted, faulted>>
  BY <1>45, WriterFlushEffect DEF WriterFlushDoes
<1>46. ASSUME NEW l \in Streams, WriterBreaks(l)
      PROVE  Typed' /\ WriterBreaksDoes(l)
             /\ UNCHANGED << scenario, entries, terminating, phase, opening, graceful, word,
                         live, receipt, body, gate, pc, job, todo, outcome, owed, admitted>>
  BY <1>46, WriterBreaksEffect DEF WriterBreaksDoes
<1>47. ASSUME NEW l \in Streams, WriterTrailer(l)
      PROVE  Typed' /\ WriterTrailerDoes(l)
             /\ UNCHANGED << scenario, entries, terminating, phase, opening, graceful, live,
                         gate, pc, job, todo, outcome, owed, admitted, faulted>>
  BY <1>47, WriterTrailerEffect DEF WriterTrailerDoes
<1>48. ASSUME NEW l \in Streams, WriterFails(l)
      PROVE  Typed' /\ WriterFailsDoes(l)
             /\ UNCHANGED << scenario, terminating, phase, opening, graceful, word, live,
                         body, gate, pc, job, todo, outcome, owed, admitted, faulted>>
  BY <1>48, WriterFailsEffect DEF WriterFailsDoes
<1>49. ASSUME NEW l \in Streams, CancelModernHttpOwner(l)
      PROVE  Typed' /\ CancelModernHttpOwnerDoes(l)
             /\ UNCHANGED << scenario, entries, terminating, graceful, live, receipt, body,
                         gate, pc, job, todo, outcome, owed, admitted, faulted>>
  BY <1>49, CancelModernHttpOwnerEffect DEF CancelModernHttpOwnerDoes
<1>50. ASSUME NEW l \in Streams, WriterAborts(l)
      PROVE  Typed' /\ WriterAbortsDoes(l)
             /\ UNCHANGED << scenario, entries, terminating, phase, opening, graceful,
                         receipt, gate, pc, job, todo, outcome, owed, admitted, faulted>>
  BY <1>50, WriterAbortsEffect DEF WriterAbortsDoes
<1>51. ASSUME NEW l \in Streams, PeerCancels(l)
      PROVE  Typed' /\ PeerCancelsDoes(l)
             /\ UNCHANGED << scenario, entries, terminating, phase, opening, graceful, live,
                         receipt, body, gate, writer, pc, job, todo, outcome, owed, admitted>>
  BY <1>51, PeerCancelsEffect DEF PeerCancelsDoes
<1>52. ASSUME NEW l \in Streams, ContextDies(l)
      PROVE  Typed' /\ ContextDiesDoes(l)
             /\ UNCHANGED << scenario, entries, terminating, phase, opening, graceful, word,
                         receipt, body, gate, writer, pc, job, todo, outcome, owed, admitted>>
  BY <1>52, ContextDiesEffect DEF ContextDiesDoes
<1>53. CASE UNCHANGED vars
  BY <1>53 DEF vars, Shape, Typed, registry, election, request, transport, history
<1>. QED BY <1>1, <1>2, <1>3, <1>4, <1>5, <1>6, <1>7, <1>8, <1>9, <1>10, <1>11, <1>12,
         <1>13, <1>14, <1>15, <1>16, <1>17, <1>18, <1>19, <1>20, <1>21, <1>22, <1>23, <1>24,
         <1>25, <1>26, <1>27, <1>28, <1>29, <1>30, <1>31, <1>32, <1>33, <1>34, <1>35, <1>36,
         <1>37, <1>38, <1>39, <1>40, <1>41, <1>42, <1>43, <1>44, <1>45, <1>46, <1>47, <1>48,
         <1>49, <1>50, <1>51, <1>52, <1>53, SMTT(40)
         DEF Next, OpenerStep, ListenerStep, CompletionStep, PublisherStep, ServerStep, WriterStep

-----------------------------------------------------------------------------
(* The invariant of the election. *)

\* Before the stream is registered; after it was acknowledged; on the way
\* there; and the labels at which the registry owes the listener an end.
Early == {"idle", "check", "reserve"}
Leased == Waits \cup Leaving
Placing == {"ack", "admit", "retract", "retracted", "drain"}
Held == {"ack", "admit", "drain", "deliver", "delivered"} \cup Waits

\* A stream whose listener has not reserved an entry is untouched.
Fresh ==
  \A l \in Streams : pc[l] \in Early =>
    /\ phase[l].at = "Opening" /\ writer[l] # "revoke"
    /\ l \notin entries /\ \A a \in Owners : l \notin todo[a]

\* The phase of a stream tells how far its listener has come.
Stages ==
  \A l \in Streams :
    /\ pc[l] \in Placing => phase[l].at \in {"Opening", "Pending", "PeerTerminated"}
    /\ pc[l] \in InSender => phase[l].at \in {"OpeningDelivery", "Pending", "PeerTerminated"}
    /\ pc[l] = "abandon" => phase[l].at = "PeerTerminated"
    /\ phase[l].at = "OpeningDelivery" => pc[l] \in InSender
    /\ phase[l].at \in {"Active", "EventDelivery"} => pc[l] \in Leased
    /\ phase[l].at \notin {"EventDelivery", "Pending"} => phase[l].n = 0

\* A publisher is in a callback only on a stream that was acknowledged and
\* drained.
Callbacks ==
  \A l \in Streams, p \in Publishers : pc[p] \in InSender /\ job[p].on = l =>
    /\ pc[l] \in Leased
    /\ phase[l].at \in {"EventDelivery", "Pending", "PeerTerminated"}

\* The counter of a phase is the number of callbacks in flight.
CountedAt(l) ==
  phase[l].at \in {"EventDelivery", "Pending"} => phase[l].n = Cardinality(InCallback(l))
Counted == \A l \in Streams : CountedAt(l)

\* One actor at a time completes a termination, and only one that was
\* elected.
Completion ==
  /\ \A l \in Streams, a \in Actors : pc[a] \in Completing /\ job[a].on = l =>
       /\ phase[l].at = "ServerTerminated"
       /\ pc[a] # "wake" => ~graceful[l]
       /\ \A b \in Actors : pc[b] \in Completing /\ job[b].on = l => b = a
  /\ \A l \in Streams : graceful[l] => phase[l].at = "ServerTerminated"

\* The server elects an end only after it took the entries.
Shutdown ==
  /\ terminating <=> pc[Server] # "idle"
  /\ pc[Server] \in {"idle", "take"} =>
       /\ todo[Server] = {}
       /\ \A l \in Streams : phase[l].at \notin {"Pending", "ServerTerminated"}
  /\ pc[Server] \notin {"idle", "take"} => entries = {}

\* A stream that is open is registered, still to be visited, or being
\* revoked.
Kept ==
  \A l \in Streams : phase[l].at \in Open4 /\ pc[l] \in Held =>
    l \in entries \/ l \in todo[Server] \/ writer[l] = "revoke"

\* Neither the registry nor an opening queue outgrows its limit.
FewEntries == Cardinality(entries) <= MaxStreams
ShortQueues == \A l \in Streams : Len(opening[l]) <= MaxOpening

\* The inductive invariant behind the election of a stream's end.
EInv == /\ Shape /\ Fresh /\ Stages /\ Callbacks /\ Counted /\ Completion /\ Shutdown /\ Kept
        /\ FewEntries /\ ShortQueues

-----------------------------------------------------------------------------
(* The invariant of the end. *)

\* A frame of one of the kinds K was sent.
Shows(s, K) == \E i \in DOMAIN s : s[i].kind \in K
Has(l, K) == Shows(body[l].frames, K)
Responses == {"complete", "error"}
Ending == {"respond", "commit", "elect", "done"}

\* How a listen request returned agrees with where its listener and its entry
\* are.
Returned ==
  \A l \in Streams :
    /\ pc[l] \notin {"drop", "dropped"} \cup Ending => outcome[l] = "none"
    /\ outcome[l] = "complete" => graceful[l]
    /\ outcome[l] = "refused" =>
         /\ pc[l] \in Ending /\ phase[l].at = "Opening" /\ writer[l] # "revoke"
         /\ l \notin entries /\ \A a \in Owners : l \notin todo[a]
    /\ outcome[l] = "error" => l \in faulted
    /\ word[l] = "finalizing" => pc[l] \in {"commit", "elect", "done"}
    /\ pc[l] \in {"commit", "elect"} => Kind[l] = "http"
    /\ writer[l] # "off" <=> Kind[l] = "http"

\* The stream was broken, closed gracefully, or never registered.
Blamed(l) == l \in faulted \/ graceful[l] \/ outcome[l] = "refused"

\* Whatever stops a listener has a cause.
Signals ==
  \A l \in Streams :
    IsCancelled(l) \/ ~live[l] \/ phase[l].at = "PeerTerminated" => Blamed(l)

\* A receipt, the transport or the writer fails only on a stream that is
\* blamed.
Receipted ==
  \A l \in Streams :
    /\ receipt[l].control = "failed" \/ receipt[l].completion = "failed" => Blamed(l)
    /\ receipt[l].completion \in {"enqueued", "drained"} => outcome[l] = "complete"
Torn ==
  \A l \in Streams : gate[l] = "failed" \/ body[l].failed \/ body[l].closed => Blamed(l)
Dismissed ==
  \A l \in Streams :
    writer[l] \in {"trailer", "error", "revoke", "abort", "done"} => Blamed(l)

\* A response is sent last, by the dispatcher, on a stream that has ended.
Responded ==
  \A l \in Streams :
    Has(l, Responses) => Blamed(l) /\ pc[l] \in {"elect", "done"} /\ Kind[l] # "local"
Broken == Receipted /\ Torn /\ Dismissed /\ Responded

\* A listener leaves its loop, and a completion fails, only on a stream that
\* is blamed.
Leaves ==
  /\ \A l \in Streams :
       /\ pc[l] \in {"retract", "retracted", "abandon"} \cup Leaving => Blamed(l)
       /\ pc[l] = "elect" /\ ~job[l].sent => Blamed(l)
  /\ \A l \in Streams, a \in Actors : job[a].on = l =>
       /\ pc[a] = "unelect" => Blamed(l)
       /\ pc[a] = "delivered" /\ ~job[a].sent => Blamed(l)
       /\ pc[a] = "decide" /\ ~job[a].sent /\ Kind[l] # "http" => Blamed(l)
       /\ pc[a] = "wake" => graceful[l]

\* The writer flushes what it took, and takes what was committed; a completed
\* request is not answered with an error.
Flushing ==
  \A l \in Streams :
    /\ body[l].flushed <= body[l].popped /\ body[l].popped <= Len(body[l].frames)
    /\ writer[l] = "write" => body[l].popped > 0
    /\ outcome[l] = "complete" => ~Has(l, {"error"})

-----------------------------------------------------------------------------
(* The invariant of the contract. *)

\* Nothing was sent before the acknowledgement.
Pristine ==
  \A l \in Streams : pc[l] \in Early \cup {"ack"} =>
    /\ body[l].frames = <<>> /\ ~body[l].failed /\ ~body[l].committed
    /\ receipt[l].control \in {"open", "failed"}

\* The acknowledgement is on the stream, or nothing more can be sent on it.
Acked(l) ==
  \/ Has(l, {"ack"})
  \/ Kind[l] = "stdio" /\ IsCancelled(l)
  \/ Kind[l] = "http" /\ body[l].failed /\ IsCancelled(l) /\ receipt[l].control = "failed"

\* Nobody can send on the stream yet.
Unacked(l) ==
  /\ pc[l] \in Early \cup {"ack", "retract", "retracted"} \cup Ending
  /\ phase[l].at \in {"Opening", "Pending", "PeerTerminated"}
  /\ \A p \in Publishers : ~(pc[p] \in InSender /\ job[p].on = l)

\* Whoever can send on a stream finds its acknowledgement there.
Greeted == \A l \in Streams : Acked(l) \/ Unacked(l)

\* A graceful end follows an acknowledgement.
Polite ==
  /\ \A l \in Streams : graceful[l] => Has(l, {"ack"})
  /\ \A l \in Streams, a \in Actors : pc[a] = "graceful" /\ job[a].on = l => Has(l, {"ack"})

\* No event or control is on its way to the stream.
Resting(l) ==
  /\ phase[l].at \notin {"Active", "EventDelivery"}
  /\ pc[l] \notin InSender
  /\ \A p \in Publishers : ~(pc[p] \in InSender /\ job[p].on = l)
  /\ \A a \in Actors : ~(pc[a] = "control" /\ job[a].on = l)

\* The terminal control is the last thing a callback sends.
Withdrawn ==
  \A l \in Streams : Has(l, {"control"}) => Resting(l) /\ phase[l].at \in {"ServerTerminated", "PeerTerminated"}

\* A termination that is taken back leaves a cancelled or answered request.
Unelected ==
  \A l \in Streams, a \in Actors : pc[a] = "unelect" /\ job[a].on = l =>
    IsCancelled(l) \/ pc[l] \in {"commit", "elect", "done"}

\* A listener that waits on a stream its peer ended has been cancelled.
Quiet ==
  \A l \in Streams :
    phase[l].at = "PeerTerminated" /\ pc[l] \in Waits \cup {"exiting", "ending"} => IsCancelled(l)

\* A stdio listener responds when nothing more can be sent.
Departed ==
  \A l \in Streams :
    Kind[l] = "stdio" /\ pc[l] \in Leaving => IsCancelled(l) \/ ~live[l] \/ Resting(l)

\* An http body that carries a response takes nothing more.
Answered ==
  \A l \in Streams :
    /\ ~Has(l, {"none"})
    /\ Kind[l] = "http" /\ Has(l, Responses) => body[l].committed

\* The inductive invariants of the end and of the contract of a stream.
EndInv == EInv /\ Returned /\ Signals /\ Leaves /\ Broken /\ Flushing /\ DrainedIsFlushed
WireInv == /\ EndInv /\ Pristine /\ Greeted /\ Polite /\ Withdrawn /\ Unelected /\ Quiet /\ Departed
           /\ Answered

-----------------------------------------------------------------------------
(* The invariant of the order. *)

\* The phases before a stream is active.
Unopened == {"Opening", "OpeningDelivery"}

\* The events among the first i frames of s, and among all of them.
RankIn(s, i) == Cardinality({j \in 1..i : IsEvent(s[j])})
Total(s) == RankIn(s, Len(s))
Occurs(e, s) == \E i \in DOMAIN s : s[i] = e

\* The events a listener still owes its stream: the one in its hand, then its
\* opening queue.
LineOf(d, e, q) == IF d THEN <<e>> \o q ELSE q
Line(l) == LineOf(pc[l] = "deliver", job[l].event, opening[l])

\* Only a stream that is still opening has a queue.
Queued == \A l \in Streams : opening[l] # <<>> => phase[l].at \in Unopened

\* The publisher's newest event is still to reach the stream.
Due(p, l) == l \in todo[p] \/ (pc[p] = "deliver" /\ job[p].on = l)

\* A publisher holds its newest event while it is due, and visits a stream
\* once.
Published ==
  \A p \in Publishers :
    /\ todo[p] # {} \/ pc[p] = "deliver" => job[p].event = Frame("event", p, job[p].count)
    /\ pc[p] \in InSender => job[p].on \notin todo[p]

\* The event is on the stream, in the line, or was admitted to the queue.
Seen(l, e) == Occurs(e, body[l].frames) \/ Occurs(e, Line(l)) \/ Occurs(e, admitted[l])

\* No event is ahead of its publisher, and one that is still due was not
\* seen.
Bounded ==
  \A l \in Streams, p \in Publishers, e \in Frames : Seen(l, e) /\ IsEvent(e) /\ e.by = p =>
    e.nr <= job[p].count /\ (Due(p, l) => e.nr < job[p].count)

\* Two events of one publisher, in the order of their numbers.
Before(e, f) == e.by = f.by => e.nr < f.nr

\* Each publisher's events ascend along the stream and on through the line.
Ascending(s, q) ==
  /\ \A i, j \in DOMAIN s : i < j /\ IsEvent(s[i]) /\ IsEvent(s[j]) => Before(s[i], s[j])
  /\ \A i \in DOMAIN s, k \in DOMAIN q : IsEvent(s[i]) => Before(s[i], q[k])
  /\ \A j, k \in DOMAIN q : j < k => Before(q[j], q[k])

\* The line is what follows, in what was admitted, the events already on the
\* stream.
Aligned(s, q, a) ==
  \A k \in DOMAIN q : Total(s) + k <= Len(a) /\ a[Total(s) + k] = q[k]

\* The events on the stream are those admitted, in their order, then others.
Ordered(s, a) ==
  \A i \in DOMAIN s : IsEvent(s[i]) =>
    IF RankIn(s, i) <= Len(a) THEN s[i] = a[RankIn(s, i)] ELSE ~Occurs(s[i], a)

\* No publisher's events are swapped, on the stream or on their way to it.
Sorted == \A l \in Streams : Ascending(body[l].frames, Line(l))

\* The sender dropped the event in hand and its stream is about to end.
Stuck(l) == pc[l] = "delivered" /\ ~job[l].sent

\* A publisher may send on the stream itself.
Direct(l) ==
  \/ phase[l].at \in {"Active", "EventDelivery"}
  \/ \E p \in Publishers : pc[p] = "deliver" /\ job[p].on = l

\* While a stream takes frames its line is the rest of what was admitted.
Fed(l) ==
  ~Mute(l) /\ ~Stuck(l) =>
    /\ Aligned(body[l].frames, Line(l), admitted[l])
    /\ phase[l].at \in Unopened =>
         Len(admitted[l]) = Total(body[l].frames) + Len(Line(l))

\* Once publishers send on a stream, all that was admitted is on it.
Served(l) == Direct(l) /\ ~Mute(l) => Total(body[l].frames) >= Len(admitted[l])

\* Until then nothing else is.
Within(l) == phase[l].at \in Unopened => Total(body[l].frames) <= Len(admitted[l])
LinedUp ==
  \A l \in Streams : Fed(l) /\ Served(l) /\ Within(l) /\ Ordered(body[l].frames, admitted[l])

\* The inductive invariant of the order of events.
OrderInv == EndInv /\ Queued /\ Published /\ Bounded /\ Sorted /\ LinedUp

\* A step that leaves a stream's line as it is, or empties it at the end of
\* the stream.
StillAt(l) ==
  /\ opening'[l] = opening[l] \/ (opening'[l] = <<>> /\ phase'[l].at \notin Unopened)
  /\ admitted'[l] = admitted[l]
  /\ pc'[l] = "deliver" <=> pc[l] = "deliver"
  /\ pc[l] = "deliver" => job'[l].event = job[l].event
  /\ phase'[l].at \in Unopened => phase[l].at \in Unopened
  /\ phase'[l].at \in {"Active", "EventDelivery"} => phase[l].at \in {"Active", "EventDelivery"}
  /\ Stuck(l) => Stuck(l)' \/ phase'[l].at \notin Unopened
  /\ \A p \in Publishers : pc'[p] = "deliver" /\ job'[p].on = l =>
       (pc[p] = "deliver" /\ job[p].on = l) \/ phase[l].at \in {"Active", "EventDelivery"}

\* Three steps do otherwise.
Shifts(l) ==
  \/ StillAt(l) \/ DrainDoes(l) \/ DeliverOpeningDoes(l)
  \/ \E p \in Publishers : QueueDoes(p, l)
Shorter(r, q) == Len(r) <= Len(q) /\ \A k \in DOMAIN r : r[k] = q[k]

\* The line loses at most its end.
Keeps(l) ==
  /\ Shorter(Line(l)', Line(l)) /\ admitted'[l] = admitted[l]
  /\ phase'[l].at \in Unopened => phase[l].at \in Unopened /\ Len(Line(l)') = Len(Line(l))
  /\ Direct(l)' =>
       Direct(l) \/ (phase[l].at \in Unopened /\ Line(l) = <<>> /\ pc[l] = "drain")
  /\ Stuck(l) => Stuck(l)' \/ (Line(l)' = <<>> /\ phase'[l].at \notin Unopened)

\* No event is added to the stream.
SameEvents(l) ==
  \/ body'[l].frames = body[l].frames
  \/ \E f \in Frames : ~IsEvent(f) /\ body'[l].frames = Append(body[l].frames, f)

\* r is the line of an event in hand, or none, and a queue.
LineFits(d, e, q, r) ==
  /\ r \in Seq(Queueable) /\ Len(r) = IF d THEN Len(q) + 1 ELSE Len(q)
  /\ d => r[1] = e /\ \A k \in DOMAIN q : r[k + 1] = q[k]
  /\ ~d => r = q

\* A publisher's event joins the line.
Joins(p, l) ==
  /\ phase[l].at \in Unopened /\ l \in todo[p] /\ l \notin todo'[p] /\ pc[p] = "next"
  /\ Line(l)' = Append(Line(l), job[p].event)
  /\ admitted'[l] = Append(admitted[l], job[p].event)
  /\ UNCHANGED <<phase, pc, job, body, word>>

\* The head of the line goes to the stream.
Leads(l) ==
  /\ pc[l] = "deliver" /\ pc'[l] = "delivered"
  /\ Line(l)' = opening[l] /\ UNCHANGED <<phase, admitted>>
  /\ \/ body'[l].frames = Append(body[l].frames, job[l].event) /\ ~Mute(l)
     \/ body'[l].frames = body[l].frames /\ (Mute(l)' \/ Stuck(l)')
  /\ Direct(l)' => Direct(l)

\* A publisher's event goes to the stream with no line before it.
Passes(p, l) ==
  /\ pc[p] = "deliver" /\ job[p].on = l /\ pc'[p] = "delivered" /\ todo' = todo
  /\ phase[l].at \notin Unopened /\ Line(l) = <<>> /\ ~Mute(l)
  /\ body'[l].frames = Append(body[l].frames, job[p].event)

\* These are the ways a step changes a stream.
LineMoves(l) ==
  \/ Keeps(l) /\ SameEvents(l)
  \/ \E p \in Publishers : Keeps(l) /\ Passes(p, l)
  \/ \E p \in Publishers : Joins(p, l)
  \/ Leads(l)

-----------------------------------------------------------------------------
(* The election. *)

\* The facts about types that most of the proofs below need.
LEMMA ShapeIs == ASSUME Shape
  PROVE /\ Labelled /\ Aimed /\ Carrying /\ Positive
        /\ phase \in [Streams -> Phases] /\ pc \in [Actors -> Labels] /\ job \in [Actors -> Jobs]
        /\ todo \in [Owners -> SUBSET Streams] /\ entries \subseteq Streams
BY DEF Shape, Placed, Typed

\* Every step keeps the shape of the state.
LEMMA LabelledStays ==
  ASSUME Shape, [Next]_vars
  PROVE  Labelled'
<1>1. ASSUME UNCHANGED <<scenario, pc>> PROVE Labelled'
  BY <1>1, ShapeIs DEF Labelled, Actors, ListenerLabels, PublisherLabels, ServerLabels,
     Opener, Completing, Waits, Leaving, InSender
<1>2. ASSUME NEW p \in Publishers, NEW l \in Streams, OfferDoes(p, l) PROVE Labelled'
  <2>1. \A b \in Actors : pc'[b] = pc[b] \/ (b = p /\ pc'[b] = "deliver")
    BY <1>2, ShapeIs, ActorAssumption DEF OfferDoes, Moves, Sets, AtPhase, IsCancelled
  <2>. QED BY <2>1, ShapeIs, ActorAssumption DEF Labelled, Actors, ListenerLabels,
           PublisherLabels, ServerLabels, Opener, Completing, Waits, Leaving, InSender
<1>. USE ShapeIs, ActorAssumption DEF Labelled, Actors, ListenerLabels, PublisherLabels,
       ServerLabels, Opener, Completing, Waits, Leaving, InSender, Moves, Sets
<1>3. ASSUME NEW l \in Streams, ListenDoes(l) \/ CheckOpenDoes(l) \/ ReserveDoes(l)
                                \/ AcknowledgeDoes(l) \/ AdmitStreamDoes(l)
                                \/ RetractEntryDoes(l)
      PROVE  Labelled'
  BY <1>3 DEF ListenDoes, CheckOpenDoes, IsCancelled, ReserveDoes, AcknowledgeDoes,
     AdmitStreamDoes, RetractEntryDoes
<1>4. ASSUME NEW l \in Streams, RetractElectionDoes(l) \/ DrainDoes(l)
                                \/ DeliverOpeningDoes(l) \/ DeliveredOpeningDoes(l)
                                \/ AbandonDoes(l) \/ DropHandleDoes(l)
      PROVE  Labelled'
  BY <1>4 DEF RetractElectionDoes, AtPhase, DrainDoes, IsCancelled, DeliverOpeningDoes,
     DeliveredOpeningDoes, AbandonDoes, DropHandleDoes
<1>5. ASSUME NEW l \in Streams, ListenStartDoes(l) \/ ListenPollDoes(l)
                                \/ ListenParkedDoes(l) \/ ListenHoldDoes(l)
                                \/ ListenSettleDoes(l) \/ ListenReturnDoes(l)
      PROVE  Labelled'
  BY <1>5 DEF ListenStartDoes, ListenPollDoes, IsCancelled, ListenParkedDoes,
     ListenHoldDoes, ListenSettleDoes, ListenReturnDoes
<1>6. ASSUME NEW l \in Streams, DropLeaseDoes(l) \/ DropElectionDoes(l)
                                \/ RespondStdioDoes(l) \/ ReturnLocalDoes(l)
                                \/ RespondHttpDoes(l) \/ CommitResponseDoes(l)
      PROVE  Labelled'
  BY <1>6 DEF DropLeaseDoes, DropElectionDoes, AtPhase, Open4, RespondStdioDoes,
     ReturnLocalDoes, RespondHttpDoes, IsCancelled, CommitResponseDoes
<1>7. ASSUME NEW l \in Streams, ElectOutcomeDoes(l) \/ TerminateEntryDoes(l)
      PROVE  Labelled'
  BY <1>7 DEF ElectOutcomeDoes, TerminateEntryDoes, AtPhase, Open4, IsCancelled
<1>8. ASSUME NEW a \in Actors, SendControlDoes(a) \/ DecideDoes(a) \/ UnelectDoes(a)
                               \/ MarkGracefulDoes(a) \/ WakeDoes(a)
      PROVE  Labelled'
  BY <1>8 DEF SendControlDoes, DecideDoes, IsCancelled, UnelectDoes, MarkGracefulDoes,
     WakeDoes
<1>9. ASSUME NEW p \in Publishers, DeliverEventDoes(p) \/ DeliveredEventDoes(p)
      PROVE  Labelled'
  BY <1>9 DEF DeliverEventDoes, DeliveredEventDoes, AtPhase, IsCancelled
<1>10. ASSUME TerminateDoes \/ TakeEntriesDoes \/ DrainReceiptsDoes
      PROVE  Labelled'
  BY <1>10 DEF TerminateDoes, TakeEntriesDoes, DrainReceiptsDoes
<1>. HIDE DEF Labelled
<1>. QED BY <1>1, <1>2, <1>3, <1>4, <1>5, <1>6, <1>7, <1>8, <1>9, <1>10, Writers

LEMMA AimedStays ==
  ASSUME Shape, [Next]_vars
  PROVE  Aimed'
<1>1. ASSUME UNCHANGED <<scenario, pc, job>> PROVE Aimed'
  BY <1>1, ShapeIs DEF Aimed, Actors, Completing, InSender
<1>2. ASSUME NEW l \in Streams, DeliverOpeningDoes(l) PROVE Aimed'
  <2>1. /\ \A b \in Actors : pc'[b] = pc[b] \/ (b = l /\ pc'[b] = "delivered" /\ pc[b] = "deliver")
        /\ \A b \in Actors : job'[b].on = job[b].on
    BY <1>2, ShapeIs, ActorAssumption DEF DeliverOpeningDoes, Moves, Works, Sets
  <2>. QED BY <2>1, ShapeIs, ActorAssumption DEF Aimed, Actors, Completing, InSender
<1>3. ASSUME NEW l \in Streams, RespondHttpDoes(l) PROVE Aimed'
  <2>1. /\ \A b \in Actors : pc'[b] = pc[b] \/ (b = l /\ pc'[b] \in {"done", "commit", "elect"})
        /\ \A b \in Actors : job'[b].on = job[b].on
    BY <1>3, ShapeIs, ActorAssumption DEF RespondHttpDoes, Moves, Works, Sets, IsCancelled
  <2>. QED BY <2>1, ShapeIs, ActorAssumption DEF Aimed, Actors, Completing, InSender
<1>4. ASSUME NEW a \in Actors, SendControlDoes(a) PROVE Aimed'
  <2>1. /\ \A b \in Actors : pc'[b] = pc[b] \/ (b = a /\ pc'[b] = "decide" /\ pc[b] = "control")
        /\ \A b \in Actors : job'[b].on = job[b].on
    BY <1>4, ShapeIs, ActorAssumption DEF SendControlDoes, Moves, Works, Sets
  <2>. QED BY <2>1, ShapeIs, ActorAssumption DEF Aimed, Actors, Completing, InSender
<1>5. ASSUME NEW p \in Publishers, NEW l \in Streams, OfferDoes(p, l) PROVE Aimed'
  <2>1. /\ \A b \in Actors : pc'[b] = pc[b] \/ (b = p /\ pc'[b] = "deliver" /\ job'[b].on = l)
        /\ \A b \in Actors : job'[b].on = job[b].on \/ (b = p /\ job'[b].on = l)
    BY <1>5, ShapeIs, ActorAssumption DEF OfferDoes, Moves, Works, Sets, AtPhase,
       IsCancelled
  <2>. QED BY <2>1, ShapeIs, ActorAssumption DEF Aimed, Actors, Completing, InSender
<1>6. ASSUME NEW p \in Publishers, DeliverEventDoes(p) PROVE Aimed'
  <2>1. /\ \A b \in Actors : pc'[b] = pc[b] \/ (b = p /\ pc'[b] = "delivered" /\ pc[b] = "deliver")
        /\ \A b \in Actors : job'[b].on = job[b].on
    BY <1>6, ShapeIs, ActorAssumption DEF DeliverEventDoes, Moves, Works, Sets
  <2>. QED BY <2>1, ShapeIs, ActorAssumption DEF Aimed, Actors, Completing, InSender
<1>7. ASSUME NEW l \in Streams, TerminateEntryDoes(l) PROVE Aimed'
  <2>1. /\ \A b \in Actors : pc'[b] = pc[b] \/ (b = Server /\ pc'[b] = "control")
        /\ \A b \in Actors : job'[b].on = job[b].on \/ b = Server
        /\ job'[Server].on = l
    BY <1>7, ShapeIs, ActorAssumption DEF TerminateEntryDoes, Moves, Works, Sets, AtPhase,
       Open4, IsCancelled
  <2>. QED BY <2>1, ShapeIs, ActorAssumption DEF Aimed, Actors, Completing, InSender
<1>. USE ShapeIs, ActorAssumption DEF Aimed, Actors, Completing, InSender, Moves, Sets
<1>8. ASSUME NEW l \in Streams, ListenDoes(l) \/ CheckOpenDoes(l) \/ ReserveDoes(l)
                                \/ AcknowledgeDoes(l) \/ AdmitStreamDoes(l)
                                \/ RetractEntryDoes(l)
      PROVE  Aimed'
  BY <1>8 DEF ListenDoes, CheckOpenDoes, IsCancelled, ReserveDoes, AcknowledgeDoes,
     AdmitStreamDoes, RetractEntryDoes
<1>9. ASSUME NEW l \in Streams, RetractElectionDoes(l) \/ DrainDoes(l)
                                \/ DeliveredOpeningDoes(l) \/ AbandonDoes(l)
                                \/ DropHandleDoes(l) \/ ListenStartDoes(l)
      PROVE  Aimed'
  BY <1>9 DEF RetractElectionDoes, AtPhase, DrainDoes, Works, IsCancelled,
     DeliveredOpeningDoes, AbandonDoes, DropHandleDoes, ListenStartDoes
<1>10. ASSUME NEW l \in Streams, ListenPollDoes(l) \/ ListenParkedDoes(l)
                                 \/ ListenHoldDoes(l) \/ ListenSettleDoes(l)
                                 \/ ListenReturnDoes(l) \/ DropLeaseDoes(l)
      PROVE  Aimed'
  BY <1>10 DEF ListenPollDoes, IsCancelled, ListenParkedDoes, ListenHoldDoes,
     ListenSettleDoes, ListenReturnDoes, DropLeaseDoes
<1>11. ASSUME NEW l \in Streams, DropElectionDoes(l) \/ RespondStdioDoes(l)
                                 \/ ReturnLocalDoes(l) \/ CommitResponseDoes(l)
                                 \/ ElectOutcomeDoes(l)
      PROVE  Aimed'
  BY <1>11 DEF DropElectionDoes, AtPhase, Open4, RespondStdioDoes, ReturnLocalDoes,
     CommitResponseDoes, Works, ElectOutcomeDoes
<1>12. ASSUME NEW a \in Actors, DecideDoes(a) \/ UnelectDoes(a) \/ MarkGracefulDoes(a)
                                \/ WakeDoes(a)
      PROVE  Aimed'
  BY <1>12 DEF DecideDoes, IsCancelled, UnelectDoes, MarkGracefulDoes, WakeDoes
<1>13. ASSUME NEW p \in Publishers, PublishDoes(p) \/ DeliveredEventDoes(p)
      PROVE  Aimed'
  BY <1>13 DEF PublishDoes, Works, Frame, DeliveredEventDoes, AtPhase, IsCancelled
<1>14. ASSUME TerminateDoes \/ TakeEntriesDoes \/ DrainReceiptsDoes
      PROVE  Aimed'
  BY <1>14 DEF TerminateDoes, TakeEntriesDoes, DrainReceiptsDoes
<1>. HIDE DEF Aimed
<1>. QED BY <1>1, <1>2, <1>3, <1>4, <1>5, <1>6, <1>7, <1>8, <1>9, <1>10, <1>11, <1>12,
         <1>13, <1>14, Writers

LEMMA CarryingStays ==
  ASSUME Shape, [Next]_vars
  PROVE  Carrying'
<1>1. ASSUME UNCHANGED <<scenario, pc, job, todo>> PROVE Carrying'
  BY <1>1, ShapeIs DEF Carrying, Actors, InSender, Owners
<1>2. ASSUME NEW l \in Streams, DrainDoes(l) PROVE Carrying'
  <2>1. /\ todo' = todo /\ \A b \in Actors : b # l => pc'[b] = pc[b] /\ job'[b] = job[b]
        /\ pc'[l] \in InSender => job'[l].event \in Queueable
    BY <1>2, ShapeIs, ActorAssumption DEF DrainDoes, Moves, Works, Sets, IsCancelled,
       InSender, Shape, Typed
  <2>. QED BY <2>1, ShapeIs, ActorAssumption DEF Carrying, Actors, InSender, Owners
<1>3. ASSUME NEW p \in Publishers, PublishDoes(p) PROVE Carrying'
  <2>1. /\ \A b \in Actors : pc'[b] = pc[b] /\ (b # p => job'[b] = job[b])
        /\ \A b \in Owners : b # p => todo'[b] = todo[b]
        /\ job'[p].event = Frame("event", p, job[p].count + 1) /\ job[p].count + 1 \in Nat
    BY <1>3, ShapeIs, ActorAssumption, EventFrame DEF PublishDoes, Works, Plans, Sets,
       Frame, Jobs, Actors
  <2>. QED BY <2>1, ShapeIs, ActorAssumption, EventFrame DEF Carrying, Actors, InSender,
           Owners
<1>. USE ShapeIs, ActorAssumption DEF Carrying, Actors, InSender, Owners, Moves, Sets
<1>4. ASSUME NEW l \in Streams, ListenDoes(l) \/ CheckOpenDoes(l) \/ ReserveDoes(l)
                                \/ AcknowledgeDoes(l) \/ AdmitStreamDoes(l)
                                \/ RetractEntryDoes(l)
      PROVE  Carrying'
  BY <1>4 DEF ListenDoes, CheckOpenDoes, IsCancelled, ReserveDoes, AcknowledgeDoes,
     AdmitStreamDoes, RetractEntryDoes
<1>5. ASSUME NEW l \in Streams, RetractElectionDoes(l) \/ DeliverOpeningDoes(l)
                                \/ DeliveredOpeningDoes(l) \/ AbandonDoes(l)
                                \/ DropHandleDoes(l) \/ ListenStartDoes(l)
      PROVE  Carrying'
  BY <1>5 DEF RetractElectionDoes, AtPhase, DeliverOpeningDoes, Works, DeliveredOpeningDoes,
     IsCancelled, AbandonDoes, DropHandleDoes, ListenStartDoes
<1>6. ASSUME NEW l \in Streams, ListenPollDoes(l) \/ ListenParkedDoes(l)
                                \/ ListenHoldDoes(l) \/ ListenSettleDoes(l)
                                \/ ListenReturnDoes(l) \/ DropLeaseDoes(l)
      PROVE  Carrying'
  BY <1>6 DEF ListenPollDoes, IsCancelled, ListenParkedDoes, ListenHoldDoes,
     ListenSettleDoes, ListenReturnDoes, DropLeaseDoes
<1>7. ASSUME NEW l \in Streams, DropElectionDoes(l) \/ RespondStdioDoes(l)
                                \/ ReturnLocalDoes(l) \/ RespondHttpDoes(l)
                                \/ CommitResponseDoes(l) \/ ElectOutcomeDoes(l)
      PROVE  Carrying'
  BY <1>7 DEF DropElectionDoes, AtPhase, Open4, RespondStdioDoes, ReturnLocalDoes,
     RespondHttpDoes, Works, IsCancelled, CommitResponseDoes, ElectOutcomeDoes
<1>8. ASSUME NEW a \in Actors, SendControlDoes(a) \/ DecideDoes(a) \/ UnelectDoes(a)
                               \/ MarkGracefulDoes(a) \/ WakeDoes(a)
      PROVE  Carrying'
  BY <1>8 DEF SendControlDoes, Works, DecideDoes, IsCancelled, UnelectDoes,
     MarkGracefulDoes, WakeDoes
<1>9. ASSUME NEW p \in Publishers, NEW l \in Streams, QueueDoes(p, l) \/ OfferDoes(p, l)
                                                      \/ SkipDoes(p, l)
      PROVE  Carrying'
  BY <1>9 DEF QueueDoes, Plans, AtPhase, IsCancelled, OfferDoes, Works, SkipDoes
<1>10. ASSUME NEW p \in Publishers, DeliverEventDoes(p) \/ DeliveredEventDoes(p)
      PROVE  Carrying'
  BY <1>10 DEF DeliverEventDoes, Works, DeliveredEventDoes, AtPhase, IsCancelled
<1>11. ASSUME TerminateDoes \/ TakeEntriesDoes \/ DrainReceiptsDoes
      PROVE  Carrying'
  BY <1>11 DEF TerminateDoes, TakeEntriesDoes, Plans, DrainReceiptsDoes
<1>12. ASSUME NEW l \in Streams, TerminateEntryDoes(l) PROVE Carrying'
  BY <1>12 DEF TerminateEntryDoes, Works, Plans, AtPhase, Open4, IsCancelled
<1>. HIDE DEF Carrying
<1>. QED BY <1>1, <1>2, <1>3, <1>4, <1>5, <1>6, <1>7, <1>8, <1>9, <1>10, <1>11, <1>12,
         Writers

LEMMA PositiveStays ==
  ASSUME Shape, [Next]_vars
  PROVE  Positive'
<1>1. ASSUME UNCHANGED <<scenario, phase>> PROVE Positive'
  BY <1>1, ShapeIs DEF Positive
<1>2. ASSUME NEW p \in Publishers, NEW l \in Streams, QueueDoes(p, l) PROVE Positive'
  <2>1. \A m \in Streams : phase'[m] = phase[m] \/ phase'[m].at # "EventDelivery"
    BY <1>2, ShapeIs DEF QueueDoes, Elects, Sets, AtPhase, IsCancelled
  <2>. QED BY <2>1, ShapeIs DEF Positive
<1>3. ASSUME NEW p \in Publishers, NEW l \in Streams, OfferDoes(p, l) PROVE Positive'
  <2>1. \A m \in Streams : phase'[m] = phase[m] \/ phase'[m].at # "EventDelivery" \/ phase'[m].n > 0
    BY <1>3, ShapeIs DEF OfferDoes, Elects, Sets, AtPhase, IsCancelled, ShapeIs, Phases
  <2>. QED BY <2>1, ShapeIs DEF Positive
<1>4. ASSUME NEW p \in Publishers, DeliveredEventDoes(p) PROVE Positive'
  <2>1. \A m \in Streams : phase'[m] = phase[m] \/ phase'[m].at # "EventDelivery" \/ phase'[m].n > 0
    BY <1>4, ShapeIs DEF DeliveredEventDoes, Elects, Sets, AtPhase, IsCancelled, Positive,
       Phases
  <2>. QED BY <2>1, ShapeIs DEF Positive
<1>5. ASSUME NEW l \in Streams, TerminateEntryDoes(l) PROVE Positive'
  <2>1. \A m \in Streams : phase'[m] = phase[m] \/ phase'[m].at # "EventDelivery"
    BY <1>5, ShapeIs DEF TerminateEntryDoes, Elects, Sets, AtPhase, Open4, IsCancelled
  <2>. QED BY <2>1, ShapeIs DEF Positive
<1>. USE ShapeIs DEF Positive, Sets
<1>6. ASSUME NEW l \in Streams, ReserveDoes(l) \/ RetractElectionDoes(l) \/ DrainDoes(l)
                                \/ DeliveredOpeningDoes(l) \/ DropElectionDoes(l)
                                \/ CancelModernHttpOwnerDoes(l)
      PROVE  Positive'
  BY <1>6 DEF ReserveDoes, Elects, RetractElectionDoes, AtPhase, DrainDoes, IsCancelled,
     DeliveredOpeningDoes, DropElectionDoes, Open4, CancelModernHttpOwnerDoes
<1>7. ASSUME NEW a \in Actors, UnelectDoes(a) PROVE Positive'
  BY <1>7 DEF UnelectDoes, Elects
<1>. HIDE DEF Positive
<1>. QED BY <1>1, <1>2, <1>3, <1>4, <1>5, <1>6, <1>7, Writers

LEMMA ShapeStays == ASSUME Shape, [Next]_vars PROVE Shape'
BY LabelledStays, AimedStays, CarryingStays, PositiveStays, Writers DEF Shape, Placed

\* The callbacks in flight on a stream are counted by a natural number.
LEMMA CallbacksFinite ==
  ASSUME NEW l \in Streams
  PROVE  IsFiniteSet(InCallback(l)) /\ Cardinality(InCallback(l)) \in Nat
<1>1. IsFiniteSet(Publishers \cup {l})
  BY FS_AddElement, ActorAssumption
<1>2. InCallback(l) \subseteq Publishers \cup {l}
  BY DEF InCallback
<1>. QED BY <1>1, <1>2, FS_Subset, FS_CardinalityType

\* A counter of one means that a given callback is the last.
LEMMA LastCallback ==
  ASSUME Counted, NEW l \in Streams, phase[l].at \in {"EventDelivery", "Pending"},
         phase[l].n = 1, NEW a \in InCallback(l)
  PROVE  InCallback(l) = {a}
<1>1. Cardinality(InCallback(l)) = 1 /\ IsFiniteSet(InCallback(l))
  BY CallbacksFinite DEF Counted, CountedAt
<1>2. PICK x : InCallback(l) = {x}
  BY <1>1, FS_Singleton
<1>. QED BY <1>2

\* Every step keeps each part of the invariant of the election.
LEMMA FreshStays ==
  ASSUME Shape, Fresh, Stages, Completion, [Next]_vars
  PROVE  Fresh'
<1>1. ASSUME UNCHANGED <<scenario, pc, phase, entries, todo, writer>> PROVE Fresh'
  BY <1>1 DEF Fresh, Early, Owners, Actors
<1>. USE ShapeIs, ActorAssumption DEF Fresh, Early, Owners, Actors, Moves, Sets
<1>2. ASSUME NEW l \in Streams, ListenDoes(l) \/ CheckOpenDoes(l) \/ ReserveDoes(l)
                                \/ AcknowledgeDoes(l) \/ AdmitStreamDoes(l)
                                \/ RetractEntryDoes(l)
      PROVE  Fresh'
  BY <1>2 DEF ListenDoes, CheckOpenDoes, IsCancelled, ReserveDoes, Elects, AcknowledgeDoes,
     AdmitStreamDoes, RetractEntryDoes
<1>3. ASSUME NEW l \in Streams, RetractElectionDoes(l) \/ DrainDoes(l)
                                \/ DeliverOpeningDoes(l) \/ DeliveredOpeningDoes(l)
                                \/ AbandonDoes(l) \/ DropHandleDoes(l)
      PROVE  Fresh'
  BY <1>3 DEF RetractElectionDoes, Elects, AtPhase, Stages, DrainDoes, IsCancelled,
     DeliverOpeningDoes, DeliveredOpeningDoes, AbandonDoes, DropHandleDoes
<1>4. ASSUME NEW l \in Streams, ListenStartDoes(l) \/ ListenPollDoes(l)
                                \/ ListenParkedDoes(l) \/ ListenHoldDoes(l)
                                \/ ListenSettleDoes(l) \/ ListenReturnDoes(l)
      PROVE  Fresh'
  BY <1>4 DEF ListenStartDoes, ListenPollDoes, IsCancelled, ListenParkedDoes,
     ListenHoldDoes, ListenSettleDoes, ListenReturnDoes
<1>5. ASSUME NEW l \in Streams, DropLeaseDoes(l) \/ DropElectionDoes(l)
                                \/ RespondStdioDoes(l) \/ ReturnLocalDoes(l)
                                \/ RespondHttpDoes(l) \/ CommitResponseDoes(l)
      PROVE  Fresh'
  BY <1>5 DEF DropLeaseDoes, DropElectionDoes, Elects, AtPhase, Open4, RespondStdioDoes,
     ReturnLocalDoes, RespondHttpDoes, IsCancelled, CommitResponseDoes
<1>6. ASSUME NEW l \in Streams, ElectOutcomeDoes(l) \/ TerminateEntryDoes(l)
                                \/ WriterAwaitDoes(l) \/ WriterHeadDoes(l)
                                \/ WriterPopDoes(l) \/ WriterIdleDoes(l)
      PROVE  Fresh'
  BY <1>6 DEF ElectOutcomeDoes, TerminateEntryDoes, Elects, Plans, AtPhase, Open4,
     IsCancelled, WriterAwaitDoes, Writes, WriterHeadDoes, WriterPopDoes, WriterIdleDoes
<1>7. ASSUME NEW a \in Actors, SendControlDoes(a) \/ DecideDoes(a) \/ UnelectDoes(a)
                               \/ MarkGracefulDoes(a) \/ WakeDoes(a)
      PROVE  Fresh'
  BY <1>7 DEF SendControlDoes, DecideDoes, IsCancelled, UnelectDoes, Elects, Completion,
     Completing, MarkGracefulDoes, WakeDoes
<1>8. ASSUME NEW p \in Publishers, PublishDoes(p) \/ DeliverEventDoes(p)
                                   \/ DeliveredEventDoes(p)
      PROVE  Fresh'
  BY <1>8 DEF PublishDoes, Plans, Frame, DeliverEventDoes, DeliveredEventDoes, Elects,
     AtPhase, IsCancelled
<1>9. ASSUME NEW p \in Publishers, NEW l \in Streams, QueueDoes(p, l) \/ OfferDoes(p, l)
                                                      \/ SkipDoes(p, l)
      PROVE  Fresh'
  BY <1>9 DEF QueueDoes, Elects, Plans, AtPhase, IsCancelled, OfferDoes, SkipDoes
<1>10. ASSUME TerminateDoes \/ TakeEntriesDoes \/ DrainReceiptsDoes
      PROVE  Fresh'
  BY <1>10 DEF TerminateDoes, TakeEntriesDoes, Plans, DrainReceiptsDoes
<1>11. ASSUME NEW l \in Streams, WriterFlushDoes(l) \/ WriterBreaksDoes(l)
                                 \/ WriterTrailerDoes(l) \/ WriterFailsDoes(l)
                                 \/ CancelModernHttpOwnerDoes(l) \/ WriterAbortsDoes(l)
      PROVE  Fresh'
  BY <1>11 DEF WriterFlushDoes, Writes, WriterBreaksDoes, WriterTrailerDoes,
     WriterFailsDoes, CancelModernHttpOwnerDoes, Elects, AtPhase, Open4, WriterAbortsDoes
<1>. HIDE DEF Fresh
<1>. QED BY <1>1, <1>2, <1>3, <1>4, <1>5, <1>6, <1>7, <1>8, <1>9, <1>10, <1>11, Writers

LEMMA StagesStays ==
  ASSUME Shape, Fresh, Stages, Callbacks, Completion, [Next]_vars
  PROVE  Stages'
<1>1. ASSUME UNCHANGED <<scenario, pc, phase>> PROVE Stages'
  BY <1>1 DEF Stages, Actors, Placing, Leased, Opener, Completing, Waits, Leaving, InSender
<1>. USE ShapeIs, ActorAssumption DEF Stages, Actors, Placing, Leased, Opener, Completing,
       Waits, Leaving, InSender, Moves, Sets
<1>2. ASSUME NEW l \in Streams, ListenDoes(l) \/ CheckOpenDoes(l) \/ ReserveDoes(l)
                                \/ AcknowledgeDoes(l) \/ AdmitStreamDoes(l)
                                \/ RetractEntryDoes(l)
      PROVE  Stages'
  BY <1>2 DEF ListenDoes, CheckOpenDoes, IsCancelled, ReserveDoes, Elects, Fresh, Early,
     AcknowledgeDoes, AdmitStreamDoes, RetractEntryDoes
<1>3. ASSUME NEW l \in Streams, RetractElectionDoes(l) PROVE Stages'
  BY <1>3 DEF RetractElectionDoes, Elects, AtPhase
<1>4. ASSUME NEW l \in Streams, DrainDoes(l) PROVE Stages'
  BY <1>4 DEF DrainDoes, Elects, IsCancelled
<1>5. ASSUME NEW l \in Streams, DeliverOpeningDoes(l) PROVE Stages'
  BY <1>5 DEF DeliverOpeningDoes
<1>6. ASSUME NEW l \in Streams, DeliveredOpeningDoes(l) \/ AbandonDoes(l)
                                \/ DropHandleDoes(l)
      PROVE  Stages'
  BY <1>6 DEF DeliveredOpeningDoes, Elects, IsCancelled, AbandonDoes, DropHandleDoes
<1>7. ASSUME NEW l \in Streams, ListenStartDoes(l) \/ ListenPollDoes(l)
                                \/ ListenParkedDoes(l) \/ ListenHoldDoes(l)
                                \/ ListenSettleDoes(l) \/ ListenReturnDoes(l)
      PROVE  Stages'
  BY <1>7 DEF ListenStartDoes, ListenPollDoes, IsCancelled, ListenParkedDoes,
     ListenHoldDoes, ListenSettleDoes, ListenReturnDoes
<1>8. ASSUME NEW l \in Streams, DropLeaseDoes(l) \/ DropElectionDoes(l)
                                \/ RespondStdioDoes(l)
      PROVE  Stages'
  BY <1>8 DEF DropLeaseDoes, DropElectionDoes, Elects, AtPhase, Open4, RespondStdioDoes
<1>9. ASSUME NEW l \in Streams, ReturnLocalDoes(l) \/ RespondHttpDoes(l)
                                \/ CommitResponseDoes(l)
      PROVE  Stages'
  BY <1>9 DEF ReturnLocalDoes, RespondHttpDoes, IsCancelled, CommitResponseDoes
<1>10. ASSUME NEW l \in Streams, ElectOutcomeDoes(l) \/ TerminateEntryDoes(l)
                                 \/ CancelModernHttpOwnerDoes(l)
      PROVE  Stages'
  BY <1>10 DEF ElectOutcomeDoes, TerminateEntryDoes, Elects, AtPhase, Open4, IsCancelled,
     CancelModernHttpOwnerDoes
<1>11. ASSUME NEW a \in Actors, SendControlDoes(a) PROVE Stages'
  BY <1>11 DEF SendControlDoes
<1>12. ASSUME NEW a \in Actors, DecideDoes(a) PROVE Stages'
  BY <1>12 DEF DecideDoes, IsCancelled
<1>13. ASSUME NEW a \in Actors, UnelectDoes(a) \/ MarkGracefulDoes(a)
      PROVE  Stages'
  BY <1>13 DEF UnelectDoes, Elects, Completion, Aimed, MarkGracefulDoes
<1>14. ASSUME NEW a \in Actors, WakeDoes(a) PROVE Stages'
  BY <1>14 DEF WakeDoes
<1>15. ASSUME NEW p \in Publishers, NEW l \in Streams, QueueDoes(p, l) \/ OfferDoes(p, l)
      PROVE  Stages'
  BY <1>15 DEF QueueDoes, Elects, AtPhase, IsCancelled, OfferDoes
<1>16. ASSUME NEW p \in Publishers, DeliverEventDoes(p) PROVE Stages'
  BY <1>16 DEF DeliverEventDoes
<1>17. ASSUME NEW p \in Publishers, DeliveredEventDoes(p) PROVE Stages'
  BY <1>17 DEF DeliveredEventDoes, Elects, AtPhase, IsCancelled, Callbacks
<1>18. ASSUME TerminateDoes \/ TakeEntriesDoes \/ DrainReceiptsDoes
      PROVE  Stages'
  BY <1>18 DEF TerminateDoes, TakeEntriesDoes, DrainReceiptsDoes
<1>. HIDE DEF Stages
<1>. QED BY <1>1, <1>2, <1>3, <1>4, <1>5, <1>6, <1>7, <1>8, <1>9, <1>10, <1>11, <1>12,
         <1>13, <1>14, <1>15, <1>16, <1>17, <1>18, Writers

LEMMA CallbacksStays ==
  ASSUME Shape, Fresh, Stages, Callbacks, Completion, Counted,
         [Next]_vars
  PROVE  Callbacks'
<1>1. ASSUME UNCHANGED <<scenario, pc, phase, job>> PROVE Callbacks'
  BY <1>1 DEF Callbacks, Actors, Leased, Opener, Completing, Waits, Leaving, InSender
<1>2. ASSUME NEW l \in Streams, CommitResponseDoes(l) PROVE Callbacks'
  <2>1. phase' = phase
        /\ \A b \in Actors : /\ pc'[b] = pc[b] \/ (b = l /\ pc'[b] = "elect")
                          /\ job'[b].on = job[b].on
    BY <1>2, ShapeIs, ActorAssumption DEF CommitResponseDoes, Moves, Works, Sets
  <2>. QED BY <2>1, ShapeIs, ActorAssumption DEF Callbacks, Actors, Leased, Opener,
           Completing, Waits, Leaving, InSender
<1>3. ASSUME NEW p \in Publishers, NEW l \in Streams, OfferDoes(p, l) PROVE Callbacks'
  <2>1. /\ pc[l] \in Leased /\ pc[p] = "next"
        /\ \A b \in Actors : pc'[b] = pc[b] \/ (b = p /\ pc'[b] = "deliver" /\ phase'[l].at = "EventDelivery")
        /\ \A b \in Actors : b # p => job'[b] = job[b]
        /\ \A m \in Streams : m # l => phase'[m] = phase[m]
        /\ phase'[l].at \in {"EventDelivery", "PeerTerminated"}
        /\ pc'[p] = "deliver" => job'[p].on = l
    BY <1>3 DEF OfferDoes, Stages, Moves, Elects, Works, Sets, AtPhase, Actors
  <2>. QED BY <2>1, ShapeIs, ActorAssumption DEF Callbacks, Actors, Leased, Waits, Leaving, InSender
<1>4. ASSUME NEW p \in Publishers, DeliveredEventDoes(p) PROVE Callbacks'
  <2>1. pc[p] = "delivered" /\ job[p].on \in Streams /\ job' = job /\ p \in InCallback(job[p].on)
    BY <1>4 DEF DeliveredEventDoes, InCallback
  <2>2. ASSUME NEW q \in Publishers, q # p, pc[q] \in InSender, job[q].on = job[p].on,
               phase[job[p].on].n = 1, phase[job[p].on].at \in {"EventDelivery", "Pending"}
        PROVE  FALSE
    BY <2>1, <2>2, LastCallback DEF InCallback, InSender
  <2>3. /\ \A b \in Actors : pc'[b] = pc[b] \/ (b = p /\ pc'[b] \in {"next", "control"})
        /\ \A m \in Streams : m # job[p].on => phase'[m] = phase[m]
        /\ phase' = phase \/ phase'[job[p].on].at \in {"EventDelivery", "Pending", "PeerTerminated"}
           \/ (phase[job[p].on].n = 1 /\ phase[job[p].on].at \in {"EventDelivery", "Pending"})
        /\ pc'[p] \in {"next", "control"}
    BY <1>4 DEF DeliveredEventDoes, Moves, Elects, Sets
  <2>. QED BY <2>1, <2>2, <2>3, ShapeIs, ActorAssumption DEF Callbacks, Actors, Leased, Waits, Leaving, InSender
<1>. USE ShapeIs, ActorAssumption DEF Callbacks, Actors, Leased, Opener, Completing, Waits,
       Leaving, InSender, Moves, Sets
<1>5. ASSUME NEW l \in Streams, ListenDoes(l) \/ CheckOpenDoes(l) \/ ReserveDoes(l)
                                \/ AcknowledgeDoes(l) \/ AdmitStreamDoes(l)
                                \/ RetractEntryDoes(l)
      PROVE  Callbacks'
  BY <1>5 DEF ListenDoes, CheckOpenDoes, IsCancelled, ReserveDoes, Elects, Stages, Fresh,
     Early, AcknowledgeDoes, AdmitStreamDoes, RetractEntryDoes
<1>6. ASSUME NEW l \in Streams, RetractElectionDoes(l) \/ DrainDoes(l)
                                \/ DeliverOpeningDoes(l) \/ DeliveredOpeningDoes(l)
                                \/ AbandonDoes(l) \/ DropHandleDoes(l)
      PROVE  Callbacks'
  BY <1>6 DEF RetractElectionDoes, Elects, AtPhase, DrainDoes, Works, IsCancelled,
     DeliverOpeningDoes, DeliveredOpeningDoes, AbandonDoes, DropHandleDoes
<1>7. ASSUME NEW l \in Streams, ListenStartDoes(l) \/ ListenPollDoes(l)
                                \/ ListenParkedDoes(l) \/ ListenHoldDoes(l)
                                \/ ListenSettleDoes(l) \/ ListenReturnDoes(l)
      PROVE  Callbacks'
  BY <1>7 DEF ListenStartDoes, ListenPollDoes, IsCancelled, ListenParkedDoes,
     ListenHoldDoes, ListenSettleDoes, ListenReturnDoes
<1>8. ASSUME NEW l \in Streams, DropLeaseDoes(l) \/ DropElectionDoes(l)
                                \/ RespondStdioDoes(l) \/ ReturnLocalDoes(l)
                                \/ RespondHttpDoes(l) \/ ElectOutcomeDoes(l)
      PROVE  Callbacks'
  BY <1>8 DEF DropLeaseDoes, DropElectionDoes, Elects, AtPhase, Open4, RespondStdioDoes,
     ReturnLocalDoes, RespondHttpDoes, Works, IsCancelled, ElectOutcomeDoes
<1>9. ASSUME NEW a \in Actors, SendControlDoes(a) \/ DecideDoes(a) \/ UnelectDoes(a)
                               \/ MarkGracefulDoes(a) \/ WakeDoes(a)
      PROVE  Callbacks'
  BY <1>9 DEF SendControlDoes, Works, DecideDoes, IsCancelled, UnelectDoes, Elects,
     Completion, MarkGracefulDoes, WakeDoes
<1>10. ASSUME NEW p \in Publishers, PublishDoes(p) \/ DeliverEventDoes(p)
      PROVE  Callbacks'
  BY <1>10 DEF PublishDoes, Works, Frame, DeliverEventDoes
<1>11. ASSUME NEW p \in Publishers, NEW l \in Streams, QueueDoes(p, l) PROVE Callbacks'
  BY <1>11 DEF QueueDoes, Elects, AtPhase, IsCancelled
<1>12. ASSUME TerminateDoes \/ TakeEntriesDoes \/ DrainReceiptsDoes
      PROVE  Callbacks'
  BY <1>12 DEF TerminateDoes, TakeEntriesDoes, DrainReceiptsDoes
<1>13. ASSUME NEW l \in Streams, TerminateEntryDoes(l) \/ CancelModernHttpOwnerDoes(l)
      PROVE  Callbacks'
  BY <1>13 DEF TerminateEntryDoes, Elects, Works, AtPhase, Open4, IsCancelled,
     CancelModernHttpOwnerDoes
<1>. HIDE DEF Callbacks
<1>. QED BY <1>1, <1>2, <1>3, <1>4, <1>5, <1>6, <1>7, <1>8, <1>9, <1>10, <1>11, <1>12,
         <1>13, Writers

LEMMA CompletionStays ==
  ASSUME Shape, Fresh, Stages, Callbacks, Completion, [Next]_vars
  PROVE  Completion'
<1>1. ASSUME UNCHANGED <<scenario, pc, phase, job, graceful>> PROVE Completion'
  BY <1>1 DEF Completion, Actors, Completing, InSender
<1>2. ASSUME NEW l \in Streams, CommitResponseDoes(l) PROVE Completion'
  <2>1. /\ UNCHANGED <<phase, graceful>>
        /\ \A b \in Actors : /\ pc'[b] = pc[b] \/ (b = l /\ pc'[b] = "elect")
                          /\ job'[b].on = job[b].on
    BY <1>2, ShapeIs, ActorAssumption DEF CommitResponseDoes, Moves, Works, Sets
  <2>. QED BY <2>1, ShapeIs, ActorAssumption DEF Completion, Actors, Completing, InSender
<1>. USE ShapeIs, ActorAssumption DEF Completion, Actors, Completing, InSender, Moves, Sets
<1>3. ASSUME NEW l \in Streams, ListenDoes(l) \/ CheckOpenDoes(l) \/ ReserveDoes(l)
                                \/ AcknowledgeDoes(l) \/ AdmitStreamDoes(l)
                                \/ RetractEntryDoes(l)
      PROVE  Completion'
  BY <1>3 DEF ListenDoes, CheckOpenDoes, IsCancelled, ReserveDoes, Elects, Fresh, Early,
     AcknowledgeDoes, AdmitStreamDoes, RetractEntryDoes
<1>4. ASSUME NEW l \in Streams, RetractElectionDoes(l) \/ DrainDoes(l)
                                \/ DeliverOpeningDoes(l) \/ DeliveredOpeningDoes(l)
                                \/ AbandonDoes(l) \/ DropHandleDoes(l)
      PROVE  Completion'
  BY <1>4 DEF RetractElectionDoes, Elects, AtPhase, Aimed, Stages, Placing, DrainDoes,
     Works, IsCancelled, DeliverOpeningDoes, DeliveredOpeningDoes, AbandonDoes,
     DropHandleDoes
<1>5. ASSUME NEW l \in Streams, ListenStartDoes(l) \/ ListenPollDoes(l)
                                \/ ListenParkedDoes(l) \/ ListenHoldDoes(l)
                                \/ ListenSettleDoes(l) \/ ListenReturnDoes(l)
      PROVE  Completion'
  BY <1>5 DEF ListenStartDoes, ListenPollDoes, IsCancelled, ListenParkedDoes,
     ListenHoldDoes, ListenSettleDoes, ListenReturnDoes
<1>6. ASSUME NEW l \in Streams, DropLeaseDoes(l) \/ DropElectionDoes(l)
                                \/ RespondStdioDoes(l) \/ ReturnLocalDoes(l)
                                \/ RespondHttpDoes(l) \/ ElectOutcomeDoes(l)
      PROVE  Completion'
  BY <1>6 DEF DropLeaseDoes, DropElectionDoes, Elects, AtPhase, Open4, RespondStdioDoes,
     ReturnLocalDoes, RespondHttpDoes, Works, IsCancelled, ElectOutcomeDoes
<1>7. ASSUME NEW a \in Actors, SendControlDoes(a) \/ DecideDoes(a) \/ UnelectDoes(a)
                               \/ MarkGracefulDoes(a) \/ WakeDoes(a)
      PROVE  Completion'
  BY <1>7 DEF SendControlDoes, Works, DecideDoes, IsCancelled, UnelectDoes, Elects,
     MarkGracefulDoes, Graces, WakeDoes
<1>8. ASSUME NEW p \in Publishers, PublishDoes(p) \/ DeliverEventDoes(p)
                                   \/ DeliveredEventDoes(p)
      PROVE  Completion'
  BY <1>8 DEF PublishDoes, Works, Frame, DeliverEventDoes, DeliveredEventDoes, Elects,
     AtPhase, IsCancelled
<1>9. ASSUME NEW p \in Publishers, NEW l \in Streams, QueueDoes(p, l) \/ OfferDoes(p, l)
      PROVE  Completion'
  BY <1>9 DEF QueueDoes, Elects, AtPhase, IsCancelled, OfferDoes, Works
<1>10. ASSUME TerminateDoes \/ TakeEntriesDoes \/ DrainReceiptsDoes
      PROVE  Completion'
  BY <1>10 DEF TerminateDoes, TakeEntriesDoes, DrainReceiptsDoes
<1>11. ASSUME NEW l \in Streams, TerminateEntryDoes(l) \/ CancelModernHttpOwnerDoes(l)
      PROVE  Completion'
  BY <1>11 DEF TerminateEntryDoes, Elects, Works, AtPhase, Open4, IsCancelled,
     CancelModernHttpOwnerDoes
<1>. HIDE DEF Completion
<1>. QED BY <1>1, <1>2, <1>3, <1>4, <1>5, <1>6, <1>7, <1>8, <1>9, <1>10, <1>11, Writers

LEMMA ShutdownStays ==
  ASSUME Shape, Stages, Completion, Shutdown, Fresh, [Next]_vars
  PROVE  Shutdown'
<1>1. ASSUME UNCHANGED <<scenario, pc, phase, terminating, todo, entries>> PROVE Shutdown'
  BY <1>1 DEF Shutdown, Actors, Owners, Completing, InSender
<1>. USE ShapeIs, ActorAssumption DEF Shutdown, Actors, Owners, Completing, InSender, Moves,
       Sets
<1>2. ASSUME NEW l \in Streams, ListenDoes(l) \/ CheckOpenDoes(l) \/ ReserveDoes(l)
                                \/ AcknowledgeDoes(l) \/ AdmitStreamDoes(l)
                                \/ RetractEntryDoes(l)
      PROVE  Shutdown'
  BY <1>2 DEF ListenDoes, CheckOpenDoes, IsCancelled, ReserveDoes, Elects, AcknowledgeDoes,
     AdmitStreamDoes, RetractEntryDoes
<1>3. ASSUME NEW l \in Streams, RetractElectionDoes(l) PROVE Shutdown'
  BY <1>3 DEF RetractElectionDoes, Elects, AtPhase
<1>4. ASSUME NEW l \in Streams, DrainDoes(l) PROVE Shutdown'
  BY <1>4 DEF DrainDoes, Elects, IsCancelled
<1>5. ASSUME NEW l \in Streams, DeliverOpeningDoes(l) PROVE Shutdown'
  BY <1>5 DEF DeliverOpeningDoes
<1>6. ASSUME NEW l \in Streams, DeliveredOpeningDoes(l) \/ AbandonDoes(l)
                                \/ DropHandleDoes(l)
      PROVE  Shutdown'
  BY <1>6 DEF DeliveredOpeningDoes, Elects, IsCancelled, AbandonDoes, DropHandleDoes
<1>7. ASSUME NEW l \in Streams, ListenStartDoes(l) \/ ListenPollDoes(l)
                                \/ ListenParkedDoes(l) \/ ListenHoldDoes(l)
                                \/ ListenSettleDoes(l) \/ ListenReturnDoes(l)
      PROVE  Shutdown'
  BY <1>7 DEF ListenStartDoes, ListenPollDoes, IsCancelled, ListenParkedDoes,
     ListenHoldDoes, ListenSettleDoes, ListenReturnDoes
<1>8. ASSUME NEW l \in Streams, DropLeaseDoes(l) \/ DropElectionDoes(l)
                                \/ RespondStdioDoes(l)
      PROVE  Shutdown'
  BY <1>8 DEF DropLeaseDoes, DropElectionDoes, Elects, AtPhase, Open4, RespondStdioDoes
<1>9. ASSUME NEW l \in Streams, ReturnLocalDoes(l) PROVE Shutdown'
  BY <1>9 DEF ReturnLocalDoes
<1>10. ASSUME NEW l \in Streams, RespondHttpDoes(l) PROVE Shutdown'
  BY <1>10 DEF RespondHttpDoes, IsCancelled
<1>11. ASSUME NEW l \in Streams, CommitResponseDoes(l) PROVE Shutdown'
  BY <1>11 DEF CommitResponseDoes
<1>12. ASSUME NEW l \in Streams, ElectOutcomeDoes(l) \/ TerminateEntryDoes(l)
                                 \/ WriterFailsDoes(l) \/ CancelModernHttpOwnerDoes(l)
      PROVE  Shutdown'
  BY <1>12 DEF ElectOutcomeDoes, TerminateEntryDoes, Elects, Plans, AtPhase, Open4,
     IsCancelled, WriterFailsDoes, CancelModernHttpOwnerDoes
<1>13. ASSUME NEW a \in Actors, SendControlDoes(a) PROVE Shutdown'
  BY <1>13 DEF SendControlDoes
<1>14. ASSUME NEW a \in Actors, DecideDoes(a) PROVE Shutdown'
  BY <1>14 DEF DecideDoes, IsCancelled
<1>15. ASSUME NEW a \in Actors, UnelectDoes(a) \/ MarkGracefulDoes(a)
      PROVE  Shutdown'
  BY <1>15 DEF UnelectDoes, Elects, MarkGracefulDoes
<1>16. ASSUME NEW a \in Actors, WakeDoes(a) PROVE Shutdown'
  BY <1>16 DEF WakeDoes
<1>17. ASSUME NEW p \in Publishers, PublishDoes(p) PROVE Shutdown'
  BY <1>17 DEF PublishDoes, Plans, Frame
<1>18. ASSUME NEW p \in Publishers, NEW l \in Streams, QueueDoes(p, l) \/ OfferDoes(p, l)
                                                       \/ SkipDoes(p, l)
      PROVE  Shutdown'
  BY <1>18 DEF QueueDoes, Elects, Plans, AtPhase, IsCancelled, OfferDoes, SkipDoes
<1>19. ASSUME NEW p \in Publishers, DeliverEventDoes(p) PROVE Shutdown'
  BY <1>19 DEF DeliverEventDoes
<1>20. ASSUME NEW p \in Publishers, DeliveredEventDoes(p) PROVE Shutdown'
  BY <1>20 DEF DeliveredEventDoes, Elects, AtPhase, IsCancelled
<1>21. ASSUME TerminateDoes \/ TakeEntriesDoes \/ DrainReceiptsDoes
      PROVE  Shutdown'
  BY <1>21 DEF TerminateDoes, TakeEntriesDoes, Plans, DrainReceiptsDoes
<1>. HIDE DEF Shutdown
<1>. QED BY <1>1, <1>2, <1>3, <1>4, <1>5, <1>6, <1>7, <1>8, <1>9, <1>10, <1>11, <1>12,
         <1>13, <1>14, <1>15, <1>16, <1>17, <1>18, <1>19, <1>20, <1>21, Writers

LEMMA KeptStays ==
  ASSUME Shape, Stages, Completion, Shutdown, Kept, Fresh, [Next]_vars
  PROVE  Kept'
<1>1. ASSUME UNCHANGED <<scenario, pc, phase, entries, todo, writer>> PROVE Kept'
  BY <1>1 DEF Kept, Actors, Owners, Open4, Held, Waits, InSender
<1>. USE ShapeIs, ActorAssumption DEF Kept, Actors, Owners, Open4, Held, Waits, InSender,
       Moves, Sets
<1>2. ASSUME NEW l \in Streams, ListenDoes(l) \/ CheckOpenDoes(l) \/ ReserveDoes(l)
                                \/ AcknowledgeDoes(l) \/ AdmitStreamDoes(l)
                                \/ RetractEntryDoes(l)
      PROVE  Kept'
  BY <1>2 DEF ListenDoes, CheckOpenDoes, IsCancelled, ReserveDoes, Elects, AcknowledgeDoes,
     AdmitStreamDoes, RetractEntryDoes
<1>3. ASSUME NEW l \in Streams, RetractElectionDoes(l) \/ DrainDoes(l)
                                \/ DeliverOpeningDoes(l) \/ DeliveredOpeningDoes(l)
                                \/ AbandonDoes(l) \/ DropHandleDoes(l)
      PROVE  Kept'
  BY <1>3 DEF RetractElectionDoes, Elects, AtPhase, DrainDoes, IsCancelled,
     DeliverOpeningDoes, DeliveredOpeningDoes, AbandonDoes, DropHandleDoes
<1>4. ASSUME NEW l \in Streams, ListenStartDoes(l) \/ ListenPollDoes(l)
                                \/ ListenParkedDoes(l) \/ ListenHoldDoes(l)
                                \/ ListenSettleDoes(l) \/ ListenReturnDoes(l)
      PROVE  Kept'
  BY <1>4 DEF ListenStartDoes, ListenPollDoes, IsCancelled, ListenParkedDoes,
     ListenHoldDoes, ListenSettleDoes, ListenReturnDoes
<1>5. ASSUME NEW l \in Streams, DropLeaseDoes(l) \/ DropElectionDoes(l)
                                \/ RespondStdioDoes(l) \/ ReturnLocalDoes(l)
                                \/ RespondHttpDoes(l) \/ CommitResponseDoes(l)
      PROVE  Kept'
  BY <1>5 DEF DropLeaseDoes, DropElectionDoes, Elects, AtPhase, RespondStdioDoes,
     ReturnLocalDoes, RespondHttpDoes, IsCancelled, CommitResponseDoes
<1>6. ASSUME NEW l \in Streams, ElectOutcomeDoes(l) \/ TerminateEntryDoes(l)
                                \/ WriterAwaitDoes(l)
      PROVE  Kept'
  BY <1>6 DEF ElectOutcomeDoes, TerminateEntryDoes, Elects, Plans, AtPhase, IsCancelled,
     WriterAwaitDoes, Writes
<1>7. ASSUME NEW a \in Actors, SendControlDoes(a) \/ DecideDoes(a)
      PROVE  Kept'
  BY <1>7 DEF SendControlDoes, DecideDoes, IsCancelled
<1>8. ASSUME NEW a \in Actors, UnelectDoes(a) \/ MarkGracefulDoes(a)
      PROVE  Kept'
  BY <1>8 DEF UnelectDoes, Elects, MarkGracefulDoes
<1>9. ASSUME NEW a \in Actors, WakeDoes(a) PROVE Kept'
  BY <1>9 DEF WakeDoes, Aimed, Completion, Completing
<1>10. ASSUME NEW p \in Publishers, PublishDoes(p) PROVE Kept'
  BY <1>10 DEF PublishDoes, Plans, Frame
<1>11. ASSUME NEW p \in Publishers, NEW l \in Streams, QueueDoes(p, l) \/ OfferDoes(p, l)
                                                       \/ SkipDoes(p, l)
      PROVE  Kept'
  BY <1>11 DEF QueueDoes, Elects, Plans, AtPhase, IsCancelled, OfferDoes, SkipDoes
<1>12. ASSUME NEW p \in Publishers, DeliverEventDoes(p) PROVE Kept'
  BY <1>12 DEF DeliverEventDoes
<1>13. ASSUME NEW p \in Publishers, DeliveredEventDoes(p) PROVE Kept'
  BY <1>13 DEF DeliveredEventDoes, Elects, AtPhase, IsCancelled
<1>14. ASSUME TerminateDoes \/ TakeEntriesDoes \/ DrainReceiptsDoes
      PROVE  Kept'
  BY <1>14 DEF TerminateDoes, TakeEntriesDoes, Plans, Shutdown, DrainReceiptsDoes
<1>15. ASSUME NEW l \in Streams, WriterHeadDoes(l) \/ WriterPopDoes(l) \/ WriterIdleDoes(l)
      PROVE  Kept'
  BY <1>15 DEF WriterHeadDoes, Writes, WriterPopDoes, WriterIdleDoes, IsCancelled
<1>16. ASSUME NEW l \in Streams, WriterFlushDoes(l) \/ WriterBreaksDoes(l)
                                 \/ WriterTrailerDoes(l)
      PROVE  Kept'
  BY <1>16 DEF WriterFlushDoes, Writes, WriterBreaksDoes, WriterTrailerDoes
<1>17. ASSUME NEW l \in Streams, WriterFailsDoes(l) PROVE Kept'
  BY <1>17 DEF WriterFailsDoes, Writes
<1>18. ASSUME NEW l \in Streams, CancelModernHttpOwnerDoes(l) PROVE Kept'
  BY <1>18 DEF CancelModernHttpOwnerDoes, Elects, Writes, AtPhase
<1>19. ASSUME NEW l \in Streams, WriterAbortsDoes(l) PROVE Kept'
  BY <1>19 DEF WriterAbortsDoes, Writes
<1>. HIDE DEF Kept
<1>. QED BY <1>1, <1>2, <1>3, <1>4, <1>5, <1>6, <1>7, <1>8, <1>9, <1>10, <1>11, <1>12,
         <1>13, <1>14, <1>15, <1>16, <1>17, <1>18, <1>19, Writers

\* The callbacks on a stream stay as they are, and so does their counter.
SameSenders(m) ==
  /\ phase'[m] = phase[m] \/ phase'[m].at \notin {"EventDelivery", "Pending"}
  /\ \A b \in Publishers \cup {m} :
       /\ pc'[b] \in InSender <=> pc[b] \in InSender
       /\ pc[b] \in InSender => job'[b].on = job[b].on

\* The steps that change a counter.
Recounts ==
  \/ \E l \in Streams : DrainDoes(l) \/ DeliveredOpeningDoes(l) \/ TerminateEntryDoes(l)
  \/ \E p \in Publishers : DeliveredEventDoes(p)
  \/ \E p \in Publishers, l \in Streams : OfferDoes(p, l)

\* The set of callbacks on a stream stays, gains one or loses one.
LEMMA SameCallbacks ==
  ASSUME Counted, NEW m \in Streams, SameSenders(m) PROVE CountedAt(m)'
<1>1. ASSUME NEW x PROVE x \in InCallback(m)' <=> x \in InCallback(m)
  BY DEF InCallback, InSender, SameSenders
<1>2. InCallback(m)' = InCallback(m)
  BY <1>1
<1>. QED BY <1>2 DEF SameSenders, Counted, CountedAt

LEMMA OneMore ==
  ASSUME NEW m \in Streams, NEW a, a \notin InCallback(m), InCallback(m)' = InCallback(m) \cup {a}
  PROVE  Cardinality(InCallback(m)') = Cardinality(InCallback(m)) + 1
BY CallbacksFinite, FS_AddElement

LEMMA OneLess ==
  ASSUME NEW m \in Streams, NEW a \in InCallback(m), InCallback(m)' = InCallback(m) \ {a}
  PROVE  Cardinality(InCallback(m)') = Cardinality(InCallback(m)) - 1
BY CallbacksFinite, FS_RemoveElement

\* Every other step leaves the callbacks on a stream alone.
LEMMA SendersStay ==
  ASSUME Shape, Fresh, Stages, Completion, NEW m \in Streams, [Next]_vars
  PROVE  SameSenders(m) \/ Recounts
<1>1. ASSUME UNCHANGED <<scenario, pc, phase, job>> PROVE SameSenders(m) \/ Recounts
  BY <1>1 DEF SameSenders, InSender, Actors
<1>2. ASSUME NEW l \in Streams, DrainDoes(l) PROVE SameSenders(m) \/ Recounts
  BY <1>2 DEF Recounts
<1>3. ASSUME NEW l \in Streams, DeliveredOpeningDoes(l) PROVE SameSenders(m) \/ Recounts
  BY <1>3 DEF Recounts
<1>4. ASSUME NEW p \in Publishers, NEW l \in Streams, OfferDoes(p, l) PROVE SameSenders(m) \/ Recounts
  BY <1>4 DEF Recounts
<1>5. ASSUME NEW p \in Publishers, DeliveredEventDoes(p) PROVE SameSenders(m) \/ Recounts
  BY <1>5 DEF Recounts
<1>6. ASSUME NEW l \in Streams, TerminateEntryDoes(l) PROVE SameSenders(m) \/ Recounts
  BY <1>6 DEF Recounts
<1>. USE ShapeIs, ActorAssumption DEF SameSenders, InSender, Actors, Moves, Sets
<1>7. ASSUME NEW l \in Streams, ListenDoes(l) \/ CheckOpenDoes(l) \/ ReserveDoes(l)
                                \/ AcknowledgeDoes(l) \/ AdmitStreamDoes(l)
                                \/ RetractEntryDoes(l)
      PROVE  SameSenders(m) \/ Recounts
  BY <1>7 DEF ListenDoes, CheckOpenDoes, IsCancelled, ReserveDoes, Elects, Fresh, Early,
     AcknowledgeDoes, AdmitStreamDoes, RetractEntryDoes
<1>8. ASSUME NEW l \in Streams, RetractElectionDoes(l) \/ DeliverOpeningDoes(l)
                                \/ AbandonDoes(l) \/ DropHandleDoes(l) \/ ListenStartDoes(l)
                                \/ ListenPollDoes(l)
      PROVE  SameSenders(m) \/ Recounts
  BY <1>8 DEF RetractElectionDoes, Elects, AtPhase, DeliverOpeningDoes, Works, AbandonDoes,
     DropHandleDoes, ListenStartDoes, ListenPollDoes, IsCancelled
<1>9. ASSUME NEW l \in Streams, ListenParkedDoes(l) \/ ListenHoldDoes(l)
                                \/ ListenSettleDoes(l) \/ ListenReturnDoes(l)
                                \/ DropLeaseDoes(l) \/ DropElectionDoes(l)
      PROVE  SameSenders(m) \/ Recounts
  BY <1>9 DEF ListenParkedDoes, IsCancelled, ListenHoldDoes, ListenSettleDoes,
     ListenReturnDoes, DropLeaseDoes, DropElectionDoes, Elects, AtPhase, Open4
<1>10. ASSUME NEW l \in Streams, RespondStdioDoes(l) \/ ReturnLocalDoes(l)
                                 \/ RespondHttpDoes(l)
      PROVE  SameSenders(m) \/ Recounts
  BY <1>10 DEF RespondStdioDoes, ReturnLocalDoes, RespondHttpDoes, Works, IsCancelled
<1>11. ASSUME NEW l \in Streams, CommitResponseDoes(l) PROVE SameSenders(m) \/ Recounts
  BY <1>11 DEF CommitResponseDoes, Works
<1>12. ASSUME NEW l \in Streams, ElectOutcomeDoes(l) PROVE SameSenders(m) \/ Recounts
  BY <1>12 DEF ElectOutcomeDoes
<1>13. ASSUME NEW a \in Actors, SendControlDoes(a) \/ DecideDoes(a) \/ UnelectDoes(a)
                                \/ MarkGracefulDoes(a) \/ WakeDoes(a)
      PROVE  SameSenders(m) \/ Recounts
  BY <1>13 DEF SendControlDoes, Works, DecideDoes, IsCancelled, UnelectDoes, Elects,
     MarkGracefulDoes, WakeDoes
<1>14. ASSUME NEW p \in Publishers, PublishDoes(p) \/ DeliverEventDoes(p)
      PROVE  SameSenders(m) \/ Recounts
  BY <1>14 DEF PublishDoes, Works, Frame, DeliverEventDoes
<1>15. ASSUME NEW p \in Publishers, NEW l \in Streams, QueueDoes(p, l) PROVE SameSenders(m) \/ Recounts
  BY <1>15 DEF QueueDoes, Elects, AtPhase, IsCancelled
<1>16. ASSUME TerminateDoes \/ TakeEntriesDoes \/ DrainReceiptsDoes
      PROVE  SameSenders(m) \/ Recounts
  BY <1>16 DEF TerminateDoes, TakeEntriesDoes, DrainReceiptsDoes
<1>17. ASSUME NEW l \in Streams, CancelModernHttpOwnerDoes(l) PROVE SameSenders(m) \/ Recounts
  BY <1>17 DEF CancelModernHttpOwnerDoes, Elects, AtPhase, Open4
<1>. QED BY <1>1, <1>2, <1>3, <1>4, <1>5, <1>6, <1>7, <1>8, <1>9, <1>10, <1>11, <1>12,
         <1>13, <1>14, <1>15, <1>16, <1>17, Writers

\* The counters stay exact: an event that is offered adds a callback, one
\* that was delivered takes it away, and the termination waits for as many as
\* there are.
LEMMA CountedStays ==
  ASSUME Shape, Fresh, Stages, Callbacks, Completion, Counted, NEW m \in Streams, [Next]_vars
  PROVE  CountedAt(m)'
<1>1. ASSUME NEW l \in Streams, DrainDoes(l) PROVE CountedAt(m)'
  <2>1. CASE m = l
    BY <1>1, <2>1 DEF DrainDoes, Elects, Sets, CountedAt
  <2>2. CASE m # l
    <3>1. SameSenders(m)
      BY <1>1, <2>2, ShapeIs, ActorAssumption DEF DrainDoes, Moves, Elects, Works, Sets, InSender, Actors, Aimed, SameSenders
    <3>. QED BY <3>1, SameCallbacks
  <2>. QED BY <2>1, <2>2
<1>2. ASSUME NEW l \in Streams, DeliveredOpeningDoes(l) PROVE CountedAt(m)'
  <2>1. CASE m = l
    BY <1>2, <2>1 DEF DeliveredOpeningDoes, Elects, Sets, CountedAt
  <2>2. CASE m # l
    <3>1. SameSenders(m)
      BY <1>2, <2>2, ShapeIs, ActorAssumption DEF DeliveredOpeningDoes, Moves, Elects, Works, Sets, InSender, Actors, Aimed, SameSenders
    <3>. QED BY <3>1, SameCallbacks
  <2>. QED BY <2>1, <2>2
<1>3. ASSUME NEW l \in Streams, TerminateEntryDoes(l) PROVE CountedAt(m)'
  <2>1. InCallback(m)' = InCallback(m)
    BY <1>3, ActorAssumption DEF TerminateEntryDoes, Moves, Works, Sets, InCallback, Actors
  <2>2. CASE m # l \/ phase'[m].at \notin {"EventDelivery", "Pending"} \/ phase' = phase
    BY <1>3, <2>1, <2>2 DEF TerminateEntryDoes, Elects, Sets, Counted, CountedAt
  <2>3. CASE m = l /\ phase'[m].at \in {"EventDelivery", "Pending"} /\ phase[m].at \in {"EventDelivery"}
    <3>1. phase'[m].n = phase[m].n
      BY <1>3, <2>3 DEF TerminateEntryDoes, Elects, Sets, AtPhase, Open4
    <3>. QED BY <2>1, <2>3, <3>1 DEF Counted, CountedAt
  <2>4. CASE m = l /\ phase'[m].at \in {"EventDelivery", "Pending"} /\ phase[m].at = "Opening"
    <3>1. phase'[m].n = 0
      BY <1>3, <2>4 DEF TerminateEntryDoes, Elects, Sets, AtPhase, Open4
    <3>2. InCallback(m) = {}
      BY <2>4, ShapeIs, ActorAssumption DEF Callbacks, Stages, InCallback, InSender, Aimed
    <3>. QED BY <2>1, <3>1, <3>2, FS_EmptySet DEF CountedAt
  <2>5. CASE m = l /\ phase'[m].at \in {"EventDelivery", "Pending"} /\ phase[m].at = "OpeningDelivery"
    <3>1. phase'[m].n = 1
      BY <1>3, <2>5 DEF TerminateEntryDoes, Elects, Sets, AtPhase, Open4
    <3>2. InCallback(m) = {m}
      BY <2>5, ShapeIs, ActorAssumption DEF Callbacks, Stages, InCallback, InSender, Aimed
    <3>. QED BY <2>1, <3>1, <3>2, FS_Singleton DEF CountedAt
  <2>. QED BY <1>3, <2>2, <2>3, <2>4, <2>5 DEF TerminateEntryDoes, AtPhase, Elects, Sets, Open4
<1>4. ASSUME NEW p \in Publishers, DeliveredEventDoes(p) PROVE CountedAt(m)'
  <2>1. /\ pc[p] = "delivered" /\ job[p].on \in Streams /\ job' = job /\ p \in InCallback(job[p].on)
        /\ p \in Actors /\ phase[job[p].on] \in Phases
    BY <1>4, ShapeIs DEF DeliveredEventDoes, InCallback, Actors
  <2>2. Moves(p, "next") \/ Moves(p, "control")
    BY <1>4 DEF DeliveredEventDoes
  <2>3. CASE m = job[p].on
    <3>1. InCallback(m)' = InCallback(m) \ {p}
      BY <2>1, <2>2, <2>3 DEF InCallback, Moves, Sets, Actors
    <3>2. Cardinality(InCallback(m)') = Cardinality(InCallback(m)) - 1
      BY <2>1, <2>3, <3>1, OneLess
    <3>3. \/ phase'[m].at \notin {"EventDelivery", "Pending"}
          \/ phase[m].at \in {"EventDelivery", "Pending"} /\ phase'[m].n = phase[m].n - 1
      BY <1>4, <2>1, <2>3 DEF DeliveredEventDoes, Elects, Sets, AtPhase
    <3>. QED BY <3>2, <3>3 DEF Counted, CountedAt
  <2>4. CASE m # job[p].on
    <3>1. InCallback(m)' = InCallback(m)
      BY <2>1, <2>2, <2>4 DEF InCallback, Moves, Sets, Actors
    <3>2. phase'[m] = phase[m]
      BY <1>4, <2>4 DEF DeliveredEventDoes, Elects, Sets
    <3>. QED BY <3>1, <3>2 DEF Counted, CountedAt
  <2>. QED BY <2>3, <2>4
<1>5. ASSUME NEW p \in Publishers, NEW l \in Streams, OfferDoes(p, l) PROVE CountedAt(m)'
  <2>1. CASE m = l /\ phase'[l].at = "EventDelivery"
    <3>1. /\ phase'[l].n = phase[l].n + 1 /\ AtPhase(l, {"Active", "EventDelivery"})
          /\ pc[p] = "next" /\ Moves(p, "deliver")
          /\ Works(p, l, job[p].event, job[p].sent, job[p].count)
      BY <1>5, <2>1 DEF OfferDoes, Elects, Sets
    <3>2. p \notin InCallback(l) /\ InCallback(l)' = InCallback(l) \cup {p}
      BY <3>1, ActorAssumption DEF InCallback, Moves, Works, Sets, Actors
    <3>3. CASE phase[l].at = "Active"
      <4>1. phase[l].n = 0 /\ InCallback(l) = {}
        BY <3>3, ActorAssumption, ShapeIs
           DEF Stages, Callbacks, InCallback, InSender, Leased, Waits, Leaving, Aimed
      <4>2. Cardinality(InCallback(l)) = 0
        BY <4>1, FS_EmptySet
      <4>. QED BY <2>1, <3>1, <3>2, <4>1, <4>2, OneMore DEF CountedAt
    <3>4. CASE phase[l].at = "EventDelivery"
      BY <2>1, <3>1, <3>2, <3>4, OneMore DEF Counted, CountedAt
    <3>. QED BY <3>1, <3>3, <3>4 DEF AtPhase
  <2>2. CASE m = l /\ phase'[l].at # "EventDelivery"
    BY <1>5, <2>2 DEF OfferDoes, Elects, Sets, CountedAt
  <2>3. CASE m # l
    <3>1. InCallback(m)' = InCallback(m)
      BY <1>5, <2>3, ActorAssumption DEF OfferDoes, Moves, Works, Sets, InCallback, Actors
    <3>2. phase'[m] = phase[m]
      BY <1>5, <2>3 DEF OfferDoes, Elects, Sets
    <3>. QED BY <3>1, <3>2 DEF Counted, CountedAt
  <2>. QED BY <2>1, <2>2, <2>3
<1>. QED BY <1>1, <1>2, <1>3, <1>4, <1>5, SendersStay, SameCallbacks DEF Recounts

\* The number of entries is a number, and subsets are within the limit.
LEMMA EntriesFinite ==
  ASSUME Shape PROVE IsFiniteSet(entries) /\ Cardinality(entries) \in Nat /\ MaxStreams \in Nat
BY FS_Subset, FS_CardinalityType, ActorAssumption, ScenarioAssumption DEF Shape, Typed, MaxStreams

LEMMA FewerEntries ==
  ASSUME Shape, FewEntries, NEW S \in SUBSET entries PROVE Cardinality(S) <= MaxStreams
<1>1. Cardinality(S) <= Cardinality(entries) /\ Cardinality(S) \in Nat
  BY EntriesFinite, FS_Subset, FS_CardinalityType
<1>. QED BY <1>1, EntriesFinite DEF FewEntries

\* reserve keeps to MAX_FINAL_SUBSCRIPTION_STREAMS.
LEMMA FewEntriesStays ==
  ASSUME Shape, FewEntries, [Next]_vars
  PROVE  FewEntries'
<1>1. ASSUME UNCHANGED <<scenario, entries>> PROVE FewEntries'
  BY <1>1 DEF FewEntries, MaxStreams
<1>2. ASSUME NEW l \in Streams, ReserveDoes(l) PROVE FewEntries'
  <2>1. \/ entries' = entries
        \/ entries' = entries \cup {l} /\ ~(Cardinality(entries) >= MaxStreams)
    BY <1>2 DEF ReserveDoes
  <2>2. Cardinality(entries') = Cardinality(entries) \/ Cardinality(entries') = Cardinality(entries) + 1
    BY <2>1, EntriesFinite, FS_AddElement
  <2>3. Cardinality(entries') <= MaxStreams
    BY <2>1, <2>2, EntriesFinite DEF FewEntries
  <2>. QED BY <1>2, <2>3 DEF ReserveDoes, FewEntries, MaxStreams
<1>3. ASSUME NEW l \in Streams, RetractEntryDoes(l) PROVE FewEntries'
  <2>1. entries' \subseteq entries
    BY <1>3 DEF RetractEntryDoes
  <2>2. Cardinality(entries') <= MaxStreams
    BY <2>1, FewerEntries
  <2>. QED BY <1>3, <2>2 DEF RetractEntryDoes, FewEntries, MaxStreams
<1>4. ASSUME NEW l \in Streams, AbandonDoes(l) PROVE FewEntries'
  <2>1. entries' \subseteq entries
    BY <1>4 DEF AbandonDoes
  <2>2. Cardinality(entries') <= MaxStreams
    BY <2>1, FewerEntries
  <2>. QED BY <1>4, <2>2 DEF AbandonDoes, FewEntries, MaxStreams
<1>5. ASSUME NEW l \in Streams, DropLeaseDoes(l) PROVE FewEntries'
  <2>1. entries' \subseteq entries
    BY <1>5 DEF DropLeaseDoes
  <2>2. Cardinality(entries') <= MaxStreams
    BY <2>1, FewerEntries
  <2>. QED BY <1>5, <2>2 DEF DropLeaseDoes, FewEntries, MaxStreams
<1>6. ASSUME TakeEntriesDoes PROVE FewEntries'
  <2>1. entries' \subseteq entries
    BY <1>6 DEF TakeEntriesDoes
  <2>2. Cardinality(entries') <= MaxStreams
    BY <2>1, FewerEntries
  <2>. QED BY <1>6, <2>2 DEF TakeEntriesDoes, FewEntries, MaxStreams
<1>7. ASSUME NEW l \in Streams, WriterFailsDoes(l) PROVE FewEntries'
  <2>1. entries' \subseteq entries
    BY <1>7 DEF WriterFailsDoes
  <2>2. Cardinality(entries') <= MaxStreams
    BY <2>1, FewerEntries
  <2>. QED BY <1>7, <2>2 DEF WriterFailsDoes, FewEntries, MaxStreams
<1>. QED BY <1>1, <1>2, <1>3, <1>4, <1>5, <1>6, <1>7, Writers

\* What the drain loop and a publisher do to the length of an opening queue.
LEMMA OpeningIs ==
  ASSUME Shape
  PROVE  /\ MaxOpening \in Nat \ {0}
         /\ \A l \in Streams : opening[l] \in Seq(Queueable) /\ Len(opening[l]) \in Nat
BY ScenarioAssumption DEF Shape, Typed, MaxOpening

LEMMA EmptyIsShort == ASSUME Shape PROVE Len(<<>>) <= MaxOpening
BY OpeningIs

LEMMA TailIsShorter ==
  ASSUME Shape, ShortQueues, NEW l \in Streams, opening[l] # <<>>
  PROVE  Len(Tail(opening[l])) <= MaxOpening
<1>1. opening[l] \in Seq(Queueable)
  BY OpeningIs
<1>2. Len(opening[l]) \in Nat /\ Len(Tail(opening[l])) = Len(opening[l]) - 1
  BY <1>1
<1>. QED BY <1>2, OpeningIs DEF ShortQueues

LEMMA OneLonger ==
  ASSUME Shape, NEW l \in Streams, NEW e, ~(Len(opening[l]) >= MaxOpening)
  PROVE  Len(Append(opening[l], e)) <= MaxOpening
<1>1. opening[l] \in Seq(Queueable) /\ Len(opening[l]) \in Nat
  BY OpeningIs
<1>2. Len(Append(opening[l], e)) = Len(opening[l]) + 1
  BY <1>1
<1>. QED BY <1>1, <1>2, OpeningIs

\* A publisher keeps to MAX_FINAL_SUBSCRIPTION_OPENING_EVENTS.
LEMMA ShortQueuesStays ==
  ASSUME Shape, ShortQueues, [Next]_vars
  PROVE  ShortQueues'
<1>1. ASSUME UNCHANGED <<scenario, opening>> PROVE ShortQueues'
  BY <1>1 DEF ShortQueues, MaxOpening
<1>2. ASSUME NEW l \in Streams, RetractElectionDoes(l) PROVE ShortQueues'
  <2>1. ASSUME NEW m \in Streams
        PROVE  \/ opening'[m] = opening[m]
               \/ opening'[m] = <<>>
    BY <1>2, <2>1 DEF RetractElectionDoes, Queues, Sets
  <2>2. ASSUME NEW m \in Streams PROVE Len(opening'[m]) <= MaxOpening
    BY <2>1, OpeningIs, EmptyIsShort DEF ShortQueues
  <2>. QED BY <1>2, <2>2 DEF RetractElectionDoes, ShortQueues, MaxOpening
<1>3. ASSUME NEW l \in Streams, DrainDoes(l) PROVE ShortQueues'
  <2>1. ASSUME NEW m \in Streams
        PROVE  \/ opening'[m] = opening[m]
               \/ opening'[m] = <<>>
               \/ (m = l /\ opening[l] # <<>> /\ opening'[m] = Tail(opening[l]))
    BY <1>3, <2>1 DEF DrainDoes, Queues, Sets
  <2>2. ASSUME NEW m \in Streams PROVE Len(opening'[m]) <= MaxOpening
    BY <2>1, OpeningIs, EmptyIsShort, TailIsShorter DEF ShortQueues
  <2>. QED BY <1>3, <2>2 DEF DrainDoes, ShortQueues, MaxOpening
<1>4. ASSUME NEW l \in Streams, DeliveredOpeningDoes(l) PROVE ShortQueues'
  <2>1. ASSUME NEW m \in Streams
        PROVE  \/ opening'[m] = opening[m]
               \/ opening'[m] = <<>>
    BY <1>4, <2>1 DEF DeliveredOpeningDoes, Queues, Sets
  <2>2. ASSUME NEW m \in Streams PROVE Len(opening'[m]) <= MaxOpening
    BY <2>1, OpeningIs, EmptyIsShort DEF ShortQueues
  <2>. QED BY <1>4, <2>2 DEF DeliveredOpeningDoes, ShortQueues, MaxOpening
<1>5. ASSUME NEW l \in Streams, DropElectionDoes(l) PROVE ShortQueues'
  <2>1. ASSUME NEW m \in Streams
        PROVE  \/ opening'[m] = opening[m]
               \/ opening'[m] = <<>>
    BY <1>5, <2>1 DEF DropElectionDoes, Queues, Sets
  <2>2. ASSUME NEW m \in Streams PROVE Len(opening'[m]) <= MaxOpening
    BY <2>1, OpeningIs, EmptyIsShort DEF ShortQueues
  <2>. QED BY <1>5, <2>2 DEF DropElectionDoes, ShortQueues, MaxOpening
<1>6. ASSUME NEW p \in Publishers, NEW l \in Streams, QueueDoes(p, l) PROVE ShortQueues'
  <2>1. ASSUME NEW m \in Streams
        PROVE  \/ opening'[m] = opening[m]
               \/ opening'[m] = <<>>
               \/ /\ m = l /\ ~(Len(opening[l]) >= MaxOpening)
                  /\ opening'[m] = Append(opening[l], job[p].event)
    BY <1>6, <2>1 DEF QueueDoes, Queues, Sets
  <2>2. ASSUME NEW m \in Streams PROVE Len(opening'[m]) <= MaxOpening
    BY <2>1, OpeningIs, EmptyIsShort, OneLonger DEF ShortQueues
  <2>. QED BY <1>6, <2>2 DEF QueueDoes, ShortQueues, MaxOpening
<1>7. ASSUME NEW p \in Publishers, DeliveredEventDoes(p) PROVE ShortQueues'
  <2>1. ASSUME NEW m \in Streams
        PROVE  \/ opening'[m] = opening[m]
               \/ opening'[m] = <<>>
    BY <1>7, <2>1 DEF DeliveredEventDoes, Queues, Sets
  <2>2. ASSUME NEW m \in Streams PROVE Len(opening'[m]) <= MaxOpening
    BY <2>1, OpeningIs, EmptyIsShort DEF ShortQueues
  <2>. QED BY <1>7, <2>2 DEF DeliveredEventDoes, ShortQueues, MaxOpening
<1>8. ASSUME NEW l \in Streams, TerminateEntryDoes(l) PROVE ShortQueues'
  <2>1. ASSUME NEW m \in Streams
        PROVE  \/ opening'[m] = opening[m]
               \/ opening'[m] = <<>>
    BY <1>8, <2>1 DEF TerminateEntryDoes, Queues, Sets
  <2>2. ASSUME NEW m \in Streams PROVE Len(opening'[m]) <= MaxOpening
    BY <2>1, OpeningIs, EmptyIsShort DEF ShortQueues
  <2>. QED BY <1>8, <2>2 DEF TerminateEntryDoes, ShortQueues, MaxOpening
<1>9. ASSUME NEW l \in Streams, CancelModernHttpOwnerDoes(l) PROVE ShortQueues'
  <2>1. ASSUME NEW m \in Streams
        PROVE  \/ opening'[m] = opening[m]
               \/ opening'[m] = <<>>
    BY <1>9, <2>1 DEF CancelModernHttpOwnerDoes, Queues, Sets
  <2>2. ASSUME NEW m \in Streams PROVE Len(opening'[m]) <= MaxOpening
    BY <2>1, OpeningIs, EmptyIsShort DEF ShortQueues
  <2>. QED BY <1>9, <2>2 DEF CancelModernHttpOwnerDoes, ShortQueues, MaxOpening
<1>. QED BY <1>1, <1>2, <1>3, <1>4, <1>5, <1>6, <1>7, <1>8, <1>9, Writers

\* At most every publisher is in a callback on a stream.
LEMMA CallbackBound ==
  ASSUME EInv, NEW l \in Streams
  PROVE  Cardinality(InCallback(l)) <= Cardinality(Publishers)
<1>1. IsFiniteSet(Publishers) /\ Cardinality(Publishers) \in Nat
  BY ActorAssumption, FS_CardinalityType
<1>2. CASE pc[l] \in InSender
  <2>1. InCallback(l) = {l}
    BY <1>2, ShapeIs, ActorAssumption
       DEF EInv, Callbacks, InCallback, InSender, Leased, Waits, Leaving, Aimed
  <2>2. Publishers # {}
    BY <1>2, ShapeIs DEF EInv, Carrying, Queueable
  <2>3. Cardinality(Publishers) # 0
    BY <1>1, <2>2, FS_EmptySet
  <2>4. Cardinality(InCallback(l)) = 1
    BY <2>1, FS_Singleton
  <2>. QED BY <1>1, <2>3, <2>4
<1>3. CASE pc[l] \notin InSender
  <2>1. InCallback(l) \subseteq Publishers
    BY <1>3 DEF InCallback, InSender
  <2>. QED BY <1>1, <2>1, FS_Subset
<1>. QED BY <1>2, <1>3

\* The invariant of the election is inductive.
LEMMA EInvIs ==
  ASSUME EInv PROVE ElectionIsExact
<1>1. TypeOK
  <2>1. phase \in [Streams -> [at: PhaseNames, n: 0..Cardinality(Publishers)]]
    <3>1. \A l \in Streams : phase[l] \in Phases
      BY ShapeIs DEF EInv
    <3>2. Cardinality(Publishers) \in Nat
      BY ActorAssumption, FS_CardinalityType
    <3>3. ASSUME NEW l \in Streams PROVE phase[l].n <= Cardinality(Publishers)
      BY <3>1, <3>2, CallbackBound DEF EInv, Stages, Counted, CountedAt
    <3>4. ASSUME NEW l \in Streams PROVE phase[l].n \in 0..Cardinality(Publishers)
      BY <3>1, <3>2, <3>3 DEF Phases
    <3>5. phase \in [Streams -> Phases]
      BY ShapeIs DEF EInv
    <3>. QED BY <3>1, <3>4, <3>5 DEF Phases
  <2>. QED BY <2>1 DEF EInv, Shape, Typed, FewEntries, ShortQueues, TypeOK, Words
<1>2. InFlightIsExact
  <2>1. ASSUME NEW l \in Streams, AtPhase(l, {"Opening", "Active"}) PROVE InCallback(l) = {}
    BY <2>1, ShapeIs, ActorAssumption
       DEF EInv, AtPhase, Callbacks, Stages, InCallback, InSender, Leased, Waits, Leaving
  <2>2. ASSUME NEW l \in Streams, AtPhase(l, {"EventDelivery"})
        PROVE  phase[l].n = Cardinality(InCallback(l)) /\ phase[l].n > 0
    BY <2>2, ShapeIs DEF EInv, AtPhase, Counted, CountedAt, Positive
  <2>3. ASSUME NEW l \in Streams, AtPhase(l, {"Pending"})
        PROVE  phase[l].n = Cardinality(InCallback(l))
    BY <2>3 DEF EInv, AtPhase, Counted, CountedAt
  <2>. QED BY <2>1, <2>2, <2>3 DEF InFlightIsExact
<1>3. GracefulIsElected
  BY DEF EInv, GracefulIsElected, AtPhase, Completion, Shutdown
<1>4. NoStreamEscapes
  BY DEF EInv, NoStreamEscapes, AtPhase, Shutdown, Kept, Held, Waits
<1>. QED BY <1>1, <1>2, <1>3, <1>4 DEF ElectionIsExact

LEMMA EInvStarts == Init => EInv
<1>. SUFFICES ASSUME Init PROVE EInv
  OBVIOUS
<1>1. Kind \in [Streams -> {"stdio", "http", "local"}] /\ MaxStreams \in Nat \ {0} /\ MaxOpening \in Nat \ {0}
  BY ScenarioAssumption DEF Init, Kind, MaxStreams, MaxOpening
<1>2. NewReceipt \in Receipts /\ NewBody \in Bodies
  BY DEF NewReceipt, Receipts, Marks, NewBody, Bodies
<1>3. Phase("Opening", 0) \in Phases
  BY DEF Phase, Phases, PhaseNames
<1>4. NoEvent \in Frames
  BY PlainIs DEF NoEvent, Kinds
<1>5. ASSUME NEW a \in Actors PROVE [on |-> a, event |-> NoEvent, sent |-> TRUE, count |-> 0] \in Jobs
  BY <1>4, <1>5 DEF Jobs
<1>6. Typed
  <2>1. pc \in [Actors -> Labels] /\ job \in [Actors -> Jobs]
    BY <1>5, LabelNames DEF Init, Opener
  <2>2. writer \in [Streams -> WriterLabels] /\ gate \in [Streams -> Gates]
    BY DEF Init, WriterLabels, Gates
  <2>3. /\ word \in [Streams -> Words] /\ live \in [Streams -> BOOLEAN]
        /\ outcome \in [Streams -> Results] /\ graceful \in [Streams -> BOOLEAN]
    BY DEF Init, Words, Results
  <2>4. /\ phase \in [Streams -> Phases] /\ receipt \in [Streams -> Receipts]
        /\ body \in [Streams -> Bodies]
    BY <1>2, <1>3 DEF Init
  <2>5. /\ opening \in [Streams -> Seq(Queueable)] /\ admitted \in [Streams -> Seq(Queueable)]
        /\ todo \in [Owners -> SUBSET Streams]
    BY DEF Init, Owners
  <2>. QED BY <2>1, <2>2, <2>3, <2>4, <2>5 DEF Init, Typed
<1>7. Placed
  BY ActorAssumption DEF Init, Placed, Labelled, Aimed, Carrying, Positive, ListenerLabels,
     PublisherLabels, ServerLabels, Opener, InSender, Completing, Actors, Owners, Phase
<1>8. Fresh /\ Stages /\ Shutdown
  BY ActorAssumption DEF Init, Fresh, Stages, Shutdown, Early, Placing, InSender, Owners,
     Actors, Phase
<1>9. Callbacks /\ Completion /\ Counted /\ Kept
  BY ActorAssumption DEF Init, Callbacks, Completion, Counted, CountedAt, Kept, InSender,
     Completing, Held, Waits, Actors, Phase
<1>10. FewEntries /\ ShortQueues
  BY <1>1, FS_EmptySet DEF Init, FewEntries, ShortQueues
<1>. QED BY <1>6, <1>7, <1>8, <1>9, <1>10 DEF EInv, Shape

LEMMA EInvStays == EInv /\ [Next]_vars => EInv'
BY ShapeStays, FreshStays, StagesStays, CallbacksStays, CountedStays, CompletionStays,
   ShutdownStays, KeptStays, FewEntriesStays, ShortQueuesStays DEF EInv, Counted

\* The end of a stream is elected once: its phase counts exactly the
\* callbacks in flight, a graceful end belongs to the server's election, and
\* no open racing the termination escapes it.
THEOREM StreamElectionHolds == Spec => []ElectionIsExact
BY EInvStarts, EInvStays, EInvIs, PTL DEF Spec

-----------------------------------------------------------------------------
(* The end. *)

\* More facts about types.
LEMMA MoreShape ==
  ASSUME Shape
  PROVE  /\ word \in [Streams -> Words] /\ live \in [Streams -> BOOLEAN]
         /\ receipt \in [Streams -> Receipts] /\ body \in [Streams -> Bodies]
         /\ writer \in [Streams -> WriterLabels] /\ gate \in [Streams -> Gates]
         /\ outcome \in [Streams -> Results] /\ faulted \subseteq Streams
         /\ graceful \in [Streams -> BOOLEAN]
BY DEF Shape, Typed

\* Who is in a callback on a stream that is not drained yet.
LEMMA NoCallbackYet ==
  ASSUME Shape, Callbacks, NEW l \in Streams, pc[l] \notin Leased, pc[l] \notin InSender
  PROVE  InCallback(l) = {} /\ Cardinality(InCallback(l)) = 0
<1>1. InCallback(l) = {}
  BY ActorAssumption DEF Callbacks, InCallback, InSender
<1>. QED BY <1>1, FS_EmptySet

LEMMA OnlyOpener ==
  ASSUME Shape, Callbacks, NEW l \in Streams, pc[l] \in InSender
  PROVE  InCallback(l) = {l} /\ Cardinality(InCallback(l)) = 1
<1>1. InCallback(l) = {l}
  BY ActorAssumption, ShapeIs DEF Callbacks, InCallback, InSender, Leased, Waits, Leaving, Aimed
<1>. QED BY <1>1, FS_Singleton

LEMMA CallbackCounts ==
  ASSUME NEW l \in Streams, NEW a \in InCallback(l) PROVE Cardinality(InCallback(l)) # 0
BY CallbacksFinite, FS_EmptySet

\* What broke a stream is not forgotten.
LEMMA BlameLasts ==
  ASSUME Shape, Returned, NEW m \in Streams, Blamed(m), [Next]_vars
  PROVE  Blamed(m)'
<1>1. ASSUME UNCHANGED <<scenario, faulted, graceful, outcome>> PROVE Blamed(m)'
  BY <1>1 DEF Blamed
<1>. USE ActorAssumption, ShapeIs DEF Blamed, Sets
<1>2. ASSUME NEW l \in Streams, CheckOpenDoes(l) \/ ReserveDoes(l) \/ AcknowledgeDoes(l)
                                \/ RetractElectionDoes(l) \/ DeliverOpeningDoes(l)
                                \/ AbandonDoes(l)
      PROVE  Blamed(m)'
  BY <1>2 DEF CheckOpenDoes, Answers, IsCancelled, Returned, Ending, ReserveDoes,
     AcknowledgeDoes, Sends, Drops, Panics, Refuses, Blames, Plain, RetractElectionDoes,
     AtPhase, DeliverOpeningDoes, AbandonDoes
<1>3. ASSUME NEW l \in Streams, DropHandleDoes(l) \/ ListenHoldDoes(l)
                                \/ ListenReturnDoes(l) \/ RespondStdioDoes(l)
                                \/ CommitResponseDoes(l) \/ WriterBreaksDoes(l)
      PROVE  Blamed(m)'
  BY <1>3 DEF DropHandleDoes, Blames, ListenHoldDoes, Answers, IsCancelled, Returned,
     Ending, ListenReturnDoes, RespondStdioDoes, CommitResponseDoes, WriterBreaksDoes
<1>4. ASSUME NEW a \in Actors, SendControlDoes(a) \/ UnelectDoes(a) \/ MarkGracefulDoes(a)
      PROVE  Blamed(m)'
  BY <1>4 DEF SendControlDoes, Sends, Drops, Panics, Refuses, Blames, Plain, UnelectDoes,
     Answers, Returned, Ending, MarkGracefulDoes, Graces
<1>5. ASSUME NEW p \in Publishers, NEW l \in Streams, QueueDoes(p, l) PROVE Blamed(m)'
  BY <1>5 DEF QueueDoes, Blames, AtPhase, IsCancelled
<1>6. ASSUME NEW p \in Publishers, DeliverEventDoes(p) PROVE Blamed(m)'
  BY <1>6 DEF DeliverEventDoes, Sends, Drops, Panics, Refuses, Blames
<1>7. ASSUME DrainReceiptsDoes PROVE Blamed(m)'
  BY <1>7 DEF DrainReceiptsDoes
<1>8. ASSUME NEW l \in Streams, PeerCancelsDoes(l) \/ ContextDiesDoes(l)
      PROVE  Blamed(m)'
  BY <1>8 DEF PeerCancelsDoes, Blames, ContextDiesDoes
<1>. HIDE DEF Blamed
<1>. QED BY <1>1, <1>2, <1>3, <1>4, <1>5, <1>6, <1>7, <1>8, Writers

\* The writer finds a response only on a stream that is blamed.
LEMMA PoppedResponse ==
  ASSUME Shape, Responded, NEW l \in Streams, IsResponse(NextFrame(l)),
         body[l].popped < Len(body[l].frames)
  PROVE  Blamed(l)
<1>1. body[l].frames \in Seq(Frames) /\ body[l].popped \in Nat
  BY MoreShape DEF Bodies
<1>2. body[l].popped + 1 \in DOMAIN body[l].frames
  BY <1>1
<1>3. Has(l, Responses)
  BY <1>2 DEF IsResponse, NextFrame, Has, Shows, Responses
<1>. QED BY <1>3 DEF Responded

\* Every step keeps each part of the invariant of the end.
LEMMA SignalsStays ==
  ASSUME EInv, Returned, Signals, Leaves, Broken, [Next]_vars
  PROVE  Signals'
<1>e. Shape /\ Stages /\ Counted /\ Callbacks /\ Completion
  BY DEF EInv
<1>b. \A m \in Streams : Blamed(m) => Blamed(m)'
  BY <1>e, BlameLasts
<1>f. \A m \in Streams : m \in faulted' => Blamed(m)'
  BY DEF Blamed
<1>1. ASSUME UNCHANGED <<scenario, word, live, phase>> PROVE Signals'
  BY <1>1, <1>b DEF Signals, IsCancelled
<1>2. ASSUME NEW l \in Streams, DrainDoes(l) PROVE Signals'
  <2>1. phase[l].at = "Pending" => phase[l].n = 0
    BY <1>2, <1>e, NoCallbackYet DEF DrainDoes, Counted, CountedAt, InSender, Leased, Waits, Leaving
  <2>2. phase[l] \in Phases /\ phase[l].at \in {"Opening", "Pending", "PeerTerminated"} /\ (phase[l].at = "Opening" => phase[l].n = 0)
    BY <1>2, <1>e, ShapeIs DEF DrainDoes, Stages, Placing
  <2>3. ASSUME phase'[l].at = "PeerTerminated" PROVE IsCancelled(l) \/ phase[l].at = "PeerTerminated"
    BY <1>2, <2>1, <2>2, <2>3 DEF DrainDoes, Elects, Sets, Phases
  <2>. QED BY <1>2, <2>3, <1>b DEF DrainDoes, Signals, IsCancelled, Elects, Sets
<1>3. ASSUME NEW l \in Streams, DeliveredOpeningDoes(l) PROVE Signals'
  <2>1. phase[l].at = "Pending" => phase[l].n = 1
    BY <1>3, <1>e, OnlyOpener, FS_Singleton DEF DeliveredOpeningDoes, Counted, CountedAt, InSender
  <2>2. phase[l] \in Phases /\ phase[l].at \in {"OpeningDelivery", "Pending", "PeerTerminated"}
        /\ job[l].on = l /\ l \in Actors /\ pc[l] = "delivered"
    BY <1>3, <1>e, ShapeIs DEF DeliveredOpeningDoes, Stages, InSender, Aimed, Actors
  <2>3. ASSUME phase'[l].at = "PeerTerminated"
        PROVE  IsCancelled(l) \/ phase[l].at = "PeerTerminated" \/ ~job[l].sent
    BY <1>3, <2>1, <2>2, <2>3 DEF DeliveredOpeningDoes, Elects, Sets, Phases
  <2>4. ~job[l].sent => Blamed(l)
    BY <2>2 DEF Leaves
  <2>. QED BY <1>3, <2>3, <2>4, <1>b DEF DeliveredOpeningDoes, Signals, IsCancelled, Elects, Sets
<1>4. ASSUME NEW p \in Publishers, DeliveredEventDoes(p) PROVE Signals'
  <2>1. /\ pc[p] = "delivered" /\ job[p].on \in Streams /\ p \in Actors
        /\ p \in InCallback(job[p].on)
    BY <1>4 DEF DeliveredEventDoes, InCallback, Actors
  <2>2. phase[job[p].on].at = "Pending" => phase[job[p].on].n # 0
    BY <1>e, <2>1, CallbackCounts DEF Counted, CountedAt
  <2>3. ~job[p].sent => Blamed(job[p].on)
    BY <2>1 DEF Leaves
  <2>. QED BY <1>4, <2>1, <2>2, <2>3, <1>b DEF DeliveredEventDoes, Signals, IsCancelled, Elects, Cancels, CancelledWord, Sets
<1>5. ASSUME NEW l \in Streams, WriterPopDoes(l) PROVE Signals'
  <2>1. ASSUME IsResponse(NextFrame(l)) PROVE Blamed(l)
    BY <1>5, <2>1, <1>e, PoppedResponse DEF WriterPopDoes, Broken
  <2>. QED BY <1>5, <2>1, <1>b, <1>f DEF WriterPopDoes, Signals, IsCancelled, Cancels, CancelledWord, Sets
<1>. USE <1>e, <1>b, <1>f, ShapeIs, ActorAssumption DEF Signals, IsCancelled, Sets
<1>6. ASSUME NEW l \in Streams, ReserveDoes(l) PROVE Signals'
  BY <1>6 DEF ReserveDoes, Elects
<1>7. ASSUME NEW l \in Streams, AcknowledgeDoes(l) PROVE Signals'
  BY <1>7 DEF AcknowledgeDoes, CancelledWord, Sends, Drops, Panics, Refuses, Cancels,
     Finalizes, Blames, Plain
<1>8. ASSUME NEW l \in Streams, RetractElectionDoes(l) PROVE Signals'
  BY <1>8 DEF RetractElectionDoes, Cancels, CancelledWord, Elects, AtPhase, Leaves, Leaving
<1>9. ASSUME NEW l \in Streams, DeliverOpeningDoes(l) \/ AbandonDoes(l)
                                \/ DropElectionDoes(l)
      PROVE  Signals'
  BY <1>9 DEF DeliverOpeningDoes, CancelledWord, Sends, Drops, Panics, Refuses, Cancels,
     Finalizes, Blames, AbandonDoes, Leaves, Leaving, DropElectionDoes, Elects, AtPhase,
     Open4
<1>10. ASSUME NEW l \in Streams, RespondStdioDoes(l) \/ RespondHttpDoes(l)
                                 \/ CommitResponseDoes(l)
      PROVE  Signals'
  BY <1>10 DEF RespondStdioDoes, Finalizes, CancelledWord, Blames, RespondHttpDoes,
     CommitResponseDoes, Cancels
<1>11. ASSUME NEW a \in Actors, SendControlDoes(a) \/ DecideDoes(a) \/ UnelectDoes(a)
                                \/ WakeDoes(a)
      PROVE  Signals'
  BY <1>11 DEF SendControlDoes, CancelledWord, Sends, Drops, Panics, Refuses, Cancels,
     Finalizes, Blames, Plain, DecideDoes, Leaves, Leaving, UnelectDoes, Elects, WakeDoes,
     Blamed
<1>12. ASSUME NEW p \in Publishers, NEW l \in Streams, QueueDoes(p, l) \/ OfferDoes(p, l)
      PROVE  Signals'
  BY <1>12 DEF QueueDoes, Cancels, CancelledWord, Elects, Blames, AtPhase, OfferDoes
<1>13. ASSUME NEW p \in Publishers, DeliverEventDoes(p) PROVE Signals'
  BY <1>13 DEF DeliverEventDoes, CancelledWord, Sends, Drops, Panics, Refuses, Cancels,
     Finalizes, Blames
<1>14. ASSUME NEW l \in Streams, TerminateEntryDoes(l) PROVE Signals'
  BY <1>14 DEF TerminateEntryDoes, Elects, AtPhase, Open4
<1>15. ASSUME NEW l \in Streams, WriterTrailerDoes(l) PROVE Signals'
  BY <1>15 DEF WriterTrailerDoes, Cancels, CancelledWord, Broken, Dismissed
<1>16. ASSUME NEW l \in Streams, CancelModernHttpOwnerDoes(l) PROVE Signals'
  BY <1>16 DEF CancelModernHttpOwnerDoes, Cancels, CancelledWord, Elects, AtPhase, Open4,
     Broken, Dismissed
<1>17. ASSUME NEW l \in Streams, WriterAbortsDoes(l) \/ PeerCancelsDoes(l)
                                 \/ ContextDiesDoes(l)
      PROVE  Signals'
  BY <1>17 DEF WriterAbortsDoes, Cancels, CancelledWord, Dies, Broken, Dismissed,
     PeerCancelsDoes, Blames, ContextDiesDoes
<1>. HIDE DEF Signals
<1>. QED BY <1>1, <1>2, <1>3, <1>4, <1>5, <1>6, <1>7, <1>8, <1>9, <1>10, <1>11, <1>12,
         <1>13, <1>14, <1>15, <1>16, <1>17, <1>e, Writers

LEMMA ReturnedStays ==
  ASSUME EInv, Returned, Signals, Leaves, Broken, [Next]_vars
  PROVE  Returned'
<1>e. Shape /\ Stages /\ Counted /\ Callbacks /\ Completion /\ Fresh
  BY DEF EInv
<1>b. \A m \in Streams : Blamed(m) => Blamed(m)'
  BY <1>e, BlameLasts
<1>f. \A m \in Streams : m \in faulted' => Blamed(m)'
  BY DEF Blamed
<1>1. ASSUME UNCHANGED <<scenario, pc, outcome, graceful, phase, writer, entries, todo, faulted, word>> PROVE Returned'
  BY <1>1 DEF Returned, Ending, Owners, Actors, Kind
<1>2. ASSUME NEW l \in Streams, AcknowledgeDoes(l) PROVE Returned'
  <2>1. /\ \A m \in Streams : word'[m] = word[m] \/ word'[m] = "cancelled"
        /\ faulted \subseteq faulted'
        /\ \A b \in Actors : pc'[b] = pc[b] \/ (b = l /\ pc'[b] \in {"drain", "admit", "retract"})
        /\ scenario' = scenario /\ outcome' = outcome /\ graceful' = graceful /\ phase' = phase /\ writer' = writer /\ entries' = entries /\ todo' = todo
        /\ pc[l] = "ack"
    BY <1>2, <1>e, ShapeIs, MoreShape, ActorAssumption DEF AcknowledgeDoes, Moves, Sends,
       Drops, Panics, Refuses, Blames, CancelledWord, Cancels, Finalizes, Sets, Plain
  <2>. QED BY <2>1, <1>e, ShapeIs, MoreShape, ActorAssumption DEF Returned, Ending, Owners,
           Actors, Kind
<1>3. ASSUME NEW l \in Streams, RetractElectionDoes(l) PROVE Returned'
  <2>1. l \in faulted
    BY <1>3, <1>e DEF RetractElectionDoes, Leaves, Blamed, Returned, Completion, Stages, Placing, Ending
  <2>. QED BY <1>3, <2>1, <1>e, ShapeIs, MoreShape, ActorAssumption DEF RetractElectionDoes, Returned, Ending, Owners, Actors, Kind, Moves, Elects, Answers, Cancels, CancelledWord, Sets
<1>4. ASSUME NEW l \in Streams, DeliverOpeningDoes(l) PROVE Returned'
  <2>1. /\ \A m \in Streams : word'[m] = word[m] \/ word'[m] = "cancelled"
        /\ faulted \subseteq faulted'
        /\ \A b \in Actors : pc'[b] = pc[b] \/ (b = l /\ pc'[b] = "delivered")
        /\ scenario' = scenario /\ outcome' = outcome /\ graceful' = graceful /\ phase' = phase /\ writer' = writer /\ entries' = entries /\ todo' = todo
        /\ pc[l] = "deliver"
    BY <1>4, <1>e, ShapeIs, MoreShape, ActorAssumption DEF DeliverOpeningDoes, Moves, Sends,
       Drops, Panics, Refuses, Blames, CancelledWord, Cancels, Finalizes, Sets
  <2>. QED BY <2>1, <1>e, ShapeIs, MoreShape, ActorAssumption DEF Returned, Ending, Owners,
           Actors, Kind
<1>5. ASSUME NEW l \in Streams, AbandonDoes(l) PROVE Returned'
  <2>1. l \in faulted
    BY <1>5, <1>e DEF AbandonDoes, Leaves, Blamed, Returned, Completion, Stages, Placing, Ending
  <2>. QED BY <1>5, <2>1, <1>e, ShapeIs, MoreShape, ActorAssumption DEF AbandonDoes, Returned, Ending, Owners, Actors, Kind, Moves, Elects, Answers, Cancels, CancelledWord, Sets
<1>6. ASSUME NEW l \in Streams, RespondHttpDoes(l) PROVE Returned'
  <2>1. /\ \A a \in Actors : a # l => pc'[a] = pc[a]
        /\ \A m \in Streams : m # l => word'[m] = word[m]
        /\ pc[l] = "respond" /\ pc'[l] \in {"commit", "elect", "done"} /\ Kind[l] = "http"
        /\ UNCHANGED <<scenario, phase, graceful, writer, entries, todo, outcome, faulted>>
    BY <1>6, ActorAssumption DEF RespondHttpDoes, Finalizes, CancelledWord, Moves, Sets, Actors
  <2>2. word'[l] = "finalizing" => pc'[l] = "commit" \/ word[l] = "finalizing"
    BY <1>6 DEF RespondHttpDoes, Finalizes, CancelledWord, Moves, Sets
  <2>. QED BY <2>1, <2>2, ActorAssumption DEF Returned, Ending, Owners, Actors, Kind
<1>7. ASSUME NEW l \in Streams, CommitResponseDoes(l) PROVE Returned'
  <2>1. /\ \A a \in Actors : a # l => pc'[a] = pc[a]
        /\ \A m \in Streams : word'[m] = word[m] \/ word'[m] = "cancelled"
        /\ pc[l] = "commit" /\ pc'[l] = "elect" /\ faulted \subseteq faulted'
        /\ UNCHANGED <<scenario, phase, graceful, writer, entries, todo, outcome>>
    BY <1>7, ActorAssumption DEF CommitResponseDoes, Cancels, CancelledWord, Blames, Moves, Sets, Actors
  <2>. QED BY <2>1, ActorAssumption DEF Returned, Ending, Owners, Actors, Kind
<1>8. ASSUME NEW a \in Actors, SendControlDoes(a) PROVE Returned'
  <2>1. /\ \A m \in Streams : word'[m] = word[m] \/ word'[m] = "cancelled"
        /\ faulted \subseteq faulted'
        /\ \A b \in Actors : pc'[b] = pc[b] \/ (b = a /\ pc'[b] = "decide")
        /\ scenario' = scenario /\ outcome' = outcome /\ graceful' = graceful /\ phase' = phase /\ writer' = writer /\ entries' = entries /\ todo' = todo
        /\ pc[a] = "control"
    BY <1>8, <1>e, ShapeIs, MoreShape, ActorAssumption DEF SendControlDoes, Moves, Sends,
       Drops, Panics, Refuses, Blames, CancelledWord, Cancels, Finalizes, Sets, Plain
  <2>. QED BY <2>1, <1>e, ShapeIs, MoreShape, ActorAssumption DEF Returned, Ending, Owners,
           Actors, Kind
<1>9. ASSUME NEW a \in Actors, UnelectDoes(a) PROVE Returned'
  <2>1. /\ a \in Streams => a \in faulted
        /\ pc[a] = "unelect" /\ phase[job[a].on].at = "ServerTerminated" /\ job[a].on \in Streams
    BY <1>9, <1>e, ShapeIs DEF UnelectDoes, Leaves, Blamed, Returned, Completion, Completing, Ending, Aimed
  <2>. QED BY <1>9, <2>1, <1>e, ShapeIs, MoreShape, ActorAssumption DEF UnelectDoes, Returned, Ending, Owners, Actors, Kind, Moves, Elects, Answers, Sets
<1>10. ASSUME NEW p \in Publishers, DeliverEventDoes(p) PROVE Returned'
  <2>1. /\ \A m \in Streams : word'[m] = word[m] \/ word'[m] = "cancelled"
        /\ faulted \subseteq faulted'
        /\ \A b \in Actors : pc'[b] = pc[b] \/ (b = p /\ pc'[b] = "delivered")
        /\ scenario' = scenario /\ outcome' = outcome /\ graceful' = graceful /\ phase' = phase /\ writer' = writer /\ entries' = entries /\ todo' = todo
        /\ pc[p] = "deliver"
    BY <1>10, <1>e, ShapeIs, MoreShape, ActorAssumption DEF DeliverEventDoes, Moves, Sends,
       Drops, Panics, Refuses, Blames, CancelledWord, Cancels, Finalizes, Sets
  <2>. QED BY <2>1, <1>e, ShapeIs, MoreShape, ActorAssumption DEF Returned, Ending, Owners,
           Actors, Kind
<1>11. ASSUME NEW l \in Streams, WriterPopDoes(l) PROVE Returned'
  <2>1. /\ \A m \in Streams : word'[m] = word[m] \/ word'[m] = "cancelled"
        /\ \A m \in Streams : writer'[m] = writer[m] \/ (m = l /\ writer'[m] = "write" /\ writer[m] = "stream")
        /\ UNCHANGED <<scenario, outcome, graceful, phase, pc, entries, todo, faulted>>
    BY <1>11, <1>e, ShapeIs, MoreShape, ActorAssumption DEF WriterPopDoes, Writes, Cancels,
       CancelledWord, Sets
  <2>. QED BY <2>1, <1>e, ShapeIs, MoreShape, ActorAssumption DEF Returned, Ending, Owners,
           Actors, Kind
<1>. USE <1>e, ShapeIs, MoreShape, ActorAssumption DEF Returned, Ending, Owners, Actors,
       Kind, Moves, Sets
<1>12. ASSUME NEW l \in Streams, ListenDoes(l) \/ CheckOpenDoes(l) \/ ReserveDoes(l)
      PROVE  Returned'
  BY <1>12 DEF ListenDoes, CheckOpenDoes, Answers, IsCancelled, Signals, Blamed, Completion,
     Fresh, Early, ReserveDoes, Elects
<1>13. ASSUME NEW l \in Streams, AdmitStreamDoes(l) \/ RetractEntryDoes(l) \/ DrainDoes(l)
      PROVE  Returned'
  BY <1>13 DEF AdmitStreamDoes, RetractEntryDoes, DrainDoes, Elects, IsCancelled
<1>14. ASSUME NEW l \in Streams, DeliveredOpeningDoes(l) \/ DropHandleDoes(l)
                                 \/ ListenStartDoes(l) \/ ListenPollDoes(l)
                                 \/ ListenParkedDoes(l) \/ ListenHoldDoes(l)
      PROVE  Returned'
  BY <1>14 DEF DeliveredOpeningDoes, Elects, IsCancelled, DropHandleDoes, Blames,
     ListenStartDoes, ListenPollDoes, ListenParkedDoes, ListenHoldDoes, Answers, Signals,
     Blamed
<1>15. ASSUME NEW l \in Streams, ListenSettleDoes(l) PROVE Returned'
  BY <1>15 DEF ListenSettleDoes, IsCancelled
<1>16. ASSUME NEW l \in Streams, ListenReturnDoes(l) PROVE Returned'
  BY <1>16 DEF ListenReturnDoes, Answers, Leaves, Blamed, Leaving
<1>17. ASSUME NEW l \in Streams, DropLeaseDoes(l) PROVE Returned'
  BY <1>17 DEF DropLeaseDoes
<1>18. ASSUME NEW l \in Streams, DropElectionDoes(l) \/ RespondStdioDoes(l)
                                 \/ ReturnLocalDoes(l)
      PROVE  Returned'
  BY <1>18 DEF DropElectionDoes, Elects, AtPhase, Open4, RespondStdioDoes, Blames,
     Finalizes, CancelledWord, ReturnLocalDoes
<1>19. ASSUME NEW l \in Streams, ElectOutcomeDoes(l) PROVE Returned'
  BY <1>19 DEF ElectOutcomeDoes
<1>20. ASSUME NEW a \in Actors, DecideDoes(a) \/ MarkGracefulDoes(a) \/ WakeDoes(a)
      PROVE  Returned'
  BY <1>20 DEF DecideDoes, Cancels, CancelledWord, IsCancelled, MarkGracefulDoes, Graces,
     WakeDoes
<1>21. ASSUME NEW p \in Publishers, PublishDoes(p) \/ DeliveredEventDoes(p)
      PROVE  Returned'
  BY <1>21 DEF PublishDoes, Plans, Frame, DeliveredEventDoes, Elects, Cancels,
     CancelledWord, AtPhase, IsCancelled
<1>22. ASSUME NEW p \in Publishers, NEW l \in Streams, QueueDoes(p, l) \/ OfferDoes(p, l)
                                                       \/ SkipDoes(p, l)
      PROVE  Returned'
  BY <1>22 DEF QueueDoes, Elects, Plans, Blames, Cancels, CancelledWord, AtPhase,
     IsCancelled, OfferDoes, SkipDoes
<1>23. ASSUME TerminateDoes \/ TakeEntriesDoes \/ DrainReceiptsDoes
      PROVE  Returned'
  BY <1>23 DEF TerminateDoes, TakeEntriesDoes, Plans, DrainReceiptsDoes
<1>24. ASSUME NEW l \in Streams, TerminateEntryDoes(l) \/ WriterAwaitDoes(l)
                                 \/ WriterHeadDoes(l)
      PROVE  Returned'
  BY <1>24 DEF TerminateEntryDoes, Elects, Plans, AtPhase, Open4, IsCancelled,
     WriterAwaitDoes, Writes, WriterHeadDoes
<1>25. ASSUME NEW l \in Streams, WriterIdleDoes(l) \/ WriterFlushDoes(l)
                                 \/ WriterBreaksDoes(l)
      PROVE  Returned'
  BY <1>25 DEF WriterIdleDoes, Writes, IsCancelled, WriterFlushDoes, WriterBreaksDoes,
     Blames
<1>26. ASSUME NEW l \in Streams, WriterTrailerDoes(l) PROVE Returned'
  BY <1>26 DEF WriterTrailerDoes, Writes, Cancels, CancelledWord
<1>27. ASSUME NEW l \in Streams, WriterFailsDoes(l) PROVE Returned'
  BY <1>27 DEF WriterFailsDoes, Writes
<1>28. ASSUME NEW l \in Streams, CancelModernHttpOwnerDoes(l) PROVE Returned'
  BY <1>28 DEF CancelModernHttpOwnerDoes, Elects, Writes, Cancels, CancelledWord, AtPhase,
     Open4
<1>29. ASSUME NEW l \in Streams, WriterAbortsDoes(l) PROVE Returned'
  BY <1>29 DEF WriterAbortsDoes, Writes, Cancels, CancelledWord
<1>30. ASSUME NEW l \in Streams, PeerCancelsDoes(l) PROVE Returned'
  BY <1>30 DEF PeerCancelsDoes, Blames, Cancels, CancelledWord
<1>31. ASSUME NEW l \in Streams, ContextDiesDoes(l) PROVE Returned'
  BY <1>31 DEF ContextDiesDoes, Blames
<1>. HIDE DEF Returned
<1>. QED BY <1>1, <1>2, <1>3, <1>4, <1>5, <1>6, <1>7, <1>8, <1>9, <1>10, <1>11, <1>12,
         <1>13, <1>14, <1>15, <1>16, <1>17, <1>18, <1>19, <1>20, <1>21, <1>22, <1>23, <1>24,
         <1>25, <1>26, <1>27, <1>28, <1>29, <1>30, <1>31, <1>e, Writers

\* What the receipt's operations do to its two marks.
LEMMA Receipting ==
  ASSUME NEW d \in Receipts
  PROVE  /\ Failed(d).control = "failed" => d.control \in {"open", "enqueued", "failed"}
         /\ Failed(d).completion \in {"enqueued", "drained"} => d.completion = "drained"
         /\ Failed(d).control # "failed" => d.control = "drained"
         /\ ControlNotRequired(d).completion = d.completion
         /\ ControlNotRequired(d).control = "failed" <=> d.control = "failed"
         /\ CompletionEnqueued(d).control = d.control
         /\ CompletionEnqueued(d).completion = "failed" <=> d.completion = "failed"
         /\ CompletionDrained(d).control = d.control
         /\ CompletionDrained(d).completion = "failed" <=> d.completion = "failed"
         /\ CompletionDrained(d).completion \in {"enqueued", "drained"} =>
              d.completion \in {"enqueued", "drained"}
         /\ CompletionDrained(d).completion = "drained" =>
              d.completion \in {"enqueued", "drained"}
         /\ Settled(d) => \/ d.control = "failed" \/ d.completion = "failed"
                          \/ d.completion = "drained"
BY DEF Receipts, Marks, Failed, FailMark, ControlNotRequired, CompletionEnqueued,
   CompletionDrained, Settled

\* Appending a frame adds its kind and no other.
LEMMA ShowsMore ==
  ASSUME NEW s \in Seq(Frames), NEW f \in Frames, NEW K
  PROVE  Shows(Append(s, f), K) <=> Shows(s, K) \/ f.kind \in K
<1>1. /\ DOMAIN s = 1..Len(s) /\ Len(s) \in Nat
      /\ DOMAIN Append(s, f) = 1..(Len(s) + 1)
      /\ \A i \in 1..Len(s) : Append(s, f)[i] = s[i]
      /\ Append(s, f)[Len(s) + 1] = f
  OBVIOUS
<1>2. \A i \in 1..(Len(s) + 1) : i \in 1..Len(s) \/ i = Len(s) + 1
  BY <1>1
<1>3. Len(s) + 1 \in 1..(Len(s) + 1) /\ 1..Len(s) \subseteq 1..(Len(s) + 1)
  BY <1>1
<1>. QED BY <1>1, <1>2, <1>3 DEF Shows

\* Failing a receipt settles no completion as enqueued or drained.
LEMMA FailsReceiptKeeps ==
  ASSUME Shape, NEW l \in Streams, FailsReceipt(l)
  PROVE  \A m \in Streams :
           /\ m # l => receipt'[m] = receipt[m]
           /\ receipt'[m].completion \in {"enqueued", "drained"} => receipt[m].completion = "drained" \/ receipt'[m] = receipt[m]
<1>1. receipt[l] \in Receipts
  BY MoreShape
<1>. QED BY <1>1, Receipting DEF FailsReceipt, Marked, Sets

\* What the writer, the transport and the receipts do is kept too.
LEMMA ReceiptedStays ==
  ASSUME EInv, Returned, Signals, Leaves, Broken, [Next]_vars
  PROVE  Receipted'
<1>e. Shape /\ Stages /\ Counted /\ Callbacks /\ Completion /\ Fresh
  BY DEF EInv
<1>b. \A m \in Streams : Blamed(m) => Blamed(m)'
  BY <1>e, BlameLasts
<1>f. \A m \in Streams : m \in faulted' => Blamed(m)'
  BY DEF Blamed
<1>r. Receipted /\ Signals /\ Torn /\ Dismissed
  BY DEF Broken
<1>1. ASSUME UNCHANGED <<scenario, receipt, outcome>> PROVE Receipted'
  BY <1>1, <1>b, <1>r DEF Receipted, Kind
<1>2. ASSUME NEW l \in Streams, AcknowledgeDoes(l) PROVE Receipted'
  <2>1. /\ outcome' = outcome
        /\ \/ receipt' = receipt
           \/ FailsReceipt(l) /\ Blamed(l)'
        /\ l \in Streams
    BY <1>2, <1>e, <1>b, <1>f, <1>r, ShapeIs, MoreShape DEF AcknowledgeDoes, Sends, Drops, Panics, Refuses, Blames
  <2>. QED BY <1>2, <2>1, <1>e, <1>b, <1>r, MoreShape, Receipting, FailsReceiptKeeps DEF Receipted, Answers, Sets, Marked
<1>3. ASSUME NEW l \in Streams, AdmitStreamDoes(l) PROVE Receipted'
  <2>1. outcome' = outcome /\ Marked(l, ControlNotRequired(receipt[l]))
    BY <1>3 DEF AdmitStreamDoes
  <2>2. /\ receipt'[l].completion = receipt[l].completion
        /\ receipt'[l].control = "failed" => receipt[l].control = "failed"
        /\ \A m \in Streams : m # l => receipt'[m] = receipt[m]
    BY <2>1, <1>e, MoreShape, Receipting DEF Marked, Sets
  <2>. QED BY <2>1, <2>2, <1>b, <1>r DEF Receipted
<1>4. ASSUME NEW l \in Streams, RetractElectionDoes(l) PROVE Receipted'
  <2>1. /\ Answers(l, "error") /\ outcome[l] = "none"
        /\ \/ receipt' = receipt
           \/ FailsReceipt(l) /\ Blamed(l)'
        /\ l \in Streams
    BY <1>4, <1>e, <1>b, <1>f, <1>r, ShapeIs, MoreShape DEF RetractElectionDoes, Sends, Drops, Panics, Refuses, Blames, Leaves, Returned, Ending
  <2>. QED BY <1>4, <2>1, <1>e, <1>b, <1>r, MoreShape, Receipting, FailsReceiptKeeps DEF Receipted, Answers, Sets, Marked
<1>5. ASSUME NEW l \in Streams, DeliverOpeningDoes(l) PROVE Receipted'
  <2>1. /\ outcome' = outcome
        /\ \/ receipt' = receipt
           \/ FailsReceipt(l) /\ Blamed(l)'
        /\ l \in Streams
    BY <1>5, <1>e, <1>b, <1>f, <1>r, ShapeIs, MoreShape DEF DeliverOpeningDoes, Sends, Drops, Panics, Refuses, Blames
  <2>. QED BY <1>5, <2>1, <1>e, <1>b, <1>r, MoreShape, Receipting, FailsReceiptKeeps DEF Receipted, Answers, Sets, Marked
<1>6. ASSUME NEW l \in Streams, AbandonDoes(l) PROVE Receipted'
  <2>1. /\ Answers(l, "error") /\ outcome[l] = "none"
        /\ \/ receipt' = receipt
           \/ FailsReceipt(l) /\ Blamed(l)'
        /\ l \in Streams
    BY <1>6, <1>e, <1>b, <1>f, <1>r, ShapeIs, MoreShape DEF AbandonDoes, Sends, Drops, Panics, Refuses, Blames, Leaves, Returned, Ending
  <2>. QED BY <1>6, <2>1, <1>e, <1>b, <1>r, MoreShape, Receipting, FailsReceiptKeeps DEF Receipted, Answers, Sets, Marked
<1>7. ASSUME NEW l \in Streams, RespondHttpDoes(l) PROVE Receipted'
  <2>1. /\ outcome' = outcome
        /\ \/ receipt' = receipt
           \/ FailsReceipt(l) /\ Blamed(l)'
           \/ Marked(l, CompletionEnqueued(receipt[l])) /\ outcome[l] = "complete"
        /\ l \in Streams
    BY <1>7, <1>e, <1>b, <1>f, <1>r, ShapeIs, MoreShape DEF RespondHttpDoes, Sends, Drops, Panics, Refuses, Blames, Torn, Signals
  <2>2. CASE Marked(l, CompletionEnqueued(receipt[l])) /\ outcome[l] = "complete"
    <3>1. /\ receipt'[l].control = receipt[l].control
          /\ receipt'[l].completion = "failed" => receipt[l].completion = "failed"
          /\ \A m \in Streams : m # l => receipt'[m] = receipt[m]
      BY <2>2, <1>e, MoreShape, Receipting DEF Marked, Sets
    <3>. QED BY <2>1, <2>2, <3>1, <1>b, <1>r DEF Receipted
  <2>3. CASE receipt' = receipt
    BY <2>1, <2>3, <1>b, <1>r DEF Receipted
  <2>4. CASE FailsReceipt(l) /\ Blamed(l)'
    BY <2>1, <2>4, <1>e, <1>b, <1>r, FailsReceiptKeeps DEF Receipted
  <2>. QED BY <2>1, <2>2, <2>3, <2>4
<1>8. ASSUME NEW l \in Streams, CommitResponseDoes(l) PROVE Receipted'
  <2>1. /\ outcome' = outcome
        /\ \/ receipt' = receipt
           \/ FailsReceipt(l) /\ Blamed(l)'
        /\ l \in Streams
    BY <1>8, <1>e, <1>b, <1>f, <1>r, ShapeIs, MoreShape DEF CommitResponseDoes, Sends, Drops, Panics, Refuses, Blames
  <2>. QED BY <1>8, <2>1, <1>e, <1>b, <1>r, MoreShape, Receipting, FailsReceiptKeeps DEF Receipted, Answers, Sets, Marked
<1>9. ASSUME NEW a \in Actors, SendControlDoes(a) PROVE Receipted'
  <2>0. PICK x \in Streams : x = job[a].on
    BY <1>9 DEF SendControlDoes
  <2>1. /\ outcome' = outcome
        /\ \/ receipt' = receipt
           \/ FailsReceipt(x) /\ Blamed(x)'
           \/ Marked(x, ControlNotRequired(receipt[x]))
        /\ x \in Streams
    BY <1>9, <1>e, <1>b, <1>f, <1>r, ShapeIs, MoreShape, <2>0 DEF SendControlDoes, Sends, Drops, Panics, Refuses, Blames
  <2>. QED BY <1>9, <2>1, <1>e, <1>b, <1>r, MoreShape, Receipting, FailsReceiptKeeps DEF Receipted, Answers, Sets, Marked
<1>10. ASSUME NEW p \in Publishers, DeliverEventDoes(p) PROVE Receipted'
  <2>0. PICK x \in Streams : x = job[p].on
    BY <1>10 DEF DeliverEventDoes
  <2>1. /\ outcome' = outcome
        /\ \/ receipt' = receipt
           \/ FailsReceipt(x) /\ Blamed(x)'
        /\ x \in Streams
    BY <1>10, <1>e, <1>b, <1>f, <1>r, ShapeIs, MoreShape, <2>0 DEF DeliverEventDoes, Sends, Drops, Panics, Refuses, Blames
  <2>. QED BY <1>10, <2>1, <1>e, <1>b, <1>r, MoreShape, Receipting, FailsReceiptKeeps DEF Receipted, Answers, Sets, Marked
<1>11. ASSUME NEW p \in Publishers, DeliveredEventDoes(p) PROVE Receipted'
  <2>1. /\ pc[p] = "delivered" /\ job[p].on \in Streams /\ p \in Actors
        /\ p \in InCallback(job[p].on)
    BY <1>11 DEF DeliveredEventDoes, InCallback, Actors
  <2>2. phase[job[p].on].at = "Pending" => phase[job[p].on].n # 0
    BY <1>e, <2>1, CallbackCounts DEF Counted, CountedAt
  <2>3. ~job[p].sent => Blamed(job[p].on)
    BY <2>1 DEF Leaves
  <2>4. PICK x \in Streams : x = job[p].on
    BY <2>1
  <2>5. /\ outcome' = outcome
        /\ receipt' = receipt \/ (FailsReceipt(x) /\ Blamed(x)')
    BY <1>11, <1>b, <2>1, <2>2, <2>3, <2>4 DEF DeliveredEventDoes, Signals
  <2>. QED BY <2>5, <1>e, <1>b, <1>r, FailsReceiptKeeps DEF Receipted
<1>12. ASSUME NEW l \in Streams, WriterFlushDoes(l) PROVE Receipted'
  <2>1. outcome' = outcome /\ (Marked(l, receipt[l]) \/ Marked(l, CompletionDrained(receipt[l])))
    BY <1>12 DEF WriterFlushDoes
  <2>2. /\ receipt'[l].control = receipt[l].control
        /\ receipt'[l].completion = "failed" => receipt[l].completion = "failed"
        /\ receipt'[l].completion \in {"enqueued", "drained"} =>
             receipt[l].completion \in {"enqueued", "drained"}
        /\ \A m \in Streams : m # l => receipt'[m] = receipt[m]
    BY <2>1, <1>e, MoreShape, Receipting DEF Marked, Sets
  <2>. QED BY <2>1, <2>2, <1>b, <1>r DEF Receipted
<1>13. ASSUME NEW l \in Streams, WriterTrailerDoes(l) PROVE Receipted'
  <2>1. /\ outcome' = outcome
        /\ \/ receipt' = receipt
           \/ FailsReceipt(l) /\ Blamed(l)'
        /\ l \in Streams
    BY <1>13, <1>e, <1>b, <1>f, <1>r, ShapeIs, MoreShape DEF WriterTrailerDoes, Sends, Drops, Panics, Refuses, Blames, Dismissed
  <2>. QED BY <1>13, <2>1, <1>e, <1>b, <1>r, MoreShape, Receipting, FailsReceiptKeeps DEF Receipted, Answers, Sets, Marked
<1>14. ASSUME NEW l \in Streams, WriterFailsDoes(l) PROVE Receipted'
  <2>1. /\ outcome' = outcome
        /\ \/ receipt' = receipt
           \/ FailsReceipt(l) /\ Blamed(l)'
        /\ l \in Streams
    BY <1>14, <1>e, <1>b, <1>f, <1>r, ShapeIs, MoreShape DEF WriterFailsDoes, Sends, Drops, Panics, Refuses, Blames, Dismissed
  <2>. QED BY <1>14, <2>1, <1>e, <1>b, <1>r, MoreShape, Receipting, FailsReceiptKeeps DEF Receipted, Answers, Sets, Marked
<1>. USE <1>e, <1>b, <1>f, ShapeIs, MoreShape, ActorAssumption, Receipting, <1>r DEF
       Receipted, Kind, Sets
<1>15. ASSUME NEW l \in Streams, CheckOpenDoes(l) \/ ReserveDoes(l) \/ ListenHoldDoes(l)
                                 \/ ListenReturnDoes(l) \/ TerminateEntryDoes(l)
                                 \/ WriterIdleDoes(l)
      PROVE  Receipted'
  BY <1>15 DEF CheckOpenDoes, Answers, IsCancelled, Returned, Ending, ReserveDoes,
     ListenHoldDoes, ListenReturnDoes, FailsReceipt, Marked, Leaves, Leaving,
     TerminateEntryDoes, AtPhase, Open4, Signals, WriterIdleDoes
<1>16. ASSUME NEW a \in Actors, DecideDoes(a) PROVE Receipted'
  BY <1>16 DEF DecideDoes, FailsReceipt, Marked, IsCancelled, Leaves, Signals
<1>17. ASSUME NEW a \in Actors, UnelectDoes(a) PROVE Receipted'
  BY <1>17, SMTT(40) DEF UnelectDoes, Answers, Returned, Ending, Completion, Aimed
<1>18. ASSUME NEW p \in Publishers, NEW l \in Streams, QueueDoes(p, l) PROVE Receipted'
  BY <1>18 DEF QueueDoes, FailsReceipt, Marked, Blames, AtPhase, IsCancelled, Signals
<1>19. ASSUME DrainReceiptsDoes PROVE Receipted'
  BY <1>19 DEF DrainReceiptsDoes
<1>. HIDE DEF Receipted
<1>. QED BY <1>1, <1>2, <1>3, <1>4, <1>5, <1>6, <1>7, <1>8, <1>9, <1>10, <1>11, <1>12,
         <1>13, <1>14, <1>15, <1>16, <1>17, <1>18, <1>19, <1>e, Writers

LEMMA TornStays ==
  ASSUME EInv, Returned, Signals, Leaves, Broken, [Next]_vars
  PROVE  Torn'
<1>e. Shape /\ Stages /\ Counted /\ Callbacks /\ Completion /\ Fresh
  BY DEF EInv
<1>b. \A m \in Streams : Blamed(m) => Blamed(m)'
  BY <1>e, BlameLasts
<1>f. \A m \in Streams : m \in faulted' => Blamed(m)'
  BY DEF Blamed
<1>r. Torn /\ Signals /\ Dismissed /\ Responded
  BY DEF Broken
<1>1. ASSUME UNCHANGED <<scenario, gate, body>> PROVE Torn'
  BY <1>1, <1>b, <1>r DEF Torn, Kind
<1>2. ASSUME NEW l \in Streams, WriterPopDoes(l) PROVE Torn'
  <2>1. IsResponse(NextFrame(l)) => Blamed(l)
    BY <1>2, <1>e, <1>r, PoppedResponse DEF WriterPopDoes
  <2>. QED BY <1>2, <2>1, <1>b, <1>r DEF WriterPopDoes, Torn, Holds
<1>. USE <1>e, <1>b, <1>f, ShapeIs, MoreShape, ActorAssumption, <1>r DEF Torn, Kind, Sets
<1>3. ASSUME NEW l \in Streams, AcknowledgeDoes(l) \/ DeliverOpeningDoes(l)
                                \/ RespondStdioDoes(l) \/ RespondHttpDoes(l)
                                \/ CommitResponseDoes(l) \/ ElectOutcomeDoes(l)
      PROVE  Torn'
  BY <1>3 DEF AcknowledgeDoes, Gated, Sends, Drops, Panics, Refuses, Holds, Blames, Plain,
     Mute, Signals, IsCancelled, DeliverOpeningDoes, RespondStdioDoes, ResponseFrame,
     RespondHttpDoes, CommitResponseDoes, ElectOutcomeDoes, Leaves
<1>4. ASSUME NEW a \in Actors, SendControlDoes(a) PROVE Torn'
  BY <1>4 DEF SendControlDoes, Sends, Drops, Panics, Refuses, Holds, Blames, Plain
<1>5. ASSUME NEW p \in Publishers, DeliverEventDoes(p) PROVE Torn'
  BY <1>5 DEF DeliverEventDoes, Sends, Drops, Panics, Refuses, Holds, Blames
<1>6. ASSUME NEW l \in Streams, WriterFlushDoes(l) \/ WriterTrailerDoes(l)
                                \/ WriterAbortsDoes(l)
      PROVE  Torn'
  BY <1>6 DEF WriterFlushDoes, Holds, WriterTrailerDoes, Dismissed, WriterAbortsDoes
<1>. HIDE DEF Torn
<1>. QED BY <1>1, <1>2, <1>3, <1>4, <1>5, <1>6, <1>e, Writers

LEMMA DismissedStays ==
  ASSUME EInv, Returned, Signals, Leaves, Broken, [Next]_vars
  PROVE  Dismissed'
<1>e. Shape /\ Stages /\ Counted /\ Callbacks /\ Completion /\ Fresh
  BY DEF EInv
<1>b. \A m \in Streams : Blamed(m) => Blamed(m)'
  BY <1>e, BlameLasts
<1>f. \A m \in Streams : m \in faulted' => Blamed(m)'
  BY DEF Blamed
<1>r. Torn /\ Signals /\ Dismissed /\ Receipted
  BY DEF Broken
<1>1. ASSUME UNCHANGED <<scenario, writer>> PROVE Dismissed'
  BY <1>1, <1>b, <1>r DEF Dismissed
<1>2. ASSUME NEW l \in Streams, WriterFlushDoes(l) PROVE Dismissed'
  <2>1. Settled(receipt'[l]) => Blamed(l)
    BY <1>2, <1>e, <1>r, MoreShape, Receipting DEF WriterFlushDoes, Marked, Sets, Receipted, Returned, Blamed
  <2>. QED BY <1>2, <2>1, <1>b, <1>r DEF WriterFlushDoes, Dismissed, Writes, Sets
<1>. USE <1>e, <1>b, <1>f, ShapeIs, MoreShape, ActorAssumption, Receipting, <1>r DEF
       Dismissed, Sets
<1>3. ASSUME NEW l \in Streams, WriterAwaitDoes(l) \/ WriterHeadDoes(l) \/ WriterPopDoes(l)
      PROVE  Dismissed'
  BY <1>3 DEF WriterAwaitDoes, Writes, IsCancelled, Torn, Signals, WriterHeadDoes,
     WriterPopDoes
<1>4. ASSUME NEW l \in Streams, WriterIdleDoes(l) PROVE Dismissed'
  BY <1>4 DEF WriterIdleDoes, Writes, IsCancelled, Torn, Signals, Receipted, Returned,
     Blamed
<1>5. ASSUME NEW l \in Streams, WriterBreaksDoes(l) PROVE Dismissed'
  BY <1>5 DEF WriterBreaksDoes, Writes, Blames
<1>6. ASSUME NEW l \in Streams, WriterTrailerDoes(l) PROVE Dismissed'
  BY <1>6 DEF WriterTrailerDoes, Writes
<1>7. ASSUME NEW l \in Streams, WriterFailsDoes(l) \/ CancelModernHttpOwnerDoes(l)
                                \/ WriterAbortsDoes(l)
      PROVE  Dismissed'
  BY <1>7 DEF WriterFailsDoes, Writes, CancelModernHttpOwnerDoes, AtPhase, Open4,
     WriterAbortsDoes
<1>. HIDE DEF Dismissed
<1>. QED BY <1>1, <1>2, <1>3, <1>4, <1>5, <1>6, <1>7, <1>e, Writers

\* A sender appends the frame, or leaves the stream as it is.
LEMMA SentFrames ==
  ASSUME Shape
  PROVE  /\ \A k \in {"ack", "control", "complete", "error"} : Plain(k) \in Frames /\ Plain(k).kind = k
         /\ \A l \in Streams : /\ body[l].frames \in Seq(Frames)
                               /\ ResponseFrame(l) \in Frames /\ ResponseFrame(l).kind \in Responses
                               /\ ResponseFrame(l).kind = "error" <=> outcome[l] # "complete"
                               /\ pc[l] = "deliver" => job[l].event \in Frames /\ job[l].event.kind = "event"
         /\ \A p \in Publishers : pc[p] = "deliver" => job[p].event \in Frames /\ job[p].event.kind = "event"
<1>1. \A k \in {"ack", "control", "complete", "error"} : Plain(k) \in Frames /\ Plain(k).kind = k
  BY PlainIs DEF Kinds, Plain, Frame
<1>2. \A l \in Streams : body[l].frames \in Seq(Frames)
  BY MoreShape DEF Bodies
<1>3. \A l \in Streams : /\ ResponseFrame(l) \in Frames /\ ResponseFrame(l).kind \in Responses
                         /\ ResponseFrame(l).kind = "error" <=> outcome[l] # "complete"
  BY <1>1 DEF ResponseFrame, Responses
<1>4. \A e \in Queueable : e \in Frames /\ e.kind = "event"
  BY QueueableIs DEF Queueable
<1>. QED BY <1>1, <1>2, <1>3, <1>4, ShapeIs DEF Carrying, InSender

\* A step puts at most one frame on one stream.
Appends(l, f) ==
  /\ body'[l].frames = Append(body[l].frames, f)
  /\ \A m \in Streams : m # l => body'[m].frames = body[m].frames
FramesStay == \A m \in Streams : body'[m].frames = body[m].frames

\* The kinds on a stream after a frame was appended, and after none was.
LEMMA AppendsHas ==
  ASSUME Shape, NEW x \in Streams, NEW f \in Frames, Appends(x, f), NEW K
  PROVE  /\ \A m \in Streams : Has(m, K)' <=> Has(m, K) \/ (m = x /\ f.kind \in K)
         /\ Len(body'[x].frames) = Len(body[x].frames) + 1
<1>1. body[x].frames \in Seq(Frames)
  BY SentFrames
<1>2. Has(x, K)' <=> Has(x, K) \/ f.kind \in K
  BY <1>1, ShowsMore DEF Appends, Has
<1>3. \A m \in Streams : m # x => (Has(m, K)' <=> Has(m, K))
  BY DEF Appends, Has
<1>4. Len(body'[x].frames) = Len(body[x].frames) + 1
  BY <1>1 DEF Appends
<1>. QED BY <1>2, <1>3, <1>4

LEMMA StayHas ==
  ASSUME FramesStay, NEW K
  PROVE  \A m \in Streams : Has(m, K)' <=> Has(m, K)
BY DEF FramesStay, Has

\* What each step that touches a body does to its frames.
LEMMA AcknowledgeFrames ==
  ASSUME Shape, NEW l \in Streams, AcknowledgeDoes(l)
  PROVE
    \/ FramesStay
    \/ \E x \in Streams, f \in Frames :
         x = l /\ f = Plain("ack") /\ f.kind = "ack" /\ Ready(x) /\ Appends(x, f)
<1>1. l \in Streams /\ Plain("ack") \in Frames
  BY SentFrames DEF AcknowledgeDoes
<1>2. FramesStay \/ (Appends(l, Plain("ack")) /\ Plain("ack").kind = "ack" /\ Ready(l))
  BY SentFrames DEF AcknowledgeDoes, Sends, Drops, Panics, Refuses, Holds, Appends, FramesStay
<1>. QED BY <1>1, <1>2

LEMMA DeliverOpeningFrames ==
  ASSUME Shape, NEW l \in Streams, DeliverOpeningDoes(l)
  PROVE
    \/ FramesStay
    \/ \E x \in Streams, f \in Frames :
         x = l /\ f = job[l].event /\ f.kind = "event" /\ Ready(x) /\ Appends(x, f)
<1>1. l \in Streams /\ job[l].event \in Frames
  BY SentFrames DEF DeliverOpeningDoes
<1>2. FramesStay \/ (Appends(l, job[l].event) /\ job[l].event.kind = "event" /\ Ready(l))
  BY SentFrames DEF DeliverOpeningDoes, Sends, Drops, Panics, Refuses, Holds, Appends, FramesStay
<1>. QED BY <1>1, <1>2

LEMMA RespondStdioFrames ==
  ASSUME Shape, NEW l \in Streams, RespondStdioDoes(l)
  PROVE
    \/ FramesStay
    \/ \E x \in Streams, f \in Frames :
         x = l /\ f = ResponseFrame(l) /\ f.kind \in Responses /\ live[x] /\ Appends(x, f)
<1>1. l \in Streams /\ ResponseFrame(l) \in Frames
  BY SentFrames DEF RespondStdioDoes
<1>2. FramesStay \/ (Appends(l, ResponseFrame(l)) /\ ResponseFrame(l).kind \in Responses /\ live[l])
  BY SentFrames DEF RespondStdioDoes, Sends, Drops, Panics, Refuses, Holds, Appends, FramesStay
<1>. QED BY <1>1, <1>2

LEMMA CommitResponseFrames ==
  ASSUME Shape, NEW l \in Streams, CommitResponseDoes(l)
  PROVE
    \/ FramesStay
    \/ \E x \in Streams, f \in Frames :
         x = l /\ f = ResponseFrame(l) /\ f.kind \in Responses /\ body'[x].committed /\ Appends(x, f)
<1>1. l \in Streams /\ ResponseFrame(l) \in Frames
  BY SentFrames DEF CommitResponseDoes
<1>2. FramesStay \/ (Appends(l, ResponseFrame(l)) /\ ResponseFrame(l).kind \in Responses /\ body'[l].committed)
  BY SentFrames DEF CommitResponseDoes, Sends, Drops, Panics, Refuses, Holds, Appends, FramesStay
<1>. QED BY <1>1, <1>2

LEMMA SendControlFrames ==
  ASSUME Shape, NEW a \in Actors, SendControlDoes(a)
  PROVE
    \/ FramesStay
    \/ \E x \in Streams, f \in Frames :
         x = job[a].on /\ f = Plain("control") /\ f.kind = "control" /\ Ready(x) /\ Kind[x] # "http" /\ Appends(x, f)
<1>1. job[a].on \in Streams /\ Plain("control") \in Frames
  BY SentFrames DEF SendControlDoes
<1>2. FramesStay \/ (Appends(job[a].on, Plain("control")) /\ Plain("control").kind = "control" /\ Ready(job[a].on) /\ Kind[job[a].on] # "http")
  BY SentFrames DEF SendControlDoes, Sends, Drops, Panics, Refuses, Holds, Appends, FramesStay
<1>. QED BY <1>1, <1>2

LEMMA DeliverEventFrames ==
  ASSUME Shape, NEW p \in Publishers, DeliverEventDoes(p)
  PROVE
    \/ FramesStay
    \/ \E x \in Streams, f \in Frames :
         x = job[p].on /\ f = job[p].event /\ f.kind = "event" /\ Ready(x) /\ Appends(x, f)
<1>1. job[p].on \in Streams /\ job[p].event \in Frames
  BY SentFrames DEF DeliverEventDoes
<1>2. FramesStay \/ (Appends(job[p].on, job[p].event) /\ job[p].event.kind = "event" /\ Ready(job[p].on))
  BY SentFrames DEF DeliverEventDoes, Sends, Drops, Panics, Refuses, Holds, Appends, FramesStay
<1>. QED BY <1>1, <1>2

LEMMA WriterPopFrames ==
  ASSUME NEW l \in Streams, WriterPopDoes(l)
  PROVE  FramesStay
BY DEF WriterPopDoes, Holds, FramesStay

LEMMA WriterFlushFrames ==
  ASSUME NEW l \in Streams, WriterFlushDoes(l)
  PROVE  FramesStay
BY DEF WriterFlushDoes, Holds, FramesStay

LEMMA WriterTrailerFrames ==
  ASSUME NEW l \in Streams, WriterTrailerDoes(l)
  PROVE  FramesStay
BY DEF WriterTrailerDoes, Holds, FramesStay

LEMMA WriterAbortsFrames ==
  ASSUME NEW l \in Streams, WriterAbortsDoes(l)
  PROVE  FramesStay
BY DEF WriterAbortsDoes, Holds, FramesStay

\* A response and a graceful flag are the last of their kind.
LEMMA RespondedStays ==
  ASSUME EInv, Returned, Signals, Leaves, Broken, [Next]_vars
  PROVE  Responded'
<1>e. Shape /\ Stages /\ Counted /\ Callbacks /\ Completion /\ Fresh
  BY DEF EInv
<1>b. \A m \in Streams : Blamed(m) => Blamed(m)'
  BY <1>e, BlameLasts
<1>f. \A m \in Streams : m \in faulted' => Blamed(m)'
  BY DEF Blamed
<1>r. Responded
  BY DEF Broken
<1>1. ASSUME UNCHANGED <<scenario, body, pc>> PROVE Responded'
  BY <1>1, <1>b, <1>r DEF Responded, Has, Kind, Actors
<1>2. ASSUME NEW l \in Streams, AcknowledgeDoes(l) PROVE Responded'
  <2>1. \A m \in Streams : Has(m, Responses)' => Has(m, Responses)
    BY <1>2, <1>e, AcknowledgeFrames, AppendsHas, StayHas DEF Responses
  <2>2. \A m \in Streams : pc'[m] = pc[m] \/ pc[m] \notin {"elect", "done"}
    BY <1>2 DEF AcknowledgeDoes, Moves, Sets, Actors
  <2>. QED BY <1>2, <2>1, <2>2, <1>b, <1>r DEF AcknowledgeDoes, Responded, Kind
<1>3. ASSUME NEW l \in Streams, DeliverOpeningDoes(l) PROVE Responded'
  <2>1. \A m \in Streams : Has(m, Responses)' => Has(m, Responses)
    BY <1>3, <1>e, DeliverOpeningFrames, AppendsHas, StayHas DEF Responses
  <2>2. \A m \in Streams : pc'[m] = pc[m] \/ pc[m] \notin {"elect", "done"}
    BY <1>3 DEF DeliverOpeningDoes, Moves, Sets, Actors
  <2>. QED BY <1>3, <2>1, <2>2, <1>b, <1>r DEF DeliverOpeningDoes, Responded, Kind
<1>4. ASSUME NEW l \in Streams, RespondStdioDoes(l) PROVE Responded'
  <2>1. \A m \in Streams : Has(m, Responses)' => Has(m, Responses) \/ m = l
    BY <1>4, <1>e, RespondStdioFrames, AppendsHas, StayHas
  <2>2. Blamed(l) /\ Kind[l] # "local"
    BY <1>4, <1>e DEF RespondStdioDoes, Leaves, Leaving, Returned
  <2>. QED BY <1>4, <2>1, <2>2, <1>b, <1>r DEF RespondStdioDoes, Responded, Kind, Moves, Sets, Actors
<1>5. ASSUME NEW l \in Streams, CommitResponseDoes(l) PROVE Responded'
  <2>1. \A m \in Streams : Has(m, Responses)' => Has(m, Responses) \/ m = l
    BY <1>5, <1>e, CommitResponseFrames, AppendsHas, StayHas
  <2>2. Blamed(l) /\ Kind[l] # "local"
    BY <1>5, <1>e DEF CommitResponseDoes, Leaves, Leaving, Returned
  <2>. QED BY <1>5, <2>1, <2>2, <1>b, <1>r DEF CommitResponseDoes, Responded, Kind, Moves, Sets, Actors
<1>6. ASSUME NEW a \in Actors, SendControlDoes(a) PROVE Responded'
  <2>1. \A m \in Streams : Has(m, Responses)' => Has(m, Responses)
    BY <1>6, <1>e, SendControlFrames, AppendsHas, StayHas DEF Responses
  <2>2. \A m \in Streams : pc'[m] = pc[m] \/ pc[m] \notin {"elect", "done"}
    BY <1>6 DEF SendControlDoes, Moves, Sets, Actors
  <2>. QED BY <1>6, <2>1, <2>2, <1>b, <1>r DEF SendControlDoes, Responded, Kind
<1>7. ASSUME NEW p \in Publishers, DeliverEventDoes(p) PROVE Responded'
  <2>1. \A m \in Streams : Has(m, Responses)' => Has(m, Responses)
    BY <1>7, <1>e, DeliverEventFrames, AppendsHas, StayHas DEF Responses
  <2>2. \A m \in Streams : pc'[m] = pc[m] \/ pc[m] \notin {"elect", "done"}
    BY <1>7 DEF DeliverEventDoes, Moves, Sets, Actors
  <2>. QED BY <1>7, <2>1, <2>2, <1>b, <1>r DEF DeliverEventDoes, Responded, Kind
<1>8. ASSUME NEW l \in Streams, WriterPopDoes(l) PROVE Responded'
  <2>1. \A m \in Streams : Has(m, Responses)' => Has(m, Responses)
    BY <1>8, WriterPopFrames, StayHas
  <2>. QED BY <1>8, <2>1, <1>b, <1>r DEF WriterPopDoes, Responded, Kind
<1>9. ASSUME NEW l \in Streams, WriterFlushDoes(l) PROVE Responded'
  <2>1. \A m \in Streams : Has(m, Responses)' => Has(m, Responses)
    BY <1>9, WriterFlushFrames, StayHas
  <2>. QED BY <1>9, <2>1, <1>b, <1>r DEF WriterFlushDoes, Responded, Kind
<1>10. ASSUME NEW l \in Streams, WriterTrailerDoes(l) PROVE Responded'
  <2>1. \A m \in Streams : Has(m, Responses)' => Has(m, Responses)
    BY <1>10, WriterTrailerFrames, StayHas
  <2>. QED BY <1>10, <2>1, <1>b, <1>r DEF WriterTrailerDoes, Responded, Kind
<1>11. ASSUME NEW l \in Streams, WriterAbortsDoes(l) PROVE Responded'
  <2>1. \A m \in Streams : Has(m, Responses)' => Has(m, Responses)
    BY <1>11, WriterAbortsFrames, StayHas
  <2>. QED BY <1>11, <2>1, <1>b, <1>r DEF WriterAbortsDoes, Responded, Kind
<1>. USE <1>e, <1>b, <1>f, ShapeIs, ActorAssumption, <1>r DEF Responded, Has, Kind, Actors,
       Moves, Sets
<1>12. ASSUME NEW l \in Streams, ListenDoes(l) \/ CheckOpenDoes(l) \/ ReserveDoes(l)
                                 \/ AdmitStreamDoes(l) \/ RetractEntryDoes(l)
                                 \/ RetractElectionDoes(l)
      PROVE  Responded'
  BY <1>12 DEF ListenDoes, CheckOpenDoes, IsCancelled, ReserveDoes, AdmitStreamDoes,
     RetractEntryDoes, RetractElectionDoes, AtPhase
<1>13. ASSUME NEW l \in Streams, DrainDoes(l) \/ DeliveredOpeningDoes(l) \/ AbandonDoes(l)
                                 \/ DropHandleDoes(l) \/ ListenStartDoes(l)
                                 \/ ListenPollDoes(l)
      PROVE  Responded'
  BY <1>13 DEF DrainDoes, IsCancelled, DeliveredOpeningDoes, AbandonDoes, DropHandleDoes,
     Blames, ListenStartDoes, ListenPollDoes
<1>14. ASSUME NEW l \in Streams, ListenParkedDoes(l) \/ ListenHoldDoes(l)
                                 \/ ListenSettleDoes(l) \/ ListenReturnDoes(l)
                                 \/ DropLeaseDoes(l) \/ DropElectionDoes(l)
      PROVE  Responded'
  BY <1>14 DEF ListenParkedDoes, IsCancelled, ListenHoldDoes, ListenSettleDoes,
     ListenReturnDoes, DropLeaseDoes, DropElectionDoes, AtPhase, Open4
<1>15. ASSUME NEW l \in Streams, ReturnLocalDoes(l) \/ RespondHttpDoes(l)
                                 \/ ElectOutcomeDoes(l) \/ TerminateEntryDoes(l)
      PROVE  Responded'
  BY <1>15 DEF ReturnLocalDoes, RespondHttpDoes, IsCancelled, ElectOutcomeDoes,
     TerminateEntryDoes, AtPhase, Open4
<1>16. ASSUME NEW a \in Actors, DecideDoes(a) \/ UnelectDoes(a) \/ MarkGracefulDoes(a)
                                \/ WakeDoes(a)
      PROVE  Responded'
  BY <1>16 DEF DecideDoes, IsCancelled, UnelectDoes, MarkGracefulDoes, WakeDoes
<1>17. ASSUME NEW p \in Publishers, NEW l \in Streams, OfferDoes(p, l) PROVE Responded'
  BY <1>17 DEF OfferDoes, AtPhase, IsCancelled
<1>18. ASSUME NEW p \in Publishers, DeliveredEventDoes(p) PROVE Responded'
  BY <1>18 DEF DeliveredEventDoes, AtPhase, IsCancelled
<1>19. ASSUME TerminateDoes \/ TakeEntriesDoes \/ DrainReceiptsDoes
      PROVE  Responded'
  BY <1>19 DEF TerminateDoes, TakeEntriesDoes, DrainReceiptsDoes
<1>. HIDE DEF Responded
<1>. QED BY <1>1, <1>2, <1>3, <1>4, <1>5, <1>6, <1>7, <1>8, <1>9, <1>10, <1>11, <1>12,
         <1>13, <1>14, <1>15, <1>16, <1>17, <1>18, <1>19, <1>e, Writers

LEMMA GraceLasts ==
  ASSUME Shape, NEW m \in Streams, graceful[m], [Next]_vars
  PROVE  graceful'[m]
<1>1. ASSUME UNCHANGED <<scenario, graceful>> PROVE graceful'[m]
  BY <1>1 DEF Graces
<1>. USE DEF Sets
<1>2. ASSUME NEW a \in Actors, MarkGracefulDoes(a) PROVE graceful'[m]
  BY <1>2 DEF MarkGracefulDoes, Graces
<1>. QED BY <1>1, <1>2, Writers

\* The rest of the invariant of the end.
LEMMA LeavesStays ==
  ASSUME EInv, Returned, Signals, Leaves, Broken, [Next]_vars
  PROVE  Leaves'
<1>e. Shape /\ Stages /\ Counted /\ Callbacks /\ Completion /\ Fresh
  BY DEF EInv
<1>b. \A m \in Streams : Blamed(m) => Blamed(m)'
  BY <1>e, BlameLasts
<1>f. \A m \in Streams : m \in faulted' => Blamed(m)'
  BY DEF Blamed
<1>g. \A m \in Streams : graceful[m] => graceful'[m]
  BY <1>e, GraceLasts
<1>r. Receipted /\ Torn /\ Dismissed /\ Responded
  BY DEF Broken
<1>1. ASSUME UNCHANGED <<scenario, pc, job>> PROVE Leaves'
  BY <1>1, <1>b, <1>g DEF Leaves, Actors, Leaving, Kind
<1>2. ASSUME NEW l \in Streams, AcknowledgeDoes(l) PROVE Leaves'
  <2>1. /\ l \in Actors /\ \A b \in Actors : b # l => pc'[b] = pc[b]
        /\ pc'[l] \in {"retract", "admit", "drain"} /\ (pc'[l] = "retract" => Blamed(l)')
        /\ scenario' = scenario /\ job' = job
    BY <1>2, <1>f DEF AcknowledgeDoes, Moves, Sets, Panics, Blames, Actors
  <2>. QED BY <2>1, <1>b, <1>g, ActorAssumption DEF Leaves, Kind, Leaving, Actors
<1>3. ASSUME NEW l \in Streams, DrainDoes(l) PROVE Leaves'
  <2>1. phase[l].at = "Pending" => phase[l].n = 0
    BY <1>3, <1>e, NoCallbackYet DEF DrainDoes, Counted, CountedAt, InSender, Leased, Waits, Leaving
  <2>2. /\ phase[l] \in Phases /\ phase[l].at \in {"Opening", "Pending", "PeerTerminated"}
        /\ phase[l].at = "Opening" => phase[l].n = 0
    BY <1>3, <1>e, ShapeIs DEF DrainDoes, Stages, Placing
  <2>3. /\ l \in Actors /\ \A b \in Actors : b # l => pc'[b] = pc[b] /\ job'[b] = job[b]
        /\ pc'[l] \in {"deliver", "listen", "control", "abandon"} /\ scenario' = scenario
    BY <1>3, <1>e DEF DrainDoes, Moves, Sets, Works, Actors
  <2>4. ASSUME pc'[l] = "abandon" PROVE IsCancelled(l) \/ phase[l].at = "PeerTerminated"
    BY <1>3, <2>1, <2>2, <2>4 DEF DrainDoes, Moves, Sets, Phases
  <2>5. pc'[l] = "abandon" => Blamed(l)'
    BY <2>4, <1>b DEF Signals
  <2>. QED BY <2>3, <2>5, <1>b, <1>g, ActorAssumption DEF Leaves, Kind, Leaving, Actors
<1>4. ASSUME NEW l \in Streams, DeliverOpeningDoes(l) PROVE Leaves'
  <2>0. PICK x \in Streams : x = job[l].on
    BY <1>4, <1>e, ShapeIs DEF DeliverOpeningDoes, Aimed
  <2>1. /\ l \in Actors /\ \A b \in Actors : b # l => pc'[b] = pc[b] /\ job'[b] = job[b]
        /\ pc'[l] = "delivered" /\ job'[l].on = x /\ (job'[l].sent \/ Blamed(x)')
        /\ scenario' = scenario
    BY <1>4, <2>0, <1>e, <1>b, <1>f, MoreShape, ShapeIs DEF DeliverOpeningDoes, Works, Moves, Sets, Panics, Blames, Actors, Aimed
  <2>. QED BY <2>0, <2>1, <1>e, <1>b, <1>g, ShapeIs, ActorAssumption DEF Leaves, Aimed, Kind, Leaving, Actors
<1>5. ASSUME NEW l \in Streams, DeliveredOpeningDoes(l) PROVE Leaves'
  <2>1. phase[l].at = "Pending" => phase[l].n = 1
    BY <1>5, <1>e, OnlyOpener, FS_Singleton DEF DeliveredOpeningDoes, Counted, CountedAt, InSender
  <2>2. phase[l] \in Phases /\ phase[l].at \in {"OpeningDelivery", "Pending", "PeerTerminated"}
        /\ job[l].on = l /\ l \in Actors /\ pc[l] = "delivered"
    BY <1>5, <1>e, ShapeIs DEF DeliveredOpeningDoes, Stages, InSender, Aimed, Actors
  <2>3. /\ \A b \in Actors : b # l => pc'[b] = pc[b]
        /\ pc'[l] \in {"drain", "control", "abandon"} /\ scenario' = scenario /\ job' = job
    BY <1>5 DEF DeliveredOpeningDoes, Moves, Sets, Actors
  <2>4. ASSUME pc'[l] = "abandon"
        PROVE  IsCancelled(l) \/ phase[l].at = "PeerTerminated" \/ ~job[l].sent
    BY <1>5, <2>1, <2>2, <2>4 DEF DeliveredOpeningDoes, Moves, Sets, Phases
  <2>5. pc'[l] = "abandon" => Blamed(l)'
    BY <2>2, <2>4, <1>b DEF Signals, Leaves
  <2>. QED BY <2>2, <2>3, <2>5, <1>b, <1>g, ActorAssumption DEF Leaves, Kind, Leaving, Actors
<1>6. ASSUME NEW l \in Streams, CommitResponseDoes(l) PROVE Leaves'
  <2>0. PICK x \in Streams : x = l /\ x = job[l].on
    BY <1>6, <1>e, ShapeIs DEF CommitResponseDoes, Aimed
  <2>1. /\ l \in Actors /\ \A b \in Actors : b # l => pc'[b] = pc[b] /\ job'[b] = job[b]
        /\ pc'[l] = "elect" /\ job'[l].on = x /\ Blamed(x)'
        /\ scenario' = scenario
    BY <1>6, <2>0, <1>e, <1>b, <1>f, MoreShape, ShapeIs DEF CommitResponseDoes, Leaves, Leaving, Works, Moves, Sets, Panics, Blames, Actors, Aimed
  <2>. QED BY <2>0, <2>1, <1>e, <1>b, <1>g, ShapeIs, ActorAssumption DEF Leaves, Aimed, Kind, Leaving, Actors
<1>7. ASSUME NEW a \in Actors, SendControlDoes(a) PROVE Leaves'
  <2>0. PICK x \in Streams : x = job[a].on
    BY <1>7, <1>e, ShapeIs DEF SendControlDoes, Aimed
  <2>1. /\ a \in Actors /\ \A b \in Actors : b # a => pc'[b] = pc[b] /\ job'[b] = job[b]
        /\ pc'[a] = "decide" /\ job'[a].on = x /\ (job'[a].sent \/ Blamed(x)' \/ Kind[x] = "http")
        /\ scenario' = scenario
    BY <1>7, <2>0, <1>e, <1>b, <1>f, MoreShape, ShapeIs DEF SendControlDoes, Works, Moves, Sets, Panics, Blames, Actors, Aimed
  <2>. QED BY <2>0, <2>1, <1>e, <1>b, <1>g, ShapeIs, ActorAssumption DEF Leaves, Aimed, Kind, Leaving, Actors
<1>8. ASSUME NEW a \in Actors, DecideDoes(a) PROVE Leaves'
  <2>0. PICK x \in Streams : x = job[a].on
    BY <1>8 DEF DecideDoes
  <2>1. /\ \A b \in Actors : b # a => pc'[b] = pc[b]
        /\ scenario' = scenario /\ job' = job
        /\ pc'[a] = "graceful" \/ (pc'[a] = "unelect" /\ Blamed(x)')
    BY <1>8, <2>0, <1>b DEF DecideDoes, Moves, Sets, Leaves, Signals
  <2>. QED BY <2>0, <2>1, <1>b, <1>g, ActorAssumption DEF Leaves, Kind, Leaving, Actors
<1>9. ASSUME NEW p \in Publishers, DeliverEventDoes(p) PROVE Leaves'
  <2>0. PICK x \in Streams : x = job[p].on
    BY <1>9, <1>e, ShapeIs DEF DeliverEventDoes, Aimed
  <2>1. /\ p \in Actors /\ \A b \in Actors : b # p => pc'[b] = pc[b] /\ job'[b] = job[b]
        /\ pc'[p] = "delivered" /\ job'[p].on = x /\ (job'[p].sent \/ Blamed(x)')
        /\ scenario' = scenario
    BY <1>9, <2>0, <1>e, <1>b, <1>f, MoreShape, ShapeIs DEF DeliverEventDoes, Works, Moves, Sets, Panics, Blames, Actors, Aimed
  <2>. QED BY <2>0, <2>1, <1>e, <1>b, <1>g, ShapeIs, ActorAssumption DEF Leaves, Aimed, Kind, Leaving, Actors
<1>. USE <1>e, <1>b, <1>f, ShapeIs, ActorAssumption, <1>g DEF Leaves, Actors, Leaving, Kind,
       Moves, Sets
<1>10. ASSUME NEW l \in Streams, ListenDoes(l) \/ CheckOpenDoes(l) \/ ReserveDoes(l)
                                 \/ AdmitStreamDoes(l) \/ RetractEntryDoes(l)
                                 \/ RetractElectionDoes(l)
      PROVE  Leaves'
  BY <1>10 DEF ListenDoes, CheckOpenDoes, IsCancelled, Signals, Blamed, Answers,
     ReserveDoes, AdmitStreamDoes, RetractEntryDoes, RetractElectionDoes, AtPhase
<1>11. ASSUME NEW l \in Streams, AbandonDoes(l) \/ DropHandleDoes(l) \/ ListenStartDoes(l)
                                 \/ ListenPollDoes(l) \/ ListenParkedDoes(l)
                                 \/ ListenHoldDoes(l)
      PROVE  Leaves'
  BY <1>11 DEF AbandonDoes, DropHandleDoes, Blames, ListenStartDoes, ListenPollDoes,
     IsCancelled, Signals, ListenParkedDoes, ListenHoldDoes, Graces
<1>12. ASSUME NEW l \in Streams, ListenSettleDoes(l) \/ ListenReturnDoes(l)
                                 \/ DropLeaseDoes(l) \/ DropElectionDoes(l)
                                 \/ RespondStdioDoes(l) \/ ReturnLocalDoes(l)
      PROVE  Leaves'
  BY <1>12 DEF ListenSettleDoes, IsCancelled, Signals, Blamed, ListenReturnDoes,
     DropLeaseDoes, DropElectionDoes, AtPhase, Open4, RespondStdioDoes, Blames,
     ReturnLocalDoes
<1>13. ASSUME NEW l \in Streams, RespondHttpDoes(l) \/ ElectOutcomeDoes(l)
                                 \/ TerminateEntryDoes(l)
      PROVE  Leaves'
  BY <1>13 DEF RespondHttpDoes, Works, IsCancelled, Signals, ElectOutcomeDoes,
     TerminateEntryDoes, AtPhase, Open4
<1>14. ASSUME NEW a \in Actors, UnelectDoes(a) \/ MarkGracefulDoes(a) \/ WakeDoes(a)
      PROVE  Leaves'
  BY <1>14 DEF UnelectDoes, Aimed, MarkGracefulDoes, Graces, WakeDoes
<1>15. ASSUME NEW p \in Publishers, PublishDoes(p) \/ DeliveredEventDoes(p)
      PROVE  Leaves'
  BY <1>15 DEF PublishDoes, Works, Frame, DeliveredEventDoes, AtPhase, IsCancelled
<1>16. ASSUME NEW p \in Publishers, NEW l \in Streams, OfferDoes(p, l) PROVE Leaves'
  BY <1>16 DEF OfferDoes, Works, AtPhase, IsCancelled
<1>17. ASSUME TerminateDoes \/ TakeEntriesDoes \/ DrainReceiptsDoes
      PROVE  Leaves'
  BY <1>17 DEF TerminateDoes, TakeEntriesDoes, DrainReceiptsDoes
<1>. HIDE DEF Leaves
<1>. QED BY <1>1, <1>2, <1>3, <1>4, <1>5, <1>6, <1>7, <1>8, <1>9, <1>10, <1>11, <1>12,
         <1>13, <1>14, <1>15, <1>16, <1>17, <1>e, Writers

LEMMA FlushingStays ==
  ASSUME Shape, Returned, Responded, Flushing, [Next]_vars
  PROVE  Flushing'
<1>1. ASSUME UNCHANGED <<scenario, body, writer, outcome>> PROVE Flushing'
  BY <1>1 DEF Flushing, Has, Actors
<1>2. ASSUME NEW l \in Streams, AcknowledgeDoes(l) PROVE Flushing'
  <2>1. \A m \in Streams : Has(m, {"error"})' => Has(m, {"error"})
    BY <1>2, AcknowledgeFrames, AppendsHas, StayHas, ZenonT(60)
  <2>2. \A m \in Streams : /\ Len(body[m].frames) \in Nat /\ Len(body'[m].frames) \in Nat
                           /\ Len(body'[m].frames) >= Len(body[m].frames)
    <3>1. \A m \in Streams : Len(body[m].frames) \in Nat
      BY SentFrames
    <3>. QED BY <1>2, <3>1, AcknowledgeFrames, AppendsHas, SMTT(40) DEF FramesStay, Appends
  <2>3. \A m \in Streams : /\ body'[m].popped = body[m].popped /\ body'[m].flushed = body[m].flushed
                           /\ body[m].popped \in Nat
    BY <1>2, MoreShape DEF AcknowledgeDoes, Sends, Drops, Panics, Refuses, Holds, Bodies
  <2>4. writer' = writer /\ outcome' = outcome
    BY <1>2 DEF AcknowledgeDoes
  <2>. QED BY <2>1, <2>2, <2>3, <2>4 DEF Flushing
<1>3. ASSUME NEW l \in Streams, DeliverOpeningDoes(l) PROVE Flushing'
  <2>1. \A m \in Streams : Has(m, {"error"})' => Has(m, {"error"})
    BY <1>3, DeliverOpeningFrames, AppendsHas, StayHas
  <2>2. \A m \in Streams : /\ Len(body[m].frames) \in Nat /\ Len(body'[m].frames) \in Nat
                           /\ Len(body'[m].frames) >= Len(body[m].frames)
    <3>1. \A m \in Streams : Len(body[m].frames) \in Nat
      BY SentFrames
    <3>. QED BY <1>3, <3>1, DeliverOpeningFrames, AppendsHas DEF FramesStay, Appends
  <2>3. \A m \in Streams : /\ body'[m].popped = body[m].popped /\ body'[m].flushed = body[m].flushed
                           /\ body[m].popped \in Nat
    BY <1>3, MoreShape DEF DeliverOpeningDoes, Sends, Drops, Panics, Refuses, Holds, Bodies
  <2>4. writer' = writer /\ outcome' = outcome
    BY <1>3 DEF DeliverOpeningDoes
  <2>. QED BY <2>1, <2>2, <2>3, <2>4 DEF Flushing
<1>4. ASSUME NEW l \in Streams, ListenReturnDoes(l) PROVE Flushing'
  <2>1. ~Has(l, {"error"})
    BY <1>4, SentFrames DEF ListenReturnDoes, Responded, Has, Shows, Responses
  <2>. QED BY <1>4, <2>1 DEF ListenReturnDoes, Flushing, Has, Answers, Sets
<1>5. ASSUME NEW l \in Streams, RespondStdioDoes(l) PROVE Flushing'
  <2>1. \A m \in Streams : outcome[m] = "complete" => (Has(m, {"error"})' => Has(m, {"error"}))
    <3>1. ASSUME FramesStay PROVE \A m \in Streams : Has(m, {"error"})' => Has(m, {"error"})
      BY <3>1, StayHas
    <3>2. ASSUME NEW x \in Streams, NEW f \in Frames, x = l, f = ResponseFrame(l), Appends(x, f)
          PROVE  \A m \in Streams : outcome[m] = "complete" => (Has(m, {"error"})' => Has(m, {"error"}))
      <4>1. \A m \in Streams : Has(m, {"error"})' <=> Has(m, {"error"}) \/ (m = x /\ f.kind \in {"error"})
        BY <3>2, AppendsHas
      <4>2. f.kind = "error" => outcome[x] # "complete"
        BY <3>2, SentFrames
      <4>. QED BY <4>1, <4>2
    <3>. QED BY <1>5, <3>1, <3>2, RespondStdioFrames
  <2>2. \A m \in Streams : /\ Len(body[m].frames) \in Nat /\ Len(body'[m].frames) \in Nat
                           /\ Len(body'[m].frames) >= Len(body[m].frames)
    <3>1. \A m \in Streams : Len(body[m].frames) \in Nat
      BY SentFrames
    <3>. QED BY <1>5, <3>1, RespondStdioFrames, AppendsHas DEF FramesStay, Appends
  <2>3. \A m \in Streams : /\ body'[m].popped = body[m].popped /\ body'[m].flushed = body[m].flushed
                           /\ body[m].popped \in Nat
    BY <1>5, MoreShape DEF RespondStdioDoes, Sends, Drops, Panics, Refuses, Holds, Bodies
  <2>4. writer' = writer /\ outcome' = outcome
    BY <1>5 DEF RespondStdioDoes
  <2>. QED BY <2>1, <2>2, <2>3, <2>4 DEF Flushing
<1>6. ASSUME NEW l \in Streams, CommitResponseDoes(l) PROVE Flushing'
  <2>1. \A m \in Streams : outcome[m] = "complete" => (Has(m, {"error"})' => Has(m, {"error"}))
    <3>1. ASSUME FramesStay PROVE \A m \in Streams : Has(m, {"error"})' => Has(m, {"error"})
      BY <3>1, StayHas
    <3>2. ASSUME NEW x \in Streams, NEW f \in Frames, x = l, f = ResponseFrame(l), Appends(x, f)
          PROVE  \A m \in Streams : outcome[m] = "complete" => (Has(m, {"error"})' => Has(m, {"error"}))
      <4>1. \A m \in Streams : Has(m, {"error"})' <=> Has(m, {"error"}) \/ (m = x /\ f.kind \in {"error"})
        BY <3>2, AppendsHas
      <4>2. f.kind = "error" => outcome[x] # "complete"
        BY <3>2, SentFrames
      <4>. QED BY <4>1, <4>2
    <3>. QED BY <1>6, <3>1, <3>2, CommitResponseFrames
  <2>2. \A m \in Streams : /\ Len(body[m].frames) \in Nat /\ Len(body'[m].frames) \in Nat
                           /\ Len(body'[m].frames) >= Len(body[m].frames)
    <3>1. \A m \in Streams : Len(body[m].frames) \in Nat
      BY SentFrames
    <3>. QED BY <1>6, <3>1, CommitResponseFrames, AppendsHas DEF FramesStay, Appends
  <2>3. \A m \in Streams : /\ body'[m].popped = body[m].popped /\ body'[m].flushed = body[m].flushed
                           /\ body[m].popped \in Nat
    BY <1>6, MoreShape DEF CommitResponseDoes, Sends, Drops, Panics, Refuses, Holds, Bodies
  <2>4. writer' = writer /\ outcome' = outcome
    BY <1>6 DEF CommitResponseDoes
  <2>. QED BY <2>1, <2>2, <2>3, <2>4 DEF Flushing
<1>7. ASSUME NEW a \in Actors, SendControlDoes(a) PROVE Flushing'
  <2>1. \A m \in Streams : Has(m, {"error"})' => Has(m, {"error"})
    BY <1>7, SendControlFrames, AppendsHas, StayHas
  <2>2. \A m \in Streams : /\ Len(body[m].frames) \in Nat /\ Len(body'[m].frames) \in Nat
                           /\ Len(body'[m].frames) >= Len(body[m].frames)
    <3>1. \A m \in Streams : Len(body[m].frames) \in Nat
      BY SentFrames
    <3>. QED BY <1>7, <3>1, SendControlFrames, AppendsHas DEF FramesStay, Appends
  <2>3. \A m \in Streams : /\ body'[m].popped = body[m].popped /\ body'[m].flushed = body[m].flushed
                           /\ body[m].popped \in Nat
    BY <1>7, MoreShape DEF SendControlDoes, Sends, Drops, Panics, Refuses, Holds, Bodies
  <2>4. writer' = writer /\ outcome' = outcome
    BY <1>7 DEF SendControlDoes
  <2>. QED BY <2>1, <2>2, <2>3, <2>4 DEF Flushing
<1>8. ASSUME NEW p \in Publishers, DeliverEventDoes(p) PROVE Flushing'
  <2>1. \A m \in Streams : Has(m, {"error"})' => Has(m, {"error"})
    BY <1>8, DeliverEventFrames, AppendsHas, StayHas
  <2>2. \A m \in Streams : /\ Len(body[m].frames) \in Nat /\ Len(body'[m].frames) \in Nat
                           /\ Len(body'[m].frames) >= Len(body[m].frames)
    <3>1. \A m \in Streams : Len(body[m].frames) \in Nat
      BY SentFrames
    <3>. QED BY <1>8, <3>1, DeliverEventFrames, AppendsHas DEF FramesStay, Appends
  <2>3. \A m \in Streams : /\ body'[m].popped = body[m].popped /\ body'[m].flushed = body[m].flushed
                           /\ body[m].popped \in Nat
    BY <1>8, MoreShape DEF DeliverEventDoes, Sends, Drops, Panics, Refuses, Holds, Bodies
  <2>4. writer' = writer /\ outcome' = outcome
    BY <1>8 DEF DeliverEventDoes
  <2>. QED BY <2>1, <2>2, <2>3, <2>4 DEF Flushing
<1>9. ASSUME NEW l \in Streams, WriterPopDoes(l) PROVE Flushing'
  <2>1. \A m \in Streams : Has(m, {"error"})' <=> Has(m, {"error"})
    BY <1>9, WriterPopFrames, StayHas
  <2>2. /\ body[l].popped \in Nat /\ body[l].flushed \in Nat /\ Len(body[l].frames) \in Nat
        /\ body[l].popped < Len(body[l].frames) /\ body'[l].popped = body[l].popped + 1
        /\ body'[l].flushed = body[l].flushed /\ body'[l].frames = body[l].frames
    BY <1>9, SentFrames, MoreShape DEF WriterPopDoes, Holds, Bodies
  <2>3. /\ outcome' = outcome /\ writer' \in [Streams -> WriterLabels]
        /\ \A m \in Streams : m # l => body'[m] = body[m] /\ writer'[m] = writer[m]
    BY <1>9 DEF WriterPopDoes, Holds, Writes, Sets
  <2>4. /\ body'[l].flushed <= body'[l].popped /\ body'[l].popped <= Len(body'[l].frames) /\ body'[l].popped > 0
    BY <2>2 DEF Flushing
  <2>. QED BY <2>1, <2>3, <2>4 DEF Flushing
<1>10. ASSUME NEW l \in Streams, WriterFlushDoes(l) PROVE Flushing'
  <2>1. \A m \in Streams : Has(m, {"error"})' <=> Has(m, {"error"})
    BY <1>10, WriterFlushFrames, StayHas
  <2>2. /\ body[l].popped \in Nat /\ body'[l].popped = body[l].popped
        /\ body'[l].flushed = body[l].popped /\ body'[l].frames = body[l].frames
        /\ writer'[l] # "write" /\ outcome' = outcome
        /\ \A m \in Streams : m # l => body'[m] = body[m] /\ writer'[m] = writer[m]
    BY <1>10, MoreShape DEF WriterFlushDoes, Holds, Bodies, Writes, Sets
  <2>. QED BY <2>1, <2>2 DEF Flushing
<1>. USE ShapeIs, MoreShape DEF Flushing, Has, Actors, Sets
<1>11. ASSUME NEW l \in Streams, CheckOpenDoes(l) \/ ReserveDoes(l)
                                 \/ RetractElectionDoes(l) \/ AbandonDoes(l)
                                 \/ ListenHoldDoes(l) \/ WriterAwaitDoes(l)
      PROVE  Flushing'
  BY <1>11 DEF CheckOpenDoes, Answers, IsCancelled, ReserveDoes, RetractElectionDoes,
     AtPhase, AbandonDoes, ListenHoldDoes, WriterAwaitDoes, Writes
<1>12. ASSUME NEW a \in Actors, UnelectDoes(a) PROVE Flushing'
  BY <1>12 DEF UnelectDoes, Answers
<1>13. ASSUME NEW l \in Streams, WriterHeadDoes(l) \/ WriterIdleDoes(l)
                                 \/ WriterBreaksDoes(l) \/ WriterTrailerDoes(l)
                                 \/ WriterFailsDoes(l) \/ CancelModernHttpOwnerDoes(l)
      PROVE  Flushing'
  BY <1>13 DEF WriterHeadDoes, Writes, WriterIdleDoes, IsCancelled, WriterBreaksDoes,
     WriterTrailerDoes, Holds, WriterFailsDoes, CancelModernHttpOwnerDoes, AtPhase, Open4
<1>14. ASSUME NEW l \in Streams, WriterAbortsDoes(l) PROVE Flushing'
  BY <1>14 DEF WriterAbortsDoes, Holds, Writes
<1>. HIDE DEF Flushing
<1>. QED BY <1>1, <1>2, <1>3, <1>4, <1>5, <1>6, <1>7, <1>8, <1>9, <1>10, <1>11, <1>12,
         <1>13, <1>14, Writers

\* A stream only grows, and so does what was flushed of it.
LEMMA FramesGrow ==
  ASSUME Shape, [Next]_vars
  PROVE  FramesStay \/ \E x \in Streams, f \in Frames : Appends(x, f)
<1>. DEFINE Goal == FramesStay \/ \E x \in Streams, f \in Frames : Appends(x, f)
<1>1. body' = body => Goal
  BY DEF FramesStay
<1>2. ASSUME NEW l \in Streams, AcknowledgeDoes(l) PROVE Goal
  BY <1>2, AcknowledgeFrames
<1>3. ASSUME NEW l \in Streams, DeliverOpeningDoes(l) PROVE Goal
  BY <1>3, DeliverOpeningFrames
<1>4. ASSUME NEW l \in Streams, RespondStdioDoes(l) PROVE Goal
  BY <1>4, RespondStdioFrames
<1>5. ASSUME NEW l \in Streams, CommitResponseDoes(l) PROVE Goal
  BY <1>5, CommitResponseFrames
<1>6. ASSUME NEW a \in Actors, SendControlDoes(a) PROVE Goal
  BY <1>6, SendControlFrames
<1>7. ASSUME NEW p \in Publishers, DeliverEventDoes(p) PROVE Goal
  BY <1>7, DeliverEventFrames
<1>8. ASSUME NEW l \in Streams, WriterPopDoes(l) PROVE Goal
  BY <1>8, WriterPopFrames
<1>9. ASSUME NEW l \in Streams, WriterFlushDoes(l) PROVE Goal
  BY <1>9, WriterFlushFrames
<1>10. ASSUME NEW l \in Streams, WriterTrailerDoes(l) PROVE Goal
  BY <1>10, WriterTrailerFrames
<1>11. ASSUME NEW l \in Streams, WriterAbortsDoes(l) PROVE Goal
  BY <1>11, WriterAbortsFrames
<1>. HIDE DEF Goal
<1>g. Goal
  BY <1>1, <1>2, <1>3, <1>4, <1>5, <1>6, <1>7, <1>8, <1>9, <1>10, <1>11, Writers
<1>. QED BY <1>g DEF Goal

LEMMA FlushedGrows ==
  ASSUME Shape, Flushing, [Next]_vars
  PROVE  \A m \in Streams : body'[m].flushed >= body[m].flushed
<1>1. ASSUME UNCHANGED <<scenario, body>> PROVE \A m \in Streams : body'[m].flushed >= body[m].flushed
  BY <1>1, MoreShape DEF Bodies
<1>2. ASSUME NEW l \in Streams, AcknowledgeDoes(l) PROVE \A m \in Streams : body'[m].flushed >= body[m].flushed
  <2>1. \A m \in Streams : body[m].flushed \in Nat /\ body[m].popped \in Nat
    BY MoreShape DEF Bodies
  <2>2. \A m \in Streams : body'[m].flushed = body[m].flushed
    BY <1>2 DEF AcknowledgeDoes, Holds, Sends, Drops, Panics, Refuses
  <2>. QED BY <2>1, <2>2
<1>3. ASSUME NEW l \in Streams, DeliverOpeningDoes(l) PROVE \A m \in Streams : body'[m].flushed >= body[m].flushed
  <2>1. \A m \in Streams : body[m].flushed \in Nat /\ body[m].popped \in Nat
    BY MoreShape DEF Bodies
  <2>2. \A m \in Streams : body'[m].flushed = body[m].flushed
    BY <1>3 DEF DeliverOpeningDoes, Holds, Sends, Drops, Panics, Refuses
  <2>. QED BY <2>1, <2>2
<1>4. ASSUME NEW l \in Streams, RespondStdioDoes(l) PROVE \A m \in Streams : body'[m].flushed >= body[m].flushed
  <2>1. \A m \in Streams : body[m].flushed \in Nat /\ body[m].popped \in Nat
    BY MoreShape DEF Bodies
  <2>2. \A m \in Streams : body'[m].flushed = body[m].flushed
    BY <1>4 DEF RespondStdioDoes, Holds, Sends, Drops, Panics, Refuses
  <2>. QED BY <2>1, <2>2
<1>5. ASSUME NEW l \in Streams, CommitResponseDoes(l) PROVE \A m \in Streams : body'[m].flushed >= body[m].flushed
  <2>1. \A m \in Streams : body[m].flushed \in Nat /\ body[m].popped \in Nat
    BY MoreShape DEF Bodies
  <2>2. \A m \in Streams : body'[m].flushed = body[m].flushed
    BY <1>5 DEF CommitResponseDoes, Holds, Sends, Drops, Panics, Refuses
  <2>. QED BY <2>1, <2>2
<1>6. ASSUME NEW a \in Actors, SendControlDoes(a) PROVE \A m \in Streams : body'[m].flushed >= body[m].flushed
  <2>1. \A m \in Streams : body[m].flushed \in Nat /\ body[m].popped \in Nat
    BY MoreShape DEF Bodies
  <2>2. \A m \in Streams : body'[m].flushed = body[m].flushed
    BY <1>6 DEF SendControlDoes, Holds, Sends, Drops, Panics, Refuses
  <2>. QED BY <2>1, <2>2
<1>7. ASSUME NEW p \in Publishers, DeliverEventDoes(p) PROVE \A m \in Streams : body'[m].flushed >= body[m].flushed
  <2>1. \A m \in Streams : body[m].flushed \in Nat /\ body[m].popped \in Nat
    BY MoreShape DEF Bodies
  <2>2. \A m \in Streams : body'[m].flushed = body[m].flushed
    BY <1>7 DEF DeliverEventDoes, Holds, Sends, Drops, Panics, Refuses
  <2>. QED BY <2>1, <2>2
<1>8. ASSUME NEW l \in Streams, WriterPopDoes(l) PROVE \A m \in Streams : body'[m].flushed >= body[m].flushed
  <2>1. \A m \in Streams : body[m].flushed \in Nat /\ body[m].popped \in Nat
    BY MoreShape DEF Bodies
  <2>. QED BY <1>8, <2>1 DEF WriterPopDoes, Holds, Flushing
<1>9. ASSUME NEW l \in Streams, WriterFlushDoes(l) PROVE \A m \in Streams : body'[m].flushed >= body[m].flushed
  <2>1. \A m \in Streams : body[m].flushed \in Nat /\ body[m].popped \in Nat
    BY MoreShape DEF Bodies
  <2>. QED BY <1>9, <2>1 DEF WriterFlushDoes, Holds, Flushing
<1>10. ASSUME NEW l \in Streams, WriterTrailerDoes(l) PROVE \A m \in Streams : body'[m].flushed >= body[m].flushed
  <2>1. \A m \in Streams : body[m].flushed \in Nat /\ body[m].popped \in Nat
    BY MoreShape DEF Bodies
  <2>. QED BY <1>10, <2>1 DEF WriterTrailerDoes, Holds, Flushing
<1>11. ASSUME NEW l \in Streams, WriterAbortsDoes(l) PROVE \A m \in Streams : body'[m].flushed >= body[m].flushed
  <2>1. \A m \in Streams : body[m].flushed \in Nat /\ body[m].popped \in Nat
    BY MoreShape DEF Bodies
  <2>. QED BY <1>11, <2>1 DEF WriterAbortsDoes, Holds, Flushing
<1>. QED BY <1>1, <1>2, <1>3, <1>4, <1>5, <1>6, <1>7, <1>8, <1>9, <1>10, <1>11, Writers

\* Only the flush settles a completion as drained.
LEMMA DrainedByFlush ==
  ASSUME Shape, [Next]_vars
  PROVE  \A m \in Streams : receipt'[m].completion = "drained" => receipt[m].completion = "drained" \/ WriterFlushDoes(m)
<1>1. ASSUME UNCHANGED <<scenario, receipt>> PROVE \A m \in Streams : receipt'[m].completion = "drained" => receipt[m].completion = "drained" \/ WriterFlushDoes(m)
  BY <1>1
<1>2. ASSUME NEW l \in Streams, AcknowledgeDoes(l) PROVE \A m \in Streams : receipt'[m].completion = "drained" => receipt[m].completion = "drained" \/ WriterFlushDoes(m)
  <2>1. PICK x \in Streams : x = l
    BY <1>2
  <2>2. receipt' = receipt \/ FailsReceipt(x)
    BY <1>2, <2>1 DEF AcknowledgeDoes, Sends, Drops, Panics, Refuses
  <2>. QED BY <2>2, FailsReceiptKeeps
<1>3. ASSUME NEW l \in Streams, AdmitStreamDoes(l) PROVE \A m \in Streams : receipt'[m].completion = "drained" => receipt[m].completion = "drained" \/ WriterFlushDoes(m)
  <2>1. receipt'[l] = ControlNotRequired(receipt[l]) /\ receipt[l] \in Receipts
    BY <1>3, MoreShape DEF AdmitStreamDoes, Marked, Sets
  <2>2. receipt'[l].completion = receipt[l].completion
    BY <2>1, Receipting
  <2>. QED BY <1>3, <2>2 DEF AdmitStreamDoes, Marked, Sets
<1>4. ASSUME NEW l \in Streams, RetractElectionDoes(l) PROVE \A m \in Streams : receipt'[m].completion = "drained" => receipt[m].completion = "drained" \/ WriterFlushDoes(m)
  <2>1. PICK x \in Streams : x = l
    BY <1>4
  <2>2. receipt' = receipt \/ FailsReceipt(x)
    BY <1>4, <2>1 DEF RetractElectionDoes
  <2>. QED BY <2>2, FailsReceiptKeeps
<1>5. ASSUME NEW l \in Streams, DeliverOpeningDoes(l) PROVE \A m \in Streams : receipt'[m].completion = "drained" => receipt[m].completion = "drained" \/ WriterFlushDoes(m)
  <2>1. PICK x \in Streams : x = l
    BY <1>5
  <2>2. receipt' = receipt \/ FailsReceipt(x)
    BY <1>5, <2>1 DEF DeliverOpeningDoes, Sends, Drops, Panics, Refuses
  <2>. QED BY <2>2, FailsReceiptKeeps
<1>6. ASSUME NEW l \in Streams, AbandonDoes(l) PROVE \A m \in Streams : receipt'[m].completion = "drained" => receipt[m].completion = "drained" \/ WriterFlushDoes(m)
  <2>1. PICK x \in Streams : x = l
    BY <1>6
  <2>2. receipt' = receipt \/ FailsReceipt(x)
    BY <1>6, <2>1 DEF AbandonDoes
  <2>. QED BY <2>2, FailsReceiptKeeps
<1>7. ASSUME NEW l \in Streams, ListenReturnDoes(l) PROVE \A m \in Streams : receipt'[m].completion = "drained" => receipt[m].completion = "drained" \/ WriterFlushDoes(m)
  <2>1. PICK x \in Streams : x = l
    BY <1>7
  <2>2. receipt' = receipt \/ FailsReceipt(x)
    BY <1>7, <2>1 DEF ListenReturnDoes
  <2>. QED BY <2>2, FailsReceiptKeeps
<1>8. ASSUME NEW l \in Streams, RespondHttpDoes(l) PROVE \A m \in Streams : receipt'[m].completion = "drained" => receipt[m].completion = "drained" \/ WriterFlushDoes(m)
  <2>1. \A d \in Receipts : CompletionEnqueued(d).completion = "drained" => d.completion = "drained"
    BY DEF CompletionEnqueued, Receipts, Marks
  <2>2. receipt' = receipt \/ FailsReceipt(l) \/ Marked(l, CompletionEnqueued(receipt[l]))
    BY <1>8 DEF RespondHttpDoes
  <2>3. CASE Marked(l, CompletionEnqueued(receipt[l]))
    BY <2>3, <2>1, MoreShape DEF Marked, Sets
  <2>. QED BY <2>2, <2>3, FailsReceiptKeeps
<1>9. ASSUME NEW l \in Streams, CommitResponseDoes(l) PROVE \A m \in Streams : receipt'[m].completion = "drained" => receipt[m].completion = "drained" \/ WriterFlushDoes(m)
  <2>1. PICK x \in Streams : x = l
    BY <1>9
  <2>2. receipt' = receipt \/ FailsReceipt(x)
    BY <1>9, <2>1 DEF CommitResponseDoes
  <2>. QED BY <2>2, FailsReceiptKeeps
<1>10. ASSUME NEW a \in Actors, SendControlDoes(a) PROVE \A m \in Streams : receipt'[m].completion = "drained" => receipt[m].completion = "drained" \/ WriterFlushDoes(m)
  <2>1. PICK x \in Streams : x = job[a].on
    BY <1>10 DEF SendControlDoes
  <2>2. receipt' = receipt \/ FailsReceipt(x) \/ Marked(x, ControlNotRequired(receipt[x]))
    BY <1>10, <2>1 DEF SendControlDoes, Sends, Drops, Panics, Refuses
  <2>3. CASE Marked(x, ControlNotRequired(receipt[x]))
    <3>1. receipt'[x].completion = receipt[x].completion
      BY <2>3, MoreShape, Receipting DEF Marked, Sets
    <3>. QED BY <2>3, <3>1 DEF Marked, Sets
  <2>. QED BY <2>2, FailsReceiptKeeps, <2>3
<1>11. ASSUME NEW a \in Actors, DecideDoes(a) PROVE \A m \in Streams : receipt'[m].completion = "drained" => receipt[m].completion = "drained" \/ WriterFlushDoes(m)
  <2>1. PICK x \in Streams : x = job[a].on
    BY <1>11 DEF DecideDoes
  <2>2. receipt' = receipt \/ FailsReceipt(x)
    BY <1>11, <2>1 DEF DecideDoes
  <2>. QED BY <2>2, FailsReceiptKeeps
<1>12. ASSUME NEW p \in Publishers, NEW l \in Streams, QueueDoes(p, l) PROVE \A m \in Streams : receipt'[m].completion = "drained" => receipt[m].completion = "drained" \/ WriterFlushDoes(m)
  <2>1. PICK x \in Streams : x = l
    BY <1>12
  <2>2. receipt' = receipt \/ FailsReceipt(x)
    BY <1>12, <2>1 DEF QueueDoes
  <2>. QED BY <2>2, FailsReceiptKeeps
<1>13. ASSUME NEW p \in Publishers, DeliverEventDoes(p) PROVE \A m \in Streams : receipt'[m].completion = "drained" => receipt[m].completion = "drained" \/ WriterFlushDoes(m)
  <2>1. PICK x \in Streams : x = job[p].on
    BY <1>13 DEF DeliverEventDoes
  <2>2. receipt' = receipt \/ FailsReceipt(x)
    BY <1>13, <2>1 DEF DeliverEventDoes, Sends, Drops, Panics, Refuses
  <2>. QED BY <2>2, FailsReceiptKeeps
<1>14. ASSUME NEW p \in Publishers, DeliveredEventDoes(p) PROVE \A m \in Streams : receipt'[m].completion = "drained" => receipt[m].completion = "drained" \/ WriterFlushDoes(m)
  <2>1. PICK x \in Streams : x = job[p].on
    BY <1>14 DEF DeliveredEventDoes
  <2>2. receipt' = receipt \/ FailsReceipt(x)
    BY <1>14, <2>1 DEF DeliveredEventDoes
  <2>. QED BY <2>2, FailsReceiptKeeps
<1>15. ASSUME NEW l \in Streams, TerminateEntryDoes(l) PROVE \A m \in Streams : receipt'[m].completion = "drained" => receipt[m].completion = "drained" \/ WriterFlushDoes(m)
  <2>1. PICK x \in Streams : x = l
    BY <1>15
  <2>2. receipt' = receipt \/ FailsReceipt(x)
    BY <1>15, <2>1 DEF TerminateEntryDoes
  <2>. QED BY <2>2, FailsReceiptKeeps
<1>16. ASSUME DrainReceiptsDoes PROVE \A m \in Streams : receipt'[m].completion = "drained" => receipt[m].completion = "drained" \/ WriterFlushDoes(m)
  BY <1>16, MoreShape, Receipting DEF DrainReceiptsDoes
<1>17. ASSUME NEW l \in Streams, WriterIdleDoes(l) PROVE \A m \in Streams : receipt'[m].completion = "drained" => receipt[m].completion = "drained" \/ WriterFlushDoes(m)
  <2>1. PICK x \in Streams : x = l
    BY <1>17
  <2>2. receipt' = receipt \/ FailsReceipt(x)
    BY <1>17, <2>1 DEF WriterIdleDoes
  <2>. QED BY <2>2, FailsReceiptKeeps
<1>18. ASSUME NEW l \in Streams, WriterFlushDoes(l) PROVE \A m \in Streams : receipt'[m].completion = "drained" => receipt[m].completion = "drained" \/ WriterFlushDoes(m)
  <2>1. \A m \in Streams : m # l => receipt'[m] = receipt[m]
    BY <1>18 DEF WriterFlushDoes, Marked, Sets
  <2>. QED BY <1>18, <2>1
<1>19. ASSUME NEW l \in Streams, WriterTrailerDoes(l) PROVE \A m \in Streams : receipt'[m].completion = "drained" => receipt[m].completion = "drained" \/ WriterFlushDoes(m)
  <2>1. PICK x \in Streams : x = l
    BY <1>19
  <2>2. receipt' = receipt \/ FailsReceipt(x)
    BY <1>19, <2>1 DEF WriterTrailerDoes
  <2>. QED BY <2>2, FailsReceiptKeeps
<1>20. ASSUME NEW l \in Streams, WriterFailsDoes(l) PROVE \A m \in Streams : receipt'[m].completion = "drained" => receipt[m].completion = "drained" \/ WriterFlushDoes(m)
  <2>1. PICK x \in Streams : x = l
    BY <1>20
  <2>2. receipt' = receipt \/ FailsReceipt(x)
    BY <1>20, <2>1 DEF WriterFailsDoes
  <2>. QED BY <2>2, FailsReceiptKeeps
<1>. QED BY <1>1, <1>2, <1>3, <1>4, <1>5, <1>6, <1>7, <1>8, <1>9, <1>10, <1>11, <1>12,
         <1>13, <1>14, <1>15, <1>16, <1>17, <1>18, <1>19, <1>20, Writers

\* When it does, the completion is on the socket: the frame it wrote is a
\* response, and a completed request carries no error.
LEMMA DrainedStays ==
  ASSUME Shape, Receipted, Flushing, DrainedIsFlushed, [Next]_vars
  PROVE  DrainedIsFlushed'
<1>. SUFFICES ASSUME NEW m \in Streams, receipt'[m].completion = "drained"
              PROVE  \E i \in 1..body'[m].flushed : body'[m].frames[i].kind = "complete"
  BY DEF DrainedIsFlushed
<1>1. /\ body[m].frames \in Seq(Frames) /\ body[m].flushed \in Nat /\ body[m].popped \in Nat
      /\ body[m].flushed <= body[m].popped /\ body[m].popped <= Len(body[m].frames)
  BY MoreShape DEF Bodies, Flushing
<1>2. body'[m].flushed \in Nat /\ body'[m].flushed >= body[m].flushed
  BY Writers, FlushedGrows DEF Typed, Bodies
<1>3. \A i \in 1..body[m].popped : body'[m].frames[i] = body[m].frames[i]
  <2>1. CASE FramesStay
    BY <2>1 DEF FramesStay
  <2>2. ASSUME NEW x \in Streams, NEW f \in Frames, Appends(x, f)
        PROVE  \A i \in 1..body[m].popped : body'[m].frames[i] = body[m].frames[i]
    BY <1>1, <2>2, SMTT(40) DEF Appends
  <2>. QED BY <2>1, <2>2, FramesGrow
<1>4. CASE receipt[m].completion = "drained"
  <2>1. PICK i \in 1..body[m].flushed : body[m].frames[i].kind = "complete"
    BY <1>4 DEF DrainedIsFlushed
  <2>2. i \in 1..body[m].popped /\ i \in 1..body'[m].flushed
    BY <1>1, <1>2
  <2>. QED BY <1>3, <2>1, <2>2
<1>5. CASE receipt[m].completion # "drained"
  <2>1. WriterFlushDoes(m)
    BY <1>5, DrainedByFlush
  <2>2. /\ writer[m] = "write" /\ body'[m].flushed = body[m].popped
        /\ receipt'[m] = IF IsResponse(body[m].frames[body[m].popped])
                         THEN CompletionDrained(receipt[m]) ELSE receipt[m]
    BY <2>1 DEF WriterFlushDoes, Holds, Marked, Sets
  <2>3. IsResponse(body[m].frames[body[m].popped]) /\ receipt[m].completion \in {"enqueued", "drained"}
    BY <1>5, <2>2, MoreShape, Receipting
  <2>4. outcome[m] = "complete" /\ body[m].popped > 0
    BY <2>2, <2>3 DEF Receipted, Flushing
  <2>5. body[m].popped \in 1..body[m].popped /\ body[m].popped \in DOMAIN body[m].frames
    BY <1>1, <2>4
  <2>6. body[m].frames[body[m].popped].kind # "error"
    BY <2>4, <2>5 DEF Flushing, Has, Shows
  <2>. QED BY <1>3, <2>2, <2>3, <2>5, <2>6 DEF IsResponse
<1>. QED BY <1>4, <1>5

\* The invariant of the end is inductive.
LEMMA EndInvStarts == Init => EndInv
<1>. SUFFICES ASSUME Init PROVE EndInv
  OBVIOUS
<1>1. EInv
  BY EInvStarts
<1>2. ActorAssumption /\ Kind \in [Streams -> {"stdio", "http", "local"}]
  BY ActorAssumption, ScenarioAssumption DEF Init, Kind
<1>3. \A l \in Streams : /\ pc[l] = "idle" /\ l \in Actors /\ outcome[l] = "none" /\ ~graceful[l]
                         /\ job[l].on = l
                         /\ word[l] = "active" /\ live[l] /\ phase[l].at = "Opening"
                         /\ gate[l] = "awaiting" /\ receipt[l] = NewReceipt /\ body[l] = NewBody
                         /\ writer[l] = IF Kind[l] = "http" THEN "await" ELSE "off"
  BY <1>2, ActorAssumption DEF Init, Actors, Phase
<1>4. \A l \in Streams : /\ body[l].frames = <<>> /\ ~body[l].failed /\ ~body[l].closed
                         /\ body[l].popped = 0 /\ body[l].flushed = 0
                         /\ receipt[l].control = "open" /\ receipt[l].completion = "open"
  BY <1>3 DEF NewBody, NewReceipt
<1>5. \A a \in Actors : pc[a] \in {"next", "idle"}
  BY DEF Init
<1>6. \A l \in Streams, K \in SUBSET Kinds : ~Has(l, K)
  BY <1>4 DEF Has, Shows
<1>7. Returned /\ Signals
  BY <1>3, <1>5 DEF Returned, Signals, Ending, IsCancelled
<1>8. Broken
  BY <1>3, <1>4, <1>6 DEF Broken, Receipted, Torn, Dismissed, Responded, Kinds, Responses
<1>9. Leaves
  BY <1>3, <1>5 DEF Leaves, Leaving
<1>10. Flushing
  BY <1>3, <1>4 DEF Flushing
<1>11. DrainedIsFlushed
  BY <1>4 DEF DrainedIsFlushed
<1>. QED BY <1>1, <1>7, <1>8, <1>9, <1>10, <1>11 DEF EndInv

LEMMA EndInvStays ==
  ASSUME EndInv, [Next]_vars
  PROVE  EndInv'
<1>1. /\ EInv /\ Shape /\ Returned /\ Signals /\ Leaves /\ Broken /\ Flushing /\ DrainedIsFlushed
      /\ Receipted /\ Responded
  BY DEF EndInv, EInv, Broken
<1>2. EInv'
  BY <1>1, EInvStays
<1>3. Receipted' /\ Torn' /\ Dismissed' /\ Responded'
  BY <1>1, ReceiptedStays, TornStays, DismissedStays, RespondedStays
<1>4. Returned' /\ Signals' /\ Leaves'
  BY <1>1, ReturnedStays, SignalsStays, LeavesStays
<1>5. Flushing' /\ DrainedIsFlushed'
  BY <1>1, FlushingStays, DrainedStays
<1>. QED BY <1>2, <1>3, <1>4, <1>5 DEF EndInv, Broken

\* A listen request ends with an error only if its stream was broken, and a
\* receipt is settled as drained only when the completion is on the socket.
THEOREM StreamEndHolds == Spec => []EndIsDelivered
<1>1. EndInv => EndIsDelivered
  BY DEF EndInv, EndIsDelivered, GracefulCloseIsAnswered, Returned
<1>. QED BY <1>1, EndInvStarts, EndInvStays, PTL DEF Spec

-----------------------------------------------------------------------------
(* The contract. *)

\* A cancellation, a dead context, a refusal and a failed control are never
\* undone.
LEMMA CancelLasts ==
  ASSUME Shape, NEW m \in Streams, IsCancelled(m), [Next]_vars
  PROVE  IsCancelled(m)'
<1>1. ASSUME UNCHANGED <<scenario, word>> PROVE IsCancelled(m)'
  BY <1>1 DEF IsCancelled
<1>2. ASSUME NEW l \in Streams, AcknowledgeDoes(l) \/ RetractElectionDoes(l)
                                \/ DeliverOpeningDoes(l) \/ AbandonDoes(l)
                                \/ RespondStdioDoes(l) \/ RespondHttpDoes(l)
                                \/ CommitResponseDoes(l) \/ WriterPopDoes(l)
                                \/ WriterTrailerDoes(l) \/ CancelModernHttpOwnerDoes(l)
                                \/ WriterAbortsDoes(l) \/ PeerCancelsDoes(l)
      PROVE  IsCancelled(m)'
  <2>1. word' = word \/ \E x \in Streams : Cancels(x) \/ Finalizes(x)
    BY <1>2 DEF AcknowledgeDoes, RetractElectionDoes, DeliverOpeningDoes, AbandonDoes,
       RespondStdioDoes, RespondHttpDoes, CommitResponseDoes, WriterPopDoes,
       WriterTrailerDoes, CancelModernHttpOwnerDoes, WriterAbortsDoes, PeerCancelsDoes,
       Sends, Drops, Panics, Refuses
  <2>. QED BY <2>1 DEF IsCancelled, Cancels, Finalizes, CancelledWord, Sets
<1>3. ASSUME NEW a \in Actors, SendControlDoes(a) \/ DecideDoes(a) \/ WakeDoes(a)
      PROVE  IsCancelled(m)'
  <2>1. word' = word \/ \E x \in Streams : Cancels(x) \/ Finalizes(x)
    BY <1>3 DEF SendControlDoes, DecideDoes, WakeDoes, Sends, Drops, Panics, Refuses
  <2>. QED BY <2>1 DEF IsCancelled, Cancels, Finalizes, CancelledWord, Sets
<1>4. ASSUME NEW p \in Publishers, NEW l \in Streams, QueueDoes(p, l) PROVE IsCancelled(m)'
  <2>1. word' = word \/ \E x \in Streams : Cancels(x) \/ Finalizes(x)
    BY <1>4 DEF QueueDoes
  <2>. QED BY <2>1 DEF IsCancelled, Cancels, Finalizes, CancelledWord, Sets
<1>5. ASSUME NEW p \in Publishers, DeliverEventDoes(p) \/ DeliveredEventDoes(p)
      PROVE  IsCancelled(m)'
  <2>1. word' = word \/ \E x \in Streams : Cancels(x) \/ Finalizes(x)
    BY <1>5 DEF DeliverEventDoes, DeliveredEventDoes, Sends, Drops, Panics, Refuses
  <2>. QED BY <2>1 DEF IsCancelled, Cancels, Finalizes, CancelledWord, Sets
<1>. QED BY <1>1, <1>2, <1>3, <1>4, <1>5, Writers

LEMMA DeadLasts ==
  ASSUME Shape, NEW m \in Streams, ~live[m], [Next]_vars
  PROVE  ~live'[m]
<1>1. ASSUME UNCHANGED <<scenario, live>> PROVE ~live'[m]
  BY <1>1
<1>. USE DEF Sets
<1>2. ASSUME NEW l \in Streams, WriterAbortsDoes(l) \/ ContextDiesDoes(l)
      PROVE  ~live'[m]
  BY <1>2 DEF WriterAbortsDoes, Dies, ContextDiesDoes
<1>. QED BY <1>1, <1>2, Writers

LEMMA MarksLast ==
  ASSUME Shape, NEW m \in Streams, [Next]_vars
  PROVE  /\ body[m].failed => body'[m].failed
         /\ body[m].committed => body'[m].committed
<1>. DEFINE Remain == (body[m].failed => body'[m].failed) /\ (body[m].committed => body'[m].committed)
<1>1. ASSUME UNCHANGED <<scenario, body>> PROVE Remain
  BY <1>1
<1>2. ASSUME NEW l \in Streams, CommitResponseDoes(l) PROVE Remain
  <2>1. /\ \A k \in Streams : k # l => body'[k] = body[k]
        /\ body' = body \/ (body'[l].failed = body[l].failed /\ body'[l].committed)
    BY <1>2 DEF CommitResponseDoes, Holds
  <2>. QED BY <2>1
<1>3. ASSUME NEW l \in Streams, AcknowledgeDoes(l) \/ DeliverOpeningDoes(l)
                                \/ RespondStdioDoes(l) \/ WriterPopDoes(l)
                                \/ WriterFlushDoes(l) \/ WriterTrailerDoes(l)
                                \/ WriterAbortsDoes(l)
      PROVE  Remain
  BY <1>3 DEF AcknowledgeDoes, DeliverOpeningDoes, RespondStdioDoes, WriterPopDoes,
     WriterFlushDoes, WriterTrailerDoes, WriterAbortsDoes, Sends, Drops, Panics, Refuses,
     Holds
<1>4. ASSUME NEW a \in Actors, SendControlDoes(a) PROVE Remain
  BY <1>4 DEF SendControlDoes, Sends, Drops, Panics, Refuses, Holds
<1>5. ASSUME NEW p \in Publishers, DeliverEventDoes(p) PROVE Remain
  BY <1>5 DEF DeliverEventDoes, Sends, Drops, Panics, Refuses, Holds
<1>. QED BY <1>1, <1>2, <1>3, <1>4, <1>5, Writers

\* A refusal on an http body cancels its request and fails its receipt.
LEMMA FailedStays ==
  ASSUME NEW d \in Receipts, d.control = "failed" PROVE Failed(d).control = "failed"
BY DEF Failed, FailMark

LEMMA FailedControl ==
  ASSUME Shape, NEW x \in Streams, FailsReceipt(x), NEW m \in Streams, receipt[m].control = "failed"
  PROVE  receipt'[m].control = "failed"
BY MoreShape, FailedStays DEF FailsReceipt, Marked, Sets

LEMMA ControlLasts ==
  ASSUME Shape, NEW m \in Streams, receipt[m].control = "failed", [Next]_vars
  PROVE  receipt'[m].control = "failed"
<1>1. ASSUME UNCHANGED <<scenario, receipt>> PROVE receipt'[m].control = "failed"
  BY <1>1
<1>2. ASSUME NEW l \in Streams, AdmitStreamDoes(l) PROVE receipt'[m].control = "failed"
  BY <1>2, MoreShape, Receipting DEF AdmitStreamDoes, Marked, Sets
<1>3. ASSUME NEW l \in Streams, RespondHttpDoes(l) PROVE receipt'[m].control = "failed"
  <2>1. receipt' = receipt \/ FailsReceipt(l) \/ Marked(l, CompletionEnqueued(receipt[l]))
    BY <1>3 DEF RespondHttpDoes
  <2>2. CASE Marked(l, CompletionEnqueued(receipt[l]))
    BY <2>2, MoreShape, Receipting DEF Marked, Sets
  <2>. QED BY <2>1, <2>2, FailedControl
<1>4. ASSUME NEW a \in Actors, SendControlDoes(a) PROVE receipt'[m].control = "failed"
  <2>1. PICK x \in Streams : receipt' = receipt \/ FailsReceipt(x) \/ Marked(x, ControlNotRequired(receipt[x]))
    BY <1>4 DEF SendControlDoes, Sends, Drops, Panics, Refuses
  <2>2. CASE Marked(x, ControlNotRequired(receipt[x]))
    BY <2>2, MoreShape, Receipting DEF Marked, Sets
  <2>. QED BY <2>1, <2>2, FailedControl
<1>5. ASSUME DrainReceiptsDoes PROVE receipt'[m].control = "failed"
  BY <1>5, MoreShape, FailedStays DEF DrainReceiptsDoes
<1>6. ASSUME NEW l \in Streams, WriterFlushDoes(l) PROVE receipt'[m].control = "failed"
  <2>1. receipt'[l] = receipt[l] \/ receipt'[l] = CompletionDrained(receipt[l])
    BY <1>6 DEF WriterFlushDoes, Marked, Sets
  <2>2. receipt'[l].control = receipt[l].control
    BY <2>1, MoreShape, Receipting
  <2>. QED BY <1>6, <2>2 DEF WriterFlushDoes, Marked, Sets
<1>7. ASSUME NEW l \in Streams, AcknowledgeDoes(l) \/ RetractElectionDoes(l)
                                \/ DeliverOpeningDoes(l) \/ AbandonDoes(l)
                                \/ ListenReturnDoes(l) \/ CommitResponseDoes(l)
                                \/ TerminateEntryDoes(l) \/ WriterIdleDoes(l)
                                \/ WriterTrailerDoes(l) \/ WriterFailsDoes(l)
      PROVE  receipt'[m].control = "failed"
  <2>1. receipt' = receipt \/ \E x \in Streams : FailsReceipt(x)
    BY <1>7 DEF AcknowledgeDoes, RetractElectionDoes, DeliverOpeningDoes, AbandonDoes,
       ListenReturnDoes, CommitResponseDoes, TerminateEntryDoes, WriterIdleDoes,
       WriterTrailerDoes, WriterFailsDoes, Sends, Drops, Panics, Refuses
  <2>. QED BY <2>1, FailedControl
<1>8. ASSUME NEW a \in Actors, DecideDoes(a) PROVE receipt'[m].control = "failed"
  <2>1. receipt' = receipt \/ \E x \in Streams : FailsReceipt(x)
    BY <1>8 DEF DecideDoes
  <2>. QED BY <2>1, FailedControl
<1>9. ASSUME NEW p \in Publishers, NEW l \in Streams, QueueDoes(p, l) PROVE receipt'[m].control = "failed"
  <2>1. receipt' = receipt \/ \E x \in Streams : FailsReceipt(x)
    BY <1>9 DEF QueueDoes
  <2>. QED BY <2>1, FailedControl
<1>10. ASSUME NEW p \in Publishers, DeliverEventDoes(p) \/ DeliveredEventDoes(p)
      PROVE  receipt'[m].control = "failed"
  <2>1. receipt' = receipt \/ \E x \in Streams : FailsReceipt(x)
    BY <1>10 DEF DeliverEventDoes, DeliveredEventDoes, Sends, Drops, Panics, Refuses
  <2>. QED BY <2>1, FailedControl
<1>. QED BY <1>1, <1>2, <1>3, <1>4, <1>5, <1>6, <1>7, <1>8, <1>9, <1>10, Writers

\* What was sent stays sent.
LEMMA HasLasts ==
  ASSUME Shape, [Next]_vars, NEW m \in Streams, NEW K, Has(m, K)
  PROVE  Has(m, K)'
BY FramesGrow, StayHas, AppendsHas

LEMMA AckedLasts ==
  ASSUME Shape, [Next]_vars, NEW m \in Streams, Acked(m)
  PROVE  Acked(m)'
<1>1. Kind'[m] = Kind[m]
  BY Writers DEF Kind
<1>2. (Has(m, {"ack"}) => Has(m, {"ack"})') /\ (IsCancelled(m) => IsCancelled(m)')
  BY HasLasts, CancelLasts
<1>3. (body[m].failed => body'[m].failed) /\ (receipt[m].control = "failed" => receipt'[m].control = "failed")
  BY MarksLast, ControlLasts
<1>. QED BY <1>1, <1>2, <1>3 DEF Acked

\* A stream that ended stays ended, and one at rest stays at rest.
LEMMA EndedLasts ==
  ASSUME EInv, NEW m \in Streams,
         phase[m].at \in {"ServerTerminated", "PeerTerminated"}, [Next]_vars
  PROVE  phase'[m].at \in {"ServerTerminated", "PeerTerminated"}
<1>e. Shape /\ Fresh /\ Stages /\ Counted /\ Callbacks /\ Completion
  BY DEF EInv
<1>1. ASSUME UNCHANGED <<scenario, phase>> PROVE phase'[m].at \in {"ServerTerminated", "PeerTerminated"}
  BY <1>1
<1>. USE <1>e, ShapeIs DEF Sets
<1>2. ASSUME NEW l \in Streams, ReserveDoes(l) \/ RetractElectionDoes(l) \/ DrainDoes(l)
                                \/ DeliveredOpeningDoes(l) \/ DropElectionDoes(l)
                                \/ TerminateEntryDoes(l)
      PROVE  phase'[m].at \in {"ServerTerminated", "PeerTerminated"}
  BY <1>2 DEF ReserveDoes, Elects, Fresh, Early, RetractElectionDoes, AtPhase, DrainDoes,
     IsCancelled, DeliveredOpeningDoes, DropElectionDoes, Open4, TerminateEntryDoes
<1>3. ASSUME NEW a \in Actors, UnelectDoes(a) PROVE phase'[m].at \in {"ServerTerminated", "PeerTerminated"}
  BY <1>3 DEF UnelectDoes, Elects
<1>4. ASSUME NEW p \in Publishers, NEW l \in Streams, QueueDoes(p, l) \/ OfferDoes(p, l)
      PROVE  phase'[m].at \in {"ServerTerminated", "PeerTerminated"}
  BY <1>4 DEF QueueDoes, Elects, AtPhase, IsCancelled, OfferDoes
<1>5. ASSUME NEW p \in Publishers, DeliveredEventDoes(p) PROVE phase'[m].at \in {"ServerTerminated", "PeerTerminated"}
  BY <1>5 DEF DeliveredEventDoes, Elects, AtPhase, IsCancelled
<1>6. ASSUME NEW l \in Streams, CancelModernHttpOwnerDoes(l) PROVE phase'[m].at \in {"ServerTerminated", "PeerTerminated"}
  BY <1>6 DEF CancelModernHttpOwnerDoes, Elects, AtPhase, Open4
<1>. QED BY <1>1, <1>2, <1>3, <1>4, <1>5, <1>6, <1>e, Writers

LEMMA RestingLasts ==
  ASSUME EInv, NEW m \in Streams, Resting(m),
         phase[m].at \in {"ServerTerminated", "PeerTerminated"} \/ pc[m] \in Leaving,
         [Next]_vars
  PROVE  Resting(m)'
<1>e. Shape /\ Fresh /\ Stages /\ Counted /\ Callbacks /\ Completion
  BY DEF EInv
<1>1. ASSUME UNCHANGED <<scenario, phase, pc, job>> PROVE Resting(m)'
  BY <1>1 DEF Resting, Actors, InSender
<1>2. ASSUME NEW l \in Streams, DrainDoes(l) PROVE Resting(m)'
  <2>1. /\ l \in Actors /\ job[l].on = l /\ job'[l].on = l
        /\ \A b \in Actors : b # l => pc'[b] = pc[b] /\ job'[b] = job[b]
        /\ \A k \in Streams : k # l => phase'[k] = phase[k]
    BY <1>2, <1>e, ShapeIs DEF DrainDoes, Moves, Elects, Works, Sets, Actors, Aimed
  <2>2. CASE l # m
    BY <2>1, <2>2, ActorAssumption DEF Resting, Actors
  <2>3. CASE l = m
    <3>1. phase[m].at = "PeerTerminated"
      BY <1>2, <2>3, <1>e DEF DrainDoes, Leaving, Stages, Placing
    <3>2. phase'[m].at = "PeerTerminated" /\ pc'[m] = "abandon"
      BY <1>2, <2>3, <3>1 DEF DrainDoes, Moves, Elects, Sets
    <3>. QED BY <2>1, <2>3, <3>2, ActorAssumption DEF Resting, Actors, InSender
  <2>. QED BY <2>2, <2>3
<1>3. ASSUME NEW l \in Streams, DeliveredOpeningDoes(l) PROVE Resting(m)'
  <2>1. /\ l \in Actors /\ job[l].on = l /\ job'[l].on = l
        /\ \A b \in Actors : b # l => pc'[b] = pc[b] /\ job'[b] = job[b]
        /\ \A k \in Streams : k # l => phase'[k] = phase[k]
    BY <1>3, <1>e, ShapeIs DEF DeliveredOpeningDoes, Moves, Elects, Works, Sets, Actors, Aimed
  <2>2. CASE l # m
    BY <2>1, <2>2, ActorAssumption DEF Resting, Actors
  <2>3. CASE l = m
    <3>1. phase[m].at = "PeerTerminated"
      BY <1>3, <2>3, <1>e DEF DeliveredOpeningDoes, Leaving, Stages, InSender
    <3>2. phase'[m].at = "PeerTerminated" /\ pc'[m] = "abandon"
      BY <1>3, <2>3, <3>1 DEF DeliveredOpeningDoes, Moves, Elects, Sets
    <3>. QED BY <2>1, <2>3, <3>2, ActorAssumption DEF Resting, Actors, InSender
  <2>. QED BY <2>2, <2>3
<1>. USE <1>e, ShapeIs, ActorAssumption DEF Resting, Actors, InSender, Moves, Sets
<1>4. ASSUME NEW l \in Streams, ListenDoes(l) \/ CheckOpenDoes(l) \/ ReserveDoes(l)
                                \/ AcknowledgeDoes(l) \/ AdmitStreamDoes(l)
                                \/ RetractEntryDoes(l)
      PROVE  Resting(m)'
  BY <1>4 DEF ListenDoes, Leaving, CheckOpenDoes, IsCancelled, ReserveDoes, Elects,
     AcknowledgeDoes, AdmitStreamDoes, RetractEntryDoes
<1>5. ASSUME NEW l \in Streams, RetractElectionDoes(l) \/ DeliverOpeningDoes(l)
                                \/ AbandonDoes(l) \/ DropHandleDoes(l) \/ ListenStartDoes(l)
                                \/ ListenPollDoes(l)
      PROVE  Resting(m)'
  BY <1>5 DEF RetractElectionDoes, Elects, AtPhase, DeliverOpeningDoes, Works, AbandonDoes,
     DropHandleDoes, ListenStartDoes, ListenPollDoes, IsCancelled
<1>6. ASSUME NEW l \in Streams, ListenParkedDoes(l) \/ ListenHoldDoes(l)
                                \/ ListenSettleDoes(l) \/ ListenReturnDoes(l)
                                \/ DropLeaseDoes(l) \/ DropElectionDoes(l)
      PROVE  Resting(m)'
  BY <1>6 DEF ListenParkedDoes, IsCancelled, ListenHoldDoes, ListenSettleDoes,
     ListenReturnDoes, DropLeaseDoes, DropElectionDoes, Elects, AtPhase, Open4
<1>7. ASSUME NEW l \in Streams, RespondStdioDoes(l) \/ ReturnLocalDoes(l)
                                \/ RespondHttpDoes(l)
      PROVE  Resting(m)'
  BY <1>7 DEF RespondStdioDoes, ReturnLocalDoes, RespondHttpDoes, Works, IsCancelled
<1>8. ASSUME NEW l \in Streams, CommitResponseDoes(l) PROVE Resting(m)'
  BY <1>8 DEF CommitResponseDoes, Works
<1>9. ASSUME NEW l \in Streams, ElectOutcomeDoes(l) PROVE Resting(m)'
  BY <1>9 DEF ElectOutcomeDoes
<1>10. ASSUME NEW a \in Actors, SendControlDoes(a) \/ DecideDoes(a) \/ UnelectDoes(a)
                                \/ MarkGracefulDoes(a) \/ WakeDoes(a)
      PROVE  Resting(m)'
  BY <1>10 DEF SendControlDoes, Works, DecideDoes, IsCancelled, UnelectDoes, Elects,
     MarkGracefulDoes, WakeDoes
<1>11. ASSUME NEW p \in Publishers, PublishDoes(p) \/ DeliverEventDoes(p)
                                    \/ DeliveredEventDoes(p)
      PROVE  Resting(m)'
  BY <1>11 DEF PublishDoes, Works, Frame, DeliverEventDoes, DeliveredEventDoes, Elects,
     AtPhase, IsCancelled
<1>12. ASSUME NEW p \in Publishers, NEW l \in Streams, QueueDoes(p, l) \/ OfferDoes(p, l)
      PROVE  Resting(m)'
  BY <1>12 DEF QueueDoes, Elects, AtPhase, IsCancelled, OfferDoes, Works
<1>13. ASSUME TerminateDoes \/ TakeEntriesDoes \/ DrainReceiptsDoes
      PROVE  Resting(m)'
  BY <1>13 DEF TerminateDoes, TakeEntriesDoes, DrainReceiptsDoes
<1>14. ASSUME NEW l \in Streams, TerminateEntryDoes(l) PROVE Resting(m)'
  BY <1>14 DEF TerminateEntryDoes, Elects, Works, AtPhase, Open4, IsCancelled
<1>15. ASSUME NEW l \in Streams, CancelModernHttpOwnerDoes(l) PROVE Resting(m)'
  BY <1>15 DEF CancelModernHttpOwnerDoes, Elects, AtPhase, Open4
<1>. QED BY <1>1, <1>2, <1>3, <1>4, <1>5, <1>6, <1>7, <1>8, <1>9, <1>10, <1>11, <1>12,
         <1>13, <1>14, <1>15, <1>e, Writers

\* A control that was not sent fails with the receipt.
LEMMA Failing ==
  ASSUME NEW d \in Receipts, d.control \in {"open", "failed"} PROVE Failed(d).control = "failed"
BY DEF Failed, FailMark

\* A receipt that fails leaves its control unsent.
LEMMA StillOpen ==
  ASSUME Shape, NEW x \in Streams, FailsReceipt(x), NEW m \in Streams,
         receipt[m].control \in {"open", "failed"}
  PROVE  receipt'[m].control \in {"open", "failed"}
BY MoreShape, Failing DEF FailsReceipt, Marked, Sets

\* Every step keeps each part of the invariant of the contract.
LEMMA PristineStays ==
  ASSUME EInv, Pristine, [Next]_vars
  PROVE  Pristine'
<1>e. Shape /\ Fresh /\ Stages /\ Counted /\ Callbacks /\ Completion
  BY DEF EInv
<1>1. ASSUME UNCHANGED <<scenario, pc, body, receipt>> PROVE Pristine'
  BY <1>1 DEF Pristine, Early, Actors
<1>2. ASSUME NEW l \in Streams, AdmitStreamDoes(l) PROVE Pristine'
  <2>1. \A m \in Streams : m # l => receipt'[m] = receipt[m] /\ pc'[m] = pc[m]
    BY <1>2 DEF AdmitStreamDoes, Marked, Moves, Sets, Actors
  <2>. QED BY <1>2, <2>1 DEF AdmitStreamDoes, Pristine, Early, Moves, Sets, Actors
<1>3. ASSUME NEW l \in Streams, RespondHttpDoes(l) PROVE Pristine'
  <2>1. \A m \in Streams : m # l => receipt'[m] = receipt[m] /\ pc'[m] = pc[m]
    BY <1>3 DEF RespondHttpDoes, FailsReceipt, Marked, Moves, Sets, Actors
  <2>. QED BY <1>3, <2>1 DEF RespondHttpDoes, Pristine, Early, Moves, Sets, Actors
<1>4. ASSUME NEW a \in Actors, SendControlDoes(a) PROVE Pristine'
  <2>1. PICK x \in Streams : x = job[a].on
    BY <1>4 DEF SendControlDoes
  <2>2. pc[x] \notin Early \cup {"ack"}
    BY <1>4, <2>1, <1>e DEF SendControlDoes, Completion, Completing, Fresh, Stages, Placing, Early
  <2>3. /\ \A m \in Streams : m # x => body'[m] = body[m] /\ receipt'[m] = receipt[m]
        /\ \A m \in Streams : pc'[m] = pc[m] \/ pc'[m] = "decide"
    BY <1>4, <2>1, ActorAssumption DEF SendControlDoes, Sends, Drops, Panics, Refuses, Holds, FailsReceipt, Marked, Moves, Sets, Actors
  <2>. QED BY <2>2, <2>3 DEF Pristine, Early
<1>5. ASSUME NEW p \in Publishers, DeliverEventDoes(p) PROVE Pristine'
  <2>1. PICK x \in Streams : x = job[p].on
    BY <1>5 DEF DeliverEventDoes
  <2>2. pc[x] \notin Early \cup {"ack"}
    BY <1>5, <2>1, <1>e DEF DeliverEventDoes, Callbacks, InSender, Leased, Waits, Leaving, Early
  <2>3. /\ \A m \in Streams : m # x => body'[m] = body[m] /\ receipt'[m] = receipt[m]
        /\ \A m \in Streams : pc'[m] = pc[m] \/ pc'[m] = "decide"
    BY <1>5, <2>1, ActorAssumption DEF DeliverEventDoes, Sends, Drops, Panics, Refuses, Holds, FailsReceipt, Marked, Moves, Sets, Actors
  <2>. QED BY <2>2, <2>3 DEF Pristine, Early
<1>6. ASSUME DrainReceiptsDoes PROVE Pristine'
  <2>1. \A m \in Streams : receipt[m].control \in {"open", "failed"} => receipt'[m].control \in {"open", "failed"}
    BY <1>6, <1>e, MoreShape, Failing DEF DrainReceiptsDoes
  <2>2. \A m \in Streams : pc'[m] = pc[m]
    BY <1>6, ActorAssumption DEF DrainReceiptsDoes, Moves, Sets, Actors
  <2>. QED BY <1>6, <2>1, <2>2 DEF DrainReceiptsDoes, Pristine
<1>7. ASSUME NEW l \in Streams, WriterFlushDoes(l) PROVE Pristine'
  <2>1. receipt'[l] = receipt[l] \/ receipt'[l] = CompletionDrained(receipt[l])
    BY <1>7 DEF WriterFlushDoes, Marked, Sets
  <2>2. receipt'[l].control = receipt[l].control /\ \A m \in Streams : m # l => receipt'[m] = receipt[m]
    BY <1>7, <2>1, <1>e, MoreShape, Receipting DEF WriterFlushDoes, Marked, Sets
  <2>. QED BY <1>7, <2>2 DEF WriterFlushDoes, Pristine, Holds
<1>8. ASSUME NEW l \in Streams, AcknowledgeDoes(l) \/ DeliverOpeningDoes(l)
                                \/ CommitResponseDoes(l) \/ RespondStdioDoes(l)
      PROVE  Pristine'
  <2>1. /\ \A m \in Streams : m # l => body'[m] = body[m] /\ receipt'[m] = receipt[m] /\ pc'[m] = pc[m]
        /\ pc'[l] \notin Early \cup {"ack"}
    BY <1>8 DEF AcknowledgeDoes, DeliverOpeningDoes, CommitResponseDoes, RespondStdioDoes,
       Sends, Drops, Panics, Refuses, Holds, FailsReceipt, Marked, Moves, Sets, Actors,
       Early
  <2>. QED BY <2>1 DEF Pristine
<1>9. ASSUME NEW l \in Streams, RetractElectionDoes(l) \/ AbandonDoes(l)
                                \/ ListenReturnDoes(l) \/ TerminateEntryDoes(l)
                                \/ WriterIdleDoes(l) \/ WriterTrailerDoes(l)
                                \/ WriterFailsDoes(l)
      PROVE  Pristine'
  <2>1. receipt' = receipt \/ \E x \in Streams : FailsReceipt(x)
    BY <1>9 DEF RetractElectionDoes, AbandonDoes, ListenReturnDoes, TerminateEntryDoes,
       WriterIdleDoes, WriterTrailerDoes, WriterFailsDoes
  <2>2. \A m \in Streams : pc'[m] \in Early \cup {"ack"} => pc[m] \in Early \cup {"ack"}
    BY <1>9, ActorAssumption DEF RetractElectionDoes, AbandonDoes, ListenReturnDoes,
       TerminateEntryDoes, WriterIdleDoes, WriterTrailerDoes, WriterFailsDoes, Early, Moves,
       Sets, Actors
  <2>3. \A m \in Streams : /\ body'[m].frames = body[m].frames
                          /\ body'[m].failed = body[m].failed /\ body'[m].committed = body[m].committed
    BY <1>9 DEF RetractElectionDoes, AbandonDoes, ListenReturnDoes, TerminateEntryDoes,
       WriterIdleDoes, WriterTrailerDoes, WriterFailsDoes, Holds
  <2>. QED BY <2>1, <2>2, <2>3, <1>e, StillOpen DEF Pristine
<1>10. ASSUME NEW a \in Actors, DecideDoes(a) PROVE Pristine'
  <2>1. receipt' = receipt \/ \E x \in Streams : FailsReceipt(x)
    BY <1>10 DEF DecideDoes
  <2>2. \A m \in Streams : pc'[m] \in Early \cup {"ack"} => pc[m] \in Early \cup {"ack"}
    BY <1>10, ActorAssumption DEF DecideDoes, Early, Moves, Sets, Actors
  <2>3. \A m \in Streams : /\ body'[m].frames = body[m].frames
                          /\ body'[m].failed = body[m].failed /\ body'[m].committed = body[m].committed
    BY <1>10 DEF DecideDoes, Holds
  <2>. QED BY <2>1, <2>2, <2>3, <1>e, StillOpen DEF Pristine
<1>11. ASSUME NEW p \in Publishers, NEW l \in Streams, QueueDoes(p, l) PROVE Pristine'
  <2>1. receipt' = receipt \/ \E x \in Streams : FailsReceipt(x)
    BY <1>11 DEF QueueDoes
  <2>2. \A m \in Streams : pc'[m] \in Early \cup {"ack"} => pc[m] \in Early \cup {"ack"}
    BY <1>11, ActorAssumption DEF QueueDoes, Early, Moves, Sets, Actors
  <2>3. \A m \in Streams : /\ body'[m].frames = body[m].frames
                          /\ body'[m].failed = body[m].failed /\ body'[m].committed = body[m].committed
    BY <1>11 DEF QueueDoes, Holds
  <2>. QED BY <2>1, <2>2, <2>3, <1>e, StillOpen DEF Pristine
<1>12. ASSUME NEW p \in Publishers, DeliveredEventDoes(p) PROVE Pristine'
  <2>1. receipt' = receipt \/ \E x \in Streams : FailsReceipt(x)
    BY <1>12 DEF DeliveredEventDoes
  <2>2. \A m \in Streams : pc'[m] \in Early \cup {"ack"} => pc[m] \in Early \cup {"ack"}
    BY <1>12, ActorAssumption DEF DeliveredEventDoes, Early, Moves, Sets, Actors
  <2>3. \A m \in Streams : /\ body'[m].frames = body[m].frames
                          /\ body'[m].failed = body[m].failed /\ body'[m].committed = body[m].committed
    BY <1>12 DEF DeliveredEventDoes, Holds
  <2>. QED BY <2>1, <2>2, <2>3, <1>e, StillOpen DEF Pristine
<1>. USE <1>e, ActorAssumption DEF Pristine, Early, Actors, Moves, Sets
<1>13. ASSUME NEW l \in Streams, ListenDoes(l) \/ CheckOpenDoes(l) \/ ReserveDoes(l)
                                 \/ RetractEntryDoes(l) \/ DrainDoes(l)
                                 \/ DeliveredOpeningDoes(l)
      PROVE  Pristine'
  BY <1>13 DEF ListenDoes, CheckOpenDoes, IsCancelled, ReserveDoes, RetractEntryDoes,
     DrainDoes, DeliveredOpeningDoes
<1>14. ASSUME NEW l \in Streams, DropHandleDoes(l) \/ ListenStartDoes(l)
                                 \/ ListenPollDoes(l) \/ ListenParkedDoes(l)
                                 \/ ListenHoldDoes(l) \/ ListenSettleDoes(l)
      PROVE  Pristine'
  BY <1>14 DEF DropHandleDoes, ListenStartDoes, ListenPollDoes, IsCancelled,
     ListenParkedDoes, ListenHoldDoes, ListenSettleDoes
<1>15. ASSUME NEW l \in Streams, DropLeaseDoes(l) \/ DropElectionDoes(l)
                                 \/ ReturnLocalDoes(l) \/ ElectOutcomeDoes(l)
                                 \/ WriterPopDoes(l) \/ WriterAbortsDoes(l)
      PROVE  Pristine'
  BY <1>15 DEF DropLeaseDoes, DropElectionDoes, AtPhase, Open4, ReturnLocalDoes,
     ElectOutcomeDoes, WriterPopDoes, Holds, WriterAbortsDoes
<1>16. ASSUME NEW a \in Actors, UnelectDoes(a) \/ MarkGracefulDoes(a) \/ WakeDoes(a)
      PROVE  Pristine'
  BY <1>16 DEF UnelectDoes, MarkGracefulDoes, WakeDoes
<1>17. ASSUME NEW p \in Publishers, NEW l \in Streams, OfferDoes(p, l) PROVE Pristine'
  BY <1>17 DEF OfferDoes, AtPhase, IsCancelled
<1>18. ASSUME TerminateDoes \/ TakeEntriesDoes
      PROVE  Pristine'
  BY <1>18 DEF TerminateDoes, TakeEntriesDoes
<1>. HIDE DEF Pristine
<1>. QED BY <1>1, <1>2, <1>3, <1>4, <1>5, <1>6, <1>7, <1>8, <1>9, <1>10, <1>11, <1>12,
         <1>13, <1>14, <1>15, <1>16, <1>17, <1>18, <1>e, Writers

LEMMA AnsweredStays ==
  ASSUME Shape, Answered, [Next]_vars
  PROVE  Answered'
<1>m. \A m \in Streams : body[m].committed => body'[m].committed
  BY MarksLast
<1>1. ASSUME UNCHANGED <<scenario, body>> PROVE Answered'
  BY <1>1 DEF Answered, Has, Kind
<1>2. ASSUME NEW l \in Streams, AcknowledgeDoes(l) PROVE Answered'
  <2>1. ASSUME NEW x \in Streams, NEW f \in Frames, f.kind # "none", Appends(x, f)
        PROVE  \A m \in Streams : Has(m, {"none"})' => Has(m, {"none"})
    BY <2>1, AppendsHas
  <2>2. \A m \in Streams : Has(m, {"none"})' => Has(m, {"none"})
    BY <1>2, <2>1, AcknowledgeFrames, StayHas DEF Responses
  <2>3. \A m \in Streams : Has(m, Responses)' => Has(m, Responses)
    BY <1>2, AcknowledgeFrames, AppendsHas, StayHas DEF Responses
  <2>. QED BY <1>2, <2>2, <2>3, <1>m DEF Answered, AcknowledgeDoes, Kind
<1>3. ASSUME NEW l \in Streams, DeliverOpeningDoes(l) PROVE Answered'
  <2>1. ASSUME NEW x \in Streams, NEW f \in Frames, f.kind # "none", Appends(x, f)
        PROVE  \A m \in Streams : Has(m, {"none"})' => Has(m, {"none"})
    BY <2>1, AppendsHas
  <2>2. \A m \in Streams : Has(m, {"none"})' => Has(m, {"none"})
    BY <1>3, <2>1, DeliverOpeningFrames, StayHas DEF Responses
  <2>3. \A m \in Streams : Has(m, Responses)' => Has(m, Responses)
    BY <1>3, DeliverOpeningFrames, AppendsHas, StayHas DEF Responses
  <2>. QED BY <1>3, <2>2, <2>3, <1>m DEF Answered, DeliverOpeningDoes, Kind
<1>4. ASSUME NEW l \in Streams, RespondStdioDoes(l) PROVE Answered'
  <2>1. ASSUME NEW x \in Streams, NEW f \in Frames, f.kind # "none", Appends(x, f)
        PROVE  \A m \in Streams : Has(m, {"none"})' => Has(m, {"none"})
    BY <2>1, AppendsHas
  <2>2. \A m \in Streams : Has(m, {"none"})' => Has(m, {"none"})
    BY <1>4, <2>1, RespondStdioFrames, StayHas DEF Responses
  <2>3. \A m \in Streams : Has(m, Responses)' => Has(m, Responses) \/ m = l
    BY <1>4, RespondStdioFrames, AppendsHas, StayHas
  <2>. QED BY <1>4, <2>2, <2>3, <1>m DEF Answered, RespondStdioDoes, Kind
<1>5. ASSUME NEW l \in Streams, CommitResponseDoes(l) PROVE Answered'
  <2>1. ASSUME NEW x \in Streams, NEW f \in Frames, f.kind # "none", Appends(x, f)
        PROVE  \A m \in Streams : Has(m, {"none"})' => Has(m, {"none"})
    BY <2>1, AppendsHas
  <2>2. \A m \in Streams : Has(m, {"none"})' => Has(m, {"none"})
    BY <1>5, <2>1, CommitResponseFrames, StayHas DEF Responses
  <2>3. \A m \in Streams : Has(m, Responses)' => Has(m, Responses) \/ body'[m].committed
    BY <1>5, CommitResponseFrames, AppendsHas, StayHas
  <2>. QED BY <1>5, <2>2, <2>3, <1>m DEF Answered, CommitResponseDoes, Kind
<1>6. ASSUME NEW a \in Actors, SendControlDoes(a) PROVE Answered'
  <2>1. ASSUME NEW x \in Streams, NEW f \in Frames, f.kind # "none", Appends(x, f)
        PROVE  \A m \in Streams : Has(m, {"none"})' => Has(m, {"none"})
    BY <2>1, AppendsHas
  <2>2. \A m \in Streams : Has(m, {"none"})' => Has(m, {"none"})
    BY <1>6, <2>1, SendControlFrames, StayHas DEF Responses
  <2>3. \A m \in Streams : Has(m, Responses)' => Has(m, Responses)
    BY <1>6, SendControlFrames, AppendsHas, StayHas DEF Responses
  <2>. QED BY <1>6, <2>2, <2>3, <1>m DEF Answered, SendControlDoes, Kind
<1>7. ASSUME NEW p \in Publishers, DeliverEventDoes(p) PROVE Answered'
  <2>1. ASSUME NEW x \in Streams, NEW f \in Frames, f.kind # "none", Appends(x, f)
        PROVE  \A m \in Streams : Has(m, {"none"})' => Has(m, {"none"})
    BY <2>1, AppendsHas
  <2>2. \A m \in Streams : Has(m, {"none"})' => Has(m, {"none"})
    BY <1>7, <2>1, DeliverEventFrames, StayHas DEF Responses
  <2>3. \A m \in Streams : Has(m, Responses)' => Has(m, Responses)
    BY <1>7, DeliverEventFrames, AppendsHas, StayHas DEF Responses
  <2>. QED BY <1>7, <2>2, <2>3, <1>m DEF Answered, DeliverEventDoes, Kind
<1>8. ASSUME NEW l \in Streams, WriterPopDoes(l) PROVE Answered'
  <2>1. \A m \in Streams : (Has(m, {"none"})' => Has(m, {"none"})) /\ (Has(m, Responses)' => Has(m, Responses))
    BY <1>8, WriterPopFrames, StayHas
  <2>. QED BY <1>8, <2>1, <1>m DEF Answered, WriterPopDoes, Kind
<1>9. ASSUME NEW l \in Streams, WriterFlushDoes(l) PROVE Answered'
  <2>1. \A m \in Streams : (Has(m, {"none"})' => Has(m, {"none"})) /\ (Has(m, Responses)' => Has(m, Responses))
    BY <1>9, WriterFlushFrames, StayHas
  <2>. QED BY <1>9, <2>1, <1>m DEF Answered, WriterFlushDoes, Kind
<1>10. ASSUME NEW l \in Streams, WriterTrailerDoes(l) PROVE Answered'
  <2>1. \A m \in Streams : (Has(m, {"none"})' => Has(m, {"none"})) /\ (Has(m, Responses)' => Has(m, Responses))
    BY <1>10, WriterTrailerFrames, StayHas
  <2>. QED BY <1>10, <2>1, <1>m DEF Answered, WriterTrailerDoes, Kind
<1>11. ASSUME NEW l \in Streams, WriterAbortsDoes(l) PROVE Answered'
  <2>1. \A m \in Streams : (Has(m, {"none"})' => Has(m, {"none"})) /\ (Has(m, Responses)' => Has(m, Responses))
    BY <1>11, WriterAbortsFrames, StayHas
  <2>. QED BY <1>11, <2>1, <1>m DEF Answered, WriterAbortsDoes, Kind
<1>. QED BY <1>1, <1>2, <1>3, <1>4, <1>5, <1>6, <1>7, <1>8, <1>9, <1>10, <1>11, Writers

\* The six steps that put a frame on a stream, and which frame each of them
\* puts there.
Cause(x, f) ==
  \/ AcknowledgeDoes(x) /\ pc[x] = "ack" /\ f.kind = "ack"
  \/ DeliverOpeningDoes(x) /\ pc[x] = "deliver" /\ f = job[x].event /\ f.kind = "event" /\ Ready(x)
  \/ \E p \in Publishers : /\ DeliverEventDoes(p) /\ pc[p] = "deliver" /\ job[p].on = x
                           /\ f = job[p].event /\ f.kind = "event" /\ Ready(x)
  \/ \E a \in Actors : /\ SendControlDoes(a) /\ pc[a] = "control" /\ job[a].on = x
                       /\ f.kind = "control" /\ Ready(x) /\ Kind[x] # "http"
  \/ RespondStdioDoes(x) /\ pc[x] = "respond" /\ f = ResponseFrame(x) /\ f.kind \in Responses
  \/ CommitResponseDoes(x) /\ pc[x] = "commit" /\ f = ResponseFrame(x) /\ f.kind \in Responses

\* No other step does.
LEMMA FrameCauses ==
  ASSUME Shape, [Next]_vars
  PROVE  FramesStay \/ \E x \in Streams, f \in Frames : Appends(x, f) /\ Cause(x, f)
<1>. DEFINE Goal == FramesStay \/ \E x \in Streams, f \in Frames : Appends(x, f) /\ Cause(x, f)
<1>1. body' = body => Goal
  BY DEF FramesStay
<1>2. ASSUME NEW l \in Streams, AcknowledgeDoes(l) PROVE Goal
  <2>1. pc[l] = "ack"
    BY <1>2 DEF AcknowledgeDoes
  <2>. QED BY <1>2, <2>1, AcknowledgeFrames DEF Cause
<1>3. ASSUME NEW l \in Streams, DeliverOpeningDoes(l) PROVE Goal
  <2>1. pc[l] = "deliver"
    BY <1>3 DEF DeliverOpeningDoes
  <2>. QED BY <1>3, <2>1, DeliverOpeningFrames DEF Cause
<1>4. ASSUME NEW l \in Streams, RespondStdioDoes(l) PROVE Goal
  <2>1. pc[l] = "respond"
    BY <1>4 DEF RespondStdioDoes
  <2>. QED BY <1>4, <2>1, RespondStdioFrames DEF Cause
<1>5. ASSUME NEW l \in Streams, CommitResponseDoes(l) PROVE Goal
  <2>1. pc[l] = "commit"
    BY <1>5 DEF CommitResponseDoes
  <2>. QED BY <1>5, <2>1, CommitResponseFrames DEF Cause
<1>6. ASSUME NEW a \in Actors, SendControlDoes(a) PROVE Goal
  <2>1. pc[a] = "control"
    BY <1>6 DEF SendControlDoes
  <2>. QED BY <1>6, <2>1, SendControlFrames DEF Cause
<1>7. ASSUME NEW p \in Publishers, DeliverEventDoes(p) PROVE Goal
  <2>1. pc[p] = "deliver"
    BY <1>7 DEF DeliverEventDoes
  <2>. QED BY <1>7, <2>1, DeliverEventFrames DEF Cause
<1>8. ASSUME NEW l \in Streams, WriterPopDoes(l) PROVE Goal
  BY <1>8, WriterPopFrames
<1>9. ASSUME NEW l \in Streams, WriterFlushDoes(l) PROVE Goal
  BY <1>9, WriterFlushFrames
<1>10. ASSUME NEW l \in Streams, WriterTrailerDoes(l) PROVE Goal
  BY <1>10, WriterTrailerFrames
<1>11. ASSUME NEW l \in Streams, WriterAbortsDoes(l) PROVE Goal
  BY <1>11, WriterAbortsFrames
<1>. HIDE DEF Goal
<1>g. Goal
  BY <1>1, <1>2, <1>3, <1>4, <1>5, <1>6, <1>7, <1>8, <1>9, <1>10, <1>11, Writers
<1>. QED BY <1>g DEF Goal

\* Nothing follows a terminal control.
LEMMA WithdrawnStays ==
  ASSUME EInv, Withdrawn, [Next]_vars
  PROVE  Withdrawn'
<1>e. Shape /\ Fresh /\ Stages /\ Counted /\ Callbacks /\ Completion
  BY DEF EInv
<1>. SUFFICES ASSUME NEW m \in Streams, Has(m, {"control"})'
              PROVE  Resting(m)' /\ phase'[m].at \in {"ServerTerminated", "PeerTerminated"}
  BY DEF Withdrawn
<1>1. CASE Has(m, {"control"})
  BY <1>1, EndedLasts, RestingLasts DEF Withdrawn
<1>2. CASE ~Has(m, {"control"})
  <2>1. PICK x \in Streams, f \in Frames : Appends(x, f) /\ Cause(x, f)
    BY <1>e, <1>2, FrameCauses, StayHas
  <2>2. x = m /\ f.kind = "control"
    BY <1>e, <1>2, <2>1, AppendsHas
  <2>3. PICK a \in Actors : SendControlDoes(a) /\ pc[a] = "control" /\ job[a].on = m
    BY <2>1, <2>2 DEF Cause, Responses
  <2>4. phase[m].at = "ServerTerminated" /\ phase' = phase
    BY <1>e, <2>3 DEF Completion, Completing, SendControlDoes
  <2>5. /\ pc'[a] = "decide" /\ \A b \in Actors : b # a => pc'[b] = pc[b] /\ job'[b] = job[b]
    BY <2>3 DEF SendControlDoes, Moves, Works, Sets
  <2>6. \A b \in Actors : pc[b] = "control" /\ job[b].on = m => b = a
    BY <1>e, <2>3 DEF Completion, Completing
  <2>. QED BY <1>e, <2>4, <2>5, <2>6, ActorAssumption DEF Resting, Stages, Callbacks, Actors, InSender
<1>. QED BY <1>1, <1>2

\* A cancellation takes effect unless the response is being committed.
LEMMA CancelTakes ==
  ASSUME Shape, Returned, NEW x \in Streams, Cancels(x), pc[x] \notin {"commit", "elect", "done"}
  PROVE  IsCancelled(x)'
<1>1. word[x] \in {"active", "cancelled"}
  BY MoreShape DEF Returned, Words
<1>. QED BY <1>1 DEF Cancels, CancelledWord, IsCancelled, Sets

\* Who takes an election back has lost the request.
LEMMA UnelectedStays ==
  ASSUME EInv, Returned, Unelected, [Next]_vars
  PROVE  Unelected'
<1>e. Shape /\ Fresh /\ Stages /\ Counted /\ Callbacks /\ Completion
  BY DEF EInv
<1>c. \A m \in Streams : IsCancelled(m) => IsCancelled(m)'
  BY <1>e, CancelLasts
<1>1. ASSUME UNCHANGED <<scenario, pc, job>> PROVE Unelected'
  BY <1>1, <1>c DEF Unelected, Actors
<1>2. ASSUME NEW l \in Streams, DeliverOpeningDoes(l) PROVE Unelected'
  <2>1. /\ l \in Actors /\ \A b \in Actors : b # l => pc'[b] = pc[b] /\ job'[b] = job[b]
        /\ pc'[l] \in {"delivered", "decide", "elect"}
        /\ pc[l] \in {"deliver", "control", "commit"} /\ (pc[l] = "commit" => pc'[l] = "elect")
    BY <1>2 DEF DeliverOpeningDoes, Moves, Works, Sets, Actors
  <2>. QED BY <2>1, <1>c DEF Unelected, Actors
<1>3. ASSUME NEW l \in Streams, CommitResponseDoes(l) PROVE Unelected'
  <2>1. /\ l \in Actors /\ \A b \in Actors : b # l => pc'[b] = pc[b] /\ job'[b] = job[b]
        /\ pc'[l] \in {"delivered", "decide", "elect"}
        /\ pc[l] \in {"deliver", "control", "commit"} /\ (pc[l] = "commit" => pc'[l] = "elect")
    BY <1>3 DEF CommitResponseDoes, Moves, Works, Sets, Actors
  <2>. QED BY <2>1, <1>c DEF Unelected, Actors
<1>4. ASSUME NEW a \in Actors, SendControlDoes(a) PROVE Unelected'
  <2>1. /\ a \in Actors /\ \A b \in Actors : b # a => pc'[b] = pc[b] /\ job'[b] = job[b]
        /\ pc'[a] \in {"delivered", "decide", "elect"}
        /\ pc[a] \in {"deliver", "control", "commit"} /\ (pc[a] = "commit" => pc'[a] = "elect")
    BY <1>4 DEF SendControlDoes, Moves, Works, Sets, Actors
  <2>. QED BY <2>1, <1>c DEF Unelected, Actors
<1>5. ASSUME NEW a \in Actors, DecideDoes(a) PROVE Unelected'
  <2>1. PICK x \in Streams : x = job[a].on
    BY <1>5 DEF DecideDoes
  <2>2. /\ \A b \in Actors : b # a => pc'[b] = pc[b]
        /\ job' = job /\ (pc'[a] = "unelect" => Cancels(x))
        /\ pc[a] = "decide"
    BY <1>5, <2>1 DEF DecideDoes, Moves, Sets
  <2>3. pc'[a] = "unelect" => (IsCancelled(x)' \/ pc[x] \in {"commit", "elect", "done"})
    BY <2>2, <1>e, CancelTakes
  <2>. QED BY <2>1, <2>2, <2>3, <1>c DEF Unelected, Actors
<1>6. ASSUME NEW p \in Publishers, DeliverEventDoes(p) PROVE Unelected'
  <2>1. /\ p \in Actors /\ \A b \in Actors : b # p => pc'[b] = pc[b] /\ job'[b] = job[b]
        /\ pc'[p] \in {"delivered", "decide", "elect"}
        /\ pc[p] \in {"deliver", "control", "commit"} /\ (pc[p] = "commit" => pc'[p] = "elect")
    BY <1>6 DEF DeliverEventDoes, Moves, Works, Sets, Actors
  <2>. QED BY <2>1, <1>c DEF Unelected, Actors
<1>. USE <1>e, <1>c, ShapeIs, ActorAssumption DEF Unelected, Actors, Moves, Sets
<1>7. ASSUME NEW l \in Streams, ListenDoes(l) \/ CheckOpenDoes(l) \/ ReserveDoes(l)
                                \/ AcknowledgeDoes(l) \/ AdmitStreamDoes(l)
                                \/ RetractEntryDoes(l)
      PROVE  Unelected'
  BY <1>7 DEF ListenDoes, CheckOpenDoes, IsCancelled, ReserveDoes, AcknowledgeDoes,
     AdmitStreamDoes, RetractEntryDoes
<1>8. ASSUME NEW l \in Streams, RetractElectionDoes(l) \/ DrainDoes(l)
                                \/ DeliveredOpeningDoes(l) \/ AbandonDoes(l)
                                \/ DropHandleDoes(l) \/ ListenStartDoes(l)
      PROVE  Unelected'
  BY <1>8 DEF RetractElectionDoes, AtPhase, DrainDoes, Works, IsCancelled,
     DeliveredOpeningDoes, AbandonDoes, DropHandleDoes, ListenStartDoes
<1>9. ASSUME NEW l \in Streams, ListenPollDoes(l) \/ ListenParkedDoes(l)
                                \/ ListenHoldDoes(l) \/ ListenSettleDoes(l)
                                \/ ListenReturnDoes(l) \/ DropLeaseDoes(l)
      PROVE  Unelected'
  BY <1>9 DEF ListenPollDoes, IsCancelled, ListenParkedDoes, ListenHoldDoes,
     ListenSettleDoes, ListenReturnDoes, DropLeaseDoes
<1>10. ASSUME NEW l \in Streams, DropElectionDoes(l) \/ RespondStdioDoes(l)
                                 \/ ReturnLocalDoes(l) \/ RespondHttpDoes(l)
                                 \/ ElectOutcomeDoes(l) \/ TerminateEntryDoes(l)
      PROVE  Unelected'
  BY <1>10 DEF DropElectionDoes, AtPhase, Open4, RespondStdioDoes, ReturnLocalDoes,
     RespondHttpDoes, Works, IsCancelled, ElectOutcomeDoes, TerminateEntryDoes
<1>11. ASSUME NEW a \in Actors, UnelectDoes(a) \/ MarkGracefulDoes(a) \/ WakeDoes(a)
      PROVE  Unelected'
  BY <1>11 DEF UnelectDoes, MarkGracefulDoes, WakeDoes
<1>12. ASSUME NEW p \in Publishers, PublishDoes(p) \/ DeliveredEventDoes(p)
      PROVE  Unelected'
  BY <1>12 DEF PublishDoes, Works, Frame, DeliveredEventDoes, AtPhase, IsCancelled
<1>13. ASSUME NEW p \in Publishers, NEW l \in Streams, OfferDoes(p, l) PROVE Unelected'
  BY <1>13 DEF OfferDoes, Works, AtPhase, IsCancelled
<1>14. ASSUME TerminateDoes \/ TakeEntriesDoes \/ DrainReceiptsDoes
      PROVE  Unelected'
  BY <1>14 DEF TerminateDoes, TakeEntriesDoes, DrainReceiptsDoes
<1>. HIDE DEF Unelected
<1>. QED BY <1>1, <1>2, <1>3, <1>4, <1>5, <1>6, <1>7, <1>8, <1>9, <1>10, <1>11, <1>12,
         <1>13, <1>14, <1>e, Writers

\* The listeners of streams that have ended.
LEMMA QuietStays ==
  ASSUME EInv, Returned, Unelected, Quiet, [Next]_vars
  PROVE  Quiet'
<1>e. Shape /\ Fresh /\ Stages /\ Counted /\ Callbacks /\ Completion
  BY DEF EInv
<1>c. \A m \in Streams : IsCancelled(m) => IsCancelled(m)'
  BY <1>e, CancelLasts
<1>k. \A m \in Streams : Cancels(m) /\ pc[m] \notin {"commit", "elect", "done"} => IsCancelled(m)'
  BY <1>e, CancelTakes
<1>1. ASSUME UNCHANGED <<scenario, pc, phase>> PROVE Quiet'
  BY <1>1, <1>c DEF Quiet, Waits, Actors
<1>2. ASSUME NEW a \in Actors, UnelectDoes(a) PROVE Quiet'
  <2>1. PICK x \in Streams : x = job[a].on
    BY <1>2 DEF UnelectDoes
  <2>2. IsCancelled(x)' \/ pc[x] \in {"commit", "elect", "done"}
    BY <1>2, <2>1, <1>c DEF UnelectDoes, Unelected
  <2>3. /\ \A m \in Streams : m # x => phase'[m] = phase[m]
        /\ \A m \in Streams : pc'[m] = pc[m] \/ pc'[m] = "respond"
    BY <1>2, <2>1, ActorAssumption DEF UnelectDoes, Elects, Moves, Sets, Actors
  <2>. QED BY <2>2, <2>3, <1>c DEF Quiet, Waits
<1>3. ASSUME NEW p \in Publishers, NEW l \in Streams, QueueDoes(p, l) PROVE Quiet'
  <2>1. /\ \A m \in Streams : m # l => phase'[m] = phase[m]
        /\ pc' = pc
        /\ phase'[l].at = "PeerTerminated" => (phase[l].at = "PeerTerminated" \/ Cancels(l) \/ IsCancelled(l))
    BY <1>3 DEF QueueDoes, Elects, Sets
  <2>. QED BY <2>1, <1>c, <1>k DEF Quiet, Waits
<1>4. ASSUME NEW p \in Publishers, DeliveredEventDoes(p) PROVE Quiet'
  <2>1. PICK x \in Streams : x = job[p].on
    BY <1>4 DEF DeliveredEventDoes
  <2>2. /\ \A m \in Streams : m # x => phase'[m] = phase[m]
        /\ \A m \in Streams : pc'[m] = pc[m]
        /\ phase'[x].at = "PeerTerminated" => (phase[x].at = "PeerTerminated" \/ Cancels(x))
    BY <1>4, <2>1, ActorAssumption DEF DeliveredEventDoes, Elects, Moves, Sets, Actors
  <2>. QED BY <2>2, <1>c, <1>k DEF Quiet, Waits
<1>5. ASSUME NEW l \in Streams, CancelModernHttpOwnerDoes(l) PROVE Quiet'
  <2>1. /\ \A m \in Streams : m # l => phase'[m] = phase[m]
        /\ pc' = pc
        /\ phase'[l].at = "PeerTerminated" => (phase[l].at = "PeerTerminated" \/ Cancels(l) \/ IsCancelled(l))
    BY <1>5 DEF CancelModernHttpOwnerDoes, Elects, Sets
  <2>. QED BY <2>1, <1>c, <1>k DEF Quiet, Waits
<1>. USE <1>e, <1>c, <1>k, ShapeIs, ActorAssumption DEF Quiet, Waits, Actors, Moves, Sets
<1>6. ASSUME NEW l \in Streams, ListenDoes(l) \/ CheckOpenDoes(l) \/ ReserveDoes(l)
                                \/ AcknowledgeDoes(l) \/ AdmitStreamDoes(l)
                                \/ RetractEntryDoes(l)
      PROVE  Quiet'
  BY <1>6 DEF ListenDoes, CheckOpenDoes, IsCancelled, ReserveDoes, Elects, AcknowledgeDoes,
     AdmitStreamDoes, RetractEntryDoes
<1>7. ASSUME NEW l \in Streams, RetractElectionDoes(l) PROVE Quiet'
  BY <1>7 DEF RetractElectionDoes, Elects, AtPhase
<1>8. ASSUME NEW l \in Streams, DrainDoes(l) PROVE Quiet'
  BY <1>8 DEF DrainDoes, Elects, IsCancelled
<1>9. ASSUME NEW l \in Streams, DeliverOpeningDoes(l) PROVE Quiet'
  BY <1>9 DEF DeliverOpeningDoes
<1>10. ASSUME NEW l \in Streams, DeliveredOpeningDoes(l) \/ AbandonDoes(l)
                                 \/ DropHandleDoes(l)
      PROVE  Quiet'
  BY <1>10 DEF DeliveredOpeningDoes, Elects, IsCancelled, AbandonDoes, DropHandleDoes
<1>11. ASSUME NEW l \in Streams, ListenStartDoes(l) \/ ListenPollDoes(l)
                                 \/ ListenParkedDoes(l) \/ ListenHoldDoes(l)
                                 \/ ListenSettleDoes(l) \/ ListenReturnDoes(l)
      PROVE  Quiet'
  BY <1>11 DEF ListenStartDoes, ListenPollDoes, IsCancelled, ListenParkedDoes,
     ListenHoldDoes, ListenSettleDoes, ListenReturnDoes
<1>12. ASSUME NEW l \in Streams, DropLeaseDoes(l) \/ DropElectionDoes(l)
                                 \/ RespondStdioDoes(l) \/ ReturnLocalDoes(l)
                                 \/ RespondHttpDoes(l) \/ CommitResponseDoes(l)
      PROVE  Quiet'
  BY <1>12 DEF DropLeaseDoes, DropElectionDoes, Elects, AtPhase, Open4, RespondStdioDoes,
     ReturnLocalDoes, RespondHttpDoes, IsCancelled, CommitResponseDoes
<1>13. ASSUME NEW l \in Streams, ElectOutcomeDoes(l) \/ TerminateEntryDoes(l)
      PROVE  Quiet'
  BY <1>13 DEF ElectOutcomeDoes, TerminateEntryDoes, Elects, AtPhase, Open4, IsCancelled
<1>14. ASSUME NEW a \in Actors, SendControlDoes(a) \/ DecideDoes(a) \/ MarkGracefulDoes(a)
                                \/ WakeDoes(a)
      PROVE  Quiet'
  BY <1>14, ZenonT(60) DEF SendControlDoes, DecideDoes, IsCancelled, MarkGracefulDoes, WakeDoes,
     Completion, Completing, Aimed
<1>15. ASSUME NEW p \in Publishers, NEW l \in Streams, OfferDoes(p, l) PROVE Quiet'
  BY <1>15 DEF OfferDoes, Elects, AtPhase, IsCancelled
<1>16. ASSUME NEW p \in Publishers, DeliverEventDoes(p) PROVE Quiet'
  BY <1>16 DEF DeliverEventDoes
<1>17. ASSUME TerminateDoes \/ TakeEntriesDoes \/ DrainReceiptsDoes
      PROVE  Quiet'
  BY <1>17 DEF TerminateDoes, TakeEntriesDoes, DrainReceiptsDoes
<1>. HIDE DEF Quiet
<1>. QED BY <1>1, <1>2, <1>3, <1>4, <1>5, <1>6, <1>7, <1>8, <1>9, <1>10, <1>11, <1>12,
         <1>13, <1>14, <1>15, <1>16, <1>17, <1>e, Writers

LEMMA DepartedStays ==
  ASSUME EInv, Returned, Quiet, Departed, [Next]_vars
  PROVE  Departed'
<1>e. Shape /\ Fresh /\ Stages /\ Counted /\ Callbacks /\ Completion
  BY DEF EInv
<1>c. \A m \in Streams : IsCancelled(m) => IsCancelled(m)'
  BY <1>e, CancelLasts
<1>k. \A m \in Streams : Cancels(m) /\ pc[m] \notin {"commit", "elect", "done"} => IsCancelled(m)'
  BY <1>e, CancelTakes
<1>d. \A m \in Streams : ~live[m] => ~live'[m]
  BY <1>e, DeadLasts
<1>r. \A m \in Streams : Resting(m) /\ pc[m] \in Leaving => Resting(m)'
  BY RestingLasts
<1>1. ASSUME UNCHANGED <<scenario, pc>> PROVE Departed'
  BY <1>1, <1>c, <1>d, <1>r DEF Departed, Leaving, Actors, Kind
<1>2. ASSUME NEW l \in Streams, CheckOpenDoes(l) PROVE Departed'
  <2>1. /\ pc[l] \in Early /\ pc'[l] \in {"respond", "reserve", "ack"} /\ scenario' = scenario
        /\ \A b \in Actors : b # l => pc'[b] = pc[b]
        /\ job' = job
        /\ phase' = phase \/ pc'[l] = "ack"
    BY <1>2 DEF CheckOpenDoes, Moves, Sets, Early, Actors
  <2>2. pc'[l] = "respond" => Resting(l)'
    BY <1>e, <2>1, ActorAssumption DEF Resting, Fresh, Callbacks, Completion, Completing, InSender, Early, Leased, Waits, Leaving, Actors
  <2>. QED BY <2>1, <2>2, <1>c, <1>d, <1>r DEF Departed, Kind, Actors, Leaving
<1>3. ASSUME NEW l \in Streams, ReserveDoes(l) PROVE Departed'
  <2>1. /\ pc[l] \in Early /\ pc'[l] \in {"respond", "reserve", "ack"} /\ scenario' = scenario
        /\ \A b \in Actors : b # l => pc'[b] = pc[b]
        /\ job' = job
        /\ phase' = phase \/ pc'[l] = "ack"
    BY <1>3 DEF ReserveDoes, Moves, Sets, Early, Actors
  <2>2. pc'[l] = "respond" => Resting(l)'
    BY <1>e, <2>1, ActorAssumption DEF Resting, Fresh, Callbacks, Completion, Completing, InSender, Early, Leased, Waits, Leaving, Actors
  <2>. QED BY <2>1, <2>2, <1>c, <1>d, <1>r DEF Departed, Kind, Actors, Leaving
<1>4. ASSUME NEW l \in Streams, RetractElectionDoes(l) PROVE Departed'
  <2>1. /\ pc[l] \in {"retracted", "abandon"} /\ Cancels(l) /\ scenario' = scenario
        /\ \A b \in Actors : b # l => pc'[b] = pc[b]
    BY <1>4 DEF RetractElectionDoes, Moves, Sets, Actors
  <2>2. IsCancelled(l)'
    BY <2>1, <1>k
  <2>. QED BY <2>1, <2>2, <1>c, <1>d, <1>r DEF Departed, Kind, Actors
<1>5. ASSUME NEW l \in Streams, AbandonDoes(l) PROVE Departed'
  <2>1. /\ pc[l] \in {"retracted", "abandon"} /\ Cancels(l) /\ scenario' = scenario
        /\ \A b \in Actors : b # l => pc'[b] = pc[b]
    BY <1>5 DEF AbandonDoes, Moves, Sets, Actors
  <2>2. IsCancelled(l)'
    BY <2>1, <1>k
  <2>. QED BY <2>1, <2>2, <1>c, <1>d, <1>r DEF Departed, Kind, Actors
<1>6. ASSUME NEW l \in Streams, ListenSettleDoes(l) PROVE Departed'
  <2>1. /\ pc[l] = "settling" /\ pc'[l] = "ending" /\ scenario' = scenario /\ job' = job /\ phase' = phase
        /\ \A b \in Actors : b # l => pc'[b] = pc[b]
        /\ graceful[l] \/ phase[l].at = "PeerTerminated" \/ IsCancelled(l)
    BY <1>6 DEF ListenSettleDoes, Moves, Sets, Actors
  <2>2. IsCancelled(l)' \/ graceful[l]
    BY <2>1, <1>c DEF Quiet, Waits
  <2>3. graceful[l] => Resting(l)'
    BY <1>e, <2>1, ActorAssumption DEF Resting, Callbacks, Completion, Completing, InSender, Actors
  <2>. QED BY <2>1, <2>2, <2>3, <1>c, <1>d, <1>r DEF Departed, Kind, Actors, Leaving
<1>7. ASSUME NEW a \in Actors, UnelectDoes(a) PROVE Departed'
  <2>1. PICK x \in Streams : x = job[a].on
    BY <1>7 DEF UnelectDoes
  <2>2. /\ pc[a] = "unelect" /\ phase'[x].at = "PeerTerminated" /\ job' = job /\ scenario' = scenario
        /\ \A b \in Actors : b # a => pc'[b] = pc[b]
        /\ pc'[a] \in {"respond", "next"}
        /\ a \in Streams => x = a
    BY <1>7, <2>1, <1>e, ShapeIs DEF UnelectDoes, Elects, Moves, Sets, Aimed
  <2>3. a \in Streams => Resting(x)'
    BY <1>e, <2>1, <2>2, ActorAssumption DEF Resting, Callbacks, Completion, Completing, InSender, Actors
  <2>. QED BY <2>1, <2>2, <2>3, <1>c, <1>d, <1>r, ActorAssumption DEF Departed, Kind, Actors, Leaving
<1>. USE <1>e, <1>c, <1>d, <1>r, <1>k, ShapeIs, ActorAssumption DEF Departed, Leaving,
       Actors, Kind, Moves, Sets
<1>8. ASSUME NEW l \in Streams, ListenDoes(l) \/ AcknowledgeDoes(l) \/ AdmitStreamDoes(l)
                                \/ RetractEntryDoes(l) \/ DrainDoes(l)
                                \/ DeliverOpeningDoes(l)
      PROVE  Departed'
  BY <1>8 DEF ListenDoes, AcknowledgeDoes, AdmitStreamDoes, RetractEntryDoes, DrainDoes,
     IsCancelled, DeliverOpeningDoes
<1>9. ASSUME NEW l \in Streams, DeliveredOpeningDoes(l) \/ DropHandleDoes(l)
                                \/ ListenStartDoes(l) \/ ListenPollDoes(l)
                                \/ ListenParkedDoes(l) \/ ListenHoldDoes(l)
      PROVE  Departed'
  BY <1>9 DEF DeliveredOpeningDoes, IsCancelled, DropHandleDoes, ListenStartDoes,
     ListenPollDoes, ListenParkedDoes, ListenHoldDoes
<1>10. ASSUME NEW l \in Streams, ListenReturnDoes(l) \/ DropLeaseDoes(l)
                                 \/ DropElectionDoes(l) \/ RespondStdioDoes(l)
                                 \/ ReturnLocalDoes(l) \/ RespondHttpDoes(l)
      PROVE  Departed'
  BY <1>10 DEF ListenReturnDoes, DropLeaseDoes, DropElectionDoes, AtPhase, Open4,
     RespondStdioDoes, ReturnLocalDoes, RespondHttpDoes, IsCancelled
<1>11. ASSUME NEW l \in Streams, CommitResponseDoes(l) \/ ElectOutcomeDoes(l)
                                 \/ TerminateEntryDoes(l)
      PROVE  Departed'
  BY <1>11 DEF CommitResponseDoes, ElectOutcomeDoes, TerminateEntryDoes, AtPhase, Open4,
     IsCancelled
<1>12. ASSUME NEW a \in Actors, SendControlDoes(a) \/ DecideDoes(a) \/ MarkGracefulDoes(a)
                                \/ WakeDoes(a)
      PROVE  Departed'
  BY <1>12 DEF SendControlDoes, DecideDoes, IsCancelled, MarkGracefulDoes, WakeDoes
<1>13. ASSUME NEW p \in Publishers, NEW l \in Streams, OfferDoes(p, l) PROVE Departed'
  BY <1>13 DEF OfferDoes, AtPhase, IsCancelled
<1>14. ASSUME NEW p \in Publishers, DeliverEventDoes(p) \/ DeliveredEventDoes(p)
      PROVE  Departed'
  BY <1>14 DEF DeliverEventDoes, DeliveredEventDoes, AtPhase, IsCancelled
<1>15. ASSUME TerminateDoes \/ TakeEntriesDoes \/ DrainReceiptsDoes
      PROVE  Departed'
  BY <1>15 DEF TerminateDoes, TakeEntriesDoes, DrainReceiptsDoes
<1>. HIDE DEF Departed
<1>. QED BY <1>1, <1>2, <1>3, <1>4, <1>5, <1>6, <1>7, <1>8, <1>9, <1>10, <1>11, <1>12,
         <1>13, <1>14, <1>15, <1>e, Writers

LEMMA PoliteStays ==
  ASSUME EInv, Greeted, Polite, [Next]_vars
  PROVE  Polite'
<1>e. Shape /\ Fresh /\ Stages /\ Counted /\ Callbacks /\ Completion
  BY DEF EInv
<1>h. \A m \in Streams : Has(m, {"ack"}) => Has(m, {"ack"})'
  BY <1>e, HasLasts
<1>1. ASSUME UNCHANGED <<scenario, pc, job, graceful>> PROVE Polite'
  BY <1>1, <1>h DEF Polite, Actors
<1>2. ASSUME NEW l \in Streams, DeliverOpeningDoes(l) PROVE Polite'
  <2>1. /\ \A b \in Actors : b # l => pc'[b] = pc[b] /\ job'[b] = job[b]
        /\ pc'[l] \in {"delivered", "decide", "elect"} /\ graceful' = graceful
    BY <1>2 DEF DeliverOpeningDoes, Moves, Works, Sets, Actors
  <2>. QED BY <2>1, <1>h DEF Polite
<1>3. ASSUME NEW l \in Streams, CommitResponseDoes(l) PROVE Polite'
  <2>1. /\ \A b \in Actors : b # l => pc'[b] = pc[b] /\ job'[b] = job[b]
        /\ pc'[l] \in {"delivered", "decide", "elect"} /\ graceful' = graceful
    BY <1>3 DEF CommitResponseDoes, Moves, Works, Sets, Actors
  <2>. QED BY <2>1, <1>h DEF Polite
<1>4. ASSUME NEW a \in Actors, SendControlDoes(a) PROVE Polite'
  <2>1. /\ \A b \in Actors : b # a => pc'[b] = pc[b] /\ job'[b] = job[b]
        /\ pc'[a] \in {"delivered", "decide", "elect"} /\ graceful' = graceful
    BY <1>4 DEF SendControlDoes, Moves, Works, Sets, Actors
  <2>. QED BY <2>1, <1>h DEF Polite
<1>5. ASSUME NEW a \in Actors, DecideDoes(a) PROVE Polite'
  <2>1. PICK x \in Streams : x = job[a].on
    BY <1>5 DEF DecideDoes
  <2>2. /\ \A b \in Actors : b # a => pc'[b] = pc[b]
        /\ job' = job /\ graceful' = graceful /\ phase[x].at = "ServerTerminated"
    BY <1>5, <2>1, <1>e DEF DecideDoes, Moves, Sets, Completion, Completing
  <2>3. Acked(x)
    BY <2>2 DEF Greeted, Unacked
  <2>4. pc'[a] = "graceful" => Has(x, {"ack"})
    BY <1>5, <2>1, <2>3 DEF DecideDoes, Moves, Sets, Acked, Committed
  <2>. QED BY <2>1, <2>2, <2>4, <1>h DEF Polite
<1>6. ASSUME NEW a \in Actors, MarkGracefulDoes(a) PROVE Polite'
  <2>1. PICK x \in Streams : x = job[a].on
    BY <1>6 DEF MarkGracefulDoes
  <2>2. /\ \A b \in Actors : b # a => pc'[b] = pc[b]
        /\ job' = job /\ pc[a] = "graceful" /\ pc'[a] = "wake"
        /\ \A m \in Streams : m # x => graceful'[m] = graceful[m]
    BY <1>6, <2>1 DEF MarkGracefulDoes, Moves, Graces, Sets
  <2>. QED BY <2>1, <2>2, <1>h DEF Polite
<1>7. ASSUME NEW p \in Publishers, DeliverEventDoes(p) PROVE Polite'
  <2>1. /\ \A b \in Actors : b # p => pc'[b] = pc[b] /\ job'[b] = job[b]
        /\ pc'[p] \in {"delivered", "decide", "elect"} /\ graceful' = graceful
    BY <1>7 DEF DeliverEventDoes, Moves, Works, Sets, Actors
  <2>. QED BY <2>1, <1>h DEF Polite
<1>. USE <1>e, <1>h, ShapeIs, ActorAssumption DEF Polite, Actors, Moves, Sets
<1>8. ASSUME NEW l \in Streams, ListenDoes(l) \/ CheckOpenDoes(l) \/ ReserveDoes(l)
                                \/ AcknowledgeDoes(l) \/ AdmitStreamDoes(l)
                                \/ RetractEntryDoes(l)
      PROVE  Polite'
  BY <1>8 DEF ListenDoes, CheckOpenDoes, IsCancelled, ReserveDoes, AcknowledgeDoes,
     AdmitStreamDoes, RetractEntryDoes
<1>9. ASSUME NEW l \in Streams, RetractElectionDoes(l) \/ DrainDoes(l)
                                \/ DeliveredOpeningDoes(l) \/ AbandonDoes(l)
                                \/ DropHandleDoes(l) \/ ListenStartDoes(l)
      PROVE  Polite'
  BY <1>9 DEF RetractElectionDoes, AtPhase, DrainDoes, Works, IsCancelled,
     DeliveredOpeningDoes, AbandonDoes, DropHandleDoes, ListenStartDoes
<1>10. ASSUME NEW l \in Streams, ListenPollDoes(l) \/ ListenParkedDoes(l)
                                 \/ ListenHoldDoes(l) \/ ListenSettleDoes(l)
                                 \/ ListenReturnDoes(l) \/ DropLeaseDoes(l)
      PROVE  Polite'
  BY <1>10 DEF ListenPollDoes, IsCancelled, ListenParkedDoes, ListenHoldDoes,
     ListenSettleDoes, ListenReturnDoes, DropLeaseDoes
<1>11. ASSUME NEW l \in Streams, DropElectionDoes(l) \/ RespondStdioDoes(l)
                                 \/ ReturnLocalDoes(l) \/ RespondHttpDoes(l)
                                 \/ ElectOutcomeDoes(l) \/ TerminateEntryDoes(l)
      PROVE  Polite'
  BY <1>11 DEF DropElectionDoes, AtPhase, Open4, RespondStdioDoes, ReturnLocalDoes,
     RespondHttpDoes, Works, IsCancelled, ElectOutcomeDoes, TerminateEntryDoes
<1>12. ASSUME NEW a \in Actors, UnelectDoes(a) \/ WakeDoes(a)
      PROVE  Polite'
  BY <1>12 DEF UnelectDoes, WakeDoes
<1>13. ASSUME NEW p \in Publishers, PublishDoes(p) \/ DeliveredEventDoes(p)
      PROVE  Polite'
  BY <1>13 DEF PublishDoes, Works, Frame, DeliveredEventDoes, AtPhase, IsCancelled
<1>14. ASSUME NEW p \in Publishers, NEW l \in Streams, OfferDoes(p, l) PROVE Polite'
  BY <1>14 DEF OfferDoes, Works, AtPhase, IsCancelled
<1>15. ASSUME TerminateDoes \/ TakeEntriesDoes \/ DrainReceiptsDoes
      PROVE  Polite'
  BY <1>15 DEF TerminateDoes, TakeEntriesDoes, DrainReceiptsDoes
<1>. HIDE DEF Polite
<1>. QED BY <1>1, <1>2, <1>3, <1>4, <1>5, <1>6, <1>7, <1>8, <1>9, <1>10, <1>11, <1>12,
         <1>13, <1>14, <1>15, <1>e, Writers

\* A stream is of one of three kinds.
LEMMA KindIs == ASSUME Shape, NEW l \in Streams PROVE Kind[l] \in {"stdio", "http", "local"}
BY ScenarioAssumption DEF Shape, Typed, Kind

\* The acknowledgement comes first.
LEMMA GreetedStays ==
  ASSUME EInv, Returned, Pristine, Greeted, [Next]_vars
  PROVE  Greeted'
<1>e. Shape /\ Fresh /\ Stages /\ Counted /\ Callbacks /\ Completion
  BY DEF EInv
<1>c. \A m \in Streams : IsCancelled(m) => IsCancelled(m)'
  BY <1>e, CancelLasts
<1>a. \A m \in Streams : Acked(m) => Acked(m)'
  BY <1>e, AckedLasts
<1>1. ASSUME UNCHANGED <<scenario, pc, phase, job>> PROVE Greeted'
  BY <1>1, <1>a DEF Greeted, Unacked, Actors
<1>2. ASSUME NEW l \in Streams, AcknowledgeDoes(l) PROVE Greeted'
  <2>1. Acked(l)' \/ pc'[l] = "retract"
    <3>1. CASE pc'[l] = "retract"
      BY <3>1
    <3>2. CASE Sends(l, Plain("ack"))
      <4>1. Appends(l, Plain("ack")) /\ Plain("ack") \in Frames /\ Plain("ack").kind = "ack"
        BY <1>e, <3>2, SentFrames DEF Sends, Holds, Appends
      <4>2. \A f \in Frames : f = Plain("ack") => Has(l, {"ack"})'
        BY <1>e, <4>1, AppendsHas
      <4>. QED BY <4>1, <4>2 DEF Acked
    <3>3. CASE Refuses(l) /\ Kind[l] # "local"
      <4>1. pc[l] = "ack" /\ receipt[l].control \in {"open", "failed"} /\ scenario' = scenario
        BY <1>2 DEF AcknowledgeDoes, Pristine
      <4>2. IsCancelled(l)' /\ body'[l].failed
        BY <1>e, <3>3, <4>1, CancelTakes DEF Refuses, Holds
      <4>3. Kind[l] = "http" => receipt'[l].control = "failed"
        BY <1>e, <3>3, <4>1, MoreShape, Failing DEF Refuses, FailsReceipt, Marked, Sets
      <4>4. Kind[l] \in {"stdio", "http"} /\ Kind'[l] = Kind[l]
        BY <1>e, <3>3, <4>1, KindIs DEF Kind
      <4>. QED BY <4>2, <4>3, <4>4 DEF Acked
    <3>4. CASE Drops(l) /\ Mute(l)
      <4>1. ~body[l].failed /\ scenario' = scenario
        BY <1>2 DEF AcknowledgeDoes, Pristine
      <4>2. Kind'[l] = "stdio" /\ IsCancelled(l)
        BY <3>4, <4>1 DEF Mute, Kind
      <4>. QED BY <4>2, <1>c DEF Acked
    <3>. QED BY <1>2, <3>1, <3>2, <3>3, <3>4 DEF AcknowledgeDoes, Moves, Sets
  <2>2. /\ \A b \in Actors : b # l => pc'[b] = pc[b]
        /\ job' = job /\ phase' = phase /\ pc[l] = "ack"
    BY <1>2 DEF AcknowledgeDoes, Moves, Sets, Actors
  <2>3. pc'[l] = "retract" => Acked(l) \/ Unacked(l)'
    BY <2>2, ActorAssumption DEF Greeted, Unacked, Actors
  <2>4. \A m \in Streams : m # l /\ Unacked(m) => Unacked(m)'
    BY <2>2, ActorAssumption DEF Unacked, Actors
  <2>. QED BY <2>1, <2>3, <2>4, <1>a DEF Greeted
<1>3. ASSUME NEW l \in Streams, DeliverOpeningDoes(l) PROVE Greeted'
  <2>1. /\ \A b \in Actors : b # l => pc'[b] = pc[b] /\ job'[b] = job[b]
        /\ l \in Actors /\ pc'[l] \in {"delivered", "decide", "elect", "commit", "done"} /\ phase' = phase
        /\ pc[l] \in {"deliver", "control", "commit", "respond"} /\ (pc[l] = "deliver" <=> pc'[l] = "delivered")
        /\ (pc[l] = "control" <=> pc'[l] = "decide") /\ job'[l].on = job[l].on
    BY <1>3 DEF DeliverOpeningDoes, Moves, Works, Sets, Actors
  <2>2. \A m \in Streams : Unacked(m) => Unacked(m)'
    BY <2>1, ActorAssumption DEF Unacked, Actors, InSender, Ending, Early
  <2>. QED BY <2>2, <1>a DEF Greeted
<1>4. ASSUME NEW l \in Streams, RespondHttpDoes(l) PROVE Greeted'
  <2>1. /\ \A b \in Actors : b # l => pc'[b] = pc[b] /\ job'[b] = job[b]
        /\ l \in Actors /\ pc'[l] \in {"delivered", "decide", "elect", "commit", "done"} /\ phase' = phase
        /\ pc[l] \in {"deliver", "control", "commit", "respond"} /\ (pc[l] = "deliver" <=> pc'[l] = "delivered")
        /\ (pc[l] = "control" <=> pc'[l] = "decide") /\ job'[l].on = job[l].on
    BY <1>4 DEF RespondHttpDoes, Moves, Works, Sets, Actors
  <2>2. \A m \in Streams : Unacked(m) => Unacked(m)'
    BY <2>1, ActorAssumption DEF Unacked, Actors, InSender, Ending, Early
  <2>. QED BY <2>2, <1>a DEF Greeted
<1>5. ASSUME NEW l \in Streams, CommitResponseDoes(l) PROVE Greeted'
  <2>1. /\ \A b \in Actors : b # l => pc'[b] = pc[b] /\ job'[b] = job[b]
        /\ l \in Actors /\ pc'[l] \in {"delivered", "decide", "elect", "commit", "done"} /\ phase' = phase
        /\ pc[l] \in {"deliver", "control", "commit", "respond"} /\ (pc[l] = "deliver" <=> pc'[l] = "delivered")
        /\ (pc[l] = "control" <=> pc'[l] = "decide") /\ job'[l].on = job[l].on
    BY <1>5 DEF CommitResponseDoes, Moves, Works, Sets, Actors
  <2>2. \A m \in Streams : Unacked(m) => Unacked(m)'
    BY <2>1, ActorAssumption DEF Unacked, Actors, InSender, Ending, Early
  <2>. QED BY <2>2, <1>a DEF Greeted
<1>6. ASSUME NEW a \in Actors, SendControlDoes(a) PROVE Greeted'
  <2>1. /\ \A b \in Actors : b # a => pc'[b] = pc[b] /\ job'[b] = job[b]
        /\ a \in Actors /\ pc'[a] \in {"delivered", "decide", "elect", "commit", "done"} /\ phase' = phase
        /\ pc[a] \in {"deliver", "control", "commit", "respond"} /\ (pc[a] = "deliver" <=> pc'[a] = "delivered")
        /\ (pc[a] = "control" <=> pc'[a] = "decide") /\ job'[a].on = job[a].on
    BY <1>6 DEF SendControlDoes, Moves, Works, Sets, Actors
  <2>2. \A m \in Streams : Unacked(m) => Unacked(m)'
    BY <2>1, ActorAssumption DEF Unacked, Actors, InSender, Ending, Early
  <2>. QED BY <2>2, <1>a DEF Greeted
<1>7. ASSUME NEW p \in Publishers, DeliverEventDoes(p) PROVE Greeted'
  <2>1. /\ \A b \in Actors : b # p => pc'[b] = pc[b] /\ job'[b] = job[b]
        /\ p \in Actors /\ pc'[p] \in {"delivered", "decide", "elect", "commit", "done"} /\ phase' = phase
        /\ pc[p] \in {"deliver", "control", "commit", "respond"} /\ (pc[p] = "deliver" <=> pc'[p] = "delivered")
        /\ (pc[p] = "control" <=> pc'[p] = "decide") /\ job'[p].on = job[p].on
    BY <1>7 DEF DeliverEventDoes, Moves, Works, Sets, Actors
  <2>2. \A m \in Streams : Unacked(m) => Unacked(m)'
    BY <2>1, ActorAssumption DEF Unacked, Actors, InSender, Ending, Early
  <2>. QED BY <2>2, <1>a DEF Greeted
<1>. USE <1>e, <1>a, ShapeIs, ActorAssumption DEF Greeted, Unacked, Actors, Moves, Sets
<1>8. ASSUME NEW l \in Streams, ListenDoes(l) \/ CheckOpenDoes(l) \/ ReserveDoes(l)
                                \/ AdmitStreamDoes(l) \/ RetractEntryDoes(l)
                                \/ RetractElectionDoes(l)
      PROVE  Greeted'
  BY <1>8 DEF ListenDoes, InSender, Ending, Early, CheckOpenDoes, IsCancelled, ReserveDoes,
     Elects, AdmitStreamDoes, RetractEntryDoes, RetractElectionDoes, AtPhase
<1>9. ASSUME NEW l \in Streams, DrainDoes(l) \/ DeliveredOpeningDoes(l) \/ AbandonDoes(l)
                                \/ DropHandleDoes(l) \/ ListenStartDoes(l)
                                \/ ListenPollDoes(l)
      PROVE  Greeted'
  BY <1>9 DEF DrainDoes, Elects, Works, IsCancelled, InSender, Ending, Early,
     DeliveredOpeningDoes, AbandonDoes, DropHandleDoes, ListenStartDoes, ListenPollDoes
<1>10. ASSUME NEW l \in Streams, ListenParkedDoes(l) \/ ListenHoldDoes(l)
                                 \/ ListenSettleDoes(l) \/ ListenReturnDoes(l)
                                 \/ DropLeaseDoes(l) \/ DropElectionDoes(l)
      PROVE  Greeted'
  BY <1>10 DEF ListenParkedDoes, IsCancelled, InSender, Ending, Early, ListenHoldDoes,
     ListenSettleDoes, ListenReturnDoes, DropLeaseDoes, DropElectionDoes, Elects, AtPhase,
     Open4
<1>11. ASSUME NEW l \in Streams, RespondStdioDoes(l) \/ ReturnLocalDoes(l)
                                 \/ ElectOutcomeDoes(l) \/ TerminateEntryDoes(l)
                                 \/ CancelModernHttpOwnerDoes(l)
      PROVE  Greeted'
  BY <1>11 DEF RespondStdioDoes, InSender, Ending, Early, ReturnLocalDoes, ElectOutcomeDoes,
     TerminateEntryDoes, Elects, Works, AtPhase, Open4, IsCancelled,
     CancelModernHttpOwnerDoes
<1>12. ASSUME NEW a \in Actors, DecideDoes(a) \/ UnelectDoes(a) \/ MarkGracefulDoes(a)
                                \/ WakeDoes(a)
      PROVE  Greeted'
  BY <1>12 DEF DecideDoes, IsCancelled, InSender, Ending, Early, UnelectDoes, Elects,
     MarkGracefulDoes, WakeDoes
<1>13. ASSUME NEW p \in Publishers, PublishDoes(p) \/ DeliveredEventDoes(p)
      PROVE  Greeted'
  BY <1>13 DEF PublishDoes, Works, Frame, InSender, Ending, Early, DeliveredEventDoes,
     Elects, AtPhase, IsCancelled
<1>14. ASSUME NEW p \in Publishers, NEW l \in Streams, QueueDoes(p, l) \/ OfferDoes(p, l)
      PROVE  Greeted'
  BY <1>14 DEF QueueDoes, Elects, AtPhase, IsCancelled, InSender, Ending, Early, OfferDoes,
     Works
<1>15. ASSUME TerminateDoes \/ TakeEntriesDoes \/ DrainReceiptsDoes
      PROVE  Greeted'
  BY <1>15 DEF TerminateDoes, InSender, Ending, Early, TakeEntriesDoes, DrainReceiptsDoes
<1>. HIDE DEF Greeted
<1>. QED BY <1>1, <1>2, <1>3, <1>4, <1>5, <1>6, <1>7, <1>8, <1>9, <1>10, <1>11, <1>12,
         <1>13, <1>14, <1>15, <1>e, Writers

\* What the contract speaks of.
Wire == [l \in Streams |-> body[l].frames]

\* The kinds the contract finds on a stream.
LEMMA WireKinds ==
  ASSUME Shape, NEW x \in Streams
  PROVE  /\ \A k : k \in Contract!Kinds(x) <=> Has(x, {k})
         /\ ~Has(x, {"none"}) /\ ~Has(x, {"control"}) /\ ~Has(x, Responses) =>
              Contract!Kinds(x) \subseteq {"ack", "event"}
<1>1. body[x].frames \in Seq(Frames) /\ [l \in Streams |-> body[l].frames][x] = body[x].frames
  BY SentFrames
<1>2. \A k : k \in Contract!Kinds(x) <=> Has(x, {k})
  BY <1>1 DEF Contract!Kinds, Has, Shows
<1>3. \A k \in Contract!Kinds(x) : k \in Kinds
  <2>1. \A i \in DOMAIN body[x].frames : body[x].frames[i] \in Frames
    BY <1>1
  <2>2. \A i \in DOMAIN body[x].frames : body[x].frames[i].kind \in Kinds
    BY <2>1 DEF Frames
  <2>. QED BY <1>1, <2>2 DEF Contract!Kinds
<1>4. Has(x, {"complete"}) \/ Has(x, {"error"}) => Has(x, Responses)
  BY DEF Has, Shows, Responses
<1>. QED BY <1>2, <1>3, <1>4 DEF Kinds

\* A sender that can still send finds the acknowledgement and nothing final.
LEMMA CanDeliver ==
  ASSUME WireInv, NEW x \in Streams, Ready(x), ~Unacked(x), ~Resting(x)
  PROVE  "ack" \in Contract!Kinds(x) /\ Contract!Kinds(x) \subseteq {"ack", "event"}
<1>e. /\ Shape /\ Greeted /\ Withdrawn /\ Departed /\ Answered /\ Responded
  BY DEF WireInv, EndInv, EInv, Broken
<1>1. Has(x, {"ack"})
  BY <1>e DEF Greeted, Acked, Ready, Mute
<1>2. ~Has(x, {"control"}) /\ ~Has(x, {"none"})
  BY <1>e DEF Withdrawn, Answered
<1>3. ~Has(x, Responses)
  BY <1>e, KindIs DEF Responded, Departed, Answered, Ready, Mute, Barred, Leaving
<1>. QED BY <1>e, <1>1, <1>2, <1>3, WireKinds

\* Every step is a step of the contract or leaves the streams as they are.
LEMMA WireStep ==
  ASSUME WireInv, [Next]_vars
  PROVE  [Contract!Next]_([l \in Streams |-> body[l].frames])
<1>e. /\ Shape /\ Pristine /\ Greeted /\ Polite /\ Completion /\ Returned /\ Responded /\ Stages
  BY DEF WireInv, EndInv, EInv, Broken
<1>1. CASE FramesStay
  BY <1>1 DEF FramesStay
<1>2. ASSUME NEW x \in Streams, NEW f \in Frames, Appends(x, f), Cause(x, f)
      PROVE  Contract!Next
  <2>1. /\ body[x].frames \in Seq(Frames) /\ Wire[x] = body[x].frames
        /\ Wire'[x] = Append(body[x].frames, f)
    BY <1>e, <1>2, SentFrames DEF Wire, Appends
  <2>2. Len(Wire'[x]) = Len(Wire[x]) + 1 /\ Wire'[x][Len(Wire'[x])] = f
    BY <2>1
  <2>3. Wire' = [Wire EXCEPT ![x] = Append(@, f)]
    BY <1>2, <2>1 DEF Wire, Appends
  <2>4. Contract!Append1(x, f)
    BY <2>3 DEF Wire, Contract!Append1
  <2>5. SUFFICES \/ Contract!Acknowledge(x, f) \/ Contract!Deliver(x, f)
                 \/ Contract!Withdraw(x, f) \/ Contract!Answer(x, f)
    BY <2>2 DEF Contract!Next, Wire
  <2>6. CASE pc[x] = "ack" /\ f.kind = "ack"
    BY <1>e, <2>1, <2>4, <2>6 DEF Pristine, Contract!Acknowledge, Wire
  <2>7. CASE pc[x] = "deliver" /\ f.kind = "event" /\ Ready(x)
    <3>1. ~Unacked(x) /\ ~Resting(x)
      BY <2>7 DEF Unacked, Resting, Early, Ending, InSender
    <3>. QED BY <2>4, <2>7, <3>1, CanDeliver DEF Contract!Deliver, IsEvent
  <2>8. ASSUME NEW p \in Publishers, pc[p] = "deliver", job[p].on = x, f.kind = "event", Ready(x)
        PROVE  Contract!Deliver(x, f)
    <3>1. ~Unacked(x) /\ ~Resting(x)
      BY <2>8 DEF Unacked, Resting, InSender
    <3>. QED BY <2>4, <2>8, <3>1, CanDeliver DEF Contract!Deliver, IsEvent
  <2>9. ASSUME NEW a \in Actors, pc[a] = "control", job[a].on = x, f.kind = "control", Ready(x)
        PROVE  Contract!Withdraw(x, f)
    <3>1. ~Unacked(x) /\ ~Resting(x)
      BY <1>e, <2>9 DEF Unacked, Resting, Completion, Completing
    <3>. QED BY <2>4, <2>9, <3>1, CanDeliver DEF Contract!Withdraw
  <2>10. CASE pc[x] \in {"respond", "commit"} /\ f = ResponseFrame(x) /\ f.kind \in Responses
    <3>1. ~Has(x, Responses)
      BY <1>e, <2>10 DEF Responded
    <3>2. ~Has(x, {"complete"}) /\ ~Has(x, {"error"})
      BY <3>1 DEF Has, Shows, Responses
    <3>3. f.kind = "complete" => Has(x, {"ack"})
      BY <1>e, <2>10, SentFrames DEF Returned, Polite
    <3>. QED BY <1>e, <2>4, <2>10, <3>2, <3>3, WireKinds DEF Contract!Answer, Responses
  <2>. QED BY <1>2, <2>6, <2>7, <2>8, <2>9, <2>10 DEF Cause
<1>. QED BY <1>e, <1>1, <1>2, FrameCauses

\* The invariant of the contract is inductive.
LEMMA WireInvStarts == Init => WireInv
<1>. SUFFICES ASSUME Init PROVE WireInv
  OBVIOUS
<1>1. EndInv
  BY EndInvStarts
<1>2. \A l \in Streams : /\ pc[l] = "idle" /\ ~graceful[l] /\ phase[l].at = "Opening"
                         /\ receipt[l] = NewReceipt /\ body[l] = NewBody
  BY ActorAssumption DEF Init, Actors, Phase
<1>3. \A l \in Streams : /\ body[l].frames = <<>> /\ ~body[l].failed /\ ~body[l].committed
                         /\ receipt[l].control = "open"
  BY <1>2 DEF NewBody, NewReceipt
<1>4. \A a \in Actors : pc[a] \in {"next", "idle"}
  BY DEF Init
<1>5. \A l \in Streams : ~Has(l, {"none"}) /\ ~Has(l, {"control"}) /\ ~Has(l, Responses)
  BY <1>3 DEF Has, Shows
<1>6. Pristine
  BY <1>3 DEF Pristine
<1>7. Greeted /\ Polite
  BY <1>2, <1>4 DEF Greeted, Polite, Unacked, Early, InSender, Actors
<1>8. Withdrawn /\ Answered
  BY <1>5 DEF Withdrawn, Answered
<1>9. Unelected /\ Quiet /\ Departed
  BY <1>2, <1>4 DEF Unelected, Quiet, Departed, Waits, Leaving
<1>. QED BY <1>1, <1>6, <1>7, <1>8, <1>9 DEF WireInv

LEMMA WireInvStays ==
  ASSUME WireInv, [Next]_vars
  PROVE  WireInv'
<1>1. /\ EndInv /\ EInv /\ Shape /\ Returned /\ Pristine /\ Greeted /\ Polite /\ Withdrawn /\ Unelected
      /\ Quiet /\ Departed /\ Answered
  BY DEF WireInv, EndInv, EInv
<1>2. EndInv' /\ Pristine' /\ Answered' /\ Withdrawn'
  BY <1>1, EndInvStays, PristineStays, AnsweredStays, WithdrawnStays
<1>3. Greeted' /\ Polite' /\ Unelected' /\ Quiet' /\ Departed'
  BY <1>1, GreetedStays, PoliteStays, UnelectedStays, QuietStays, DepartedStays
<1>. QED BY <1>2, <1>3 DEF WireInv

\* The frames of every stream follow SubscriptionContract: one
\* acknowledgement, then events, then the terminal control or the response,
\* and nothing after it.
THEOREM ContractHolds == Spec => StreamContract
<1>1. Init => Contract!Init
  BY DEF Init, Contract!Init, NewBody
<1>2. WireInv /\ [Next]_vars => [Contract!Next]_([l \in Streams |-> body[l].frames])
  BY WireStep
<1>. QED BY <1>1, <1>2, WireInvStarts, WireInvStays, PTL DEF Spec, StreamContract, Contract!Spec

-----------------------------------------------------------------------------
(* The order. *)

\* Queues and publishers.
LEMMA QueuedStays ==
  ASSUME EInv, Queued, [Next]_vars
  PROVE  Queued'
<1>e. Shape /\ Fresh /\ Stages /\ Counted /\ Callbacks /\ Completion
  BY DEF EInv
<1>1. ASSUME UNCHANGED <<scenario, opening, phase>> PROVE Queued'
  BY <1>1 DEF Queued, Unopened
<1>. USE <1>e, ShapeIs DEF Queued, Unopened, Sets
<1>2. ASSUME NEW l \in Streams, ReserveDoes(l) \/ RetractElectionDoes(l) \/ DrainDoes(l)
      PROVE  Queued'
  BY <1>2 DEF ReserveDoes, Elects, Fresh, Early, RetractElectionDoes, Queues, AtPhase,
     DrainDoes, IsCancelled
<1>3. ASSUME NEW l \in Streams, DeliveredOpeningDoes(l) \/ DropElectionDoes(l)
                                \/ TerminateEntryDoes(l)
      PROVE  Queued'
  BY <1>3 DEF DeliveredOpeningDoes, Queues, Elects, IsCancelled, DropElectionDoes, AtPhase,
     Open4, TerminateEntryDoes
<1>4. ASSUME NEW a \in Actors, UnelectDoes(a) PROVE Queued'
  BY <1>4 DEF UnelectDoes, Elects, Completion, Completing
<1>5. ASSUME NEW p \in Publishers, NEW l \in Streams, QueueDoes(p, l) \/ OfferDoes(p, l)
      PROVE  Queued'
  BY <1>5 DEF QueueDoes, Queues, Elects, AtPhase, IsCancelled, OfferDoes
<1>6. ASSUME NEW p \in Publishers, DeliveredEventDoes(p) PROVE Queued'
  BY <1>6 DEF DeliveredEventDoes, Queues, Elects, AtPhase, IsCancelled
<1>7. ASSUME NEW l \in Streams, CancelModernHttpOwnerDoes(l) PROVE Queued'
  BY <1>7 DEF CancelModernHttpOwnerDoes, Queues, Elects, AtPhase, Open4
<1>. HIDE DEF Queued
<1>. QED BY <1>1, <1>2, <1>3, <1>4, <1>5, <1>6, <1>7, <1>e, Writers

LEMMA PublishedStays ==
  ASSUME Shape, Published, [Next]_vars
  PROVE  Published'
<1>1. ASSUME UNCHANGED <<scenario, pc, job, todo>> PROVE Published'
  BY <1>1 DEF Published, InSender, Actors, Owners
<1>2. ASSUME NEW p \in Publishers, DeliverEventDoes(p) PROVE Published'
  <2>1. /\ \A b \in Actors : b # p => pc'[b] = pc[b] /\ job'[b] = job[b]
        /\ pc[p] = "deliver" /\ pc'[p] = "delivered" /\ todo' = todo
        /\ job'[p].on = job[p].on /\ job'[p].event = job[p].event /\ job'[p].count = job[p].count
    BY <1>2 DEF DeliverEventDoes, Moves, Works, Sets
  <2>. QED BY <2>1 DEF Published, Actors, InSender
<1>. USE ShapeIs, ActorAssumption DEF Published, InSender, Actors, Owners, Moves, Sets
<1>3. ASSUME NEW l \in Streams, ListenDoes(l) \/ CheckOpenDoes(l) \/ ReserveDoes(l)
                                \/ AcknowledgeDoes(l) \/ AdmitStreamDoes(l)
                                \/ RetractEntryDoes(l)
      PROVE  Published'
  BY <1>3 DEF ListenDoes, CheckOpenDoes, IsCancelled, ReserveDoes, AcknowledgeDoes,
     AdmitStreamDoes, RetractEntryDoes
<1>4. ASSUME NEW l \in Streams, RetractElectionDoes(l) \/ DrainDoes(l)
                                \/ DeliverOpeningDoes(l) \/ DeliveredOpeningDoes(l)
                                \/ AbandonDoes(l) \/ DropHandleDoes(l)
      PROVE  Published'
  BY <1>4 DEF RetractElectionDoes, AtPhase, DrainDoes, Works, IsCancelled,
     DeliverOpeningDoes, DeliveredOpeningDoes, AbandonDoes, DropHandleDoes
<1>5. ASSUME NEW l \in Streams, ListenStartDoes(l) \/ ListenPollDoes(l)
                                \/ ListenParkedDoes(l) \/ ListenHoldDoes(l)
                                \/ ListenSettleDoes(l) \/ ListenReturnDoes(l)
      PROVE  Published'
  BY <1>5 DEF ListenStartDoes, ListenPollDoes, IsCancelled, ListenParkedDoes,
     ListenHoldDoes, ListenSettleDoes, ListenReturnDoes
<1>6. ASSUME NEW l \in Streams, DropLeaseDoes(l) \/ DropElectionDoes(l)
                                \/ RespondStdioDoes(l) \/ ReturnLocalDoes(l)
                                \/ RespondHttpDoes(l) \/ CommitResponseDoes(l)
      PROVE  Published'
  BY <1>6 DEF DropLeaseDoes, DropElectionDoes, AtPhase, Open4, RespondStdioDoes,
     ReturnLocalDoes, RespondHttpDoes, Works, IsCancelled, CommitResponseDoes
<1>7. ASSUME NEW l \in Streams, ElectOutcomeDoes(l) \/ TerminateEntryDoes(l)
      PROVE  Published'
  BY <1>7 DEF ElectOutcomeDoes, TerminateEntryDoes, Works, Plans, AtPhase, Open4,
     IsCancelled
<1>8. ASSUME NEW a \in Actors, SendControlDoes(a) \/ DecideDoes(a) \/ UnelectDoes(a)
                               \/ MarkGracefulDoes(a) \/ WakeDoes(a)
      PROVE  Published'
  BY <1>8 DEF SendControlDoes, Works, DecideDoes, IsCancelled, UnelectDoes,
     MarkGracefulDoes, WakeDoes
<1>9. ASSUME NEW p \in Publishers, PublishDoes(p) \/ DeliveredEventDoes(p)
      PROVE  Published'
  BY <1>9 DEF PublishDoes, Works, Plans, Frame, DeliveredEventDoes, AtPhase, IsCancelled
<1>10. ASSUME NEW p \in Publishers, NEW l \in Streams, QueueDoes(p, l) \/ OfferDoes(p, l)
                                                       \/ SkipDoes(p, l)
      PROVE  Published'
  BY <1>10 DEF QueueDoes, Plans, AtPhase, IsCancelled, OfferDoes, Works, SkipDoes
<1>11. ASSUME TerminateDoes \/ TakeEntriesDoes \/ DrainReceiptsDoes
      PROVE  Published'
  BY <1>11 DEF TerminateDoes, TakeEntriesDoes, Plans, DrainReceiptsDoes
<1>. HIDE DEF Published
<1>. QED BY <1>1, <1>2, <1>3, <1>4, <1>5, <1>6, <1>7, <1>8, <1>9, <1>10, <1>11, Writers

\* What a step does to the line of a stream, and to the publishers that still
\* owe it an event.
LEMMA LineShifts ==
  ASSUME EInv, NEW m \in Streams, [Next]_vars
  PROVE  Shifts(m)
<1>e. Shape /\ Fresh /\ Stages /\ Counted /\ Callbacks /\ Completion
  BY DEF EInv
<1>1. ASSUME UNCHANGED <<scenario, opening, admitted, pc, job, phase>> PROVE Shifts(m)
  BY <1>1 DEF Shifts, StillAt, Stuck, Actors, Unopened
<1>2. ASSUME NEW l \in Streams, DrainDoes(l) PROVE Shifts(m)
  <2>1. /\ l \in Actors /\ \A b \in Actors : b # l => pc'[b] = pc[b] /\ job'[b] = job[b]
        /\ \A k \in Streams : k # l => phase'[k] = phase[k] /\ opening'[k] = opening[k]
        /\ admitted' = admitted
    BY <1>2 DEF DrainDoes, Moves, Works, Elects, Queues, Sets, Actors
  <2>2. l # m => StillAt(m)
    BY <2>1, ActorAssumption DEF StillAt, Stuck, Actors
  <2>. QED BY <1>2, <2>2 DEF Shifts
<1>3. ASSUME NEW l \in Streams, DeliverOpeningDoes(l) PROVE Shifts(m)
  <2>1. /\ l \in Actors /\ \A b \in Actors : b # l => pc'[b] = pc[b] /\ job'[b] = job[b]
        /\ UNCHANGED <<opening, admitted, phase>>
    BY <1>3 DEF DeliverOpeningDoes, Moves, Works, Sets, Actors
  <2>2. l # m => StillAt(m)
    BY <2>1, ActorAssumption DEF StillAt, Stuck, Actors
  <2>. QED BY <1>3, <2>2 DEF Shifts
<1>4. ASSUME NEW l \in Streams, DeliveredOpeningDoes(l) PROVE Shifts(m)
  <2>1. /\ l \in Actors /\ \A b \in Actors : b # l => pc'[b] = pc[b]
        /\ pc[l] = "delivered" /\ pc'[l] # "deliver" /\ phase[l].at \in {"OpeningDelivery", "Pending", "PeerTerminated"}
        /\ \A k \in Streams : k # l => phase'[k] = phase[k] /\ opening'[k] = opening[k]
        /\ phase'[l].at \in {"Opening", "ServerTerminated", "PeerTerminated"}
        /\ phase'[l].at = "Opening" => (phase[l].at = "OpeningDelivery" /\ job[l].sent)
        /\ opening'[l] = opening[l] \/ (opening'[l] = <<>> /\ phase'[l].at = "PeerTerminated")
        /\ admitted' = admitted /\ job' = job
    BY <1>4, <1>e DEF DeliveredOpeningDoes, Moves, Elects, Queues, Sets, Actors, Stages, InSender
  <2>. QED BY <2>1, ActorAssumption DEF Shifts, StillAt, Stuck, Actors, Unopened
<1>5. ASSUME NEW l \in Streams, RespondHttpDoes(l) PROVE Shifts(m)
  <2>1. /\ l \in Actors /\ \A b \in Actors : b # l => pc'[b] = pc[b] /\ job'[b] = job[b]
        /\ pc[l] \in {"control", "respond", "commit"} /\ pc'[l] \in {"decide", "done", "commit", "elect"}
        /\ UNCHANGED <<opening, admitted, phase>>
    BY <1>5 DEF RespondHttpDoes, Moves, Works, Sets, Actors
  <2>. QED BY <2>1 DEF Shifts, StillAt, Stuck, Actors
<1>6. ASSUME NEW l \in Streams, CommitResponseDoes(l) PROVE Shifts(m)
  <2>1. /\ l \in Actors /\ \A b \in Actors : b # l => pc'[b] = pc[b] /\ job'[b] = job[b]
        /\ pc[l] \in {"control", "respond", "commit"} /\ pc'[l] \in {"decide", "done", "commit", "elect"}
        /\ UNCHANGED <<opening, admitted, phase>>
    BY <1>6 DEF CommitResponseDoes, Moves, Works, Sets, Actors
  <2>. QED BY <2>1 DEF Shifts, StillAt, Stuck, Actors
<1>7. ASSUME NEW a \in Actors, SendControlDoes(a) PROVE Shifts(m)
  <2>1. /\ a \in Actors /\ \A b \in Actors : b # a => pc'[b] = pc[b] /\ job'[b] = job[b]
        /\ pc[a] \in {"control", "respond", "commit"} /\ pc'[a] \in {"decide", "done", "commit", "elect"}
        /\ UNCHANGED <<opening, admitted, phase>>
    BY <1>7 DEF SendControlDoes, Moves, Works, Sets, Actors
  <2>. QED BY <2>1 DEF Shifts, StillAt, Stuck, Actors
<1>8. ASSUME NEW p \in Publishers, NEW l \in Streams, QueueDoes(p, l) PROVE Shifts(m)
  <2>1. /\ UNCHANGED <<pc, job>>
        /\ \A k \in Streams : k # l => phase'[k] = phase[k] /\ opening'[k] = opening[k] /\ admitted'[k] = admitted[k]
    BY <1>8 DEF QueueDoes, Elects, Queues, Admits, Sets
  <2>2. l # m => StillAt(m)
    BY <2>1 DEF StillAt, Stuck
  <2>. QED BY <1>8, <2>2 DEF Shifts
<1>9. ASSUME NEW p \in Publishers, DeliverEventDoes(p) PROVE Shifts(m)
  <2>1. /\ p \in Actors /\ \A b \in Actors : b # p => pc'[b] = pc[b] /\ job'[b] = job[b]
        /\ UNCHANGED <<opening, admitted, phase>> /\ pc'[p] = "delivered"
    BY <1>9 DEF DeliverEventDoes, Moves, Works, Sets, Actors
  <2>. QED BY <2>1, ActorAssumption DEF Shifts, StillAt, Stuck, Actors
<1>. USE <1>e, ShapeIs, ActorAssumption DEF Shifts, StillAt, Stuck, Actors, Unopened, Moves,
       Sets
<1>10. ASSUME NEW l \in Streams, ListenDoes(l) \/ CheckOpenDoes(l) \/ ReserveDoes(l)
                                 \/ AcknowledgeDoes(l) \/ AdmitStreamDoes(l)
                                 \/ RetractEntryDoes(l)
      PROVE  Shifts(m)
  BY <1>10 DEF ListenDoes, CheckOpenDoes, IsCancelled, ReserveDoes, Elects, Fresh, Early,
     AcknowledgeDoes, AdmitStreamDoes, RetractEntryDoes
<1>11. ASSUME NEW l \in Streams, RetractElectionDoes(l) PROVE Shifts(m)
  BY <1>11 DEF RetractElectionDoes, Queues, Elects, AtPhase
<1>12. ASSUME NEW l \in Streams, AbandonDoes(l) PROVE Shifts(m)
  BY <1>12 DEF AbandonDoes
<1>13. ASSUME NEW l \in Streams, DropHandleDoes(l) PROVE Shifts(m)
  BY <1>13 DEF DropHandleDoes
<1>14. ASSUME NEW l \in Streams, ListenStartDoes(l) \/ ListenPollDoes(l)
                                 \/ ListenParkedDoes(l)
      PROVE  Shifts(m)
  BY <1>14 DEF ListenStartDoes, ListenPollDoes, IsCancelled, ListenParkedDoes
<1>15. ASSUME NEW l \in Streams, ListenHoldDoes(l) \/ ListenSettleDoes(l)
                                 \/ ListenReturnDoes(l) \/ DropLeaseDoes(l)
                                 \/ DropElectionDoes(l) \/ RespondStdioDoes(l)
      PROVE  Shifts(m)
  BY <1>15 DEF ListenHoldDoes, IsCancelled, ListenSettleDoes, ListenReturnDoes,
     DropLeaseDoes, DropElectionDoes, Queues, Elects, AtPhase, Open4, RespondStdioDoes
<1>16. ASSUME NEW l \in Streams, ReturnLocalDoes(l) \/ ElectOutcomeDoes(l)
                                 \/ TerminateEntryDoes(l) \/ CancelModernHttpOwnerDoes(l)
      PROVE  Shifts(m)
  BY <1>16 DEF ReturnLocalDoes, ElectOutcomeDoes, TerminateEntryDoes, Queues, Works, Elects,
     AtPhase, Open4, IsCancelled, CancelModernHttpOwnerDoes
<1>17. ASSUME NEW a \in Actors, DecideDoes(a) \/ UnelectDoes(a) \/ MarkGracefulDoes(a)
                                \/ WakeDoes(a)
      PROVE  Shifts(m)
  BY <1>17 DEF DecideDoes, IsCancelled, UnelectDoes, Elects, MarkGracefulDoes, WakeDoes
<1>18. ASSUME NEW p \in Publishers, PublishDoes(p) \/ DeliveredEventDoes(p)
      PROVE  Shifts(m)
  BY <1>18 DEF PublishDoes, Works, Frame, DeliveredEventDoes, Queues, Elects, AtPhase,
     IsCancelled
<1>19. ASSUME NEW p \in Publishers, NEW l \in Streams, OfferDoes(p, l) PROVE Shifts(m)
  BY <1>19 DEF OfferDoes, Works, Elects, AtPhase, IsCancelled
<1>20. ASSUME TerminateDoes \/ TakeEntriesDoes \/ DrainReceiptsDoes
      PROVE  Shifts(m)
  BY <1>20 DEF TerminateDoes, TakeEntriesDoes, DrainReceiptsDoes
<1>. QED BY <1>1, <1>2, <1>3, <1>4, <1>5, <1>6, <1>7, <1>8, <1>9, <1>10, <1>11, <1>12,
         <1>13, <1>14, <1>15, <1>16, <1>17, <1>18, <1>19, <1>20, <1>e, Writers

LEMMA DueMoves ==
  ASSUME Shape, NEW m \in Streams, NEW p \in Publishers, [Next]_vars
  PROVE  /\ Due(p, m)' => Due(p, m) \/ PublishDoes(p)
         /\ job'[p].count = job[p].count \/ (PublishDoes(p) /\ job'[p].count = job[p].count + 1)
<1>. DEFINE Goal == /\ Due(p, m)' => Due(p, m) \/ PublishDoes(p)
                    /\ job'[p].count = job[p].count \/ (PublishDoes(p) /\ job'[p].count = job[p].count + 1)
<1>1. ASSUME UNCHANGED <<scenario, pc, job, todo>> PROVE Goal
  BY <1>1 DEF Due, Actors, Owners
<1>. USE ShapeIs, ActorAssumption DEF Due, Actors, Owners, Moves, Sets
<1>2. ASSUME NEW l \in Streams, ListenDoes(l) \/ CheckOpenDoes(l) \/ ReserveDoes(l)
                                \/ AcknowledgeDoes(l) \/ AdmitStreamDoes(l)
                                \/ RetractEntryDoes(l)
      PROVE  Goal
  BY <1>2 DEF ListenDoes, CheckOpenDoes, IsCancelled, ReserveDoes, AcknowledgeDoes,
     AdmitStreamDoes, RetractEntryDoes
<1>3. ASSUME NEW l \in Streams, RetractElectionDoes(l) \/ DrainDoes(l)
                                \/ DeliverOpeningDoes(l) \/ DeliveredOpeningDoes(l)
                                \/ AbandonDoes(l) \/ DropHandleDoes(l)
      PROVE  Goal
  BY <1>3 DEF RetractElectionDoes, AtPhase, DrainDoes, Works, IsCancelled,
     DeliverOpeningDoes, DeliveredOpeningDoes, AbandonDoes, DropHandleDoes
<1>4. ASSUME NEW l \in Streams, ListenStartDoes(l) \/ ListenPollDoes(l)
                                \/ ListenParkedDoes(l) \/ ListenHoldDoes(l)
                                \/ ListenSettleDoes(l) \/ ListenReturnDoes(l)
      PROVE  Goal
  BY <1>4 DEF ListenStartDoes, ListenPollDoes, IsCancelled, ListenParkedDoes,
     ListenHoldDoes, ListenSettleDoes, ListenReturnDoes
<1>5. ASSUME NEW l \in Streams, DropLeaseDoes(l) \/ DropElectionDoes(l)
                                \/ RespondStdioDoes(l) \/ ReturnLocalDoes(l)
                                \/ RespondHttpDoes(l) \/ CommitResponseDoes(l)
      PROVE  Goal
  BY <1>5 DEF DropLeaseDoes, DropElectionDoes, AtPhase, Open4, RespondStdioDoes,
     ReturnLocalDoes, RespondHttpDoes, Works, IsCancelled, CommitResponseDoes
<1>6. ASSUME NEW l \in Streams, ElectOutcomeDoes(l) \/ TerminateEntryDoes(l)
      PROVE  Goal
  BY <1>6 DEF ElectOutcomeDoes, TerminateEntryDoes, Works, Plans, AtPhase, Open4,
     IsCancelled
<1>7. ASSUME NEW a \in Actors, SendControlDoes(a) \/ DecideDoes(a) \/ UnelectDoes(a)
                               \/ MarkGracefulDoes(a) \/ WakeDoes(a)
      PROVE  Goal
  BY <1>7 DEF SendControlDoes, Works, DecideDoes, IsCancelled, UnelectDoes,
     MarkGracefulDoes, WakeDoes
<1>8. ASSUME NEW q \in Publishers, PublishDoes(q) \/ DeliverEventDoes(q)
                                   \/ DeliveredEventDoes(q)
      PROVE  Goal
  BY <1>8 DEF PublishDoes, Works, Plans, Frame, DeliverEventDoes, DeliveredEventDoes,
     AtPhase, IsCancelled
<1>9. ASSUME NEW q \in Publishers, NEW l \in Streams, QueueDoes(q, l) \/ OfferDoes(q, l)
                                                      \/ SkipDoes(q, l)
      PROVE  Goal
  BY <1>9 DEF QueueDoes, Plans, AtPhase, IsCancelled, OfferDoes, Works, SkipDoes
<1>10. ASSUME TerminateDoes \/ TakeEntriesDoes \/ DrainReceiptsDoes
      PROVE  Goal
  BY <1>10 DEF TerminateDoes, TakeEntriesDoes, Plans, DrainReceiptsDoes
<1>. HIDE DEF Goal
<1>g. Goal
  BY <1>1, <1>2, <1>3, <1>4, <1>5, <1>6, <1>7, <1>8, <1>9, <1>10, Writers
<1>. QED BY <1>g DEF Goal

\* Ranks when a frame is appended.
LEMMA RankMore ==
  ASSUME NEW s \in Seq(Frames), NEW f \in Frames
  PROVE  /\ Total(s) \in Nat
         /\ \A i \in DOMAIN s : /\ RankIn(s, i) \in Nat /\ RankIn(s, i) <= Total(s)
                                /\ RankIn(Append(s, f), i) = RankIn(s, i)
         /\ RankIn(Append(s, f), Len(s) + 1) = Total(Append(s, f))
         /\ Total(Append(s, f)) = IF IsEvent(f) THEN Total(s) + 1 ELSE Total(s)
<1>. DEFINE E(i) == {j \in 1..i : IsEvent(s[j])}
            G(i) == {j \in 1..i : IsEvent(Append(s, f)[j])}
            n == Len(s)
<1>0. n \in Nat /\ DOMAIN s = 1..n /\ Len(Append(s, f)) = n + 1
  OBVIOUS
<1>1. \A i \in Nat : IsFiniteSet(E(i)) /\ Cardinality(E(i)) \in Nat
  <2>1. \A i \in Nat : IsFiniteSet(1..i)
    BY FS_Interval
  <2>. QED BY <2>1, FS_Subset, FS_CardinalityType
<1>2. ASSUME NEW i \in 1..n PROVE Cardinality(E(i)) <= Cardinality(E(n))
  <2>1. E(i) \subseteq E(n)
    BY <1>0
  <2>. QED BY <2>1, <1>0, <1>1, FS_Subset
<1>3. \A j \in 1..n : Append(s, f)[j] = s[j]
  BY <1>0
<1>4. Append(s, f)[n + 1] = f
  BY <1>0
<1>5. \A i \in 1..n : G(i) = E(i)
  BY <1>0, <1>3
<1>6. IsEvent(f) => G(n + 1) = E(n) \cup {n + 1}
  BY <1>0, <1>3, <1>4
<1>7. ~IsEvent(f) => G(n + 1) = E(n)
  BY <1>0, <1>3, <1>4
<1>8. Cardinality(E(n) \cup {n + 1}) = Cardinality(E(n)) + 1
  <2>1. n + 1 \notin E(n) /\ IsFiniteSet(E(n))
    BY <1>0, <1>1
  <2>. QED BY <2>1, FS_AddElement
<1>9. /\ Total(s) = Cardinality(E(n)) /\ Total(Append(s, f)) = Cardinality(G(n + 1))
      /\ RankIn(Append(s, f), n + 1) = Cardinality(G(n + 1))
      /\ \A i \in 1..n : RankIn(s, i) = Cardinality(E(i)) /\ RankIn(Append(s, f), i) = Cardinality(G(i))
  BY <1>0 DEF RankIn, Total
<1>. HIDE DEF E, G
<1>10. Cardinality(E(n)) \in Nat /\ \A i \in 1..n : Cardinality(E(i)) \in Nat
  BY <1>0, <1>1
<1>11. Total(Append(s, f)) = IF IsEvent(f) THEN Total(s) + 1 ELSE Total(s)
  BY <1>6, <1>7, <1>8, <1>9
<1>. QED BY <1>0, <1>2, <1>5, <1>9, <1>10, <1>11

LEMMA LineOfIs ==
  ASSUME NEW d \in BOOLEAN, NEW e, NEW q \in Seq(Queueable), d => e \in Queueable
  PROVE  LineFits(d, e, q, LineOf(d, e, q))
BY DEF LineFits, LineOf

\* The order of publishers when the line shrinks, leads and grows.
LEMMA AscendingShrinks ==
  ASSUME NEW s, NEW q \in Seq(Queueable), NEW r \in Seq(Queueable), Ascending(s, q), Shorter(r, q)
  PROVE  Ascending(s, r)
<1>1. DOMAIN r \subseteq DOMAIN q
  BY DEF Shorter
<1>. QED BY <1>1 DEF Ascending, Shorter

LEMMA AscendingGrows ==
  ASSUME NEW s \in Seq(Frames), NEW q \in Seq(Queueable), NEW f \in Frames, Ascending(s, q),
         IsEvent(f) => /\ \A i \in DOMAIN s : IsEvent(s[i]) => Before(s[i], f)
                       /\ \A k \in DOMAIN q : Before(f, q[k])
  PROVE  Ascending(Append(s, f), q)
<1>1. /\ DOMAIN Append(s, f) = DOMAIN s \cup {Len(s) + 1} /\ Append(s, f)[Len(s) + 1] = f
      /\ \A i \in DOMAIN s : Append(s, f)[i] = s[i] /\ i \in Nat /\ i < Len(s) + 1
  OBVIOUS
<1>. QED BY <1>1 DEF Ascending

LEMMA AscendingJoins ==
  ASSUME NEW s \in Seq(Frames), NEW q \in Seq(Queueable), NEW f \in Queueable, Ascending(s, q),
         \A i \in DOMAIN s : IsEvent(s[i]) => Before(s[i], f), \A k \in DOMAIN q : Before(q[k], f)
  PROVE  Ascending(s, Append(q, f))
<1>1. /\ DOMAIN Append(q, f) = DOMAIN q \cup {Len(q) + 1} /\ Append(q, f)[Len(q) + 1] = f
      /\ \A i \in DOMAIN q : Append(q, f)[i] = q[i] /\ i \in Nat /\ i < Len(q) + 1
  OBVIOUS
<1>. QED BY <1>1 DEF Ascending

\* The order of admission when the stream grows and when the queue does.
LEMMA OrderedGrows ==
  ASSUME NEW s \in Seq(Frames), NEW a \in Seq(Queueable), NEW f \in Frames, Ordered(s, a),
         IsEvent(f) => IF Total(s) + 1 <= Len(a) THEN f = a[Total(s) + 1] ELSE ~Occurs(f, a)
  PROVE  Ordered(Append(s, f), a)
<1>1. /\ DOMAIN Append(s, f) = DOMAIN s \cup {Len(s) + 1} /\ Append(s, f)[Len(s) + 1] = f
      /\ \A i \in DOMAIN s : Append(s, f)[i] = s[i]
  OBVIOUS
<1>. QED BY <1>1, RankMore DEF Ordered

LEMMA OrderedJoins ==
  ASSUME NEW s \in Seq(Frames), NEW a \in Seq(Queueable), NEW f \in Queueable, Ordered(s, a),
         Total(s) <= Len(a)
  PROVE  Ordered(s, Append(a, f))
<1>1. Len(Append(a, f)) = Len(a) + 1 /\ \A i \in DOMAIN a : Append(a, f)[i] = a[i]
  OBVIOUS
<1>2. ASSUME NEW i \in DOMAIN s, IsEvent(s[i]) PROVE RankIn(s, i) \in 1..Len(a)
  <2>1. f \in Frames
    BY DEF Queueable, Frames, Kinds, Actors
  <2>2. RankIn(s, i) \in Nat /\ RankIn(s, i) <= Total(s) /\ Total(s) \in Nat
    BY <2>1, RankMore
  <2>3. RankIn(s, i) # 0
    <3>1. {j \in 1..i : IsEvent(s[j])} # {} /\ IsFiniteSet({j \in 1..i : IsEvent(s[j])})
      <4>1. i \in 1..i /\ IsFiniteSet(1..i)
        BY FS_Interval
      <4>. QED BY <4>1, <1>2, FS_Subset
    <3>. QED BY <3>1, FS_EmptySet DEF RankIn
  <2>. QED BY <2>2, <2>3
<1>. QED BY <1>1, <1>2 DEF Ordered

\* A line is a sequence of events, and a stream that is mute stays mute.
LEMMA LineIs ==
  ASSUME EInv, EInv', NEW m \in Streams
  PROVE  /\ body[m].frames \in Seq(Frames) /\ body'[m].frames \in Seq(Frames)
         /\ admitted[m] \in Seq(Queueable) /\ admitted'[m] \in Seq(Queueable)
         /\ opening[m] \in Seq(Queueable) /\ opening'[m] \in Seq(Queueable)
         /\ LineFits(pc[m] = "deliver", job[m].event, opening[m], Line(m))
         /\ LineFits(pc'[m] = "deliver", job'[m].event, opening'[m], Line(m)')
<1>1. Shape /\ Shape'
  BY DEF EInv
<1>2. /\ body[m] \in Bodies /\ body'[m] \in Bodies
      /\ admitted[m] \in Seq(Queueable) /\ admitted'[m] \in Seq(Queueable)
      /\ opening[m] \in Seq(Queueable) /\ opening'[m] \in Seq(Queueable)
  BY <1>1 DEF Shape, Typed
<1>3. /\ pc[m] = "deliver" => job[m].event \in Queueable
      /\ pc'[m] = "deliver" => job'[m].event \in Queueable
  BY <1>1 DEF Shape, Placed, Carrying, InSender
<1>. QED BY <1>2, <1>3, LineOfIs DEF Bodies, Line

LEMMA MuteLasts ==
  ASSUME Shape, NEW m \in Streams, Mute(m), [Next]_vars
  PROVE  Mute(m)'
<1>1. Kind' = Kind
  BY Writers DEF Kind
<1>. QED BY <1>1, CancelLasts, MarksLast DEF Mute

\* Each kind of step is one of the ways a line moves.
LEMMA StillKeeps ==
  ASSUME EInv, EInv', Queued', NEW m \in Streams, StillAt(m)
  PROVE  Keeps(m)
<1>1. /\ LineFits(pc[m] = "deliver", job[m].event, opening[m], Line(m))
      /\ LineFits(pc'[m] = "deliver", job'[m].event, opening'[m], Line(m)')
      /\ opening[m] \in Seq(Queueable)
  BY LineIs
<1>2. opening'[m] = opening[m] => Line(m)' = Line(m)
  BY DEF StillAt, Line, LineOf
<1>3. Shorter(Line(m)', Line(m))
  <2>1. CASE opening'[m] = opening[m]
    BY <1>1, <1>2, <2>1 DEF Shorter, LineFits
  <2>2. CASE opening'[m] = <<>>
    BY <1>1, <2>2 DEF Shorter, LineFits, StillAt
  <2>. QED BY <2>1, <2>2 DEF StillAt
<1>4. Stuck(m) => Stuck(m)' \/ (Line(m)' = <<>> /\ phase'[m].at \notin Unopened)
  BY <1>1 DEF StillAt, Stuck, Queued, LineFits
<1>5. Direct(m)' => Direct(m)
  BY DEF StillAt, Direct
<1>. QED BY <1>2, <1>3, <1>4, <1>5 DEF StillAt, Keeps

LEMMA DrainKeeps ==
  ASSUME EInv, EInv', NEW m \in Streams, DrainDoes(m)
  PROVE  Keeps(m)
<1>1. /\ LineFits(pc[m] = "deliver", job[m].event, opening[m], Line(m))
      /\ LineFits(pc'[m] = "deliver", job'[m].event, opening'[m], Line(m)')
      /\ opening[m] \in Seq(Queueable)
  BY LineIs
<1>2. /\ pc[m] = "drain" /\ admitted' = admitted /\ m \in Actors
      /\ \A p \in Publishers : pc'[p] = pc[p] /\ job'[p] = job[p]
  BY ActorAssumption DEF DrainDoes, Moves, Works, Sets, Actors
<1>3. \/ /\ pc'[m] = "deliver" /\ opening[m] # <<>> /\ opening'[m] = Tail(opening[m])
         /\ job'[m].event = Head(opening[m]) /\ phase[m].at = "Opening"
         /\ phase'[m].at = "OpeningDelivery"
      \/ /\ pc'[m] = "listen" /\ opening[m] = <<>> /\ opening' = opening
         /\ phase[m].at = "Opening" /\ phase'[m].at = "Active"
      \/ /\ pc'[m] \in {"control", "abandon"} /\ opening'[m] = <<>>
         /\ phase'[m].at \in {"ServerTerminated", "PeerTerminated"}
  BY DEF DrainDoes, Moves, Elects, Queues, Works, Sets
<1>4. Line(m) = opening[m]
  BY <1>1, <1>2 DEF LineFits
<1>5. CASE pc'[m] = "deliver"
  <2>1. Len(Line(m)') = Len(opening[m]) /\ \A k \in DOMAIN Line(m)' : Line(m)'[k] = opening[m][k]
    <3>1. /\ Line(m)' \in Seq(Queueable) /\ Len(Line(m)') = Len(Tail(opening[m])) + 1
          /\ Line(m)'[1] = Head(opening[m])
          /\ \A k \in DOMAIN Tail(opening[m]) : Line(m)'[k + 1] = Tail(opening[m])[k]
      BY <1>1, <1>3, <1>5 DEF LineFits
    <3>2. opening[m] \in Seq(Queueable) /\ opening[m] # <<>>
      BY <1>1, <1>3, <1>5
    <3>3. ASSUME NEW k \in 1..Len(opening[m]) PROVE Line(m)'[k] = opening[m][k]
      <4>1. CASE k = 1
        BY <3>1, <3>2, <4>1
      <4>2. CASE k # 1
        <5>1. /\ k - 1 \in DOMAIN Tail(opening[m]) /\ Tail(opening[m])[k - 1] = opening[m][k]
              /\ (k - 1) + 1 = k
          BY <3>2, <3>3, <4>2
        <5>. QED BY <3>1, <5>1
      <4>. QED BY <4>1, <4>2
    <3>. QED BY <3>1, <3>2, <3>3
  <2>. QED BY <1>2, <1>3, <1>4, <1>5, <2>1 DEF Keeps, Shorter, Unopened, Direct, Stuck
<1>6. CASE pc'[m] # "deliver"
  <2>1. Line(m)' = opening'[m]
    BY <1>1, <1>6 DEF LineFits
  <2>2. Shorter(Line(m)', Line(m))
    BY <1>1, <1>3, <1>4, <1>6, <2>1 DEF Shorter
  <2>. QED BY <1>2, <1>3, <1>4, <1>6, <2>1, <2>2 DEF Keeps, Unopened, Direct, Stuck
<1>. QED BY <1>5, <1>6

LEMMA QueueJoins ==
  ASSUME EInv, EInv', Queued', Published, NEW m \in Streams, NEW p \in Publishers, QueueDoes(p, m)
  PROVE  Keeps(m) \/ Joins(p, m)
<1>1. /\ LineFits(pc[m] = "deliver", job[m].event, opening[m], Line(m))
      /\ LineFits(pc'[m] = "deliver", job'[m].event, opening'[m], Line(m)')
      /\ opening[m] \in Seq(Queueable) /\ admitted[m] \in Seq(Queueable)
  BY LineIs
<1>2. /\ pc' = pc /\ job' = job /\ body' = body /\ phase[m].at \in Unopened
      /\ pc[p] = "next" /\ m \in todo[p] /\ m \notin todo'[p]
      /\ \/ /\ phase'[m].at = "PeerTerminated" /\ opening'[m] = <<>> /\ admitted' = admitted
         \/ /\ opening'[m] = Append(opening[m], job[p].event)
            /\ admitted'[m] = Append(admitted[m], job[p].event) /\ UNCHANGED <<phase, word>>
  BY DEF QueueDoes, Plans, Elects, Queues, Admits, Sets, AtPhase, Unopened, Owners
<1>3. CASE phase'[m].at = "PeerTerminated" /\ opening'[m] = <<>> /\ admitted' = admitted
  <2>1. StillAt(m)
    BY <1>2, <1>3 DEF StillAt, Unopened, Stuck
  <2>. QED BY <2>1, StillKeeps
<1>4. CASE /\ opening'[m] = Append(opening[m], job[p].event)
           /\ admitted'[m] = Append(admitted[m], job[p].event) /\ UNCHANGED <<phase, word>>
  <2>1. job[p].event \in Queueable
    BY <1>2, ShapeIs DEF EInv, Carrying
  <2>2. Line(m)' = Append(Line(m), job[p].event)
    <3>1. CASE pc[m] = "deliver"
      <4>1. job[m].event \in Queueable
        BY <3>1, ShapeIs DEF EInv, Carrying, InSender
      <4>2. <<job[m].event>> \o Append(opening[m], job[p].event)
              = Append(<<job[m].event>> \o opening[m], job[p].event)
        BY <1>1, <2>1, <4>1
      <4>. QED BY <1>2, <1>4, <3>1, <4>2 DEF Line, LineOf
    <3>2. CASE pc[m] # "deliver"
      BY <1>1, <1>2, <1>4, <3>2 DEF LineFits
    <3>. QED BY <3>1, <3>2
  <2>. QED BY <1>2, <1>4, <2>2 DEF Joins
<1>. QED BY <1>2, <1>3, <1>4

LEMMA DeliverOpeningLeads ==
  ASSUME EndInv, EInv', NEW m \in Streams, DeliverOpeningDoes(m)
  PROVE  Leads(m)
<1>e. EInv /\ Shape /\ Returned
  BY DEF EndInv, EInv
<1>1. LineFits(pc'[m] = "deliver", job'[m].event, opening'[m], Line(m)')
  BY <1>e, LineIs
<1>2. /\ pc[m] = "deliver" /\ pc'[m] = "delivered" /\ m \in Actors
      /\ UNCHANGED <<phase, opening, admitted, scenario>>
      /\ \A p \in Publishers : pc'[p] = pc[p] /\ job'[p] = job[p]
  BY ActorAssumption DEF DeliverOpeningDoes, Moves, Works, Sets, Actors
<1>3. \/ body'[m].frames = Append(body[m].frames, job[m].event) /\ ~Mute(m)
      \/ body'[m].frames = body[m].frames /\ Refuses(m) /\ ~Mute(m) /\ Kind[m] # "local"
      \/ body'[m].frames = body[m].frames /\ Drops(m) /\ Mute(m)
      \/ body'[m].frames = body[m].frames /\ ~job'[m].sent
  BY DEF DeliverOpeningDoes, Sends, Refuses, Drops, Panics, Holds, Works, Ready
<1>4. ASSUME Refuses(m), Kind[m] # "local" PROVE Mute(m)'
  <2>1. word[m] \in {"active", "cancelled"}
    BY <1>e, <1>2, MoreShape DEF Returned, Words
  <2>2. IsCancelled(m)' /\ body'[m].failed
    BY <1>4, <2>1 DEF Refuses, Cancels, Sets, CancelledWord, IsCancelled, Holds
  <2>3. Kind[m] \in {"stdio", "http"} /\ Kind' = Kind
    BY <1>e, <1>2, <1>4, KindIs DEF Kind
  <2>. QED BY <2>2, <2>3 DEF Mute
<1>5. ASSUME Drops(m), Mute(m) PROVE Mute(m)'
  BY <1>2, <1>5 DEF Drops, Mute, Kind, IsCancelled
<1>6. Line(m)' = opening[m]
  BY <1>1, <1>2 DEF LineFits
<1>7. Direct(m)' => Direct(m)
  BY <1>2 DEF Direct
<1>. QED BY <1>2, <1>3, <1>4, <1>5, <1>6, <1>7 DEF Leads, Stuck

\* So is every step.
LEMMA LinesMove ==
  ASSUME EndInv, EInv', Queued, Queued', Published, [Next]_vars, NEW m \in Streams
  PROVE  LineMoves(m)
<1>e. EInv /\ Shape /\ Callbacks
  BY DEF EndInv, EInv
<1>1. Shifts(m)
  BY <1>e, LineShifts
<1>2. SameEvents(m) => LineMoves(m)
  BY <1>e, <1>1, StillKeeps, DrainKeeps, QueueJoins, DeliverOpeningLeads DEF Shifts, LineMoves
<1>3. CASE FramesStay
  BY <1>2, <1>3 DEF FramesStay, SameEvents
<1>4. ASSUME NEW x \in Streams, NEW f \in Frames, Appends(x, f), Cause(x, f) PROVE LineMoves(m)
  <2>1. CASE x # m \/ ~IsEvent(f)
    BY <1>2, <1>4, <2>1 DEF Appends, SameEvents
  <2>2. CASE x = m /\ IsEvent(f) /\ DeliverOpeningDoes(m)
    BY <2>2, DeliverOpeningLeads DEF LineMoves
  <2>3. ASSUME NEW p \in Publishers, x = m, DeliverEventDoes(p), job[p].on = m, f = job[p].event, Ready(m)
        PROVE  LineMoves(m)
    <3>1. /\ pc[p] = "deliver" /\ pc'[p] = "delivered" /\ UNCHANGED <<opening, phase, admitted, todo>>
          /\ \A b \in Actors : b # p => pc'[b] = pc[b] /\ job'[b] = job[b]
      BY <2>3 DEF DeliverEventDoes, Moves, Works, Sets, Actors
    <3>2. StillAt(m)
      BY <3>1, ActorAssumption DEF StillAt, Stuck, Actors
    <3>3. pc[m] \in Leased /\ phase[m].at \notin Unopened
      BY <1>e, <2>3, <3>1 DEF Callbacks, InSender, Unopened
    <3>4. Line(m) = <<>>
      BY <3>3 DEF Line, LineOf, Queued, Leased, Waits, Leaving
    <3>. QED BY <1>e, <1>4, <2>3, <3>1, <3>2, <3>3, <3>4, StillKeeps
             DEF LineMoves, Passes, Appends, Ready
  <2>. QED BY <1>4, <2>1, <2>2, <2>3 DEF Cause, IsEvent, Responses
<1>. QED BY <1>e, <1>3, <1>4, FrameCauses

\* An event is seen only if it was, or if its publisher just sent or queued
\* it.
LEMMA SeenMoves ==
  ASSUME EndInv, EInv', Published, NEW m \in Streams, LineMoves(m), NEW e \in Frames, IsEvent(e),
         Seen(m, e)'
  PROVE  Seen(m, e) \/ \E p \in Publishers : e = job[p].event /\ Due(p, m) /\ ~Due(p, m)'
<1>1. EInv
  BY DEF EndInv
<1>2. /\ body[m].frames \in Seq(Frames) /\ admitted[m] \in Seq(Queueable) /\ opening[m] \in Seq(Queueable)
      /\ LineFits(pc[m] = "deliver", job[m].event, opening[m], Line(m))
      /\ Line(m)' \in Seq(Queueable)
  BY <1>1, LineIs DEF LineFits
<1>3. ASSUME Keeps(m) PROVE (Occurs(e, Line(m)') => Occurs(e, Line(m))) /\ admitted'[m] = admitted[m]
  <2>1. DOMAIN Line(m)' \subseteq DOMAIN Line(m)
    BY <1>2, <1>3 DEF Keeps, Shorter, LineFits
  <2>. QED BY <1>3, <2>1 DEF Keeps, Shorter, Occurs
<1>4. \A s \in Seq(Frames), f \in Frames : Occurs(e, Append(s, f)) => Occurs(e, s) \/ e = f
  BY DEF Occurs
<1>5. \A s \in Seq(Queueable), f \in Queueable : Occurs(e, Append(s, f)) => Occurs(e, s) \/ e = f
  BY DEF Occurs
<1>6. CASE Keeps(m) /\ SameEvents(m)
  <2>1. Occurs(e, body'[m].frames) => Occurs(e, body[m].frames)
    BY <1>2, <1>4, <1>6 DEF SameEvents
  <2>. QED BY <1>3, <1>6, <2>1 DEF Seen
<1>7. ASSUME NEW p \in Publishers, Keeps(m), Passes(p, m)
      PROVE  Seen(m, e) \/ (e = job[p].event /\ Due(p, m) /\ ~Due(p, m)')
  <2>1. job[p].event \in Frames
    BY <1>1, <1>7, SentFrames DEF EInv, Passes
  <2>2. Occurs(e, body'[m].frames) => Occurs(e, body[m].frames) \/ e = job[p].event
    BY <1>2, <1>4, <1>7, <2>1 DEF Passes
  <2>3. Due(p, m) /\ ~Due(p, m)'
    BY <1>7 DEF Passes, Due, Published, InSender
  <2>. QED BY <1>3, <1>7, <2>2, <2>3 DEF Seen
<1>8. ASSUME NEW p \in Publishers, Joins(p, m)
      PROVE  Seen(m, e) \/ (e = job[p].event /\ Due(p, m) /\ ~Due(p, m)')
  <2>1. job[p].event \in Queueable
    BY <1>1, <1>8, ShapeIs DEF EInv, Carrying, Joins
  <2>2. /\ Occurs(e, Line(m)') => Occurs(e, Line(m)) \/ e = job[p].event
        /\ Occurs(e, admitted'[m]) => Occurs(e, admitted[m]) \/ e = job[p].event
    BY <1>2, <1>5, <1>8, <2>1 DEF Joins, LineFits
  <2>3. Due(p, m) /\ ~Due(p, m)' /\ body' = body
    BY <1>8 DEF Joins, Due
  <2>. QED BY <2>2, <2>3 DEF Seen
<1>9. CASE Leads(m)
  <2>1. Occurs(e, opening[m]) => Occurs(e, Line(m))
    BY <1>2, <1>9 DEF Leads, LineFits, Occurs
  <2>2. Occurs(job[m].event, Line(m)) /\ job[m].event \in Frames
    BY <1>1, <1>2, <1>9, SentFrames DEF Leads, LineFits, Occurs, EInv
  <2>3. Occurs(e, body'[m].frames) => Occurs(e, body[m].frames) \/ e = job[m].event
    BY <1>2, <1>4, <1>9, <2>2 DEF Leads
  <2>. QED BY <1>9, <2>1, <2>2, <2>3 DEF Seen, Leads
<1>. QED BY <1>6, <1>7, <1>8, <1>9 DEF LineMoves

\* Numbers stay below their publisher's.
LEMMA BoundedStays ==
  ASSUME EndInv, EInv', Published, Bounded, \A m \in Streams : LineMoves(m), [Next]_vars
  PROVE  Bounded'
<1>1. Shape /\ Shape'
  BY DEF EndInv, EInv
<1>. SUFFICES ASSUME NEW m \in Streams, NEW p \in Publishers, NEW e \in Frames, Seen(m, e)', IsEvent(e),
                     e.by = p
              PROVE  e.nr <= job'[p].count /\ (Due(p, m)' => e.nr < job'[p].count)
  BY DEF Bounded
<1>2. job[p].count \in Nat /\ e.nr \in Nat
  BY <1>1, ShapeIs DEF Jobs, Frames, Actors
<1>3. /\ Due(p, m)' => Due(p, m) \/ job'[p].count = job[p].count + 1
      /\ job'[p].count = job[p].count \/ job'[p].count = job[p].count + 1
  BY <1>1, DueMoves DEF PublishDoes, Works
<1>4. CASE Seen(m, e)
  <2>1. e.nr <= job[p].count /\ (Due(p, m) => e.nr < job[p].count)
    BY <1>4 DEF Bounded
  <2>. QED BY <1>2, <1>3, <2>1
<1>5. ASSUME NEW q \in Publishers, e = job[q].event, Due(q, m), ~Due(q, m)'
      PROVE  e.nr <= job'[p].count /\ ~Due(p, m)'
  <2>1. e = Frame("event", q, job[q].count)
    BY <1>5 DEF Due, Published
  <2>2. q = p /\ e.nr = job[p].count
    BY <2>1 DEF Frame
  <2>. QED BY <1>2, <1>3, <1>5, <2>2
<1>. QED BY <1>4, <1>5, SeenMoves

\* The event a publisher offers a stream comes after all of its own there.
LEMMA NewestIsLast ==
  ASSUME EndInv, Published, Bounded, NEW m \in Streams, NEW p \in Publishers, Due(p, m)
  PROVE  /\ job[p].event \in Queueable /\ ~Occurs(job[p].event, admitted[m])
         /\ \A i \in DOMAIN body[m].frames :
              IsEvent(body[m].frames[i]) => Before(body[m].frames[i], job[p].event)
         /\ \A k \in DOMAIN Line(m) : Before(Line(m)[k], job[p].event)
<1>1. Shape /\ EInv
  BY DEF EndInv, EInv
<1>2. job[p].event = Frame("event", p, job[p].count) /\ job[p].event \in Queueable
  BY <1>1, ShapeIs DEF Due, Published, Carrying
<1>3. job[p].event.by = p /\ job[p].event.nr = job[p].count /\ job[p].count \in Nat
  BY <1>1, <1>2, ShapeIs DEF Frame, Jobs, Actors
<1>4. ASSUME NEW e \in Frames, Seen(m, e), IsEvent(e) PROVE Before(e, job[p].event) /\ e # job[p].event
  BY <1>3, <1>4 DEF Bounded, Before
<1>5. /\ body[m].frames \in Seq(Frames) /\ admitted[m] \in Seq(Queueable) /\ Line(m) \in Seq(Queueable)
  <2>1. body[m] \in Bodies /\ admitted[m] \in Seq(Queueable) /\ opening[m] \in Seq(Queueable)
    BY <1>1 DEF Shape, Typed
  <2>2. pc[m] = "deliver" => job[m].event \in Queueable
    BY <1>1, ShapeIs DEF Carrying, InSender
  <2>. QED BY <2>1, <2>2, LineOfIs DEF Line, LineFits, Bodies
<1>6. \A e \in Queueable : e \in Frames /\ IsEvent(e)
  BY DEF Queueable, Frames, Kinds, Actors, IsEvent
<1>7. ~Occurs(job[p].event, admitted[m])
  BY <1>2, <1>4, <1>5, <1>6 DEF Seen
<1>8. ASSUME NEW i \in DOMAIN body[m].frames, IsEvent(body[m].frames[i])
      PROVE  Before(body[m].frames[i], job[p].event)
  BY <1>4, <1>5, <1>8 DEF Seen, Occurs
<1>9. ASSUME NEW k \in DOMAIN Line(m) PROVE Before(Line(m)[k], job[p].event)
  BY <1>4, <1>5, <1>6 DEF Seen, Occurs
<1>. QED BY <1>2, <1>7, <1>8, <1>9

\* The order of each publisher's events is kept.
LEMMA SortedStays ==
  ASSUME EndInv, EInv', Published, Bounded, Sorted, NEW m \in Streams, LineMoves(m)
  PROVE  Ascending(body'[m].frames, Line(m)')
<1>1. EInv
  BY DEF EndInv
<1>2. /\ body[m].frames \in Seq(Frames) /\ opening[m] \in Seq(Queueable)
      /\ LineFits(pc[m] = "deliver", job[m].event, opening[m], Line(m))
      /\ Line(m) \in Seq(Queueable) /\ Line(m)' \in Seq(Queueable)
      /\ Ascending(body[m].frames, Line(m))
  BY <1>1, LineIs DEF LineFits, Sorted
<1>3. Keeps(m) => Ascending(body[m].frames, Line(m)')
  BY <1>2, AscendingShrinks DEF Keeps
<1>4. CASE Keeps(m) /\ SameEvents(m)
  BY <1>2, <1>3, <1>4, AscendingGrows DEF SameEvents
<1>5. ASSUME NEW p \in Publishers, Keeps(m), Passes(p, m)
      PROVE  Ascending(body'[m].frames, Line(m)')
  <2>1. Due(p, m) /\ Line(m)' = <<>>
    BY <1>2, <1>5 DEF Passes, Due, Keeps, Shorter
  <2>2. job[p].event \in Frames
    BY <2>1, NewestIsLast, QueueableIs
  <2>3. Ascending(Append(body[m].frames, job[p].event), Line(m)')
    <3>1. /\ \A i \in DOMAIN body[m].frames : IsEvent(body[m].frames[i]) => Before(body[m].frames[i], job[p].event)
          /\ \A k \in DOMAIN Line(m)' : Before(job[p].event, Line(m)'[k])
      BY <2>1, NewestIsLast
    <3>2. Ascending(body[m].frames, Line(m)')
      BY <1>3, <1>5
    <3>. QED BY <1>2, <2>2, <3>1, <3>2, AscendingGrows
  <2>. QED BY <1>5, <2>3 DEF Passes
<1>6. ASSUME NEW p \in Publishers, Joins(p, m) PROVE Ascending(body'[m].frames, Line(m)')
  <2>1. Due(p, m)
    BY <1>6 DEF Joins, Due
  <2>2. Ascending(body[m].frames, Append(Line(m), job[p].event))
    BY <1>2, <2>1, NewestIsLast, AscendingJoins
  <2>. QED BY <1>6, <2>2 DEF Joins
<1>7. CASE Leads(m)
  <2>1. /\ Line(m)[1] = job[m].event /\ 1 \in DOMAIN Line(m)
        /\ \A k \in DOMAIN opening[m] : /\ k + 1 \in DOMAIN Line(m) /\ Line(m)[k + 1] = opening[m][k]
                                        /\ 1 < k + 1
    BY <1>2, <1>7 DEF Leads, LineFits
  <2>2. Ascending(body[m].frames, opening[m])
    <3>1. \A i \in DOMAIN body[m].frames, k \in DOMAIN opening[m] :
            IsEvent(body[m].frames[i]) => Before(body[m].frames[i], opening[m][k])
      BY <1>2, <2>1 DEF Ascending
    <3>2. \A j, k \in DOMAIN opening[m] : j < k => Before(opening[m][j], opening[m][k])
      <4>1. \A j, k \in DOMAIN opening[m] : j < k => j + 1 < k + 1
        BY <1>2
      <4>. QED BY <1>2, <2>1, <4>1 DEF Ascending
    <3>. QED BY <1>2, <3>1, <3>2 DEF Ascending
  <2>3. /\ \A i \in DOMAIN body[m].frames : IsEvent(body[m].frames[i]) => Before(body[m].frames[i], job[m].event)
        /\ \A k \in DOMAIN opening[m] : Before(job[m].event, opening[m][k])
    BY <1>2, <2>1 DEF Ascending
  <2>4. job[m].event \in Frames
    BY <1>1, <1>7, SentFrames DEF EInv, Leads
  <2>5. Ascending(Append(body[m].frames, job[m].event), opening[m])
    BY <1>2, <2>2, <2>3, <2>4, AscendingGrows
  <2>. QED BY <1>7, <2>2, <2>5 DEF Leads
<1>. QED BY <1>4, <1>5, <1>6, <1>7 DEF LineMoves

\* The order of admission is kept.
LEMMA LinedUpStays ==
  ASSUME EndInv, EInv', Published, Bounded, LinedUp, NEW m \in Streams, LineMoves(m), [Next]_vars
  PROVE  (Fed(m) /\ Served(m) /\ Within(m) /\ Ordered(body[m].frames, admitted[m]))'
<1>. DEFINE s == body[m].frames
            a == admitted[m]
            q == Line(m)
<1>1. EInv /\ Shape
  BY DEF EndInv, EInv
<1>2. /\ s \in Seq(Frames) /\ a \in Seq(Queueable) /\ opening[m] \in Seq(Queueable)
      /\ LineFits(pc[m] = "deliver", job[m].event, opening[m], q)
      /\ q \in Seq(Queueable) /\ Line(m)' \in Seq(Queueable)
      /\ Fed(m) /\ Served(m) /\ Within(m) /\ Ordered(s, a)
  BY <1>1, LineIs DEF LineFits, LinedUp
<1>3. Mute(m) => Mute(m)'
  BY <1>1, MuteLasts
<1>4. /\ Total(s) \in Nat /\ Len(a) \in Nat /\ Len(q) \in Nat
      /\ \A f \in Frames : Total(Append(s, f)) = IF IsEvent(f) THEN Total(s) + 1 ELSE Total(s)
  BY <1>2, RankMore, SentFrames, <1>1
<1>5. CASE Keeps(m) /\ SameEvents(m)
  <2>1. Total(body'[m].frames) = Total(s) /\ Ordered(body'[m].frames, admitted'[m])
    <3>1. ASSUME NEW f \in Frames, ~IsEvent(f) PROVE Total(Append(s, f)) = Total(s) /\ Ordered(Append(s, f), a)
      BY <1>2, <1>4, <3>1, OrderedGrows
    <3>2. admitted'[m] = a
      BY <1>5 DEF Keeps
    <3>3. CASE body'[m].frames = s
      BY <1>2, <3>2, <3>3
    <3>4. ASSUME NEW f \in Frames, ~IsEvent(f), body'[m].frames = Append(s, f)
          PROVE  Total(body'[m].frames) = Total(s) /\ Ordered(body'[m].frames, admitted'[m])
      BY <3>1, <3>2, <3>4
    <3>. QED BY <1>5, <3>3, <3>4 DEF SameEvents
  <2>2. Fed(m)'
    <3>. SUFFICES ASSUME ~Mute(m)', ~Stuck(m)'
                  PROVE  /\ Aligned(body'[m].frames, Line(m)', admitted'[m])
                         /\ phase'[m].at \in Unopened =>
                              Len(admitted'[m]) = Total(body'[m].frames) + Len(Line(m)')
      BY DEF Fed
    <3>1. CASE Stuck(m)
      BY <1>5, <3>1 DEF Keeps, Aligned
    <3>2. CASE ~Stuck(m)
      <4>1. /\ Aligned(s, q, a)
            /\ phase[m].at \in Unopened => Len(a) = Total(s) + Len(q)
        BY <1>2, <1>3, <3>2 DEF Fed
      <4>2. DOMAIN Line(m)' \subseteq DOMAIN q
        BY <1>2, <1>5 DEF Keeps, Shorter
      <4>3. Aligned(body'[m].frames, Line(m)', admitted'[m])
        <5>1. ASSUME NEW k \in DOMAIN Line(m)'
              PROVE  Total(s) + k <= Len(a) /\ a[Total(s) + k] = Line(m)'[k]
          BY <1>5, <4>1, <4>2 DEF Keeps, Shorter, Aligned
        <5>. QED BY <1>5, <2>1, <5>1 DEF Keeps, Aligned
      <4>. QED BY <1>5, <2>1, <4>1, <4>3 DEF Keeps
    <3>. QED BY <3>1, <3>2
  <2>3. Served(m)'
    <3>1. ASSUME phase[m].at \in Unopened, q = <<>>, pc[m] = "drain", ~Mute(m) PROVE Len(a) = Total(s)
      BY <1>2, <1>4, <3>1 DEF Fed, Stuck
    <3>. QED BY <1>2, <1>3, <1>4, <1>5, <2>1, <3>1 DEF Served, Keeps
  <2>4. Within(m)'
    BY <1>2, <1>5, <2>1 DEF Within, Keeps
  <2>. QED BY <2>1, <2>2, <2>3, <2>4
<1>6. ASSUME NEW p \in Publishers, Keeps(m), Passes(p, m)
      PROVE  (Fed(m) /\ Served(m) /\ Within(m) /\ Ordered(body[m].frames, admitted[m]))'
  <2>1. Due(p, m) /\ Line(m)' = <<>> /\ phase'[m].at \notin Unopened /\ admitted'[m] = a /\ Direct(m)
    BY <1>2, <1>6 DEF Passes, Due, Keeps, Shorter, Direct
  <2>2. job[p].event \in Frames /\ IsEvent(job[p].event) /\ ~Occurs(job[p].event, a)
    BY <2>1, NewestIsLast, QueueableIs DEF Queueable, IsEvent
  <2>3. Total(s) >= Len(a)
    BY <1>2, <1>6, <2>1 DEF Served, Passes
  <2>4. body'[m].frames = Append(s, job[p].event) /\ Total(body'[m].frames) = Total(s) + 1
    BY <1>4, <1>6, <2>2 DEF Passes
  <2>5. Ordered(body'[m].frames, admitted'[m])
    BY <1>2, <1>4, <2>1, <2>2, <2>3, <2>4, OrderedGrows
  <2>6. Fed(m)' /\ Within(m)'
    BY <2>1 DEF Fed, Within, Aligned
  <2>7. Served(m)'
    BY <1>4, <2>1, <2>3, <2>4 DEF Served
  <2>. QED BY <2>5, <2>6, <2>7
<1>7. ASSUME NEW p \in Publishers, Joins(p, m)
      PROVE  (Fed(m) /\ Served(m) /\ Within(m) /\ Ordered(body[m].frames, admitted[m]))'
  <2>1. /\ Due(p, m) /\ body'[m].frames = s /\ phase[m].at \in Unopened /\ phase'[m].at \in Unopened
        /\ admitted'[m] = Append(a, job[p].event) /\ Line(m)' = Append(q, job[p].event)
        /\ (Stuck(m)' <=> Stuck(m))
    BY <1>7 DEF Joins, Due, Stuck
  <2>2. job[p].event \in Queueable
    BY <2>1, NewestIsLast
  <2>3. Total(s) <= Len(a) /\ Ordered(body'[m].frames, admitted'[m])
    BY <1>2, <2>1, <2>2, OrderedJoins DEF Within
  <2>4. Len(admitted'[m]) = Len(a) + 1 /\ Len(Line(m)') = Len(q) + 1
    BY <1>2, <2>1, <2>2
  <2>5. ~Direct(m)'
    BY <1>1, <1>7, <2>1 DEF Joins, Direct, Unopened, EInv, Callbacks, InSender
  <2>6. Fed(m)'
    <3>. SUFFICES ASSUME ~Mute(m)', ~Stuck(m)'
                  PROVE  /\ Aligned(s, Append(q, job[p].event), Append(a, job[p].event))
                         /\ Len(admitted'[m]) = Total(s) + Len(Line(m)')
      BY <2>1 DEF Fed
    <3>1. Aligned(s, q, a) /\ Len(a) = Total(s) + Len(q)
      BY <1>2, <1>3, <2>1 DEF Fed
    <3>2. ASSUME NEW k \in 1..Len(q) + 1
          PROVE  /\ Total(s) + k <= Len(a) + 1
                 /\ Append(a, job[p].event)[Total(s) + k] = Append(q, job[p].event)[k]
      <4>1. CASE k = Len(q) + 1
        <5>1. Total(s) + k = Len(a) + 1
          BY <1>4, <3>1, <4>1
        <5>. QED BY <1>2, <1>4, <2>2, <4>1, <5>1
      <4>2. CASE k # Len(q) + 1
        <5>1. k \in DOMAIN q /\ Total(s) + k \in 1..Len(a) /\ a[Total(s) + k] = q[k]
          BY <1>2, <1>4, <3>1, <4>2 DEF Aligned
        <5>. QED BY <1>2, <1>4, <2>2, <5>1
      <4>. QED BY <4>1, <4>2
    <3>3. DOMAIN Append(q, job[p].event) = 1..Len(q) + 1 /\ Len(Append(a, job[p].event)) = Len(a) + 1
      BY <1>2, <2>2
    <3>. QED BY <1>4, <2>4, <3>1, <3>2, <3>3 DEF Aligned
  <2>. QED BY <1>4, <2>1, <2>3, <2>4, <2>5, <2>6 DEF Served, Within
<1>8. CASE Leads(m)
  <2>1. /\ phase' = phase /\ admitted' = admitted /\ Line(m)' = opening[m] /\ ~Stuck(m)
        /\ Direct(m)' => Direct(m)
    BY <1>8 DEF Leads, Stuck
  <2>2. /\ q[1] = job[m].event /\ 1 \in DOMAIN q /\ Len(q) = Len(opening[m]) + 1
        /\ \A k \in DOMAIN opening[m] : k + 1 \in DOMAIN q /\ q[k + 1] = opening[m][k]
    BY <1>2, <1>8 DEF Leads, LineFits
  <2>3. CASE body'[m].frames = s /\ (Mute(m)' \/ Stuck(m)')
    BY <1>2, <1>3, <2>1, <2>3 DEF Fed, Served, Within
  <2>4. CASE body'[m].frames = Append(s, job[m].event) /\ ~Mute(m)
    <3>1. job[m].event \in Frames /\ IsEvent(job[m].event)
      BY <1>1, <1>8, SentFrames DEF Leads, IsEvent
    <3>2. Total(body'[m].frames) = Total(s) + 1
      BY <1>4, <2>4, <3>1
    <3>3. Aligned(s, q, a) /\ (phase[m].at \in Unopened => Len(a) = Total(s) + Len(q))
      BY <1>2, <2>1, <2>4 DEF Fed
    <3>4. Total(s) + 1 <= Len(a) /\ a[Total(s) + 1] = job[m].event
      BY <2>2, <3>3 DEF Aligned
    <3>5. Ordered(body'[m].frames, admitted'[m])
      BY <1>2, <2>1, <2>4, <3>1, <3>4, OrderedGrows
    <3>6. Aligned(body'[m].frames, Line(m)', admitted'[m])
      <4>1. ASSUME NEW k \in DOMAIN opening[m]
            PROVE  (Total(s) + 1) + k <= Len(a) /\ a[(Total(s) + 1) + k] = opening[m][k]
        <5>0. k \in Nat /\ Total(s) \in Nat
          BY <1>2, <1>4
        <5>1. (Total(s) + 1) + k = Total(s) + (k + 1)
          BY <5>0
        <5>. QED BY <2>2, <3>3, <5>1 DEF Aligned
      <4>. QED BY <2>1, <3>2, <4>1 DEF Aligned
    <3>7. Fed(m)'
      <4>1. Len(opening[m]) \in Nat
        BY <1>2
      <4>2. ASSUME NEW n \in Nat, n = Total(s) + Len(q) PROVE n = (Total(s) + 1) + Len(opening[m])
        <5>1. Len(q) = Len(opening[m]) + 1 /\ Total(s) \in Nat
          BY <1>4, <2>2
        <5>. QED BY <4>1, <4>2, <5>1
      <4>. QED BY <1>4, <2>1, <3>2, <3>3, <3>6, <4>2 DEF Fed
    <3>8. Within(m)'
      BY <2>1, <3>2, <3>4 DEF Within
    <3>9. Served(m)'
      BY <1>2, <1>4, <2>1, <2>4, <3>2 DEF Served
    <3>. QED BY <3>5, <3>7, <3>8, <3>9
  <2>. QED BY <1>8, <2>3, <2>4 DEF Leads
<1>. QED BY <1>5, <1>6, <1>7, <1>8 DEF LineMoves

\* The invariant of the order is inductive.
LEMMA OrderInvStarts == Init => OrderInv
<1>. SUFFICES ASSUME Init PROVE OrderInv
  OBVIOUS
<1>1. EndInv
  BY EndInvStarts
<1>2. /\ \A l \in Streams : /\ pc[l] = "idle" /\ opening[l] = <<>> /\ admitted[l] = <<>>
                            /\ body[l].frames = <<>> /\ phase[l].at = "Opening"
      /\ \A p \in Publishers : pc[p] = "next" /\ todo[p] = {}
  BY ActorAssumption DEF Init, Actors, Phase, NewBody
<1>3. \A l \in Streams : Line(l) = <<>>
  BY <1>2 DEF Line, LineOf
<1>4. Total(<<>>) = 0
  <2>1. {j \in 1..Len(<<>>) : IsEvent(<<>>[j])} = {}
    OBVIOUS
  <2>. QED BY <2>1, FS_EmptySet DEF Total, RankIn
<1>5. Queued /\ Published
  BY <1>2 DEF Queued, Published, InSender
<1>6. Bounded /\ Sorted
  BY <1>2, <1>3 DEF Bounded, Seen, Occurs, Sorted, Ascending
<1>7. ASSUME NEW l \in Streams PROVE Fed(l) /\ Served(l) /\ Within(l) /\ Ordered(body[l].frames, admitted[l])
  <2>1. ~Direct(l)
    BY <1>2 DEF Direct
  <2>. QED BY <1>2, <1>3, <1>4, <2>1 DEF Fed, Served, Within, Ordered, Aligned
<1>. QED BY <1>1, <1>5, <1>6, <1>7 DEF OrderInv, LinedUp

LEMMA OrderInvStays ==
  ASSUME OrderInv, [Next]_vars
  PROVE  OrderInv'
<1>1. EndInv /\ EInv /\ Shape /\ Queued /\ Published /\ Bounded /\ Sorted /\ LinedUp
  BY DEF OrderInv, EndInv, EInv
<1>2. EndInv' /\ EInv' /\ Queued' /\ Published'
  BY <1>1, EndInvStays, EInvStays, QueuedStays, PublishedStays
<1>3. \A m \in Streams : LineMoves(m)
  BY <1>1, <1>2, LinesMove
<1>4. Bounded'
  BY <1>1, <1>2, <1>3, BoundedStays
<1>5. Sorted'
  BY <1>1, <1>2, <1>3, SortedStays DEF Sorted
<1>6. LinedUp'
  BY <1>1, <1>2, <1>3, LinedUpStays DEF LinedUp
<1>. QED BY <1>2, <1>4, <1>5, <1>6 DEF OrderInv

\* Events reach a stream in order: the opening events as they were admitted
\* to its queue, before any that a publisher delivers itself, and each
\* publisher's events in the order it published them.
THEOREM OrderHolds == Spec => []OrderIsKept
<1>1. ASSUME OrderInv PROVE OrderIsKept
  <2>1. OpeningOrder
    BY <1>1 DEF OrderInv, LinedUp, Ordered, Occurs, OpeningOrder, Rank, RankIn
  <2>2. PublisherOrder
    BY <1>1 DEF OrderInv, Sorted, Ascending, Before, IsEvent, PublisherOrder
  <2>. QED BY <2>1, <2>2 DEF OrderIsKept
<1>. QED BY <1>1, OrderInvStarts, OrderInvStays, PTL DEF Spec
=============================================================================
