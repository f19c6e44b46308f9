---------------------------- MODULE TaskLifecycle ----------------------------
(***************************************************************************)
(* What a client of final Tasks may observe of its tasks, with no leases,  *)
(* generations or services: a task works, asks for input, collects every   *)
(* answer exactly once, settles once, and once a cancellation is recorded  *)
(* has no outcome left but "cancelled".                                    *)
(***************************************************************************)
EXTENDS Integers

CONSTANTS Tasks, Keys

VARIABLE life

Done == {"completed", "failed", "cancelled"}
Fresh == [status |-> "absent", cancel |-> FALSE, asked |-> {}, answers |-> {}, ever |-> {}]

Create(a, b) == a.status = "absent" /\ b = [a EXCEPT !.status = "working"]

\* A new round asks for keys never asked for before and starts without answers.
Ask(a, b) ==
  /\ a.status = "working" /\ ~a.cancel
  /\ b.asked # {} /\ b.asked \cap a.ever = {}
  /\ b = [a EXCEPT !.status = "input_required", !.asked = b.asked, !.answers = {},
                   !.ever = @ \cup b.asked]

\* Answers accumulate; the task works again when none is outstanding.
Answer(a, b) ==
  /\ a.status = "input_required"
  /\ \E K \in (SUBSET a.asked) \ {{}} :
       b = [a EXCEPT !.asked = @ \ K, !.answers = @ \cup K,
                     !.status = IF K = a.asked THEN "working" ELSE @]

Settle(a, b) ==
  /\ a.status = "working" /\ ~a.cancel
  /\ \E s \in {"completed", "failed"} : b = [a EXCEPT !.status = s, !.answers = {}]

Intend(a, b) ==
  a.status = "working" /\ ~a.cancel /\ b = [a EXCEPT !.cancel = TRUE, !.answers = {}]

Cancel(a, b) ==
  /\ a.status \in {"working", "input_required"}
  /\ b = [a EXCEPT !.status = "cancelled", !.cancel = FALSE, !.asked = {}, !.answers = {}]

Forget(a, b) == a.status # "absent" /\ b = [Fresh EXCEPT !.status = "gone"]

Step(a, b) ==
  \/ Create(a, b) \/ Ask(a, b) \/ Answer(a, b) \/ Settle(a, b)
  \/ Intend(a, b) \/ Cancel(a, b) \/ Forget(a, b)

Init == life = [t \in Tasks |-> Fresh]

\* One store operation may reclaim several tasks at once.
Next == \A t \in Tasks : life'[t] = life[t] \/ Step(life[t], life'[t])

Spec == Init /\ [][Next]_life
=============================================================================
