--------------------------- MODULE TerminalDelivery ---------------------------
(***************************************************************************)
(* FinalSubscriptionTerminalDelivery (fastmcp-server/src/lib.rs): the      *)
(* receipt of a modern HTTP subscription body.  Two compare-and-swap       *)
(* words, one for the terminal control and one for the terminal response,  *)
(* record how far the end of the body has travelled.  Every operator below *)
(* is one method; its compare-and-swaps commute with those of the other    *)
(* methods, so each method is one step.                                    *)
(***************************************************************************)

Marks == {"open", "enqueued", "drained", "failed"}

Receipts == [control: Marks, completion: Marks]

NewReceipt == [control |-> "open", completion |-> "open"]

ControlNotRequired(d) ==
  IF d.control = "open" THEN [d EXCEPT !.control = "drained"] ELSE d

CompletionEnqueued(d) ==
  IF d.completion = "open" THEN [d EXCEPT !.completion = "enqueued"] ELSE d

\* Faulty variant: the writer settles any response it can parse.
DrainUnselected(d) ==
  IF d.completion \in {"open", "enqueued"}
  THEN [d EXCEPT !.completion = "drained"] ELSE d

CompletionDrained(d) ==
  IF d.completion = "enqueued" THEN [d EXCEPT !.completion = "drained"] ELSE d

FailMark(m) == IF m \in {"open", "enqueued"} THEN "failed" ELSE m

Failed(d) ==
  [control |-> FailMark(d.control), completion |-> FailMark(d.completion)]

Committed(d) == d.control \in {"enqueued", "drained"}

Settled(d) ==
  \/ "failed" \in {d.control, d.completion}
  \/ d.control = "drained" /\ d.completion = "drained"
=============================================================================
