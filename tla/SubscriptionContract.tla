------------------------- MODULE SubscriptionContract -------------------------
(***************************************************************************)
(* What a subscriptions/listen stream promises to its client, in terms of  *)
(* the frames on the stream alone: the acknowledgement leads, events       *)
(* follow, and a terminal frame of a graceful close is really the end.     *)
(* The comments on FinalSubscriptionRegistry, FinalSubscriptionPhase and   *)
(* terminate_subscription_streams (fastmcp-server/src/lib.rs) state these  *)
(* rules; Subscriptions shows that the registry implements them.           *)
(***************************************************************************)
EXTENDS Sequences, Integers

CONSTANTS Streams, Event(_)

VARIABLE wire   \* wire[l]: the frames committed to stream l

Kinds(l) == {wire[l][i].kind : i \in DOMAIN wire[l]}

Append1(l, f) == wire' = [wire EXCEPT ![l] = Append(@, f)]

Init == wire = [l \in Streams |-> <<>>]

Acknowledge(l, f) ==
  /\ f.kind = "ack" /\ wire[l] = <<>>
  /\ Append1(l, f)

Deliver(l, f) ==
  /\ Event(f)
  /\ "ack" \in Kinds(l)
  /\ Kinds(l) \subseteq {"ack", "event"}
  /\ Append1(l, f)

Withdraw(l, f) ==
  /\ f.kind = "control"
  /\ "ack" \in Kinds(l)
  /\ Kinds(l) \subseteq {"ack", "event"}
  /\ Append1(l, f)

\* The terminal response: a graceful completion needs the acknowledgement.
Answer(l, f) ==
  /\ f.kind \in {"complete", "error"}
  /\ Kinds(l) \cap {"complete", "error"} = {}
  /\ f.kind = "complete" => "ack" \in Kinds(l)
  /\ Append1(l, f)

Next ==
  \E l \in Streams :
    /\ Len(wire'[l]) = Len(wire[l]) + 1
    /\ LET f == wire'[l][Len(wire'[l])]
       IN  \/ Acknowledge(l, f)
           \/ Deliver(l, f)
           \/ Withdraw(l, f)
           \/ Answer(l, f)

Spec == Init /\ [][Next]_wire
=============================================================================
