----------------------------- MODULE MCFinalTasks -----------------------------
(* FinalTasks on two small instances at once: a frozen choice made in the     *)
(* initial state says which runners, clients and keys take part.              *)
EXTENDS FinalTasks, TLC

VARIABLE shape

\* Two services contend for a task without input, or two clients drive rounds
\* of input with two keys through one service.
Shapes ==
  {[runners |-> Runners, clients |-> {c}, keys |-> {}] : c \in Clients} \cup
  {[runners |-> {r}, clients |-> Clients, keys |-> Keys] : r \in Runners}

MCInit == Init /\ shape \in Shapes
MCNext ==
  /\ Next
  /\ \A r \in Runners \ shape.runners : runner'[r] = runner[r]
  /\ \A c \in Clients \ shape.clients : client'[c] = client[c]
  /\ \A t \in Tasks : store'[t].asked \subseteq shape.keys
  \* Contention is about leases and fences: three generations are enough.
  /\ shape.keys = {} => \A t \in Tasks : store'[t].gen <= 3
  /\ UNCHANGED shape

MCSpec == MCInit /\ [][MCNext]_<<vars, shape>>

Interchangeable == Permutations(Runners) \cup Permutations(Clients) \cup Permutations(Keys)
================================================================================
