--------------------------- MODULE MCClientExecutor ---------------------------
(* Small instances of ClientExecutor. *)
EXTENDS ClientExecutor, TLC

CONSTANTS e1, e2, i1, i2

MCReuse == e1 :> i1 @@ e2 :> i1
MCTwo == e1 :> i1 @@ e2 :> i2

\* The peer answers both executions of one id, the second a subscription.
MCLate == [ids |-> MCReuse, kind |-> e1 :> "plain" @@ e2 :> "listen", waiters |-> {},
           external |-> TRUE, faults |-> {"lost", "flood"}, until |-> 3]

\* Two owners wait, or a driver hands in frames, while the connection fails.
MCWait == [ids |-> MCTwo, kind |-> e1 :> "plain" @@ e2 :> "initialize", waiters |-> {e1, e2},
           external |-> TRUE, faults |-> {"lost", "read", "busy", "shutdown", "fail"}, until |-> 2]

\* Two owners wait and read, and nothing fails.
MCOwners == [ids |-> MCTwo, kind |-> [e \in Execs |-> "plain"], waiters |-> {e1, e2},
             external |-> FALSE, faults |-> {}, until |-> 2]

MCScenarios == {MCLate, MCWait}
MCQuiet == {MCOwners}
=============================================================================
