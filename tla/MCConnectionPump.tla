-------------------------- MODULE MCConnectionPump --------------------------
(* ConnectionPump on small instances. *)
EXTENDS ConnectionPump, TLC

CONSTANTS r1, r2, r3, i1, i2

\* A quiet modern connection; every scenario below says how it differs.
Base == [modern |-> TRUE, frames |-> <<r1, r2>>,
         idOf |-> (r1 :> i1 @@ r2 :> i2 @@ r3 :> NoId), protected |-> {},
         size |-> [r \in Reqs |-> 1], depth |-> 2, maxBytes |-> 3,
         untracked |-> {}, sendOutcomes |-> {"ok"}, faults |-> {},
         maxCancels |-> 0, maxProgress |-> 1, detach |-> FALSE]

\* Two requests and a notification; handlers panic and sends fail.
Failing == [Base EXCEPT !.frames = <<r1, r2, r3>>, !.sendOutcomes = {"ok", "failed"},
                        !.faults = {"panic"}]

\* Two requests reuse one id, the second is too large while the first is held;
\* the peer cancels and the runtime loses children.
Reusing == [Base EXCEPT !.idOf = (r1 :> i1 @@ r2 :> i1 @@ r3 :> NoId),
                        !.size = (r1 :> 1 @@ r2 :> 2 @@ r3 :> 1), !.maxBytes = 2,
                        !.faults = {"refused", "unpolled", "principal", "timeout", "stop"},
                        !.maxCancels = 2, !.detach = TRUE]

\* The exact-2024 worker: initialize, a call, and a ping that reuses an id.
Legacy == [Base EXCEPT !.modern = FALSE, !.frames = <<r1, r2, r3>>,
                       !.idOf = (r1 :> i1 @@ r2 :> i2 @@ r3 :> i1),
                       !.protected = {r1}, !.maxBytes = 2, !.untracked = {r3},
                       !.sendOutcomes = {"ok", "cancelled", "failed"},
                       !.faults = {"adapter", "timeout", "principal", "response", "stop"},
                       !.maxCancels = 2, !.maxProgress = 0, !.detach = TRUE]

MCSafety == {Failing, Reusing, Legacy}

\* A request and a notification on a pump that waits for its children.
ModernEnding == [Base EXCEPT !.frames = <<r1, r3>>, !.sendOutcomes = {"ok", "failed"},
                             !.faults = {"timeout"}]

\* Two requests on a returning legacy pump.
LegacyEnding == [Legacy EXCEPT !.frames = <<r1, r2>>, !.protected = {}, !.untracked = {},
                               !.maxCancels = 1, !.detach = FALSE]

MCEnding == {ModernEnding, LegacyEnding}
=============================================================================
