---------------------------- MODULE MCCallbackPool ----------------------------
(* Small instances of CallbackPool. *)
EXTENDS CallbackPool, TLC

CONSTANTS r1, r2, r3, i1, i2

\* r1 and r2 reuse one id
MCIds == r1 :> i1 @@ r2 :> i1 @@ r3 :> i2

On(p, reqs, f) == [pool |-> p, sends |-> reqs, faults |-> f]

\* Two requests under one id with most faults, three requests at the limit, and
\* two requests whose contexts are cancelled, or which panic, one after another.
MCScenarios == {
  On("stdio", {r1, r2}, {"write", "spawn", "owner", "cancel", "close", "duplicate"}),
  On("stdio", {r1, r2, r3}, {"write", "cancel", "close"}),
  On("websocket", {r1, r2}, {"panic", "drop", "write", "spawn", "cancel", "close"}),
  On("websocket", {r1, r2, r3}, {"panic", "cancel", "close"}),
  On("stdio", {r1, r3}, {"panic", "write", "owner", "cancel", "close"}),
  On("websocket", {r1, r3}, {"panic", "write", "owner", "cancel", "close"})}
=============================================================================
