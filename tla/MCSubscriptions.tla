--------------------------- MODULE MCSubscriptions ---------------------------
(* Small instances of Subscriptions. *)
EXTENDS Subscriptions, TLC

CONSTANTS s1, s2, p1, p2

\* One publisher of one event and one stream of the given kind.
Alone(kind, faults) ==
  [kind |-> s1 :> kind @@ s2 :> "local", opened |-> {s1}, publishing |-> {p1},
   maxEvents |-> 1, maxStreams |-> 1, maxOpening |-> 1, faults |-> faults]

Stdio == Alone("stdio", {"peer", "send"})
Http == Alone("http", {"send", "write", "context"})

MCScenarios == {
  \* Two publishers race the opening and the end of a stdio stream,
  [Stdio EXCEPT !.publishing = Publishers, !.maxOpening = 2],
  \* or one publisher overflows its opening queue.
  [Stdio EXCEPT !.maxEvents = 3, !.maxOpening = 2],
  \* A stdio stream and an in-process handle whose callback panics.
  [Stdio EXCEPT !.opened = Streams, !.maxStreams = 2, !.faults = {"panic"}],
  \* An http body with everything that can break it,
  Http,
  \* and one that competes with an in-process handle, which may be dropped, for the only slot.
  [Http EXCEPT !.opened = Streams, !.faults = {"drop", "timeout"}]}
=============================================================================
