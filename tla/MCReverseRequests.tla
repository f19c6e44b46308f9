-------------------------- MODULE MCReverseRequests --------------------------
(* ReverseRequests on small instances. *)
EXTENDS ReverseRequests

CONSTANTS c1, c2, r1

\* One call belongs to an incoming request, the other to none.
MCMixedOwner == [c \in Calls |-> IF c = c1 THEN r1 ELSE NoRequest]
MCFirstNegative == -1
MCLastNegative == -2
==============================================================================
