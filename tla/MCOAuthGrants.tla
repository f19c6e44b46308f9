---------------------------- MODULE MCOAuthGrants ----------------------------
(***************************************************************************)
(* OAuthGrants on a small instance.  A behaviour keeps the bounds it began *)
(* with: either several registrations of two clients and short families,   *)
(* or one registration, whose families are rotated again and again.        *)
(***************************************************************************)
EXTENDS OAuthGrants

VARIABLE shape

MCOne == [all |-> 1, each |-> 1]
MCTwo == [all |-> 2, each |-> 2]
MCThree == [all |-> 3, each |-> 3]
MCSplit == [all |-> 3, each |-> 2]

MCShapes ==
  {[epochs |-> 3, rotations |-> 1, scopes |-> {}, time |-> 2],
   [epochs |-> 1, rotations |-> 2, scopes |-> Scopes, time |-> 3]}

MCInit == Init /\ shape \in MCShapes

MCNext ==
  /\ Next
  /\ epochs' <= shape.epochs /\ now' <= shape.time
  /\ \A r \in st'.refresh : r.nr <= shape.rotations
  /\ \A f \in Flows : flow'[f].scopes \subseteq shape.scopes
  /\ UNCHANGED shape

MCSpec == MCInit /\ [][MCNext]_<<vars, shape>>

Interchangeable == Permutations(Clients)
=============================================================================
