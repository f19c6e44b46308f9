--------------------------- MODULE CredentialCustody ---------------------------
(***************************************************************************)
(* What CoordinatedCredentialSlot promises its owner, without files, locks *)
(* or anchors: one durable cell whose generation only grows, and a take    *)
(* whose payload exists outside the cell only after the cell was retired,  *)
(* in one copy, which is handed out or lost but never recreated.           *)
(***************************************************************************)
EXTENDS Integers

CONSTANTS Payloads, Tomb, MaxGen

VARIABLES
  cell,     \* the durable record
  handoff,  \* generations retired by a take whose payload is not handed out yet
  takes,    \* takes[g]: how often the payload of generation g was handed out
  loaded    \* what the last load returned

vars == <<cell, handoff, takes, loaded>>

Absent == [gen |-> 0, payload |-> Tomb]

Init ==
  /\ cell = Absent
  /\ handoff = {}
  /\ takes = [g \in 0..MaxGen |-> 0]
  /\ loaded = Absent

\* The next generation replaces the cell; nothing is handed out.
Advance(payload) ==
  /\ cell.gen < MaxGen
  /\ cell' = [gen |-> cell.gen + 1, payload |-> payload]
  /\ loaded' = Absent
  /\ UNCHANGED takes

Put == \E p \in Payloads \cup {Tomb} : Advance(p) /\ handoff' = {}

Take ==
  /\ cell.payload # Tomb
  /\ Advance(Tomb)
  /\ handoff' = {cell.gen}

Deliver ==
  \E g \in handoff :
    /\ takes' = [takes EXCEPT ![g] = @ + 1]
    /\ handoff' = {}
    /\ UNCHANGED <<cell, loaded>>

Load == loaded' = cell /\ UNCHANGED <<cell, handoff, takes>>

\* A crash, a cancellation or the next call.
Lose == handoff' = {} /\ loaded' \in {loaded, Absent} /\ UNCHANGED <<cell, takes>>

Next == Put \/ Take \/ Deliver \/ Load \/ Lose

Spec == Init /\ [][Next]_vars
================================================================================
