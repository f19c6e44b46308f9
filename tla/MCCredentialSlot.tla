--------------------------- MODULE MCCredentialSlot ---------------------------
(* CredentialSlot on small instances. *)
EXTENDS CredentialSlot
===============================================================================
