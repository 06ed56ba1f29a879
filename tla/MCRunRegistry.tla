--------------------------- MODULE MCRunRegistry ---------------------------
(***************************************************************************)
(* Instances of RunRegistry for TLC, with drains of both kinds.            *)
(***************************************************************************)
EXTENDS RunRegistry

AnyTimeout == { FALSE, TRUE }
=============================================================================
