--------------------------- MODULE MCRunEvidence ---------------------------
(* Small instances of RunEvidence: one path the envelope allows, one it     *)
(* leaves out and one it forbids.                                           *)
EXTENDS RunEvidence

FewPaths == { "allowed", "outside", "forbidden" }

OnlyAllowed == { "allowed" }

OnlyForbidden == { "forbidden" }

NothingThere == [p \in FewPaths |-> IF p = "allowed" THEN "text" ELSE "absent"]

FilesThere == [p \in FewPaths |-> "text"]
=============================================================================
