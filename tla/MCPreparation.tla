--------------------------- MODULE MCPreparation ---------------------------
(* Small instances of Preparation: two paths, of one blob or of two, or one *)
(* of them a submodule.                                                     *)
EXTENDS Preparation

TwoPaths == { "a", "b" }

FewTrees == { [p \in TwoPaths |-> "same"],
              [p \in TwoPaths |-> IF p = "a" THEN "same" ELSE "other"],
              [p \in TwoPaths |-> IF p = "a" THEN "same" ELSE "gitlink"] }
=============================================================================
