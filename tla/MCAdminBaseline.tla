-------------------------- MODULE MCAdminBaseline --------------------------
(* Small instances of AdminBaseline: two calls of trust-repo-admin and one  *)
(* load.                                                                    *)
EXTENDS AdminBaseline, TLC

CONSTANTS w1, w2

TwoWriters == { w1, w2 }

Interchangeable == Permutations(TwoWriters)
=============================================================================
