--------------------------- MODULE MCDispatcher ---------------------------
(***************************************************************************)
(* Instances of Dispatcher for TLC: two calls of one process, and the same *)
(* calls in two processes, on tasks of one repository.                     *)
(***************************************************************************)
EXTENDS Dispatcher

CONSTANTS p1, p2, c1, c2, r1

OneProcess == [c \in Call |-> p1]
TwoProcesses == [c \in Call |-> IF c = c1 THEN p1 ELSE p2]
OneRepository == [t \in Task |-> r1]
=============================================================================
