-------------------------- MODULE MCWorkerProcess --------------------------
(***************************************************************************)
(* Instances of WorkerProcess for TLC.                                     *)
(***************************************************************************)
EXTENDS WorkerProcess

\* A worker's stdout comes to a line beyond twice the cap of one byte; of a
\* validation command, which has no spool, a byte of each stream is enough.
FewBytes ==
  [worker     |-> [s \in Stream |-> IF s = "stdout" THEN 3 ELSE 2],
   validation |-> [s \in Stream |-> 1]]
=============================================================================
