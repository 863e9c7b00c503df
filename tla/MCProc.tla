------------------------------- MODULE MCProc -------------------------------
(* Model-checking instance of processes and scheduling. *)
EXTENDS Proc, TLC

\* CPUs are interchangeable.  Slots are not: the table is scanned in order.
Symm == Permutations(CPUs)
=============================================================================
