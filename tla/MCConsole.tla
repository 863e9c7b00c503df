----------------------------- MODULE MCConsole -----------------------------
(* Model-checking instance of console input. *)
EXTENDS Console, TLC

\* Readers are interchangeable.
Symm == Permutations(Readers)
=============================================================================
