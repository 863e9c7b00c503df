---------------------------- MODULE MCVirtioDisk ----------------------------
(* Model-checking instance of the disk driver. *)
EXTENDS VirtioDisk, TLC

\* Processes are interchangeable.
Symm == Permutations(Procs)
=============================================================================
