------------------------------ MODULE MCBcache ------------------------------
(* Model-checking instance of the buffer cache. *)
EXTENDS Bcache, TLC

\* Clients are interchangeable, and so are blocks.
Symm == Permutations(Clients) \cup Permutations(Blocks)
=============================================================================
