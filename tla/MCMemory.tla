----------------------------- MODULE MCMemory -----------------------------
(* Model-checking instance of memory. *)
EXTENDS Memory

Seg(vaddr, filesz, memsz, perm) == [vaddr |-> vaddr, filesz |-> filesz, memsz |-> memsz, perm |-> perm]

\* Text alone, and text with data and bss that fill one page and a half.
MCImages == {<<Seg(0, 2, 2, "r")>>, <<Seg(0, 1, 1, "r"), Seg(1, 1, 3, "rw")>>}
=============================================================================
