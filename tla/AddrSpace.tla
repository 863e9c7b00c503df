----------------------------- MODULE AddrSpace -----------------------------
(***************************************************************************)
(* What virtual memory promises: every process has an address space of its *)
(* own, a run of pages with contents and permissions.  A step changes the  *)
(* space of one process; sbrk() adds pages of zeros or takes pages away,   *)
(* fork() copies a space, exec() replaces one.                             *)
(***************************************************************************)
EXTENDS Naturals

CONSTANTS
  Procs,
  MaxPages,     \* bound on the length of a space
  Vals, Zero,
  Programs,     \* the spaces that exec() makes
  NoSpace

VARIABLE space

\* init, before its first exec()
Init == \E p \in Procs : space = [q \in Procs |-> IF q = p THEN <<>> ELSE NoSpace]

\* A store by the process or by a system call on its behalf.
Store(s, t) ==
  \E k \in DOMAIN s : s[k].perm = "rw" /\ \E v \in Vals : t = [s EXCEPT ![k].val = v]

\* sbrk()
Resize(s, t) ==
  \E n \in 0..MaxPages :
    t = [k \in 0..n - 1 |-> IF k \in DOMAIN s THEN s[k] ELSE [perm |-> "rw", val |-> Zero]]

\* fork() of another process
Forked(p, t) == \E q \in Procs \ {p} : space[q] # NoSpace /\ t = space[q]

\* The space of process p changes, and no other.
Step(p) ==
  LET s == space[p]
      t == space'[p] IN
  /\ s # t
  /\ IF s = NoSpace THEN Forked(p, t)
     ELSE t = NoSpace \/ t \in Programs \/ Store(s, t) \/ Resize(s, t)
  /\ space' = [space EXCEPT ![p] = t]

Next == \E p \in Procs : Step(p)

Spec == Init /\ [][Next]_space
=============================================================================
