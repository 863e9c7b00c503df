------------------------------ MODULE TxnDisk ------------------------------
(***************************************************************************)
(* What kernel/log.c promises to the file system: a disk on which groups   *)
(* of system calls take effect atomically.  `durable' is what a reboot     *)
(* would find, `current' what running system calls see.  Updates become    *)
(* durable all at once, only while no system call is active, and a crash   *)
(* falls back to the last durable state.                                   *)
(***************************************************************************)
CONSTANTS Blocks, Vals, InitVal, Procs

VARIABLES durable, current, active
tvars == <<durable, current, active>>

Init ==
  /\ durable = [b \in Blocks |-> InitVal]
  /\ current = durable
  /\ active = {}

Begin(p) ==
  /\ p \notin active
  /\ active' = active \cup {p}
  /\ UNCHANGED <<durable, current>>

Write(p, b, v) ==
  /\ p \in active
  /\ current' = [current EXCEPT ![b] = v]
  /\ UNCHANGED <<durable, active>>

End(p) ==
  /\ p \in active
  /\ active' = active \ {p}
  /\ UNCHANGED <<durable, current>>

Commit ==
  /\ active = {}
  /\ durable' = current
  /\ UNCHANGED <<current, active>>

Crash ==
  /\ current' = durable
  /\ active' = {}
  /\ UNCHANGED durable

Next ==
  \/ \E p \in Procs : Begin(p) \/ End(p)
  \/ \E p \in Procs, b \in Blocks, v \in Vals : Write(p, b, v)
  \/ Commit
  \/ Crash

Spec == Init /\ [][Next]_tvars
=============================================================================
