----------------------------- MODULE BlockStore -----------------------------
(***************************************************************************)
(* What the buffer cache promises to the file system: every block has one  *)
(* current value, and a block is used by one client at a time.             *)
(***************************************************************************)
CONSTANTS Clients, Blocks, NoBlock, Vals, InitVal

VARIABLES
  val,     \* the current value of each block
  holds    \* the block that each client has locked

Init == val = [b \in Blocks |-> InitVal] /\ holds = [p \in Clients |-> NoBlock]

Get(p, b) ==
  /\ holds[p] = NoBlock
  /\ \A q \in Clients : holds[q] # b
  /\ holds' = [holds EXCEPT ![p] = b]
  /\ UNCHANGED val

Set(p, v) ==
  /\ holds[p] # NoBlock
  /\ val' = [val EXCEPT ![holds[p]] = v]
  /\ UNCHANGED holds

Release(p) == holds' = [holds EXCEPT ![p] = NoBlock] /\ UNCHANGED val

Next ==
  \E p \in Clients :
    \/ \E b \in Blocks : Get(p, b)
    \/ \E v \in Vals : Set(p, v)
    \/ Release(p)

Spec == Init /\ [][Next]_<<val, holds>>
=============================================================================
