-------------------------------- MODULE Fifo --------------------------------
(***************************************************************************)
(* What a pipe promises: a bounded queue of bytes with two ends.  Bytes    *)
(* come out in the order in which they went in, each once; nothing is put  *)
(* in after the read end is closed, and what is in the queue can be read   *)
(* after the write end is closed.                                          *)
(***************************************************************************)
EXTENDS Naturals, Sequences

CONSTANTS Byte, NoByte, Capacity

VARIABLES
  queue,       \* bytes written and not yet read
  out,         \* the byte taken out last
  ropen, wopen \* the two ends

Init == queue = <<>> /\ out = NoByte /\ ropen = TRUE /\ wopen = TRUE

Put(b) ==
  /\ wopen
  /\ Len(queue) < Capacity
  /\ queue' = Append(queue, b)
  /\ UNCHANGED <<out, ropen, wopen>>

Get ==
  /\ ropen
  /\ queue # <<>>
  /\ out' = Head(queue)
  /\ queue' = Tail(queue)
  /\ UNCHANGED <<ropen, wopen>>

CloseRead == ropen' = FALSE /\ UNCHANGED <<queue, out, wopen>>
CloseWrite == wopen' = FALSE /\ UNCHANGED <<queue, out, ropen>>

Next == (\E b \in Byte : Put(b)) \/ Get \/ CloseRead \/ CloseWrite

Spec == Init /\ [][Next]_<<queue, out, ropen, wopen>>
=============================================================================
