------------------------------ MODULE MCClock ------------------------------
(***************************************************************************)
(* Process 3 pauses, for a tick or for a negative time, and reads the      *)
(* clock; process 2 kills process 3.                                       *)
(***************************************************************************)
EXTENDS Clock, TLC

MCproc == <<2, 3>>
MCPauses == 2 :> {} @@ 3 :> {-1, 1}
MCVictims == 2 :> {3} @@ 3 :> {}

============================================================================
