----------------------------- MODULE LineBuffer -----------------------------
(***************************************************************************)
(* What the console promises its readers: characters can be taken back     *)
(* until their line is complete; complete lines are read in order, once.   *)
(***************************************************************************)
EXTENDS Naturals, Sequences

CONSTANTS Char, NL, EOT, Size

VARIABLES
  ready,        \* characters of complete lines, not yet read
  editing       \* the line being typed

vars == <<ready, editing>>

Init == ready = <<>> /\ editing = <<>>

Room == Len(ready) + Len(editing) < Size

\* A line is complete at a newline, at ^D, or when there is no room for more.
Type(c) ==
  LET e == Append(editing, c) IN
  /\ Room
  /\ IF c \in {NL, EOT} \/ Len(ready) + Len(e) = Size
     THEN ready' = ready \o e /\ editing' = <<>>
     ELSE editing' = e /\ UNCHANGED ready

Erase ==
  /\ editing # <<>>
  /\ editing' \in {SubSeq(editing, 1, Len(editing) - 1), <<>>}
  /\ UNCHANGED ready

Take ==
  /\ ready # <<>>
  /\ ready' = Tail(ready)
  /\ UNCHANGED editing

Next == (\E c \in Char : Type(c)) \/ Erase \/ Take

Spec == Init /\ [][Next]_vars
=============================================================================
