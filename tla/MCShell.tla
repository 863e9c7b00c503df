------------------------------ MODULE MCShell ------------------------------
(***************************************************************************)
(* Sessions of a few lines: pipelines of two and three programs, one with  *)
(* a program in the background, one inside redirections; nested lists that *)
(* run out of processes; a line that does not parse; lines without a       *)
(* newline; and one session about the history.                             *)
(***************************************************************************)
EXTENDS Shell

MCSpelling == "xy" :> <<"x", "y">>

MCTokens == {"xy", "|", ";", "&", "(", ")", "<", ">", "+"}

Session(lines, n) == [lines |-> {Append(l, NL) : l \in lines}, commands |-> n]

Recalls == {<<"!", Digits[d]>> : d \in 1..5} \cup {<<"!", "1", "0">>, <<"!", "!">>, <<"!", "x">>}

MCSessions ==
  {Session({<<"a", "|", "b", "b">>, <<"!", "1">>}, 1),
   Session({<<"a", "|", "b", "|", "c">>}, 1),
   Session({<<"(", "(", "(", "a", ";", "b", ")", ";", "c", ")", ";", "d", ")", "|", "e">>}, 1),
   Session({<<"(", "a", "&", ")", "|", "b">>, <<"a", "&">>, <<"a", ")">>}, 1),
   Session({<<"a", "<", "f", "|", "b", ">", "g", ">", ">", "h">>,
            <<"(", "a", "|", "b", "|", "c", ")", "<", "f", ">", "g">>}, 1),
   [lines |-> {<<"b", "a">>, <<"!", "!">>}, commands |-> 1],
   Session({<<"a">>, <<"cd ", "x">>, <<" ", "b", "b">>, <<" ">>, <<"history">>} \cup Recalls, 3)}

============================================================================
