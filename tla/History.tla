------------------------------ MODULE History ------------------------------
(***************************************************************************)
(* The command history of the shell, user/sh.c, and what one turn of the   *)
(* loop in main() does with a line.  A line is the sequence of characters  *)
(* that gets() returned: NL ends it unless the input ended or the buffer   *)
(* was full.  "cd " and "history" are characters here.  ran records the    *)
(* text handed to chdir() or to a child; Shell models what the child does. *)
(***************************************************************************)
EXTENDS Naturals, Sequences, FiniteSetsExt, Chars

CONSTANTS
  MAX_HISTORY_LEN,
  ShowLast          \* history_show(): 10

ASSUME HistoryAssumption ==
  /\ MAX_HISTORY_LEN \in Nat \ {0}
  /\ ShowLast \in Nat \ {0}

VARIABLES
  history,          \* the list, oldest first: [num, text]
  history_index,
  ran,              \* the last text executed: [how, text]
  shown,            \* what the last history_show() printed
  typed,            \* the line handled last, without leading blanks
  recorded,         \* every command line that was entered, by number
  exited

historyVars == <<history, history_index, ran, shown, typed, recorded, exited>>

NotRun == [how |-> "none", text |-> <<>>]

\* list_init() in main()
HistoryInit ==
  /\ history = <<>>
  /\ history_index = 1
  /\ ran = NotRun
  /\ shown = <<>>
  /\ typed = <<>>
  /\ recorded = <<>>
  /\ exited = FALSE

----------------------------------------------------------------------------

\* The first character that is not blank: what cmd points at.
Cmd(l) ==
  LET blank(k) == \A i \in 1..k : l[i] = " "
      skip == Max({k \in 0..Len(l) : blank(k)})
  IN SubSeq(l, skip + 1, Len(l))

Starts(l, c) == l # <<>> /\ l[1] = c

EndsWith(l, c) == l # <<>> /\ l[Len(l)] = c

Chop(l) == SubSeq(l, 1, Len(l) - 1)

\* A line as a user reads it: without the newline.
Command(l) == IF EndsWith(l, NL) THEN Chop(l) ELSE l

\* What history_add() copies of a line: off characters are left out, one for the
\* newline and always one more, the last of the command itself.
Stored(l) ==
  LET off == IF EndsWith(l, NL) THEN 2 ELSE 1
  IN SubSeq(l, 1, Len(l) - off)

\* Mutant: a line is dropped as soon as the list is full.
OverfullEarly == history_index >= MAX_HISTORY_LEN

Overfull == history_index > MAX_HISTORY_LEN

\* history_add()
Add(l) ==
  LET pushed == Append(history, [num |-> history_index, text |-> Stored(l)]) IN
  /\ history' = IF Overfull THEN Tail(pushed) ELSE pushed
  /\ history_index' = history_index + 1
  /\ recorded' = Append(recorded, l)

\* Run a text: chdir() in the shell itself, anything else in a child.
Executed(text) == [how |-> IF Starts(text, "cd ") THEN "chdir" ELSE "child", text |-> text]
Run(text) == ran' = Executed(text)

Digits == <<"0", "1", "2", "3", "4", "5", "6", "7", "8", "9">>
IsDigit(c) == \E d \in 1..10 : Digits[d] = c

\* The number at the start of s.
atoi(s) ==
  LET digits == Max({k \in 0..Len(s) : \A i \in 1..k : IsDigit(s[i])})
      value(c) == (CHOOSE d \in 1..10 : Digits[d] = c) - 1
      n[k \in 0..digits] == IF k = 0 THEN 0 ELSE n[k - 1] * 10 + value(s[k])
  IN n[digits]

\* The line history_run() looks for, from the newest to the oldest.
Found(k, n) == history[k].num = n

----------------------------------------------------------------------------
(* One turn of the loop in main() *)

Blank(l) ==
  /\ Starts(Cmd(l), NL)
  /\ typed' = Cmd(l)
  /\ UNCHANGED <<history, history_index, ran, shown, recorded, exited>>

ShowFrom(total) == IF total > ShowLast THEN total - ShowLast ELSE 0

Show(l) ==
  /\ Cmd(l) = <<"history", NL>>
  /\ shown' = SubSeq(history, ShowFrom(Len(history)) + 1, Len(history))
  /\ typed' = Cmd(l)
  /\ UNCHANGED <<history, history_index, ran, recorded, exited>>

Again(k) == Run(history[k].text)
Nothing == ran' = NotRun

\* history_run(): "!!" and "!<number>"; any other line that begins with ! does
\* nothing.
Recall(l) ==
  LET c == Cmd(l) IN
     /\ Starts(c, "!")
     /\ IF c = <<"!", "!">>
        THEN IF history = <<>> THEN Nothing ELSE Again(Len(history))
        ELSE IF Len(c) > 1 /\ IsDigit(c[2])
        THEN LET n == atoi(Tail(c)) IN
             \/ \E k \in DOMAIN history : Found(k, n) /\ Again(k)
             \/ (\A k \in DOMAIN history : ~Found(k, n)) /\ Nothing
        ELSE Nothing
     /\ typed' = c
     /\ UNCHANGED <<history, history_index, shown, recorded, exited>>

\* Any other line: recorded, then run.
Execute(l) ==
  LET c == Cmd(l) IN
  /\ ~Starts(c, NL) /\ c # <<"history", NL>> /\ ~Starts(c, "!")
  /\ Add(c)
  /\ Run(IF Starts(c, "cd ") THEN Chop(c) ELSE Command(c))
  /\ typed' = c
  /\ UNCHANGED <<shown, exited>>

\* main() leaves: getcmd() sees the end of the input, or history_add() gets no
\* memory for a line and panics
Leave ==
  /\ exited' = TRUE
  /\ UNCHANGED <<history, history_index, ran, shown, typed, recorded>>

\* A line that is not cut off before anything but blanks, with a number that is an int.
CommandLine ==
  {l \in Seq(STRING) : Cmd(l) # <<>> /\ (Starts(Cmd(l), "!") => atoi(Tail(Cmd(l))) < 2^31)}

\* The loop by itself; Shell takes its turns between the steps of the children.
Turn(l) == Blank(l) \/ Show(l) \/ Recall(l) \/ Execute(l)

HistoryNext == Leave \/ \E l \in CommandLine : Turn(l)

HistorySpec == HistoryInit /\ [][HistoryNext]_historyVars

----------------------------------------------------------------------------
(* Properties *)

\* history_add() and history_run() together: as long as line n is one of the latest
\* MAX_HISTORY_LEN, "!n" runs what history_add() stored of line n, and of no other
\* line; otherwise it runs nothing, however many lines have been dropped.  What is
\* stored is not the line as it was entered: the last character of the command is
\* missing, so that "!n" after "ls" runs "l", and after "l" a child with an empty line.
RecallsByNumber ==
  Starts(typed, "!") /\ Len(typed) > 1 /\ IsDigit(typed[2]) =>
    LET n == atoi(Tail(typed))
        kept == {k \in DOMAIN recorded : k + MAX_HISTORY_LEN > Len(recorded)}
    IN ran = IF n \in kept THEN Executed(Stored(recorded[n])) ELSE NotRun

============================================================================
