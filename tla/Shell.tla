------------------------------- MODULE Shell -------------------------------
(***************************************************************************)
(* How the shell runs a line: main() and runcmd() of user/sh.c, and below  *)
(* them the descriptors of the processes, the kernel's file table          *)
(* (kernel/file.c), pipes as far as their two ends go (kernel/pipe.c) and  *)
(* the system calls on them (kernel/sysfile.c), fork, exit and wait        *)
(* (kernel/proc.c).  What a process has still to do is a sequence of       *)
(* calls; runcmd() turns a command into such a sequence.  Process 1 is     *)
(* init, process 2 the shell.  A program that is executed is external: it  *)
(* reads its standard input to the end and exits.                          *)
(***************************************************************************)
EXTENDS Parser, History

CONSTANTS
  NPROC, NOFILE, NFILE,
  NPIPE,          \* bound on the pipes that memory allows
  Sessions,       \* bound: a session types these lines, and enters so many
                  \* commands in the history
  Tokens,         \* the reference's tokens, and how many make a line
  MaxTokens

ASSUME ShellAssumption ==
  /\ NPROC \in Nat /\ NPROC >= 3
  /\ NOFILE \in Nat /\ NOFILE >= 5    \* 0, 1, 2 and a pipe: fdalloc() succeeds
  /\ NFILE \in Nat \ {0} /\ NPIPE \in Nat \ {0}

init == 1
sh == 2
Pids == 1..NPROC
Fds == 0..(NOFILE - 1)
Files == 1..NFILE
Pipes == 1..NPIPE

VARIABLES
  session,        \* one of Sessions
  state,          \* of each process: unused, live, zombie
  parent,
  todo,           \* the calls a process has still to make
  p2,             \* the local array p[2] of runcmd(), after pipe(p)
  root,           \* history: the command of the line a process works for
  ofile,          \* p->ofile: entries of the file table, 0 for none
  file,           \* ftable.file: reference count and what is open
  pipe            \* the open ends, and the command the pipe was made for

vars == <<session, state, parent, todo, p2, root, ofile, file, pipe, historyVars>>

\* what a file is open on; of is a name, or the number of a pipe
None == [kind |-> "none", of |-> <<>>]
Console == [kind |-> "console", of |-> <<>>]
Named(name) == [kind |-> "file", of |-> name]
ReadEnd(i) == [kind |-> "read", of |-> <<i>>]
WriteEnd(i) == [kind |-> "write", of |-> <<i>>]
IsPipe(w) == w.kind \in {"read", "write"}

\* init has opened the console and duplicated it twice, and forked the shell
Init ==
  /\ HistoryInit
  /\ session \in Sessions
  /\ state = [p \in Pids |-> IF p \in {init, sh} THEN "live" ELSE "unused"]
  /\ parent = [p \in Pids |-> IF p = sh THEN init ELSE 0]
  /\ todo = [p \in Pids |-> <<>>]
  /\ p2 = [p \in Pids |-> <<0, 0>>]
  /\ root = [p \in Pids |-> Bad]
  /\ ofile = [p \in Pids |-> [d \in Fds |-> IF p \in {init, sh} /\ d < 3 THEN 1 ELSE 0]]
  /\ file = [f \in Files |-> IF f = 1 THEN [ref |-> 6, on |-> Console] ELSE [ref |-> 0, on |-> None]]
  /\ pipe = [i \in Pipes |-> [read |-> FALSE, write |-> FALSE, cmd |-> Bad]]

----------------------------------------------------------------------------
(* runcmd(): the calls that run a command *)

Close(d) == [op |-> "close", fd |-> d]
Dup(d) == [op |-> "dup", fd |-> d]
Fork(calls) == [op |-> "fork", child |-> calls]
RunCmd(cmd) == [op |-> "run", cmd |-> cmd]
Call(name) == [op |-> name]

\* descriptors p[0] and p[1]
P0 == NOFILE
P1 == NOFILE + 1
Fd(p, d) == CASE d = P0 -> p2[p][1] [] d = P1 -> p2[p][2] [] OTHER -> d

LeftEnd == <<Close(1), Dup(P1), Close(P0), Close(P1)>>

\* Mutant: the right-hand child keeps the write end.
RightEndLeaky == <<Close(0), Dup(P0), Close(P0)>>

RightEnd == <<Close(0), Dup(P0), Close(P0), Close(P1)>>

\* Mutant: the parent keeps the write end.
ParentEndLeaky == <<Close(P0), Call("wait"), Call("wait")>>

ParentEnd == <<Close(P0), Close(P1), Call("wait"), Call("wait")>>

runcmd(cmd) ==
  CASE cmd.type = "none" -> <<Call("exit")>>
    [] cmd.type = "EXEC" ->
         IF cmd.argv = <<>> THEN <<Call("exit")>>
         ELSE <<[op |-> "exec", argv |-> cmd.argv], Call("exit")>>
    [] cmd.type = "REDIR" ->
         <<Close(cmd.fd), [op |-> "open", file |-> cmd.file], RunCmd(cmd.cmd)>>
    [] cmd.type = "LIST" ->
         <<Fork(<<RunCmd(cmd.left)>>), Call("wait"), RunCmd(cmd.right)>>
    [] cmd.type = "PIPE" ->
         <<[op |-> "pipe", cmd |-> cmd],
           Fork(LeftEnd \o <<RunCmd(cmd.left)>>), Fork(RightEnd \o <<RunCmd(cmd.right)>>)>>
           \o ParentEnd \o <<Call("exit")>>
    [] cmd.type = "BACK" -> <<Fork(<<RunCmd(cmd.cmd)>>), Call("exit")>>

----------------------------------------------------------------------------

At(p, op) == state[p] = "live" /\ todo[p] # <<>> /\ Head(todo[p]).op = op

\* a call of runcmd() never returns
Calls(calls) ==
  IF calls # <<>> /\ Head(calls).op = "run" THEN runcmd(Head(calls).cmd) ELSE calls

Does(p, calls) == todo' = [todo EXCEPT ![p] = Calls(calls)]
Returns(p) == Does(p, Tail(todo[p]))

\* panic(), and what follows a failed open() or pipe()
Dies(p) == Does(p, <<Call("exit")>>)

----------------------------------------------------------------------------
(* kernel/file.c, kernel/pipe.c: the file table *)

FreeFiles == {f \in Files : file[f].ref = 0}
FreePipes == {i \in Pipes : ~pipe[i].read /\ ~pipe[i].write}

\* fdalloc(): the lowest free descriptor
LowestFd(p) == Min({d \in Fds : ofile[p][d] = 0})

\* fileclose(f): the last reference to a pipe's end owes a call of pipeclose(),
\* made after ftable.lock is released on a copy of *f
Drop(f) ==
  [file EXCEPT ![f] = IF @.ref = 1 THEN [ref |-> 0, on |-> None] ELSE [@ EXCEPT !.ref = @ - 1]]

\* Mutant: pipeclose() is called on *f itself, not on the copy.
OwedLate(f) == <<>>

Owed(f) ==
  IF file[f].ref = 1 /\ IsPipe(file[f].on)
  THEN <<[op |-> "pipeclose", on |-> file[f].on]>> ELSE <<>>

\* close descriptor d, and go on with the calls rest
CloseFd(p, d, rest) ==
  /\ ofile' = [ofile EXCEPT ![p][d] = 0]
  /\ file' = Drop(ofile[p][d])
  /\ Does(p, Owed(ofile[p][d]) \o rest)
  /\ UNCHANGED <<state, parent, p2, root, pipe, historyVars, session>>

\* sys_close()
SysClose(p) ==
  /\ At(p, "close")
  /\ CloseFd(p, Fd(p, Head(todo[p]).fd), Tail(todo[p]))

\* pipeclose()
PipeClose(p) ==
  LET on == Head(todo[p]).on IN
  /\ At(p, "pipeclose")
  /\ pipe' = [pipe EXCEPT ![on.of[1]] = IF on.kind = "read" THEN [@ EXCEPT !.read = FALSE]
                                        ELSE [@ EXCEPT !.write = FALSE]]
  /\ Returns(p)
  /\ UNCHANGED <<state, parent, p2, root, ofile, file, historyVars, session>>

\* sys_dup(), with filedup()
SysDup(p) ==
  LET f == ofile[p][Fd(p, Head(todo[p]).fd)] IN
  /\ At(p, "dup")
  /\ ofile' = [ofile EXCEPT ![p][LowestFd(p)] = f]
  /\ file' = [file EXCEPT ![f].ref = @ + 1]
  /\ Returns(p)
  /\ UNCHANGED <<state, parent, p2, root, pipe, historyVars, session>>

\* sys_open(): the file system may refuse, or the file table be full
SysOpen(p) ==
  LET name == Head(todo[p]).file
      f == Min(FreeFiles) IN
  /\ At(p, "open")
  /\ \/ /\ FreeFiles # {}
        /\ file' = [file EXCEPT ![f] = [ref |-> 1, on |-> Named(name)]]
        /\ ofile' = [ofile EXCEPT ![p][LowestFd(p)] = f]
        /\ Returns(p)
     \/ Dies(p) /\ UNCHANGED <<file, ofile>>
  /\ UNCHANGED <<state, parent, p2, root, pipe, historyVars, session>>

\* sys_pipe(): pipealloc() takes its two files one after the other
SysPipe(p) ==
  LET call == Head(todo[p])
      f == Min(FreeFiles) IN
  /\ At(p, "pipe")
  /\ IF FreeFiles # {}
     THEN /\ file' = [file EXCEPT ![f].ref = 1]
          /\ Does(p, <<[op |-> "pipe2", cmd |-> call.cmd, rf |-> f]>> \o Tail(todo[p]))
     ELSE Dies(p) /\ UNCHANGED file
  /\ UNCHANGED <<state, parent, p2, root, ofile, pipe, historyVars, session>>

SysPipe2(p) ==
  LET call == Head(todo[p])
      rf == call.rf
      wf == Min(FreeFiles)
      i == Min(FreePipes)
      d0 == LowestFd(p)
      d1 == Min({d \in Fds \ {d0} : ofile[p][d] = 0}) IN
  /\ At(p, "pipe2")
  /\ IF FreeFiles # {} /\ FreePipes # {}
     THEN /\ file' = [file EXCEPT ![rf].on = ReadEnd(i), ![wf] = [ref |-> 1, on |-> WriteEnd(i)]]
          /\ pipe' = [pipe EXCEPT ![i] = [read |-> TRUE, write |-> TRUE, cmd |-> call.cmd]]
          /\ ofile' = [ofile EXCEPT ![p][d0] = rf, ![p][d1] = wf]
          /\ p2' = [p2 EXCEPT ![p] = <<d0, d1>>]
          /\ Returns(p)
     ELSE /\ file' = Drop(rf)
          /\ Dies(p)
          /\ UNCHANGED <<pipe, ofile, p2>>
  /\ UNCHANGED <<state, parent, root, historyVars, session>>

----------------------------------------------------------------------------
(* kernel/proc.c, kernel/exec.c *)

Uses(p, f) == Cardinality({d \in Fds : ofile[p][d] = f})

\* fork1(): kfork() duplicates every descriptor; with no process left, panic()
SysFork(p) ==
  LET unused == {q \in Pids : state[q] = "unused"}
      q == Min(unused) IN
  /\ At(p, "fork")
  /\ IF unused # {}
     THEN /\ state' = [state EXCEPT ![q] = "live"]
          /\ parent' = [parent EXCEPT ![q] = p]
          /\ todo' = [todo EXCEPT ![q] = Calls(Head(todo[p]).child), ![p] = Calls(Tail(@))]
          /\ p2' = [p2 EXCEPT ![q] = p2[p]]
          /\ root' = [root EXCEPT ![q] = IF p = sh THEN Head(Head(todo[p]).child).cmd ELSE root[p]]
          /\ ofile' = [ofile EXCEPT ![q] = ofile[p]]
          /\ file' = [f \in Files |-> [file[f] EXCEPT !.ref = @ + Uses(p, f)]]
     ELSE Dies(p) /\ UNCHANGED <<state, parent, p2, root, ofile, file>>
  /\ UNCHANGED <<pipe, historyVars, session>>

\* kwait(): the first zombie among the children, or -1 if there is no child
SysWait(p) ==
  LET zombies == {q \in Pids : parent[q] = p /\ state[q] = "zombie"}
      z == Min(zombies) IN
  /\ At(p, "wait")
  /\ IF \A q \in Pids : parent[q] # p THEN UNCHANGED <<state, parent, p2, root>>
     ELSE /\ zombies # {}
          /\ state' = [state EXCEPT ![z] = "unused"]
          /\ parent' = [parent EXCEPT ![z] = 0]
          /\ p2' = [p2 EXCEPT ![z] = <<0, 0>>]
          /\ root' = [root EXCEPT ![z] = Bad]
  /\ Returns(p)
  /\ UNCHANGED <<ofile, file, pipe, historyVars, session>>

\* kexec() fails, or the program takes over the process
SysExec(p) ==
  /\ At(p, "exec")
  /\ \/ Does(p, <<[op |-> "program", argv |-> Head(todo[p]).argv]>>)
     \/ Returns(p)
  /\ UNCHANGED <<state, parent, p2, root, ofile, file, pipe, historyVars, session>>

\* kexit() closes the descriptors one after the other
SysExit(p) ==
  LET open == {d \in Fds : ofile[p][d] # 0} IN
  /\ At(p, "exit")
  /\ open # {}
  /\ CloseFd(p, Min(open), todo[p])

\* the rest of kexit(): reparent() to init, and the process is a zombie
Zombie(p) ==
  /\ At(p, "exit")
  /\ \A d \in Fds : ofile[p][d] = 0
  /\ state' = [state EXCEPT ![p] = "zombie"]
  /\ parent' = [q \in Pids |-> IF parent[q] = p THEN init ELSE parent[q]]
  /\ Returns(p)
  /\ UNCHANGED <<p2, root, ofile, file, pipe, historyVars, session>>

\* the program has read its standard input to the end: for a pipe, until every
\* write end is closed
ProgramEnds(p) ==
  LET in == file[ofile[p][0]].on IN
  /\ At(p, "program")
  /\ in.kind = "read" => ~pipe[in.of[1]].write
  /\ Dies(p)
  /\ UNCHANGED <<state, parent, p2, root, ofile, file, pipe, historyVars, session>>

\* init reaps the processes it inherits (user/init.c); it would start a shell
\* again only after the shell itself
InitReaps ==
  \E z \in Pids \ {sh} :
    /\ state[z] = "zombie" /\ parent[z] = init
    /\ state' = [state EXCEPT ![z] = "unused"]
    /\ parent' = [parent EXCEPT ![z] = 0]
    /\ p2' = [p2 EXCEPT ![z] = <<0, 0>>]
    /\ root' = [root EXCEPT ![z] = Bad]
    /\ UNCHANGED <<todo, ofile, file, pipe, historyVars, session>>

----------------------------------------------------------------------------
(* main() *)

AtPrompt == state[sh] = "live" /\ todo[sh] = <<>>

\* a line that runs something: a child parses and runs it, the shell waits
Runs(text) ==
  IF ran'.how = "child"
  THEN Does(sh, <<Fork(<<RunCmd(parsecmd(text))>>), Call("wait")>>)
  ELSE UNCHANGED todo

TypeLine(l) ==
  /\ AtPrompt
  /\ \/ (Blank(l) \/ Show(l)) /\ UNCHANGED todo
     \/ Recall(l) /\ Runs(ran'.text)
     \/ history_index <= session.commands /\ Execute(l) /\ Runs(ran'.text)
  /\ UNCHANGED <<state, parent, p2, root, ofile, file, pipe, session>>

ShellExits ==
  /\ AtPrompt
  /\ Leave
  /\ Dies(sh)
  /\ UNCHANGED <<state, parent, p2, root, ofile, file, pipe, session>>

Step(p) ==
  \/ SysClose(p) \/ PipeClose(p) \/ SysDup(p) \/ SysOpen(p)
  \/ SysPipe(p) \/ SysPipe2(p) \/ SysFork(p) \/ SysWait(p) \/ SysExec(p)
  \/ SysExit(p) \/ Zombie(p) \/ ProgramEnds(p)

Runnable == InitReaps \/ \E p \in Pids : Step(p)

Next ==
  \/ \E l \in session.lines : TypeLine(l)
  \/ ShellExits
  \/ Runnable

\* The scheduler runs some process as long as one can run; nobody has to type.
Fairness == WF_vars(Runnable)

Spec == Init /\ [][Next]_vars /\ Fairness

----------------------------------------------------------------------------
(* Properties *)

\* The reference counts of the file table are the descriptors that refer to
\* each file (and the file a pipe() is still setting up), and an end of a pipe
\* is open as long as a file refers to it or a fileclose() that dropped the
\* last reference has its pipeclose() still to do.
EndsOpen ==
  LET Pending(i, kind) ==
        \E p \in Pids : \E k \in DOMAIN todo[p] :
          todo[p][k].op = "pipeclose" /\ todo[p][k].on = [kind |-> kind, of |-> <<i>>]
      Referred(i, kind) ==
        \E f \in Files : file[f].ref > 0 /\ file[f].on = [kind |-> kind, of |-> <<i>>]
  IN
  /\ \A f \in Files :
       file[f].ref = FoldSet(LAMBDA p, n : n + Uses(p, f), 0, Pids)
                     + Cardinality({p \in Pids : At(p, "pipe2") /\ Head(todo[p]).rf = f})
  /\ \A i \in Pipes :
       /\ pipe[i].read = (Referred(i, "read") \/ Pending(i, "read"))
       /\ pipe[i].write = (Referred(i, "write") \/ Pending(i, "write"))

\* What the programs of a command have as standard input and output when it is
\* started with in and out.
RECURSIVE Wiring(_, _, _)
Wiring(cmd, in, out) ==
  CASE cmd.type = "none" -> {}
    [] cmd.type = "EXEC" -> {[argv |-> cmd.argv, in |-> in, out |-> out]}
    [] cmd.type = "REDIR" ->
         Wiring(cmd.cmd, IF cmd.fd = 0 THEN Named(cmd.file) ELSE in,
                         IF cmd.fd = 1 THEN Named(cmd.file) ELSE out)
    [] cmd.type = "LIST" -> Wiring(cmd.left, in, out) \cup Wiring(cmd.right, in, out)
    [] cmd.type = "BACK" -> Wiring(cmd.cmd, in, out)
    [] cmd.type = "PIPE" -> Wiring(cmd.left, in, [kind |-> "write", of |-> cmd])
                              \cup Wiring(cmd.right, [kind |-> "read", of |-> cmd], out)

\* A program runs with the standard input and output its place in the line asks
\* for (a pipe's end, the file of the innermost redirection, or the console),
\* the console as standard error, and no other descriptor: every end of every
\* pipe that runcmd() made on the way is closed again.
Wired ==
  \A p \in Pids : At(p, "program") =>
    LET on(d) == LET w == file[ofile[p][d]].on IN
                 IF IsPipe(w) THEN [w EXCEPT !.of = pipe[@[1]].cmd] ELSE w
    IN /\ [argv |-> Head(todo[p]).argv, in |-> on(0), out |-> on(1)]
            \in Wiring(root[p], Console, Console)
       /\ ofile[p][2] # 0 /\ on(2) = Console
       /\ \A d \in Fds : d > 2 => ofile[p][d] = 0

\* Every line ends: the shell comes back to its prompt, or has left.  Nobody
\* waits for a child that waits for the end of a pipe somebody keeps open.
LineFinishes == [](todo[sh] # <<>> => <>(todo[sh] = <<>>))

\* The parser reads a line, with or without blanks between its tokens, as the
\* tokens mean: ; binds least, then &, then |, and a redirection belongs to the
\* simple command or the block it follows.  Checked for every sequence of
\* up to MaxTokens tokens, in one initial state.
ParserSound ==
  typed = <<>> /\ todo[sh] = <<>> /\ session = (CHOOSE s \in Sessions : TRUE) =>
    \A n \in 0..MaxTokens : \A w \in [1..n -> Tokens] :
      /\ parsecmd(Spaced(w)) = Meaning(w)
      /\ parsecmd(Tight(w)) = Meaning(w)

============================================================================
