-------------------------------- MODULE Proc --------------------------------
(***************************************************************************)
(* Processes and scheduling: kernel/proc.c with the parts of kernel/trap.c *)
(* that call it.  CPUs run scheduler() and switch to processes; processes  *)
(* fork, exit, wait for children and kill each other; the timer preempts   *)
(* them.  A spin-lock is modelled by the CPU that holds it.  A critical    *)
(* section that acquires a lock and releases it before anything else is    *)
(* one step, enabled when the lock is free; a lock that is held across     *)
(* other work, wait_lock in exit and wait and p->lock across swtch(), is   *)
(* held across steps.                                                      *)
(***************************************************************************)
EXTENDS Naturals, FiniteSets

CONSTANTS
  NPROC,     \* param.h: slots of the process table
  CPUs,
  NoCpu,     \* "nobody holds the lock"
  MaxPid,    \* bound: allocpid() is not modelled beyond it
  KillPids   \* pids that user programs pass to kill()

ASSUME ProcAssumption ==
  /\ NPROC \in Nat \ {0}
  /\ NoCpu \notin CPUs
  /\ MaxPid \in Nat
  /\ KillPids \subseteq Nat

Slots == 1..NPROC
NoProc == 0          \* a null struct proc pointer
initproc == 1        \* userinit() finds the table empty


VARIABLES
  state, pid, parent, chan, killed,   \* fields of struct proc
  plock,     \* p->lock
  wlock,     \* wait_lock
  cproc,     \* c->proc: the process that runs on CPU c
  sidx,      \* scheduler()'s loop index
  nextpid,
  pc,        \* where the kernel thread of a process is
  sw,        \* the call of sched() that its saved context is in
  i, j,      \* its loop indices
  arg,       \* new process of kfork(), pid of kkill()
  kids,      \* havekids of kwait()
  panicked

proc == <<state, pid, parent, chan, killed>>
local == <<pc, sw, i, j, arg, kids>>
vars == <<state, pid, parent, chan, killed, plock, wlock, cproc, sidx, nextpid,
          pc, sw, i, j, arg, kids, panicked>>

\* main() has run userinit(): init is ready, every CPU is in scheduler().
Init ==
  /\ state = [p \in Slots |-> IF p = initproc THEN "RUNNABLE" ELSE "UNUSED"]
  /\ pid = [p \in Slots |-> IF p = initproc THEN 1 ELSE 0]
  /\ parent = [p \in Slots |-> NoProc]
  /\ chan = [p \in Slots |-> NoProc]
  /\ killed = [p \in Slots |-> FALSE]
  /\ plock = [p \in Slots |-> NoCpu]
  /\ wlock = NoCpu
  /\ cproc = [c \in CPUs |-> NoProc]
  /\ sidx = [c \in CPUs |-> 1]
  /\ nextpid = 2
  /\ pc = [p \in Slots |-> "user"]
  /\ sw = [p \in Slots |-> IF p = initproc THEN "fork" ELSE "no"]
  /\ i = [p \in Slots |-> 1]
  /\ j = [p \in Slots |-> 1]
  /\ arg = [p \in Slots |-> 0]
  /\ kids = [p \in Slots |-> FALSE]
  /\ panicked = FALSE

Free(p) == plock[p] = NoCpu

\* Process p executes kernel or user code on CPU c.
On(c, p) == cproc[c] = p /\ sw[p] = "no"

\* Process p is in acquire(), spinning for a lock that somebody else holds.
Spins(p) ==
  \/ pc[p] \in {"wait", "exit", "fork_parent"} /\ wlock # NoCpu
  \/ pc[p] \in {"fork", "kill"} /\ ~Free(i[p])
  \/ pc[p] = "fork_run" /\ ~Free(arg[p])

\* Interrupts are enabled: the CPU neither holds a spin-lock nor spins for one
\* (acquire() calls push_off() first).
IntrOn(c) == wlock # c /\ (\A p \in Slots : plock[p] # c) /\ ~Spins(cproc[c])

Goto(p, l) == pc' = [pc EXCEPT ![p] = l]

\* wakeup() on one process
Wake(q, ch) ==
  state' = IF state[q] = "SLEEPING" /\ chan[q] = ch
           THEN [state EXCEPT ![q] = "RUNNABLE"] ELSE state

\* freeproc() with p->lock held
FreeProc(q) ==
  /\ state' = [state EXCEPT ![q] = "UNUSED"]
  /\ pid' = [pid EXCEPT ![q] = 0]
  /\ parent' = [parent EXCEPT ![q] = NoProc]
  /\ chan' = [chan EXCEPT ![q] = NoProc]
  /\ killed' = [killed EXCEPT ![q] = FALSE]

----------------------------------------------------------------------------
(* scheduler(), sched(), yield(), forkret() *)

NextSlot(k) == IF k = NPROC THEN 1 ELSE k + 1

Dispatch(c) ==
  LET p == sidx[c] IN
  /\ cproc[c] = NoProc
  /\ Free(p)
  /\ IF state[p] = "RUNNABLE"
     THEN /\ plock' = [plock EXCEPT ![p] = c]
          /\ state' = [state EXCEPT ![p] = "RUNNING"]
          /\ cproc' = [cproc EXCEPT ![c] = p]
          /\ UNCHANGED sidx
     ELSE /\ sidx' = [sidx EXCEPT ![c] = NextSlot(p)]
          /\ UNCHANGED <<plock, state, cproc>>
  /\ UNCHANGED <<pid, parent, chan, killed, wlock, nextpid, local, panicked>>

\* sched()'s checks: p->lock is held by this CPU, and nothing else.
SchedOK(c, p) ==
  plock[p] = c /\ wlock # c /\ \A q \in Slots \ {p} : plock[q] # c

\* sched() switches to the scheduler, which releases p->lock.
SwitchOut(c, p) ==
  /\ cproc[c] = p
  /\ sw[p] # "no"
  /\ state[p] # "RUNNING"
  /\ IF SchedOK(c, p)
     THEN /\ cproc' = [cproc EXCEPT ![c] = NoProc]
          /\ plock' = [plock EXCEPT ![p] = NoCpu]
          /\ sidx' = [sidx EXCEPT ![c] = NextSlot(p)]
          /\ UNCHANGED panicked
     ELSE panicked' = TRUE /\ UNCHANGED <<cproc, plock, sidx>>
  /\ UNCHANGED <<proc, wlock, nextpid, local>>

\* swtch() returns in the process, which releases p->lock: in yield(), in
\* sleep(), or in forkret() the first time.
Resume(c, p) ==
  /\ cproc[c] = p
  /\ sw[p] # "no"
  /\ state[p] = "RUNNING"
  /\ sw' = [sw EXCEPT ![p] = "no"]
  /\ plock' = [plock EXCEPT ![p] = NoCpu]
  /\ chan' = IF sw[p] = "sleep" THEN [chan EXCEPT ![p] = NoProc] ELSE chan
  /\ UNCHANGED <<state, pid, parent, killed, wlock, cproc, sidx, nextpid,
                 pc, i, j, arg, kids, panicked>>

\* A timer interrupt in kernel code: kerneltrap() calls yield().
Preempt(c, p) ==
  /\ On(c, p)
  /\ IntrOn(c)
  /\ Free(p)
  /\ plock' = [plock EXCEPT ![p] = c]
  /\ state' = [state EXCEPT ![p] = "RUNNABLE"]
  /\ sw' = [sw EXCEPT ![p] = "yield"]
  /\ UNCHANGED <<pid, parent, chan, killed, wlock, cproc, sidx, nextpid,
                 pc, i, j, arg, kids, panicked>>

----------------------------------------------------------------------------
(* usertrap() *)

\* A timer interrupt in user code: a killed process exits, others yield.
Tick(c, p) ==
  /\ pc[p] = "user"
  /\ IF killed[p]
     THEN /\ On(c, p) /\ Free(p)
          /\ Goto(p, "exit")
          /\ UNCHANGED <<proc, plock, wlock, cproc, sidx, nextpid, sw, i, j, arg, kids, panicked>>
     ELSE Preempt(c, p)

\* init.c only forks and waits; other programs make any call.  Nobody forks
\* beyond the bound.
Calls(p) ==
  {"wait"} \cup (IF nextpid <= MaxPid THEN {"fork"} ELSE {})
           \cup (IF p = initproc THEN {} ELSE {"exit"})

Syscall(c, p, call, k) ==
  /\ On(c, p)
  /\ pc[p] = "user"
  /\ Free(p)
  /\ Goto(p, IF killed[p] THEN "exit" ELSE call)
  /\ i' = [i EXCEPT ![p] = 1]
  /\ arg' = [arg EXCEPT ![p] = k]
  /\ UNCHANGED <<proc, plock, wlock, cproc, sidx, nextpid, sw, j, kids, panicked>>

\* The end of a system call: a process killed meanwhile exits.
SysReturn(c, p) ==
  /\ On(c, p)
  /\ pc[p] = "ret"
  /\ Free(p)
  /\ Goto(p, IF killed[p] THEN "exit" ELSE "user")
  /\ arg' = [arg EXCEPT ![p] = 0]
  /\ UNCHANGED <<proc, plock, wlock, cproc, sidx, nextpid, sw, i, j, kids, panicked>>

----------------------------------------------------------------------------
(* kfork() *)

\* allocproc() inspects slot i[p]; the new process is filled in and its lock
\* released before anybody else can see it.
ForkScan(c, p) ==
  LET q == i[p] IN
  /\ On(c, p)
  /\ pc[p] = "fork"
  /\ Free(q)
  /\ \/ /\ state[q] # "UNUSED"
        /\ IF q = NPROC THEN Goto(p, "ret") ELSE UNCHANGED pc
        /\ i' = [i EXCEPT ![p] = IF q = NPROC THEN 1 ELSE q + 1]
        /\ UNCHANGED <<proc, nextpid, sw, arg>>
     \/ \* kalloc() or uvmcopy() fails, and so does a fork beyond the bound
        /\ state[q] = "UNUSED"
        /\ FreeProc(q)
        /\ nextpid' = IF nextpid <= MaxPid THEN nextpid + 1 ELSE nextpid
        /\ Goto(p, "ret")
        /\ i' = [i EXCEPT ![p] = 1]
        /\ UNCHANGED <<sw, arg>>
     \/ /\ state[q] = "UNUSED"
        /\ nextpid <= MaxPid
        /\ state' = [state EXCEPT ![q] = "USED"]
        /\ pid' = [pid EXCEPT ![q] = nextpid]
        /\ nextpid' = nextpid + 1
        /\ sw' = [sw EXCEPT ![q] = "fork"]
        /\ pc' = [pc EXCEPT ![p] = "fork_parent", ![q] = "user"]
        /\ arg' = [arg EXCEPT ![p] = q]
        /\ i' = [i EXCEPT ![p] = 1]
        /\ UNCHANGED <<parent, chan, killed>>
  /\ UNCHANGED <<plock, wlock, cproc, sidx, j, kids, panicked>>

ForkParent(c, p) ==
  /\ On(c, p)
  /\ pc[p] = "fork_parent"
  /\ wlock = NoCpu
  /\ parent' = [parent EXCEPT ![arg[p]] = p]
  /\ Goto(p, "fork_run")
  /\ UNCHANGED <<state, pid, chan, killed, plock, wlock, cproc, sidx, nextpid,
                 sw, i, j, arg, kids, panicked>>

ForkRun(c, p) ==
  /\ On(c, p)
  /\ pc[p] = "fork_run"
  /\ Free(arg[p])
  /\ state' = [state EXCEPT ![arg[p]] = "RUNNABLE"]
  /\ Goto(p, "ret")
  /\ UNCHANGED <<pid, parent, chan, killed, plock, wlock, cproc, sidx, nextpid,
                 sw, i, j, arg, kids, panicked>>

----------------------------------------------------------------------------
(* kexit(): wait_lock is held from Exit to ExitZombie *)

Exit(c, p) ==
  /\ On(c, p)
  /\ pc[p] = "exit"
  /\ IF p = initproc
     THEN panicked' = TRUE /\ UNCHANGED <<wlock, pc, i>>
     ELSE /\ wlock = NoCpu
          /\ wlock' = c
          /\ Goto(p, "reparent")
          /\ i' = [i EXCEPT ![p] = 1]
          /\ UNCHANGED panicked
  /\ UNCHANGED <<proc, plock, cproc, sidx, nextpid, sw, j, arg, kids>>

\* Mutant: the loop starts behind p, as if children came later in the table.
KidsBehind(p, k) == {q \in Slots : q >= k /\ q > p /\ parent[q] = p}

\* The children of p in slots k and up.
KidsFrom(p, k) == {q \in Slots : q >= k /\ parent[q] = p}
First(S, q) == q \in S /\ \A r \in S : q <= r

\* reparent() hands the next child to init, or is done.
Reparent(c, p) ==
  LET S == KidsFrom(p, i[p]) IN
  /\ On(c, p)
  /\ pc[p] = "reparent"
  /\ \/ \E q \in S : /\ First(S, q)
                     /\ parent' = [parent EXCEPT ![q] = initproc]
                     /\ i' = [i EXCEPT ![p] = q + 1]
                     /\ Goto(p, "wake_init")
     \/ /\ S = {}
        /\ i' = [i EXCEPT ![p] = 1]
        /\ Goto(p, "wake_parent")
        /\ UNCHANGED parent
  /\ j' = [j EXCEPT ![p] = 1]
  /\ UNCHANGED <<state, pid, chan, killed, plock, wlock, cproc, sidx, nextpid,
                 sw, arg, kids, panicked>>

\* One turn of the loop of wakeup(initproc) or wakeup(p->parent).
Wakeup(c, p) ==
  LET q == j[p]
      ch == IF pc[p] = "wake_init" THEN initproc ELSE parent[p] IN
  /\ On(c, p)
  /\ pc[p] \in {"wake_init", "wake_parent"}
  /\ IF q = p THEN UNCHANGED state ELSE Free(q) /\ Wake(q, ch)
  /\ j' = [j EXCEPT ![p] = IF q = NPROC THEN 1 ELSE q + 1]
  /\ IF q < NPROC THEN UNCHANGED pc
     ELSE Goto(p, IF pc[p] = "wake_init" THEN "reparent" ELSE "exit_zombie")
  /\ UNCHANGED <<pid, parent, chan, killed, plock, wlock, cproc, sidx, nextpid,
                 sw, i, arg, kids, panicked>>

ExitZombie(c, p) ==
  /\ On(c, p)
  /\ pc[p] = "exit_zombie"
  /\ Free(p)
  /\ plock' = [plock EXCEPT ![p] = c]
  /\ state' = [state EXCEPT ![p] = "ZOMBIE"]
  /\ wlock' = NoCpu
  /\ sw' = [sw EXCEPT ![p] = "exit"]
  /\ UNCHANGED <<pid, parent, chan, killed, cproc, sidx, nextpid, pc, i, j, arg, kids, panicked>>

----------------------------------------------------------------------------
(* kwait(): wait_lock is held from Wait to its return or to sleep() *)

Wait(c, p) ==
  /\ On(c, p)
  /\ pc[p] = "wait"
  /\ wlock = NoCpu
  /\ wlock' = c
  /\ Goto(p, "wait_scan")
  /\ i' = [i EXCEPT ![p] = 1]
  /\ kids' = [kids EXCEPT ![p] = FALSE]
  /\ UNCHANGED <<proc, plock, cproc, sidx, nextpid, sw, j, arg, panicked>>

\* kwait() releases wait_lock and returns; its locals are dead.
WaitReturn(p) ==
  /\ wlock' = NoCpu
  /\ Goto(p, "ret")
  /\ i' = [i EXCEPT ![p] = 1]
  /\ kids' = [kids EXCEPT ![p] = FALSE]

\* Mutant: kwait() looks at a child without its lock.
InspectUnlocked(q) == q \in Slots

\* acquire(&pp->lock): "make sure the child isn't still in exit() or swtch()".
Inspect(q) == Free(q)

\* The next child is looked at under its lock.  A zombie is freed, unless
\* copyout() of its exit status fails (init.c asks for none).
WaitScan(c, p) ==
  LET S == KidsFrom(p, i[p]) IN
  /\ On(c, p)
  /\ pc[p] = "wait_scan"
  /\ \E q \in S :
       /\ First(S, q)
       /\ Inspect(q)
       /\ IF state[q] = "ZOMBIE"
          THEN /\ WaitReturn(p)
               /\ FreeProc(q) \/ (p # initproc /\ UNCHANGED proc)
          ELSE /\ i' = [i EXCEPT ![p] = q + 1]
               /\ kids' = [kids EXCEPT ![p] = TRUE]
               /\ UNCHANGED <<proc, wlock, pc>>
  /\ UNCHANGED <<plock, cproc, sidx, nextpid, sw, j, arg, panicked>>

\* Mutant: sleep() releases its lock before it acquires p->lock.
CallSleepUnlocked(p) == Goto(p, "wait_sleep") /\ wlock' = NoCpu /\ UNCHANGED <<i, kids>>

CallSleep(p) == Goto(p, "wait_sleep") /\ UNCHANGED <<wlock, i, kids>>

\* No zombie among the children.
WaitCheck(c, p) ==
  /\ On(c, p)
  /\ pc[p] = "wait_scan"
  /\ KidsFrom(p, i[p]) = {}
  /\ Free(p)
  /\ IF ~kids[p] \/ killed[p] THEN WaitReturn(p)
     ELSE CallSleep(p)
  /\ UNCHANGED <<proc, plock, cproc, sidx, nextpid, sw, j, arg, panicked>>

ReleaseLock == wlock' = NoCpu

\* sleep(p, &wait_lock): p->lock, then release(lk), then sched(); on return the loop starts again.
WaitSleep(c, p) ==
  /\ On(c, p)
  /\ pc[p] = "wait_sleep"
  /\ Free(p)
  /\ plock' = [plock EXCEPT ![p] = c]
  /\ ReleaseLock
  /\ chan' = [chan EXCEPT ![p] = p]
  /\ state' = [state EXCEPT ![p] = "SLEEPING"]
  /\ sw' = [sw EXCEPT ![p] = "sleep"]
  /\ Goto(p, "wait")
  /\ UNCHANGED <<pid, parent, killed, cproc, sidx, nextpid, i, j, arg, kids, panicked>>

----------------------------------------------------------------------------
(* kkill() *)

KillScan(c, p) ==
  LET q == i[p] IN
  /\ On(c, p)
  /\ pc[p] = "kill"
  /\ Free(q)
  /\ IF pid[q] = arg[p]
     THEN /\ killed' = [killed EXCEPT ![q] = TRUE]
          /\ Wake(q, chan[q])
          /\ Goto(p, "ret")
          /\ i' = [i EXCEPT ![p] = 1]
     ELSE /\ IF q = NPROC THEN Goto(p, "ret") ELSE UNCHANGED pc
          /\ i' = [i EXCEPT ![p] = IF q = NPROC THEN 1 ELSE q + 1]
          /\ UNCHANGED <<state, killed>>
  /\ UNCHANGED <<pid, parent, chan, plock, wlock, cproc, sidx, nextpid,
                 sw, j, arg, kids, panicked>>

----------------------------------------------------------------------------

\* The steps that kernel code takes by itself once it is entered.
KernelStep(c, p) ==
  \/ SysReturn(c, p)
  \/ ForkScan(c, p) \/ ForkParent(c, p) \/ ForkRun(c, p)
  \/ Exit(c, p) \/ Reparent(c, p) \/ Wakeup(c, p) \/ ExitZombie(c, p)
  \/ Wait(c, p) \/ WaitScan(c, p) \/ WaitCheck(c, p) \/ WaitSleep(c, p)
  \/ KillScan(c, p)

Switch(c, p) == SwitchOut(c, p) \/ Resume(c, p)

UserStep(c, p) ==
  \/ Tick(c, p)
  \/ \E call \in Calls(p) : Syscall(c, p, call, 0)
  \/ p # initproc /\ \E k \in KillPids : Syscall(c, p, "kill", k)

Next ==
  /\ ~panicked
  /\ \/ \E c \in CPUs : Dispatch(c)
     \/ \E c \in CPUs, p \in Slots :
          \/ Switch(c, p)
          \/ KernelStep(c, p)
          \/ UserStep(c, p)
          \/ pc[p] # "user" /\ Preempt(c, p)

Spec == Init /\ [][Next]_vars

\* The timer interrupts user code; a CPU that spins on a lock gets it if the
\* lock is released again and again; and a process that is scheduled again and again
\* gets on with its system call.
Fairness ==
  /\ \A c \in CPUs :
       /\ SF_vars(~panicked /\ Dispatch(c))
       /\ WF_vars(~panicked /\ \E p \in Slots : Switch(c, p) \/ Tick(c, p))
  /\ \A p \in Slots : SF_vars(~panicked /\ \E c \in CPUs : KernelStep(c, p))

FairSpec == Spec /\ Fairness

----------------------------------------------------------------------------
(* Properties *)

\* p->lock across swtch() keeps a process on one CPU: two CPUs never run on the
\* same kernel stack, and no CPU is on the stack of a slot that kwait() has freed
\* or allocproc() has handed out ("make sure the child isn't still in exit() or
\* swtch()").  sched() never panics: a process switches holding exactly its lock.
OneCpuPerProc ==
  /\ ~panicked
  /\ \A c, d \in CPUs : cproc[c] = cproc[d] /\ cproc[c] # NoProc => c = d
  /\ \A c \in CPUs : cproc[c] # NoProc => state[cproc[c]] \notin {"UNUSED", "USED"}
  /\ \A p \in Slots : state[p] = "RUNNING" => \E c \in CPUs : cproc[c] = p

\* exit gives its children away before it becomes a zombie: the parent of a
\* process is never a zombie or a free slot, so somebody can always wait for it.
ParentAlive ==
  \A p \in Slots : parent[p] # NoProc =>
    /\ state[p] # "UNUSED"
    /\ state[parent[p]] \notin {"UNUSED", "USED", "ZOMBIE"}

\* wait_lock makes "parents are not lost" true: when it is free, no process
\* sleeps in kwait() while one of its children is a zombie.
NoLostExit ==
  wlock = NoCpu =>
    \A p, q \in Slots :
      state[p] = "SLEEPING" /\ chan[p] = p /\ parent[q] = p => state[q] # "ZOMBIE"

\* "Kill the process with the given pid.  The victim won't exit until it tries to
\* return to user space": a killed process exits in the end, so that again and
\* again there is a moment at which every killed process has exited.
KilledExits == []<>(\A p \in Slots : killed[p] => state[p] = "ZOMBIE")
=============================================================================
