------------------------------- MODULE Clock -------------------------------
(***************************************************************************)
(* Interrupts, spin locks and context switches, CPU by CPU:                *)
(* kernel/spinlock.c, the trap paths of kernel/trap.c, scheduler(),        *)
(* sched(), yield(), sleep() and wakeup() of kernel/proc.c, and the system *)
(* calls on the clock, sys_pause() and sys_uptime() of kernel/sysproc.c.   *)
(* A thread is a process's kernel thread or a CPU's scheduler; it is a     *)
(* stack of activation frames, and a trap pushes a frame on the thread it  *)
(* interrupts.  A timer interrupt may come whenever interrupts are on.     *)
(***************************************************************************)
EXTENDS Integers, Sequences

CONSTANTS
  CPUs,         \* hart numbers; hart 0 counts the ticks
  proc,         \* the process table: its slots in order, none of them a hart number
  Pauses,       \* for each process, the arguments it gives to pause()
  Victims,      \* for each process, those it kills (bound: until they are killed)
  Readers,      \* the processes that call uptime()
  tickslock, wait_lock,
  Free,         \* the holder of a lock nobody holds
  UINT,         \* 2^32: ticks is an unsigned int
  MaxTicks      \* bound on the ticks counted

Procs == {proc[i] : i \in DOMAIN proc}
Locks == {tickslock, wait_lock} \cup Procs

ASSUME ClockAssumption ==
  /\ 0 \in CPUs
  /\ proc \in Seq(Procs) /\ CPUs \cap Procs = {}
  /\ tickslock # wait_lock /\ {tickslock, wait_lock} \cap Procs = {}
  /\ Free \notin CPUs
  /\ UINT \in Nat \ {0} /\ MaxTicks \in Nat
  /\ Pauses \in [Procs -> SUBSET {n \in Int : n < UINT}]
  /\ Victims \in [Procs -> SUBSET Procs]

VARIABLES
  cpu,          \* struct cpu, and the CPU's sstatus, sepc and stvec
  run,          \* the thread on each CPU: a process, or its scheduler
  stack,        \* of each thread; the last frame is the one executing
  holder,       \* of each spin lock: the CPU, or Free
  state,        \* p->state
  killed,       \* p->killed
  ticks,
  now,          \* history: ticks as if it never wrapped
  panicked

vars == <<cpu, run, stack, holder, state, killed, ticks, now, panicked>>

Top(c) == LET s == stack[run[c]] IN s[Len(s)]
At(c, l) == Top(c).at = l

\* myproc() is not null
InProcess(c) == run[c] \in Procs

\* frames fs, the last first to run, on the first n of s
Over(s, n, fs) == SubSeq(s, 1, n) \o fs

\* the frames under the one executing stay; fs replaces it
Then(c, fs) == stack' = [stack EXCEPT ![run[c]] = Over(@, Len(@) - 1, fs)]
Become(c, f) == Then(c, <<f>>)
Goto(c, l) == Become(c, [Top(c) EXCEPT !.at = l])
Return(c) == Then(c, <<>>)

\* the place in its thread that CPU c executes, as a trap leaves it in sepc
Here(c) == <<run[c], Len(stack[run[c]])>>

Frame(l) == [at |-> l]
Acquire(l) == [at |-> "acquire", lk |-> l, old |-> FALSE]

\* yield(), sleep(&ticks, &tickslock), killed() and the end of kexit() begin
\* with acquire()
Yielding(p) == <<Frame("yielding"), Acquire(p)>>
Sleeping(p) == <<Frame("unlock"), Acquire(p)>>
KilledThen(p, yes, no) == <<[at |-> "killed", yes |-> yes, no |-> no], Acquire(p)>>
Exiting == <<Frame("zombie"), Frame("reparent"), Acquire(wait_lock)>>

\* a process in its first scheduling is in forkret(), on its way to user space
Init ==
  /\ cpu = [c \in CPUs |-> [noff |-> 0, intena |-> FALSE, sie |-> FALSE,
                            spie |-> TRUE, spp |-> FALSE, sepc |-> <<>>,
                            stvec |-> "kernelvec"]]
  /\ run = [c \in CPUs |-> c]
  /\ stack = [t \in CPUs \cup Procs |->
                IF t \in CPUs
                THEN <<Frame("intr_on")>>
                ELSE <<Frame("user"), [at |-> "forkret", epc |-> <<t, 1>>, sys |-> FALSE]>>]
  /\ holder = [l \in Locks |-> Free]
  /\ state = [p \in Procs |-> "RUNNABLE"]
  /\ killed = [p \in Procs |-> FALSE]
  /\ ticks = UINT - 1
  /\ now = 0
  /\ panicked = FALSE

----------------------------------------------------------------------------
(* spinlock.c *)

\* Mutant: intena is set at every level.
PushOffUnnested(k, old) ==
  [k EXCEPT !.sie = FALSE, !.intena = old, !.noff = @ + 1]

PushOff(k, old) ==
  [k EXCEPT !.sie = FALSE,
            !.intena = IF k.noff = 0 THEN old ELSE @,
            !.noff = @ + 1]

\* intena means nothing while noff is 0
PopOff(k) ==
  [k EXCEPT !.noff = @ - 1,
            !.sie = @ \/ (k.noff = 1 /\ k.intena),
            !.intena = @ /\ k.noff # 1]

PopOffPanics(k) == k.sie \/ k.noff < 1

\* acquire(): push_off() reads sstatus before it clears SIE; with interrupts off
\* nothing comes between the two.  The rest is one step, taken when the lock is
\* free: a CPU that spins meanwhile touches nothing others see.
IntrGet(c) ==
  /\ At(c, "acquire")
  /\ cpu[c].sie
  /\ Become(c, [Top(c) EXCEPT !.at = "intr_off", !.old = TRUE])
  /\ UNCHANGED <<cpu, run, holder, state, killed, ticks, now, panicked>>

Lock(c) ==
  LET l == Top(c).lk IN
  /\ At(c, "intr_off") \/ (At(c, "acquire") /\ ~cpu[c].sie)
  /\ holder[l] \in {Free, c}
  /\ cpu' = [cpu EXCEPT ![c] = PushOff(@, Top(c).old)]
  /\ holder' = [holder EXCEPT ![l] = c]
  /\ Return(c)
  /\ panicked' = (holder[l] = c)
  /\ UNCHANGED <<run, state, killed, ticks, now>>

\* release(l) on CPU c, whose registers are k
Release(c, l, k) ==
  /\ holder' = [holder EXCEPT ![l] = Free]
  /\ cpu' = [cpu EXCEPT ![c] = PopOff(k)]
  /\ panicked' = (holder[l] # c \/ PopOffPanics(k))

----------------------------------------------------------------------------
(* proc.c: switching between a process and its CPU's scheduler *)

\* sched(), with p->state already set to s: the thread will continue at label
\* l, with its intena kept in its frame, and the CPU is back in scheduler()
Sched(c, s, l) ==
  LET p == run[c] IN
  /\ panicked' = \/ holder[p] # c
                 \/ cpu[c].noff # 1
                 \/ s = "RUNNING"
                 \/ cpu[c].sie
  /\ state' = [state EXCEPT ![p] = s]
  /\ Become(c, [at |-> l, intena |-> cpu[c].intena])
  /\ run' = [run EXCEPT ![c] = c]
  /\ UNCHANGED <<cpu, holder, killed, ticks, now>>

\* mycpu()->intena = intena, at the end of sched()
Restored(c) == [cpu[c] EXCEPT !.intena = Top(c).intena]

\* the for loop of scheduler(), at slot i
Slot(i, found) ==
  IF i <= Len(proc)
  THEN <<[at |-> "look", i |-> i, found |-> found], Acquire(proc[i])>>
  ELSE <<Frame(IF found THEN "intr_on" ELSE "wfi")>>

\* wfi may end without an interrupt
Ready(c) ==
  /\ Top(c).at \in {"intr_on", "wfi"}
  /\ cpu' = [cpu EXCEPT ![c].sie = TRUE]
  /\ Goto(c, "mask")
  /\ UNCHANGED <<run, holder, state, killed, ticks, now, panicked>>

SchedulerOff(c) ==
  /\ At(c, "mask")
  /\ cpu' = [cpu EXCEPT ![c].sie = FALSE]
  /\ Then(c, Slot(1, FALSE))
  /\ UNCHANGED <<run, holder, state, killed, ticks, now, panicked>>

\* the scheduler holds p->lock: it switches to p or goes on to the next slot
Look(c) ==
  LET f == Top(c)
      p == proc[f.i] IN
  /\ f.at = "look"
  /\ \/ /\ state[p] = "RUNNABLE"
        /\ state' = [state EXCEPT ![p] = "RUNNING"]
        /\ run' = [run EXCEPT ![c] = p]
        /\ Become(c, [f EXCEPT !.at = "back", !.found = TRUE])
        /\ UNCHANGED <<cpu, holder, panicked>>
     \/ /\ state[p] # "RUNNABLE"
        /\ Release(c, p, cpu[c])
        /\ Then(c, Slot(f.i + 1, f.found))
        /\ UNCHANGED <<run, state>>
  /\ UNCHANGED <<killed, ticks, now>>

\* the process has switched back, with its lock held
Back(c) ==
  LET f == Top(c) IN
  /\ f.at = "back"
  /\ Release(c, proc[f.i], cpu[c])
  /\ Then(c, Slot(f.i + 1, TRUE))
  /\ UNCHANGED <<run, state, killed, ticks, now>>

Yield(c) ==
  \/ /\ At(c, "yielding")
     /\ Sched(c, "RUNNABLE", "yielded")
  \/ /\ At(c, "yielded")
     /\ Release(c, run[c], Restored(c))
     /\ Return(c)
     /\ UNCHANGED <<run, state, killed, ticks, now>>

\* sleep(&ticks, &tickslock)
Sleep(c) ==
  \/ /\ At(c, "unlock")
     /\ Release(c, tickslock, cpu[c])
     /\ Goto(c, "sleeping")
     /\ UNCHANGED <<run, state, killed, ticks, now>>
  \/ /\ At(c, "sleeping")
     /\ Sched(c, "SLEEPING", "woken")
  \/ /\ At(c, "woken")
     /\ Release(c, run[c], Restored(c))
     /\ Become(c, Acquire(tickslock))
     /\ UNCHANGED <<run, state, killed, ticks, now>>

\* the end of kexit(): reparent() and wakeup(), acquire(&p->lock),
\* release(&wait_lock) and sched(), never to return
Exit(c) ==
  \/ /\ At(c, "reparent")
     /\ Then(c, <<Frame("orphans"), Acquire(run[c])>>)
     /\ UNCHANGED <<cpu, run, holder, state, killed, ticks, now, panicked>>
  \/ /\ At(c, "orphans")
     /\ Release(c, wait_lock, cpu[c])
     /\ Return(c)
     /\ UNCHANGED <<run, state, killed, ticks, now>>
  \/ /\ At(c, "zombie")
     /\ Sched(c, "ZOMBIE", "zombie_exit")

\* killed(p), and the code that follows for either answer
Killed(c) ==
  LET f == Top(c) IN
  /\ f.at = "killed"
  /\ Release(c, run[c], cpu[c])
  /\ Then(c, IF killed[run[c]] THEN f.yes ELSE f.no)
  /\ UNCHANGED <<run, state, killed, ticks, now>>

----------------------------------------------------------------------------
(* trap.c *)

\* sstatus and sepc as the hart leaves them when it takes a trap
Trapped(c) ==
  [cpu[c] EXCEPT !.spie = cpu[c].sie, !.sie = FALSE, !.spp = ~At(c, "user"), !.sepc = Here(c)]

\* a trap goes where stvec says: to usertrap(), which goes on with frames uf, or
\* to kerneltrap(), which goes on with kf; each first checks where it came from
Trap(c, uf, kf) ==
  LET k == Trapped(c)
      user == k.stvec = "uservec"
      bad == IF user THEN k.spp ELSE ~k.spp \/ k.sie IN
  /\ panicked' = bad
  /\ cpu' = [cpu EXCEPT ![c] = [k EXCEPT !.stvec = IF bad THEN @ ELSE "kernelvec"]]
  /\ IF bad THEN UNCHANGED stack
     ELSE stack' = [stack EXCEPT ![run[c]] = Over(@, Len(@), IF user THEN uf ELSE kf)]
  /\ UNCHANGED <<run, holder, state, killed, ticks, now>>

\* sret with registers k: the frames above the one sepc names are gone, and
\* sepc means nothing until the next trap
Sret(c, k) ==
  /\ cpu' = [cpu EXCEPT ![c] = [k EXCEPT !.sie = k.spie, !.spie = TRUE, !.spp = FALSE,
                                         !.sepc = <<>>]]
  /\ stack' = [stack EXCEPT ![run[c]] = Over(@, k.sepc[2], <<>>)]
  /\ UNCHANGED <<run, holder, state, killed, ticks, now, panicked>>

\* Mutant: kerneltrap() restores nothing.
RestoreNothing(k, f) == k

\* w_sepc(sepc), w_sstatus(sstatus): what kerneltrap() restores in registers k
\* from its frame f
Restore(k, f) == [k EXCEPT !.sepc = f.sepc, !.sie = FALSE, !.spie = f.spie, !.spp = f.spp]

\* clockintr() takes tickslock on hart 0, and otherwise only rearms the timer
ClockCall(c) == IF c = 0 THEN <<Frame("tick"), Acquire(tickslock)>> ELSE <<>>

\* a timer interrupt may come whenever interrupts are on
MayTick(c) == c = 0 => now < MaxTicks

\* kerneltrap() on a timer interrupt: yield() only if the thread is a process
KernelTimer(c) ==
  LET k == Trapped(c) IN
  <<[at |-> "kt_ret", sepc |-> k.sepc, spie |-> k.spie, spp |-> k.spp]>>
    \o (IF InProcess(c) THEN Yielding(run[c]) ELSE <<>>)
    \o ClockCall(c)

\* usertrap() on a timer interrupt
UserTimer(c) ==
  LET p == run[c]
      back == [at |-> "return", epc |-> Here(c), sys |-> FALSE] IN
  KilledThen(p, Exiting, <<back>> \o Yielding(p)) \o ClockCall(c)

\* interrupts are on in user space whatever sstatus says
Timer(c) ==
  /\ At(c, "user") \/ cpu[c].sie
  /\ MayTick(c)
  /\ Trap(c, UserTimer(c), KernelTimer(c))

KernelReturn(c) == At(c, "kt_ret") /\ Sret(c, Restore(cpu[c], Top(c)))

\* the for loop of wakeup(&ticks), at slot i: each process but the caller's own,
\* under its lock; then release(&tickslock)
Wake(c, i) ==
  IF i > Len(proc) THEN <<Frame("ticked")>>
  ELSE <<[at |-> "wake", i |-> i]>> \o (IF proc[i] = run[c] THEN <<>> ELSE <<Acquire(proc[i])>>)

\* clockintr()
ClockIntr(c) ==
  LET f == Top(c) IN
  \/ /\ f.at = "tick"
     /\ ticks' = (ticks + 1) % UINT
     /\ now' = now + 1
     /\ Then(c, Wake(c, 1))
     /\ UNCHANGED <<cpu, run, holder, state, killed, panicked>>
  \/ LET p == proc[f.i] IN
     /\ f.at = "wake"
     /\ \/ /\ p # run[c]
           /\ state' = [state EXCEPT ![p] = IF @ = "SLEEPING" THEN "RUNNABLE" ELSE @]
           /\ Release(c, p, cpu[c])
        \/ p = run[c] /\ UNCHANGED <<cpu, holder, state, panicked>>
     /\ Then(c, Wake(c, f.i + 1))
     /\ UNCHANGED <<run, killed, ticks, now>>
  \/ /\ f.at = "ticked"
     /\ Release(c, tickslock, cpu[c])
     /\ Return(c)
     /\ UNCHANGED <<run, state, killed, ticks, now>>

\* usertrap() on the system call with frames fs: killed() before and after
Ecall(c, fs) ==
  LET p == run[c]
      back == [at |-> "return", epc |-> Here(c), sys |-> TRUE]
      after == <<back>> \o KilledThen(p, Exiting, <<>>) IN
  /\ At(c, "user")
  /\ Trap(c, KilledThen(p, Exiting, after \o fs \o <<Frame("syscall")>>), <<>>)

\* intr_on(), before syscall()
EnterSyscall(c) ==
  /\ At(c, "syscall")
  /\ cpu' = [cpu EXCEPT ![c].sie = TRUE]
  /\ Return(c)
  /\ UNCHANGED <<run, holder, state, killed, ticks, now, panicked>>

\* Mutant: prepare_return() does not turn interrupts off.
PreparedOpen(k) == [k EXCEPT !.stvec = "uservec"]

Prepared(k) == [k EXCEPT !.sie = FALSE, !.stvec = "uservec"]

\* prepare_return(), up to w_stvec(): from here until sret a trap from the kernel
\* would go to usertrap()
PrepareReturn(c) ==
  /\ At(c, "return")
  /\ cpu' = [cpu EXCEPT ![c] = Prepared(@)]
  /\ Goto(c, "sret")
  /\ UNCHANGED <<run, holder, state, killed, ticks, now, panicked>>

\* the rest of prepare_return(), sstatus and sepc, and the trampoline's sret
UserReturn(c) ==
  /\ At(c, "sret")
  /\ Sret(c, [cpu[c] EXCEPT !.spp = FALSE, !.spie = TRUE, !.sepc = Top(c).epc])

\* forkret(), entered with p->lock held and the intena of the scheduler
Forkret(c) ==
  /\ At(c, "forkret")
  /\ Release(c, run[c], cpu[c])
  /\ Goto(c, "return")
  /\ UNCHANGED <<run, state, killed, ticks, now>>

----------------------------------------------------------------------------
(* system calls *)

\* if(n < 0) n = 0
Clamp(n) == IF n < 0 THEN 0 ELSE n

Pause(n) == <<[at |-> "start", n |-> Clamp(n), asked |-> n, t0 |-> 0, born |-> 0],
              Acquire(tickslock)>>

\* Mutant: ticks < ticks0 + n
WaitingUntil(t, f) == t < f.t0 + f.n

\* ticks - ticks0 < n, both sides unsigned
Waiting(t, f) == (t - f.t0) % UINT < f.n % UINT

\* the while loop of sys_pause(), in frame f
Loop(c, f) ==
  /\ Then(c, IF Waiting(ticks, f)
             THEN KilledThen(run[c], <<[f EXCEPT !.at = "failed"]>>,
                             <<[f EXCEPT !.at = "while"]>> \o Sleeping(run[c]))
             ELSE <<[f EXCEPT !.at = "paused"]>>)
  /\ UNCHANGED <<cpu, run, holder, state, killed, ticks, now, panicked>>

SysPause(c) ==
  LET f == Top(c) IN
  \/ f.at = "start" /\ Loop(c, [f EXCEPT !.t0 = ticks, !.born = now])
  \/ f.at = "while" /\ Loop(c, f)
  \/ /\ f.at \in {"paused", "failed"}
     /\ Release(c, tickslock, cpu[c])
     /\ Return(c)
     /\ UNCHANGED <<run, state, killed, ticks, now>>

Uptime == <<Frame("xticks"), Acquire(tickslock)>>

SysUptime(c) ==
  /\ At(c, "xticks")
  /\ Release(c, tickslock, cpu[c])
  /\ Return(c)
  /\ UNCHANGED <<run, state, killed, ticks, now>>

KillCall(p) == <<[at |-> "victim", i |-> 1, pid |-> p], Acquire(proc[1])>>

\* kkill() takes the lock of each process before the victim in the table
Kill(c) ==
  LET f == Top(c)
      p == proc[f.i] IN
  /\ f.at = "victim"
  /\ Release(c, p, cpu[c])
  /\ IF p = f.pid
     THEN /\ killed' = [killed EXCEPT ![p] = TRUE]
          /\ state' = [state EXCEPT ![p] = IF @ = "SLEEPING" THEN "RUNNABLE" ELSE @]
          /\ Return(c)
     ELSE /\ Then(c, <<[f EXCEPT !.i = @ + 1], Acquire(proc[f.i + 1])>>)
          /\ UNCHANGED <<killed, state>>
  /\ UNCHANGED <<run, ticks, now>>

Syscall(c) ==
  /\ InProcess(c)
  /\ \/ \E n \in Pauses[run[c]] : Ecall(c, Pause(n))
     \/ run[c] \in Readers /\ Ecall(c, Uptime)
     \/ \E p \in Victims[run[c]] : ~killed[p] /\ Ecall(c, KillCall(p))

----------------------------------------------------------------------------

Locking(c) == IntrGet(c) \/ Lock(c)

Switching(c) ==
  \/ Ready(c) \/ SchedulerOff(c) \/ Look(c) \/ Back(c)
  \/ Yield(c) \/ Sleep(c) \/ Exit(c) \/ Killed(c)

Trapping(c) ==
  \/ Timer(c) \/ ClockIntr(c) \/ KernelReturn(c) \/ Syscall(c) \/ EnterSyscall(c)
  \/ PrepareReturn(c) \/ UserReturn(c) \/ Forkret(c)

Calling(c) == SysPause(c) \/ SysUptime(c) \/ Kill(c)

Next ==
  /\ ~panicked
  /\ \E c \in CPUs : Locking(c) \/ Switching(c) \/ Trapping(c) \/ Calling(c)

Spec == Init /\ [][Next]_vars

----------------------------------------------------------------------------
(* Properties *)

\* No check of acquire(), release(), pop_off(), sched(), usertrap() or
\* kerneltrap() fails: no CPU takes a lock it holds or frees one it does not
\* hold, push_off() and pop_off() stay paired across every switch between
\* threads and CPUs, a process leaves its CPU holding p->lock alone, and no
\* trap from kernel code goes to usertrap() or from user code to kerneltrap(),
\* wherever between the change of stvec and sret a timer interrupt comes.
NoPanic == ~panicked

\* The interrupt-enable state belongs to the thread, not to the CPU (the
\* comment of sched()): a system call that holds no lock can be interrupted
\* whatever CPU it has moved to, a CPU that holds a lock cannot, and a CPU
\* executes wfi with interrupts off.
InterruptsRestored ==
  \A c \in CPUs :
    /\ LET s == stack[run[c]] IN
       /\ \E i \in DOMAIN s : s[i].at = "return" /\ s[i].sys
       /\ \A i \in DOMAIN s : s[i].at \notin {"kt_ret", "syscall"}
       /\ cpu[c].noff = 0
       => cpu[c].sie
    /\ (\E l \in Locks : holder[l] = c) => ~cpu[c].sie
    /\ At(c, "wfi") => ~cpu[c].sie

\* A trap returns to the code it interrupted, in the mode it interrupted:
\* sepc and sstatus are the CPU's, and other threads may have trapped there
\* (or this one moved to another CPU) while kerneltrap() was in yield().
TrapReturnsHome ==
  \A c \in CPUs :
    LET k == Restore(cpu[c], Top(c)) IN
    At(c, "kt_ret") =>
      k.sepc = <<run[c], Len(stack[run[c]]) - 1>> /\ k.spp /\ k.spie

\* pause(n) returns 0 only after n ticks, and no process is left asleep on
\* &ticks once its n ticks have passed (outside tickslock's critical
\* sections), also when the 32-bit tick counter wraps during the pause.
PauseOnTime ==
  \A p \in Procs : \A i \in DOMAIN stack[p] :
    LET f == stack[p][i] IN
    /\ f.at = "paused" => now - f.born >= f.asked
    /\ f.at = "while" /\ state[p] = "SLEEPING" /\ holder[tickslock] = Free
         => now - f.born < f.asked

============================================================================
