---------------------------- MODULE FamilyProofs ----------------------------
(***************************************************************************)
(* Proofs about module Proc, continued: parents and children.  On top of   *)
(* the invariant of ProcProofs, wait_lock makes exit hand every child to   *)
(* init and makes wait miss no child that exits.                           *)
(***************************************************************************)
EXTENDS ProcProofs

Alive == {"SLEEPING", "RUNNABLE", "RUNNING"}
Dead == {"ZOMBIE", "UNUSED"}

\* exit has handed over the children in the slots below i[p], in the end all;
\* who is dead went through there.
FamilyInv ==
  /\ parent \in [Slots -> Slots \cup {NoProc}] /\ parent[initproc] = NoProc
  /\ \A p \in Slots : parent[p] # NoProc => state[p] # "UNUSED" /\ state[parent[p]] \in Alive
  /\ \A p \in Slots : pc[p] \in {"reparent", "wake_init"} =>
       \A q \in Slots : parent[q] = p => i[p] <= q
  /\ \A p \in Slots : pc[p] \in {"wake_parent", "exit_zombie"} =>
       \A q \in Slots : parent[q] # p
  /\ \A p \in Slots : state[p] \in Dead => pc[p] \in {"exit_zombie", "user"}

\* In sleep(p, &wait_lock) of kwait().
Asleep(p) == state[p] = "SLEEPING" /\ chan[p] = p

\* Only init may sleep beside a zombie child, and then the process that handed the
\* child over is about to wake it.  wakeup() finds a sleeping parent in a slot it has
\* not passed; kwait() passes no zombie.
SleeperInv ==
  /\ \A p, q \in Slots : Asleep(p) /\ parent[q] = p /\ state[q] = "ZOMBIE" =>
       p = initproc /\ \E r \in Slots : pc[r] = "wake_init" /\ j[r] = 1
  /\ \A q \in Slots : pc[q] = "wake_parent" /\ parent[q] # NoProc =>
       (Asleep(parent[q]) => j[q] <= parent[q])
  /\ \A q \in Slots : pc[q] = "exit_zombie" /\ state[q] \notin Dead /\ parent[q] # NoProc =>
       ~Asleep(parent[q])
  /\ \A p \in Slots : pc[p] = "wait_scan" =>
       \A q \in Slots : parent[q] = p /\ state[q] = "ZOMBIE" => i[p] <= q
  /\ \A p \in Slots : pc[p] = "wait_sleep" =>
       \A q \in Slots : parent[q] = p => state[q] # "ZOMBIE"

FInv == IInv /\ FamilyInv /\ SleeperInv

LEMMA InitFInv == Init => FInv
<1> SUFFICES ASSUME Init PROVE FInv
  OBVIOUS
<1>1. IInv
  BY InitIInv
<1>2. FamilyInv
  BY Constants DEF Init, FamilyInv, initproc
<1>3. SleeperInv
  BY Constants DEF Init, SleeperInv, Asleep
<1> QED
  BY <1>1, <1>2, <1>3 DEF FInv

\* wait_lock: one process at a time is at a place where it has it, and it runs.
LEMMA Alone ==
  ASSUME FInv, NEW c \in CPUs, NEW p \in Slots, On(c, p), pc[p] \in Holding
  PROVE  \A q \in Slots : pc[q] \in Holding /\ q # p => state[q] \in Dead /\ pc[q] = "exit_zombie"
<1>1. ASSUME NEW q \in Slots, pc[q] \in Holding, q # p PROVE state[q] \in Dead
  BY <1>1, OnCpu DEF FInv, IInv, WaitLockInv, CpuInv, Dead, On
<1> QED
  BY <1>1 DEF FInv, FamilyInv, Holding

LEMMA WaitLockFree ==
  ASSUME FInv, wlock = NoCpu
  PROVE  \A q \in Slots : pc[q] \in Holding => state[q] \in Dead /\ pc[q] = "exit_zombie"
<1>1. ASSUME NEW q \in Slots, pc[q] \in Holding PROVE state[q] \in Dead
  BY <1>1, Constants DEF FInv, IInv, WaitLockInv, Dead
<1> QED
  BY <1>1 DEF FInv, FamilyInv, Holding

----------------------------------------------------------------------------
(* Steps that do not touch the family *)

\* What most steps do: no process dies, wakes a child's parent or falls asleep.
Calm ==
  /\ parent' = parent
  /\ \A r \in Slots :
       /\ state[r] \in Alive => state'[r] \in Alive
       /\ state'[r] = state[r] \/ state'[r] \notin Dead \cup {"SLEEPING"}
       /\ state'[r] = "SLEEPING" => chan'[r] = chan[r] \/ chan'[r] = NoProc
       /\ state'[r] \in Dead => pc'[r] = pc[r]
       /\ state'[r] = "USED" => pc'[r] = "user" \/ pc'[r] = pc[r]
       /\ pc[r] = "wake_init" => pc'[r] = "wake_init"
       /\ pc'[r] = "exit_zombie" => pc[r] = "exit_zombie" /\ state'[r] = state[r]
       /\ pc'[r] \in {"wake_parent", "wait_sleep"} => pc'[r] = pc[r]
       /\ pc'[r] \in {"reparent", "wake_init"} => (pc'[r] = pc[r] /\ i'[r] = i[r]) \/ i'[r] = 1
       /\ pc'[r] = "wait_scan" => (pc'[r] = pc[r] /\ i'[r] = i[r]) \/ i'[r] = 1
       /\ pc[r] \in {"wake_init", "wake_parent"} => j'[r] = j[r]

LEMMA CalmFamily ==
  ASSUME FamilyInv, Calm
  PROVE  FamilyInv'
<1> USE Constants DEF Calm
<1>1. \A p \in Slots : parent[p] # NoProc => state'[p] # "UNUSED" /\ state'[parent[p]] \in Alive
  <2>1. \A p \in Slots : parent[p] # NoProc =>
          parent[p] \in Slots /\ state[p] # "UNUSED" /\ state[parent[p]] \in Alive
    BY DEF FamilyInv
  <2>2. \A p \in Slots : state[p] # "UNUSED" => state'[p] # "UNUSED"
    BY DEF Dead
  <2> QED
    BY <2>1, <2>2
<1>2. \A p \in Slots : pc'[p] \in {"reparent", "wake_init"} =>
        \A q \in Slots : parent[q] = p => i'[p] <= q
  <2>1. \A q \in Slots : 1 <= q
    BY DEF Slots
  <2>2. ASSUME NEW p \in Slots, pc'[p] \in {"reparent", "wake_init"},
               NEW q \in Slots, parent[q] = p
        PROVE  i'[p] <= q
    <3>1. CASE pc'[p] = pc[p] /\ i'[p] = i[p]
      BY <2>2, <3>1 DEF FamilyInv
    <3>2. CASE i'[p] = 1
      BY <2>1, <3>2
    <3> QED
      BY <2>2, <3>1, <3>2
  <2> QED
    BY <2>2
<1>3. \A p \in Slots : pc'[p] \in {"wake_parent", "exit_zombie"} => \A q \in Slots : parent[q] # p
  BY Zenon DEF FamilyInv
<1>4. \A p \in Slots : state'[p] \in Dead => pc'[p] \in {"exit_zombie", "user"}
  BY Zenon DEF FamilyInv
<1> QED
  BY <1>1, <1>2, <1>3, <1>4 DEF FamilyInv

LEMMA CalmSleepers ==
  ASSUME FamilyInv, SleeperInv, Calm
  PROVE  SleeperInv'
<1> USE Constants DEF Calm
<1>0. \A q \in Slots : parent[q] # NoProc => parent[q] \in Slots
  BY DEF FamilyInv
<1> DEFINE AsleepNow(p) == state'[p] = "SLEEPING" /\ chan'[p] = p
<1>1. \A p \in Slots : AsleepNow(p) => Asleep(p)
  BY DEF Asleep
<1> HIDE DEF AsleepNow
<1>2. \A p, q \in Slots : AsleepNow(p) /\ parent[q] = p /\ state'[q] = "ZOMBIE" =>
        p = initproc /\ \E r \in Slots : pc'[r] = "wake_init" /\ j'[r] = 1
  BY <1>1 DEF SleeperInv, Dead
<1>3. \A q \in Slots : pc'[q] = "wake_parent" /\ parent[q] # NoProc =>
        (AsleepNow(parent[q]) => j'[q] <= parent[q])
  BY <1>1, <1>0, Zenon DEF SleeperInv
<1>4. \A q \in Slots : pc'[q] = "exit_zombie" /\ state'[q] \notin Dead /\ parent[q] # NoProc =>
        ~AsleepNow(parent[q])
  BY <1>1, <1>0, Zenon DEF SleeperInv
<1>5. \A p \in Slots : pc'[p] = "wait_scan" =>
        \A q \in Slots : parent[q] = p /\ state'[q] = "ZOMBIE" => i'[p] <= q
  BY DEF SleeperInv, Slots, Dead
<1>6. \A p \in Slots : pc'[p] = "wait_sleep" =>
        \A q \in Slots : parent[q] = p => state'[q] # "ZOMBIE"
  BY DEF SleeperInv, Dead
<1> QED
  BY <1>2, <1>3, <1>4, <1>5, <1>6 DEF SleeperInv, Asleep, AsleepNow

LEMMA HoldingRuns ==
  ASSUME FInv, NEW q \in Slots, pc[q] \in Holding
  PROVE  state[q] \in Dead \cup {"RUNNING"}
BY Constants, Zenon DEF FInv, IInv, CpuInv, WaitLockInv, Dead

LEMMA CalmCalls ==
  ASSUME FInv, NEW c \in CPUs, NEW p \in Slots,
         \/ SysReturn(c, p) \/ Exit(c, p) \/ Wait(c, p)
         \/ \E call \in {"fork", "wait", "exit", "kill"}, k \in Nat : Syscall(c, p, call, k)
  PROVE  Calm
<1>1. state[p] = "RUNNING"
  BY OnCpu, Zenon DEF SysReturn, Exit, Wait, Syscall, FInv, IInv
<1>2. UNCHANGED <<state, parent, chan, j>>
  BY DEF SysReturn, Exit, Wait, Syscall, proc
<1>3. \/ pc' = pc /\ i' = i
      \/ \E l \in {"fork", "wait", "exit", "kill", "user"} :
           pc[p] \in {"user", "ret"} /\ pc' = [pc EXCEPT ![p] = l] /\ (i' = i \/ i' = [i EXCEPT ![p] = 1])
      \/ pc[p] = "exit" /\ pc' = [pc EXCEPT ![p] = "reparent"] /\ i' = [i EXCEPT ![p] = 1]
      \/ pc[p] = "wait" /\ pc' = [pc EXCEPT ![p] = "wait_scan"] /\ i' = [i EXCEPT ![p] = 1]
  <2>1. CASE SysReturn(c, p)
    BY <2>1, Zenon DEF SysReturn, Goto
  <2>2. CASE Exit(c, p)
    BY <2>2 DEF Exit, Goto
  <2>3. CASE Wait(c, p)
    BY <2>3 DEF Wait, Goto
  <2>4. ASSUME NEW call \in {"fork", "wait", "exit", "kill"}, NEW k \in Nat, Syscall(c, p, call, k)
        PROVE  /\ pc[p] \in {"user", "ret"} /\ i' = [i EXCEPT ![p] = 1]
               /\ \E l \in {"fork", "wait", "exit", "kill", "user"} : pc' = [pc EXCEPT ![p] = l]
    BY <2>4, Zenon DEF Syscall, Goto
  <2> QED
    BY <2>1, <2>2, <2>3, <2>4
<1> QED
  BY <1>1, <1>2, <1>3 DEF Calm, FInv, IInv, TypeInv, Dead

\* A process moves off or onto a CPU.
LEMMA CalmSwitches ==
  ASSUME FInv, NEW c \in CPUs, NEW p \in Slots,
         Dispatch(c) \/ SwitchOut(c, p) \/ Resume(c, p) \/ Preempt(c, p)
  PROVE  Calm
<1>1. UNCHANGED <<parent, pc, i, j>>
  BY Zenon DEF Dispatch, SwitchOut, Resume, Preempt, proc, local
<1>2. CASE Dispatch(c)
  <2>1. PICK q \in Slots : q = sidx[c]
    BY DEF FInv, IInv, TypeInv
  <2>2. /\ state' = state \/ (state[q] = "RUNNABLE" /\ state' = [state EXCEPT ![q] = "RUNNING"])
        /\ chan' = chan
    BY <1>2, <2>1 DEF Dispatch
  <2>3. state[q] = "RUNNABLE" => pc[q] # "exit_zombie"
    BY HoldingRuns, Zenon DEF Holding, Dead
  <2> QED
    BY <1>1, <2>2, <2>3 DEF Calm, FInv, IInv, TypeInv, Dead, Alive
<1>3. CASE SwitchOut(c, p)
  BY <1>1, <1>3, Zenon DEF Calm, SwitchOut, proc
<1>4. CASE Resume(c, p)
  BY <1>1, <1>4, SMTT(30) DEF Calm, Resume
<1>5. CASE Preempt(c, p)
  <2>1. state[p] = "RUNNING" /\ pc[p] # "exit_zombie"
    <3>1. pc[p] \notin Holding
      BY <1>5, OnCpu DEF Preempt, IntrOn, FInv, IInv, WaitLockInv, On
    <3> QED
      BY <1>5, <3>1, OnCpu, Zenon DEF Preempt, FInv, IInv, Holding
  <2> QED
    BY <1>1, <1>5, <2>1, Zenon DEF Calm, Preempt, FInv, IInv, TypeInv, Dead, Alive
<1> QED
  BY <1>2, <1>3, <1>4, <1>5, Zenon

LEMMA CalmTick ==
  ASSUME FInv, NEW c \in CPUs, NEW p \in Slots, Tick(c, p)
  PROVE  Calm
<1>1. CASE Preempt(c, p)
  BY <1>1, CalmSwitches, Zenon
<1>2. CASE /\ pc[p] = "user" /\ pc' = [pc EXCEPT ![p] = "exit"] /\ On(c, p)
           /\ UNCHANGED <<state, parent, chan, i, j>>
  <2>1. state[p] = "RUNNING"
    BY <1>2, OnCpu, Zenon DEF FInv, IInv
  <2> QED
    BY <1>2, <2>1 DEF Calm, FInv, IInv, TypeInv, Dead
<1> QED
  BY <1>1, <1>2 DEF Tick, Goto, proc

LEMMA CalmKill ==
  ASSUME FInv, NEW c \in CPUs, NEW p \in Slots, KillScan(c, p)
  PROVE  Calm
<1>1. state[p] = "RUNNING" /\ pc[p] = "kill" /\ i[p] \in Slots
  BY OnCpu DEF KillScan, FInv, IInv, ScanInv
<1>2. PICK q \in Slots : q = i[p]
  BY <1>1
<1>3. /\ state' = state \/ (state[q] = "SLEEPING" /\ state' = [state EXCEPT ![q] = "RUNNABLE"])
      /\ pc' = pc \/ pc' = [pc EXCEPT ![p] = "ret"]
      /\ \A r \in Slots : r # p => i'[r] = i[r]
      /\ UNCHANGED <<parent, chan, j>>
  BY <1>2 DEF KillScan, Wake, Goto, FInv, IInv, TypeInv
<1>4. state[q] = "SLEEPING" => pc[q] # "exit_zombie"
  BY HoldingRuns DEF Holding, Dead
<1> QED
  BY <1>1, <1>3, <1>4, SMTT(30) DEF Calm, FInv, IInv, TypeInv, Dead, Alive

LEMMA CalmForkRun ==
  ASSUME FInv, NEW c \in CPUs, NEW p \in Slots, ForkRun(c, p)
  PROVE  Calm
<1>1. state[p] = "RUNNING" /\ pc[p] = "fork_run"
  BY OnCpu DEF ForkRun, FInv, IInv
<1>2. PICK q \in Slots : q = arg[p] /\ state[q] = "USED"
  BY <1>1 DEF FInv, IInv, ForkInv, Forking
<1>3. /\ state' = [state EXCEPT ![q] = "RUNNABLE"] /\ pc' = [pc EXCEPT ![p] = "ret"]
      /\ UNCHANGED <<parent, chan, i, j>>
  BY <1>2 DEF ForkRun, Goto
<1>4. pc[q] # "exit_zombie"
  BY <1>2, HoldingRuns, Zenon DEF Holding, Dead
<1> QED
  BY <1>1, <1>2, <1>3, <1>4, Zenon DEF Calm, FInv, IInv, TypeInv, Dead, Alive

LEMMA CalmForkScan ==
  ASSUME FInv, NEW c \in CPUs, NEW p \in Slots, ForkScan(c, p)
  PROVE  Calm
<1>1. state[p] = "RUNNING" /\ pc[p] = "fork" /\ i[p] \in Slots /\ j' = j
  BY OnCpu DEF ForkScan, FInv, IInv, ScanInv
<1>2. PICK q \in Slots : q = i[p]
  BY <1>1, Zenon
<1>3. \A r \in Slots : r # p => i'[r] = i[r]
  BY DEF ForkScan, FInv, IInv, TypeInv
<1>4. CASE UNCHANGED proc /\ (pc' = pc \/ pc' = [pc EXCEPT ![p] = "ret"])
  BY <1>1, <1>3, <1>4 DEF Calm, proc, FInv, IInv, TypeInv, Dead
<1>5. CASE state[q] = "UNUSED" /\ FreeProc(q) /\ pc' = [pc EXCEPT ![p] = "ret"]
  <2>1. state' = state
    BY <1>5, Zenon DEF FreeProc, FInv, IInv, TypeInv
  <2>2. parent' = parent /\ \A r \in Slots : state[r] # "UNUSED" => chan'[r] = chan[r]
    <3>1. parent[q] = NoProc
      BY <1>5 DEF FInv, FamilyInv
    <3>2. chan' = [chan EXCEPT ![q] = NoProc] /\ parent' = [parent EXCEPT ![q] = NoProc]
      BY <1>5, Zenon DEF FreeProc
    <3> QED
      BY <1>5, <3>1, <3>2 DEF FInv, FamilyInv
  <2> QED
    BY <1>1, <1>3, <1>5, <2>1, <2>2, Zenon DEF Calm, FInv, IInv, TypeInv, Dead
<1>6. CASE /\ state[q] = "UNUSED" /\ state' = [state EXCEPT ![q] = "USED"]
           /\ pc' = [pc EXCEPT ![p] = "fork_parent", ![q] = "user"]
           /\ UNCHANGED <<parent, chan>>
  <2>1. pc[q] \in {"exit_zombie", "user"} /\ q # p
    BY <1>1, <1>6 DEF FInv, FamilyInv, Dead
  <2> QED
    BY <1>1, <1>3, <1>6, <2>1 DEF Calm, FInv, IInv, TypeInv, Dead, Alive
<1> QED
  BY <1>2, <1>4, <1>5, <1>6, Zenon DEF ForkScan, Goto

----------------------------------------------------------------------------
(* The steps that do *)

LEMMA ForkParentFamily ==
  ASSUME FInv, NEW c \in CPUs, NEW p \in Slots, ForkParent(c, p)
  PROVE  FamilyInv' /\ SleeperInv'
<1> USE Constants
<1>1. state[p] = "RUNNING" /\ pc[p] = "fork_parent" /\ wlock = NoCpu
  BY OnCpu DEF ForkParent, FInv, IInv
<1>2. PICK a \in Slots : a = arg[p] /\ state[a] = "USED"
  BY <1>1, Zenon DEF FInv, IInv, ForkInv, Forking
<1>3. /\ parent' = [parent EXCEPT ![a] = p] /\ pc' = [pc EXCEPT ![p] = "fork_run"]
      /\ UNCHANGED <<state, chan, i, j>>
  BY <1>2 DEF ForkParent, Goto
<1>4. \A q \in Slots : pc[q] \in Holding => state[q] \in Dead /\ pc[q] = "exit_zombie"
  BY <1>1, WaitLockFree, Zenon
<1>5. \A q \in Slots : pc'[q] \in Holding => q # p /\ state[q] \in Dead /\ pc'[q] = "exit_zombie"
  BY <1>1, <1>3, <1>4, Zenon DEF FInv, IInv, TypeInv, Holding
<1>6. FamilyInv'
  <2>1. /\ parent' \in [Slots -> Slots \cup {NoProc}] /\ parent'[initproc] = NoProc
    BY <1>2, <1>3, Zenon DEF FInv, FamilyInv, IInv, InitInv
  <2>2. \A q \in Slots : parent'[q] # NoProc => state[q] # "UNUSED" /\ state[parent'[q]] \in Alive
    BY <1>1, <1>2, <1>3 DEF FInv, FamilyInv, Alive
  <2>3. \A q \in Slots : pc'[q] \notin {"reparent", "wake_init", "wake_parent"}
    BY <1>5, Zenon DEF Holding
  <2>4. \A q \in Slots : pc'[q] = "exit_zombie" => \A r \in Slots : parent'[r] # q
    BY <1>1, <1>3, <1>5 DEF FInv, FamilyInv, IInv, TypeInv, Holding
  <2>5. \A q \in Slots : state[q] \in Dead => pc'[q] \in {"exit_zombie", "user"}
    BY <1>1, <1>3, Zenon DEF FInv, FamilyInv, IInv, TypeInv, Dead
  <2> QED
    BY <1>3, <2>1, <2>2, <2>3, <2>4, <2>5, Zenon DEF FamilyInv
<1>7. SleeperInv'
  <2>1. \A q, r \in Slots : ~(Asleep(q) /\ parent'[r] = q /\ state[r] = "ZOMBIE")
    BY <1>1, <1>2, <1>3, <1>4 DEF FInv, FamilyInv, SleeperInv, Asleep, Holding
  <2>2. \A q \in Slots : pc'[q] \notin {"wake_parent", "wait_scan", "wait_sleep"}
    BY <1>5 DEF Holding
  <2>3. \A q \in Slots : pc'[q] = "exit_zombie" => state[q] \in Dead
    BY <1>5, Zenon DEF Holding
  <2> QED
    BY <1>3, <2>1, <2>2, <2>3, Zenon DEF SleeperInv, Asleep
<1> QED
  BY <1>6, <1>7

LEMMA ReparentFamily ==
  ASSUME FInv, NEW c \in CPUs, NEW p \in Slots, Reparent(c, p)
  PROVE  FamilyInv' /\ SleeperInv'
<1> USE Constants
<1>1. state[p] = "RUNNING" /\ pc[p] = "reparent" /\ p # initproc
  BY OnCpu DEF Reparent, FInv, IInv, InitInv, Forking
<1>2. \A q \in Slots : pc[q] \in Holding /\ q # p => state[q] \in Dead /\ pc[q] = "exit_zombie"
  BY <1>1, Alone DEF Reparent, Holding
<1>3. UNCHANGED <<state, chan>> /\ j' = [j EXCEPT ![p] = 1]
  BY DEF Reparent
<1>4. ASSUME NEW q \in KidsFrom(p, i[p]), First(KidsFrom(p, i[p]), q),
             parent' = [parent EXCEPT ![q] = initproc],
             i' = [i EXCEPT ![p] = q + 1], pc' = [pc EXCEPT ![p] = "wake_init"]
      PROVE  FamilyInv' /\ SleeperInv'
  <2>1. q \in Slots /\ parent[q] = p /\ state[q] # "UNUSED" /\ q # initproc
    BY <1>1, <1>4 DEF KidsFrom, FInv, FamilyInv
  <2>2. \A r \in Slots : parent[r] = p /\ r # q => q + 1 <= r
    <3>1. \A r \in Slots : parent[r] = p => r \in KidsFrom(p, i[p])
      BY <1>1 DEF FInv, FamilyInv, KidsFrom
    <3>2. \A r \in Slots : parent[r] = p => q <= r
      BY <1>4, <3>1 DEF First
    <3> QED
      BY <2>1, <3>2
  <2>3. \A r \in Slots : pc'[r] \in Holding /\ r # p => state[r] \in Dead /\ pc'[r] = "exit_zombie"
    BY <1>2, <1>4, Zenon DEF FInv, IInv, TypeInv
  <2>4. pc'[p] = "wake_init" /\ j'[p] = 1 /\ i'[p] = q + 1
    BY <1>3, <1>4 DEF FInv, IInv, TypeInv
  <2>5. state[initproc] \in Alive
    BY DEF FInv, IInv, InitInv, Alive
  <2>6. FamilyInv'
    <3>1. parent' \in [Slots -> Slots \cup {NoProc}] /\ parent'[initproc] = NoProc
      BY <1>4, <2>1, Zenon DEF FInv, FamilyInv
    <3>2. \A r \in Slots : parent'[r] # NoProc => state[r] # "UNUSED" /\ state[parent'[r]] \in Alive
      BY <1>4, <2>1, <2>5, Zenon DEF FInv, FamilyInv
    <3>3. \A r \in Slots : parent'[r] = p => i'[p] <= r
      BY <1>1, <1>4, <2>1, <2>2, <2>4, Zenon DEF FInv, FamilyInv
    <3>4. \A r \in Slots : pc'[r] \in {"reparent", "wake_init", "wake_parent"} => r = p
      BY <2>3, Zenon DEF Holding
    <3>5. \A r \in Slots : pc'[r] = "exit_zombie" => \A x \in Slots : parent'[x] # r
      BY <1>4, <2>1, <2>3, <2>4, <2>5, SMTT(30) DEF FInv, FamilyInv, IInv, TypeInv, Holding, Dead, Alive
    <3>6. \A r \in Slots : state[r] \in Dead => pc'[r] \in {"exit_zombie", "user"}
      BY <1>1, <1>4, Zenon DEF FInv, FamilyInv, IInv, TypeInv, Dead
    <3> QED
      BY <1>3, <2>4, <3>1, <3>2, <3>3, <3>4, <3>5, <3>6, Zenon DEF FamilyInv
  <2>7. SleeperInv'
    <3>1. \A x, r \in Slots : Asleep(x) /\ parent'[r] = x /\ state[r] = "ZOMBIE" => x = initproc
      BY <1>4, <2>1 DEF FInv, FamilyInv, SleeperInv
    <3>2. \A r \in Slots : pc'[r] \notin {"wake_parent", "wait_scan", "wait_sleep"}
      BY <2>3, <2>4 DEF Holding
    <3>3. \A r \in Slots : pc'[r] = "exit_zombie" => state[r] \in Dead
      BY <2>3, <2>4 DEF Holding
    <3> QED
      BY <1>3, <2>4, <3>1, <3>2, <3>3, Zenon DEF SleeperInv, Asleep
  <2> QED
    BY <2>6, <2>7
<1>5. ASSUME KidsFrom(p, i[p]) = {}, UNCHANGED parent,
             i' = [i EXCEPT ![p] = 1], pc' = [pc EXCEPT ![p] = "wake_parent"]
      PROVE  FamilyInv' /\ SleeperInv'
  <2>1. \A r \in Slots : parent[r] # p
    BY <1>1, <1>5, Zenon DEF FInv, FamilyInv, KidsFrom
  <2>2. \A r \in Slots : pc'[r] \in Holding /\ r # p => state[r] \in Dead /\ pc'[r] = "exit_zombie"
    BY <1>2, <1>5, Zenon DEF FInv, IInv, TypeInv
  <2>3. pc'[p] = "wake_parent" /\ j'[p] = 1
    BY <1>3, <1>5, Zenon DEF FInv, IInv, TypeInv
  <2>4. FamilyInv'
    <3>1. \A r \in Slots : pc'[r] \notin {"reparent", "wake_init"}
      BY <2>2, <2>3, Zenon DEF Holding
    <3>2. \A r \in Slots : pc'[r] \in {"wake_parent", "exit_zombie"} => \A x \in Slots : parent[x] # r
      BY <1>5, <2>1, Zenon DEF FInv, FamilyInv, IInv, TypeInv
    <3>3. \A r \in Slots : state[r] \in Dead => pc'[r] \in {"exit_zombie", "user"}
      BY <1>1, <1>5, Zenon DEF FInv, FamilyInv, IInv, TypeInv, Dead
    <3> QED
      BY <1>3, <1>5, <3>1, <3>2, <3>3 DEF FInv, FamilyInv
  <2>5. SleeperInv'
    <3>1. \A x, r \in Slots : ~(Asleep(x) /\ parent[r] = x /\ state[r] = "ZOMBIE")
      BY <1>1, <1>2 DEF FInv, SleeperInv, Holding
    <3>2. \A r \in Slots : /\ pc'[r] \notin {"wait_scan", "wait_sleep"}
                           /\ pc'[r] = "wake_parent" => r = p
                           /\ pc'[r] = "exit_zombie" => state[r] \in Dead
      BY <2>2, <2>3 DEF Holding
    <3>3. parent[p] # NoProc => 1 <= parent[p]
      <4>1. parent[p] # NoProc => parent[p] \in Slots
        BY DEF FInv, FamilyInv
      <4>2. \A x \in Slots : 1 <= x
        BY SMTT(30) DEF Slots
      <4> QED
        BY <4>1, <4>2, Zenon
    <3> QED
      BY <1>3, <1>5, <2>3, <3>1, <3>2, <3>3, Zenon DEF SleeperInv, Asleep
  <2> QED
    BY <2>4, <2>5, Zenon
<1> QED
  BY <1>4, <1>5 DEF Reparent, Goto

\* The loop of wakeup() comes to a sleeper in its slot.
LEMMA WakeupFamily ==
  ASSUME FInv, NEW c \in CPUs, NEW p \in Slots, Wakeup(c, p)
  PROVE  FamilyInv' /\ SleeperInv'
<1> USE Constants
<1>1. state[p] = "RUNNING" /\ pc[p] \in {"wake_init", "wake_parent"} /\ p # initproc /\ j[p] \in Slots
  BY OnCpu, Zenon DEF Wakeup, FInv, IInv, InitInv, TypeInv, Forking
<1>2. \A q \in Slots : pc[q] \in Holding /\ q # p => state[q] \in Dead /\ pc[q] = "exit_zombie"
  BY <1>1, Alone, Zenon DEF Wakeup, Holding
<1>3. UNCHANGED <<parent, chan, i>> /\ j'[p] = NextSlot(j[p])
  BY Zenon DEF Wakeup, NextSlot, FInv, IInv, TypeInv
<1>4. /\ j[p] < NPROC => pc' = pc
      /\ j[p] = NPROC /\ pc[p] = "wake_init" => pc' = [pc EXCEPT ![p] = "reparent"]
      /\ j[p] = NPROC /\ pc[p] = "wake_parent" => pc' = [pc EXCEPT ![p] = "exit_zombie"]
      /\ j[p] < NPROC \/ j[p] = NPROC
  BY <1>1, ProcAssumption, SMTT(30) DEF Wakeup, Goto, Slots
<1>5. /\ state' \in [Slots -> States]
      /\ \A r \in Slots : state'[r] = state[r] \/ (state[r] = "SLEEPING" /\ state'[r] = "RUNNABLE")
  BY <1>1, Zenon DEF Wakeup, Wake, FInv, IInv, TypeInv, States
<1>6. ASSUME NEW x \in Slots, j[p] = x, x # p,
             (pc[p] = "wake_init" /\ x = initproc) \/ (pc[p] = "wake_parent" /\ x = parent[p])
      PROVE  ~(state'[x] = "SLEEPING" /\ chan'[x] = x)
  BY <1>3, <1>6 DEF Wakeup, Wake, FInv, IInv, TypeInv
<1>7. \A r \in Slots : pc'[r] \in Holding /\ r # p => state'[r] \in Dead /\ pc'[r] = "exit_zombie"
  <2>1. \A r \in Slots : r # p => pc'[r] = pc[r]
    BY <1>1, <1>4 DEF FInv, IInv, TypeInv
  <2>2. \A r \in Slots : state[r] \in Dead => state'[r] = state[r]
    BY <1>5, Zenon DEF Dead
  <2> QED
    BY <1>2, <2>1, <2>2, Zenon
<1>8. FamilyInv'
  <2>1. \A r \in Slots : parent[r] # NoProc => state'[r] # "UNUSED" /\ state'[parent[r]] \in Alive
    <3>1. \A r \in Slots : parent[r] # NoProc =>
            parent[r] \in Slots /\ state[r] # "UNUSED" /\ state[parent[r]] \in Alive
      BY DEF FInv, FamilyInv
    <3>2. \A r \in Slots : /\ state[r] \in Alive => state'[r] \in Alive
                           /\ state[r] # "UNUSED" => state'[r] # "UNUSED"
      BY <1>5, Zenon DEF Alive
    <3> QED
      BY <3>1, <3>2, Zenon
  <2>2. \A r \in Slots : pc'[r] \in {"reparent", "wake_init"} => r = p /\ pc[p] = "wake_init"
    BY <1>1, <1>4, <1>7, Zenon DEF FInv, IInv, TypeInv, Holding
  <2>3. \A r \in Slots : pc'[r] \in {"wake_parent", "exit_zombie"} => pc[r] \in {"wake_parent", "exit_zombie"}
    BY <1>1, <1>4, Zenon DEF FInv, IInv, TypeInv
  <2>4. \A r \in Slots : state'[r] \in Dead => pc'[r] \in {"exit_zombie", "user"}
    BY <1>1, <1>4, <1>5, SMTT(30) DEF FInv, FamilyInv, IInv, TypeInv, Dead
  <2> QED
    BY <1>3, <2>1, <2>2, <2>3, <2>4 DEF FInv, FamilyInv
<1>9. SleeperInv'
  <2> DEFINE AsleepNow(x) == state'[x] = "SLEEPING" /\ chan'[x] = x
  <2>1. \A x \in Slots : AsleepNow(x) => Asleep(x)
    BY <1>3, <1>5 DEF Asleep
  <2>2. ASSUME NEW x \in Slots, NEW r \in Slots, AsleepNow(x), parent[r] = x, state'[r] = "ZOMBIE"
        PROVE  FALSE
    <3>1. state[r] = "ZOMBIE" /\ Asleep(x)
      BY <1>5, <2>1, <2>2, Zenon
    <3>2. PICK y \in Slots : x = initproc /\ pc[y] = "wake_init" /\ j[y] = 1
      BY <2>2, <3>1 DEF FInv, SleeperInv
    <3>3. y = p
      BY <1>2, <3>2 DEF Holding
    <3>4. j[p] = x /\ x # p /\ pc[p] = "wake_init"
      BY <1>1, <3>2, <3>3, Zenon DEF initproc
    <3> QED
      BY <1>6, <2>2, <3>2, <3>4
  <2>3. ASSUME pc[p] = "wake_parent", parent[p] # NoProc, AsleepNow(parent[p])
        PROVE  j[p] + 1 <= parent[p] /\ j[p] < NPROC /\ j[p] # NPROC
    <3>1. PICK x \in Slots : x = parent[p]
      BY <2>3, Zenon DEF FInv, FamilyInv
    <3>2. x # p
      BY <2>3, <3>1, Zenon DEF FInv, FamilyInv
    <3>3. j[p] <= x
      BY <2>1, <2>3, <3>1, Zenon DEF FInv, SleeperInv
    <3>4. j[p] # x
      BY <1>6, <2>3, <3>1, <3>2
    <3>5. x <= NPROC /\ NPROC \in Nat
      BY ProcAssumption DEF Slots
    <3>6. j[p] \in Nat /\ x \in Nat
      BY <1>1, Zenon
    <3> QED
      BY <3>1, <3>3, <3>4, <3>5, <3>6
  <2>4. \A r \in Slots : pc'[r] \notin {"wait_scan", "wait_sleep"}
    BY <1>1, <1>4, <1>7, Zenon DEF FInv, IInv, TypeInv, Holding
  <2>5. \A r \in Slots : pc'[r] = "wake_parent" => r = p /\ pc[p] = "wake_parent"
    BY <1>1, <1>4, <1>7, Zenon DEF FInv, IInv, TypeInv, Holding
  <2>6. \A r \in Slots : pc'[r] = "exit_zombie" /\ state'[r] \notin Dead =>
          r = p /\ pc[p] = "wake_parent" /\ j[p] = NPROC
    BY <1>1, <1>4, <1>7, Zenon DEF FInv, IInv, TypeInv, Holding
  <2>7. \A r \in Slots : pc'[r] = "wake_parent" /\ parent[r] # NoProc =>
          (AsleepNow(parent[r]) => j'[r] <= parent[r])
    BY <1>3, <2>3, <2>5, Zenon DEF NextSlot
  <2>8. \A r \in Slots : pc'[r] = "exit_zombie" /\ state'[r] \notin Dead /\ parent[r] # NoProc =>
          ~AsleepNow(parent[r])
    BY <1>1, <2>3, <2>6, ProcAssumption, Zenon
  <2> QED
    BY <1>3, <2>2, <2>4, <2>7, <2>8 DEF SleeperInv, Asleep
<1> QED
  BY <1>8, <1>9

LEMMA ExitZombieFamily ==
  ASSUME FInv, NEW c \in CPUs, NEW p \in Slots, ExitZombie(c, p)
  PROVE  FamilyInv' /\ SleeperInv'
<1> USE Constants
<1>1. state[p] = "RUNNING" /\ pc[p] = "exit_zombie" /\ p # initproc
  BY OnCpu, Zenon DEF ExitZombie, FInv, IInv, InitInv, Forking
<1>2. \A q \in Slots : pc[q] \in Holding /\ q # p => state[q] \in Dead /\ pc[q] = "exit_zombie"
  BY <1>1, Alone DEF ExitZombie, Holding
<1>3. UNCHANGED <<parent, chan, pc, i, j>> /\ state' = [state EXCEPT ![p] = "ZOMBIE"]
  BY DEF ExitZombie
<1>4. \A q \in Slots : parent[q] # p
  BY <1>1, Zenon DEF FInv, FamilyInv
<1>5. FamilyInv'
  <2>1. \A r \in Slots : parent[r] # NoProc => state'[r] # "UNUSED" /\ state'[parent[r]] \in Alive
    BY <1>3, <1>4, Zenon DEF FInv, FamilyInv, IInv, TypeInv
  <2>2. \A r \in Slots : state'[r] \in Dead => pc[r] \in {"exit_zombie", "user"}
    BY <1>1, <1>3, Zenon DEF FInv, FamilyInv, IInv, TypeInv
  <2> QED
    BY <1>3, <2>1, <2>2, Zenon DEF FInv, FamilyInv
<1>6. SleeperInv'
  <2>1. \A x \in Slots : state'[x] = "SLEEPING" /\ chan[x] = x => Asleep(x)
    BY <1>3, Zenon DEF Asleep, FInv, IInv, TypeInv
  <2>2. \A x, r \in Slots : state'[x] = "SLEEPING" /\ chan[x] = x /\ parent[r] = x /\ state'[r] = "ZOMBIE" =>
          x = initproc /\ \E y \in Slots : pc[y] = "wake_init" /\ j[y] = 1
    <3>1. ASSUME NEW x \in Slots, state'[x] = "SLEEPING", chan[x] = x PROVE parent[p] # x
      BY <1>1, <2>1, <3>1, Zenon DEF FInv, SleeperInv, Dead
    <3> QED
      BY <1>3, <2>1, <3>1, Zenon DEF FInv, SleeperInv, IInv, TypeInv
  <2>3. \A r \in Slots : /\ pc[r] \notin {"wake_parent", "wait_scan", "wait_sleep"}
                         /\ pc[r] = "exit_zombie" => state'[r] \in Dead
    BY <1>1, <1>2, <1>3 DEF FInv, IInv, TypeInv, Holding, Dead
  <2> QED
    BY <1>3, <2>2, <2>3, Zenon DEF SleeperInv, Asleep
<1> QED
  BY <1>5, <1>6

LEMMA WaitScanFamily ==
  ASSUME FInv, NEW c \in CPUs, NEW p \in Slots, WaitScan(c, p)
  PROVE  FamilyInv' /\ SleeperInv'
<1> USE Constants
<1>1. state[p] = "RUNNING" /\ pc[p] = "wait_scan"
  BY OnCpu, Zenon DEF WaitScan, FInv, IInv
<1>2. PICK q \in KidsFrom(p, i[p]) :
        /\ First(KidsFrom(p, i[p]), q)
        /\ IF state[q] = "ZOMBIE"
           THEN WaitReturn(p) /\ (FreeProc(q) \/ UNCHANGED proc)
           ELSE i' = [i EXCEPT ![p] = q + 1] /\ UNCHANGED <<proc, pc>>
  BY Zenon DEF WaitScan
<1>3. q \in Slots /\ parent[q] = p /\ j' = j
  BY <1>2, Zenon DEF KidsFrom, WaitScan
<1>4. CASE state[q] # "ZOMBIE"
  <2>1. i' = [i EXCEPT ![p] = q + 1] /\ UNCHANGED <<state, parent, chan, pc, j>>
    BY <1>2, <1>3, <1>4, Zenon DEF proc
  <2>2. \A r \in Slots : r # p => i'[r] = i[r]
    BY <2>1, Zenon DEF FInv, IInv, TypeInv
  <2>3. FamilyInv'
    BY <1>1, <2>1, <2>2, Zenon DEF FInv, FamilyInv
  <2>4. \A r \in Slots : parent[r] = p /\ state[r] = "ZOMBIE" => i'[p] <= r
    <3>1. \A r \in Slots : parent[r] = p /\ state[r] = "ZOMBIE" => q <= r
      BY <1>1, <1>2, Zenon DEF FInv, SleeperInv, KidsFrom, First
    <3>2. i'[p] = q + 1
      BY <2>1, Zenon DEF FInv, IInv, TypeInv
    <3> QED
      BY <1>3, <1>4, <3>1, <3>2
  <2>5. SleeperInv'
    BY <2>1, <2>2, <2>4 DEF FInv, SleeperInv, Asleep
  <2> QED
    BY <2>3, <2>5
<1>5. CASE state[q] = "ZOMBIE" /\ UNCHANGED proc
  <2>1. pc' = [pc EXCEPT ![p] = "ret"] /\ i' = [i EXCEPT ![p] = 1] /\ UNCHANGED <<state, parent, chan>>
    BY <1>2, <1>5, Zenon DEF WaitReturn, Goto, proc
  <2>2. Calm
    BY <1>1, <1>3, <2>1, Zenon DEF Calm, FInv, IInv, TypeInv, Dead
  <2> QED
    BY <2>2, CalmFamily, CalmSleepers, Zenon DEF FInv
<1>6. CASE state[q] = "ZOMBIE" /\ FreeProc(q)
  <2>1. /\ pc' = [pc EXCEPT ![p] = "ret"] /\ i' = [i EXCEPT ![p] = 1]
        /\ state' = [state EXCEPT ![q] = "UNUSED"] /\ parent' = [parent EXCEPT ![q] = NoProc]
        /\ chan' = [chan EXCEPT ![q] = NoProc]
    BY <1>2, <1>6, Zenon DEF WaitReturn, Goto, FreeProc
  <2>2. q # p /\ q # initproc /\ \A r \in Slots : parent[r] # q
    BY <1>1, <1>3, <1>6, SMTT(30) DEF FInv, FamilyInv, IInv, InitInv, Alive
  <2>3. parent' \in [Slots -> Slots \cup {NoProc}] /\ \A r \in Slots :
          /\ r # p => pc'[r] = pc[r] /\ i'[r] = i[r]
          /\ r # q => state'[r] = state[r] /\ parent'[r] = parent[r]
    BY <2>1, ZenonT(30) DEF FInv, FamilyInv, IInv, TypeInv
  <2>4. pc'[p] = "ret" /\ parent'[q] = NoProc /\ state'[q] = "UNUSED"
    BY <1>3, <2>1, <2>2 DEF FInv, FamilyInv, IInv, TypeInv
  <2>5. FamilyInv'
    <3>1. \A r \in Slots : parent'[r] # NoProc => state'[r] # "UNUSED" /\ state'[parent'[r]] \in Alive
      <4>1. \A r \in Slots : parent[r] # NoProc =>
              parent[r] \in Slots \ {q} /\ state[r] # "UNUSED" /\ state[parent[r]] \in Alive
        BY <2>2 DEF FInv, FamilyInv
      <4> QED
        BY <2>3, <2>4, <4>1, ZenonT(30)
    <3>2. \A r \in Slots : pc'[r] \in {"reparent", "wake_init"} =>
            \A x \in Slots : parent'[x] = r => i'[r] <= x
      BY <2>3, <2>4 DEF FInv, FamilyInv
    <3>3. \A r \in Slots : pc'[r] \in {"wake_parent", "exit_zombie"} => \A x \in Slots : parent'[x] # r
      BY <2>3, <2>4 DEF FInv, FamilyInv
    <3>4. \A r \in Slots : state'[r] \in Dead => pc'[r] \in {"exit_zombie", "user"}
      BY <1>1, <1>6, <2>2, <2>3, <2>4, Zenon DEF FInv, FamilyInv, Dead
    <3> QED
      BY <2>2, <2>3, <3>1, <3>2, <3>3, <3>4 DEF FInv, FamilyInv
  <2>6. SleeperInv'
    <3> DEFINE AsleepNow(x) == state'[x] = "SLEEPING" /\ chan'[x] = x
    <3>1. \A x \in Slots : AsleepNow(x) => Asleep(x) /\ x # q
      BY <2>1, <2>3, <2>4, SMTT(30) DEF Asleep
    <3> HIDE DEF AsleepNow
    <3>2. \A x, r \in Slots : AsleepNow(x) /\ parent'[r] = x /\ state'[r] = "ZOMBIE" =>
            x = initproc /\ \E y \in Slots : pc'[y] = "wake_init" /\ j'[y] = 1
      <4>1. \A y \in Slots : pc[y] = "wake_init" => pc'[y] = "wake_init"
        BY <1>1, <2>3, ZenonT(30)
      <4>2. \A r \in Slots : state'[r] = "ZOMBIE" => state[r] = "ZOMBIE" /\ parent'[r] = parent[r]
        BY <2>3, <2>4, Zenon
      <4> QED
        BY <1>3, <3>1, <4>1, <4>2, SMTT(30) DEF FInv, SleeperInv
    <3>3. \A r \in Slots : parent'[r] # NoProc => r # q /\ parent'[r] \in Slots /\ parent'[r] = parent[r]
      BY <2>3, <2>4, Zenon
    <3>4. \A r \in Slots : pc'[r] = "wake_parent" /\ parent'[r] # NoProc =>
            (AsleepNow(parent'[r]) => j'[r] <= parent'[r])
      <4>1. ASSUME NEW r \in Slots, pc'[r] = "wake_parent", parent'[r] # NoProc, AsleepNow(parent'[r])
            PROVE  j'[r] <= parent'[r]
        <5>1. parent'[r] = parent[r] /\ Asleep(parent[r])
          BY <3>1, <3>3, <4>1, Zenon
        <5>2. pc[r] = "wake_parent"
          BY <2>3, <2>4, <4>1
        <5> QED
          BY <1>3, <4>1, <5>1, <5>2 DEF FInv, SleeperInv
      <4> QED
        BY <4>1, Zenon
    <3>5. \A r \in Slots : pc'[r] = "exit_zombie" /\ state'[r] \notin Dead /\ parent'[r] # NoProc =>
            ~AsleepNow(parent'[r])
      BY <2>3, <2>4, <3>1, <3>3, ZenonT(30) DEF FInv, SleeperInv
    <3>6. \A x \in Slots : pc'[x] = "wait_scan" =>
            \A r \in Slots : parent'[r] = x /\ state'[r] = "ZOMBIE" => i'[x] <= r
      BY <2>3, <2>4, SMTT(30) DEF FInv, SleeperInv
    <3>7. \A x \in Slots : pc'[x] = "wait_sleep" =>
            \A r \in Slots : parent'[r] = x => state'[r] # "ZOMBIE"
      BY <2>3, <2>4 DEF FInv, SleeperInv
    <3> QED
      BY <3>2, <3>4, <3>5, <3>6, <3>7, Zenon DEF SleeperInv, Asleep, AsleepNow
  <2> QED
    BY <2>5, <2>6
<1> QED
  BY <1>2, <1>4, <1>5, <1>6, Zenon

LEMMA WaitCheckFamily ==
  ASSUME FInv, NEW c \in CPUs, NEW p \in Slots, WaitCheck(c, p)
  PROVE  FamilyInv' /\ SleeperInv'
<1> USE Constants
<1>1. state[p] = "RUNNING" /\ pc[p] = "wait_scan"
  BY OnCpu DEF WaitCheck, FInv, IInv
<1>2. UNCHANGED <<state, parent, chan, j>>
  BY DEF WaitCheck, proc
<1>3. CASE WaitReturn(p)
  <2>1. Calm
    BY <1>1, <1>2, <1>3, Zenon DEF Calm, WaitReturn, Goto, FInv, IInv, TypeInv, Dead
  <2> QED
    BY <2>1, CalmFamily, CalmSleepers, Zenon DEF FInv
<1>4. CASE CallSleep(p)
  <2>1. pc' = [pc EXCEPT ![p] = "wait_sleep"] /\ i' = i
    BY <1>4, Zenon DEF CallSleep, Goto
  <2>2. \A r \in Slots : parent[r] = p => state[r] # "ZOMBIE"
    BY <1>1, Zenon DEF WaitCheck, KidsFrom, FInv, SleeperInv
  <2>3. pc'[p] = "wait_sleep" /\ \A r \in Slots : r # p => pc'[r] = pc[r]
    BY <2>1, Zenon DEF FInv, IInv, TypeInv
  <2>4. FamilyInv'
    BY <1>1, <1>2, <2>1, <2>3 DEF FInv, FamilyInv, Dead
  <2>5. \A x \in Slots : pc[x] = "wake_init" => pc'[x] = "wake_init"
    BY <1>1, <2>3, Zenon
  <2>6. SleeperInv'
    BY <1>1, <1>2, <2>1, <2>2, <2>3, <2>5, SMTT(30) DEF FInv, SleeperInv, Asleep
  <2> QED
    BY <2>4, <2>6
<1> QED
  BY <1>3, <1>4, Zenon DEF WaitCheck

LEMMA WaitSleepFamily ==
  ASSUME FInv, NEW c \in CPUs, NEW p \in Slots, WaitSleep(c, p)
  PROVE  FamilyInv' /\ SleeperInv'
<1> USE Constants
<1>1. state[p] = "RUNNING" /\ pc[p] = "wait_sleep"
  BY OnCpu, Zenon DEF WaitSleep, FInv, IInv
<1>2. \A q \in Slots : pc[q] \in Holding /\ q # p => state[q] \in Dead /\ pc[q] = "exit_zombie"
  BY <1>1, Alone, Zenon DEF WaitSleep, Holding
<1>3. UNCHANGED <<parent, i, j>>
  BY Zenon DEF WaitSleep
<1>4. /\ state'[p] = "SLEEPING" /\ pc'[p] = "wait"
      /\ \A r \in Slots : r # p => state'[r] = state[r] /\ pc'[r] = pc[r]
  BY DEF WaitSleep, Goto, FInv, IInv, TypeInv
<1>5. \A r \in Slots : r # p => chan'[r] = chan[r]
  BY SMTT(30) DEF WaitSleep
<1>6. FamilyInv'
  <2>1. \A r \in Slots : parent[r] # NoProc => state'[r] # "UNUSED" /\ state'[parent[r]] \in Alive
    <3>1. \A r \in Slots : parent[r] # NoProc =>
            parent[r] \in Slots /\ state[r] # "UNUSED" /\ state[parent[r]] \in Alive
      BY DEF FInv, FamilyInv
    <3> QED
      BY <1>4, <3>1, Zenon DEF Alive
  <2> QED
    BY <1>3, <1>4, <2>1 DEF FInv, FamilyInv, Dead
<1>7. SleeperInv'
  <2>1. \A x, r \in Slots :
          ~(state'[x] = "SLEEPING" /\ chan'[x] = x /\ parent[r] = x /\ state'[r] = "ZOMBIE")
    BY <1>1, <1>2, <1>4, <1>5 DEF FInv, SleeperInv, Asleep, Holding
  <2>2. \A r \in Slots : /\ pc'[r] \notin {"wake_parent", "wait_scan", "wait_sleep"}
                         /\ pc'[r] = "exit_zombie" => state'[r] \in Dead
    BY <1>2, <1>4 DEF Holding
  <2> QED
    BY <1>3, <2>1, <2>2, Zenon DEF SleeperInv, Asleep
<1> QED
  BY <1>6, <1>7

----------------------------------------------------------------------------

LEMMA NextFInv ==
  ASSUME InitSpared, FInv, [Next]_vars
  PROVE  FInv'
<1>1. IInv'
  BY NextIInv DEF FInv
<1>2. SUFFICES Calm \/ (FamilyInv' /\ SleeperInv')
  BY <1>1, CalmFamily, CalmSleepers, ZenonT(30) DEF FInv
<1>3. CASE UNCHANGED vars
  BY <1>3, Zenon DEF vars, Calm
<1>4. ASSUME NEW c \in CPUs, Dispatch(c) PROVE Calm
  BY <1>4, CalmSwitches, Constants
<1>5. ASSUME NEW c \in CPUs, NEW p \in Slots, Switch(c, p) PROVE Calm
  BY <1>5, CalmSwitches, Zenon DEF Switch
<1>6. ASSUME NEW c \in CPUs, NEW p \in Slots, KernelStep(c, p) PROVE Calm \/ (FamilyInv' /\ SleeperInv')
  BY <1>6, CalmCalls, CalmKill, CalmForkScan, CalmForkRun, ForkParentFamily, ReparentFamily, WakeupFamily, Zenon,
     ExitZombieFamily, WaitScanFamily, WaitCheckFamily, WaitSleepFamily DEF KernelStep
<1>7. ASSUME NEW c \in CPUs, NEW p \in Slots, UserStep(c, p) PROVE Calm
  <2>1. KillPids \subseteq Nat /\ 0 \in Nat /\ Calls(p) \subseteq {"fork", "wait", "exit", "kill"}
    BY ProcAssumption DEF Calls
  <2> QED
    BY <1>7, <2>1, CalmTick, CalmCalls DEF UserStep
<1>8. ASSUME NEW c \in CPUs, NEW p \in Slots, Preempt(c, p) PROVE Calm
  BY <1>8, CalmSwitches
<1> QED
  BY <1>3, <1>4, <1>5, <1>6, <1>7, <1>8 DEF Next

LEMMA FamilyInvariance ==
  ASSUME InitSpared
  PROVE  Spec => []FInv
<1>1. FInv /\ [Next]_vars => FInv'
  BY NextFInv
<1> QED
  BY <1>1, InitFInv, PTL DEF Spec

\* reparent() under wait_lock: for any number of CPUs and slots, the parent of a
\* process is never a zombie or a slot that is free or being made, so that
\* there is always somebody who can wait for it.
THEOREM ProcParentAlive ==
  ASSUME InitSpared
  PROVE  Spec => []ParentAlive
<1>1. FInv => ParentAlive
  BY Zenon DEF FInv, FamilyInv, ParentAlive, Alive
<1> QED
  BY <1>1, FamilyInvariance, PTL

\* kexit() wakes the parent, kwait() sleeps, both with wait_lock held: for any
\* number of CPUs and slots, when wait_lock is free nobody sleeps in kwait() beside
\* a zombie child, whether the child is its own or was handed over to init.
THEOREM ProcLosesNoExit ==
  ASSUME InitSpared
  PROVE  Spec => []NoLostExit
<1>1. FInv => NoLostExit
  <2> SUFFICES ASSUME FInv, wlock = NoCpu PROVE NoLostExit
    BY Zenon DEF NoLostExit
  <2>1. \A r \in Slots : pc[r] # "wake_init"
    BY WaitLockFree DEF Holding
  <2> QED
    BY <2>1, Zenon DEF FInv, SleeperInv, Asleep, NoLostExit
<1> QED
  BY <1>1, FamilyInvariance, PTL
=============================================================================
