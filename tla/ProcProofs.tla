----------------------------- MODULE ProcProofs -----------------------------
(***************************************************************************)
(* Proofs about module Proc: p->lock across swtch() keeps every process on *)
(* one CPU, for any number of CPUs and processes.                          *)
(***************************************************************************)
EXTENDS Proc, TLAPS

States == {"UNUSED", "USED", "SLEEPING", "RUNNABLE", "RUNNING", "ZOMBIE"}

\* The places at which a process has wait_lock.
Holding == {"reparent", "wake_init", "wake_parent", "exit_zombie", "wait_scan", "wait_sleep"}
Forking == {"fork_parent", "fork_run"}
Labels == {"user", "ret", "fork", "exit", "wait", "kill"} \cup Forking \cup Holding

TypeInv ==
  /\ state \in [Slots -> States]
  /\ pid \in [Slots -> Nat]
  /\ killed \in [Slots -> BOOLEAN]
  /\ plock \in [Slots -> CPUs \cup {NoCpu}]
  /\ wlock \in CPUs \cup {NoCpu}
  /\ cproc \in [CPUs -> Slots \cup {NoProc}]
  /\ sidx \in [CPUs -> Slots]
  /\ nextpid \in Nat
  /\ pc \in [Slots -> Labels]
  /\ sw \in [Slots -> {"no", "fork", "yield", "sleep", "exit"}]
  /\ i \in [Slots -> Nat]
  /\ j \in [Slots -> Slots]
  /\ arg \in [Slots -> Nat]

\* Who is on a CPU either executes and is RUNNING, or is in sched() or swtch()
\* and this CPU has its lock; nobody else keeps a p->lock.
CpuInv ==
  /\ \A c, d \in CPUs : cproc[c] = cproc[d] /\ cproc[c] # NoProc => c = d
  /\ \A c \in CPUs, p \in Slots : cproc[c] = p =>
       /\ sw[p] = "no" => state[p] = "RUNNING"
       /\ sw[p] # "no" => plock[p] = c /\ state[p] \notin {"UNUSED", "USED"}
  /\ \A c \in CPUs, p \in Slots : plock[p] = c => cproc[c] = p /\ sw[p] # "no"
  /\ \A p \in Slots :
       /\ state[p] = "RUNNING" => \E c \in CPUs : cproc[c] = p
       /\ state[p] \notin {"RUNNING", "UNUSED"} => sw[p] # "no"

\* wait_lock is held by who is at a place where it must be, and executes; a dead
\* process is left where it gave it back.
WaitLockInv ==
  /\ \A c \in CPUs : wlock = c =>
       cproc[c] \in Slots /\ sw[cproc[c]] = "no" /\ pc[cproc[c]] \in Holding
  /\ \A p \in Slots : pc[p] \in Holding =>
       \/ \E c \in CPUs : cproc[c] = p /\ sw[p] = "no" /\ wlock = c
       \/ state[p] \in {"ZOMBIE", "UNUSED"} /\ sw[p] # "no"

\* A process that is being made is seen by the one that makes it only.
ForkInv ==
  \A p \in Slots : pc[p] \in Forking =>
    /\ arg[p] \in Slots /\ state[arg[p]] = "USED"
    /\ \A q \in Slots : pc[q] \in Forking /\ arg[q] = arg[p] => q = p

ScanInv ==
  \A p \in Slots : /\ pc[p] \in {"fork", "kill"} => i[p] \in Slots
                   /\ pc[p] = "kill" => arg[p] \in KillPids

\* init lives for ever, nobody kills it.
InitInv ==
  /\ pid[initproc] = 1 /\ killed[initproc] = FALSE
  /\ state[initproc] \in {"SLEEPING", "RUNNABLE", "RUNNING"}
  /\ pc[initproc] \in {"user", "ret", "fork", "wait", "wait_scan", "wait_sleep"} \cup Forking

IInv ==
  TypeInv /\ CpuInv /\ WaitLockInv /\ ForkInv /\ ScanInv /\ InitInv /\ ~panicked

\* No program passes the pid of init to kill().
InitSpared == 1 \notin KillPids

LEMMA Constants ==
  initproc \in Slots /\ NoProc \notin Slots /\ NoCpu \notin CPUs /\ Slots \subseteq Nat
BY ProcAssumption DEF Slots, initproc, NoProc

LEMMA SlotAfter ==
  ASSUME NEW k \in Slots
  PROVE  NextSlot(k) \in Slots
BY ProcAssumption DEF Slots, NextSlot

\* Steps that leave the CPUs and the state of all processes alone.
LEMMA CpuFrame ==
  ASSUME CpuInv, UNCHANGED <<state, plock, cproc, sw>>
  PROVE  CpuInv'
BY DEF CpuInv

LEMMA WaitLockAgain ==
  ASSUME UNCHANGED <<wlock, cproc>>,
         \A c \in CPUs : wlock = c =>
           cproc[c] \in Slots /\ sw'[cproc[c]] = "no" /\ pc'[cproc[c]] \in Holding,
         \A p \in Slots : pc'[p] \in Holding =>
           \/ \E c \in CPUs : cproc[c] = p /\ sw'[p] = "no" /\ wlock = c
           \/ state'[p] \in {"ZOMBIE", "UNUSED"} /\ sw'[p] # "no"
  PROVE  WaitLockInv'
BY DEF WaitLockInv

LEMMA WaitLockFrame ==
  ASSUME WaitLockInv, UNCHANGED <<state, wlock, cproc, sw>>,
         \A q \in Slots : pc'[q] \in Holding <=> pc[q] \in Holding
  PROVE  WaitLockInv'
<1>1. \A c \in CPUs : wlock = c =>
        cproc[c] \in Slots /\ sw[cproc[c]] = "no" /\ pc'[cproc[c]] \in Holding
  BY DEF WaitLockInv
<1>2. \A p \in Slots : pc'[p] \in Holding =>
        \/ \E c \in CPUs : cproc[c] = p /\ sw[p] = "no" /\ wlock = c
        \/ state[p] \in {"ZOMBIE", "UNUSED"} /\ sw[p] # "no"
  BY DEF WaitLockInv
<1> QED
  BY <1>1, <1>2 DEF WaitLockInv

LEMMA InitIInv == Init => IInv
<1> SUFFICES ASSUME Init PROVE IInv
  OBVIOUS
<1> USE Constants DEF Init
<1>1. TypeInv
  BY ProcAssumption DEF TypeInv, States, Labels, Slots
<1>2. CpuInv
  BY DEF CpuInv
<1>3. WaitLockInv /\ ForkInv /\ ScanInv /\ InitInv
  BY DEF WaitLockInv, ForkInv, ScanInv, InitInv, Holding, Forking, initproc
<1> QED
  BY <1>1, <1>2, <1>3 DEF IInv

----------------------------------------------------------------------------
(* What may happen to the state of one process *)

\* wakeup(), kkill(), kfork() and freeproc() on a process that is on no CPU or
\* stays where it is.
LEMMA StateChange ==
  ASSUME TypeInv, CpuInv, NEW q \in Slots, NEW s \in States,
         state' = [state EXCEPT ![q] = s], UNCHANGED <<cproc, sw, plock>>,
         \/ state[q] = "SLEEPING" /\ s = "RUNNABLE"
         \/ state[q] = "USED" /\ s = "RUNNABLE"
         \/ state[q] \in {"ZOMBIE", "UNUSED"} /\ s = "UNUSED" /\ Free(q)
  PROVE  CpuInv'
BY Constants DEF TypeInv, CpuInv, Free

\* sched() is entered with p->lock held and the state changed.
LEMMA Park ==
  ASSUME TypeInv, CpuInv, NEW p \in Slots, NEW c \in CPUs, On(c, p),
         NEW s \in {"SLEEPING", "RUNNABLE", "ZOMBIE"}, NEW x \in {"yield", "sleep", "exit"},
         state' = [state EXCEPT ![p] = s], sw' = [sw EXCEPT ![p] = x],
         plock' = [plock EXCEPT ![p] = c], cproc' = cproc
  PROVE  CpuInv'
BY Constants DEF TypeInv, CpuInv, On

LEMMA OnCpu ==
  ASSUME CpuInv, NEW c \in CPUs, NEW p \in Slots, On(c, p)
  PROVE  state[p] = "RUNNING" /\ \A d \in CPUs : cproc[d] = p => d = c
BY Constants DEF CpuInv, On

\* Who holds wait_lock is the only one at a place where it is held, the dead apart.
LEMMA SoleHolder ==
  ASSUME CpuInv, WaitLockInv, NEW c \in CPUs, NEW p \in Slots, On(c, p), pc[p] \in Holding
  PROVE  wlock = c /\ \A q \in Slots : pc[q] \in Holding /\ q # p =>
                         state[q] \in {"ZOMBIE", "UNUSED"} /\ sw[q] # "no"
<1>1. wlock = c
  BY OnCpu, Zenon DEF WaitLockInv, On
<1> QED
  BY <1>1, Zenon DEF WaitLockInv, On

----------------------------------------------------------------------------
(* Each step keeps the invariant: a process that keeps running *)

LEMMA SysReturnKeeps ==
  ASSUME IInv, InitSpared, NEW c \in CPUs, NEW p \in Slots, SysReturn(c, p)
  PROVE  IInv'
<1> USE Constants DEF IInv
<1>1. state[p] = "RUNNING" /\ cproc[c] = p /\ sw[p] = "no"
  BY OnCpu DEF SysReturn, On
<1>2. TypeInv'
  BY <1>1, ProcAssumption, Zenon DEF SysReturn, TypeInv, Labels, Forking, Holding, States, Slots, Goto,
                                proc
<1>3. CpuInv'
  BY CpuFrame DEF SysReturn, proc
<1>4. WaitLockInv'
  BY <1>1 DEF SysReturn, TypeInv, CpuInv, WaitLockInv, Holding, Forking, Goto, proc
<1>5. ForkInv'
  BY <1>1 DEF SysReturn, TypeInv, ForkInv, Forking, Holding, Goto, proc
<1>6. ScanInv'
  BY <1>1 DEF SysReturn, TypeInv, ScanInv, Holding, Goto, proc, initproc
<1>7. InitInv' /\ ~panicked'
  BY <1>1 DEF SysReturn, TypeInv, InitInv, Forking, Goto, proc
<1> QED
  BY <1>2, <1>3, <1>4, <1>5, <1>6, <1>7

LEMMA SyscallKeeps ==
  ASSUME IInv, InitSpared, NEW c \in CPUs, NEW p \in Slots, NEW call, NEW k \in Nat,
         call \in Calls(p) \/ (p # initproc /\ call = "kill" /\ k \in KillPids),
         Syscall(c, p, call, k)
  PROVE  IInv'
<1> USE Constants DEF IInv
<1>1. state[p] = "RUNNING" /\ cproc[c] = p /\ sw[p] = "no"
  BY OnCpu DEF Syscall, On, Calls
<1>2. TypeInv'
  BY <1>1, ProcAssumption, Zenon DEF Syscall, TypeInv, Labels, Forking, Holding, States, Slots, Goto,
                                proc, Calls
<1>3. CpuInv'
  BY CpuFrame, Zenon DEF Syscall, proc
<1>4. WaitLockInv'
  BY <1>1 DEF Syscall, TypeInv, CpuInv, WaitLockInv, Holding, Forking, Goto, proc, Calls
<1>5. ForkInv'
  BY <1>1 DEF Syscall, TypeInv, ForkInv, Forking, Holding, Goto, proc, Calls
<1>6. ScanInv'
  BY <1>1 DEF Syscall, TypeInv, ScanInv, Holding, Goto, proc, initproc, Calls
<1>7. InitInv' /\ ~panicked'
  BY <1>1 DEF Syscall, TypeInv, InitInv, Forking, Goto, proc, Calls
<1> QED
  BY <1>2, <1>3, <1>4, <1>5, <1>6, <1>7

LEMMA ForkParentKeeps ==
  ASSUME IInv, InitSpared, NEW c \in CPUs, NEW p \in Slots, ForkParent(c, p)
  PROVE  IInv'
<1> USE Constants DEF IInv
<1>1. state[p] = "RUNNING" /\ cproc[c] = p /\ sw[p] = "no"
  BY OnCpu DEF ForkParent, On
<1>2. TypeInv'
  BY <1>1, ProcAssumption, Zenon DEF ForkParent, TypeInv, Labels, Forking, Holding, States, Slots, Goto,
                                proc
<1>3. CpuInv'
  BY CpuFrame DEF ForkParent, proc
<1>4. WaitLockInv'
  BY <1>1 DEF ForkParent, TypeInv, CpuInv, WaitLockInv, Holding, Forking, Goto, proc
<1>5. ForkInv'
  BY <1>1 DEF ForkParent, TypeInv, ForkInv, Forking, Holding, Goto, proc
<1>6. ScanInv'
  BY <1>1 DEF ForkParent, TypeInv, ScanInv, Holding, Goto, proc, initproc
<1>7. InitInv' /\ ~panicked'
  BY <1>1 DEF ForkParent, TypeInv, InitInv, Forking, Goto, proc
<1> QED
  BY <1>2, <1>3, <1>4, <1>5, <1>6, <1>7

LEMMA ExitKeeps ==
  ASSUME IInv, InitSpared, NEW c \in CPUs, NEW p \in Slots, Exit(c, p)
  PROVE  IInv'
<1> USE Constants DEF IInv
<1>1. state[p] = "RUNNING" /\ cproc[c] = p /\ sw[p] = "no"
  BY OnCpu DEF Exit, On
<1>2. TypeInv'
  <2>1. pc' \in [Slots -> Labels]
    BY <1>1 DEF Exit, TypeInv, Labels, Holding, Goto
  <2>2. wlock' \in CPUs \cup {NoCpu} /\ i' \in [Slots -> Nat]
    BY <1>1 DEF Exit, TypeInv
  <2> QED
    BY <2>1, <2>2 DEF Exit, TypeInv, proc
<1>3. CpuInv'
  BY CpuFrame, Zenon DEF Exit, proc
<1>4. WaitLockInv'
  BY <1>1 DEF Exit, TypeInv, CpuInv, WaitLockInv, Holding, Forking, Goto, proc
<1>5. ForkInv'
  BY <1>1 DEF Exit, TypeInv, ForkInv, Forking, Holding, Goto, proc
<1>6. ScanInv'
  BY <1>1 DEF Exit, TypeInv, ScanInv, Holding, Goto, proc, initproc
<1>7. InitInv' /\ ~panicked'
  BY <1>1 DEF Exit, TypeInv, InitInv, Forking, Goto, proc
<1> QED
  BY <1>2, <1>3, <1>4, <1>5, <1>6, <1>7

LEMMA ReparentKeeps ==
  ASSUME IInv, InitSpared, NEW c \in CPUs, NEW p \in Slots, Reparent(c, p)
  PROVE  IInv'
<1> USE Constants DEF IInv
<1>1. state[p] = "RUNNING" /\ cproc[c] = p /\ sw[p] = "no"
  BY OnCpu DEF Reparent, On
<1>2. TypeInv'
  <2>1. pc' \in [Slots -> Labels]
    BY <1>1 DEF Reparent, TypeInv, Labels, Holding, Goto
  <2>2. i' \in [Slots -> Nat]
    <3>1. PICK k \in Nat : i' = [i EXCEPT ![p] = k]
      <4>1. ASSUME NEW q \in Slots PROVE q + 1 \in Nat
        OBVIOUS
      <4> QED
        BY <4>1, Zenon DEF Reparent, KidsFrom, initproc
    <3> QED
      BY <3>1 DEF TypeInv
  <2>3. j' \in [Slots -> Slots]
    BY <1>1 DEF Reparent, TypeInv, initproc
  <2> QED
    BY <2>1, <2>2, <2>3 DEF Reparent, TypeInv, proc
<1>3. CpuInv'
  BY CpuFrame, Zenon DEF Reparent, proc
<1>4. WaitLockInv'
  BY <1>1 DEF Reparent, TypeInv, CpuInv, WaitLockInv, Holding, Forking, Goto, proc
<1>5. ForkInv'
  BY <1>1 DEF Reparent, TypeInv, ForkInv, Forking, Holding, Goto, proc
<1>6. ScanInv'
  BY <1>1 DEF Reparent, TypeInv, ScanInv, Holding, Goto, proc, initproc
<1>7. InitInv' /\ ~panicked'
  BY <1>1 DEF Reparent, TypeInv, InitInv, Forking, Goto, proc
<1> QED
  BY <1>2, <1>3, <1>4, <1>5, <1>6, <1>7

LEMMA WaitKeeps ==
  ASSUME IInv, InitSpared, NEW c \in CPUs, NEW p \in Slots, Wait(c, p)
  PROVE  IInv'
<1> USE Constants DEF IInv
<1>1. state[p] = "RUNNING" /\ cproc[c] = p /\ sw[p] = "no"
  BY OnCpu DEF Wait, On
<1>2. TypeInv'
  BY <1>1, ProcAssumption, Zenon DEF Wait, TypeInv, Labels, Forking, Holding, States, Slots, Goto,
                                proc
<1>3. CpuInv'
  BY CpuFrame, Zenon DEF Wait, proc
<1>4. WaitLockInv'
  BY <1>1 DEF Wait, TypeInv, CpuInv, WaitLockInv, Holding, Forking, Goto, proc
<1>5. ForkInv'
  BY <1>1 DEF Wait, TypeInv, ForkInv, Forking, Holding, Goto, proc
<1>6. ScanInv'
  BY <1>1 DEF Wait, TypeInv, ScanInv, Holding, Goto, proc, initproc
<1>7. InitInv' /\ ~panicked'
  BY <1>1, Zenon DEF Wait, TypeInv, InitInv, Forking, Goto, proc
<1> QED
  BY <1>2, <1>3, <1>4, <1>5, <1>6, <1>7

LEMMA WaitCheckKeeps ==
  ASSUME IInv, InitSpared, NEW c \in CPUs, NEW p \in Slots, WaitCheck(c, p)
  PROVE  IInv'
<1> USE Constants DEF IInv
<1>1. state[p] = "RUNNING" /\ cproc[c] = p /\ sw[p] = "no"
  BY OnCpu, Zenon DEF WaitCheck, On, WaitReturn, CallSleep
<1>2. TypeInv'
  <2>1. pc' \in [Slots -> Labels]
    BY <1>1 DEF WaitCheck, WaitReturn, CallSleep, TypeInv, Labels, Holding, Goto
  <2>2. wlock' \in CPUs \cup {NoCpu} /\ i' \in [Slots -> Nat]
    BY <1>1 DEF WaitCheck, WaitReturn, CallSleep, TypeInv
  <2> QED
    BY <2>1, <2>2, Zenon DEF WaitCheck, TypeInv, proc
<1>3. CpuInv'
  BY CpuFrame, Zenon DEF WaitCheck, proc
<1>4. WaitLockInv'
  BY <1>1 DEF WaitCheck, TypeInv, CpuInv, WaitLockInv, Holding, Forking, Goto, proc, WaitReturn, CallSleep
<1>5. ForkInv'
  BY <1>1 DEF WaitCheck, TypeInv, ForkInv, Forking, Holding, Goto, proc, WaitReturn, CallSleep
<1>6. ScanInv'
  BY <1>1 DEF WaitCheck, TypeInv, ScanInv, Holding, Goto, proc, initproc, WaitReturn, CallSleep
<1>7. InitInv' /\ ~panicked'
  BY <1>1 DEF WaitCheck, TypeInv, InitInv, Forking, Goto, proc, WaitReturn, CallSleep
<1> QED
  BY <1>2, <1>3, <1>4, <1>5, <1>6, <1>7

OnlyWakes ==
  \A r \in Slots : state'[r] = state[r] \/ (state[r] = "SLEEPING" /\ state'[r] = "RUNNABLE")

\* kkill() and the loops of wakeup(): a sleeper becomes RUNNABLE.
LEMMA WakeEffect ==
  ASSUME TypeInv, CpuInv, WaitLockInv, ForkInv, InitInv, NEW q \in Slots, NEW ch, Wake(q, ch),
         UNCHANGED <<cproc, sw, plock>>
  PROVE  CpuInv' /\ state' \in [Slots -> States] /\ OnlyWakes
<1>1. CASE state' = state
  BY <1>1, CpuFrame DEF TypeInv, OnlyWakes
<1>2. CASE state[q] = "SLEEPING" /\ state' = [state EXCEPT ![q] = "RUNNABLE"]
  <2>1. CpuInv'
    BY <1>2, StateChange, Zenon DEF States
  <2> QED
    BY <1>2, <2>1 DEF TypeInv, States, OnlyWakes
<1> QED
  BY <1>1, <1>2 DEF Wake

LEMMA WakeupKeeps ==
  ASSUME IInv, NEW c \in CPUs, NEW p \in Slots, Wakeup(c, p)
  PROVE  IInv'
<1> USE Constants DEF IInv
<1>1. state[p] = "RUNNING" /\ cproc[c] = p /\ sw[p] = "no"
  BY OnCpu DEF Wakeup, On
<1>2. CpuInv' /\ state' \in [Slots -> States] /\ OnlyWakes
  <2>1. j[p] \in Slots
    BY DEF TypeInv
  <2>2. CASE state' = state
    BY <2>2, CpuFrame DEF Wakeup, TypeInv, OnlyWakes
  <2>3. ASSUME NEW ch, Wake(j[p], ch) 
        PROVE  CpuInv' /\ state' \in [Slots -> States] /\ OnlyWakes
    BY <2>1, <2>3, WakeEffect, Zenon DEF Wakeup
  <2> QED
    BY <2>2, <2>3 DEF Wakeup
<1>3. pc' = pc \/ pc' = [pc EXCEPT ![p] = "reparent"] \/ pc' = [pc EXCEPT ![p] = "exit_zombie"]
  BY Zenon DEF Wakeup, Goto
<1>4. TypeInv'
  <2>1. j' \in [Slots -> Slots]
    <3>1. j' = [j EXCEPT ![p] = NextSlot(j[p])]
      BY Zenon DEF Wakeup, NextSlot
    <3>2. j[p] \in Slots
      BY DEF TypeInv
    <3>3. NextSlot(j[p]) \in Slots
      BY <3>2, SlotAfter, Zenon
    <3> QED
      BY <3>1, <3>3 DEF TypeInv
  <2> QED
    BY <1>2, <1>3, <2>1 DEF Wakeup, TypeInv, Labels, Holding
<1>5. pc[p] \in {"wake_init", "wake_parent"} /\ UNCHANGED <<wlock, cproc, sw, arg, i, pid, killed>>
  BY Zenon DEF Wakeup
<1>6. WaitLockInv'
  BY <1>1, <1>2, <1>3, <1>5 DEF TypeInv, CpuInv, WaitLockInv, Holding, OnlyWakes
<1>7. ForkInv' /\ ScanInv'
  BY <1>2, <1>3, <1>5, SMTT(30) DEF TypeInv, ForkInv, ScanInv, Forking, OnlyWakes
<1>8. InitInv' /\ ~panicked'
  BY <1>2, <1>3, <1>5 DEF Wakeup, TypeInv, InitInv, Forking, OnlyWakes
<1> QED
  BY <1>2, <1>4, <1>6, <1>7, <1>8, Zenon

LEMMA KillScanKeeps ==
  ASSUME IInv, InitSpared, NEW c \in CPUs, NEW p \in Slots, KillScan(c, p)
  PROVE  IInv'
<1> USE Constants DEF IInv
<1>1. state[p] = "RUNNING" /\ cproc[c] = p /\ sw[p] = "no" /\ i[p] \in Slots /\ pc[p] = "kill"
  BY OnCpu, ZenonT(30) DEF KillScan, On, ScanInv
<1>2. CpuInv' /\ state' \in [Slots -> States] /\ OnlyWakes
  <2>1. CASE state' = state
    BY <2>1, CpuFrame DEF KillScan, TypeInv, OnlyWakes
  <2>2. CASE Wake(i[p], chan[i[p]])
    BY <1>1, <2>2, WakeEffect, Zenon DEF KillScan
  <2> QED
    BY <2>1, <2>2, Zenon DEF KillScan
<1>3. pc' = pc \/ pc' = [pc EXCEPT ![p] = "ret"]
  BY ZenonT(30) DEF KillScan, Goto
<1>4. PICK k \in Slots : i' = [i EXCEPT ![p] = k]
  <2>1. 1 \in Slots /\ NextSlot(i[p]) \in Slots
    BY <1>1, SlotAfter, Zenon DEF initproc
  <2>2. i' = [i EXCEPT ![p] = 1] \/ i' = [i EXCEPT ![p] = NextSlot(i[p])]
    BY Zenon DEF KillScan, NextSlot
  <2> QED
    BY <2>1, <2>2, Zenon
<1>5. killed' \in [Slots -> BOOLEAN] /\ killed'[initproc] = FALSE
  <2>1. CASE killed' = killed
    BY <2>1 DEF TypeInv, InitInv
  <2>2. CASE pid[i[p]] = arg[p] /\ killed' = [killed EXCEPT ![i[p]] = TRUE]
    <3>1. i[p] # initproc
      BY <1>1, <2>2, ZenonT(30) DEF ScanInv, InitInv, InitSpared
    <3> QED
      BY <1>1, <2>2, <3>1, Zenon DEF TypeInv, InitInv
  <2> QED
    BY <2>1, <2>2, Zenon DEF KillScan
<1>6. UNCHANGED <<pid, plock, wlock, cproc, sidx, nextpid, sw, j, arg, panicked>>
  BY ZenonT(30) DEF KillScan
<1>7. TypeInv'
  BY <1>2, <1>3, <1>4, <1>5, <1>6, ZenonT(30) DEF TypeInv, Labels
<1>8. WaitLockInv'
  <2>1. \A q \in Slots : pc'[q] \in Holding <=> pc[q] \in Holding
    BY <1>1, <1>3 DEF TypeInv, Holding
  <2>2. \A d \in CPUs : wlock = d =>
          cproc[d] \in Slots /\ sw[cproc[d]] = "no" /\ pc'[cproc[d]] \in Holding
    BY <2>1, Zenon DEF WaitLockInv
  <2>3. \A q \in Slots : pc'[q] \in Holding =>
          \/ \E d \in CPUs : cproc[d] = q /\ sw[q] = "no" /\ wlock = d
          \/ state'[q] \in {"ZOMBIE", "UNUSED"} /\ sw[q] # "no"
    BY <1>2, <2>1, Zenon DEF WaitLockInv, OnlyWakes
  <2> QED
    BY <1>6, <2>2, <2>3, ZenonT(90) DEF WaitLockInv
<1>9. ForkInv' /\ ScanInv'
  BY <1>1, <1>2, <1>3, <1>4, <1>6 DEF TypeInv, ForkInv, ScanInv, Forking, OnlyWakes
<1>10. InitInv' /\ ~panicked'
  BY <1>2, <1>3, <1>5, <1>6, Zenon DEF TypeInv, InitInv, Forking, OnlyWakes
<1> QED
  BY <1>2, <1>7, <1>8, <1>9, <1>10, Zenon

----------------------------------------------------------------------------
(* kfork() *)

LEMMA ForkScanKeeps ==
  ASSUME IInv, NEW c \in CPUs, NEW p \in Slots, ForkScan(c, p)
  PROVE  IInv'
<1> USE Constants DEF IInv
<1>1. state[p] = "RUNNING" /\ cproc[c] = p /\ sw[p] = "no" /\ i[p] \in Slots /\ pc[p] = "fork"
  BY OnCpu DEF ForkScan, On, ScanInv
<1>2. Free(i[p]) /\ UNCHANGED <<plock, wlock, cproc, sidx, j, kids, panicked>>
  BY DEF ForkScan
<1>3. PICK k \in Slots : i' = [i EXCEPT ![p] = k]
  <2>1. 1 \in Slots /\ NextSlot(i[p]) \in Slots
    BY <1>1, SlotAfter, Zenon DEF initproc
  <2>2. i' = [i EXCEPT ![p] = 1] \/ i' = [i EXCEPT ![p] = NextSlot(i[p])]
    BY Zenon DEF ForkScan, NextSlot
  <2> QED
    BY <2>1, <2>2, Zenon
<1>4. CASE /\ UNCHANGED <<proc, nextpid, sw, arg>>
           /\ pc' = pc \/ pc' = [pc EXCEPT ![p] = "ret"]
  <2>1. TypeInv'
    BY <1>2, <1>3, <1>4, SMTT(30) DEF TypeInv, Labels, proc
  <2>2. CpuInv'
    BY <1>2, <1>4, CpuFrame DEF proc
  <2>3. \A q \in Slots : /\ pc'[q] \in Holding <=> pc[q] \in Holding
                         /\ pc'[q] \in Forking <=> pc[q] \in Forking
    BY <1>1, <1>4 DEF TypeInv, Holding, Forking
  <2>4. WaitLockInv' /\ ForkInv'
    <3>1. WaitLockInv'
      BY <1>2, <1>4, <2>3, WaitLockFrame, Zenon DEF proc
    <3>2. ForkInv'
      BY <1>4, <2>3, Zenon DEF ForkInv, proc
    <3> QED
      BY <3>1, <3>2
  <2>5. ScanInv' /\ InitInv'
    BY <1>1, <1>3, <1>4 DEF TypeInv, ScanInv, InitInv, proc
  <2> QED
    BY <1>2, <2>1, <2>2, <2>4, <2>5, Zenon
<1>5. CASE /\ state[i[p]] = "UNUSED" /\ FreeProc(i[p])
           /\ nextpid' = IF nextpid <= MaxPid THEN nextpid + 1 ELSE nextpid
           /\ pc' = [pc EXCEPT ![p] = "ret"] /\ UNCHANGED <<sw, arg>>
  <2>1. state' = state
    BY <1>1, <1>5, Zenon DEF TypeInv, FreeProc
  <2>2. /\ pid' \in [Slots -> Nat] /\ pid'[initproc] = pid[initproc]
        /\ nextpid' \in Nat /\ i[p] # initproc
    BY <1>1, <1>5 DEF TypeInv, FreeProc, InitInv
  <2>3. killed' \in [Slots -> BOOLEAN] /\ killed'[initproc] = killed[initproc]
    BY <1>1, <1>5, <2>2, Zenon DEF TypeInv, FreeProc
  <2>4. TypeInv'
    BY <1>2, <1>3, <1>5, <2>1, <2>2, <2>3, Zenon DEF TypeInv, Labels
  <2>5. CpuInv'
    BY <1>2, <1>5, <2>1, CpuFrame, Zenon
  <2>6. \A q \in Slots : /\ pc'[q] \in Holding <=> pc[q] \in Holding
                         /\ pc'[q] \in Forking <=> pc[q] \in Forking
    BY <1>1, <1>5, Zenon DEF TypeInv, Holding, Forking
  <2>7. WaitLockInv' /\ ForkInv'
    BY <1>2, <1>5, <2>1, <2>6, SMTT(30) DEF WaitLockInv, ForkInv
  <2>8. ScanInv' /\ InitInv'
    BY <1>1, <1>3, <1>5, <2>1, <2>2, <2>3, Zenon DEF TypeInv, ScanInv, InitInv
  <2> QED
    BY <1>2, <2>4, <2>5, <2>7, <2>8
<1>6. CASE /\ state[i[p]] = "UNUSED"
           /\ state' = [state EXCEPT ![i[p]] = "USED"]
           /\ pid' = [pid EXCEPT ![i[p]] = nextpid]
           /\ nextpid' = nextpid + 1
           /\ sw' = [sw EXCEPT ![i[p]] = "fork"]
           /\ pc' = [pc EXCEPT ![p] = "fork_parent", ![i[p]] = "user"]
           /\ arg' = [arg EXCEPT ![p] = i[p]]
           /\ UNCHANGED <<parent, chan, killed>>
  <2>1. PICK q \in Slots : q = i[p]
    BY <1>1, Zenon
  <2>2. q # p /\ q # initproc /\ \A d \in CPUs : cproc[d] # q /\ plock[q] # d
    BY <1>1, <1>2, <1>6, <2>1, Zenon DEF CpuInv, InitInv, Free
  <2>3. TypeInv'
    BY <1>2, <1>3, <1>6, <2>1, SMTT(30) DEF TypeInv, Labels, Forking, States
  <2>4. CpuInv'
    BY <1>2, <1>6, <2>1, <2>2, SMTT(30) DEF TypeInv, CpuInv
  <2>5. WaitLockInv'
    <3>1. \A r \in Slots : pc'[r] \in Holding => r # q /\ pc[r] \in Holding
      BY <1>1, <1>6, <2>1, <2>2, Zenon DEF TypeInv, Holding
    <3>2. \A r \in Slots : r # q => state'[r] = state[r] /\ sw'[r] = sw[r]
      BY <1>6, <2>1, Zenon DEF TypeInv
    <3>3. \A r \in Slots : r # q /\ r # p => pc'[r] = pc[r]
      BY <1>6, <2>1, ZenonT(30) DEF TypeInv
    <3>4. \A d \in CPUs : wlock = d =>
            cproc[d] \in Slots /\ sw'[cproc[d]] = "no" /\ pc'[cproc[d]] \in Holding
      <4>1. pc[p] \notin Holding
        BY <1>1, Zenon DEF Holding
      <4> QED
        BY <2>2, <3>2, <3>3, <4>1, ZenonT(30) DEF WaitLockInv
    <3>5. \A r \in Slots : pc'[r] \in Holding =>
            \/ \E d \in CPUs : cproc[d] = r /\ sw'[r] = "no" /\ wlock = d
            \/ state'[r] \in {"ZOMBIE", "UNUSED"} /\ sw'[r] # "no"
      <4>1. ASSUME NEW r \in Slots, pc'[r] \in Holding
            PROVE  \/ \E d \in CPUs : cproc[d] = r /\ sw[r] = "no" /\ wlock = d
                   \/ state[r] \in {"ZOMBIE", "UNUSED"} /\ sw[r] # "no"
        BY <3>1, <4>1, Zenon DEF WaitLockInv
      <4> HIDE DEF IInv
      <4> QED
        BY <3>1, <3>2, <4>1, Zenon
    <3> QED
      BY <1>2, <3>4, <3>5, WaitLockAgain, Zenon
  <2>6. \A r \in Slots : pc[r] \in Forking => arg[r] # q /\ r # p
    BY <1>1, <1>6, <2>1, Zenon DEF ForkInv, Forking
  <2>7. ForkInv'
    BY <1>1, <1>6, <2>1, <2>2, <2>6, SMTT(30) DEF TypeInv, ForkInv, Forking
  <2>8. ScanInv' /\ InitInv'
    BY <1>1, <1>3, <1>6, <2>1, <2>2 DEF TypeInv, ScanInv, InitInv, Forking
  <2> QED
    BY <1>2, <2>3, <2>4, <2>5, <2>7, <2>8
<1> QED
  BY <1>4, <1>5, <1>6, Zenon DEF ForkScan, Goto

LEMMA ForkRunKeeps ==
  ASSUME IInv, NEW c \in CPUs, NEW p \in Slots, ForkRun(c, p)
  PROVE  IInv'
<1> USE Constants DEF IInv
<1>1. state[p] = "RUNNING" /\ cproc[c] = p /\ sw[p] = "no" /\ pc[p] = "fork_run"
  BY OnCpu DEF ForkRun, On
<1>2. PICK q \in Slots : q = arg[p] /\ state[q] = "USED"
  BY <1>1, Zenon DEF ForkInv, Forking
<1>3. /\ state' = [state EXCEPT ![q] = "RUNNABLE"] /\ pc' = [pc EXCEPT ![p] = "ret"]
      /\ UNCHANGED <<pid, parent, chan, killed, plock, wlock, cproc, sidx, nextpid,
                     sw, i, j, arg, kids, panicked>>
  BY <1>2, Zenon DEF ForkRun, Goto
<1>4. TypeInv'
  BY <1>3 DEF TypeInv, States, Labels
<1>5. CpuInv'
  BY <1>2, <1>3, StateChange, Zenon DEF States
<1>6. WaitLockInv'
  BY <1>1, <1>2, <1>3 DEF TypeInv, WaitLockInv, Holding
<1>7. \A r \in Slots : pc'[r] \in Forking => pc[r] \in Forking /\ arg[r] # q
  BY <1>1, <1>2, <1>3, Zenon DEF TypeInv, ForkInv, Forking
<1>8. ForkInv'
  BY <1>2, <1>3, <1>7, Zenon DEF TypeInv, ForkInv
<1>9. ScanInv' /\ InitInv' /\ ~panicked'
  BY <1>1, <1>2, <1>3 DEF TypeInv, ScanInv, InitInv, Forking
<1> QED
  BY <1>4, <1>5, <1>6, <1>8, <1>9

----------------------------------------------------------------------------
(* A process that gives up its CPU: exit, sleep and yield *)

LEMMA ExitZombieKeeps ==
  ASSUME IInv, NEW c \in CPUs, NEW p \in Slots, ExitZombie(c, p)
  PROVE  IInv'
<1> USE Constants DEF IInv
<1>1. state[p] = "RUNNING" /\ cproc[c] = p /\ sw[p] = "no" /\ pc[p] = "exit_zombie"
  BY OnCpu DEF ExitZombie, On
<1>2. p # initproc
  BY <1>1, Zenon DEF InitInv, Forking
<1>3. TypeInv'
  BY DEF ExitZombie, TypeInv, States
<1>4. CpuInv'
  BY Park, Zenon DEF ExitZombie
<1>5. \A q \in Slots : pc[q] \in Holding /\ q # p => state[q] \in {"ZOMBIE", "UNUSED"} /\ sw[q] # "no"
  <2>1. pc[p] \in Holding /\ On(c, p)
    BY <1>1, Zenon DEF Holding, On
  <2> QED
    BY <2>1, SoleHolder, Zenon
<1>6. WaitLockInv'
  BY <1>1, <1>5, ZenonT(30) DEF ExitZombie, TypeInv, WaitLockInv, Holding
<1>7. ForkInv' /\ ScanInv'
  BY <1>1, Zenon DEF ExitZombie, TypeInv, ForkInv, ScanInv
<1>8. InitInv' /\ ~panicked'
  BY <1>2, Zenon DEF ExitZombie, TypeInv, InitInv
<1> QED
  BY <1>3, <1>4, <1>6, <1>7, <1>8

LEMMA WaitSleepKeeps ==
  ASSUME IInv, NEW c \in CPUs, NEW p \in Slots, WaitSleep(c, p)
  PROVE  IInv'
<1> USE Constants DEF IInv
<1>1. state[p] = "RUNNING" /\ cproc[c] = p /\ sw[p] = "no" /\ pc[p] = "wait_sleep"
  BY OnCpu, Zenon DEF WaitSleep, On
<1>2. /\ state' = [state EXCEPT ![p] = "SLEEPING"] /\ pc' = [pc EXCEPT ![p] = "wait"]
      /\ plock' = [plock EXCEPT ![p] = c] /\ sw' = [sw EXCEPT ![p] = "sleep"] /\ wlock' = NoCpu
      /\ UNCHANGED <<pid, parent, killed, cproc, sidx, nextpid, i, j, arg, kids, panicked>>
  BY Zenon DEF WaitSleep, Goto, ReleaseLock
<1>3. TypeInv'
  BY <1>2 DEF TypeInv, States, Labels
<1>4. CpuInv'
  BY <1>2, Park, ZenonT(30) DEF WaitSleep
<1>5. \A q \in Slots : pc[q] \in Holding /\ q # p => state[q] \in {"ZOMBIE", "UNUSED"} /\ sw[q] # "no"
  <2>1. pc[p] \in Holding /\ On(c, p)
    BY <1>1, Zenon DEF Holding, On
  <2> QED
    BY <2>1, SoleHolder, Zenon
<1>6. WaitLockInv'
  BY <1>1, <1>2, <1>5, Zenon DEF TypeInv, WaitLockInv, Holding
<1>7. ForkInv' /\ ScanInv'
  BY <1>1, <1>2, SMTT(30) DEF TypeInv, ForkInv, ScanInv, Forking
<1>8. InitInv' /\ ~panicked'
  BY <1>2, Zenon DEF TypeInv, InitInv
<1> QED
  BY <1>3, <1>4, <1>6, <1>7, <1>8

LEMMA PreemptKeeps ==
  ASSUME IInv, NEW c \in CPUs, NEW p \in Slots, Preempt(c, p)
  PROVE  IInv'
<1> USE Constants DEF IInv
<1>1. state[p] = "RUNNING" /\ cproc[c] = p /\ sw[p] = "no" /\ wlock # c
  BY OnCpu, Zenon DEF Preempt, On, IntrOn
<1>2. TypeInv'
  BY DEF Preempt, TypeInv, States
<1>3. CpuInv'
  BY Park, Zenon DEF Preempt
<1>4. pc[p] \notin Holding
  BY <1>1, SoleHolder, Zenon DEF On
<1>5. WaitLockInv'
  BY <1>1, <1>4, SMTT(30) DEF Preempt, TypeInv, WaitLockInv
<1>6. ForkInv' /\ ScanInv'
  BY <1>1, Zenon DEF Preempt, TypeInv, ForkInv, ScanInv
<1>7. InitInv' /\ ~panicked'
  BY DEF Preempt, TypeInv, InitInv
<1> QED
  BY <1>2, <1>3, <1>5, <1>6, <1>7

LEMMA TickKeeps ==
  ASSUME IInv, NEW c \in CPUs, NEW p \in Slots, Tick(c, p)
  PROVE  IInv'
<1>1. CASE Preempt(c, p)
  BY <1>1, PreemptKeeps
<1>2. CASE /\ On(c, p) /\ killed[p] /\ pc[p] = "user" /\ pc' = [pc EXCEPT ![p] = "exit"]
           /\ UNCHANGED <<proc, plock, wlock, cproc, sidx, nextpid, sw, i, j, arg, kids, panicked>>
  <2> USE Constants DEF IInv
  <2>1. p # initproc
    BY <1>2, Zenon DEF InitInv
  <2>2. TypeInv'
    BY <1>2, SMTT(30) DEF TypeInv, Labels, proc
  <2>3. CpuInv'
    BY <1>2, CpuFrame, Zenon DEF proc
  <2>4. \A q \in Slots : /\ pc'[q] \in Holding <=> pc[q] \in Holding
                         /\ pc'[q] \in Forking <=> pc[q] \in Forking
    BY <1>2, SMTT(30) DEF TypeInv, Holding, Forking
  <2>5. WaitLockInv'
    BY <1>2, <2>4, WaitLockFrame, Zenon DEF proc
  <2>6. ForkInv' /\ ScanInv'
    BY <1>2, <2>4, SMTT(30) DEF TypeInv, ForkInv, ScanInv, proc
  <2>7. InitInv' /\ ~panicked'
    BY <1>2, <2>1, Zenon DEF TypeInv, InitInv, proc
  <2> QED
    BY <2>2, <2>3, <2>5, <2>6, <2>7
<1> QED
  BY <1>1, <1>2 DEF Tick, Goto

----------------------------------------------------------------------------
(* kwait() frees a zombie that is off its CPU *)

LEMMA WaitScanKeeps ==
  ASSUME IInv, NEW c \in CPUs, NEW p \in Slots, WaitScan(c, p)
  PROVE  IInv'
<1> USE Constants DEF IInv
<1>1. state[p] = "RUNNING" /\ cproc[c] = p /\ sw[p] = "no" /\ pc[p] = "wait_scan"
  BY OnCpu DEF WaitScan, On
<1>2. UNCHANGED <<plock, cproc, sidx, nextpid, sw, j, arg, panicked>>
  BY Zenon DEF WaitScan
<1>3. wlock = c /\ \A q \in Slots : pc[q] \in Holding /\ q # p =>
                      state[q] \in {"ZOMBIE", "UNUSED"} /\ sw[q] # "no"
  <2>1. pc[p] \in Holding /\ On(c, p)
    BY <1>1, Zenon DEF Holding, On
  <2> QED
    BY <2>1, SoleHolder, Zenon
<1>4. PICK q \in Slots :
        /\ Free(q)
        /\ \/ state[q] = "ZOMBIE" /\ WaitReturn(p) /\ (FreeProc(q) \/ UNCHANGED proc)
           \/ i' = [i EXCEPT ![p] = q + 1] /\ UNCHANGED <<proc, wlock, pc>>
  BY DEF WaitScan, KidsFrom, Inspect
<1>5. CASE i' = [i EXCEPT ![p] = q + 1] /\ UNCHANGED <<proc, wlock, pc>>
  <2>1. TypeInv'
    BY <1>2, <1>5, SMTT(30) DEF TypeInv, proc
  <2>2. CpuInv' /\ WaitLockInv'
    BY <1>2, <1>5, CpuFrame, WaitLockFrame, Zenon DEF proc
  <2>3. ForkInv' /\ ScanInv' /\ InitInv'
    BY <1>1, <1>2, <1>5, Zenon DEF TypeInv, ForkInv, ScanInv, InitInv, proc
  <2> QED
    BY <1>2, <2>1, <2>2, <2>3, Zenon
<1>6. CASE state[q] = "ZOMBIE" /\ WaitReturn(p) /\ (FreeProc(q) \/ UNCHANGED proc)
  <2>1. q # initproc /\ q # p
    BY <1>1, <1>6 DEF InitInv
  <2>2. wlock' = NoCpu /\ pc' = [pc EXCEPT ![p] = "ret"] /\ i' = [i EXCEPT ![p] = 1]
    BY <1>6, Zenon DEF WaitReturn, Goto
  <2>3. state' = state \/ state' = [state EXCEPT ![q] = "UNUSED"]
    BY <1>6, Zenon DEF FreeProc, proc
  <2>4. pid' \in [Slots -> Nat] /\ pid'[initproc] = pid[initproc]
    BY <1>6, <2>1 DEF TypeInv, FreeProc, proc
  <2>5. killed' \in [Slots -> BOOLEAN] /\ killed'[initproc] = killed[initproc]
    <3>1. killed' = killed \/ killed' = [killed EXCEPT ![q] = FALSE]
      BY <1>6, SMTT(30) DEF FreeProc, proc
    <3> QED
      BY <2>1, <3>1, Zenon DEF TypeInv
  <2>6. TypeInv'
    BY <1>2, <2>2, <2>3, <2>4, <2>5, Zenon DEF TypeInv, Labels, States
  <2>7. CpuInv'
    <3>1. CASE state' = state
      BY <1>2, <3>1, CpuFrame
    <3>2. CASE state' = [state EXCEPT ![q] = "UNUSED"]
      BY <1>2, <1>4, <1>6, <3>2, StateChange, ZenonT(30) DEF States
    <3> QED
      BY <2>3, <3>1, <3>2, Zenon
  <2>8. WaitLockInv'
    BY <1>1, <1>2, <1>3, <2>2, <2>3, SMTT(30) DEF TypeInv, WaitLockInv, Holding
  <2>9. ForkInv' /\ ScanInv'
    BY <1>1, <1>2, <1>6, <2>2, <2>3, SMTT(30) DEF TypeInv, ForkInv, ScanInv, Forking
  <2>10. InitInv'
    BY <2>1, <2>2, <2>3, <2>4, <2>5 DEF TypeInv, InitInv
  <2> QED
    BY <1>2, <2>6, <2>7, <2>8, <2>9, <2>10, Zenon
<1> QED
  BY <1>4, <1>5, <1>6, Zenon

----------------------------------------------------------------------------
(* scheduler() and sched() *)

LEMMA DispatchKeeps ==
  ASSUME IInv, NEW c \in CPUs, Dispatch(c)
  PROVE  IInv'
<1> USE Constants DEF IInv
<1>1. PICK p \in Slots : p = sidx[c]
  BY Zenon DEF TypeInv
<1>2. /\ cproc[c] = NoProc /\ Free(p)
      /\ UNCHANGED <<pid, parent, chan, killed, wlock, nextpid, pc, sw, i, j, arg, panicked>>
  BY <1>1, Zenon DEF Dispatch, local
<1>3. CASE sidx' = [sidx EXCEPT ![c] = NextSlot(p)] /\ UNCHANGED <<plock, state, cproc>>
  <2>1. TypeInv'
    <3>1. NextSlot(p) \in Slots
      BY SlotAfter
    <3> QED
      BY <1>2, <1>3, <3>1 DEF TypeInv
  <2>2. CpuInv' /\ WaitLockInv'
    BY <1>2, <1>3, CpuFrame, WaitLockFrame, Zenon
  <2>3. ForkInv' /\ ScanInv' /\ InitInv'
    BY <1>2, <1>3, Zenon DEF ForkInv, ScanInv, InitInv
  <2> QED
    BY <1>2, <2>1, <2>2, <2>3, Zenon
<1>4. CASE /\ state[p] = "RUNNABLE"
           /\ plock' = [plock EXCEPT ![p] = c]
           /\ state' = [state EXCEPT ![p] = "RUNNING"]
           /\ cproc' = [cproc EXCEPT ![c] = p]
           /\ UNCHANGED sidx
  <2>1. sw[p] # "no" /\ \A d \in CPUs : cproc[d] # p
    BY <1>2, <1>4, SMTT(30) DEF CpuInv, Free
  <2>2. \A q \in Slots : plock[q] # c
    <3>1. \A d \in CPUs, q \in Slots : plock[q] = d => cproc[d] = q
      BY Zenon DEF CpuInv
    <3> QED
      BY <1>2, <3>1, Zenon
  <2>3. TypeInv'
    BY <1>2, <1>4, SMTT(30) DEF TypeInv, States
  <2>4. CpuInv'
    BY <1>2, <1>4, <2>1, <2>2, SMTT(30) DEF TypeInv, CpuInv
  <2>5. WaitLockInv'
    <3>1. wlock # c /\ pc[p] \notin Holding
      BY <1>2, <1>4, <2>1, Zenon DEF WaitLockInv
    <3> QED
      BY <1>2, <1>4, <3>1, SMTT(30) DEF TypeInv, WaitLockInv
  <2>6. ForkInv' /\ ScanInv'
    BY <1>2, <1>4, Zenon DEF TypeInv, ForkInv, ScanInv
  <2>7. InitInv'
    BY <1>2, <1>4, Zenon DEF TypeInv, InitInv
  <2> QED
    BY <1>2, <2>3, <2>4, <2>5, <2>6, <2>7, Zenon
<1> QED
  BY <1>1, <1>3, <1>4, Zenon DEF Dispatch

LEMMA SwitchOutKeeps ==
  ASSUME IInv, NEW c \in CPUs, NEW p \in Slots, SwitchOut(c, p)
  PROVE  IInv'
<1> USE Constants DEF IInv
<1>1. cproc[c] = p /\ sw[p] # "no" /\ state[p] # "RUNNING" /\ UNCHANGED <<proc, wlock, nextpid, local>>
  BY ZenonT(30) DEF SwitchOut
<1>2. SchedOK(c, p)
  <2>1. plock[p] = c /\ \A q \in Slots \ {p} : plock[q] # c
    BY <1>1, Zenon DEF CpuInv
  <2>2. wlock # c
    BY <1>1, Zenon DEF WaitLockInv
  <2> QED
    BY <2>1, <2>2, Zenon DEF SchedOK
<1>3. /\ cproc' = [cproc EXCEPT ![c] = NoProc] /\ plock' = [plock EXCEPT ![p] = NoCpu]
      /\ sidx' = [sidx EXCEPT ![c] = NextSlot(p)] /\ UNCHANGED panicked
  BY <1>2, Zenon DEF SwitchOut
<1>4. TypeInv'
  <2>1. NextSlot(p) \in Slots
    BY SlotAfter, Zenon
  <2> QED
    BY <1>1, <1>3, <2>1 DEF TypeInv, proc, local
<1>5. CpuInv'
  BY <1>1, <1>3, SMTT(30) DEF TypeInv, CpuInv, proc, local
<1>6. WaitLockInv'
  BY <1>1, <1>3, SMTT(30) DEF TypeInv, WaitLockInv, proc, local
<1>7. ForkInv' /\ ScanInv' /\ InitInv'
  BY <1>1, Zenon DEF ForkInv, ScanInv, InitInv, proc, local
<1> QED
  BY <1>3, <1>4, <1>5, <1>6, <1>7, Zenon

LEMMA ResumeKeeps ==
  ASSUME IInv, NEW c \in CPUs, NEW p \in Slots, Resume(c, p)
  PROVE  IInv'
<1> USE Constants DEF IInv
<1>1. /\ cproc[c] = p /\ sw[p] # "no" /\ state[p] = "RUNNING"
      /\ sw' = [sw EXCEPT ![p] = "no"] /\ plock' = [plock EXCEPT ![p] = NoCpu]
      /\ UNCHANGED <<state, pid, killed, wlock, cproc, sidx, nextpid, pc, i, j, arg, panicked>>
  BY Zenon DEF Resume
<1>2. TypeInv'
  BY <1>1, Zenon DEF TypeInv
<1>3. CpuInv'
  BY <1>1, SMTT(30) DEF TypeInv, CpuInv
<1>4. WaitLockInv'
  <2>1. pc[p] \notin Holding
    BY <1>1, Zenon DEF WaitLockInv
  <2> QED
    BY <1>1, <2>1 DEF TypeInv, WaitLockInv
<1>5. ForkInv' /\ ScanInv' /\ InitInv'
  BY <1>1, Zenon DEF ForkInv, ScanInv, InitInv
<1> QED
  BY <1>1, <1>2, <1>3, <1>4, <1>5, Zenon

----------------------------------------------------------------------------

LEMMA NextIInv ==
  ASSUME InitSpared, IInv, [Next]_vars
  PROVE  IInv'
<1>1. CASE UNCHANGED vars
  <2>1. CpuInv' /\ WaitLockInv'
    BY <1>1, CpuFrame, WaitLockFrame DEF vars, IInv
  <2>2. TypeInv' /\ InitInv' /\ ~panicked'
    <3>1. TypeInv'
      BY <1>1, SMTT(30) DEF vars, IInv, TypeInv
    <3>2. InitInv' /\ ~panicked'
      BY <1>1, ZenonT(30) DEF vars, IInv, InitInv
    <3> QED
      BY <3>1, <3>2, Zenon
  <2>3. ForkInv' /\ ScanInv'
    BY <1>1, Zenon DEF vars, IInv, ForkInv, ScanInv
  <2> QED
    BY <2>1, <2>2, <2>3, Zenon DEF IInv
<1>2. ASSUME NEW c \in CPUs, Dispatch(c) PROVE IInv'
  BY <1>2, DispatchKeeps
<1>3. ASSUME NEW c \in CPUs, NEW p \in Slots, Switch(c, p) PROVE IInv'
  BY <1>3, SwitchOutKeeps, ResumeKeeps, Zenon DEF Switch
<1>4. ASSUME NEW c \in CPUs, NEW p \in Slots, KernelStep(c, p) PROVE IInv'
  BY <1>4, SysReturnKeeps, ForkScanKeeps, ForkParentKeeps, ForkRunKeeps, ExitKeeps,
     ReparentKeeps, WakeupKeeps, ExitZombieKeeps, WaitKeeps, WaitScanKeeps, WaitCheckKeeps,
     WaitSleepKeeps, KillScanKeeps DEF KernelStep
<1>5. ASSUME NEW c \in CPUs, NEW p \in Slots, UserStep(c, p) PROVE IInv'
  <2>1. KillPids \subseteq Nat /\ 0 \in Nat
    BY ProcAssumption
  <2>2. ASSUME NEW call \in Calls(p), Syscall(c, p, call, 0) PROVE IInv'
    BY <2>1, <2>2, SyscallKeeps
  <2>3. ASSUME p # initproc, NEW k \in KillPids, Syscall(c, p, "kill", k) PROVE IInv'
    BY <2>1, <2>3, SyscallKeeps
  <2> QED
    BY <1>5, <2>2, <2>3, TickKeeps DEF UserStep
<1>6. ASSUME NEW c \in CPUs, NEW p \in Slots, Preempt(c, p) PROVE IInv'
  BY <1>6, PreemptKeeps
<1> QED
  BY <1>1, <1>2, <1>3, <1>4, <1>5, <1>6, Zenon DEF Next

\* p->lock across swtch(): for any number of CPUs and slots and any pids, as long
\* as nobody kills init, a process is on one CPU at most, no CPU is on the kernel
\* stack of a slot that is free or being made, a RUNNING process is on a CPU, and
\* neither sched() nor kexit() panics.
THEOREM ProcOnOneCpu ==
  ASSUME InitSpared
  PROVE  Spec => []OneCpuPerProc
<1>1. IInv => OneCpuPerProc
  <2> SUFFICES ASSUME IInv PROVE OneCpuPerProc
    BY Zenon
  <2>1. ASSUME NEW c \in CPUs, cproc[c] # NoProc PROVE state[cproc[c]] \notin {"UNUSED", "USED"}
    BY <2>1 DEF IInv, TypeInv, CpuInv
  <2> QED
    BY <2>1 DEF IInv, CpuInv, OneCpuPerProc
<1>2. IInv /\ [Next]_vars => IInv'
  BY NextIInv
<1> QED
  BY <1>1, <1>2, InitIInv, PTL DEF Spec
=============================================================================
