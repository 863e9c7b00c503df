-------------------------------- MODULE Pipe --------------------------------
(***************************************************************************)
(* One pipe, kernel/pipe.c, with the processes that hold its two ends:     *)
(* they read, write, close, and are killed.  pi->lock is held from         *)
(* acquire() to release() or sleep(), over several steps, because killed() *)
(* is not protected by it; sleep() releases it and sleeps in one step      *)
(* (module Proc is about how sleep() achieves that).                       *)
(***************************************************************************)
EXTENDS Naturals, Sequences, FiniteSets

CONSTANTS
  Readers, Writers,  \* processes that hold the read end, the write end
  NoProc,
  Byte, NoByte,
  PIPESIZE,
  UINT,              \* nread and nwrite are counted modulo UINT
  MaxN,              \* bound: bytes per read() or write() call
  Victims            \* bound: processes that are killed

ASSUME PipeAssumption ==
  /\ PIPESIZE \in Nat \ {0}
  /\ MaxN \in Nat \ {0}
  /\ UINT \in Nat /\ UINT > PIPESIZE /\ UINT % PIPESIZE = 0
  /\ NoProc \notin Readers \cup Writers
  /\ Victims \subseteq Readers \cup Writers

Procs == Readers \cup Writers
Ends == {"r", "w"}

VARIABLES
  data, nread, nwrite, readopen, writeopen,  \* struct pipe
  freed,    \* kfree(pi) was called
  lock,     \* pi->lock: the process that holds it
  fds,      \* the ends that a process has open
  pc, left, \* the call each process is in: its place, and n - i
  killed,
  ch        \* the byte that piperead() has taken out last

pipe == <<data, nread, nwrite, readopen, writeopen, freed, ch>>
vars == <<data, nread, nwrite, readopen, writeopen, freed, lock, fds, pc, left, killed, ch>>

\* pipealloc() has returned, the ends are handed out by fork() and close().
Init ==
  /\ data = [k \in 0..PIPESIZE - 1 |-> NoByte]
  /\ nread = 0 /\ nwrite = 0
  /\ readopen = TRUE /\ writeopen = TRUE
  /\ freed = FALSE
  /\ lock = NoProc
  /\ fds = [p \in Procs |-> {e \in Ends : p \in IF e = "r" THEN Readers ELSE Writers}]
  /\ pc = [p \in Procs |-> "user"]
  /\ left = [p \in Procs |-> 0]
  /\ killed = [p \in Procs |-> FALSE]
  /\ ch = NoByte

Succ(k) == (k + 1) % UINT

Empty == nread = nwrite

Full == nwrite = (nread + PIPESIZE) % UINT

\* pc after wakeup(&pi->nread), and after wakeup(&pi->nwrite)
WakeReaders(f) == [p \in Procs |-> IF f[p] = "rasleep" THEN "racquire" ELSE f[p]]

\* Mutant: the wrong channel.
WakeWrongChannel(f) == WakeReaders(f)

WakeWriters(f) == [p \in Procs |-> IF f[p] = "wasleep" THEN "wacquire" ELSE f[p]]

\* System call entry; a killed process exits instead.
Enter(p, e, size) ==
  /\ pc[p] = "user"
  /\ ~killed[p]
  /\ e \in fds[p]
  /\ pc' = [pc EXCEPT ![p] = IF e = "r" THEN "racquire" ELSE "wacquire"]
  /\ left' = [left EXCEPT ![p] = size]
  /\ UNCHANGED <<pipe, lock, fds, killed>>

\* acquire(&pi->lock), at the start and at the end of sleep()
Acquire(p) ==
  /\ pc[p] \in {"racquire", "wacquire"}
  /\ lock = NoProc
  /\ lock' = p
  /\ pc' = [pc EXCEPT ![p] = IF @ = "racquire" THEN "read_wait" ELSE "write"]
  /\ UNCHANGED <<pipe, fds, left, killed>>

\* release(&pi->lock) and return
Return(p, f) ==
  /\ lock' = NoProc
  /\ pc' = [f EXCEPT ![p] = "user"]
  /\ left' = [left EXCEPT ![p] = 0]

----------------------------------------------------------------------------
(* pipewrite() *)

\* Mutant: pipewrite() wakes nobody when it is done.
WriteDoneSilently(p) == Return(p, pc)

WriteDone(p) == Return(p, WakeReaders(pc))

\* i < n
More(p) == left[p] > 0

\* One turn of the loop, or what follows it.
Write(p) ==
  /\ pc[p] = "write"
  /\ \/ /\ More(p)
        /\ ~readopen \/ killed[p]
        /\ Return(p, pc)
        /\ UNCHANGED pipe
     \/ /\ More(p) /\ readopen /\ ~killed[p]
        /\ Full
        /\ pc' = [WakeReaders(pc) EXCEPT ![p] = "write_sleep"]
        /\ UNCHANGED <<pipe, lock, left>>
     \/ /\ More(p) /\ readopen /\ ~killed[p]
        /\ ~Full
        /\ \/ /\ \E b \in Byte : data' = [data EXCEPT ![nwrite % PIPESIZE] = b]
              /\ nwrite' = Succ(nwrite)
              /\ left' = [left EXCEPT ![p] = @ - 1]
              /\ UNCHANGED <<nread, readopen, writeopen, freed, ch, lock, pc>>
           \/ WriteDone(p) /\ UNCHANGED pipe   \* copyin() fails
     \/ /\ ~More(p)
        /\ WriteDone(p)
        /\ UNCHANGED pipe
  /\ UNCHANGED <<fds, killed>>

\* sleep(&pi->nwrite, &pi->lock)
WriteSleep(p) ==
  /\ pc[p] = "write_sleep"
  /\ pc' = [pc EXCEPT ![p] = "wasleep"]
  /\ lock' = NoProc
  /\ UNCHANGED <<pipe, fds, left, killed>>

----------------------------------------------------------------------------
(* piperead() *)

ReadWait(p) ==
  /\ pc[p] = "read_wait"
  /\ IF Empty /\ writeopen
     THEN IF killed[p] THEN Return(p, pc)
          ELSE pc' = [pc EXCEPT ![p] = "read_sleep"] /\ UNCHANGED <<lock, left>>
     ELSE pc' = [pc EXCEPT ![p] = "read"] /\ UNCHANGED <<lock, left>>
  /\ UNCHANGED <<pipe, fds, killed>>

\* sleep(&pi->nread, &pi->lock)
ReadSleep(p) ==
  /\ pc[p] = "read_sleep"
  /\ pc' = [pc EXCEPT ![p] = "rasleep"]
  /\ lock' = NoProc
  /\ UNCHANGED <<pipe, fds, left, killed>>

\* Mutant: the index into data is not reduced the way pipewrite() does it.
SlotShifted(k) == Succ(k) % PIPESIZE

Slot(k) == k % PIPESIZE

\* One turn of the loop, or what follows it.  The byte is taken out before
\* copyout(), which may fail.
Read(p) ==
  /\ pc[p] = "read"
  /\ \/ /\ More(p) /\ ~Empty
        /\ ch' = data[Slot(nread)]
        /\ nread' = Succ(nread)
        /\ \/ left' = [left EXCEPT ![p] = @ - 1] /\ UNCHANGED <<lock, pc>>
           \/ Return(p, WakeWriters(pc))
        /\ UNCHANGED <<data, nwrite, readopen, writeopen, freed>>
     \/ /\ ~More(p) \/ Empty
        /\ Return(p, WakeWriters(pc))
        /\ UNCHANGED pipe
  /\ UNCHANGED <<fds, killed>>

----------------------------------------------------------------------------
(* close(), exit() and kill() *)

\* sys_close() or kexit(): fileclose() drops a reference, the last one closes
\* the end.
Close(p, e) ==
  /\ pc[p] = "user"
  /\ e \in fds[p]
  /\ fds' = [fds EXCEPT ![p] = @ \ {e}]
  /\ pc' = IF \E q \in Procs \ {p} : e \in fds[q] THEN pc
           ELSE [pc EXCEPT ![p] = IF e = "r" THEN "rclose" ELSE "wclose"]
  /\ UNCHANGED <<pipe, lock, left, killed>>

\* Mutant: the pipe is freed when either end is closed.
UnusedEither(r, w) == ~r \/ ~w

Unused(r, w) == ~r /\ ~w

PipeClose(p) ==
  /\ pc[p] \in {"rclose", "wclose"}
  /\ lock = NoProc
  /\ IF pc[p] = "wclose"
     THEN /\ writeopen' = FALSE /\ UNCHANGED readopen
          /\ pc' = [WakeReaders(pc) EXCEPT ![p] = "user"]
     ELSE /\ readopen' = FALSE /\ UNCHANGED writeopen
          /\ pc' = [WakeWriters(pc) EXCEPT ![p] = "user"]
  /\ freed' = Unused(readopen', writeopen')
  /\ UNCHANGED <<data, nread, nwrite, ch, lock, fds, left, killed>>

\* kkill(): a sleeper is woken, nothing tells it why.
Kill(p) ==
  /\ p \in Victims /\ ~killed[p]
  /\ killed' = [killed EXCEPT ![p] = TRUE]
  /\ pc' = [pc EXCEPT ![p] = IF @ = "rasleep" THEN "racquire"
                             ELSE IF @ = "wasleep" THEN "wacquire" ELSE @]
  /\ UNCHANGED <<pipe, lock, fds, left>>

\* The steps that a process takes by itself inside a call.
Step(p) ==
  \/ Acquire(p) \/ Write(p) \/ WriteSleep(p)
  \/ ReadWait(p) \/ ReadSleep(p) \/ Read(p) \/ PipeClose(p)

Next ==
  \E p \in Procs :
    \/ Step(p)
    \/ Kill(p)
    \/ \E e \in Ends : Close(p, e) \/ \E size \in 1..MaxN : Enter(p, e, size)

Spec == Init /\ [][Next]_vars

\* A process that runs gets on, and gets a spin-lock that is released again and
\* again; a killed process exits, which closes its ends; and some readers do not
\* stop reading before they have seen the end of the file.
Fairness ==
  /\ \A p \in Procs : SF_vars(Step(p)) /\ WF_vars(killed[p] /\ \E e \in Ends : Close(p, e))
  /\ \A p \in Readers : WF_vars(Enter(p, "r", MaxN))

FairSpec == Spec /\ Fairness

----------------------------------------------------------------------------
(* Properties *)

\* The bytes between nread and nwrite, oldest first.
Queue == [k \in 1..((nwrite + UINT - nread) % UINT) |-> data[(nread + k - 1) % PIPESIZE]]

F == INSTANCE Fifo WITH Capacity <- PIPESIZE, queue <- Queue, out <- ch,
                        ropen <- readopen, wopen <- writeopen

\* The ring buffer is a queue: whatever calls of several readers and writers
\* interleave, and however often the counters wrap around, bytes come out in the
\* order they went in and at most PIPESIZE of them are in between.
IsFifo == F!Spec

\* pipeclose() frees the page when the second end is closed, and no process is
\* then inside piperead() or pipewrite(), asleep or spinning for its lock.
NoUseAfterFree == freed => \A p \in Procs : pc[p] = "user" /\ fds[p] = {}

\* No wakeup is lost while the pipe is unlocked: no reader sleeps although there
\* are bytes to read or all writers are gone, unless a writer was killed in the
\* middle of its call (it returns without waking anybody); and no writer sleeps
\* although there is room or all readers are gone.
NoLostWakeup ==
  lock = NoProc =>
    \A p \in Procs :
      /\ pc[p] = "rasleep" => /\ writeopen
                              /\ Empty \/ \E q \in Writers : killed[q]
      /\ pc[p] = "wasleep" => Full /\ readopen

\* As long as readers read until the end of the file, a write() call of a single
\* writer returns (two writers may starve each other: whoever finds room fills
\* it).
WritesFinish ==
  \A p \in Writers : Writers = {p} /\ pc[p] = "wacquire" ~> pc[p] = "user"
=============================================================================
