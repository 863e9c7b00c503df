---------------------------- MODULE QueueProofs ----------------------------
(***************************************************************************)
(* Proofs about the two bounded queues behind a session at the prompt.     *)
(* Pipe: who may be inside a call when an end is open, why no wakeup is    *)
(* lost, and that the ring buffer with its wrapping counters is a queue,   *)
(* for any number of readers and writers, any PIPESIZE and any width of    *)
(* the counters.  History: the list holds the latest lines under their     *)
(* own numbers, for any MAX_HISTORY_LEN, although history_add() never      *)
(* looks at the length of the list and history_run() never at the oldest   *)
(* number.                                                                 *)
(***************************************************************************)
EXTENDS Pipe, History, Integers, TLAPS

----------------------------------------------------------------------------
(* Remainders *)

LEMMA ModRange ==
  ASSUME NEW n \in Nat \ {0}, NEW x \in Nat
  PROVE  x % n \in 0..n - 1
OBVIOUS

LEMMA ModTwice ==
  ASSUME NEW n \in Nat \ {0}, NEW x \in 0..2 * n - 1
  PROVE  x % n = IF x < n THEN x ELSE x - n
OBVIOUS

LEMMA ModDef ==
  ASSUME NEW n \in Nat \ {0}, NEW x \in Nat
  PROVE  x \div n \in Nat /\ x = n * (x \div n) + (x % n)
OBVIOUS

LEMMA ModUnique ==
  ASSUME NEW n \in Nat \ {0}, NEW q \in Nat, NEW r \in 0..n - 1
  PROVE  (n * q + r) % n = r
OBVIOUS

LEMMA ModOfMultiple ==
  ASSUME NEW n \in Nat \ {0}, NEW u \in Nat, u % n = 0, NEW x \in Nat
  PROVE  (x + u) % n = x % n
<1>1. PICK q \in Nat, r \in 0..n - 1 : x = n * q + r /\ r = x % n
  BY ModDef, ModRange, Zenon
<1>2. PICK k \in Nat : u = n * k
  <2>1. u \div n \in Nat /\ u = n * (u \div n) + (u % n)
    BY ModDef
  <2>2. n * (u \div n) \in Nat
    BY <2>1
  <2>3. n * (u \div n) + 0 = n * (u \div n)
    BY <2>2
  <2> QED
    BY <2>1, <2>3, Zenon
<1>3. x + u = n * (q + k) + r
  BY <1>1, <1>2
<1>4. (n * (q + k) + r) % n = r
  BY ModUnique
<1> QED
  BY <1>1, <1>3, <1>4

LEMMA TimesSucc ==
  ASSUME NEW n \in Nat, NEW m \in Nat
  PROVE  n * (m + 1) = n * m + n /\ n * m \in Nat
OBVIOUS

\* Fewer than n numbers in a row have different remainders.
LEMMA ModDistinct ==
  ASSUME NEW n \in Nat \ {0}, NEW x \in Nat, NEW y \in Nat, x < y, y < x + n
  PROVE  x % n # y % n
<1> SUFFICES ASSUME x % n = y % n PROVE FALSE
  OBVIOUS
<1>1. PICK q \in Nat, k \in Nat, r \in 0..n - 1 : x = n * q + r /\ y = n * k + r
  <2>1. x \div n \in Nat /\ x = n * (x \div n) + (x % n)
    BY ModDef
  <2>2. y \div n \in Nat /\ y = n * (y \div n) + (x % n)
    BY ModDef
  <2>3. x % n \in 0..n - 1
    BY ModRange
  <2> QED
    BY <2>1, <2>2, <2>3, Zenon
<1>2. y - x = n * (k - q)
  BY <1>1
<1>3. k > q
  <2> SUFFICES ASSUME k <= q PROVE FALSE
    OBVIOUS
  <2>1. n * (q - k) >= 0
    OBVIOUS
  <2> QED
    BY <1>1, <2>1
<1>4. PICK m \in Nat : k - q = m + 1
  BY <1>3
<1>5. n * (m + 1) = n * m + n /\ n * m \in Nat
  BY TimesSucc
<1> QED
  BY <1>2, <1>4, <1>5

----------------------------------------------------------------------------
(* The pipe: ends, calls and wakeups *)

ReadLabels == {"racquire", "read_wait", "read_sleep", "rasleep", "read"}
WriteLabels == {"wacquire", "write", "write_sleep", "wasleep"}
Labels == {"user", "rclose", "wclose"} \cup ReadLabels \cup WriteLabels

\* The places at which a process has pi->lock.
LockedLabels == {"read_wait", "read_sleep", "read", "write", "write_sleep"}

TypeInv ==
  /\ readopen \in BOOLEAN /\ writeopen \in BOOLEAN /\ freed \in BOOLEAN
  /\ lock \in Procs \cup {NoProc}
  /\ fds \in [Procs -> SUBSET Ends]
  /\ pc \in [Procs -> Labels]
  /\ killed \in [Procs -> BOOLEAN]

\* Who is inside a call has its end open, and was given it.
CallerInv ==
  \A p \in Procs :
    /\ pc[p] \in ReadLabels => "r" \in fds[p]
    /\ pc[p] \in WriteLabels => "w" \in fds[p]
    /\ "r" \in fds[p] => p \in Readers
    /\ "w" \in fds[p] => p \in Writers

\* An end is open while anybody has it, or is about to close it; only the last
\* who had it closes it.
EndInv ==
  \A p \in Procs :
    /\ "r" \in fds[p] => readopen
    /\ "w" \in fds[p] => writeopen
    /\ pc[p] = "rclose" =>
         readopen /\ \A q \in Procs : "r" \notin fds[q] /\ (pc[q] = "rclose" => q = p)
    /\ pc[p] = "wclose" =>
         writeopen /\ \A q \in Procs : "w" \notin fds[q] /\ (pc[q] = "wclose" => q = p)

FreedInv == freed <=> ~readopen /\ ~writeopen

LockInv == \A p \in Procs : lock = p <=> pc[p] \in LockedLabels

\* Why a process sleeps, or is going to.  While a call has the lock it may have
\* made the reason untrue: then it is going to wake the sleepers.
SleepInv ==
  \A p \in Procs :
    /\ pc[p] = "read_sleep" => Empty /\ writeopen
    /\ pc[p] = "write_sleep" => Full /\ readopen
    /\ pc[p] = "rasleep" => /\ writeopen
                            /\ \/ Empty
                               \/ \E q \in Writers : killed[q]
                               \/ \E q \in Procs : pc[q] = "write"
    /\ pc[p] = "wasleep" => readopen /\ (Full \/ \E q \in Procs : pc[q] = "read")

IInv == TypeInv /\ CallerInv /\ EndInv /\ FreedInv /\ LockInv /\ SleepInv

\* The other processes keep their place, but those asleep at `from' may be woken.
Moves(p, to, from) ==
  /\ pc'[p] = to
  /\ \A q \in Procs \ {p} :
       pc'[q] = IF pc[q] = from
                THEN IF from = "rasleep" THEN "racquire" ELSE "wacquire" ELSE pc[q]

LEMMA InitIInv == Init => IInv
<1> SUFFICES ASSUME Init PROVE IInv
  OBVIOUS
<1> USE DEF Init, ReadLabels, WriteLabels, Labels, LockedLabels, Procs, Ends
<1>1. TypeInv
  BY Zenon DEF TypeInv
<1>2. CallerInv /\ EndInv /\ FreedInv
  BY Zenon DEF CallerInv, EndInv, FreedInv
<1>3. LockInv /\ SleepInv
  BY PipeAssumption DEF LockInv, SleepInv
<1> QED
  BY <1>1, <1>2, <1>3 DEF IInv

\* What the combinations of wakeup() and a move do to the places of all.
LEMMA PlainMove ==
  ASSUME pc \in [Procs -> Labels], NEW p \in Procs, NEW to \in Labels,
         pc' = [pc EXCEPT ![p] = to]
  PROVE  pc' \in [Procs -> Labels] /\ Moves(p, to, "none")
BY DEF Moves, Labels, ReadLabels, WriteLabels

LEMMA WakeReadersMove ==
  ASSUME pc \in [Procs -> Labels], NEW p \in Procs, NEW to \in Labels,
         pc' = [WakeReaders(pc) EXCEPT ![p] = to]
  PROVE  pc' \in [Procs -> Labels] /\ Moves(p, to, "rasleep")
BY DEF Moves, WakeReaders, Labels, ReadLabels, WriteLabels

LEMMA WakeWritersMove ==
  ASSUME pc \in [Procs -> Labels], NEW p \in Procs, NEW to \in Labels,
         pc' = [WakeWriters(pc) EXCEPT ![p] = to]
  PROVE  pc' \in [Procs -> Labels] /\ Moves(p, to, "wasleep")
BY DEF Moves, WakeWriters, Labels, ReadLabels, WriteLabels

LEMMA EnterKeeps ==
  ASSUME IInv, NEW p \in Procs, NEW e \in Ends, NEW size \in 1..MaxN, Enter(p, e, size)
  PROVE  IInv'
<1> USE DEF IInv, Labels, ReadLabels, WriteLabels, pipe, Ends
<1>1. pc' \in [Procs -> Labels] /\ Moves(p, IF e = "r" THEN "racquire" ELSE "wacquire", "none")
  BY PlainMove, Zenon DEF TypeInv, Enter
<1>2. TypeInv'
  BY <1>1 DEF TypeInv, Enter
<1>3. CallerInv' /\ EndInv' /\ FreedInv'
  BY <1>1 DEF TypeInv, CallerInv, EndInv, FreedInv, Moves, Enter
<1>4. LockInv'
  BY <1>1, PipeAssumption, Zenon DEF TypeInv, LockInv, LockedLabels, Moves, Procs, Enter
<1>5. SleepInv'
  BY <1>1 DEF TypeInv, LockInv, LockedLabels, SleepInv, Empty, Full, Moves, Enter
<1> QED
  BY <1>2, <1>3, <1>4, <1>5

LEMMA AcquireKeeps ==
  ASSUME IInv, NEW p \in Procs, Acquire(p)
  PROVE  IInv'
<1> USE DEF IInv, Labels, ReadLabels, WriteLabels, pipe
<1>1. /\ pc' \in [Procs -> Labels]
      /\ Moves(p, IF pc[p] = "racquire" THEN "read_wait" ELSE "write", "none")
  BY PlainMove, Zenon DEF TypeInv, Acquire
<1>2. TypeInv'
  BY <1>1 DEF TypeInv, Acquire
<1>3. CallerInv' /\ EndInv' /\ FreedInv'
  BY <1>1 DEF TypeInv, CallerInv, EndInv, FreedInv, Moves, Acquire
<1>4. LockInv'
  BY <1>1, PipeAssumption, Zenon DEF TypeInv, LockInv, LockedLabels, Moves, Procs, Acquire
<1>5. SleepInv'
  BY <1>1, Zenon DEF TypeInv, LockInv, LockedLabels, SleepInv, Empty, Full, Moves, Acquire
<1> QED
  BY <1>2, <1>3, <1>4, <1>5, Zenon

LEMMA WriteSleepKeeps ==
  ASSUME IInv, NEW p \in Procs, WriteSleep(p)
  PROVE  IInv'
<1> USE DEF IInv, Labels, ReadLabels, WriteLabels, pipe
<1>1. pc' \in [Procs -> Labels] /\ Moves(p, "wasleep", "none")
  BY PlainMove, Zenon DEF TypeInv, WriteSleep
<1>2. TypeInv'
  BY <1>1 DEF TypeInv, WriteSleep
<1>3. CallerInv' /\ EndInv' /\ FreedInv'
  BY <1>1 DEF TypeInv, CallerInv, EndInv, FreedInv, Moves, WriteSleep
<1>4. LockInv'
  BY <1>1, PipeAssumption, Zenon DEF TypeInv, LockInv, LockedLabels, Moves, Procs, WriteSleep
<1>5. SleepInv'
  BY <1>1, Zenon DEF TypeInv, LockInv, LockedLabels, SleepInv, Empty, Full, Moves, WriteSleep
<1> QED
  BY <1>2, <1>3, <1>4, <1>5

LEMMA ReadSleepKeeps ==
  ASSUME IInv, NEW p \in Procs, ReadSleep(p)
  PROVE  IInv'
<1> USE DEF IInv, Labels, ReadLabels, WriteLabels, pipe
<1>1. pc' \in [Procs -> Labels] /\ Moves(p, "rasleep", "none")
  BY PlainMove, Zenon DEF TypeInv, ReadSleep
<1>2. TypeInv'
  BY <1>1 DEF TypeInv, ReadSleep
<1>3. CallerInv' /\ EndInv' /\ FreedInv'
  BY <1>1 DEF TypeInv, CallerInv, EndInv, FreedInv, Moves, ReadSleep
<1>4. LockInv'
  BY <1>1, PipeAssumption, Zenon DEF TypeInv, LockInv, LockedLabels, Moves, Procs, ReadSleep
<1>5. SleepInv'
  BY <1>1, Zenon DEF TypeInv, LockInv, LockedLabels, SleepInv, Empty, Full, Moves, ReadSleep
<1> QED
  BY <1>2, <1>3, <1>4, <1>5

LEMMA KillKeeps ==
  ASSUME IInv, NEW p \in Procs, Kill(p)
  PROVE  IInv'
<1> USE DEF IInv, Labels, ReadLabels, WriteLabels, pipe
<1>1. /\ pc' \in [Procs -> Labels]
      /\ \/ Moves(p, pc[p], "none")
         \/ pc[p] = "rasleep" /\ Moves(p, "racquire", "none")
         \/ pc[p] = "wasleep" /\ Moves(p, "wacquire", "none")
  <2> DEFINE to == IF pc[p] = "rasleep" THEN "racquire"
                   ELSE IF pc[p] = "wasleep" THEN "wacquire" ELSE pc[p]
  <2>1. to \in Labels
    BY DEF TypeInv
  <2>2. pc' = [pc EXCEPT ![p] = to]
    BY Zenon DEF Kill
  <2>3. pc' \in [Procs -> Labels] /\ Moves(p, to, "none")
    <3> HIDE DEF to
    <3> QED
      BY <2>1, <2>2, PlainMove, Zenon DEF TypeInv
  <2> QED
    BY <2>3
<1>2. TypeInv'
  BY <1>1 DEF TypeInv, Kill
<1>3. CallerInv' /\ EndInv' /\ FreedInv'
  BY <1>1 DEF TypeInv, CallerInv, EndInv, FreedInv, Moves, Kill
<1>4. LockInv'
  BY <1>1 DEF TypeInv, LockInv, LockedLabels, Moves, Kill
<1>5. \A q \in Writers : killed[q] => killed'[q]
  BY DEF TypeInv, Kill, Procs
<1>6. SleepInv'
  BY <1>1, <1>5 DEF TypeInv, SleepInv, Empty, Full, Moves, Kill
<1> QED
  BY <1>2, <1>3, <1>4, <1>6

LEMMA CloseKeeps ==
  ASSUME IInv, NEW p \in Procs, NEW e \in Ends, Close(p, e)
  PROVE  IInv'
<1> USE DEF IInv, Labels, ReadLabels, WriteLabels, pipe
<1>1. pc' \in [Procs -> Labels]
      /\ IF \E q \in Procs \ {p} : e \in fds[q] THEN pc' = pc
         ELSE Moves(p, IF e = "r" THEN "rclose" ELSE "wclose", "none")
  BY PlainMove, Zenon DEF TypeInv, Close
<1>2. /\ fds' \in [Procs -> SUBSET Ends]
      /\ fds'[p] = fds[p] \ {e}
      /\ \A q \in Procs \ {p} : fds'[q] = fds[q]
  BY DEF TypeInv, Close
<1>3. TypeInv'
  BY <1>1, <1>2 DEF TypeInv, Close
<1>4. CallerInv' /\ FreedInv'
  BY <1>1, <1>2 DEF TypeInv, CallerInv, FreedInv, Moves, Close
<1>5. EndInv'
  <2>1. CASE e = "r"
    BY <1>1, <1>2, <2>1 DEF TypeInv, EndInv, Moves, Close
  <2>2. CASE e = "w"
    BY <1>1, <1>2, <2>2 DEF TypeInv, EndInv, Moves, Close
  <2> QED
    BY <2>1, <2>2 DEF Ends
<1>6. LockInv'
  BY <1>1 DEF TypeInv, LockInv, LockedLabels, Moves, Close
<1>7. SleepInv'
  BY <1>1 DEF TypeInv, SleepInv, Empty, Full, Moves, Close
<1> QED
  BY <1>3, <1>4, <1>5, <1>6, <1>7

LEMMA PipeCloseKeeps ==
  ASSUME IInv, NEW p \in Procs, PipeClose(p)
  PROVE  IInv'
<1> USE DEF IInv, Labels, ReadLabels, WriteLabels
<1>1. pc' \in [Procs -> Labels]
      /\ Moves(p, "user", IF pc[p] = "wclose" THEN "rasleep" ELSE "wasleep")
  BY WakeReadersMove, WakeWritersMove DEF TypeInv, PipeClose
<1>2. TypeInv' /\ FreedInv'
  BY <1>1, Zenon DEF TypeInv, FreedInv, Unused, PipeClose
<1>3. CallerInv' /\ EndInv'
  BY <1>1 DEF TypeInv, CallerInv, EndInv, Moves, PipeClose
<1>4. LockInv'
  BY <1>1, Zenon DEF TypeInv, LockInv, LockedLabels, Moves, PipeClose
<1>5. SleepInv'
  BY <1>1, PipeAssumption DEF TypeInv, LockInv, LockedLabels, Procs, SleepInv, Empty, Full,
                                Moves, PipeClose
<1> QED
  BY <1>2, <1>3, <1>4, <1>5, Zenon

LEMMA ReadWaitKeeps ==
  ASSUME IInv, NEW p \in Procs, ReadWait(p)
  PROVE  IInv'
<1> USE DEF IInv, Labels, ReadLabels, WriteLabels, pipe, Return
<1>1. pc' \in [Procs -> Labels]
      /\ \/ Moves(p, "user", "none") /\ lock' = NoProc
         \/ Moves(p, "read_sleep", "none") /\ lock' = lock /\ Empty /\ writeopen
         \/ Moves(p, "read", "none") /\ lock' = lock
  BY PlainMove DEF TypeInv, ReadWait
<1>2. UNCHANGED <<pipe, fds, killed>> /\ pc[p] = "read_wait"
  BY DEF ReadWait
<1>3. TypeInv'
  BY <1>1, <1>2, Zenon DEF TypeInv
<1>4. CallerInv' /\ EndInv' /\ FreedInv'
  BY <1>1, <1>2, Zenon DEF TypeInv, CallerInv, EndInv, FreedInv, Moves
<1>5. LockInv'
  BY <1>1, <1>2, PipeAssumption, Zenon DEF TypeInv, LockInv, LockedLabels, Moves, Procs
<1>6. SleepInv'
  BY <1>1, <1>2 DEF TypeInv, LockInv, LockedLabels, SleepInv, Empty, Full, Moves
<1> QED
  BY <1>3, <1>4, <1>5, <1>6

LEMMA ReadKeeps ==
  ASSUME IInv, NEW p \in Procs, Read(p)
  PROVE  IInv'
<1> USE DEF IInv, Labels, ReadLabels, WriteLabels
<1>1. /\ pc[p] = "read" /\ (UNCHANGED nread \/ ~Empty)
      /\ UNCHANGED <<nwrite, readopen, writeopen, freed, fds, killed>>
  BY DEF Read, pipe
<1>2. \/ pc' = pc /\ lock' = lock
      \/ pc' \in [Procs -> Labels] /\ Moves(p, "user", "wasleep") /\ lock' = NoProc
  BY WakeWritersMove DEF TypeInv, Read, Return
<1>3. TypeInv'
  BY <1>1, <1>2, Zenon DEF TypeInv
<1>4. CallerInv' /\ EndInv' /\ FreedInv'
  BY <1>1, <1>2 DEF TypeInv, CallerInv, EndInv, FreedInv, Moves
<1>5. LockInv'
  BY <1>1, <1>2, PipeAssumption DEF TypeInv, LockInv, LockedLabels, Moves, Procs
<1>6. \A q \in Procs : pc[q] \in LockedLabels => q = p
  BY <1>1 DEF LockInv, LockedLabels
<1>7. SleepInv'
  BY <1>1, <1>2, <1>6 DEF TypeInv, LockedLabels, SleepInv, Empty, Full, Moves
<1> QED
  BY <1>3, <1>4, <1>5, <1>7

LEMMA WriteKeeps ==
  ASSUME IInv, NEW p \in Procs, Write(p)
  PROVE  IInv'
<1> USE DEF IInv, Labels, ReadLabels, WriteLabels
<1>1. /\ pc[p] = "write" /\ (UNCHANGED nwrite \/ ~Full)
      /\ UNCHANGED <<nread, readopen, writeopen, freed, fds, killed>>
  BY Zenon DEF Write, pipe
<1>2. \/ pc' = pc /\ lock' = lock
      \/ /\ pc' \in [Procs -> Labels] /\ Moves(p, "user", "none") /\ lock' = NoProc
         /\ UNCHANGED nwrite /\ (~readopen \/ killed[p])
      \/ pc' \in [Procs -> Labels] /\ Moves(p, "user", "rasleep") /\ lock' = NoProc
      \/ /\ pc' \in [Procs -> Labels] /\ Moves(p, "write_sleep", "rasleep") /\ lock' = lock
         /\ UNCHANGED nwrite /\ Full /\ readopen
  BY PlainMove, WakeReadersMove DEF TypeInv, Write, WriteDone, Return, pipe
<1>3. TypeInv'
  BY <1>1, <1>2, Zenon DEF TypeInv
<1>4. CallerInv' /\ EndInv' /\ FreedInv'
  BY <1>1, <1>2 DEF TypeInv, CallerInv, EndInv, FreedInv, Moves
<1>5. LockInv'
  BY <1>1, <1>2, PipeAssumption DEF TypeInv, LockInv, LockedLabels, Moves, Procs
<1>6. \A q \in Procs : pc[q] \in LockedLabels => q = p
  BY <1>1, Zenon DEF LockInv, LockedLabels
<1>7. p \in Writers /\ \A q \in Procs : pc[q] = "rasleep" => readopen
  BY <1>1, Zenon DEF CallerInv, EndInv
<1>8. SleepInv'
  BY <1>1, <1>2, <1>6, <1>7 DEF TypeInv, LockedLabels, SleepInv, Empty, Full, Moves
<1> QED
  BY <1>3, <1>4, <1>5, <1>8

LEMMA NextIInv == IInv /\ [Next]_vars => IInv'
<1> SUFFICES ASSUME IInv, [Next]_vars PROVE IInv'
  BY Zenon
<1>1. CASE UNCHANGED vars
  BY <1>1 DEF vars, IInv, TypeInv, CallerInv, EndInv, FreedInv, LockInv, SleepInv, Empty, Full
<1>2. CASE Next
  BY <1>2, EnterKeeps, AcquireKeeps, WriteSleepKeeps, ReadSleepKeeps, KillKeeps, CloseKeeps,
     PipeCloseKeeps, ReadWaitKeeps, ReadKeeps, WriteKeeps DEF Next, Step
<1> QED
  BY <1>1, <1>2

LEMMA Invariance == Spec => []IInv
BY InitIInv, NextIInv, PTL DEF Spec

\* pipeclose() frees the page of a pipe that nobody uses: no process is in a
\* call, asleep or spinning, or has an end open, however many have the pipe.
THEOREM PipeFreedUnused == Spec => []NoUseAfterFree
<1>1. IInv => NoUseAfterFree
  <2> SUFFICES ASSUME IInv, freed, NEW p \in Procs
               PROVE  pc[p] = "user" /\ fds[p] = {}
    BY DEF NoUseAfterFree
  <2>1. ~readopen /\ ~writeopen
    BY DEF IInv, FreedInv
  <2>2. "r" \notin fds[p] /\ "w" \notin fds[p] /\ pc[p] \notin {"rclose", "wclose"}
    BY <2>1 DEF IInv, EndInv
  <2>3. pc[p] \notin ReadLabels /\ pc[p] \notin WriteLabels
    BY <2>2 DEF IInv, CallerInv
  <2>4. fds[p] \in SUBSET Ends /\ pc[p] \in Labels
    BY DEF IInv, TypeInv
  <2> QED
    BY <2>2, <2>3, <2>4 DEF Ends, Labels
<1> QED
  BY <1>1, Invariance, PTL

\* Whenever pi->lock is free, a reader sleeps only on an empty pipe with an open
\* write end (or one whose writer was killed), a writer only on a full pipe with
\* an open read end.
THEOREM PipeLosesNoWakeup == Spec => []NoLostWakeup
<1>1. IInv => NoLostWakeup
  <2> SUFFICES ASSUME IInv, lock = NoProc, NEW p \in Procs
               PROVE  /\ pc[p] = "rasleep" => /\ writeopen
                                              /\ Empty \/ \E q \in Writers : killed[q]
                      /\ pc[p] = "wasleep" => Full /\ readopen
    BY DEF NoLostWakeup
  <2>1. \A q \in Procs : pc[q] \notin {"write", "read"}
    BY PipeAssumption DEF IInv, LockInv, LockedLabels, Procs
  <2> QED
    BY <2>1 DEF IInv, SleepInv
<1> QED
  BY <1>1, Invariance, PTL

----------------------------------------------------------------------------
(* The pipe: the ring buffer *)

Index == 0..UINT - 1
Dist(r, w) == (w + UINT - r) % UINT
Count == Dist(nread, nwrite)
Cell(k) == data[(nread + k - 1) % PIPESIZE]

LEMMA Sizes == PIPESIZE \in Nat \ {0} /\ UINT \in Nat \ {0} /\ UINT > PIPESIZE
BY PipeAssumption

RingInv ==
  /\ nread \in Index /\ nwrite \in Index
  /\ data \in [0..PIPESIZE - 1 -> Byte \cup {NoByte}]
  /\ Count <= PIPESIZE

LEMMA UintMod ==
  ASSUME NEW x \in 0..2 * UINT - 1
  PROVE  x % UINT = IF x < UINT THEN x ELSE x - UINT
BY Sizes, ModTwice, Zenon

\* The counters wrap around, what is between them is counted right, and the
\* comparisons in the code tell whether the buffer is empty or full.
LEMMA DistFacts ==
  ASSUME NEW r \in Index, NEW w \in Index
  PROVE  /\ Dist(r, w) \in Index
         /\ r + Dist(r, w) = w \/ r + Dist(r, w) = w + UINT
<1> USE Sizes DEF Index
<1>1. w + UINT - r \in 0..2 * UINT - 1
  OBVIOUS
<1>2. Dist(r, w) = IF w + UINT - r < UINT THEN w + UINT - r ELSE w + UINT - r - UINT
  BY <1>1, UintMod DEF Dist
<1> QED
  BY <1>2

LEMMA CountFacts ==
  ASSUME nread \in Index, nwrite \in Index
  PROVE  /\ Count \in Index
         /\ nread + Count = nwrite \/ nread + Count = nwrite + UINT
         /\ Empty <=> Count = 0
         /\ Full <=> Count = PIPESIZE
<1> USE Sizes DEF Index
<1>1. Count \in Index /\ (nread + Count = nwrite \/ nread + Count = nwrite + UINT)
  BY DistFacts DEF Count
<1>2. (nread + PIPESIZE) % UINT =
        IF nread + PIPESIZE < UINT THEN nread + PIPESIZE ELSE nread + PIPESIZE - UINT
  <2>1. nread + PIPESIZE \in 0..2 * UINT - 1
    OBVIOUS
  <2> QED
    BY <2>1, UintMod
<1> QED
  BY <1>1, <1>2 DEF Empty, Full

LEMMA SuccFacts ==
  ASSUME NEW k \in Index
  PROVE  Succ(k) = IF k = UINT - 1 THEN 0 ELSE k + 1
<1>1. k + 1 \in 0..2 * UINT - 1
  BY Sizes DEF Index
<1>2. Succ(k) = IF k + 1 < UINT THEN k + 1 ELSE k + 1 - UINT
  <2>1. (k + 1) % UINT = IF k + 1 < UINT THEN k + 1 ELSE k + 1 - UINT
    BY <1>1, UintMod, Sizes DEF Index
  <2> QED
    BY <2>1, Sizes DEF Succ, Index
<1> QED
  BY <1>2, Sizes DEF Index

LEMMA CellTyped ==
  ASSUME RingInv, NEW k \in Nat \ {0}
  PROVE  Cell(k) \in Byte \cup {NoByte}
<1>1. (nread + k - 1) % PIPESIZE \in 0..PIPESIZE - 1
  <2>1. nread + k - 1 \in Nat
    BY Sizes DEF RingInv, Index
  <2> QED
    BY <2>1, Sizes, ModRange, Zenon
<1> QED
  BY <1>1 DEF RingInv, Cell

LEMMA QueueTyped ==
  ASSUME RingInv
  PROVE  /\ Queue \in Seq(Byte \cup {NoByte})
         /\ Len(Queue) = Count
         /\ \A k \in 1..Count : Queue[k] = Cell(k)
<1>1. Count \in Nat
  BY CountFacts DEF RingInv, Index
<1>2. Queue = [k \in 1..Count |-> Cell(k)]
  BY DEF Queue, Count, Dist, Cell
<1>3. \A k \in 1..Count : Cell(k) \in Byte \cup {NoByte}
  BY <1>1, CellTyped
<1> QED
  BY <1>1, <1>2, <1>3

\* What is in the buffer after the writer, or the reader, has moved on by one.
LEMMA DistStep ==
  ASSUME NEW r \in Index, NEW w \in Index
  PROVE  /\ Succ(w) \in Index
         /\ Dist(r, w) < PIPESIZE => Dist(r, Succ(w)) = Dist(r, w) + 1
         /\ r # w => Dist(Succ(r), w) = Dist(r, w) - 1
<1>1. /\ Succ(w) = IF w = UINT - 1 THEN 0 ELSE w + 1
      /\ Succ(r) = IF r = UINT - 1 THEN 0 ELSE r + 1
  BY SuccFacts
<1>2. Succ(w) \in Index /\ Succ(r) \in Index
  BY <1>1, Sizes DEF Index
<1>3. /\ Dist(r, w) \in Index
      /\ r + Dist(r, w) = w \/ r + Dist(r, w) = w + UINT
  BY DistFacts
<1>4. /\ Dist(r, Succ(w)) \in Index
      /\ r + Dist(r, Succ(w)) = Succ(w) \/ r + Dist(r, Succ(w)) = Succ(w) + UINT
  BY <1>2, DistFacts
<1>5. /\ Dist(Succ(r), w) \in Index
      /\ Succ(r) + Dist(Succ(r), w) = w \/ Succ(r) + Dist(Succ(r), w) = w + UINT
  BY <1>2, DistFacts
<1>6. ASSUME Dist(r, w) < PIPESIZE PROVE Dist(r, Succ(w)) = Dist(r, w) + 1
  <2>1. CASE w = UINT - 1
    <3>1. Succ(w) = 0
      BY <1>1, <2>1, Zenon
    <3>2. r + Dist(r, w) = UINT - 1
      BY <1>3, <1>6, <2>1, Sizes DEF Index
    <3> QED
      BY <1>3, <1>4, <1>6, <3>1, <3>2, Sizes DEF Index
  <2>2. CASE w # UINT - 1
    <3>1. Succ(w) = w + 1
      BY <1>1, <2>2, Zenon
    <3> QED
      BY <1>3, <1>4, <1>6, <3>1, Sizes DEF Index
  <2> QED
    BY <2>1, <2>2, Zenon
<1>7. ASSUME r # w PROVE Dist(Succ(r), w) = Dist(r, w) - 1
  <2>1. CASE r = UINT - 1
    <3>1. Succ(r) = 0
      BY <1>1, <2>1
    <3>2. Dist(Succ(r), w) = w
      BY <1>5, <3>1, Sizes DEF Index
    <3> QED
      BY <1>3, <1>7, <2>1, <3>2, Sizes DEF Index
  <2>2. CASE r # UINT - 1
    <3>1. Succ(r) = r + 1
      BY <1>1, <2>2
    <3> QED
      BY <1>3, <1>5, <1>7, <3>1, Sizes DEF Index
  <2> QED
    BY <2>1, <2>2, Zenon
<1> QED
  BY <1>2, <1>6, <1>7, Zenon

LEMMA SeqEqual ==
  ASSUME NEW S, NEW s \in Seq(S), NEW t \in Seq(S), Len(s) = Len(t),
         \A k \in 1..Len(s) : s[k] = t[k]
  PROVE  s = t
OBVIOUS

LEMMA AppendAsFunction ==
  ASSUME NEW S, NEW s \in Seq(S), NEW b \in S
  PROVE  Append(s, b) = [k \in 1..Len(s) + 1 |-> IF k = Len(s) + 1 THEN b ELSE s[k]]
<1> DEFINE t == [k \in 1..Len(s) + 1 |-> IF k = Len(s) + 1 THEN b ELSE s[k]]
<1>1. /\ Append(s, b) \in Seq(S) /\ Len(Append(s, b)) = Len(s) + 1
      /\ \A k \in 1..Len(s) + 1 : Append(s, b)[k] = t[k]
  OBVIOUS
<1>2. t \in Seq(S) /\ Len(t) = Len(s) + 1
  OBVIOUS
<1> HIDE DEF t
<1>3. Append(s, b) = t
  BY <1>1, <1>2, SeqEqual, Zenon
<1> QED
  BY <1>3 DEF t

LEMMA TailAsFunction ==
  ASSUME NEW S, NEW s \in Seq(S), s # <<>>
  PROVE  Tail(s) = [k \in 1..Len(s) - 1 |-> s[k + 1]]
<1> DEFINE t == [k \in 1..Len(s) - 1 |-> s[k + 1]]
<1>1. /\ Tail(s) \in Seq(S) /\ Len(Tail(s)) = Len(s) - 1
      /\ \A k \in 1..Len(s) - 1 : Tail(s)[k] = t[k]
  OBVIOUS
<1>2. t \in Seq(S) /\ Len(t) = Len(s) - 1
  OBVIOUS
<1> HIDE DEF t
<1>3. Tail(s) = t
  BY <1>1, <1>2, SeqEqual, Zenon
<1> QED
  BY <1>3 DEF t

\* A byte put in is the last of the queue, and overwrites none that is in it.
LEMMA PutRefines ==
  ASSUME RingInv, NEW b \in Byte, ~Full,
         data' = [data EXCEPT ![nwrite % PIPESIZE] = b],
         nwrite' = Succ(nwrite), nread' = nread
  PROVE  RingInv' /\ Len(Queue) < PIPESIZE /\ Queue' = Append(Queue, b)
<1>1. nread \in Index /\ nwrite \in Index /\ nread \in Nat /\ nwrite \in Nat
  BY Sizes DEF RingInv, Index
<1>2. PICK n \in Nat : n = Count /\ n < PIPESIZE
  BY <1>1, CountFacts, Sizes DEF RingInv, Index
<1>3. nwrite' \in Index /\ Count' = n + 1
  BY <1>1, <1>2, DistStep, Zenon DEF Count
<1>4. nwrite % PIPESIZE \in 0..PIPESIZE - 1 /\ nwrite % PIPESIZE = (nread + n) % PIPESIZE
  <2>1. nread + n = nwrite \/ nread + n = nwrite + UINT
    BY <1>1, <1>2, CountFacts, Zenon
  <2>2. (nwrite + UINT) % PIPESIZE = nwrite % PIPESIZE
    BY <1>1, ModOfMultiple, PipeAssumption, Zenon
  <2> QED
    BY <1>1, <2>1, <2>2, ModRange, Sizes, Zenon
<1>5. RingInv'
  BY <1>1, <1>2, <1>3, <1>4, Sizes DEF RingInv
<1>6. \A k \in 1..n : Cell(k)' = Cell(k)
  <2> SUFFICES ASSUME NEW k \in 1..n PROVE Cell(k)' = Cell(k)
    OBVIOUS
  <2>1. /\ nread + k - 1 \in Nat /\ nread + n \in Nat
        /\ nread + k - 1 < nread + n /\ nread + n < nread + k - 1 + PIPESIZE
    BY <1>1, <1>2, Sizes
  <2>2. (nread + k - 1) % PIPESIZE # (nread + n) % PIPESIZE
    BY <2>1, ModDistinct, Sizes, Zenon
  <2>3. (nread + k - 1) % PIPESIZE \in 0..PIPESIZE - 1
    BY <2>1, ModRange, Sizes, Zenon
  <2> QED
    BY <1>4, <2>2, <2>3, Zenon DEF RingInv, Cell
<1>7. Cell(n + 1)' = b
  <2>1. nread + (n + 1) - 1 = nread + n
    BY <1>1
  <2> QED
    BY <1>4, <2>1 DEF RingInv, Cell
<1>8. /\ Queue \in Seq(Byte \cup {NoByte}) /\ Len(Queue) = n
      /\ \A k \in 1..n : Queue[k] = Cell(k)
  BY <1>2, QueueTyped, Zenon
<1>9. Queue' = [k \in 1..n + 1 |-> Cell(k)']
  BY <1>3, Zenon DEF Queue, Count, Dist, Cell
<1>10. Append(Queue, b) = [k \in 1..n + 1 |-> IF k = n + 1 THEN b ELSE Queue[k]]
  BY <1>8, AppendAsFunction
<1>11. \A k \in 1..n + 1 : Cell(k)' = IF k = n + 1 THEN b ELSE Queue[k]
  BY <1>6, <1>7, <1>8
<1> QED
  BY <1>2, <1>5, <1>8, <1>9, <1>10, <1>11, Zenon

\* The byte taken out is the first of the queue, the others keep their order.
LEMMA GetRefines ==
  ASSUME RingInv, ~Empty, data' = data, nwrite' = nwrite, nread' = Succ(nread),
         ch' = data[Slot(nread)]
  PROVE  RingInv' /\ Queue # <<>> /\ ch' = Head(Queue) /\ Queue' = Tail(Queue)
<1>1. nread \in Index /\ nwrite \in Index /\ nread \in Nat /\ nwrite \in Nat
  BY Sizes DEF RingInv, Index
<1>2. PICK n \in Nat : n = Count /\ n > 0 /\ n <= PIPESIZE
  BY <1>1, CountFacts, Sizes DEF RingInv, Index
<1>3. nread' \in Index /\ Count' = n - 1
  BY <1>1, <1>2, DistStep, Zenon DEF Count, Empty
<1>4. RingInv'
  BY <1>1, <1>2, <1>3, Sizes DEF RingInv
<1>5. /\ Queue \in Seq(Byte \cup {NoByte}) /\ Len(Queue) = n
      /\ \A k \in 1..n : Queue[k] = Cell(k)
  BY <1>2, QueueTyped, Zenon
<1>6. ch' = Head(Queue) /\ Queue # <<>>
  <2>1. Cell(1) = data[nread % PIPESIZE]
    <3>1. nread + 1 - 1 = nread
      BY <1>1
    <3> QED
      BY <3>1 DEF Cell
  <2> QED
    BY <1>2, <1>5, <2>1 DEF Slot
<1>7. ASSUME NEW k \in 1..n - 1 PROVE Cell(k)' = Cell(k + 1)
  <2>1. nread' + UINT = nread + 1 \/ nread' = nread + 1
    BY <1>1, SuccFacts, Sizes DEF Index
  <2>2. nread' + k - 1 \in Nat
    BY <1>3, Sizes DEF Index
  <2>3. (nread' + k - 1 + UINT) % PIPESIZE = (nread' + k - 1) % PIPESIZE
    BY <2>2, ModOfMultiple, PipeAssumption, ZenonT(30)
  <2>4. nread + (k + 1) - 1 = nread' + k - 1 \/ nread + (k + 1) - 1 = nread' + k - 1 + UINT
    BY <1>1, <1>3, <2>1, Sizes DEF Index
  <2> QED
    BY <2>3, <2>4, Zenon DEF Cell
<1>8. Queue' = [k \in 1..n - 1 |-> Cell(k)']
  BY <1>3 DEF Queue, Count, Dist, Cell
<1>9. Tail(Queue) = [k \in 1..n - 1 |-> Queue[k + 1]]
  BY <1>5, <1>6, TailAsFunction, Zenon
<1>10. \A k \in 1..n - 1 : Cell(k)' = Queue[k + 1]
  BY <1>2, <1>5, <1>7
<1> QED
  BY <1>4, <1>6, <1>8, <1>9, <1>10, Zenon

fvars == <<Queue, ch, readopen, writeopen>>

\* Steps that leave the buffer and its ends alone.
LEMMA Untouched ==
  ASSUME RingInv, UNCHANGED <<data, nread, nwrite, readopen, writeopen, ch>>
  PROVE  RingInv' /\ UNCHANGED fvars
BY DEF RingInv, Count, Dist, Queue, fvars

LEMMA NextRefines ==
  ASSUME IInv, RingInv, [Next]_vars
  PROVE  RingInv' /\ [F!Next]_fvars
<1>1. ASSUME NEW p \in Procs, Write(p) PROVE RingInv' /\ [F!Next]_fvars
  <2>1. CASE UNCHANGED pipe
    BY <2>1, Untouched DEF pipe
  <2>2. ASSUME NEW b \in Byte, ~Full, data' = [data EXCEPT ![nwrite % PIPESIZE] = b],
               nwrite' = Succ(nwrite), UNCHANGED <<nread, readopen, writeopen, ch>>
        PROVE  RingInv' /\ [F!Next]_fvars
    <3>1. writeopen
      BY <1>1 DEF Write, IInv, CallerInv, EndInv, WriteLabels
    <3>2. RingInv' /\ F!Put(b)
      BY <2>2, <3>1, PutRefines, Zenon DEF F!Put
    <3> QED
      BY <3>2, Zenon DEF F!Next
  <2> QED
    BY <1>1, <2>1, <2>2, Zenon DEF Write
<1>2. ASSUME NEW p \in Procs, Read(p) PROVE RingInv' /\ [F!Next]_fvars
  <2>1. CASE UNCHANGED pipe
    BY <2>1, Untouched DEF pipe
  <2>2. CASE /\ ~Empty /\ ch' = data[Slot(nread)] /\ nread' = Succ(nread)
             /\ UNCHANGED <<data, nwrite, readopen, writeopen>>
    <3>1. readopen
      BY <1>2, Zenon DEF Read, IInv, CallerInv, EndInv, ReadLabels
    <3>2. RingInv' /\ F!Get
      BY <2>2, <3>1, GetRefines, Zenon DEF F!Get
    <3> QED
      BY <3>2, Zenon DEF F!Next
  <2> QED
    BY <1>2, <2>1, <2>2, Zenon DEF Read
<1>3. ASSUME NEW p \in Procs, PipeClose(p) PROVE RingInv' /\ [F!Next]_fvars
  <2>1. RingInv' /\ Queue' = Queue /\ ch' = ch
    BY <1>3, Zenon DEF PipeClose, RingInv, Count, Dist, Queue
  <2>2. F!CloseRead \/ F!CloseWrite
    BY <1>3, <2>1, Zenon DEF PipeClose, F!CloseRead, F!CloseWrite
  <2> QED
    BY <2>1, <2>2, Zenon DEF F!Next
<1>4. ASSUME NEW p \in Procs,
             Acquire(p) \/ WriteSleep(p) \/ ReadWait(p) \/ ReadSleep(p) \/ Kill(p)
      PROVE  RingInv' /\ [F!Next]_fvars
  <2>1. UNCHANGED pipe
    BY <1>4, Zenon DEF Acquire, WriteSleep, ReadWait, ReadSleep, Kill
  <2> QED
    BY <2>1, Untouched, Zenon DEF pipe
<1>5. ASSUME NEW p \in Procs, NEW e \in Ends,
             Close(p, e) \/ \E size \in 1..MaxN : Enter(p, e, size)
      PROVE  RingInv' /\ [F!Next]_fvars
  BY <1>5, Untouched, Zenon DEF Close, Enter, pipe
<1>6. CASE UNCHANGED vars
  BY <1>6, Untouched, Zenon DEF vars
<1> QED
  BY <1>1, <1>2, <1>3, <1>4, <1>5, <1>6, Zenon DEF Next, Step

LEMMA InitRefines == Init => RingInv /\ F!Init
<1> SUFFICES ASSUME Init PROVE RingInv /\ F!Init
  OBVIOUS
<1>1. Count = 0 /\ nread \in Index /\ nwrite \in Index
  <2>1. nread \in Index /\ nwrite \in Index /\ Empty
    BY Sizes DEF Init, Index, Empty
  <2> QED
    BY <2>1, CountFacts, Zenon
<1>2. RingInv
  BY <1>1, Sizes DEF Init, RingInv
<1>3. Queue = <<>>
  BY <1>1, <1>2, QueueTyped
<1> QED
  BY <1>2, <1>3 DEF Init, F!Init

\* pipe.c implements a bounded queue of bytes: for every PIPESIZE and every width
\* of nread and nwrite that it divides, pipewrite() overwrites no unread byte and
\* piperead() returns the oldest one, wrap-around of the counters included.
THEOREM PipeRefinesFifo == Spec => IsFifo
<1>1. Init => RingInv /\ F!Init
  BY InitRefines
<1>2. IInv /\ RingInv /\ [Next]_vars => RingInv' /\ [F!Next]_fvars
  BY NextRefines
<1> QED
  BY <1>1, <1>2, Invariance, PTL DEF Spec, IsFifo, F!Spec, fvars

----------------------------------------------------------------------------
(* The history: sequences of anything *)

IsSeq(s) == \E S : s \in Seq(S)

LEMMA AppendFacts ==
  ASSUME NEW s, IsSeq(s), NEW x
  PROVE  /\ IsSeq(Append(s, x)) /\ Len(s) \in Nat /\ Len(Append(s, x)) = Len(s) + 1
         /\ \A i \in 1..Len(s) : Append(s, x)[i] = s[i]
         /\ Append(s, x)[Len(s) + 1] = x
<1>1. PICK S : s \in Seq(S)
  BY DEF IsSeq
<1>2. s \in Seq(S \cup {x})
  BY <1>1
<1>3. Append(s, x) \in Seq(S \cup {x})
  BY <1>2
<1>4. IsSeq(Append(s, x))
  BY <1>3, Zenon DEF IsSeq
<1> QED
  BY <1>2, <1>4

LEMMA TailFacts ==
  ASSUME NEW s, IsSeq(s), Len(s) > 0
  PROVE  /\ IsSeq(Tail(s)) /\ Len(s) \in Nat /\ Len(Tail(s)) = Len(s) - 1
         /\ \A i \in 1..Len(s) - 1 : Tail(s)[i] = s[i + 1]
<1>1. PICK S : s \in Seq(S)
  BY DEF IsSeq
<1>2. Tail(s) \in Seq(S)
  BY <1>1
<1>3. IsSeq(Tail(s))
  BY <1>2, Zenon DEF IsSeq
<1> QED
  BY <1>1, <1>3

LEMMA NoneFact == IsSeq(<<>>) /\ Len(<<>>) = 0
BY DEF IsSeq

LEMMA LenFact ==
  ASSUME NEW s, IsSeq(s)
  PROVE  Len(s) \in Nat /\ DOMAIN s = 1..Len(s)
BY DEF IsSeq

----------------------------------------------------------------------------
(* The history: its invariant *)

Entry(r, n) == [num |-> n, text |-> Stored(r[n])]

LEMMA EntryFields ==
  ASSUME NEW r, NEW n
  PROVE  Entry(r, n).num = n /\ Entry(r, n).text = Stored(r[n])
BY DEF Entry

\* h is what is kept of the lines r: the latest ones, at most MAX_HISTORY_LEN, each
\* under the number it was entered with.
Keeps(h, r) ==
  /\ IsSeq(h) /\ IsSeq(r)
  /\ Len(h) = IF Len(r) < MAX_HISTORY_LEN THEN Len(r) ELSE MAX_HISTORY_LEN
  /\ \A k \in 1..Len(h) : h[k] = Entry(r, Len(r) - Len(h) + k)

HInv ==
  /\ Keeps(history, recorded)
  /\ history_index = Len(recorded) + 1
  /\ RecallsByNumber

\* history_add(): the list is full exactly when the next number exceeds its length.
LEMMA AddKeeps ==
  ASSUME Keeps(history, recorded), history_index = Len(recorded) + 1, NEW l, Add(l)
  PROVE  Keeps(history', recorded') /\ history_index' = Len(recorded') + 1
<1> DEFINE h == history
           r == recorded
           e == [num |-> history_index, text |-> Stored(l)]
           p == Append(h, e)
           q == Append(r, l)
<1>1. /\ IsSeq(h) /\ IsSeq(r)
      /\ Len(h) = IF Len(r) < MAX_HISTORY_LEN THEN Len(r) ELSE MAX_HISTORY_LEN
      /\ \A k \in 1..Len(h) : h[k] = Entry(r, Len(r) - Len(h) + k)
  BY Zenon DEF Keeps
<1>2. /\ IsSeq(q) /\ Len(r) \in Nat /\ Len(q) = Len(r) + 1
      /\ \A i \in 1..Len(r) : q[i] = r[i]
      /\ q[Len(r) + 1] = l
  BY <1>1, AppendFacts, Zenon
<1>3. /\ IsSeq(p) /\ Len(h) \in Nat /\ Len(p) = Len(h) + 1
      /\ \A i \in 1..Len(h) : p[i] = h[i]
      /\ p[Len(h) + 1] = e
  BY <1>1, AppendFacts, Zenon
<1>4. /\ history' = IF history_index > MAX_HISTORY_LEN THEN Tail(p) ELSE p
      /\ history_index' = history_index + 1 /\ recorded' = q
  BY Zenon DEF Add, Overfull
<1>5. MAX_HISTORY_LEN \in Nat \ {0}
  BY HistoryAssumption
<1> HIDE DEF p, q
<1>6. \A n \in 1..Len(r) : Entry(q, n) = Entry(r, n)
  BY <1>2, Zenon DEF Entry
<1>7. e = Entry(q, Len(r) + 1)
  BY <1>2, Zenon DEF Entry
<1> HIDE DEF e
<1>8. \A k \in 1..Len(p) : p[k] = Entry(q, Len(q) - Len(p) + k)
  <2> SUFFICES ASSUME NEW k \in 1..Len(p) PROVE p[k] = Entry(q, Len(q) - Len(p) + k)
    OBVIOUS
  <2>1. CASE k = Len(h) + 1
    <3>1. Len(q) - Len(p) + k = Len(r) + 1
      BY <1>2, <1>3, <2>1
    <3> QED
      BY <1>3, <1>7, <2>1, <3>1, Zenon
  <2>2. CASE k \in 1..Len(h)
    <3>1. Len(q) - Len(p) + k = Len(r) - Len(h) + k /\ Len(r) - Len(h) + k \in 1..Len(r)
      BY <1>1, <1>2, <1>3, <1>5, <2>2
    <3> QED
      BY <1>1, <1>3, <1>6, <2>2, <3>1, Zenon
  <2> QED
    BY <1>3, <2>1, <2>2
<1>9. CASE history_index > MAX_HISTORY_LEN
  <2> DEFINE w == Tail(p)
  <2>1. /\ IsSeq(w) /\ Len(w) = Len(h)
        /\ \A i \in 1..Len(h) : w[i] = p[i + 1]
    <3>1. Len(p) > 0 /\ Len(p) - 1 = Len(h)
      BY <1>3
    <3> QED
      BY <1>3, <3>1, TailFacts, Zenon
  <2> HIDE DEF w
  <2>2. Len(h) = MAX_HISTORY_LEN /\ ~(Len(q) < MAX_HISTORY_LEN)
    BY <1>1, <1>2, <1>5, <1>9
  <2>3. ASSUME NEW k \in 1..Len(w) PROVE w[k] = Entry(q, Len(q) - Len(w) + k)
    <3>1. k \in 1..Len(h) /\ k + 1 \in 1..Len(p) /\ Len(q) - Len(p) + (k + 1) = Len(q) - Len(w) + k
      BY <1>2, <1>3, <2>1
    <3> QED
      BY <1>8, <2>1, <3>1, Zenon
  <2>4. Keeps(w, q)
    BY <1>2, <2>1, <2>2, <2>3, Zenon DEF Keeps
  <2>5. history' = w
    BY <1>4, <1>9, Zenon DEF w
  <2> QED
    BY <1>2, <1>4, <2>4, <2>5, Zenon
<1>10. CASE ~(history_index > MAX_HISTORY_LEN)
  <2>1. Len(p) = IF Len(q) < MAX_HISTORY_LEN THEN Len(q) ELSE MAX_HISTORY_LEN
    BY <1>1, <1>2, <1>3, <1>5, <1>10
  <2>2. Keeps(p, q)
    BY <1>2, <1>3, <1>8, <2>1, Zenon DEF Keeps
  <2>3. history' = p
    BY <1>4, <1>10, Zenon
  <2> QED
    BY <1>2, <1>4, <2>2, <2>3, Zenon
<1> QED
  BY <1>9, <1>10

----------------------------------------------------------------------------
(* The history: what a recall finds *)

Kept == {k \in DOMAIN recorded : k + MAX_HISTORY_LEN > Len(recorded)}

\* history_run(): a number is in the list exactly when its line is kept.
LEMMA FoundKept ==
  ASSUME Keeps(history, recorded), NEW n
  PROVE  /\ n \in Kept => \E k \in DOMAIN history : Found(k, n)
         /\ \A k \in DOMAIN history :
              Found(k, n) => n \in Kept /\ history[k].text = Stored(recorded[n])
<1> DEFINE h == history
           r == recorded
           d == Len(r) - Len(h)
<1>1. /\ IsSeq(h) /\ IsSeq(r)
      /\ Len(h) = IF Len(r) < MAX_HISTORY_LEN THEN Len(r) ELSE MAX_HISTORY_LEN
      /\ \A k \in 1..Len(h) : h[k] = Entry(r, d + k)
  BY Zenon DEF Keeps
<1>2. /\ Len(h) \in Nat /\ DOMAIN h = 1..Len(h)
      /\ Len(r) \in Nat /\ DOMAIN r = 1..Len(r)
  BY <1>1, LenFact, Zenon
<1>3. d \in Nat /\ \A k \in Nat : (k \in 1..Len(r) /\ k + MAX_HISTORY_LEN > Len(r)) <=> k \in d + 1..Len(r)
  BY <1>1, <1>2, HistoryAssumption
<1>4. \A k \in 1..Len(h) : h[k].num = d + k /\ h[k].text = Stored(r[d + k])
  <2> SUFFICES ASSUME NEW k \in 1..Len(h) PROVE h[k].num = d + k /\ h[k].text = Stored(r[d + k])
    OBVIOUS
  <2>1. h[k] = Entry(r, d + k)
    BY <1>1, Zenon
  <2>2. Entry(r, d + k).num = d + k /\ Entry(r, d + k).text = Stored(r[d + k])
    BY EntryFields, Zenon
  <2> QED
    BY <2>1, <2>2, Zenon
<1>5. ASSUME n \in Kept PROVE \E k \in DOMAIN h : Found(k, n)
  <2>1. n \in 1..Len(r) /\ n + MAX_HISTORY_LEN > Len(r)
    BY <1>2, <1>5, Zenon DEF Kept
  <2>2. n - d \in 1..Len(h) /\ d + (n - d) = n
    BY <1>2, <1>3, <2>1
  <2> QED
    BY <1>2, <1>4, <2>2, Zenon DEF Found
<1>6. ASSUME NEW k \in DOMAIN h, Found(k, n)
      PROVE  n \in Kept /\ h[k].text = Stored(r[n])
  <2>1. k \in 1..Len(h) /\ n = d + k /\ h[k].text = Stored(r[d + k])
    BY <1>2, <1>4, <1>6, Zenon DEF Found
  <2>2. n \in 1..Len(r) /\ n + MAX_HISTORY_LEN > Len(r)
    BY <1>2, <1>3, <2>1
  <2> QED
    BY <1>2, <2>1, <2>2, Zenon DEF Kept
<1> QED
  BY <1>5, <1>6, Zenon

LEMMA RecallKeeps ==
  ASSUME Keeps(history, recorded), NEW l, Recall(l)
  PROVE  RecallsByNumber'
<1> DEFINE n == atoi(Tail(typed'))
<1>1. UNCHANGED <<history, recorded>> /\ typed' = Cmd(l)
  BY Zenon DEF Recall
<1> SUFFICES ASSUME Starts(typed', "!"), Len(typed') > 1, IsDigit(typed'[2])
             PROVE  ran' = IF n \in Kept THEN Executed(Stored(recorded[n])) ELSE NotRun
  BY <1>1, Zenon DEF RecallsByNumber, Kept
<1>2. Cmd(l) # <<"!", "!">>
  BY <1>1 DEF IsDigit, Digits
<1>3. \/ \E k \in DOMAIN history : Found(k, n) /\ Again(k)
      \/ (\A k \in DOMAIN history : ~Found(k, n)) /\ Nothing
  BY <1>1, <1>2, Zenon DEF Recall
<1> HIDE DEF n
<1>4. CASE \E k \in DOMAIN history : Found(k, n) /\ Again(k)
  <2>1. PICK k \in DOMAIN history : Found(k, n) /\ Again(k)
    BY <1>4
  <2>2. ran' = Executed(history[k].text)
    BY <2>1, Zenon DEF Again, Run
  <2> QED
    BY <2>1, <2>2, FoundKept, Zenon
<1>5. CASE (\A k \in DOMAIN history : ~Found(k, n)) /\ Nothing
  <2>1. ran' = NotRun
    BY <1>5, Zenon DEF Nothing
  <2> QED
    BY <1>5, <2>1, FoundKept, Zenon
<1> QED
  BY <1>3, <1>4, <1>5, Zenon

----------------------------------------------------------------------------
(* The history: every turn *)

LEMMA InitHInv == HistoryInit => HInv
<1> SUFFICES ASSUME HistoryInit PROVE HInv
  OBVIOUS
<1>1. Keeps(history, recorded) /\ history_index = Len(recorded) + 1
  BY NoneFact, HistoryAssumption DEF HistoryInit, Keeps
<1>2. RecallsByNumber
  BY Zenon DEF HistoryInit, RecallsByNumber, Starts
<1> QED
  BY <1>1, <1>2, Zenon DEF HInv

LEMMA NextHInv == HInv /\ [HistoryNext]_historyVars => HInv'
<1> SUFFICES ASSUME HInv, [HistoryNext]_historyVars PROVE HInv'
  OBVIOUS
<1>0. /\ Keeps(history, recorded) /\ history_index = Len(recorded) + 1
      /\ RecallsByNumber
  BY Zenon DEF HInv
<1>1. ASSUME UNCHANGED <<history, history_index, ran, typed, recorded>> PROVE HInv'
  BY <1>0, <1>1, Zenon DEF HInv, RecallsByNumber
<1>2. ASSUME UNCHANGED <<history, history_index, recorded>>, RecallsByNumber' PROVE HInv'
  BY <1>0, <1>2, Zenon DEF HInv
<1>3. ASSUME ~Starts(typed', "!") PROVE RecallsByNumber'
  BY <1>3, Zenon DEF RecallsByNumber
<1>4. ASSUME NEW l, Blank(l) PROVE HInv'
  <2>1. ~Starts(typed', "!")
    BY <1>4 DEF Blank, Starts, NL
  <2> QED
    BY <1>2, <1>3, <1>4, <2>1, Zenon DEF Blank
<1>5. ASSUME NEW l, Show(l) PROVE HInv'
  <2>1. typed' = <<"history", NL>>
    BY <1>5, Zenon DEF Show
  <2>2. ~Starts(typed', "!")
    BY <2>1 DEF Starts
  <2> QED
    BY <1>2, <1>3, <1>5, <2>2, Zenon DEF Show
<1>6. ASSUME NEW l, Recall(l) PROVE HInv'
  BY <1>0, <1>2, <1>6, RecallKeeps, Zenon DEF Recall
<1>7. ASSUME NEW l, Execute(l) PROVE HInv'
  <2>1. Add(Cmd(l)) /\ typed' = Cmd(l) /\ ~Starts(Cmd(l), "!")
    BY <1>7, Zenon DEF Execute
  <2>2. RecallsByNumber'
    BY <1>3, <2>1, Zenon
  <2>3. Keeps(history', recorded') /\ history_index' = Len(recorded') + 1
    BY <1>0, <2>1, AddKeeps, Zenon
  <2> QED
    BY <2>2, <2>3, Zenon DEF HInv
<1>8. ASSUME Leave PROVE HInv'
  BY <1>1, <1>8, Zenon DEF Leave
<1>9. CASE UNCHANGED historyVars
  BY <1>1, <1>9, Zenon DEF historyVars
<1> QED
  BY <1>4, <1>5, <1>6, <1>7, <1>8, <1>9, Zenon DEF HistoryNext, Turn

\* history_add() and history_run(), sh.c: after any number of lines, the list holds
\* the latest MAX_HISTORY_LEN of them, or all, oldest first, each with the number it
\* was entered under, and the next number is one more than the lines entered.
THEOREM ListKeepsLatest == HistorySpec => []HInv
<1> QED
  BY InitHInv, NextHInv, PTL DEF HistorySpec

\* history_run(), sh.c: "!n" runs what history_add() stored under number n, the
\* command of line n without its last character, if the line is one of the latest
\* MAX_HISTORY_LEN, and nothing otherwise: for every length of the list, every
\* session and every number.
THEOREM NumbersRecallStoredLines == HistorySpec => []RecallsByNumber
<1>1. HInv => RecallsByNumber
  BY Zenon DEF HInv
<1> QED
  BY <1>1, ListKeepsLatest, PTL
=============================================================================
