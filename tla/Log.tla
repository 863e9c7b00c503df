-------------------------------- MODULE Log --------------------------------
(***************************************************************************)
(* The redo log of kernel/log.c, the buffer cache as the log uses it, and  *)
(* the disk below both.  File system calls run between begin_op() and      *)
(* end_op(); the last end_op() commits the updates of all of them.  Every  *)
(* disk write is a step of its own and the machine may crash between any   *)
(* two of them, also while it recovers from the previous crash.            *)
(***************************************************************************)
EXTENDS Integers, Sequences, FiniteSets

CONSTANTS
  Blocks,       \* home blocks that the file system writes
  Vals,         \* contents of a block
  InitVal,      \* what mkfs leaves in every block
  NoVal,        \* "not in the buffer cache"
  Procs,        \* processes that make file system calls
  MAXOPBLOCKS,  \* param.h: most blocks one call writes, what begin_op() reserves
  LOGBLOCKS,    \* param.h: data blocks in the on-disk log
  OpBlocks      \* most different blocks that a call of this kernel does write

ASSUME ValsAssumption == InitVal \in Vals /\ NoVal \notin Vals
ASSUME ProcsAssumption == IsFiniteSet(Procs)
ASSUME SizesAssumption ==
  /\ MAXOPBLOCKS \in Nat \ {0} /\ LOGBLOCKS \in Nat \ {0}
  /\ OpBlocks \in 0..MAXOPBLOCKS

VARIABLES
  home,         \* disk: the home location of each block
  dlog,         \* disk: the log's data blocks
  dhead,        \* disk: the log header, the block numbers 1..n
  buf,          \* buffer cache: contents of a cached block, or NoVal
  pin,          \* buffer cache: references held by bpin()
  lh,           \* log.lh: block numbers logged in memory
  outstanding,  \* log.outstanding
  committing,   \* log.committing
  pc,           \* where each process is in its file system call
  wrote,        \* blocks written by the current call of a process
  phase,        \* what commit() or recover_from_log() does next
  tail,         \* loop index of write_log() and install_trans()
  panicked      \* panic() was called; only a reboot helps

disk == <<home, dlog, dhead>>
ops == <<pc, wrote>>
vars == <<home, dlog, dhead, buf, pin, lh, outstanding, committing, pc, wrote,
          phase, tail, panicked>>

CommitPhases == {"write_log", "write_head", "install", "clear", "done"}
BootPhases == {"read_head", "recover", "rec_clear"}
Up == phase \notin BootPhases

Logged(hd) == {hd[i] : i \in 1..Len(hd)}

\* What bread() of block b returns: the cached copy, else the disk's.
Cached(b) == IF buf[b] # NoVal THEN buf[b] ELSE home[b]

\* A machine just after boot, on the disk mkfs made: recovery starts.
Init ==
  /\ home = [b \in Blocks |-> InitVal]
  /\ dlog = [i \in 1..LOGBLOCKS |-> InitVal]
  /\ dhead = <<>>
  /\ buf = [b \in Blocks |-> NoVal]
  /\ pin = [b \in Blocks |-> 0]
  /\ lh = <<>>
  /\ outstanding = 0
  /\ committing = FALSE
  /\ pc = [p \in Procs |-> "idle"]
  /\ wrote = [p \in Procs |-> {}]
  /\ phase = "read_head"
  /\ tail = 0
  /\ panicked = FALSE

----------------------------------------------------------------------------
(* begin_op() *)

\* Mutant: the call that is being admitted is not counted.
HasRoomUncounted ==
  Len(lh) + outstanding * MAXOPBLOCKS <= LOGBLOCKS

HasRoom ==
  Len(lh) + (outstanding + 1) * MAXOPBLOCKS <= LOGBLOCKS

\* Mutant: calls are admitted while a commit is under way.
MayBeginAnytime == HasRoom

MayBegin == ~committing /\ HasRoom

BeginOp(p) ==
  /\ Up
  /\ pc[p] \in {"idle", "begin"}
  /\ IF MayBegin
     THEN /\ outstanding' = outstanding + 1
          /\ pc' = [pc EXCEPT ![p] = "op"]
     ELSE /\ pc' = [pc EXCEPT ![p] = "sleep"]
          /\ UNCHANGED outstanding
  /\ UNCHANGED <<disk, buf, pin, lh, committing, wrote, phase, tail, panicked>>

----------------------------------------------------------------------------
(* log_write(), with the caller's bread(), modification and brelse().  The *)
(* caller holds the buffer's sleep-lock from bread() to brelse(), so no    *)
(* other process sees the buffer in between.  A call may write a block as  *)
(* often as it likes (itrunc() writes a bitmap block once per freed block, *)
(* writei() a new block twice): only its different blocks are bounded.     *)
(* The check for space comes before the search of the log, so a full log   *)
(* panics also for a block that it already holds.                          *)

\* Mutant: a new block is not pinned in the cache.
AddBlockUnpinned(b) ==
  /\ lh' = Append(lh, b)
  /\ UNCHANGED pin

AddBlock(b) ==
  /\ lh' = Append(lh, b)
  /\ pin' = [pin EXCEPT ![b] = @ + 1]

\* Mutant: the log is not searched for the block.
AbsorbsNever(b) == FALSE

Absorbs(b) == b \in Logged(lh)

LogWrite(p, b, v) ==
  /\ Up
  /\ pc[p] = "op"
  /\ Cardinality(wrote[p] \cup {b}) <= OpBlocks
  /\ buf' = [buf EXCEPT ![b] = v]
  /\ wrote' = [wrote EXCEPT ![p] = @ \cup {b}]
  /\ IF Len(lh) >= LOGBLOCKS \/ outstanding < 1
     THEN panicked' = TRUE /\ UNCHANGED <<lh, pin>>
     ELSE /\ IF Absorbs(b) THEN UNCHANGED <<lh, pin>> ELSE AddBlock(b)
          /\ UNCHANGED panicked
  /\ UNCHANGED <<disk, outstanding, committing, pc, phase, tail>>

----------------------------------------------------------------------------
(* end_op() *)

\* pc after wakeup(&log): the processes asleep in begin_op() go on.
WakeLog(f) == [q \in Procs |-> IF f[q] = "sleep" THEN "begin" ELSE f[q]]

EndOp(p) ==
  /\ Up
  /\ pc[p] = "op"
  /\ outstanding' = outstanding - 1
  /\ IF committing
     THEN panicked' = TRUE /\ UNCHANGED <<committing, pc, phase, tail>>
     ELSE /\ IF outstanding' = 0
             THEN /\ committing' = TRUE
                  /\ pc' = [pc EXCEPT ![p] = "commit"]
                  /\ phase' = IF lh # <<>> THEN "write_log" ELSE "done"
                  /\ tail' = 0
             ELSE /\ pc' = WakeLog([pc EXCEPT ![p] = "idle"])
                  /\ UNCHANGED <<committing, phase, tail>>
          /\ UNCHANGED panicked
  /\ wrote' = [wrote EXCEPT ![p] = {}]
  /\ UNCHANGED <<disk, buf, pin, lh>>

\* Mutant: end_op() does not wake the processes that wait for the commit.
CommitDoneSilently ==
  /\ phase = "done"
  /\ phase' = "idle"
  /\ committing' = FALSE
  /\ pc' = [q \in Procs |-> IF pc[q] = "commit" THEN "idle" ELSE pc[q]]
  /\ UNCHANGED <<disk, buf, pin, lh, outstanding, wrote, tail, panicked>>

\* end_op() after commit() returned.
CommitDone ==
  /\ phase = "done"
  /\ phase' = "idle"
  /\ committing' = FALSE
  /\ pc' = WakeLog([q \in Procs |-> IF pc[q] = "commit" THEN "idle" ELSE pc[q]])
  /\ UNCHANGED <<disk, buf, pin, lh, outstanding, wrote, tail, panicked>>

----------------------------------------------------------------------------
(* commit(): one disk write per step *)

WriteLog ==
  /\ phase = "write_log"
  /\ dlog' = [dlog EXCEPT ![tail + 1] = Cached(lh[tail + 1])]
  /\ buf' = [buf EXCEPT ![lh[tail + 1]] = Cached(lh[tail + 1])]
  /\ tail' = tail + 1
  /\ phase' = IF tail + 1 = Len(lh) THEN "write_head" ELSE "write_log"
  /\ UNCHANGED <<home, dhead, pin, lh, outstanding, committing, ops, panicked>>

WriteHead ==
  /\ phase = "write_head"
  /\ dhead' = lh
  /\ tail' = 0
  /\ phase' = "install"
  /\ UNCHANGED <<home, dlog, buf, pin, lh, outstanding, committing, ops, panicked>>

\* The body of install_trans(): one log block copied to its home location.
InstallBlock(b) ==
  /\ home' = [home EXCEPT ![b] = dlog[tail + 1]]
  /\ buf' = [buf EXCEPT ![b] = dlog[tail + 1]]
  /\ tail' = tail + 1

Unpin(b) == pin' = [pin EXCEPT ![b] = @ - 1]

Install ==
  /\ phase = "install"
  /\ InstallBlock(lh[tail + 1])
  /\ Unpin(lh[tail + 1])
  /\ phase' = IF tail + 1 = Len(lh) THEN "clear" ELSE "install"
  /\ UNCHANGED <<dlog, dhead, lh, outstanding, committing, ops, panicked>>

\* log.lh.n = 0; write_head()
EraseLog ==
  /\ lh' = <<>>
  /\ dhead' = <<>>
  /\ tail' = 0

Clear ==
  /\ phase = "clear"
  /\ EraseLog
  /\ phase' = "done"
  /\ UNCHANGED <<home, dlog, buf, pin, outstanding, committing, ops, panicked>>

----------------------------------------------------------------------------
(* Crash, and recover_from_log() at the next boot *)

Crash ==
  /\ buf' = [b \in Blocks |-> NoVal]
  /\ pin' = [b \in Blocks |-> 0]
  /\ lh' = <<>>
  /\ outstanding' = 0
  /\ committing' = FALSE
  /\ pc' = [p \in Procs |-> "idle"]
  /\ wrote' = [p \in Procs |-> {}]
  /\ phase' = "read_head"
  /\ tail' = 0
  /\ panicked' = FALSE
  /\ UNCHANGED disk

ReadHead ==
  /\ phase = "read_head"
  /\ lh' = dhead
  /\ tail' = 0
  /\ phase' = IF dhead # <<>> THEN "recover" ELSE "rec_clear"
  /\ UNCHANGED <<disk, buf, pin, outstanding, committing, ops, panicked>>

Recover ==
  /\ phase = "recover"
  /\ InstallBlock(lh[tail + 1])
  /\ phase' = IF tail + 1 = Len(lh) THEN "rec_clear" ELSE "recover"
  /\ UNCHANGED <<dlog, dhead, pin, lh, outstanding, committing, ops, panicked>>

RecClear ==
  /\ phase = "rec_clear"
  /\ EraseLog
  /\ phase' = "idle"
  /\ UNCHANGED <<home, dlog, buf, pin, outstanding, committing, ops, panicked>>

----------------------------------------------------------------------------
(* The buffer cache around the log: a process that only reads brings a     *)
(* block in, and bget() recycles a buffer nobody references.               *)

Bread(b) ==
  /\ Up
  /\ buf[b] = NoVal
  /\ buf' = [buf EXCEPT ![b] = home[b]]
  /\ UNCHANGED <<disk, pin, lh, outstanding, committing, ops, phase, tail, panicked>>

Recycle(b) ==
  /\ pin[b] = 0
  /\ buf[b] # NoVal
  /\ buf' = [buf EXCEPT ![b] = NoVal]
  /\ UNCHANGED <<disk, pin, lh, outstanding, committing, ops, phase, tail, panicked>>

CommitStep == WriteLog \/ WriteHead \/ Install \/ Clear \/ CommitDone

RecoveryStep == ReadHead \/ Recover \/ RecClear

Running ==
  /\ ~panicked
  /\ \/ \E p \in Procs : BeginOp(p) \/ EndOp(p)
     \/ \E p \in Procs, b \in Blocks, v \in Vals : LogWrite(p, b, v)
     \/ CommitStep
     \/ RecoveryStep
     \/ \E b \in Blocks : Bread(b) \/ Recycle(b)

Next == Running \/ Crash

Spec == Init /\ [][Next]_vars

\* end_op() is called by every file system call, begin_op() goes on once it is
\* woken, and commit() and recover_from_log() run to their end.
Fairness ==
  /\ \A p \in Procs : WF_vars(~panicked /\ EndOp(p))
  /\ \A p \in Procs : WF_vars(~panicked /\ pc[p] = "begin" /\ BeginOp(p))
  /\ WF_vars(~panicked /\ CommitStep)
  /\ WF_vars(~panicked /\ RecoveryStep)

FairSpec == Spec /\ Fairness

----------------------------------------------------------------------------
(* Properties *)

\* The variables keep their types; in particular neither log.outstanding nor a
\* buffer's reference count ever becomes negative, and log.lh and the header on
\* disk never name more blocks than the log holds.
TypeOK ==
  /\ home \in [Blocks -> Vals]
  /\ dlog \in [1..LOGBLOCKS -> Vals]
  /\ dhead \in Seq(Blocks) /\ Len(dhead) <= LOGBLOCKS
  /\ buf \in [Blocks -> Vals \cup {NoVal}]
  /\ pin \in [Blocks -> Nat]
  /\ lh \in Seq(Blocks) /\ Len(lh) <= LOGBLOCKS
  /\ outstanding \in Nat
  /\ committing \in BOOLEAN
  /\ pc \in [Procs -> {"idle", "begin", "sleep", "op", "commit"}]
  /\ wrote \in [Procs -> SUBSET Blocks]
  /\ phase \in {"idle"} \cup CommitPhases \cup BootPhases
  /\ tail \in 0..LOGBLOCKS
  /\ panicked \in BOOLEAN

\* What a reboot would find: the home blocks, overwritten by the log's blocks
\* when the header on disk says that they are committed.
IndexOf(hd, b) == CHOOSE i \in 1..Len(hd) : hd[i] = b

Recovered ==
  [b \in Blocks |-> IF b \in Logged(dhead) THEN dlog[IndexOf(dhead, b)] ELSE home[b]]

\* What running file system calls see.
Current == IF Up THEN [b \in Blocks |-> Cached(b)] ELSE Recovered

Active == {p \in Procs : pc[p] = "op"}

\* The reservation made by begin_op() is enough: however many calls run
\* concurrently and however often each writes its blocks, whatever a call wrote
\* is in the log, so a block that is new to the log has always found room.  The
\* one check of log.c that can fail is "too big a transaction", and only when the
\* calls use up the reservation to the last block, so that a block of a log that
\* is exactly full is written again.
RoomReserved ==
  /\ \A p \in Active : wrote[p] \subseteq Logged(lh)
  /\ panicked => OpBlocks = MAXOPBLOCKS /\ Len(lh) = LOGBLOCKS /\ Active # {}

TD == INSTANCE TxnDisk WITH durable <- Recovered, current <- Current, active <- Active

\* log.c implements a disk with atomic groups of calls: in every interleaving of
\* calls, commits, crashes and recoveries, what a reboot would find changes only
\* at one disk write, while no call is active, and to exactly what the calls
\* have written; recovery, wherever it was interrupted, changes nothing.
AtomicGroups == TD!Spec

\* "Log appends are synchronous": when the last end_op() returns, everything the
\* group wrote survives a crash.
CommitIsDurable ==
  [][committing /\ ~committing' /\ phase' = "idle" => Recovered' = Current]_vars

\* The blocks of log.lh that install_trans() has not reached.
Uninstalled ==
  {lh[i] : i \in (IF phase \in {"install", "clear"} THEN tail ELSE 0) + 1..Len(lh)}

\* A block is pinned in the cache exactly while the log refers to it and it has
\* not been installed, and log.lh names it once (absorption): otherwise bget()
\* could recycle the only copy of an update, or never recycle a buffer again.
PinnedWhileLogged ==
  /\ \A i, j \in 1..Len(lh) : lh[i] = lh[j] => i = j
  /\ Up => \A b \in Blocks : pin[b] = IF b \in Uninstalled THEN 1 ELSE 0

\* begin_op() and end_op() lose no wakeup: unless the kernel panics, a process
\* that waits for log space or for a commit is woken.
SleepersWoken == \A p \in Procs : pc[p] = "sleep" ~> pc[p] # "sleep" \/ panicked
=============================================================================
