------------------------------- MODULE Bcache -------------------------------
(***************************************************************************)
(* The buffer cache, kernel/bio.c, with the sleep-lock of each buffer,     *)
(* kernel/sleeplock.c, and the disk behind it.  A client gets a block with *)
(* bread(), may change it, and releases it with brelse(); a changed block  *)
(* is either written with bwrite() or pinned by the log, which writes and  *)
(* unpins it later.  A client is one use of a buffer: a process that has   *)
(* two at a time (install_trans(), write_log(), bmap() in balloc(),        *)
(* itrunc() in bfree()) is two of them.  A critical section of bcache.lock *)
(* or of a sleep-lock's spin-lock is one step.                             *)
(***************************************************************************)
EXTENDS Naturals, FiniteSets

CONSTANTS
  NBUF, Blocks, NoBlock, Clients, NoClient, Vals, InitVal

ASSUME BcacheAssumption ==
  /\ NBUF \in Nat \ {0} /\ IsFiniteSet(Clients)
  /\ NoBlock \notin Blocks /\ NoClient \notin Clients /\ InitVal \in Vals

Bufs == 1..NBUF
head == 0             \* bcache.head, with the buffers a cyclic list
Nodes == 0..NBUF

VARIABLES
  blk, valid, refcnt, bdata,  \* fields of struct buf
  next, prev,                 \* the list, most recently used first
  holder,                     \* b->lock: locked and pid
  disk,
  pc, cur, want,              \* what each client does, with which buffer and block
  dirty,                      \* it has changed its buffer, and not yet saved it
  pinned,                     \* buffers that the log has pinned
  panicked

list == <<next, prev>>
vars == <<blk, valid, refcnt, bdata, next, prev, holder, disk, pc, cur, want, dirty,
          pinned, panicked>>

\* binit(); what is in a buffer that was never used does not matter.
Init ==
  /\ blk = [c \in Bufs |-> NoBlock]
  /\ valid = [c \in Bufs |-> FALSE]
  /\ refcnt = [c \in Bufs |-> 0]
  /\ bdata = [c \in Bufs |-> InitVal]
  /\ next = [c \in Nodes |-> IF c = head THEN NBUF ELSE c - 1]
  /\ prev = [c \in Nodes |-> IF c = NBUF THEN head ELSE c + 1]
  /\ holder = [c \in Bufs |-> NoClient]
  /\ disk = [b \in Blocks |-> InitVal]
  /\ pc = [p \in Clients |-> "idle"]
  /\ cur = [p \in Clients |-> head]
  /\ want = [p \in Clients |-> NoBlock]
  /\ dirty = [p \in Clients |-> FALSE]
  /\ pinned = {}
  /\ panicked = FALSE

----------------------------------------------------------------------------
(* bget() and bread() *)

\* The k-th node from the head along prev.
Backward[k \in Nat] == IF k = 0 THEN head ELSE prev[Backward[k - 1]]

\* Mutant: bget() takes any buffer that nobody has locked.
EvictableUnlocked(c) == holder[c] = NoClient

Evictable(c) == refcnt[c] = 0

\* c is the first buffer from the end of the list that can be recycled.
IsVictim(c) ==
  \E k \in Bufs : /\ c = Backward[k] /\ Evictable(c)
                  /\ \A m \in 1..k - 1 : ~Evictable(Backward[m])

Hit(p, b, c) ==
  /\ refcnt' = [refcnt EXCEPT ![c] = @ + 1]
  /\ cur' = [cur EXCEPT ![p] = c]
  /\ UNCHANGED <<blk, valid>>

\* Mutant: the buffer's old contents stay valid.
MissStillValid(p, b, c) ==
  /\ blk' = [blk EXCEPT ![c] = b]
  /\ refcnt' = [refcnt EXCEPT ![c] = 1]
  /\ cur' = [cur EXCEPT ![p] = c]
  /\ UNCHANGED valid

Miss(p, b, c) ==
  /\ blk' = [blk EXCEPT ![c] = b]
  /\ valid' = [valid EXCEPT ![c] = FALSE]
  /\ refcnt' = [refcnt EXCEPT ![c] = 1]
  /\ cur' = [cur EXCEPT ![p] = c]

\* bget() up to acquiresleep(), in one critical section of bcache.lock.
Bget(p, b) ==
  /\ pc[p] = "idle"
  /\ want' = [want EXCEPT ![p] = b]
  /\ \/ /\ \E c \in Bufs : blk[c] = b /\ Hit(p, b, c)
        /\ pc' = [pc EXCEPT ![p] = "acquire"]
        /\ UNCHANGED panicked
     \/ /\ \A c \in Bufs : blk[c] # b
        /\ \E c \in Bufs : IsVictim(c) /\ Miss(p, b, c)
        /\ pc' = [pc EXCEPT ![p] = "acquire"]
        /\ UNCHANGED panicked
     \/ /\ \A c \in Bufs : blk[c] # b /\ ~IsVictim(c)
        /\ panicked' = TRUE
        /\ UNCHANGED <<blk, valid, refcnt, cur, pc>>
  /\ UNCHANGED <<bdata, list, holder, disk, dirty, pinned>>

\* acquiresleep(); bread() then looks at b->valid.
AcquireSleep(p) ==
  LET c == cur[p] IN
  /\ pc[p] = "acquire"
  /\ IF holder[c] # NoClient
     THEN pc' = [pc EXCEPT ![p] = "asleep"] /\ UNCHANGED holder
     ELSE /\ holder' = [holder EXCEPT ![c] = p]
          /\ pc' = [pc EXCEPT ![p] = IF valid[c] THEN "held" ELSE "read"]
  /\ UNCHANGED <<blk, valid, refcnt, bdata, list, disk, cur, want, dirty, pinned, panicked>>

\* virtio_disk_rw(b, 0) and b->valid = 1
ReadDisk(p) ==
  LET c == cur[p] IN
  /\ pc[p] = "read"
  /\ bdata' = [bdata EXCEPT ![c] = disk[blk[c]]]
  /\ valid' = [valid EXCEPT ![c] = TRUE]
  /\ pc' = [pc EXCEPT ![p] = "held"]
  /\ UNCHANGED <<blk, refcnt, list, holder, disk, cur, want, dirty, pinned, panicked>>

----------------------------------------------------------------------------
(* While the client has the buffer: change it, bwrite(), bpin(), bunpin()  *)

Change(p, v) ==
  /\ pc[p] = "held"
  /\ bdata' = [bdata EXCEPT ![cur[p]] = v]
  /\ dirty' = [dirty EXCEPT ![p] = TRUE]
  /\ UNCHANGED <<blk, valid, refcnt, list, holder, disk, pc, cur, want, pinned, panicked>>

Bwrite(p) ==
  LET c == cur[p] IN
  /\ pc[p] = "held"
  /\ IF holder[c] # p THEN panicked' = TRUE /\ UNCHANGED <<disk, dirty>>
     ELSE /\ disk' = [disk EXCEPT ![blk[c]] = bdata[c]]
          /\ dirty' = [dirty EXCEPT ![p] = FALSE]
          /\ UNCHANGED panicked
  /\ UNCHANGED <<blk, valid, refcnt, bdata, list, holder, pc, cur, want, pinned>>

\* log_write() saves a change by pinning the buffer, unless it is pinned.
Bpin(p) ==
  LET c == cur[p] IN
  /\ pc[p] = "held"
  /\ dirty[p]
  /\ dirty' = [dirty EXCEPT ![p] = FALSE]
  /\ IF c \in pinned THEN UNCHANGED <<refcnt, pinned>>
     ELSE /\ refcnt' = [refcnt EXCEPT ![c] = @ + 1]
          /\ pinned' = pinned \cup {c}
  /\ UNCHANGED <<blk, valid, bdata, list, holder, disk, pc, cur, want, panicked>>

\* install_trans() unpins a buffer that it has written.
Bunpin(p) ==
  LET c == cur[p] IN
  /\ pc[p] = "held"
  /\ c \in pinned
  /\ ~dirty[p] /\ disk[blk[c]] = bdata[c]
  /\ refcnt' = [refcnt EXCEPT ![c] = @ - 1]
  /\ pinned' = pinned \ {c}
  /\ UNCHANGED <<blk, valid, bdata, list, holder, disk, pc, cur, want, dirty, panicked>>

----------------------------------------------------------------------------
(* brelse() *)

\* Mutant: releasesleep() wakes nobody.
WakeNobody(c) == pc

\* pc after wakeup(lk) of buffer c
WakeSleepers(c) ==
  [p \in Clients |-> IF pc[p] = "asleep" /\ cur[p] = c THEN "acquire" ELSE pc[p]]

\* releasesleep()
ReleaseSleep(p) ==
  LET c == cur[p] IN
  /\ pc[p] = "held"
  /\ ~dirty[p]
  /\ IF holder[c] # p THEN panicked' = TRUE /\ UNCHANGED <<holder, pc>>
     ELSE /\ holder' = [holder EXCEPT ![c] = NoClient]
          /\ pc' = [WakeSleepers(c) EXCEPT ![p] = "drop"]
          /\ UNCHANGED panicked
  /\ UNCHANGED <<blk, valid, refcnt, bdata, list, disk, cur, want, dirty, pinned>>

\* The six pointer assignments that move c to the head of the list.
MoveToFront(c) ==
  LET p1 == [prev EXCEPT ![next[c]] = prev[c]]
      n1 == [next EXCEPT ![prev[c]] = next[c]] IN
  /\ prev' = [[p1 EXCEPT ![c] = head] EXCEPT ![n1[head]] = c]
  /\ next' = [n1 EXCEPT ![c] = n1[head], ![head] = c]

Unref(c) == refcnt' = [refcnt EXCEPT ![c] = @ - 1]

Drop(p) ==
  LET c == cur[p] IN
  /\ pc[p] = "drop"
  /\ Unref(c)
  /\ IF refcnt'[c] = 0 THEN MoveToFront(c) ELSE UNCHANGED list
  /\ pc' = [pc EXCEPT ![p] = "idle"]
  /\ cur' = [cur EXCEPT ![p] = head]
  /\ want' = [want EXCEPT ![p] = NoBlock]
  /\ UNCHANGED <<blk, valid, bdata, holder, disk, dirty, pinned, panicked>>

Step(p) ==
  \/ AcquireSleep(p) \/ ReadDisk(p) \/ Bwrite(p) \/ Bpin(p) \/ Bunpin(p)
  \/ ReleaseSleep(p) \/ Drop(p)

Next ==
  /\ ~panicked
  /\ \E p \in Clients :
       \/ \E b \in Blocks : Bget(p, b)
       \/ \E v \in Vals : Change(p, v)
       \/ Step(p)

Spec == Init /\ [][Next]_vars

----------------------------------------------------------------------------
(* Properties *)

\* The value that a reader of b gets next.
Visible(b) ==
  IF \E c \in Bufs : blk[c] = b /\ valid[c]
  THEN bdata[CHOOSE c \in Bufs : blk[c] = b /\ valid[c]] ELSE disk[b]

BS == INSTANCE BlockStore WITH
        val <- [b \in Blocks |-> Visible(b)],
        holds <- [p \in Clients |-> IF pc[p] = "held" THEN blk[cur[p]] ELSE NoBlock]

\* The cache is transparent: although buffers are recycled while clients wait for
\* their sleep-locks, a block has one value, which changes only by the client that
\* has it locked, and two clients never have it at a time.
IsBlockStore == BS!Spec

\* The reference that bget() takes keeps a buffer for its block while a client
\* waits for the sleep-lock, reads the disk, or has released the lock but not yet
\* its reference; no block is cached twice; counts match users and pins.  And
\* the cache panics only when it must: every buffer is in use or pinned, so none
\* was lost from the list that brelse() reorders and bget() walks.
BufferKept ==
  /\ panicked => \A c \in Bufs : refcnt[c] > 0
  /\ \A p \in Clients : pc[p] # "idle" => blk[cur[p]] = want[p]
  /\ \A c, d \in Bufs : blk[c] = blk[d] /\ blk[c] # NoBlock => c = d
  /\ \A c \in Bufs : refcnt[c] = Cardinality({p \in Clients : cur[p] = c})
                                 + IF c \in pinned THEN 1 ELSE 0

\* acquiresleep() loses no wakeup: whoever sleeps, sleeps on a locked buffer.
SleepersBlocked == \A p \in Clients : pc[p] = "asleep" => holder[cur[p]] \notin {NoClient, p}
=============================================================================
