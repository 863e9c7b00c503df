--------------------------------- MODULE Fs ---------------------------------
(***************************************************************************)
(* Inodes, directories and the file system calls: kernel/fs.c and          *)
(* kernel/sysfile.c.  Processes look up paths, create, link, unlink, open, *)
(* write and close files and change their directory; the machine may       *)
(* crash.  The log is taken by what module Log shows of it: the disk of a  *)
(* reboot is the one at the last moment without an active call (durable).  *)
(* An inode in the table is identified by its number.  What one process    *)
(* does under inode locks it holds is one step; taking an inode's lock,    *)
(* iget() of an inode that ialloc() has marked, and each part of iput(),   *)
(* is a step of its own.                                                   *)
(***************************************************************************)
EXTENDS Naturals, Sequences, FiniteSets, TLC, FiniteSetsExt, SequencesExt

CONSTANTS
  Procs, NoProc,
  Inodes,         \* 1..n; 1 is the root
  Blocks,         \* numbers of the data blocks
  NDIRECT,        \* direct block numbers of an inode
  NINDIRECT,      \* block numbers in an indirect block
  EPB,            \* directory entries per block
  Sessions        \* what is tried, by name: [disk: found at the first boot; NINODE: slots of the
                  \* inode table; Calls: the calls with a path that are made, <<call,
                  \* path, second path>>, where a path is a sequence of names, after
                  \* "/" or not; MaxCalls: bound on the calls of all processes;
                  \* MaxCrashes]

ROOTINO == 1

ASSUME FsAssumption ==
  /\ NoProc \notin Procs
  /\ ROOTINO \in Inodes /\ Inodes \subseteq Nat /\ 0 \notin Inodes
  /\ Blocks \subseteq Nat /\ 0 \notin Blocks
  /\ EPB > 1 /\ NDIRECT > 0

VARIABLES
  session,
  disk,       \* the disk as the calls see it, through cache and log
  durable,    \* the disk a reboot would find
  active,     \* processes between begin_op() and end_op()
  ref,        \* ip->ref; 0: the inode is not in the table
  mem,        \* the copy of the inode in the table,
  valid,      \* and whether ip->valid
  lock,       \* ip->lock
  cwd, open,  \* of each process: p->cwd, and its open file
  me,         \* what each process is doing
  boot,       \* the inode that ireclaim() looks at next; 0: the system is up
  calls, crashes,
  stray,      \* what calls have done in directories that had been removed: followed ".."
              \* ("up"), made an entry ("in")
  panicked    \* the message of the panic, or "no"

vars == <<session, disk, durable, active, ref, mem, valid, lock, cwd, open, me, boot, calls,
          crashes, stray, panicked>>

Session == Sessions[session]

\* size: of a file, in blocks; that of a directory is the number of its entries
Free == [type |-> "free", nlink |-> 0, size |-> 0, addrs |-> <<>>, ind |-> 0]

NoFile == [ip |-> 0, writable |-> FALSE, off |-> 0]

\* pc: what comes next, after iput() of the inodes puts.  At pc = "lock" that is
\* ilock(want), then "then"; at "namex" want is locked and path is left to walk.
\* goal: where to go with the inode that the path leads to; dp, name: the parent
\* and last element that nameiparent() found; ip: the inode the call is about.
Idle == [pc |-> "user", op |-> "none", new |-> <<>>, want |-> 0, then |-> "user",
         path |-> <<>>, par |-> FALSE, goal |-> "user", dp |-> 0, name |-> "", ip |-> 0,
         puts |-> <<>>, freeing |-> FALSE]

Entry(n, i) == [name |-> n, inum |-> i]
NoEntry == Entry("", 0)

\* What mkfs makes: a root directory with "." and "..", its size rounded up to a
\* whole block.
Image ==
  [dinode |-> [i \in Inodes |-> IF i = ROOTINO
                 THEN [Free EXCEPT !.type = "dir", !.nlink = 1, !.addrs = <<Min(Blocks)>>]
                 ELSE Free],
   ents |-> [i \in Inodes |-> IF i = ROOTINO
                 THEN <<Entry(".", ROOTINO), Entry("..", ROOTINO)>> \o [k \in 1..EPB - 2 |-> NoEntry]
                 ELSE <<>>],
   inds |-> [i \in Inodes |-> <<>>],        \* contents of the indirect block
   used |-> {Min(Blocks)}]                  \* the bitmap

\* The memory of a machine that boots: each process starts in the root.
Fresh ==
  /\ active' = {}
  /\ ref' = [i \in Inodes |-> IF i = ROOTINO THEN Cardinality(Procs) ELSE 0]
  /\ mem' = [i \in Inodes |-> Free]
  /\ valid' = [i \in Inodes |-> FALSE]
  /\ lock' = [i \in Inodes |-> NoProc]
  /\ cwd' = [p \in Procs |-> ROOTINO]
  /\ open' = [p \in Procs |-> NoFile]
  /\ me' = [p \in Procs |-> Idle]
  /\ boot' = Min(Inodes)

Init ==
  /\ session \in DOMAIN Sessions
  /\ disk = Session.disk /\ durable = Session.disk
  /\ active = {}
  /\ ref = [i \in Inodes |-> IF i = ROOTINO THEN Cardinality(Procs) ELSE 0]
  /\ mem = [i \in Inodes |-> Free]
  /\ valid = [i \in Inodes |-> FALSE]
  /\ lock = [i \in Inodes |-> NoProc]
  /\ cwd = [p \in Procs |-> ROOTINO]
  /\ open = [p \in Procs |-> NoFile]
  /\ me = [p \in Procs |-> Idle]
  /\ boot = Min(Inodes)
  /\ calls = 0 /\ crashes = 0
  /\ stray = {}
  /\ panicked = "no"

----------------------------------------------------------------------------
(* Blocks and the content of inodes.  These operators take and return a    *)
(* volume: the disk, the inodes in memory, and the message of a panic.     *)

Volume == disk @@ [mem |-> mem, bad |-> "no"]

Check(v, good, message) == IF good \/ v.bad # "no" THEN v ELSE [v EXCEPT !.bad = message]

\* iget() finds inode i in the table, or an empty slot for it
Slot(v, i) ==
  Check(v, ref[i] > 0 \/ Cardinality({j \in Inodes : ref[j] > 0}) < Session.NINODE, "iget: no inodes")

\* iupdate()
Iupdate(v, i) == [v EXCEPT !.dinode[i] = v.mem[i]]

FreeBlocks(v) == Blocks \ v.used

\* The data blocks of inode i, in order.
DataBlocks(v, i) == v.mem[i].addrs \o v.inds[i]

\* bmap() for the first block behind the end of inode i: balloc(), also of the
\* indirect block when it is the first to need it.  0: it failed.
AddDirect(v, i) ==
  LET b == Min(FreeBlocks(v)) IN
  [v EXCEPT !.used = @ \cup {b}, !.mem[i].addrs = Append(@, b)]

AddIndirect(v, i) ==
  LET b == Min(FreeBlocks(v)) IN [v EXCEPT !.used = @ \cup {b}, !.mem[i].ind = b]

AddData(v, i) ==
  LET b == Min(FreeBlocks(v)) IN [v EXCEPT !.used = @ \cup {b}, !.inds[i] = Append(@, b)]

Bmap(v, i) ==
  IF Len(v.mem[i].addrs) < NDIRECT
  THEN IF FreeBlocks(v) = {} THEN v ELSE AddDirect(v, i)
  ELSE LET w == IF v.mem[i].ind # 0 \/ FreeBlocks(v) = {} THEN v ELSE AddIndirect(v, i) IN
       IF w.mem[i].ind = 0 \/ FreeBlocks(w) = {} THEN w ELSE AddData(w, i)

\* writei() of an entry behind the last block: the inode is written back in any case.
Extend(v, i) == Iupdate(Bmap(v, i), i)

\* bfree() of everything
Blockset(v, i) == ToSet(DataBlocks(v, i)) \cup ({v.mem[i].ind} \ {0})

Itrunc(v, i) ==
  LET u == Check(v, Blockset(v, i) \subseteq v.used, "freeing free block")
      w == [u EXCEPT !.used = @ \ Blockset(v, i),
                     !.mem[i].addrs = <<>>, !.mem[i].ind = 0, !.mem[i].size = 0,
                     !.ents[i] = <<>>, !.inds[i] = <<>>]
  IN Iupdate(w, i)

\* dirlookup(): the number that directory d has for name n, or 0
Lookup(v, d, n) ==
  LET K == {k \in DOMAIN v.ents[d] : v.ents[d][k].inum # 0 /\ v.ents[d][k].name = n} IN
  IF K = {} THEN 0 ELSE v.ents[d][Min(K)].inum

\* dirlink(): into the first empty entry, or behind the last, which may need a
\* block.  The directory is written back also when that fails.  (The inode that has
\* the name already is in the table for a moment; it has a link, so that its iput()
\* frees nothing.)
Dirlink(v, d, n, i) ==
  LET E == v.ents[d]
      holes == {k \in DOMAIN E : E[k].inum = 0}
      full == Len(E) = EPB * Len(DataBlocks(v, d))
      toobig == Len(DataBlocks(v, d)) = NDIRECT + NINDIRECT
      w == IF holes = {} /\ full /\ ~toobig THEN Extend(v, d) ELSE v
      room == Len(E) < EPB * Len(DataBlocks(w, d))
  IN IF Lookup(v, d, n) # 0 THEN [ok |-> FALSE, v |-> Slot(v, Lookup(v, d, n))]
     ELSE IF holes # {} THEN [ok |-> TRUE, v |-> Iupdate([v EXCEPT !.ents[d][Min(holes)] = Entry(n, i)], d)]
     ELSE IF room THEN [ok |-> TRUE, v |-> Iupdate([w EXCEPT !.ents[d] = Append(@, Entry(n, i))], d)]
     ELSE [ok |-> FALSE, v |-> w]

SetNlink(v, i, k) == Iupdate([v EXCEPT !.mem[i].nlink = k], i)

----------------------------------------------------------------------------
(* Parts of steps *)

Apply(v) ==
  /\ disk' = [dinode |-> v.dinode, ents |-> v.ents, inds |-> v.inds, used |-> v.used]
  /\ mem' = v.mem
  /\ panicked' = v.bad

Same == UNCHANGED <<disk, mem, panicked>>

\* dirlookup() panics if d is not a directory.
Checked(v, d) == Check(v, v.mem[d].type = "dir", "dirlookup not DIR")

Goto(p, r) == me' = [me EXCEPT ![p] = r @@ @]

Lock(i, label) == [pc |-> "lock", want |-> i, then |-> label]

Unlock(S) == lock' = [i \in Inodes |-> IF i \in S THEN NoProc ELSE lock[i]]

\* iget(), and idup()
Iget(i) ==
  /\ ref' = [ref EXCEPT ![i] = @ + 1]
  /\ valid' = [valid EXCEPT ![i] = @ /\ ref[i] > 0]

\* Process p, which is in a call, is at label l and has nothing to put.
At(p, l) == panicked = "no" /\ me[p].pc = l /\ me[p].puts = <<>>

WalkFrom(p, path) == IF Head(path) = "/" THEN ROOTINO ELSE cwd[p]

\* The path leads nowhere: the call fails; sys_link() first takes its count back.
Failed(p, goal) == IF goal = "link2" THEN Lock(me[p].ip, "link_undo") ELSE [pc |-> "end"]

\* begin_op() has returned, or another path is due: namex() starts.
Walk(p, path, par, goal) ==
  LET start == WalkFrom(p, path)
      rest == IF Head(path) = "/" THEN Tail(path) ELSE path
  IN [path |-> rest, par |-> par, goal |-> goal, ip |-> IF goal = "link2" THEN me[p].ip ELSE start]
     @@ (IF rest # <<>> THEN Lock(start, "namex")
         ELSE IF par THEN [puts |-> <<start>>] @@ Failed(p, goal)
         ELSE Lock(start, goal))

\* iunlockput(i), then go on with r
UnlockPut(p, i, r) ==
  /\ Unlock({i})
  /\ Goto(p, [puts |-> <<i>>] @@ r)

\* Directories that paths from the root lead to.
Tree(D) ==
  LET sub == [d \in Inodes |->
                {e.inum : e \in {e \in ToSet(D.ents[d]) :
                            e.inum # 0 /\ e.name \notin {".", ".."} /\ D.dinode[e.inum].type = "dir"}}]
      reach[n \in Nat] ==
        IF n = 0 THEN {ROOTINO} ELSE LET S == reach[n - 1] IN S \cup UNION {sub[d] : d \in S}
  IN reach[Cardinality(Inodes)]

\* The entry n of directory d is followed.
Leave(d, n) == stray' = IF n = ".." /\ d \notin Tree(disk) THEN stray \cup {"up"} ELSE stray

\* An entry is made in directory d.
Enter(d) == stray' = IF d \notin Tree(disk) THEN stray \cup {"in"} ELSE stray

----------------------------------------------------------------------------
(* ilock(), namex() and iput() *)

Ilock(p) ==
  LET i == me[p].want IN
  /\ At(p, "lock")
  /\ lock[i] = NoProc
  /\ lock' = [lock EXCEPT ![i] = p]
  /\ mem' = IF valid[i] THEN mem ELSE [mem EXCEPT ![i] = disk.dinode[i]]
  /\ valid' = [valid EXCEPT ![i] = TRUE]
  /\ panicked' = CASE ref[i] < 1 -> "ilock"
                   [] ref[i] >= 1 /\ ~valid[i] /\ disk.dinode[i].type = "free" -> "ilock: no type"
                   [] OTHER -> "no"
  /\ Goto(p, [pc |-> me[p].then])
  /\ UNCHANGED <<disk, durable, active, ref, cwd, open, boot, calls, crashes, stray>>

\* One turn of the loop, with the lock of the inode reached so far.
Namex(p) ==
  LET i == me[p].want
      n == Head(me[p].path)
      rest == Tail(me[p].path)
      next == Lookup(Volume, i, n)
      goal == me[p].goal
  IN
  /\ At(p, "namex")
  /\ \/ /\ mem[i].type # "dir"
        /\ UnlockPut(p, i, Failed(p, goal))
        /\ Same /\ UNCHANGED <<ref, valid, stray>>
     \/ /\ mem[i].type = "dir" /\ me[p].par /\ rest = <<>>
        /\ Unlock({i})
        /\ Goto(p, [dp |-> i, name |-> n, path |-> <<>>] @@ Lock(i, goal))
        /\ Same /\ UNCHANGED <<ref, valid, stray>>
     \/ /\ mem[i].type = "dir" /\ ~(me[p].par /\ rest = <<>>) /\ next = 0
        /\ UnlockPut(p, i, Failed(p, goal))
        /\ Same /\ UNCHANGED <<ref, valid, stray>>
     \/ /\ mem[i].type = "dir" /\ ~(me[p].par /\ rest = <<>>) /\ next # 0
        /\ Iget(next)
        /\ UnlockPut(p, i, [path |-> rest, ip |-> IF goal = "link2" THEN me[p].ip ELSE next]
                           @@ Lock(next, IF rest = <<>> THEN goal ELSE "namex"))
        /\ Apply(Slot(Volume, next))
        /\ Leave(i, n)
  /\ UNCHANGED <<durable, active, cwd, open, boot, calls, crashes>>

\* Mutant: other references are not looked at.
LastReferenceAny(i) == valid[i] /\ mem[i].nlink = 0

LastReference(i) == ref[i] = 1 /\ valid[i] /\ mem[i].nlink = 0

\* The first half of iput() when it frees the inode.  acquiresleep() must not
\* wait, because the process holds itable.lock.
IputFree(p) ==
  LET i == Head(me[p].puts)
      v == Itrunc(Volume, i)
      w == Iupdate([v EXCEPT !.mem[i].type = "free"], i)
  IN
  /\ panicked = "no" /\ me[p].puts # <<>> /\ ~me[p].freeing
  /\ LastReference(i)
  /\ Apply(Check(w, lock[i] = NoProc, "sched locks"))
  /\ valid' = [valid EXCEPT ![i] = FALSE]
  /\ Goto(p, [freeing |-> TRUE])
  /\ UNCHANGED <<durable, active, ref, lock, cwd, open, boot, calls, crashes, stray>>

IputDrop(p) ==
  LET i == Head(me[p].puts) IN
  /\ panicked = "no" /\ me[p].puts # <<>>
  /\ me[p].freeing \/ ~LastReference(i)
  /\ ref' = [ref EXCEPT ![i] = @ - 1]
  /\ Goto(p, [freeing |-> FALSE, puts |-> Tail(me[p].puts)])
  /\ Same
  /\ UNCHANGED <<durable, active, valid, lock, cwd, open, boot, calls, crashes, stray>>

----------------------------------------------------------------------------
(* Entry and exit of system calls *)

\* open() is called "creat" with O_CREATE|O_RDWR, "read" with O_RDONLY, "open" with
\* O_RDWR and "trunc" with O_RDWR|O_TRUNC.
Goal(op) ==
  CASE op \in {"creat", "mkdir"} -> "create"
    [] op \in {"read", "open", "trunc"} -> "open"
    [] op = "link" -> "link1"
    [] op = "unlink" -> "unlink1"
    [] op = "chdir" -> "chdir"

\* begin_op() and the start of namex()
Call(p, op, path, new) ==
  /\ boot = 0 /\ At(p, "user")
  /\ calls < Session.MaxCalls
  /\ calls' = calls + 1
  /\ active' = active \cup {p}
  /\ Iget(WalkFrom(p, path))
  /\ Goto(p, [op |-> op, new |-> new] @@ Walk(p, path, op \in {"creat", "mkdir", "unlink"}, Goal(op)))
  /\ Apply(Slot(Volume, WalkFrom(p, path)))
  /\ UNCHANGED <<durable, lock, cwd, open, boot, crashes, stray>>

\* argfd() finds the open file of p, fdalloc() finds a free descriptor.
HasFile(p) == open[p] # NoFile

FdFree(p) == ~HasFile(p)

\* sys_close(): fileclose() of the last reference
Close(p) ==
  /\ boot = 0 /\ At(p, "user")
  /\ HasFile(p)
  /\ calls < Session.MaxCalls
  /\ calls' = calls + 1
  /\ active' = active \cup {p}
  /\ open' = [open EXCEPT ![p] = NoFile]
  /\ Goto(p, [pc |-> "end", puts |-> <<open[p].ip>>])
  /\ Same
  /\ UNCHANGED <<durable, ref, valid, lock, cwd, boot, crashes, stray>>

\* filewrite(): one transaction
Write(p) ==
  /\ boot = 0 /\ At(p, "user")
  /\ HasFile(p) /\ open[p].writable
  /\ calls < Session.MaxCalls
  /\ calls' = calls + 1
  /\ active' = active \cup {p}
  /\ Goto(p, Lock(open[p].ip, "write"))
  /\ Same
  /\ UNCHANGED <<durable, ref, valid, lock, cwd, open, boot, crashes, stray>>

\* fileread(), without a transaction
Read(p) ==
  /\ boot = 0 /\ At(p, "user")
  /\ HasFile(p)
  /\ calls < Session.MaxCalls
  /\ calls' = calls + 1
  /\ Goto(p, Lock(open[p].ip, "read"))
  /\ Same
  /\ UNCHANGED <<durable, active, ref, valid, lock, cwd, open, boot, crashes, stray>>

\* Mutant: every end_op() commits.
CommitsAlways(A) == TRUE

\* end_op() commits when no other call is active.
Commits(A) == A = {}

\* end_op() at the end of a call; p->cwd changes last in sys_chdir()
EndOp(p) ==
  /\ At(p, "end") \/ At(p, "moved")
  /\ active' = active \ {p}
  /\ durable' = IF Commits(active') THEN disk ELSE durable
  /\ cwd' = IF me[p].pc = "moved" THEN [cwd EXCEPT ![p] = me[p].ip] ELSE cwd
  /\ me' = [me EXCEPT ![p] = Idle]
  /\ Same
  /\ UNCHANGED <<ref, valid, lock, open, boot, calls, crashes, stray>>

----------------------------------------------------------------------------
(* sys_open(), sys_mkdir() and create() *)

\* The end of sys_open(), with the lock of ip: fdalloc() fails when the process has
\* an open file.
Open(p) ==
  LET i == me[p].ip
      op == me[p].op
      isdir == mem[i].type = "dir" /\ op # "read"
  IN
  /\ At(p, "open")
  /\ IF isdir \/ ~FdFree(p)
     THEN UnlockPut(p, i, [pc |-> "end"]) /\ Same /\ UNCHANGED open
     ELSE /\ open' = [open EXCEPT ![p] = [ip |-> i, writable |-> op # "read", off |-> 0]]
          /\ IF op = "trunc" /\ mem[i].type = "file" THEN Apply(Itrunc(Volume, i)) ELSE Same
          /\ Unlock({i})
          /\ Goto(p, [pc |-> "end"])
  /\ UNCHANGED <<durable, active, ref, valid, cwd, boot, calls, crashes, stray>>

NewType(op) == IF op = "mkdir" THEN "dir" ELSE "file"

\* create() with the lock of dp, up to the ilock() of the inode that it found or to
\* the iget() of the one that ialloc() has marked on the disk.
Create(p) ==
  LET d == me[p].dp
      found == Lookup(Volume, d, me[p].name)
      v == Checked(Volume, d)
      unused == {i \in Inodes : disk.dinode[i].type = "free"}
      i == Min(unused)
  IN
  /\ At(p, "create")
  /\ \/ /\ found # 0
        /\ Iget(found)
        /\ UnlockPut(p, d, [ip |-> found] @@ Lock(found, "created_old"))
        /\ Apply(Slot(v, found)) /\ Leave(d, me[p].name)
     \/ /\ found = 0 /\ unused = {}
        /\ UnlockPut(p, d, [pc |-> "end"])
        /\ Apply(v) /\ UNCHANGED <<ref, valid, stray>>
     \/ /\ found = 0 /\ unused # {}
        /\ Apply([v EXCEPT !.dinode[i] = [Free EXCEPT !.type = NewType(me[p].op)]])
        /\ Goto(p, [ip |-> i, pc |-> "ialloc"])
        /\ UNCHANGED <<ref, valid, lock, stray>>
  /\ UNCHANGED <<durable, active, cwd, open, boot, calls, crashes>>

IallocGet(p) ==
  LET i == me[p].ip IN
  /\ At(p, "ialloc")
  /\ Iget(i)
  /\ Apply(Slot(Volume, i))
  /\ Goto(p, Lock(i, "create_new"))
  /\ UNCHANGED <<durable, active, lock, cwd, open, boot, calls, crashes, stray>>

CreatedOld(p) ==
  LET i == me[p].ip IN
  /\ At(p, "created_old")
  /\ IF me[p].op = "creat" /\ mem[i].type = "file"
     THEN Goto(p, [pc |-> "open"]) /\ UNCHANGED lock
     ELSE UnlockPut(p, i, [pc |-> "end"])
  /\ Same
  /\ UNCHANGED <<durable, active, ref, valid, cwd, open, boot, calls, crashes, stray>>

\* The entries that create() makes in the new inode and in its parent.
Populate(v, i, d, name) ==
  LET r1 == Dirlink(v, i, ".", i)
      r2 == IF r1.ok THEN Dirlink(r1.v, i, "..", d) ELSE r1
      r == IF v.mem[i].type = "dir" THEN r2 ELSE [ok |-> TRUE, v |-> v]
  IN IF r.ok THEN Dirlink(r.v, d, name, i) ELSE r

\* dp->nlink++ for ".."
CountParent(v, i, d) ==
  IF v.mem[i].type = "dir" THEN SetNlink(v, d, v.mem[d].nlink + 1) ELSE v

\* The rest of create(), with the locks of dp and ip.  If a directory entry cannot
\* be made, the new inode is given back by iput(), under the lock of dp.
CreateNew(p) ==
  LET i == me[p].ip
      d == me[p].dp
      r == Populate(SetNlink(Volume, i, 1), i, d, me[p].name)
  IN
  /\ At(p, "create_new")
  /\ IF r.ok
     THEN /\ Apply(CountParent(r.v, i, d))
          /\ UnlockPut(p, d, [pc |-> IF me[p].op = "creat" THEN "open" ELSE "made"])
     ELSE /\ Apply(SetNlink(r.v, i, 0))
          /\ UnlockPut(p, i, [pc |-> "give_up"])
  /\ Enter(d)
  /\ UNCHANGED <<durable, active, ref, valid, cwd, open, boot, calls, crashes>>

\* sys_mkdir() puts the new inode; create(), sys_unlink() put the parent at the end.
PutLast(p) ==
  LET i == IF me[p].pc = "made" THEN me[p].ip ELSE me[p].dp IN
  /\ At(p, "made") \/ At(p, "give_up")
  /\ UnlockPut(p, i, [pc |-> "end"])
  /\ Same
  /\ UNCHANGED <<durable, active, ref, valid, cwd, open, boot, calls, crashes, stray>>

----------------------------------------------------------------------------
(* sys_link() *)

\* Mutant: the lock of the old file is kept.
LinkUnlockNot(i) == UNCHANGED lock

\* The lock of the old file is released before the new path is walked.
LinkUnlock(i) == Unlock({i})

Link1(p) ==
  LET i == me[p].ip IN
  /\ At(p, "link1")
  /\ IF mem[i].type = "dir"
     THEN UnlockPut(p, i, [pc |-> "end"]) /\ Same /\ UNCHANGED <<ref, valid>>
     ELSE /\ Apply(Slot(SetNlink(Volume, i, mem[i].nlink + 1), WalkFrom(p, me[p].new)))
          /\ LinkUnlock(i)
          /\ Iget(WalkFrom(p, me[p].new))
          /\ Goto(p, Walk(p, me[p].new, TRUE, "link2"))
  /\ UNCHANGED <<durable, active, cwd, open, boot, calls, crashes, stray>>

\* Mutant: the old file is not put.
LinkPutsParent(d, i) == <<d>>

\* What a successful sys_link() puts.
LinkPuts(d, i) == <<d, i>>

Link2(p) ==
  LET i == me[p].ip
      d == me[p].dp
      r == Dirlink(Checked(Volume, d), d, me[p].name, i)
  IN
  /\ At(p, "link2")
  /\ Apply(r.v)
  /\ Unlock({d})
  /\ Goto(p, IF r.ok THEN [puts |-> LinkPuts(d, i), pc |-> "end"]
             ELSE [puts |-> <<d>>] @@ Lock(i, "link_undo"))
  /\ Enter(d)
  /\ UNCHANGED <<durable, active, ref, valid, cwd, open, boot, calls, crashes>>

LinkUndo(p) ==
  LET i == me[p].ip IN
  /\ At(p, "link_undo")
  /\ Apply(SetNlink(Volume, i, mem[i].nlink - 1))
  /\ UnlockPut(p, i, [pc |-> "end"])
  /\ UNCHANGED <<durable, active, ref, valid, cwd, open, boot, calls, crashes, stray>>

----------------------------------------------------------------------------
(* sys_unlink() *)


\* The lock of dp is held while that of ip is taken.
KeepParent(d) == UNCHANGED lock

Unlink1(p) ==
  LET d == me[p].dp
      found == Lookup(Volume, d, me[p].name)
  IN
  /\ At(p, "unlink1")
  /\ IF me[p].name \in {".", ".."} \/ found = 0
     THEN UnlockPut(p, d, [pc |-> "end"]) /\ Apply(Checked(Volume, d)) /\ UNCHANGED <<ref, valid>>
     ELSE /\ Iget(found)
          /\ Goto(p, [ip |-> found] @@ Lock(found, "unlink2"))
          /\ KeepParent(d)
          /\ Apply(Slot(Checked(Volume, d), found))
  /\ UNCHANGED <<durable, active, cwd, open, boot, calls, crashes, stray>>

\* isdirempty(): nothing but "." and ".."
IsDirEmpty(i) == \A k \in DOMAIN disk.ents[i] : k > 2 => disk.ents[i][k].inum = 0

\* The entry is cleared, with the locks of dp and ip.
Unlink2(p) ==
  LET i == me[p].ip
      d == me[p].dp
      cleared == [k \in DOMAIN disk.ents[d] |->
                    IF disk.ents[d][k] = Entry(me[p].name, i) THEN NoEntry ELSE disk.ents[d][k]]
      u == Check(Volume, mem[i].nlink >= 1, "unlink: nlink < 1")
      v == Iupdate([u EXCEPT !.ents[d] = cleared], d)
      isdir == mem[i].type = "dir"
  IN
  /\ At(p, "unlink2")
  /\ \/ /\ isdir /\ ~IsDirEmpty(i)
        /\ UnlockPut(p, i, [pc |-> "give_up"])
        /\ Apply(u)
     \/ /\ isdir => IsDirEmpty(i)
        /\ Apply(IF isdir THEN SetNlink(v, d, mem[d].nlink - 1) ELSE v)
        /\ UnlockPut(p, d, [pc |-> "unlink3"])
  /\ UNCHANGED <<durable, active, ref, valid, cwd, open, boot, calls, crashes, stray>>

Unlink3(p) ==
  LET i == me[p].ip IN
  /\ At(p, "unlink3")
  /\ Apply(SetNlink(Volume, i, mem[i].nlink - 1))
  /\ UnlockPut(p, i, [pc |-> "end"])
  /\ UNCHANGED <<durable, active, ref, valid, cwd, open, boot, calls, crashes, stray>>

----------------------------------------------------------------------------
(* sys_chdir(), filewrite() and fileread() *)

\* iput(p->cwd) comes before p->cwd changes
Chdir(p) ==
  LET i == me[p].ip IN
  /\ At(p, "chdir")
  /\ Unlock({i})
  /\ Goto(p, IF mem[i].type = "dir" THEN [puts |-> <<cwd[p]>>, pc |-> "moved"]
             ELSE [puts |-> <<i>>, pc |-> "end"])
  /\ Same
  /\ UNCHANGED <<durable, active, ref, valid, cwd, open, boot, calls, crashes, stray>>

\* writei() of one block at f->off, which is behind the end if another process has
\* truncated the file.  When either_copyin() fails (~copied), the block that bmap()
\* has added stays, behind ip->size.
WriteBlock(p, copied) ==
  LET i == me[p].want
      size == mem[i].size
      off == open[p].off
      refused == off > size \/ off = NDIRECT + NINDIRECT
      v == IF off < Len(DataBlocks(Volume, i)) THEN Volume ELSE Bmap(Volume, i)
      written == ~refused /\ off < Len(DataBlocks(v, i)) /\ copied
  IN
  /\ At(p, "write")
  /\ IF refused THEN Same
     ELSE Apply(Iupdate([v EXCEPT !.mem[i].size = IF written /\ off = @ THEN @ + 1 ELSE @], i))
  /\ open' = [open EXCEPT ![p].off = IF written THEN @ + 1 ELSE @]
  /\ Unlock({i})
  /\ Goto(p, [pc |-> "end"])
  /\ UNCHANGED <<durable, active, ref, valid, cwd, boot, calls, crashes, stray>>

ReadBlock(p) ==
  LET i == me[p].want
      size == IF mem[i].type = "dir" THEN Len(DataBlocks(Volume, i)) ELSE mem[i].size IN
  /\ At(p, "read")
  /\ open' = [open EXCEPT ![p].off = IF @ < size THEN @ + 1 ELSE @]
  /\ Unlock({i})
  /\ me' = [me EXCEPT ![p] = Idle]
  /\ Same
  /\ UNCHANGED <<durable, active, ref, valid, cwd, boot, calls, crashes, stray>>

----------------------------------------------------------------------------
(* Crash and reboot *)

Crash ==
  /\ panicked = "no"
  /\ crashes < Session.MaxCrashes
  /\ crashes' = crashes + 1
  /\ disk' = durable
  /\ Fresh
  /\ UNCHANGED <<durable, calls, stray, panicked>>

\* Mutant: orphans are not recognised.
IsOrphanNever(i) == FALSE

IsOrphan(i) == disk.dinode[i].type # "free" /\ disk.dinode[i].nlink = 0

\* ireclaim(): one turn of its loop, with a transaction of its own
Reclaim ==
  LET v == Itrunc([Volume EXCEPT !.mem[boot] = disk.dinode[boot]], boot)
      w == Iupdate([v EXCEPT !.mem[boot].type = "free"], boot)
  IN
  /\ panicked = "no" /\ boot # 0
  /\ IF IsOrphan(boot) THEN Apply(w) ELSE Same
  /\ durable' = disk'
  /\ boot' = IF boot + 1 \in Inodes THEN boot + 1 ELSE 0
  /\ UNCHANGED <<active, ref, valid, lock, cwd, open, me, calls, crashes, stray>>

Step(p) ==
  \/ Ilock(p) \/ Namex(p) \/ IputFree(p) \/ IputDrop(p) \/ EndOp(p)
  \/ Open(p) \/ Create(p) \/ IallocGet(p) \/ CreatedOld(p) \/ CreateNew(p) \/ PutLast(p)
  \/ Link1(p) \/ Link2(p) \/ LinkUndo(p)
  \/ Unlink1(p) \/ Unlink2(p) \/ Unlink3(p)
  \/ Chdir(p) \/ ReadBlock(p)
  \/ \E copied \in BOOLEAN : WriteBlock(p, copied)

Next ==
  /\ \/ \E p \in Procs : Step(p) \/ Close(p) \/ Write(p) \/ Read(p)
     \/ \E p \in Procs, c \in Session.Calls : Call(p, c[1], c[2], c[3])
     \/ Reclaim
     \/ Crash
  /\ UNCHANGED session

Spec == Init /\ [][Next]_vars

----------------------------------------------------------------------------
(* Properties *)


\* A file stays allocated while a process has it open, and a directory while it is
\* the current directory of one, whoever unlinks it; in sys_chdir() the process
\* gives up the old one a little before it has the new one.
InUseKept ==
  \A p \in Procs :
    /\ open[p] # NoFile => disk.dinode[open[p].ip].type # "free"
    /\ disk.dinode[IF me[p].pc = "moved" THEN me[p].ip ELSE cwd[p]].type = "dir"

\* Between calls the reference count of an inode is the number of open files and
\* current directories: no error path of a call forgets an iput() or makes one too
\* many.
RefsBalanced ==
  (\A p \in Procs : me[p].pc = "user") =>
    \A i \in Inodes :
      ref[i] = Cardinality({p \in Procs : cwd[p] = i}) + Cardinality({p \in Procs : open[p].ip = i})

\* The entries for inode i in directories T that its link count counts.
LinksTo(D, T, i) ==
  {<<d, k>> \in UNION {{d} \X DOMAIN D.ents[d] : d \in T} :
     LET e == D.ents[d][k] IN
     e.inum = i /\ e.name # "." /\ <<d, e.name>> # <<ROOTINO, "..">>}

BlocksOf(D, i) ==
  D.dinode[i].addrs \o D.inds[i] \o (IF D.dinode[i].ind = 0 THEN <<>> ELSE <<D.dinode[i].ind>>)

\* What a reboot finds is a sound file system, wherever the crash fell among the
\* steps of concurrent calls, unless one of them has followed ".." out of a removed
\* directory.  Every entry of a directory that paths lead to is for an allocated
\* inode; the link count of an inode is the number of these entries (the root has one
\* more), but for what was made in a removed directory, which may keep a link for
\* ever.  Every block below the size of a file is mapped, so that readi() never
\* allocates one, and every block that the bitmap has in use belongs to one inode,
\* once.
CrashSafe ==
  LET T == Tree(durable)
      inode == durable.dinode
      links == [i \in Inodes |-> Cardinality(LinksTo(durable, T, i)) + (IF i = ROOTINO THEN 1 ELSE 0)]
  IN
  \/ "up" \in stray
  \/ /\ \A i \in Inodes :
          /\ links[i] > 0 => inode[i].type # "free"
          /\ links[i] <= inode[i].nlink
          /\ i \in T \/ "in" \notin stray => links[i] = inode[i].nlink
     /\ \A i \in Inodes : inode[i].size <= Len(inode[i].addrs \o durable.inds[i])
     /\ durable.used = UNION {ToSet(BlocksOf(durable, i)) : i \in Inodes}
     /\ Cardinality(durable.used) = MapThenSumSet(LAMBDA i : Len(BlocksOf(durable, i)), Inodes)

\* Processes never wait for each other's inode locks in a circle.
NoDeadlock ==
  (\E p \in Procs : me[p].pc # "user") =>
    \E p \in Procs :
      /\ me[p].pc # "user"
      /\ me[p].pc = "lock" /\ me[p].puts = <<>> => lock[me[p].want] = NoProc

\* When ireclaim() is through, no inode is left that has no links: the files that
\* were unlinked but open at the crash are gone.
OrphansReclaimed ==
  [][boot # 0 /\ boot' = 0 =>
       \A i \in Inodes : disk'.dinode[i].type = "free" \/ disk'.dinode[i].nlink > 0]_vars
=============================================================================
