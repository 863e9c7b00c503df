------------------------------- MODULE Memory -------------------------------
(***************************************************************************)
(* Physical pages and page tables: kernel/kalloc.c, kernel/vm.c, the       *)
(* memory of exec() (kernel/exec.c), fork, exit and sbrk, with lazy        *)
(* allocation and page faults.  Every kalloc() may find the free list      *)
(* empty.  A turn of a loop that allocates is one step: kalloc(), the      *)
(* page-table pages that walk() adds, and the mapping; steps of other      *)
(* processes, which may take the last page, come between the turns.        *)
(* Page tables have three levels as in Sv39, with FANOUT entries each.     *)
(* Sizes and addresses count units of which a page has PGSIZE.             *)
(***************************************************************************)
EXTENDS Naturals, Sequences, FiniteSets, FiniteSetsExt

CONSTANTS
  Procs,        \* slots of the process table
  Boot,         \* numbers of free pages that the machine may boot with
  PGSIZE, FANOUT,
  WORD,         \* addresses are computed modulo WORD
  USERSTACK,    \* param.h: pages of the user stack
  NARGS,        \* the number of arguments that programs give to exec()
  Images,       \* executables: sequences of [vaddr, filesz, memsz, perm]
  Vals,         \* what programs store
  NoSpace,      \* "not a live process", for the properties
  SbrkSizes,    \* the arguments of sbrk(), without their sign
  CopyFrom,     \* first pages of the two that system calls copy to or from
  MaxCalls      \* bound on the system calls and faults of a behaviour

MAXVA == FANOUT * FANOUT * FANOUT  \* in pages
TRAMPOLINE == MAXVA - 1
TRAPFRAME == MAXVA - 2

ASSUME MemoryAssumption ==
  /\ Boot \subseteq Nat \ {0}
  /\ PGSIZE \in Nat \ {0} /\ FANOUT \in Nat \ {0} /\ USERSTACK \in Nat \ {0} /\ NARGS \in Nat
  /\ WORD \in Nat /\ WORD > MAXVA * PGSIZE /\ MaxCalls \in Nat

Null == 0
Pages == 1..Max(Boot)
Zero == "zero"
Junk == "junk"
Loaded == "image"
Args == "args"

VARIABLES
  npages,       \* pages that kinit() put on the free list
  free,         \* kmem.freelist; which free page kalloc() takes does not matter
  mem,          \* contents of the pages
  state, tf, pt, sz,   \* struct proc: state, trapframe, pagetable, sz
  new,          \* the page table that exec() builds
  pc, loc,      \* of each process: its place in a call, its locals
  calls,
  panicked

vars == <<npages, free, mem, state, tf, pt, sz, new, pc, loc, calls, panicked>>

NoLeaf == [pg |-> Null, perm |-> "none"]

\* The page-table page below the root at each level, for page k.
Path(k) == <<(<<1, k \div (FANOUT * FANOUT)>>), (<<0, k \div FANOUT>>)>>
Nodes == {Path(k)[i] : k \in 0..MAXVA - 1, i \in 1..2}

NoTable == [root |-> Null, node |-> [n \in Nodes |-> Null], leaf |-> [k \in 0..MAXVA - 1 |-> NoLeaf]]

NoLoc == [a |-> 0, end |-> 0, np |-> Null, val |-> Zero,
          argv |-> {}, img |-> <<>>, bad |-> "none", seg |-> 0, sz |-> 0]

initproc == 1

\* In pages.
PgRoundUp(s) == (s + PGSIZE - 1) \div PGSIZE

----------------------------------------------------------------------------
(* kalloc.c.  Operators work on a record r of a table T and a free list F. *)

OK(T, F) == [T |-> T, F |-> F, ok |-> TRUE, panic |-> FALSE]

\* Contents after kfree() and kalloc() have made the free list F: freed pages are
\* filled with junk, and every caller but uvmcopy() clears the pages it gets.
\* Mutant: a page is not cleared.
ContentsStale(F) == [g \in Pages |-> IF g \in F THEN Junk ELSE mem[g]]

Contents(F) ==
  [g \in Pages |-> IF g \in F THEN Junk ELSE IF g \in free THEN Zero ELSE mem[g]]

\* One level of walk(..., 1)
Level(r, n) ==
  IF ~r.ok \/ r.T.node[n] # Null THEN r
  ELSE IF r.F = {} THEN [r EXCEPT !.ok = FALSE]
  ELSE [r EXCEPT !.T.node[n] = Min(r.F), !.F = @ \ {Min(@)}]

\* walk(..., 1): missing page-table pages are added from the root down; those
\* added before memory runs out stay.
Walk(r, k) == Level(Level(r, Path(k)[1]), Path(k)[2])

Panic(r) == [r EXCEPT !.panic = TRUE]

\* mappages() for one page; walk() panics beyond MAXVA
MapPage(r, k, leaf) ==
  LET w == Walk(r, k) IN
  IF k >= MAXVA THEN Panic(r)
  ELSE IF ~w.ok THEN w
  ELSE IF w.T.leaf[k] # NoLeaf THEN Panic(w)
  ELSE [w EXCEPT !.T.leaf[k] = leaf]

\* Mutant: the page is not given back.
KfreeForgotten(F, g) == F

Kfree(F, g) == F \cup {g}

\* kalloc() and mappages(), as in uvmalloc(), uvmcopy() and vmfault()
AllocMap(T, k, perm) ==
  IF free = {} THEN [OK(T, free) EXCEPT !.ok = FALSE]
  ELSE LET g == Min(free)
           r == MapPage(OK(T, free \ {g}), k, [pg |-> g, perm |-> perm])
       IN IF r.ok THEN r ELSE [r EXCEPT !.F = Kfree(@, g)]

\* uvmunmap() of pages lo to hi - 1, freeing them, the trapframe too if it is
\* among them; kfree() panics at the trampoline, and walk() beyond MAXVA
Unmap(r, lo, hi) ==
  LET S == {k \in 0..MAXVA - 1 : k >= lo /\ k < hi /\ r.T.leaf[k] # NoLeaf} IN
  [r EXCEPT !.F = @ \cup ({r.T.leaf[k].pg : k \in S} \ {Null}),
            !.T.leaf = [k \in DOMAIN @ |-> IF k \in S THEN NoLeaf ELSE @[k]],
            !.panic = @ \/ TRAMPOLINE \in S \/ (lo < hi /\ hi > MAXVA)]

\* uvmdealloc(pagetable, a, oldsz) after a failed turn of uvmalloc()
Dealloc(r, a, oldsz) == Unmap(r, PgRoundUp(oldsz), a)

\* uvmfree(): uvmunmap() and freewalk(), which panics at a mapping that is left
FreeWalk(r, n) ==
  LET u == Unmap(r, 0, n) IN
  [u EXCEPT !.F = @ \cup {u.T.root} \cup {u.T.node[x] : x \in {y \in Nodes : u.T.node[y] # Null}},
            !.T = NoTable,
            !.panic = @ \/ \E k \in DOMAIN u.T.leaf : u.T.leaf[k] # NoLeaf]

Unleaf(r, k) == [r EXCEPT !.T.leaf[k] = NoLeaf]

\* proc_freepagetable(T, s), the free list being F
FreeTable(T, s, F) ==
  FreeWalk(Unleaf(Unleaf(OK(T, F), TRAMPOLINE), TRAPFRAME), PgRoundUp(s))

\* proc_pagetable() for a process with trapframe page g
ProcPagetable(g, F) ==
  IF F = {} THEN [OK(NoTable, F) EXCEPT !.ok = FALSE]
  ELSE LET r0 == OK([NoTable EXCEPT !.root = Min(F)], F \ {Min(F)})
           r1 == MapPage(r0, TRAMPOLINE, [pg |-> Null, perm |-> "kernel"])
           r2 == MapPage(r1, TRAPFRAME, [pg |-> g, perm |-> "kernel"])
       IN IF ~r1.ok THEN FreeWalk(r1, 0)
          ELSE IF ~r2.ok THEN FreeWalk(Unleaf(r2, TRAMPOLINE), 0)
          ELSE r2

----------------------------------------------------------------------------

\* kinit() and userinit() have run, and forkret() has begun kexec("/init").
Init ==
  LET first == ProcPagetable(1, 2..npages)
      second == ProcPagetable(1, first.F)
      only(x, none) == [p \in Procs |-> IF p = initproc THEN x ELSE none] IN
  /\ npages \in Boot
  /\ free = second.F
  /\ mem = [g \in Pages |-> IF g \in free THEN Junk ELSE Zero]
  /\ state = only("live", "unused")
  /\ tf = only(1, Null)
  /\ pt = only(first.T, NoTable)
  /\ sz = [p \in Procs |-> 0]
  /\ new = only(second.T, NoTable)
  /\ pc = only("header", "user")
  /\ \E img \in Images : loc = only([NoLoc EXCEPT !.img = img, !.seg = 1], NoLoc)
  /\ calls = 0
  /\ panicked = FALSE

User(p) == state[p] = "live" /\ pc[p] = "user" /\ calls < MaxCalls

Memory(r) == free' = r.F /\ mem' = Contents(r.F) /\ panicked' = r.panic

Goto(p, l, x) == pc' = [pc EXCEPT ![p] = l] /\ loc' = [loc EXCEPT ![p] = x]

Return(p) == Goto(p, "user", NoLoc)

\* a += PGSIZE
NextPage(p) == Goto(p, pc[p], [loc[p] EXCEPT !.a = @ + 1])

Called == calls' = calls + 1

----------------------------------------------------------------------------
(* sys_sbrk() and growproc() *)

\* Nothing keeps sz below TRAPFRAME: the only test is for a sum that wraps around.
SbrkLazy(p, n) ==
  /\ User(p)
  /\ sz' = [sz EXCEPT ![p] = IF (@ + n) % WORD < @ THEN @ ELSE @ + n]
  /\ Called
  /\ UNCHANGED <<npages, free, mem, state, tf, pt, new, pc, loc, panicked>>

\* n units less: uvmdealloc() leaves everything as it is when sz - n wraps around.
\* A process that shrinks from beyond TRAPFRAME loses its trapframe, and cannot go
\* back to user space.
SbrkShrink(p, n) ==
  LET newsz == (sz[p] + WORD - n) % WORD
      r == Unmap(OK(pt[p], free), PgRoundUp(newsz), PgRoundUp(sz[p])) IN
  /\ User(p)
  /\ IF newsz >= sz[p] THEN UNCHANGED <<free, mem, pt, sz, pc, panicked>>
     ELSE /\ Memory(r)
          /\ pt' = [pt EXCEPT ![p] = r.T]
          /\ sz' = [sz EXCEPT ![p] = newsz]
          /\ pc' = [pc EXCEPT ![p] = IF r.T.leaf[TRAPFRAME] = NoLeaf THEN "stuck" ELSE @]
  /\ Called
  /\ UNCHANGED <<npages, state, tf, new, loc>>

\* uvmalloc() returns the old size when the sum wraps around
SbrkEager(p, n) ==
  LET newsz == (sz[p] + n) % WORD IN
  /\ User(p)
  /\ Goto(p, "grow", [NoLoc EXCEPT !.a = PgRoundUp(sz[p]), !.end = IF newsz < sz[p] THEN sz[p] ELSE newsz])
  /\ Called
  /\ UNCHANGED <<npages, free, mem, state, tf, pt, sz, new, panicked>>

\* for(a = oldsz; a < newsz; a += PGSIZE)
More(p) == loc[p].a * PGSIZE < loc[p].end

\* A turn of uvmalloc() in growproc(), or its return.
Grow(p) ==
  LET r == AllocMap(pt[p], loc[p].a, "rw")
      d == Dealloc(r, loc[p].a, sz[p]) IN
  /\ pc[p] = "grow"
  /\ \/ /\ More(p) /\ r.ok
        /\ Memory(r)
        /\ pt' = [pt EXCEPT ![p] = r.T]
        /\ NextPage(p)
        /\ UNCHANGED sz
     \/ /\ More(p) /\ ~r.ok
        /\ Memory(d)
        /\ pt' = [pt EXCEPT ![p] = d.T]
        /\ Return(p)
        /\ UNCHANGED sz
     \/ /\ ~More(p)
        /\ sz' = [sz EXCEPT ![p] = loc[p].end]
        /\ Return(p)
        /\ UNCHANGED <<free, mem, pt, panicked>>
  /\ UNCHANGED <<npages, state, tf, new, calls>>

----------------------------------------------------------------------------
(* User accesses, vmfault(), copyout() and copyin() *)

Perm(p, k) == IF k < MAXVA THEN pt[p].leaf[k].perm ELSE "none"

Store(p, k, v) ==
  /\ User(p)
  /\ Perm(p, k) = "rw"
  /\ mem' = [mem EXCEPT ![pt[p].leaf[k].pg] = v]
  /\ Called
  /\ UNCHANGED <<npages, free, state, tf, pt, sz, new, pc, loc, panicked>>

\* vmfault() at address b finds a page to add, or panics in ismapped().
Faultable(p, b) == b < sz[p] /\ Perm(p, b \div PGSIZE) = "none"
VmFault(p, k) == IF k >= MAXVA THEN Panic(OK(pt[p], free)) ELSE AllocMap(pt[p], k, "rw")

\* A load or store at address b that the page table forbids: usertrap() calls
\* vmfault(), and the process is killed if that fails.  (A store to a page that
\* may only be read, or any access to the guard page, is such a fault too.)
PageFault(p, b, write) ==
  LET k == b \div PGSIZE
      r == VmFault(p, k) IN
  /\ User(p)
  /\ Perm(p, k) # "rw" /\ (write \/ Perm(p, k) # "r")
  /\ IF Faultable(p, b)
     THEN /\ Memory(r)
          /\ pt' = [pt EXCEPT ![p] = r.T]
          /\ state' = [state EXCEPT ![p] = IF r.ok THEN @ ELSE "zombie"]
     ELSE state' = [state EXCEPT ![p] = "zombie"] /\ UNCHANGED <<free, mem, pt, panicked>>
  /\ Called
  /\ UNCHANGED <<npages, tf, sz, new, pc, loc>>

\* A system call that copies v to the pages lo to hi - 1 of user memory, or from
\* them.
Copy(p, lo, hi, dir, v) ==
  /\ User(p)
  /\ Goto(p, dir, [NoLoc EXCEPT !.a = lo, !.end = hi, !.val = v])
  /\ Called
  /\ UNCHANGED <<npages, free, mem, state, tf, pt, sz, new, panicked>>

\* A turn of copyout(), copyin() or copyinstr(), or their return.  copyinstr()
\* does not add the pages that sbrk() has left out, copyout() none beyond MAXVA.
CopyTurn(p) ==
  LET k == loc[p].a
      mapped == Perm(p, k) \in {"rw", "r"}
      tried == pc[p] = "copyin" \/ (pc[p] = "copyout" /\ k < MAXVA)
      faultable == Faultable(p, k * PGSIZE) /\ tried
      r == VmFault(p, k) IN
  /\ pc[p] \in {"copyout", "copyin", "copyinstr"}
  /\ \/ /\ k = loc[p].end \/ (~mapped /\ ~faultable)
           \/ (pc[p] = "copyout" /\ Perm(p, k) = "r")
        /\ Return(p)
        /\ UNCHANGED <<free, mem, pt, panicked>>
     \/ /\ k < loc[p].end /\ mapped
        /\ pc[p] = "copyout" => Perm(p, k) = "rw"
        /\ mem' = IF pc[p] = "copyout" THEN [mem EXCEPT ![pt[p].leaf[k].pg] = loc[p].val] ELSE mem
        /\ NextPage(p)
        /\ UNCHANGED <<free, pt, panicked>>
     \/ /\ k < loc[p].end /\ ~mapped /\ faultable
        /\ free' = r.F /\ panicked' = r.panic
        /\ pt' = [pt EXCEPT ![p] = r.T]
        /\ IF r.ok
           THEN /\ mem' = IF pc[p] = "copyout" THEN [Contents(r.F) EXCEPT ![r.T.leaf[k].pg] = loc[p].val]
                          ELSE Contents(r.F)
                /\ NextPage(p)
           ELSE mem' = Contents(r.F) /\ Return(p)
  /\ UNCHANGED <<npages, state, tf, sz, new, calls>>

----------------------------------------------------------------------------
(* kfork(), kexit() and freeproc() *)

\* allocproc(): a trapframe and a page table, or nothing
Fork(p) ==
  LET unused == {q \in Procs : state[q] = "unused"}
      q == Min(unused)
      g == Min(free)
      r == ProcPagetable(g, free \ {g}) IN
  /\ User(p)
  /\ \/ /\ unused # {} /\ free # {} /\ r.ok
        /\ Memory(r)
        /\ state' = [state EXCEPT ![q] = "used"]
        /\ tf' = [tf EXCEPT ![q] = g]
        /\ pt' = [pt EXCEPT ![q] = r.T]
        /\ Goto(p, "copy", [NoLoc EXCEPT !.np = q])
     \/ /\ unused # {} /\ free # {} /\ ~r.ok
        /\ Memory([r EXCEPT !.F = @ \cup {g}])
        /\ UNCHANGED <<state, tf, pt, pc, loc>>
     \/ /\ unused = {} \/ free = {}
        /\ UNCHANGED <<free, mem, state, tf, pt, pc, loc, panicked>>
  /\ Called
  /\ UNCHANGED <<npages, sz, new>>

\* freeproc(q), the free list being F and T its page table
FreeProc(q, T, F) ==
  LET r == FreeTable(T, sz[q], F \cup {tf[q]}) IN
  /\ Memory(r)
  /\ state' = [state EXCEPT ![q] = "unused"]
  /\ tf' = [tf EXCEPT ![q] = Null]
  /\ pt' = [pt EXCEPT ![q] = NoTable]
  /\ sz' = [sz EXCEPT ![q] = 0]

\* Mutant: the error path of uvmcopy() frees nothing.
UndoCopyNot(r, i) == r

\* err: uvmunmap(new, 0, i / PGSIZE, 1)
UndoCopy(r, i) == Unmap(r, 0, i)

\* A turn of uvmcopy(), or what follows it.
ForkCopy(p) ==
  LET q == loc[p].np
      k == loc[p].a
      old == pt[p].leaf[k]
      r == AllocMap(pt[q], k, old.perm)
      u == UndoCopy(r, k) IN
  /\ pc[p] = "copy"
  /\ \/ /\ k * PGSIZE < sz[p] /\ old = NoLeaf
        /\ NextPage(p)
        /\ UNCHANGED <<free, mem, state, tf, pt, sz, panicked>>
     \/ /\ k * PGSIZE < sz[p] /\ old # NoLeaf /\ r.ok
        /\ free' = r.F /\ panicked' = r.panic
        /\ mem' = [g \in Pages |-> IF ~r.panic /\ g = r.T.leaf[k].pg THEN mem[old.pg] ELSE Contents(r.F)[g]]
        /\ pt' = [pt EXCEPT ![q] = r.T]
        /\ NextPage(p)
        /\ UNCHANGED <<state, tf, sz>>
     \/ /\ k * PGSIZE < sz[p] /\ old # NoLeaf /\ ~r.ok
        /\ FreeProc(q, u.T, u.F)
        /\ Return(p)
     \/ /\ k * PGSIZE >= sz[p]
        /\ sz' = [sz EXCEPT ![q] = sz[p]]
        /\ state' = [state EXCEPT ![q] = "live"]
        /\ Return(p)
        /\ UNCHANGED <<free, mem, tf, pt, panicked>>
  /\ UNCHANGED <<npages, new, calls>>

Exit(p) ==
  /\ state[p] = "live" /\ pc[p] = "user"
  /\ state' = [state EXCEPT ![p] = "zombie"]
  /\ UNCHANGED <<npages, free, mem, tf, pt, sz, new, pc, loc, calls, panicked>>

\* kwait() of the parent
Reap(q) ==
  /\ state[q] = "zombie"
  /\ FreeProc(q, pt[q], free)
  /\ UNCHANGED <<npages, new, pc, loc, calls>>

----------------------------------------------------------------------------
(* kexec() *)

\* bad: what is wrong with the call: its arguments or the path, the last segment,
\* or the size of the arguments
Exec(p, img, bad) ==
  /\ User(p)
  /\ Goto(p, "argv", [NoLoc EXCEPT !.img = img, !.bad = bad, !.seg = 1])
  /\ Called
  /\ UNCHANGED <<npages, free, mem, state, tf, pt, sz, new, panicked>>

\* sys_exec(): a page for each argument; then kexec() begins with an empty table
ExecArgs(p) ==
  LET l == loc[p]
      more == Cardinality(l.argv) < NARGS
      r == ProcPagetable(tf[p], free) IN
  /\ pc[p] = "argv"
  /\ \/ /\ more /\ free # {}
        /\ Memory(OK(NoTable, free \ {Min(free)}))
        /\ Goto(p, "argv", [l EXCEPT !.argv = @ \cup {Min(free)}])
        /\ UNCHANGED new
     \/ /\ IF more THEN free = {} ELSE l.bad = "argv"
        /\ Memory(OK(NoTable, free \cup l.argv))
        /\ Return(p)
        /\ UNCHANGED new
     \/ /\ ~more /\ l.bad # "argv" /\ r.ok
        /\ Memory(r)
        /\ Goto(p, "header", l)
        /\ new' = [new EXCEPT ![p] = r.T]
     \/ /\ ~more /\ l.bad # "argv" /\ ~r.ok
        /\ Memory([r EXCEPT !.F = @ \cup l.argv])
        /\ Return(p)
        /\ UNCHANGED new
  /\ UNCHANGED <<npages, state, tf, pt, sz, calls>>

Segment(p) == loc[p].img[loc[p].seg]

\* The file or the arguments turn out to be bad in part x.
Finds(p, x) == loc[p].bad = x /\ (x = "args" \/ loc[p].seg = Len(loc[p].img))

\* "bad:" in kexec(), T being the new page table, and the kfree() of the arguments
\* in sys_exec(); forkret() panics if it was the first exec of init that failed
Bad(p, T, F) ==
  LET r == FreeTable(T, loc[p].sz, F \cup loc[p].argv) IN
  /\ free' = r.F /\ mem' = Contents(r.F) /\ panicked' = (r.panic \/ p = initproc)
  /\ new' = [new EXCEPT ![p] = NoTable]
  /\ Return(p)

\* The next program header, or the stack.  uvmalloc() to a size of 0 counts as a
\* failure.
ExecHeader(p) ==
  LET l == loc[p]
      stack == l.seg > Len(l.img)
      from == IF stack THEN PgRoundUp(l.sz) * PGSIZE ELSE l.sz
      end == IF stack THEN from + (USERSTACK + 1) * PGSIZE
             ELSE Segment(p).vaddr * PGSIZE + Segment(p).memsz
      newsz == IF end < from THEN from ELSE end IN
  /\ pc[p] = "header"
  /\ \/ /\ newsz > 0 /\ ~Finds(p, "header")
        /\ Goto(p, "alloc", [l EXCEPT !.a = PgRoundUp(from), !.end = newsz, !.sz = from])
        /\ UNCHANGED <<free, mem, new, panicked>>
     \/ (newsz = 0 \/ Finds(p, "header")) /\ Bad(p, new[p], free)
  /\ UNCHANGED <<npages, state, tf, pt, sz, calls>>

\* A turn of uvmalloc(), or its return; the guard page is then taken from the user.
ExecAlloc(p) ==
  LET l == loc[p]
      stack == l.seg > Len(l.img)
      r == AllocMap(new[p], l.a, IF stack THEN "rw" ELSE Segment(p).perm)
      d == Dealloc(r, l.a, l.sz)
      guard == PgRoundUp(l.end) - (USERSTACK + 1) IN
  /\ pc[p] = "alloc"
  /\ \/ /\ More(p) /\ r.ok
        /\ Memory(r)
        /\ new' = [new EXCEPT ![p] = r.T]
        /\ NextPage(p)
     \/ More(p) /\ ~r.ok /\ Bad(p, d.T, d.F)
     \/ /\ ~More(p)
        /\ new' = IF stack THEN [new EXCEPT ![p].leaf[guard].perm = "guard"] ELSE new
        /\ Goto(p, IF stack THEN "args" ELSE "load", [l EXCEPT !.sz = l.end])
        /\ UNCHANGED <<free, mem, panicked>>
  /\ UNCHANGED <<npages, state, tf, pt, sz, calls>>

\* loadseg()
ExecLoad(p) ==
  LET s == Segment(p)
      S == s.vaddr..s.vaddr + PgRoundUp(s.filesz) - 1
      present == \A k \in S : new[p].leaf[k].perm \in {"rw", "r"} IN
  /\ pc[p] = "load"
  /\ \/ /\ ~Finds(p, "load")
        /\ mem' = [g \in Pages |-> IF \E k \in S : new[p].leaf[k].pg = g THEN Loaded ELSE mem[g]]
        /\ Goto(p, "header", [loc[p] EXCEPT !.seg = @ + 1])
        /\ panicked' = ~present
        /\ UNCHANGED <<free, new>>
     \/ Finds(p, "load") /\ Bad(p, new[p], free)  \* readi() comes short
  /\ UNCHANGED <<npages, state, tf, pt, sz, calls>>

\* The arguments are copied to the top of the stack, if they fit; then
\* the new image takes the place of the old one.
ExecCommit(p) ==
  LET l == loc[p]
      top == new[p].leaf[PgRoundUp(l.sz) - 1].pg
      r == FreeTable(pt[p], sz[p], free \cup l.argv) IN
  /\ pc[p] = "args"
  /\ \/ /\ ~Finds(p, "args")
        /\ free' = r.F /\ panicked' = r.panic
        /\ mem' = [Contents(r.F) EXCEPT ![top] = Args]
        /\ pt' = [pt EXCEPT ![p] = new[p]]
        /\ new' = [new EXCEPT ![p] = NoTable]
        /\ sz' = [sz EXCEPT ![p] = l.sz]
        /\ Return(p)
     \/ Finds(p, "args") /\ Bad(p, new[p], free) /\ UNCHANGED <<pt, sz>>
  /\ UNCHANGED <<npages, state, tf, calls>>

----------------------------------------------------------------------------

\* init.c forks a shell whenever there is none, and waits; other programs do
\* anything.
Calls(p) ==
  \/ (p = initproc => \A q \in Procs \ {p} : state[q] = "unused") /\ Fork(p)
  \/ /\ p # initproc
     /\ \/ \E n \in SbrkSizes : SbrkLazy(p, n) \/ SbrkEager(p, n) \/ SbrkShrink(p, n)
        \/ \E k \in 0..TRAPFRAME - 1, v \in Vals : Store(p, k, v)
        \/ \E b \in 0..MAXVA * PGSIZE, write \in BOOLEAN : PageFault(p, b, write)
        \/ \E k \in CopyFrom, dir \in {"copyout", "copyin", "copyinstr"}, v \in Vals : Copy(p, k, k + 2, dir, v)
        \/ \E img \in Images, bad \in {"none", "argv", "header", "load", "args"} : Exec(p, img, bad)
        \/ Exit(p)

Kernel(p) ==
  \/ Grow(p) \/ CopyTurn(p) \/ ForkCopy(p) \/ Reap(p)
  \/ ExecArgs(p) \/ ExecHeader(p) \/ ExecAlloc(p) \/ ExecLoad(p) \/ ExecCommit(p)

Next == ~panicked /\ \E p \in Procs : Calls(p) \/ Kernel(p)

Spec == Init /\ [][Next]_vars

----------------------------------------------------------------------------
(* Properties *)

\* Who holds which page: the free list, trapframes, and page tables with their
\* nodes and the user pages they map.
Holds ==
  LET tables == {<<p, 1, pt[p]>> : p \in Procs} \cup {<<p, 2, new[p]>> : p \in Procs}
      claims == {<<"free", g>> : g \in free} \cup {<<"trapframe", tf[p], p>> : p \in {q \in Procs : pc[q] # "stuck"}}
                \cup UNION {{<<"argv", g, p>> : g \in loc[p].argv} : p \in Procs}
                \cup {<<"root", t[3].root, t[1], t[2]>> : t \in tables}
                \cup {<<"node", t[3].node[n], t[1], t[2], n>> : t \in tables, n \in Nodes}
                \cup {<<"leaf", t[3].leaf[k].pg, t[1], t[2], k>> : t \in tables, k \in 0..TRAPFRAME - 1}
  IN {c \in claims : c[2] # Null}

\* No page is lost and none has two owners: between any two steps, every page of
\* the machine is on the free list or is a trapframe, a page-table page, a user
\* page or an argument of exec() of exactly one process, whichever kalloc() of
\* uvmalloc(), uvmcopy(), proc_pagetable(), vmfault() or sys_exec() failed before.
\* The trapframe that a process gave away by shrinking from beyond TRAPFRAME is the
\* one exception.
PagesAccounted == panicked \/ ({c[2] : c \in Holds} = 1..npages /\ Cardinality(Holds) = npages)

\* p->sz is beyond TRAPFRAME, or growproc() is on the way there.
Oversized(p) ==
  sz[p] > TRAPFRAME * PGSIZE \/ (pc[p] = "grow" /\ loc[p].end > TRAPFRAME * PGSIZE)

\* The panics of vm.c and kalloc.c need a process that sbrk() let grow beyond
\* TRAPFRAME.  In all other states mappages() never maps a page twice, freewalk()
\* never finds a mapping that was forgotten, loadseg() finds its pages, and init
\* gets its memory.
OnlyOversizedPanic == [][panicked' => \E p \in Procs : Oversized(p)]_vars

Loads(img, k) == {i \in DOMAIN img : k \in img[i].vaddr..img[i].vaddr + PgRoundUp(img[i].filesz) - 1}
Covers(img, k) == {i \in DOMAIN img : k < img[i].vaddr + PgRoundUp(img[i].memsz)}

\* The address space that an executable asks for: its segments, a guard page and
\* the stack.
Program(img) ==
  LET n == Max({0} \cup {img[i].vaddr + PgRoundUp(img[i].memsz) : i \in DOMAIN img}) IN
  [k \in 0..n + USERSTACK |->
     [perm |-> IF k = n THEN "guard" ELSE IF k > n THEN "rw" ELSE img[Min(Covers(img, k))].perm,
      val |-> IF k = n + USERSTACK THEN Args ELSE IF Loads(img, k) # {} THEN Loaded ELSE Zero]]

\* What a process sees below TRAPFRAME: pages that were never touched are zeros.
View(p) ==
  IF state[p] # "live" THEN NoSpace
  ELSE [k \in 0..Min({PgRoundUp(sz[p]), TRAPFRAME}) - 1 |->
          LET leaf == pt[p].leaf[k] IN
          IF leaf = NoLeaf THEN [perm |-> "rw", val |-> Zero]
          ELSE [perm |-> leaf.perm, val |-> mem[leaf.pg]]]

Space == INSTANCE AddrSpace WITH
  MaxPages <- TRAPFRAME, Vals <- Vals, Zero <- Zero, NoSpace <- NoSpace,
  Programs <- {Program(img) : img \in Images}, space <- [p \in Procs |-> View(p)]

\* Lazy allocation, copying, running out of memory half-way and the reuse of pages
\* are invisible: each process has a private memory that only its own stores and
\* calls change, a failed call changes nothing, new memory is zero, a child starts
\* with a copy of its parent's memory, exec() gives what the file asks for.
IsAddrSpace == Space!Spec
=============================================================================
