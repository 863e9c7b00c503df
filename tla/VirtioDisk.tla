----------------------------- MODULE VirtioDisk -----------------------------
(***************************************************************************)
(* The disk driver, kernel/virtio_disk.c, and the device that qemu         *)
(* provides.  Each process reads or writes the block of a buffer of its    *)
(* own, which bio.c keeps locked meanwhile.  Driver and device share the   *)
(* descriptors and two rings; the device takes requests in order,          *)
(* completes them in any order and raises an interrupt, which it does not  *)
(* raise again before the driver has acknowledged it.                      *)
(***************************************************************************)
EXTENDS Naturals, Sequences, FiniteSets

CONSTANTS
  NUM,            \* virtio.h: descriptors
  UINT16,         \* ring indices are counted modulo UINT16
  Procs, NoProc,
  MaxCalls        \* bound on the calls of virtio_disk_rw()

Handler == "intr"     \* holds vdisk_lock in virtio_disk_intr()

ASSUME VirtioAssumption ==
  /\ NUM \in Nat /\ NUM >= 3
  /\ UINT16 \in Nat /\ UINT16 >= NUM /\ UINT16 % NUM = 0
  /\ NoProc \notin Procs
  /\ Handler \notin Procs \cup {NoProc}
  /\ MaxCalls \in Nat

Descs == 0..NUM - 1
None == NUM

VARIABLES
  free,               \* disk.free
  desc,               \* disk.desc: what it points at, and the next of the chain
  infob, status,      \* disk.info
  aring, aidx,        \* disk.avail
  uring, uidx,        \* disk.used
  used_idx,
  lock,               \* disk.vdisk_lock
  bdisk,              \* b->disk of each buffer
  moved,              \* the data was moved between buffer and disk
  pc, idx,            \* what each process does: its descriptors
  hpc,                \* what the interrupt handler does
  taken, busy,        \* device: requests taken, requests being served
  irq,                \* device: interrupt pending
  calls,              \* calls so far, up to MaxCalls
  panicked

driver == <<free, desc, infob, aring, aidx, used_idx>>
device == <<uring, uidx, taken, busy, irq>>
vars == <<free, desc, infob, status, aring, aidx, uring, uidx, used_idx, lock,
          bdisk, moved, pc, idx, hpc, taken, busy, irq, calls, panicked>>

Nothing == [to |-> <<"nothing", 0>>, next |-> None]

\* virtio_disk_init()
Init ==
  /\ free = [d \in Descs |-> TRUE]
  /\ desc = [d \in Descs |-> Nothing]
  /\ infob = [d \in Descs |-> NoProc]
  /\ status = [d \in Descs |-> 0]
  /\ aring = [k \in Descs |-> 0] /\ aidx = 0
  /\ uring = [k \in Descs |-> 0] /\ uidx = 0
  /\ used_idx = 0
  /\ lock = NoProc
  /\ bdisk = [p \in Procs |-> FALSE]
  /\ moved = [p \in Procs |-> TRUE]
  /\ pc = [p \in Procs |-> "idle"]
  /\ idx = [p \in Procs |-> <<>>]
  /\ hpc = "idle"
  /\ taken = 0 /\ busy = {}
  /\ irq = FALSE
  /\ calls = 0
  /\ panicked = FALSE

Succ(k) == (k + 1) % UINT16

\* pc after wakeup(&disk.free[0])
WakeFree(f) == [p \in Procs |-> IF f[p] = "nofree" THEN "alloc" ELSE f[p]]

----------------------------------------------------------------------------
(* virtio_disk_rw() *)

\* The caller: bread() with a buffer that is not valid, or bwrite().
Call(p) ==
  /\ pc[p] = "idle"
  /\ calls < MaxCalls
  /\ calls' = calls + 1
  /\ pc' = [pc EXCEPT ![p] = "alloc"]
  /\ moved' = [moved EXCEPT ![p] = FALSE]
  /\ UNCHANGED <<driver, device, status, lock, bdisk, idx, hpc, panicked>>

\* The k-th free descriptor, lowest number first: what alloc_desc() returns.
NthFree(k, d) == free[d] /\ Cardinality({e \in Descs : free[e] /\ e < d}) = k - 1

\* alloc3_desc() fails: it gives back what it got, and free_desc() wakes whoever
\* waits for a descriptor; then sleep(&disk.free[0], &disk.vdisk_lock).
AllocFail(p) ==
  /\ pc' = [IF \E d \in Descs : free[d] THEN WakeFree(pc) ELSE pc EXCEPT ![p] = "nofree"]
  /\ UNCHANGED free

\* acquire(&disk.vdisk_lock), alloc3_desc(), and the three descriptors
Alloc(p) ==
  /\ pc[p] = "alloc"
  /\ lock = NoProc
  /\ IF Cardinality({d \in Descs : free[d]}) < 3
     THEN AllocFail(p) /\ UNCHANGED <<desc, infob, status, aring, lock, bdisk, idx>>
     ELSE \E d1, d2, d3 \in Descs :
            /\ NthFree(1, d1) /\ NthFree(2, d2) /\ NthFree(3, d3)
            /\ free' = [free EXCEPT ![d1] = FALSE, ![d2] = FALSE, ![d3] = FALSE]
            /\ idx' = [idx EXCEPT ![p] = <<d1, d2, d3>>]
            /\ desc' = [desc EXCEPT ![d1] = [to |-> <<"op", d1>>, next |-> d2],
                                    ![d2] = [to |-> <<"data", p>>, next |-> d3],
                                    ![d3] = [to |-> <<"status", d1>>, next |-> None]]
            /\ status' = [status EXCEPT ![d1] = 255]
            /\ bdisk' = [bdisk EXCEPT ![p] = TRUE]
            /\ infob' = [infob EXCEPT ![d1] = p]
            /\ aring' = [aring EXCEPT ![aidx % NUM] = d1]
            /\ lock' = p
            /\ pc' = [pc EXCEPT ![p] = "publish"]
  /\ UNCHANGED <<aidx, used_idx, device, moved, hpc, calls, panicked>>

\* disk.avail->idx += 1 and the notification; then the process looks at b->disk.
Publish(p) ==
  /\ pc[p] = "publish"
  /\ aidx' = Succ(aidx)
  /\ pc' = [pc EXCEPT ![p] = "waiting"]
  /\ UNCHANGED <<free, desc, infob, aring, used_idx, device, status, lock, bdisk,
                 moved, idx, hpc, calls, panicked>>

\* The chain that starts at d, as free_chain() follows it.
Chain(d) ==
  LET e == desc[d].next IN
  IF e = None THEN {d} ELSE {d, e} \cup (IF desc[e].next = None THEN {} ELSE {desc[e].next})

\* Mutant: only the first descriptor of the chain is freed.
FreedHead(d) == {d}

Freed(d) == Chain(d)

\* Mutant: "if" instead of "while".
MustWaitOnce(p) == bdisk[p] /\ pc[p] = "waiting"

MustWait(p) == bdisk[p]

\* while(b->disk == 1) sleep(b, &disk.vdisk_lock), else the request is finished
\* and its descriptors are freed.
Wait(p) ==
  LET d1 == idx[p][1] IN
  /\ pc[p] \in {"waiting", "recheck"}
  /\ lock' = NoProc
  /\ IF MustWait(p)
     THEN pc' = [pc EXCEPT ![p] = "asleep"] /\ UNCHANGED <<free, desc, infob, idx, panicked>>
     ELSE /\ infob' = [infob EXCEPT ![d1] = NoProc]
          /\ panicked' = \E d \in Freed(d1) : free[d]
          /\ free' = [d \in Descs |-> free[d] \/ d \in Freed(d1)]
          /\ desc' = [d \in Descs |-> IF d \in Freed(d1) THEN Nothing ELSE desc[d]]
          /\ pc' = [WakeFree(pc) EXCEPT ![p] = "idle"]
          /\ idx' = [idx EXCEPT ![p] = <<>>]
  /\ UNCHANGED <<aring, aidx, used_idx, device, status, bdisk, moved, hpc, calls>>

\* sleep() returns with the lock, after wakeup(b).
Relock(p) ==
  /\ pc[p] = "woken"
  /\ lock = NoProc
  /\ lock' = p
  /\ pc' = [pc EXCEPT ![p] = "recheck"]
  /\ UNCHANGED <<driver, device, status, bdisk, moved, idx, hpc, calls, panicked>>

\* kkill() makes a sleeper runnable although its condition does not hold.
Kill(p) ==
  /\ pc[p] \in {"asleep", "nofree"}
  /\ pc' = [pc EXCEPT ![p] = IF @ = "asleep" THEN "woken" ELSE "alloc"]
  /\ UNCHANGED <<driver, device, status, lock, bdisk, moved, idx, hpc, calls, panicked>>

----------------------------------------------------------------------------
(* virtio_disk_intr(), run by some CPU when the device interrupts *)

IntrAck ==
  /\ irq
  /\ hpc = "idle"
  /\ lock = NoProc
  /\ lock' = Handler
  /\ irq' = FALSE
  /\ hpc' = "loop"
  /\ UNCHANGED <<driver, uring, uidx, taken, busy, status, bdisk, moved, pc, idx,
                 calls, panicked>>

Entry == uring[used_idx % NUM]

\* pc after wakeup(b)
WakeBuf(f, p) == [q \in Procs |-> IF q = p /\ f[q] = "asleep" THEN "woken" ELSE f[q]]

\* One entry of the used ring; info[id].b = 0 would be a fault.
IntrEntry ==
  LET id == Entry
      p == infob[id] IN
  /\ hpc = "loop"
  /\ used_idx # uidx
  /\ IF status[id] # 0 \/ p = NoProc
     THEN panicked' = TRUE /\ UNCHANGED <<bdisk, pc, used_idx>>
     ELSE /\ bdisk' = [q \in Procs |-> bdisk[q] /\ q # p]
          /\ pc' = WakeBuf(pc, p)
          /\ used_idx' = Succ(used_idx)
          /\ UNCHANGED panicked
  /\ UNCHANGED <<free, desc, infob, aring, aidx, device, status, lock, moved, idx,
                 hpc, calls>>

\* The loop has caught up with the device.
IntrCaughtUp ==
  /\ hpc = "loop"
  /\ used_idx = uidx
  /\ hpc' = "exit"
  /\ UNCHANGED <<driver, device, status, lock, bdisk, moved, pc, idx, calls, panicked>>

\* Mutant: the interrupt is acknowledged again after the loop.
IntrReturnAcking ==
  /\ hpc = "exit"
  /\ hpc' = "idle"
  /\ lock' = NoProc
  /\ irq' = FALSE
  /\ UNCHANGED <<driver, uring, uidx, taken, busy, status, bdisk, moved, pc, idx,
                 calls, panicked>>

IntrReturn ==
  /\ hpc = "exit"
  /\ hpc' = "idle"
  /\ lock' = NoProc
  /\ UNCHANGED <<driver, device, status, bdisk, moved, pc, idx, calls, panicked>>

----------------------------------------------------------------------------
(* The device *)

\* The device takes the next request from the avail ring.
Take ==
  /\ taken # aidx
  /\ busy' = busy \cup {aring[taken % NUM]}
  /\ taken' = Succ(taken)
  /\ UNCHANGED <<driver, uring, uidx, irq, status, lock, bdisk, moved, pc, idx,
                 hpc, calls, panicked>>

\* It serves the request that starts at descriptor d, following the chain, and
\* raises an interrupt.
Serve(d) ==
  LET e == desc[d].next
      p == desc[e].to[2]
      s == desc[desc[e].next].to[2] IN
  /\ d \in busy
  /\ moved' = [moved EXCEPT ![p] = TRUE]
  /\ status' = [status EXCEPT ![s] = 0]
  /\ uring' = [uring EXCEPT ![uidx % NUM] = d]
  /\ uidx' = Succ(uidx)
  /\ busy' = busy \ {d}
  /\ irq' = TRUE
  /\ UNCHANGED <<driver, taken, lock, bdisk, pc, idx, hpc, calls, panicked>>

----------------------------------------------------------------------------

Step(p) == Alloc(p) \/ Publish(p) \/ Wait(p) \/ Relock(p)
Intr == IntrAck \/ IntrEntry \/ IntrCaughtUp \/ IntrReturn
Device == Take \/ \E d \in Descs : Serve(d)

Next ==
  /\ ~panicked
  /\ \/ \E p \in Procs : Step(p) \/ Kill(p) \/ Call(p)
     \/ Intr
     \/ Device

Spec == Init /\ [][Next]_vars

----------------------------------------------------------------------------
(* Properties *)

\* virtio_disk_rw() returns only after the device has moved the data of this
\* request, whatever completions of other requests the handler has processed; and
\* no check of the driver fails.
RequestDone == ~panicked /\ \A p \in Procs : pc[p] = "idle" => moved[p]

\* The requests whose chain a descriptor belongs to.
Users(d) == {p \in Procs : idx[p] # <<>> /\ d \in {idx[p][k] : k \in 1..3}}

\* A descriptor is free or belongs to the chain of exactly one request, so no
\* descriptor leaks, also when alloc3_desc() fails half-way.
DescsAccounted ==
  \A d \in Descs : IF free[d] THEN Users(d) = {} ELSE \E p \in Procs : Users(d) = {p}

\* Whoever sleeps will be woken: a process asleep on its buffer has a request that
\* the device has yet to finish, or whose completion is in the used ring with an
\* interrupt pending or being handled.
CompletionPending ==
  \A p \in Procs : pc[p] = "asleep" =>
    /\ bdisk[p]
    /\ ~irq /\ hpc = "idle" => used_idx = uidx /\ status[idx[p][1]] # 0
=============================================================================
