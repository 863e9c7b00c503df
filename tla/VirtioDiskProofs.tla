------------------------- MODULE VirtioDiskProofs -------------------------
(***************************************************************************)
(* The disk driver keeps its descriptors, its rings and its sleepers in    *)
(* order for any number of descriptors, of processes and of calls.         *)
(***************************************************************************)
EXTENDS VirtioDisk, Integers, WellFoundedInduction, TLAPS

----------------------------------------------------------------------------
(* Remainders *)

LEMMA ModRange ==
  ASSUME NEW n \in Nat \ {0}, NEW x \in Nat
  PROVE  x % n \in 0..n - 1
OBVIOUS

LEMMA ModDef ==
  ASSUME NEW n \in Nat \ {0}, NEW x \in Nat
  PROVE  x \div n \in Nat /\ x = n * (x \div n) + (x % n)
OBVIOUS

LEMMA ModUnique ==
  ASSUME NEW n \in Nat \ {0}, NEW q \in Nat, NEW r \in 0..n - 1
  PROVE  (n * q + r) % n = r
OBVIOUS

LEMMA TimesSucc ==
  ASSUME NEW n \in Nat, NEW m \in Nat
  PROVE  n * (m + 1) = n * m + n /\ n * m \in Nat
OBVIOUS

\* Fewer than n numbers in a row have different remainders.
LEMMA ModDistinct ==
  ASSUME NEW n \in Nat \ {0}, NEW x \in Nat, NEW y \in Nat, x < y, y < x + n
  PROVE  x % n # y % n
<1> SUFFICES ASSUME x % n = y % n PROVE FALSE
  OBVIOUS
<1>1. PICK q \in Nat, k \in Nat, r \in 0..n - 1 : x = n * q + r /\ y = n * k + r
  <2>1. x \div n \in Nat /\ x = n * (x \div n) + (x % n)
    BY ModDef
  <2>2. y \div n \in Nat /\ y = n * (y \div n) + (x % n)
    BY ModDef
  <2>3. x % n \in 0..n - 1
    BY ModRange
  <2> QED
    BY <2>1, <2>2, <2>3, Zenon
<1>2. y - x = n * (k - q)
  BY <1>1
<1>3. k > q
  <2> SUFFICES ASSUME k <= q PROVE FALSE
    OBVIOUS
  <2>1. n * (q - k) >= 0
    OBVIOUS
  <2> QED
    BY <1>1, <2>1
<1>4. PICK m \in Nat : k - q = m + 1
  BY <1>3
<1>5. n * (m + 1) = n * m + n /\ n * m \in Nat
  BY TimesSucc
<1> QED
  BY <1>2, <1>4, <1>5

LEMMA ModSucc ==
  ASSUME NEW u \in Nat \ {0}, NEW x \in Nat
  PROVE  ((x % u) + 1) % u = (x + 1) % u
<1>1. PICK q \in Nat, r \in 0..u - 1 : x = u * q + r /\ r = x % u
  BY ModDef, ModRange, Zenon
<1>2. CASE r + 1 < u
  <2>1. (u * q + (r + 1)) % u = r + 1
    BY <1>2, ModUnique
  <2>2. (u * 0 + (r + 1)) % u = r + 1
    BY <1>2, ModUnique
  <2> QED
    BY <1>1, <2>1, <2>2
<1>3. CASE r + 1 = u
  <2>1. (u * (q + 1) + 0) % u = 0 /\ (u * 1 + 0) % u = 0
    BY ModUnique
  <2>2. x + 1 = u * (q + 1) + 0 /\ r + 1 = u * 1 + 0
    BY <1>1, <1>3
  <2> QED
    BY <1>1, <2>1, <2>2, Zenon
<1> QED
  BY <1>2, <1>3

LEMMA TimesAssoc ==
  ASSUME NEW n \in Nat, NEW k \in Nat, NEW q \in Nat, NEW j \in Nat, NEW s \in Nat
  PROVE  (n * k) * q + (n * j + s) = n * (k * q + j) + s /\ k * q \in Nat
OBVIOUS

\* A ring of n cells indexed by a counter that wraps at a multiple of n.
LEMMA ModOfMod ==
  ASSUME NEW n \in Nat \ {0}, NEW u \in Nat \ {0}, u % n = 0, NEW x \in Nat
  PROVE  (x % u) % n = x % n
<1>1. PICK q \in Nat, r \in 0..u - 1 : x = u * q + r /\ r = x % u
  BY ModDef, ModRange, Zenon
<1>2. PICK k \in Nat : u = n * k
  <2>1. u \div n \in Nat /\ u = n * (u \div n) + (u % n)
    BY ModDef
  <2>2. n * (u \div n) \in Nat
    BY <2>1
  <2>3. n * (u \div n) + 0 = n * (u \div n)
    BY <2>2
  <2> QED
    BY <2>1, <2>3, Zenon
<1>3. PICK j \in Nat, s \in 0..n - 1 : r = n * j + s /\ s = r % n
  <2>1. r \in Nat
    OBVIOUS
  <2> QED
    BY <2>1, ModDef, ModRange, Zenon
<1>4. x = n * (k * q + j) + s /\ k * q + j \in Nat
  <2>1. x = (n * k) * q + (n * j + s)
    BY <1>1, <1>2, <1>3, Zenon
  <2>2. (n * k) * q + (n * j + s) = n * (k * q + j) + s /\ k * q \in Nat
    BY TimesAssoc
  <2> QED
    BY <2>1, <2>2
<1>5. (n * (k * q + j) + s) % n = s
  BY <1>4, ModUnique
<1> QED
  BY <1>1, <1>3, <1>4, <1>5, Zenon

----------------------------------------------------------------------------
(* Counting *)

\* A set of numbers has a least one: what stands for induction in these proofs.
LEMMA Least ==
  ASSUME NEW T \in SUBSET Nat, T # {}
  PROVE  \E m \in T : \A k \in T : ~(k < m)
<1> DEFINE R == OpToRel(<, Nat)
<1>1. PICK m \in T : \A k \in T : ~(<<k, m>> \in R)
  <2> HIDE DEF R
  <2>1. IsWellFoundedOn(R, Nat)
    BY NatLessThanWellFounded DEF R
  <2> QED
    BY <2>1, WFMin, Zenon
<1> QED
  BY <1>1, Zenon DEF OpToRel

Into(f, n) ==
  f \in [0..n -> 0..n - 1] /\ \A i, j \in 0..n : f[i] = f[j] => i = j

\* No n + 1 numbers below n are all different.
LEMMA Crowded ==
  ASSUME NEW n \in Nat, NEW f, Into(f, n)
  PROVE  FALSE
<1> DEFINE T == {m \in Nat : \E g : Into(g, m)}
<1>1. T \in SUBSET Nat /\ T # {}
  OBVIOUS
<1>3. PICK m \in T : \A k \in T : ~(k < m)
  <2> HIDE DEF T
  <2> QED
    BY <1>1, Least
<1>4. PICK g : Into(g, m)
  OBVIOUS
<1>5. m # 0
  BY <1>4 DEF Into
<1> DEFINE h == [i \in 0..m - 1 |-> IF g[i] = m - 1 THEN g[m] ELSE g[i]]
<1>6. /\ \A i \in 0..m : g[i] \in 0..m - 1
      /\ \A i, j \in 0..m : g[i] = g[j] => i = j
  BY <1>4, Zenon DEF Into
<1>7. /\ h \in [0..m - 1 -> 0..(m - 1) - 1]
      /\ \A i, j \in 0..m - 1 : h[i] = h[j] => i = j
  <2>1. m \in Nat \ {0} /\ m \in 0..m /\ 0..m - 1 \subseteq 0..m /\ m \notin 0..m - 1
    BY <1>5
  <2>2. ASSUME NEW i \in 0..m - 1
        PROVE  /\ h[i] \in 0..(m - 1) - 1
               /\ g[i] # g[m]
    <3>1. i \in 0..m /\ i # m /\ m \in 0..m
      BY <2>1
    <3>2. g[i] \in 0..m - 1 /\ g[m] \in 0..m - 1 /\ g[i] # g[m]
      BY <1>6, <3>1
    <3> QED
      BY <2>1, <3>2
  <2>3. ASSUME NEW i \in 0..m - 1, NEW j \in 0..m - 1, h[i] = h[j] PROVE i = j
    <3>1. g[i] # g[m] /\ g[j] # g[m]
      BY <2>2
    <3>2. g[i] = g[j]
      BY <2>3, <3>1
    <3> QED
      BY <1>6, <2>1, <3>2, Zenon
  <2>4. h \in [0..m - 1 -> 0..(m - 1) - 1]
    BY <2>2
  <2> QED
    BY <2>3, <2>4
<1> HIDE DEF h
<1>8. Into(h, m - 1) /\ m - 1 \in Nat
  <2>1. m - 1 \in Nat
    BY <1>5
  <2> QED
    BY <1>7, <2>1, Zenon DEF Into
<1>9. m - 1 \in T
  BY <1>8
<1> QED
  BY <1>3, <1>9

LEMMA Pigeonhole ==
  ASSUME NEW k \in Nat, NEW n \in Nat, NEW f \in [0..k -> 0..n - 1],
         \A i, j \in 0..k : f[i] = f[j] => i = j
  PROVE  k < n
<1> SUFFICES ASSUME n <= k PROVE FALSE
  OBVIOUS
<1> DEFINE g == [i \in 0..n |-> f[i]]
<1>1. Into(g, n)
  BY DEF Into
<1> QED
  BY <1>1, Crowded

----------------------------------------------------------------------------
(* A ring with a producer and a consumer *)

Window(ring, L, H) == {ring[n % NUM] : n \in L..H - 1}

\* The consumer, at index lo, has still to read the entries S, each of which the
\* producer, at index hi, wrote once.
Holds(ring, lo, hi, L, H, S) ==
  /\ L <= H /\ H < L + NUM
  /\ lo = L % UINT16 /\ hi = H % UINT16
  /\ S = Window(ring, L, H)
  /\ \A m, n \in L..H - 1 : ring[m % NUM] = ring[n % NUM] => m = n

Ring(ring, lo, hi, S) == \E L, H \in Nat : Holds(ring, lo, hi, L, H, S)

LEMMA Sizes == NUM \in Nat \ {0} /\ UINT16 \in Nat \ {0} /\ UINT16 % NUM = 0 /\ UINT16 >= NUM
BY VirtioAssumption

\* Equal indices mean an empty ring, also after they have wrapped round.
LEMMA RingEmpty ==
  ASSUME NEW ring, NEW lo, NEW hi, NEW S, Ring(ring, lo, hi, S), lo = hi
  PROVE  S = {}
<1>1. PICK L \in Nat, H \in Nat : Holds(ring, lo, hi, L, H, S)
  BY DEF Ring
<1>2. L = H
  <2> SUFFICES ASSUME L < H PROVE FALSE
    BY <1>1 DEF Holds
  <2>1. H < L + UINT16
    BY <1>1, Sizes DEF Holds
  <2>2. L % UINT16 # H % UINT16
    BY <2>1, Sizes, ModDistinct, Zenon
  <2> QED
    BY <1>1, <2>2, Zenon DEF Holds
<1> QED
  BY <1>1, <1>2 DEF Holds, Window

LEMMA IndexInRing ==
  ASSUME NEW x \in Nat
  PROVE  /\ x % NUM \in Descs
         /\ (x % UINT16) % NUM = x % NUM
         /\ Succ(x % UINT16) = (x + 1) % UINT16
<1>1. x % NUM \in Descs
  BY Sizes, ModRange DEF Descs
<1>2. (x % UINT16) % NUM = x % NUM
  BY Sizes, ModOfMod, Zenon
<1>3. ((x % UINT16) + 1) % UINT16 = (x + 1) % UINT16
  BY Sizes, ModSucc, Zenon
<1> QED
  BY <1>1, <1>2, <1>3 DEF Succ

\* The consumer reads an entry.
LEMMA RingPop ==
  ASSUME NEW ring, NEW lo, NEW hi, NEW S, Ring(ring, lo, hi, S), lo # hi
  PROVE  ring[lo % NUM] \in S /\ Ring(ring, Succ(lo), hi, S \ {ring[lo % NUM]})
<1>1. PICK L \in Nat, H \in Nat : Holds(ring, lo, hi, L, H, S)
  BY DEF Ring
<1>2. L < H
  BY <1>1 DEF Holds
<1>3. lo % NUM = L % NUM /\ Succ(lo) = (L + 1) % UINT16
  BY <1>1, IndexInRing DEF Holds
<1>4. ring[lo % NUM] \in S
  BY <1>1, <1>2, <1>3 DEF Holds, Window
<1>5. S \ {ring[lo % NUM]} = Window(ring, L + 1, H)
  <2>1. \A n \in L..H - 1 : n = L \/ n \in L + 1..H - 1
    OBVIOUS
  <2>2. \A n \in L + 1..H - 1 : n \in L..H - 1 /\ ring[n % NUM] # ring[L % NUM]
    BY <1>1, <1>2 DEF Holds
  <2> QED
    BY <1>1, <1>3, <2>1, <2>2, Zenon DEF Holds, Window
<1>6. Holds(ring, Succ(lo), hi, L + 1, H, S \ {ring[lo % NUM]})
  <2>1. L + 1 <= H /\ H < (L + 1) + NUM
    BY <1>1, <1>2, Sizes DEF Holds
  <2>2. \A m, n \in L + 1..H - 1 : ring[m % NUM] = ring[n % NUM] => m = n
    <3>1. L + 1..H - 1 \subseteq L..H - 1
      OBVIOUS
    <3> QED
      BY <1>1, <3>1, Zenon DEF Holds
  <2>3. hi = H % UINT16
    BY <1>1 DEF Holds
  <2> QED
    BY <1>3, <1>5, <2>1, <2>2, <2>3, Zenon DEF Holds
<1> QED
  BY <1>4, <1>6 DEF Ring

\* What the producer writes ahead of its index is not in the ring yet, and does
\* not overwrite what is.
LEMMA RingWrite ==
  ASSUME NEW ring, NEW after, NEW lo, NEW hi, NEW S, Ring(ring, lo, hi, S),
         \A k \in Descs : k # hi % NUM => after[k] = ring[k]
  PROVE  hi % NUM \in Descs /\ Ring(after, lo, hi, S)
<1>1. PICK L \in Nat, H \in Nat : Holds(ring, lo, hi, L, H, S)
  BY DEF Ring
<1>2. hi % NUM = H % NUM /\ hi % NUM \in Descs
  BY <1>1, IndexInRing DEF Holds
<1>3. ASSUME NEW n \in L..H - 1 PROVE n % NUM \in Descs /\ after[n % NUM] = ring[n % NUM]
  <2>1. n \in Nat /\ n < H /\ H < n + NUM
    BY <1>1, Sizes DEF Holds
  <2>2. n % NUM # H % NUM
    BY <2>1, Sizes, ModDistinct, Zenon
  <2>3. n % NUM \in Descs
    BY <2>1, IndexInRing
  <2> QED
    BY <1>2, <2>2, <2>3
<1>4. Window(after, L, H) = Window(ring, L, H)
  BY <1>3, Zenon DEF Window
<1>5. Holds(after, lo, hi, L, H, S)
  BY <1>1, <1>3, <1>4 DEF Holds
<1> QED
  BY <1>2, <1>5 DEF Ring

\* The producer publishes the entry that it has written.  There is room: the
\* entries in the ring are different descriptors, and two are not among them.
LEMMA RingPush ==
  ASSUME NEW ring \in [Descs -> Descs], NEW lo, NEW hi, NEW S,
         Ring(ring, lo, hi, S),
         NEW e \in Descs, ring[hi % NUM] \notin S, e \notin S, e # ring[hi % NUM]
  PROVE  Ring(ring, lo, Succ(hi), S \cup {ring[hi % NUM]})
<1>1. PICK L \in Nat, H \in Nat : Holds(ring, lo, hi, L, H, S)
  BY DEF Ring
<1>2. hi % NUM = H % NUM /\ hi % NUM \in Descs /\ Succ(hi) = (H + 1) % UINT16
  BY <1>1, IndexInRing DEF Holds
<1> DEFINE d == ring[hi % NUM]
<1>3. d \in Descs
  BY <1>2
<1>4. H + 1 < L + NUM
  <2> DEFINE f == [n \in 0..H - L + 1 |-> IF L + n < H THEN ring[(L + n) % NUM]
                                        ELSE IF L + n = H THEN d ELSE e]
  <2>1. \A n \in L..H - 1 : ring[n % NUM] \in S
    BY <1>1 DEF Holds, Window
  <2>2. \A n \in L..H - 1 : ring[n % NUM] \in Descs
    <3>1. \A n \in L..H - 1 : n % NUM \in Descs
      BY IndexInRing
    <3> QED
      BY <3>1
  <2>3. L <= H /\ \A m, n \in L..H - 1 : ring[m % NUM] = ring[n % NUM] => m = n
    BY <1>1 DEF Holds
  <2> HIDE DEF d
  <2>4. f \in [0..H - L + 1 -> 0..NUM - 1]
    BY <1>3, <2>2, <2>3 DEF Descs
  <2>5. \A m, n \in 0..H - L + 1 : f[m] = f[n] => m = n
    BY <2>1, <2>3 DEF d
  <2> HIDE DEF f
  <2>6. H - L + 1 < NUM
    BY <2>3, <2>4, <2>5, Sizes, Pigeonhole, SMTT(30)
  <2> QED
    BY <2>6, Sizes
<1>5. L..(H + 1) - 1 = (L..H - 1) \cup {H}
  BY <1>1 DEF Holds
<1>6. Window(ring, L, H + 1) = S \cup {d}
  <2>1. S = Window(ring, L, H)
    BY <1>1 DEF Holds
  <2> QED
    BY <1>2, <1>5, <2>1, Zenon DEF Window
<1>7. \A m, n \in L..(H + 1) - 1 : ring[m % NUM] = ring[n % NUM] => m = n
  <2>1. \A m \in L..H - 1 : ring[m % NUM] \in S
    BY <1>1 DEF Holds, Window
  <2>2. \A m, n \in L..H - 1 : ring[m % NUM] = ring[n % NUM] => m = n
    BY <1>1 DEF Holds
  <2> QED
    BY <1>2, <1>5, <2>1, <2>2, Zenon
<1>8. lo = L % UINT16 /\ L <= H + 1
  BY <1>1 DEF Holds
<1>9. Holds(ring, lo, Succ(hi), L, H + 1, S \cup {d})
  BY <1>2, <1>4, <1>6, <1>7, <1>8, Zenon DEF Holds
<1> QED
  BY <1>9 DEF Ring

----------------------------------------------------------------------------
(* The inductive invariant *)

\* Labels of a process with a request, and those with the lock.
InRequest == {"publish", "waiting", "asleep", "woken", "recheck"}
WithLock == {"publish", "waiting", "recheck"}
Labels == {"idle", "alloc", "nofree"} \cup InRequest
Targets == ({"nothing", "op", "status"} \X Descs) \cup ({"data"} \X Procs)

TypeInv ==
  /\ free \in [Descs -> BOOLEAN]
  /\ desc \in [Descs -> [to : Targets, next : Descs \cup {None}]]
  /\ infob \in [Descs -> Procs \cup {NoProc}]
  /\ status \in [Descs -> {0, 255}]
  /\ aring \in [Descs -> Descs] /\ uring \in [Descs -> Descs]
  /\ lock \in Procs \cup {NoProc, Handler}
  /\ bdisk \in [Procs -> BOOLEAN] /\ moved \in [Procs -> BOOLEAN]
  /\ pc \in [Procs -> Labels]
  /\ idx \in [Procs -> {<<>>} \cup Descs \X Descs \X Descs]
  /\ hpc \in {"idle", "loop", "exit"}
  /\ busy \in SUBSET Descs
  /\ irq \in BOOLEAN /\ panicked \in BOOLEAN

\* vdisk_lock is held by whoever is between acquire() and release() or sleep().
LockInv ==
  /\ \A p \in Procs : pc[p] \in WithLock <=> lock = p
  /\ hpc # "idle" <=> lock = Handler

\* The descriptors of a request are chained as virtio_disk_rw() chained them.
Chained(p, d1, d2, d3) ==
  /\ d1 # d2 /\ d1 # d3 /\ d2 # d3
  /\ idx[p] = <<d1, d2, d3>>
  /\ desc[d1].next = d2
  /\ desc[d2] = [to |-> <<"data", p>>, next |-> d3]
  /\ desc[d3] = [to |-> <<"status", d1>>, next |-> None]
  /\ infob[d1] = p

Owns(p, d) == pc[p] \in InRequest /\ (d = idx[p][1] \/ d = idx[p][2] \/ d = idx[p][3])

ChainInv ==
  \A p \in Procs :
    IF pc[p] \in InRequest THEN \E d1, d2, d3 \in Descs : Chained(p, d1, d2, d3)
    ELSE idx[p] = <<>>

OwnerInv ==
  /\ \A d \in Descs : free[d] <=> \A p \in Procs : ~Owns(p, d)
  /\ \A d \in Descs, p, q \in Procs : Owns(p, d) /\ Owns(q, d) => p = q

\* Where the request of p is: written, in the avail ring av, at the device, in
\* the used ring us, or completed.
StageOf(p, av, us) ==
  LET d == idx[p][1]
      here == d \in av \cup busy \cup us IN
  /\ pc[p] = "publish" => ~here /\ aring[aidx % NUM] = d
  /\ bdisk[p] <=> pc[p] = "publish" \/ here
  /\ status[d] = 0 <=> pc[p] # "publish" /\ d \notin av \cup busy
  /\ status[d] = 0 => moved[p]

Stage(av, us) ==
  /\ Ring(aring, taken, aidx, av) /\ Ring(uring, used_idx, uidx, us)
  /\ av \cap busy = {} /\ av \cap us = {} /\ busy \cap us = {}
  /\ \A d \in av \cup busy \cup us : \E p \in Procs : pc[p] \in InRequest /\ d = idx[p][1]
  /\ \A p \in Procs : pc[p] \in InRequest => StageOf(p, av, us)

StageInv == \E av, us \in SUBSET Descs : Stage(av, us)

DoneInv ==
  /\ \A p \in Procs : pc[p] = "idle" => moved[p]
  /\ \A p \in Procs : pc[p] = "asleep" => bdisk[p]
  /\ ~irq /\ hpc # "loop" => used_idx = uidx
  /\ ~panicked

IInv == TypeInv /\ LockInv /\ ChainInv /\ OwnerInv /\ StageInv /\ DoneInv

----------------------------------------------------------------------------
(* What a step leaves alone *)

\* Which processes have a request, and which of these is yet to publish it.
SameRequests ==
  \A p \in Procs : /\ pc'[p] \in InRequest <=> pc[p] \in InRequest
                   /\ pc'[p] = "publish" <=> pc[p] = "publish"

LEMMA RequestsKept ==
  ASSUME ChainInv, OwnerInv, SameRequests, UNCHANGED <<free, desc, infob, idx>>
  PROVE  ChainInv' /\ OwnerInv'
<1>1. ChainInv'
  <2>1. ASSUME NEW p, NEW d1, NEW d2, NEW d3, Chained(p, d1, d2, d3)
        PROVE  Chained(p, d1, d2, d3)'
    BY <2>1 DEF Chained
  <2> QED
    BY <2>1, Zenon DEF ChainInv, SameRequests, InRequest
<1>2. OwnerInv'
  BY ZenonT(90) DEF OwnerInv, Owns, SameRequests, InRequest
<1> QED
  BY <1>1, <1>2

LEMMA StageKept ==
  ASSUME StageInv, SameRequests,
         UNCHANGED <<aring, aidx, taken, uring, uidx, used_idx, busy, idx, bdisk, status>>,
         \A p \in Procs : pc[p] \in InRequest /\ moved[p] => moved'[p]
  PROVE  StageInv'
<1>1. PICK av \in SUBSET Descs, us \in SUBSET Descs : Stage(av, us)
  BY DEF StageInv
<1>2. ASSUME NEW p \in Procs, pc'[p] \in InRequest PROVE StageOf(p, av, us)'
  BY <1>1, <1>2, Zenon DEF Stage, StageOf, SameRequests
<1>3. Ring(aring, taken, aidx, av)' /\ Ring(uring, used_idx, uidx, us)'
  BY <1>1, Zenon DEF Stage
<1>4. Stage(av, us)'
  BY <1>1, <1>2, <1>3, ZenonT(30) DEF Stage, SameRequests
<1> QED
  BY <1>4 DEF StageInv

\* Every entry of the rings and every request at the device is somebody's first
\* descriptor, so a descriptor that is free, or another one of a chain, is none.
LEMMA HeadsOwned ==
  ASSUME NEW av, NEW us, Stage(av, us), ChainInv, OwnerInv
  PROVE  \A d \in av \cup busy \cup us : \E p \in Procs : Owns(p, d) /\ d = idx[p][1]
BY Zenon DEF Stage, Owns

\* What is known of a request.
LEMMA RequestOf ==
  ASSUME NEW p \in Procs, pc[p] \in InRequest, ChainInv
  PROVE  \E d1, d2, d3 \in Descs :
           /\ Chained(p, d1, d2, d3)
           /\ idx[p][1] = d1 /\ idx[p][2] = d2 /\ idx[p][3] = d3
           /\ \A d \in Descs : Owns(p, d) <=> d \in {d1, d2, d3}
<1>1. PICK d1 \in Descs, d2 \in Descs, d3 \in Descs : Chained(p, d1, d2, d3)
  BY Zenon DEF ChainInv
<1>2. idx[p][1] = d1 /\ idx[p][2] = d2 /\ idx[p][3] = d3
  BY <1>1 DEF Chained
<1>3. \A d \in Descs : Owns(p, d) <=> d \in {d1, d2, d3}
  BY <1>2, Zenon DEF Owns
<1> QED
  BY <1>1, <1>2, <1>3, Zenon

----------------------------------------------------------------------------
(* virtio_disk_rw() *)

LEMMA InitInv == Init => IInv
<1> SUFFICES ASSUME Init PROVE IInv
  OBVIOUS
<1>1. TypeInv
  <2>1. 0 \in Descs
    BY Sizes DEF Descs
  <2>2. Nothing \in [to : Targets, next : Descs \cup {None}]
    BY <2>1 DEF Nothing, Targets
  <2> QED
    BY <2>1, <2>2, Zenon DEF Init, TypeInv, Labels
<1>2. LockInv
  BY VirtioAssumption DEF Init, LockInv, WithLock
<1>3. ChainInv /\ OwnerInv
  BY DEF Init, ChainInv, OwnerInv, Owns, InRequest
<1>4. Stage({}, {})
  <2>1. 0 % UINT16 = 0
    BY Sizes
  <2>2. \A ring : Window(ring, 0, 0) = {}
    BY DEF Window
  <2>3. Holds(aring, taken, aidx, 0, 0, {}) /\ Holds(uring, used_idx, uidx, 0, 0, {})
    BY <2>1, <2>2, Sizes DEF Init, Holds
  <2>4. Ring(aring, taken, aidx, {}) /\ Ring(uring, used_idx, uidx, {})
    BY <2>3 DEF Ring
  <2> QED
    BY <2>4 DEF Stage, Init, InRequest
<1>5. StageInv
  BY <1>4 DEF StageInv
<1>6. DoneInv
  BY DEF Init, DoneInv
<1> QED
  BY <1>1, <1>2, <1>3, <1>5, <1>6 DEF IInv

LEMMA CallInv ==
  ASSUME IInv, NEW p \in Procs, Call(p)
  PROVE  IInv'
<1> USE DEF IInv
<1>1. TypeInv'
  BY DEF TypeInv, Call, driver, device, Labels
<1>2. LockInv'
  BY DEF TypeInv, LockInv, Call, WithLock
<1>3. SameRequests
  BY DEF TypeInv, Call, SameRequests, InRequest
<1>4. ChainInv' /\ OwnerInv'
  BY <1>3, RequestsKept, Zenon DEF Call, driver
<1>5. \A q \in Procs : pc[q] \in InRequest /\ moved[q] => moved'[q]
  BY DEF TypeInv, Call, InRequest
<1>6. StageInv'
  BY <1>3, <1>5, StageKept, Zenon DEF Call, driver, device
<1>7. DoneInv'
  BY Zenon DEF TypeInv, DoneInv, Call, driver, device
<1> QED
  BY <1>1, <1>2, <1>4, <1>6, <1>7, Zenon

LEMMA RelockInv ==
  ASSUME IInv, NEW p \in Procs, Relock(p)
  PROVE  IInv'
<1> USE DEF IInv
<1>1. TypeInv'
  BY DEF TypeInv, Relock, driver, device, Labels, InRequest
<1>2. LockInv'
  BY VirtioAssumption DEF TypeInv, LockInv, Relock, WithLock
<1>3. SameRequests
  BY DEF TypeInv, Relock, SameRequests, InRequest
<1>4. ChainInv' /\ OwnerInv'
  BY <1>3, RequestsKept, Zenon DEF Relock, driver
<1>5. StageInv'
  BY <1>3, StageKept, Zenon DEF Relock, driver, device
<1>6. DoneInv'
  BY Zenon DEF TypeInv, DoneInv, Relock, driver, device
<1> QED
  BY <1>1, <1>2, <1>4, <1>5, <1>6

LEMMA KillInv ==
  ASSUME IInv, NEW p \in Procs, Kill(p)
  PROVE  IInv'
<1> USE DEF IInv
<1>1. TypeInv'
  BY DEF TypeInv, Kill, driver, device, Labels, InRequest
<1>2. LockInv'
  BY DEF TypeInv, LockInv, Kill, WithLock
<1>3. SameRequests
  BY DEF TypeInv, Kill, SameRequests, InRequest
<1>4. ChainInv' /\ OwnerInv'
  BY <1>3, RequestsKept, Zenon DEF Kill, driver
<1>5. StageInv'
  BY <1>3, StageKept, Zenon DEF Kill, driver, device
<1>6. DoneInv'
  BY DEF TypeInv, DoneInv, Kill, driver, device
<1> QED
  BY <1>1, <1>2, <1>4, <1>5, <1>6

\* alloc3_desc() fails: nothing changes but who sleeps.
LEMMA AllocFailInv ==
  ASSUME IInv, NEW p \in Procs, Alloc(p), Cardinality({d \in Descs : free[d]}) < 3
  PROVE  IInv'
<1> USE DEF IInv
<1>1. /\ pc[p] = "alloc"
      /\ pc' = [IF \E d \in Descs : free[d] THEN WakeFree(pc) ELSE pc EXCEPT ![p] = "nofree"]
      /\ UNCHANGED <<driver, device, status, lock, bdisk, idx, moved, hpc, calls, panicked>>
  BY DEF Alloc, AllocFail, driver
<1>2. /\ pc' \in [Procs -> Labels]
      /\ \A q \in Procs : \/ pc'[q] = pc[q]
                          \/ pc[q] \in {"alloc", "nofree"} /\ pc'[q] \in {"alloc", "nofree"}
  <2>1. pc \in [Procs -> Labels] /\ {"alloc", "nofree"} \subseteq Labels
    BY DEF TypeInv, Labels
  <2>2. /\ WakeFree(pc) \in [Procs -> Labels]
        /\ \A q \in Procs : \/ WakeFree(pc)[q] = pc[q]
                            \/ pc[q] = "nofree" /\ WakeFree(pc)[q] = "alloc"
    BY <2>1, Zenon DEF WakeFree
  <2> HIDE DEF IInv
  <2> QED
    BY <1>1, <2>1, <2>2, Zenon
<1>3. TypeInv'
  BY <1>1, <1>2, Zenon DEF TypeInv, driver, device
<1>4. LockInv'
  BY <1>1, <1>2, Zenon DEF LockInv, WithLock
<1>5. SameRequests
  BY <1>2, Zenon DEF SameRequests, InRequest
<1>6. ChainInv' /\ OwnerInv'
  BY <1>1, <1>5, RequestsKept, Zenon DEF driver
<1>7. StageInv'
  BY <1>1, <1>5, StageKept, Zenon DEF driver, device
<1>8. DoneInv'
  BY <1>1, <1>2 DEF DoneInv, driver, device
<1> QED
  BY <1>3, <1>4, <1>6, <1>7, <1>8, Zenon

LEMMA AllocInv ==
  ASSUME IInv, NEW p \in Procs, Alloc(p)
  PROVE  IInv'
<1>1. CASE Cardinality({d \in Descs : free[d]}) < 3
  BY <1>1, AllocFailInv
<1>2. CASE ~(Cardinality({d \in Descs : free[d]}) < 3)
  <2> USE DEF IInv
  <2>1. PICK d1 \in Descs, d2 \in Descs, d3 \in Descs :
          /\ NthFree(1, d1) /\ NthFree(2, d2) /\ NthFree(3, d3)
          /\ free' = [free EXCEPT ![d1] = FALSE, ![d2] = FALSE, ![d3] = FALSE]
          /\ idx' = [idx EXCEPT ![p] = <<d1, d2, d3>>]
          /\ desc' = [desc EXCEPT ![d1] = [to |-> <<"op", d1>>, next |-> d2],
                                  ![d2] = [to |-> <<"data", p>>, next |-> d3],
                                  ![d3] = [to |-> <<"status", d1>>, next |-> None]]
          /\ status' = [status EXCEPT ![d1] = 255]
          /\ bdisk' = [bdisk EXCEPT ![p] = TRUE]
          /\ infob' = [infob EXCEPT ![d1] = p]
          /\ aring' = [aring EXCEPT ![aidx % NUM] = d1]
          /\ lock' = p
          /\ pc' = [pc EXCEPT ![p] = "publish"]
    BY <1>2, Zenon DEF Alloc
  <2>2. /\ pc[p] = "alloc" /\ lock = NoProc
        /\ UNCHANGED <<aidx, used_idx, device, moved, hpc, calls, panicked>>
    BY DEF Alloc
  <2>3. free[d1] /\ free[d2] /\ free[d3] /\ d1 # d2 /\ d1 # d3 /\ d2 # d3
    <3> DEFINE Below(d) == Cardinality({e \in Descs : free[e] /\ e < d})
    <3>1. free[d1] /\ free[d2] /\ free[d3]
      BY <2>1, Zenon DEF NthFree
    <3>2. Below(d1) = 1 - 1 /\ Below(d2) = 2 - 1 /\ Below(d3) = 3 - 1
      BY <2>1, Zenon DEF NthFree
    <3> HIDE DEF Below, IInv
    <3>3. d1 # d2 /\ d1 # d3 /\ d2 # d3
      BY <3>2
    <3> QED
      BY <3>1, <3>3
  <2>4. PICK av \in SUBSET Descs, us \in SUBSET Descs : Stage(av, us)
    BY DEF StageInv
  <2>5. aring' \in [Descs -> Descs] /\ aring'[aidx % NUM] = d1 /\ Ring(aring', taken, aidx, av)
    <3>1. aring \in [Descs -> Descs] /\ Ring(aring, taken, aidx, av)
      BY <2>4, Zenon DEF TypeInv, Stage
    <3>2. aring' = [aring EXCEPT ![aidx % NUM] = d1]
      BY <2>1
    <3>3. \A k \in Descs : k # aidx % NUM => aring'[k] = aring[k]
      BY <3>1, <3>2
    <3>4. aidx % NUM \in Descs /\ Ring(aring', taken, aidx, av)
      BY <3>1, <3>3, RingWrite, ZenonT(30)
    <3> QED
      BY <3>1, <3>2, <3>4, Zenon
  <2>6. TypeInv'
    <3>1. [to |-> <<"op", d1>>, next |-> d2] \in [to : Targets, next : Descs \cup {None}]
      BY DEF Targets
    <3>2. [to |-> <<"data", p>>, next |-> d3] \in [to : Targets, next : Descs \cup {None}]
      BY DEF Targets
    <3>3. [to |-> <<"status", d1>>, next |-> None] \in [to : Targets, next : Descs \cup {None}]
      BY DEF Targets
    <3>4. desc' \in [Descs -> [to : Targets, next : Descs \cup {None}]]
      BY <2>1, <3>1, <3>2, <3>3, ZenonT(30) DEF TypeInv
    <3>5. pc' \in [Procs -> Labels]
      BY <2>1, Zenon DEF TypeInv, Labels, InRequest
    <3>6. idx' \in [Procs -> {<<>>} \cup Descs \X Descs \X Descs]
      BY <2>1, ZenonT(30) DEF TypeInv
    <3>7. free' \in [Descs -> BOOLEAN] /\ bdisk' \in [Procs -> BOOLEAN]
      BY <2>1, ZenonT(30) DEF TypeInv
    <3> QED
      BY <2>1, <2>2, <2>5, <3>4, <3>5, <3>6, <3>7, ZenonT(30) DEF TypeInv, device
  <2>7. LockInv'
    <3>1. /\ pc \in [Procs -> Labels] /\ pc' = [pc EXCEPT ![p] = "publish"]
          /\ lock = NoProc /\ lock' = p /\ hpc' = hpc /\ LockInv
      BY <2>1, <2>2, Zenon DEF TypeInv
    <3> HIDE DEF IInv
    <3> QED
      BY <3>1, VirtioAssumption, SMTT(30) DEF LockInv, WithLock
  <2>8. ASSUME NEW q \in Procs, q # p
        PROVE  pc'[q] = pc[q] /\ idx'[q] = idx[q] /\ bdisk'[q] = bdisk[q]
    <3>1. DOMAIN pc = Procs /\ DOMAIN idx = Procs /\ DOMAIN bdisk = Procs
      BY DEF TypeInv
    <3> HIDE DEF IInv
    <3> QED
      BY <2>1, <2>8, <3>1, Zenon
  <2>9. /\ pc'[p] = "publish" /\ bdisk'[p] /\ idx'[p] = <<d1, d2, d3>>
        /\ idx'[p][1] = d1 /\ idx'[p][2] = d2 /\ idx'[p][3] = d3
    BY <2>1, ZenonT(30) DEF TypeInv
  <2>10. \A q \in Procs : ~Owns(q, d1) /\ ~Owns(q, d2) /\ ~Owns(q, d3)
    BY <2>3, Zenon DEF OwnerInv
  <2>11. \A d \in Descs : /\ Owns(p, d)' <=> d \in {d1, d2, d3}
                          /\ ~Owns(p, d)
                          /\ \A q \in Procs \ {p} : Owns(q, d)' <=> Owns(q, d)
    BY <2>2, <2>8, <2>9, Zenon DEF Owns, InRequest
  <2>12. OwnerInv'
    <3>1. \A d \in Descs : free'[d] <=> free[d] /\ d \notin {d1, d2, d3}
      BY <2>1, ZenonT(30) DEF TypeInv
    <3> QED
      BY <2>3, <2>10, <2>11, <3>1, ZenonT(90) DEF OwnerInv
  <2>13. ChainInv'
    <3>1. Chained(p, d1, d2, d3)'
      BY <2>1, <2>3, <2>9, ZenonT(30) DEF TypeInv, Chained
    <3>2. ASSUME NEW q \in Procs \ {p}, pc[q] \in InRequest
          PROVE  \E e1, e2, e3 \in Descs : Chained(q, e1, e2, e3)'
      <4>1. PICK e1 \in Descs, e2 \in Descs, e3 \in Descs :
              /\ Chained(q, e1, e2, e3)
              /\ \A d \in Descs : Owns(q, d) <=> d \in {e1, e2, e3}
        BY <3>2, RequestOf, Zenon
      <4>2. {e1, e2, e3} \cap {d1, d2, d3} = {}
        BY <2>10, <4>1, Zenon
      <4>3. \A e \in {e1, e2, e3} : desc'[e] = desc[e] /\ infob'[e] = infob[e]
        <5>1. DOMAIN desc = Descs /\ DOMAIN infob = Descs
          BY DEF TypeInv
        <5> HIDE DEF IInv
        <5> QED
          BY <2>1, <4>2, <5>1, Zenon
      <4>4. Chained(q, e1, e2, e3)'
        BY <2>8, <4>1, <4>3, Zenon DEF Chained
      <4> QED
        BY <4>4
    <3>3. \A q \in Procs \ {p} : pc'[q] \notin InRequest => idx'[q] = <<>>
      BY <2>8, Zenon DEF ChainInv
    <3>4. ASSUME NEW q \in Procs
          PROVE  IF pc'[q] \in InRequest THEN \E e1, e2, e3 \in Descs : Chained(q, e1, e2, e3)'
                 ELSE idx'[q] = <<>>
      <4>1. CASE q = p
        <5>1. pc'[q] \in InRequest
          BY <2>9, <4>1 DEF InRequest
        <5> QED
          BY <3>1, <4>1, <5>1, Zenon
      <4>2. CASE q # p
        <5>1. pc'[q] = pc[q]
          BY <2>8, <4>2, Zenon
        <5> QED
          BY <3>2, <3>3, <4>2, <5>1, Zenon
      <4> QED
        BY <4>1, <4>2, Zenon
    <3> HIDE DEF IInv
    <3> QED
      BY <3>4, Zenon DEF ChainInv, InRequest
  <2>14. d1 \notin av \cup busy \cup us
    BY <2>4, <2>10, HeadsOwned, Zenon
  <2>15. ASSUME NEW q \in Procs \ {p}, pc[q] \in InRequest PROVE StageOf(q, av, us)'
    <3>1. StageOf(q, av, us) /\ pc[q] # "publish"
      BY <2>2, <2>4, <2>15, VirtioAssumption, Zenon DEF Stage, LockInv, WithLock
    <3>2. idx[q][1] # d1 /\ idx[q][1] \in Descs
      BY <2>10, <2>15, RequestOf, ZenonT(30) DEF Owns
    <3>3. status'[idx[q][1]] = status[idx[q][1]]
      BY <2>1, <3>2, ZenonT(30) DEF TypeInv
    <3> QED
      BY <2>2, <2>8, <3>1, <3>3, ZenonT(30) DEF StageOf, device
  <2>16. StageOf(p, av, us)'
    <3>1. status'[d1] = 255
      <4>1. DOMAIN status = Descs
        BY DEF TypeInv
      <4> HIDE DEF IInv
      <4> QED
        BY <2>1, <4>1, Zenon
    <3>2. UNCHANGED <<aidx, busy>>
      BY <2>2, Zenon DEF device
    <3> HIDE DEF IInv
    <3> QED
      BY <2>5, <2>9, <2>14, <3>1, <3>2, SMTT(30) DEF StageOf
  <2>17. Stage(av, us)'
    <3>1. Ring(uring', used_idx', uidx', us) /\ Ring(aring', taken', aidx', av)
      BY <2>2, <2>4, <2>5, Zenon DEF Stage, device
    <3>2. \A d \in av \cup busy \cup us : \E q \in Procs : pc'[q] \in InRequest /\ d = idx'[q][1]
      <4>1. \A q \in Procs : pc[q] \in InRequest => q # p
        BY <2>2 DEF InRequest
      <4>2. ASSUME NEW d \in av \cup busy \cup us
            PROVE  \E q \in Procs : pc'[q] \in InRequest /\ d = idx'[q][1]
        <5>1. PICK q \in Procs : pc[q] \in InRequest /\ d = idx[q][1]
          BY <2>4, <4>2, Zenon DEF Stage
        <5>2. pc'[q] = pc[q] /\ idx'[q] = idx[q]
          BY <2>8, <4>1, <5>1, Zenon
        <5> QED
          BY <5>1, <5>2, Zenon
      <4> QED
        BY <4>2, Zenon
    <3>3. \A q \in Procs : pc'[q] \in InRequest => StageOf(q, av, us)'
      BY <2>8, <2>15, <2>16, Zenon
    <3>4. busy' = busy
      BY <2>2, Zenon DEF device
    <3> QED
      BY <2>4, <3>1, <3>2, <3>3, <3>4, Zenon DEF Stage, InRequest
  <2>18. StageInv'
    BY <2>17, Zenon DEF StageInv
  <2>19. DoneInv'
    <3>1. DoneInv /\ UNCHANGED <<moved, hpc, panicked, uidx, used_idx, irq>>
      BY <2>1, <2>2, Zenon DEF device
    <3> HIDE DEF IInv
    <3> QED
      BY <2>8, <2>9, <3>1, SMTT(30) DEF DoneInv
  <2> QED
    BY <2>6, <2>7, <2>12, <2>13, <2>18, <2>19, Zenon
<1> QED
  BY <1>1, <1>2

LEMMA PublishInv ==
  ASSUME IInv, NEW p \in Procs, Publish(p)
  PROVE  IInv'
<1> USE DEF IInv
<1>1. /\ pc[p] = "publish" /\ pc[p] \in InRequest
      /\ aidx' = Succ(aidx) /\ pc' = [pc EXCEPT ![p] = "waiting"]
      /\ UNCHANGED <<free, desc, infob, aring, used_idx, device, status, lock, bdisk,
                     moved, idx, hpc, calls, panicked>>
  BY Zenon DEF Publish, InRequest
<1>2. TypeInv'
  BY <1>1, Zenon DEF TypeInv, device, Labels, InRequest
<1>3. LockInv'
  BY <1>1, Zenon DEF TypeInv, LockInv, WithLock
<1>4. pc'[p] = "waiting" /\ \A q \in Procs : q # p => pc'[q] = pc[q]
  BY <1>1 DEF TypeInv
<1>5. ChainInv' /\ OwnerInv'
  <2>1. \A q \in Procs : pc'[q] \in InRequest <=> pc[q] \in InRequest
    BY <1>1, <1>4, ZenonT(30) DEF InRequest
  <2>2. ASSUME NEW q, NEW d1, NEW d2, NEW d3, Chained(q, d1, d2, d3)
        PROVE  Chained(q, d1, d2, d3)'
    BY <1>1, <2>2, Zenon DEF Chained
  <2>3. ChainInv'
    BY <1>1, <2>1, <2>2, Zenon DEF ChainInv, InRequest
  <2>4. OwnerInv'
    <3>1. UNCHANGED <<free, idx>>
      BY <1>1
    <3> QED
      BY <2>1, <3>1, ZenonT(90) DEF OwnerInv, Owns, InRequest
  <2> QED
    BY <2>3, <2>4, Zenon
<1>6. PICK av \in SUBSET Descs, us \in SUBSET Descs : Stage(av, us)
  BY DEF StageInv
<1>7. PICK d1 \in Descs, d2 \in Descs :
        /\ idx[p][1] = d1 /\ d1 # d2 /\ Owns(p, d1) /\ Owns(p, d2)
  <2>1. PICK d1 \in Descs, d2 \in Descs, d3 \in Descs :
           /\ Chained(p, d1, d2, d3) /\ idx[p][1] = d1
           /\ \A d \in Descs : Owns(p, d) <=> d \in {d1, d2, d3}
    BY <1>1, RequestOf, Zenon
  <2> QED
    BY <2>1, Zenon DEF Chained
<1>8. /\ StageOf(p, av, us)
      /\ aring[aidx % NUM] = d1 /\ d1 \notin av \cup busy \cup us /\ bdisk[p] /\ status[d1] # 0
  <2>1. StageOf(p, av, us)
    BY <1>1, <1>6, Zenon DEF Stage
  <2> QED
    BY <1>1, <1>7, <2>1, Zenon DEF StageOf
<1>9. d2 \notin av
  <2> SUFFICES ASSUME d2 \in av PROVE FALSE
    BY Zenon
  <2>1. PICK q \in Procs : Owns(q, d2) /\ d2 = idx[q][1]
    <3>1. d2 \in av \cup busy \cup us
      OBVIOUS
    <3> QED
      BY <1>6, <3>1, HeadsOwned
  <2>2. q = p
    BY <1>7, <2>1, Zenon DEF OwnerInv
  <2> QED
    BY <1>7, <2>1, <2>2, Zenon
<1>10. Ring(aring', taken', aidx', av \cup {d1})
  <2>1. aring \in [Descs -> Descs] /\ Ring(aring, taken, aidx, av)
    BY <1>6 DEF Stage, TypeInv
  <2>2. Ring(aring, taken, Succ(aidx), av \cup {d1})
    <3> HIDE DEF IInv
    <3> QED
      BY <1>7, <1>8, <1>9, <2>1, RingPush, Zenon
  <2> QED
    BY <1>1, <2>2, Zenon DEF device
<1>11. ASSUME NEW q \in Procs, pc'[q] \in InRequest, q # p
       PROVE  StageOf(q, av \cup {d1}, us)'
  <2>1. pc'[q] = pc[q] /\ StageOf(q, av, us)
    BY <1>4, <1>6, <1>11, Zenon DEF Stage, InRequest
  <2>2. idx[q][1] # d1
    <3>1. PICK e1 \in Descs : idx[q][1] = e1
      BY <1>11, <2>1, RequestOf, ZenonT(30)
    <3>2. Owns(q, e1)
      BY <1>11, <2>1, <3>1, Zenon DEF Owns
    <3> QED
      BY <1>7, <1>11, <3>1, <3>2, Zenon DEF OwnerInv
  <2>3. pc[q] # "publish"
    BY <1>1, <1>11, ZenonT(30) DEF LockInv, WithLock
  <2> QED
    BY <1>1, <2>1, <2>2, <2>3, Zenon DEF StageOf, device
<1>12. StageOf(p, av \cup {d1}, us)'
  BY <1>1, <1>4, <1>7, <1>8, Zenon DEF StageOf, device
<1>13. Stage(av \cup {d1}, us)'
  <2>1. Ring(uring', used_idx', uidx', us)
    BY <1>1, <1>6, Zenon DEF Stage, device
  <2>2. \A q \in Procs : pc'[q] \in InRequest <=> pc[q] \in InRequest
    BY <1>1, <1>4 DEF InRequest
  <2>3. \A d \in (av \cup {d1}) \cup busy' \cup us : \E q \in Procs : pc'[q] \in InRequest /\ d = idx'[q][1]
    BY <1>1, <1>6, <1>7, <2>2, ZenonT(30) DEF Stage, device
  <2>4. \A q \in Procs : pc'[q] \in InRequest => StageOf(q, av \cup {d1}, us)'
    BY <1>11, <1>12, Zenon
  <2>5. (av \cup {d1}) \cap busy' = {} /\ (av \cup {d1}) \cap us = {} /\ busy' \cap us = {}
    BY <1>1, <1>6, <1>8, Zenon DEF Stage, device
  <2> QED
    BY <1>10, <2>1, <2>3, <2>4, <2>5, Zenon DEF Stage, InRequest
<1>14. StageInv'
  <2>1. av \cup {d1} \in SUBSET Descs
    BY SMTT(30)
  <2> QED
    BY <1>13, <2>1, Zenon DEF StageInv
<1>15. DoneInv'
  BY <1>1, <1>4, Zenon DEF DoneInv, device
<1> QED
  BY <1>2, <1>3, <1>5, <1>14, <1>15, Zenon

\* while(b->disk == 1) sleep(b, &disk.vdisk_lock)
LEMMA WaitSleepInv ==
  ASSUME IInv, NEW p \in Procs, Wait(p), MustWait(p)
  PROVE  IInv'
<1> USE DEF IInv
<1>1. /\ pc[p] \in {"waiting", "recheck"} /\ lock' = NoProc
      /\ pc' = [pc EXCEPT ![p] = "asleep"] /\ bdisk[p]
      /\ UNCHANGED <<driver, device, status, bdisk, moved, idx, hpc, calls, panicked>>
  BY Zenon DEF Wait, MustWait, driver
<1>2. TypeInv'
  BY <1>1, Zenon DEF TypeInv, driver, device, Labels, InRequest
<1>3. LockInv'
  BY <1>1, VirtioAssumption, SMTT(30) DEF TypeInv, LockInv, WithLock
<1>4. SameRequests
  BY <1>1, Zenon DEF TypeInv, SameRequests, InRequest
<1>5. ChainInv' /\ OwnerInv'
  BY <1>1, <1>4, RequestsKept, Zenon DEF driver
<1>6. StageInv'
  BY <1>1, <1>4, StageKept, Zenon DEF driver, device
<1>7. DoneInv'
  BY <1>1, SMTT(30) DEF TypeInv, DoneInv, driver, device
<1> QED
  BY <1>2, <1>3, <1>5, <1>6, <1>7, Zenon

\* free_chain() frees the descriptors that the request owns, and only these.
LEMMA FreedOwned ==
  ASSUME NEW p \in Procs, NEW d1 \in Descs, NEW d2 \in Descs, NEW d3 \in Descs,
         Chained(p, d1, d2, d3)
  PROVE  Freed(d1) = {d1, d2, d3}
<1>1. d2 # None /\ d3 # None
  BY VirtioAssumption DEF Descs, None
<1> QED
  BY <1>1 DEF Freed, Chain, Chained

LEMMA WaitDoneInv ==
  ASSUME IInv, NEW p \in Procs, Wait(p), ~MustWait(p)
  PROVE  IInv'
<1> USE DEF IInv
<1>1. /\ pc[p] \in {"waiting", "recheck"} /\ pc[p] \in InRequest /\ ~bdisk[p]
      /\ lock' = NoProc /\ lock = p
      /\ UNCHANGED <<aring, aidx, used_idx, device, status, bdisk, moved, hpc, calls>>
  BY DEF Wait, MustWait, LockInv, WithLock, InRequest
<1>2. PICK d1 \in Descs, d2 \in Descs, d3 \in Descs :
         /\ Chained(p, d1, d2, d3) /\ idx[p][1] = d1
         /\ \A d \in Descs : Owns(p, d) <=> d \in {d1, d2, d3}
  BY <1>1, RequestOf, Zenon
<1>3. Freed(d1) = {d1, d2, d3}
  BY <1>2, FreedOwned
<1>4. /\ infob' = [infob EXCEPT ![d1] = NoProc]
      /\ panicked' = \E d \in {d1, d2, d3} : free[d]
      /\ free' = [d \in Descs |-> free[d] \/ d \in {d1, d2, d3}]
      /\ desc' = [d \in Descs |-> IF d \in {d1, d2, d3} THEN Nothing ELSE desc[d]]
      /\ pc' = [WakeFree(pc) EXCEPT ![p] = "idle"]
      /\ idx' = [idx EXCEPT ![p] = <<>>]
  BY <1>1, <1>2, <1>3, Zenon DEF Wait, MustWait
<1>5. \A d \in {d1, d2, d3} : ~free[d]
  BY <1>2, ZenonT(90) DEF OwnerInv
<1>6. /\ pc' \in [Procs -> Labels] /\ pc'[p] = "idle"
      /\ \A q \in Procs : q # p => \/ pc'[q] = pc[q]
                                   \/ pc[q] = "nofree" /\ pc'[q] = "alloc"
  <2>1. pc \in [Procs -> Labels] /\ {"alloc", "idle"} \subseteq Labels
    BY DEF TypeInv, Labels
  <2>2. /\ WakeFree(pc) \in [Procs -> Labels]
        /\ \A q \in Procs : \/ WakeFree(pc)[q] = pc[q]
                            \/ pc[q] = "nofree" /\ WakeFree(pc)[q] = "alloc"
    BY <2>1 DEF WakeFree
  <2> HIDE DEF IInv
  <2> QED
    BY <1>4, <2>1, <2>2, Zenon
<1>7. TypeInv'
  <2>1. 0 \in Descs
    BY Sizes, SMTT(30) DEF Descs
  <2>2. Nothing \in [to : Targets, next : Descs \cup {None}]
    BY <2>1, Zenon DEF Nothing, Targets
  <2>3. desc' \in [Descs -> [to : Targets, next : Descs \cup {None}]]
    BY <1>4, <2>2 DEF TypeInv
  <2>4. free' \in [Descs -> BOOLEAN] /\ panicked' \in BOOLEAN
    BY <1>4, ZenonT(30) DEF TypeInv
  <2> QED
    BY <1>1, <1>4, <1>6, <2>3, <2>4, Zenon DEF TypeInv, device
<1>8. LockInv'
  BY <1>1, <1>6, VirtioAssumption, ZenonT(30) DEF LockInv, WithLock
<1>9. \A q \in Procs : /\ pc'[q] \in InRequest <=> q # p /\ pc[q] \in InRequest
                       /\ q # p => idx'[q] = idx[q]
                       /\ pc'[q] \in InRequest => pc'[q] = pc[q]
  BY <1>4, <1>6 DEF InRequest, TypeInv
<1>10. \A d \in Descs : /\ ~Owns(p, d)'
                        /\ \A q \in Procs \ {p} : Owns(q, d)' <=> Owns(q, d)
  BY <1>9, Zenon DEF Owns, InRequest
<1>11. OwnerInv'
  <2>1. \A d \in Descs : free'[d] <=> free[d] \/ d \in {d1, d2, d3}
    BY <1>4, Zenon
  <2>2. \A d \in Descs : free'[d] <=> \A q \in Procs : ~Owns(q, d)'
    BY <1>2, <1>10, <2>1, Zenon DEF OwnerInv
  <2>3. \A d \in Descs, q, r \in Procs : Owns(q, d)' /\ Owns(r, d)' => q = r
    BY <1>10, Zenon DEF OwnerInv
  <2> QED
    BY <2>2, <2>3, Zenon DEF OwnerInv
<1>12. ASSUME NEW q \in Procs \ {p}, pc[q] \in InRequest
       PROVE  \E e1, e2, e3 \in Descs :
                /\ Chained(q, e1, e2, e3)' /\ e1 \notin {d1, d2, d3} /\ e1 = idx[q][1]
  <2>1. PICK e1 \in Descs, e2 \in Descs, e3 \in Descs :
          /\ Chained(q, e1, e2, e3) /\ idx[q][1] = e1
          /\ \A d \in Descs : Owns(q, d) <=> d \in {e1, e2, e3}
    BY <1>12, RequestOf, ZenonT(30)
  <2>2. {e1, e2, e3} \cap {d1, d2, d3} = {}
    BY <1>2, <1>12, <2>1, Zenon DEF OwnerInv
  <2>3. \A e \in {e1, e2, e3} : desc'[e] = desc[e] /\ infob'[e] = infob[e]
    <3>1. DOMAIN infob = Descs
      BY SMTT(30) DEF TypeInv
    <3> HIDE DEF IInv
    <3> QED
      BY <1>4, <2>2, <3>1, Zenon
  <2>4. Chained(q, e1, e2, e3)'
    <3>1. /\ idx'[q] = idx[q] /\ infob'[e1] = infob[e1]
          /\ desc'[e1] = desc[e1] /\ desc'[e2] = desc[e2] /\ desc'[e3] = desc[e3]
      BY <1>9, <1>12, <2>3, Zenon
    <3> HIDE DEF IInv
    <3> QED
      BY <2>1, <3>1, Zenon DEF Chained
  <2> QED
    BY <2>1, <2>2, <2>4, Zenon
<1>13. ChainInv'
  <2>1. idx'[p] = <<>>
    BY <1>4 DEF TypeInv
  <2> QED
    BY <1>6, <1>9, <1>12, <2>1, Zenon DEF ChainInv, InRequest
<1>14. PICK av \in SUBSET Descs, us \in SUBSET Descs : Stage(av, us)
  BY SMTT(30) DEF StageInv
<1>15. StageOf(p, av, us) /\ d1 \notin av \cup busy \cup us /\ moved[p]
  <2>1. StageOf(p, av, us)
    BY <1>1, <1>14, Zenon DEF Stage
  <2> QED
    BY <1>1, <1>2, <2>1, Zenon DEF StageOf
<1>16. Stage(av, us)'
  <2>1. Ring(aring', taken', aidx', av) /\ Ring(uring', used_idx', uidx', us)
    BY <1>1, <1>14, Zenon DEF Stage, device
  <2>2. ASSUME NEW q \in Procs, pc'[q] \in InRequest PROVE StageOf(q, av, us)'
    <3>1. pc'[q] = pc[q] /\ idx'[q] = idx[q] /\ StageOf(q, av, us)
      BY <1>9, <1>14, <2>2, Zenon DEF Stage
    <3> QED
      BY <1>1, <3>1, Zenon DEF StageOf, device
  <2>3. ASSUME NEW d \in av \cup busy \cup us
        PROVE  \E q \in Procs : pc'[q] \in InRequest /\ d = idx'[q][1]
    <3>1. PICK q \in Procs : pc[q] \in InRequest /\ d = idx[q][1]
      BY <1>14, <2>3, Zenon DEF Stage
    <3>2. q # p
      BY <1>2, <1>15, <3>1, <2>3, Zenon
    <3> QED
      BY <1>9, <3>1, <3>2, Zenon
  <2>4. busy' = busy
    BY <1>1, Zenon DEF device
  <2> QED
    BY <1>14, <2>1, <2>2, <2>3, <2>4, Zenon DEF Stage, InRequest
<1>17. StageInv'
  BY <1>16, SMTT(30) DEF StageInv
<1>18. DoneInv'
  BY <1>1, <1>4, <1>5, <1>6, <1>15, Zenon DEF DoneInv, device
<1> QED
  BY <1>7, <1>8, <1>11, <1>13, <1>17, <1>18, Zenon

LEMMA WaitInv ==
  ASSUME IInv, NEW p \in Procs, Wait(p)
  PROVE  IInv'
BY WaitSleepInv, WaitDoneInv, Zenon

----------------------------------------------------------------------------
(* virtio_disk_intr() *)

LEMMA IntrOutsideInv ==
  ASSUME IInv, IntrAck \/ IntrCaughtUp \/ IntrReturn
  PROVE  IInv'
<1> USE DEF IInv
<1>1. /\ UNCHANGED <<driver, uring, uidx, taken, busy, status, bdisk, moved, pc, idx, calls, panicked>>
      /\ irq' \in BOOLEAN /\ hpc' \in {"idle", "loop", "exit"} /\ lock' \in {NoProc, Handler}
  BY Zenon DEF IntrAck, IntrCaughtUp, IntrReturn, device, TypeInv, LockInv
<1>2. TypeInv'
  BY <1>1, Zenon DEF TypeInv, driver
<1>3. LockInv'
  BY VirtioAssumption, Zenon DEF IntrAck, IntrCaughtUp, IntrReturn, LockInv
<1>4. SameRequests
  BY <1>1, Zenon DEF SameRequests
<1>5. ChainInv' /\ OwnerInv'
  BY <1>1, <1>4, RequestsKept, Zenon DEF driver
<1>6. StageInv'
  BY <1>1, <1>4, StageKept, Zenon DEF driver
<1>7. DoneInv'
  <2>1. ~irq' /\ hpc' # "loop" => used_idx' = uidx'
    BY DEF IntrAck, IntrCaughtUp, IntrReturn, DoneInv, driver, device
  <2> QED
    BY <1>1, <2>1, Zenon DEF DoneInv
<1> QED
  BY <1>2, <1>3, <1>5, <1>6, <1>7, Zenon

\* The entry that the handler reads belongs to a request whose owner waits.
LEMMA IntrEntryInv ==
  ASSUME IInv, IntrEntry
  PROVE  IInv'
<1> USE DEF IInv
<1>1. PICK av \in SUBSET Descs, us \in SUBSET Descs : Stage(av, us)
  BY DEF StageInv
<1>2. PICK id : id = Entry
  BY Zenon
<1>3. /\ hpc = "loop" /\ used_idx # uidx
      /\ UNCHANGED <<free, desc, infob, aring, aidx, device, status, lock, moved, idx, hpc, calls>>
  BY Zenon DEF IntrEntry
<1>4. id \in us /\ Ring(uring, Succ(used_idx), uidx, us \ {id})
  BY <1>1, <1>2, <1>3, RingPop, Zenon DEF Stage, Entry
<1>5. id \in Descs
  BY <1>4
<1>6. PICK p \in Procs : pc[p] \in InRequest /\ id = idx[p][1]
  BY <1>1, <1>4, Zenon DEF Stage
<1>7. infob[id] = p
  BY <1>6, RequestOf, ZenonT(30) DEF Chained
<1>8. StageOf(p, av, us)
  BY <1>1, <1>6, Zenon DEF Stage
<1>9. pc[p] # "publish" /\ status[id] = 0 /\ moved[p]
  <2>1. id \notin av \cup busy
    BY <1>1, <1>4, Zenon DEF Stage
  <2> QED
    BY <1>4, <1>6, <1>8, <2>1, Zenon DEF StageOf
<1>10. /\ bdisk' = [q \in Procs |-> bdisk[q] /\ q # p]
       /\ pc' = WakeBuf(pc, p)
       /\ used_idx' = Succ(used_idx)
       /\ panicked' = panicked
  BY <1>2, <1>7, <1>9, VirtioAssumption, Zenon DEF IntrEntry
<1>11. /\ pc' \in [Procs -> Labels] /\ pc'[p] # "asleep"
       /\ \A q \in Procs : \/ pc'[q] = pc[q]
                           \/ q = p /\ pc[q] = "asleep" /\ pc'[q] = "woken"
  BY <1>10 DEF WakeBuf, TypeInv, Labels, InRequest
<1>12. bdisk' \in [Procs -> BOOLEAN] /\ \A q \in Procs : bdisk'[q] <=> bdisk[q] /\ q # p
  BY <1>10, Zenon
<1>13. TypeInv'
  BY <1>3, <1>10, <1>11, <1>12, Zenon DEF TypeInv, device
<1>14. LockInv'
  BY <1>3, <1>11, Zenon DEF LockInv, WithLock
<1>15. SameRequests
  BY <1>11, Zenon DEF SameRequests, InRequest
<1>16. ChainInv' /\ OwnerInv'
  BY <1>3, <1>15, RequestsKept, Zenon
<1>17. Stage(av, us \ {id})'
  <2>1. Ring(aring', taken', aidx', av) /\ Ring(uring', used_idx', uidx', us \ {id})
    BY <1>1, <1>3, <1>4, <1>10, ZenonT(30) DEF Stage, device
  <2>2. busy' = busy /\ av \cap busy' = {} /\ av \cap (us \ {id}) = {} /\ busy' \cap (us \ {id}) = {}
    BY <1>1, <1>3 DEF Stage, device
  <2>3. \A d \in av \cup busy \cup (us \ {id}) : \E q \in Procs : pc'[q] \in InRequest /\ d = idx'[q][1]
    BY <1>1, <1>3, <1>15, Zenon DEF Stage, SameRequests
  <2>4. ASSUME NEW q \in Procs, pc'[q] \in InRequest PROVE StageOf(q, av, us \ {id})'
    <3>1. pc[q] \in InRequest /\ StageOf(q, av, us) /\ (pc'[q] = "publish" <=> pc[q] = "publish")
      BY <1>1, <1>15, <2>4, Zenon DEF Stage, SameRequests
    <3>2. CASE q = p
      <4>1. id \notin av \cup busy \cup (us \ {id})
        BY <1>1, <1>4, Zenon DEF Stage
      <4> QED
        BY <1>3, <1>6, <1>9, <1>12, <2>2, <3>1, <3>2, <4>1, Zenon DEF StageOf, device
    <3>3. CASE q # p
      <4>1. idx[q][1] # id
        <5>1. PICK e \in Descs : idx[q][1] = e
          BY <3>1, RequestOf, Zenon
        <5>2. Owns(q, e) /\ Owns(p, id)
          BY <1>6, <3>1, <5>1, Zenon DEF Owns
        <5> QED
          BY <1>5, <3>3, <5>1, <5>2, Zenon DEF OwnerInv
      <4> QED
        BY <1>3, <1>12, <2>2, <3>1, <3>3, <4>1, Zenon DEF StageOf, device
    <3> QED
      BY <3>2, <3>3
  <2> QED
    BY <2>1, <2>2, <2>3, <2>4, Zenon DEF Stage, InRequest
<1>18. StageInv'
  <2>1. us \ {id} \in SUBSET Descs
    BY SMTT(30)
  <2> QED
    BY <1>17, <2>1, Zenon DEF StageInv
<1>19. DoneInv'
  BY <1>3, <1>9, <1>10, <1>11, <1>12, Zenon DEF DoneInv, device
<1> QED
  BY <1>13, <1>14, <1>16, <1>18, <1>19, Zenon

----------------------------------------------------------------------------
(* The device *)

LEMMA TakeInv ==
  ASSUME IInv, Take
  PROVE  IInv'
<1> USE DEF IInv
<1>1. PICK av \in SUBSET Descs, us \in SUBSET Descs : Stage(av, us)
  BY DEF StageInv
<1>2. PICK d : d = aring[taken % NUM]
  BY Zenon
<1>3. /\ taken # aidx /\ busy' = busy \cup {d} /\ taken' = Succ(taken)
      /\ UNCHANGED <<driver, uring, uidx, irq, status, lock, bdisk, moved, pc, idx,
                     hpc, calls, panicked>>
  BY <1>2, Zenon DEF Take
<1>4. d \in av /\ Ring(aring, Succ(taken), aidx, av \ {d})
  BY <1>1, <1>2, <1>3, RingPop, Zenon DEF Stage
<1>5. TypeInv'
  BY <1>3, <1>4, SMTT(30) DEF TypeInv, driver
<1>6. LockInv'
  BY <1>3, Zenon DEF LockInv
<1>7. SameRequests
  BY <1>3, Zenon DEF SameRequests
<1>8. ChainInv' /\ OwnerInv'
  BY <1>3, <1>7, RequestsKept DEF driver
<1>9. Stage(av \ {d}, us)'
  <2>1. Ring(aring', taken', aidx', av \ {d}) /\ Ring(uring', used_idx', uidx', us)
    BY <1>1, <1>3, <1>4, ZenonT(30) DEF Stage, driver
  <2>2. (av \ {d}) \cap busy' = {} /\ (av \ {d}) \cap us = {} /\ busy' \cap us = {}
    BY <1>1, <1>3, <1>4, Zenon DEF Stage
  <2>3. (av \ {d}) \cup busy' \cup us = av \cup busy \cup us
        /\ (av \ {d}) \cup busy' = av \cup busy
    BY <1>3, <1>4, Zenon
  <2>4. ASSUME NEW q \in Procs, pc'[q] \in InRequest PROVE StageOf(q, av \ {d}, us)'
    <3>1. StageOf(q, av, us)
      BY <1>1, <1>3, <2>4, Zenon DEF Stage
    <3> QED
      BY <1>3, <2>3, <3>1, Zenon DEF StageOf, driver
  <2>5. \A e \in (av \ {d}) \cup busy' \cup us : \E q \in Procs : pc'[q] \in InRequest /\ e = idx'[q][1]
    BY <1>1, <1>3, <2>3, Zenon DEF Stage
  <2> QED
    BY <2>1, <2>2, <2>4, <2>5, Zenon DEF Stage, InRequest
<1>10. StageInv'
  <2>1. av \ {d} \in SUBSET Descs
    BY Zenon
  <2> QED
    BY <1>9, <2>1, Zenon DEF StageInv
<1>11. DoneInv'
  BY <1>3, Zenon DEF DoneInv, driver
<1> QED
  BY <1>5, <1>6, <1>8, <1>10, <1>11, Zenon

\* The device follows the chain to the buffer and the status of the request.
LEMMA ServeInv ==
  ASSUME IInv, NEW d \in Descs, Serve(d)
  PROVE  IInv'
<1> USE DEF IInv
<1>1. PICK av \in SUBSET Descs, us \in SUBSET Descs : Stage(av, us)
  BY SMTT(30) DEF StageInv
<1>2. d \in busy
  BY Zenon DEF Serve
<1>3. PICK p \in Procs : pc[p] \in InRequest /\ d = idx[p][1]
  BY <1>1, <1>2, Zenon DEF Stage
<1>4. PICK d2 \in Descs, d3 \in Descs :
         Chained(p, d, d2, d3) /\ \A e \in Descs : Owns(p, e) <=> e \in {d, d2, d3}
  <2>1. PICK d1 \in Descs, d2 \in Descs, d3 \in Descs :
          /\ Chained(p, d1, d2, d3) /\ idx[p][1] = d1
          /\ \A e \in Descs : Owns(p, e) <=> e \in {d1, d2, d3}
    BY <1>3, RequestOf, Zenon
  <2>2. d1 = d
    BY <1>3, <2>1, Zenon
  <2> QED
    BY <2>1, <2>2, Zenon
<1>5. desc[d].next = d2 /\ desc[d2].to[2] = p /\ desc[d2].next = d3 /\ desc[d3].to[2] = d
  BY <1>4 DEF Chained
<1>6. /\ moved' = [moved EXCEPT ![p] = TRUE]
      /\ status' = [status EXCEPT ![d] = 0]
      /\ uring' = [uring EXCEPT ![uidx % NUM] = d]
      /\ uidx' = Succ(uidx) /\ busy' = busy \ {d} /\ irq' = TRUE
      /\ UNCHANGED <<driver, taken, lock, bdisk, pc, idx, hpc, calls, panicked>>
  BY <1>5, Zenon DEF Serve
<1>7. d \notin us /\ d \notin av /\ d2 \notin us
  <2>1. d \notin us /\ d \notin av
    BY <1>1, <1>2, Zenon DEF Stage
  <2>2. ASSUME d2 \in us PROVE FALSE
    <3>1. PICK q \in Procs : Owns(q, d2) /\ d2 = idx[q][1]
      <4>1. d2 \in av \cup busy \cup us
        BY <2>2
      <4> QED
        BY <1>1, <4>1, HeadsOwned
    <3>2. q = p
      BY <1>4, <3>1, Zenon DEF OwnerInv
    <3> QED
      BY <1>3, <1>4, <3>1, <3>2, Zenon DEF Chained
  <2> QED
    BY <2>1, <2>2, Zenon
<1>8. uring' \in [Descs -> Descs] /\ Ring(uring', used_idx, Succ(uidx), us \cup {d})
  <2>1. uring \in [Descs -> Descs] /\ Ring(uring, used_idx, uidx, us)
    BY <1>1, Zenon DEF TypeInv, Stage
  <2>2. uring' = [uring EXCEPT ![uidx % NUM] = d]
    BY <1>6, Zenon
  <2>3. \A k \in Descs : k # uidx % NUM => uring'[k] = uring[k]
    BY <2>1, <2>2
  <2>4. uidx % NUM \in Descs /\ Ring(uring', used_idx, uidx, us)
    BY <2>1, <2>3, RingWrite, Zenon
  <2>5. uring' \in [Descs -> Descs] /\ uring'[uidx % NUM] = d
    BY <2>1, <2>2, <2>4, Zenon
  <2>6. d2 # d
    BY <1>4, Zenon DEF Chained
  <2> HIDE DEF IInv
  <2> QED
    BY <1>7, <2>4, <2>5, <2>6, RingPush, Zenon
<1>9. TypeInv'
  <2>1. moved' \in [Procs -> BOOLEAN]
    BY <1>6, Zenon DEF TypeInv
  <2> QED
    BY <1>6, <1>8, <2>1, Zenon DEF TypeInv, driver
<1>10. LockInv'
  BY <1>6, Zenon DEF LockInv
<1>11. SameRequests
  BY <1>6, Zenon DEF SameRequests
<1>12. ChainInv' /\ OwnerInv'
  BY <1>6, <1>11, RequestsKept, Zenon DEF driver
<1>13. Stage(av, us \cup {d})'
  <2>1. Ring(aring', taken', aidx', av) /\ Ring(uring', used_idx', uidx', us \cup {d})
    BY <1>1, <1>6, <1>8, ZenonT(30) DEF Stage, driver
  <2>2. av \cap busy' = {} /\ av \cap (us \cup {d}) = {} /\ busy' \cap (us \cup {d}) = {}
    BY <1>1, <1>6, <1>7, Zenon DEF Stage
  <2>3. av \cup busy' \cup (us \cup {d}) = av \cup busy \cup us
    BY <1>2, <1>6
  <2>4. \A e \in av \cup busy' \cup (us \cup {d}) : \E q \in Procs : pc'[q] \in InRequest /\ e = idx'[q][1]
    BY <1>1, <1>6, <2>3, ZenonT(30) DEF Stage
  <2>5. StageOf(p, av, us \cup {d})'
    <3>1. StageOf(p, av, us)
      BY <1>1, <1>3, Zenon DEF Stage
    <3>2. status'[d] = 0 /\ moved'[p]
      BY <1>6, SMTT(30) DEF TypeInv
    <3>3. pc[p] # "publish"
      BY <1>2, <1>3, <3>1, Zenon DEF StageOf
    <3>4. d \notin av \cup busy' /\ d \in av \cup busy' \cup (us \cup {d}) /\ d \in av \cup busy \cup us
      BY <1>2, <1>6, <1>7, Zenon
    <3>5. pc' = pc /\ idx' = idx /\ bdisk' = bdisk
      BY <1>6
    <3> HIDE DEF IInv
    <3> QED
      BY <1>3, <3>1, <3>2, <3>3, <3>4, <3>5, Zenon DEF StageOf
  <2>6. ASSUME NEW q \in Procs, pc'[q] \in InRequest, q # p PROVE StageOf(q, av, us \cup {d})'
    <3>1. StageOf(q, av, us)
      BY <1>1, <1>6, <2>6, Zenon DEF Stage
    <3>2. PICK e \in Descs : idx[q][1] = e /\ Owns(q, e)
      BY <1>6, <2>6, RequestOf, Zenon DEF Owns
    <3>3. e # d
      BY <1>4, <2>6, <3>2, Zenon DEF OwnerInv
    <3>4. status'[e] = status[e] /\ moved'[q] = moved[q]
      BY <1>6, <2>6, <3>3 DEF TypeInv
    <3>5. e \in busy' <=> e \in busy
      BY <1>6, <3>3, Zenon
    <3> QED
      BY <1>6, <2>3, <3>1, <3>2, <3>4, <3>5, Zenon DEF StageOf, driver
  <2> QED
    BY <2>1, <2>2, <2>4, <2>5, <2>6, Zenon DEF Stage, InRequest
<1>14. StageInv'
  <2>1. us \cup {d} \in SUBSET Descs
    BY Zenon
  <2> QED
    BY <1>13, <2>1, Zenon DEF StageInv
<1>15. DoneInv'
  <2>1. \A q \in Procs : moved[q] => moved'[q]
    BY <1>6, Zenon DEF TypeInv
  <2> QED
    BY <1>6, <2>1, Zenon DEF DoneInv, driver
<1> QED
  BY <1>9, <1>10, <1>12, <1>14, <1>15, Zenon

----------------------------------------------------------------------------
(* The theorems *)

LEMMA StutterInv ==
  ASSUME IInv, UNCHANGED vars
  PROVE  IInv'
<1> USE DEF IInv
<1>1. UNCHANGED <<free, desc, infob, status, aring, aidx, uring, uidx, used_idx, lock,
                  bdisk, moved, pc, idx, hpc, taken, busy, irq, calls, panicked>>
  BY Zenon DEF vars
<1>2. TypeInv' /\ LockInv'
  BY <1>1, Zenon DEF TypeInv, LockInv
<1>3. SameRequests
  BY <1>1, Zenon DEF SameRequests
<1>4. ChainInv' /\ OwnerInv'
  BY <1>1, <1>3, RequestsKept, Zenon
<1>5. StageInv'
  BY <1>1, <1>3, StageKept, Zenon
<1>6. DoneInv'
  BY <1>1, Zenon DEF DoneInv
<1> QED
  BY <1>2, <1>4, <1>5, <1>6, Zenon

LEMMA NextInv == IInv /\ [Next]_vars => IInv'
<1> SUFFICES ASSUME IInv, [Next]_vars PROVE IInv'
  BY Zenon
<1>1. ASSUME NEW p \in Procs, Step(p) \/ Kill(p) \/ Call(p) PROVE IInv'
  <2>1. CASE Alloc(p) BY <2>1, AllocInv, Zenon
  <2>2. CASE Publish(p) BY <2>2, PublishInv, SMTT(30)
  <2>3. CASE Wait(p) BY <2>3, WaitInv
  <2>4. CASE Relock(p) BY <2>4, RelockInv
  <2>5. CASE Kill(p) BY <2>5, KillInv
  <2>6. CASE Call(p) BY <2>6, CallInv
  <2> QED
    BY <1>1, <2>1, <2>2, <2>3, <2>4, <2>5, <2>6, Zenon DEF Step
<1>2. CASE Intr
  BY <1>2, IntrOutsideInv, IntrEntryInv, Zenon DEF Intr
<1>3. CASE Device
  BY <1>3, TakeInv, ServeInv, Zenon DEF Device
<1>4. CASE UNCHANGED vars
  BY <1>4, StutterInv
<1> QED
  BY <1>1, <1>2, <1>3, <1>4, Zenon DEF Next

LEMMA Invariance == Spec => []IInv
BY InitInv, NextInv, PTL DEF Spec

\* Whatever the number of descriptors, processes and calls, and however the device
\* reorders completions, virtio_disk_rw() returns only after the data of its own
\* request has been moved, and no check of the driver panics.
THEOREM DiskRequestDone == Spec => []RequestDone
<1>1. IInv => RequestDone
  BY Zenon DEF IInv, DoneInv, RequestDone
<1> QED
  BY <1>1, Invariance, PTL

\* Every descriptor is free or belongs to exactly one request: alloc3_desc(), its
\* failure path and free_chain() leak none and give none out twice.
THEOREM DiskDescsAccounted == Spec => []DescsAccounted
<1>1. IInv => DescsAccounted
  <2> SUFFICES ASSUME IInv, NEW d \in Descs
               PROVE  IF free[d] THEN Users(d) = {} ELSE \E p \in Procs : Users(d) = {p}
    BY Zenon DEF DescsAccounted
  <2>1. ASSUME NEW p \in Procs
        PROVE  p \in Users(d) <=> Owns(p, d)
    <3>1. CASE pc[p] \in InRequest
      <4>1. PICK d1 \in Descs, d2 \in Descs, d3 \in Descs : Chained(p, d1, d2, d3)
        BY <3>1, Zenon DEF IInv, ChainInv
      <4>2. idx[p] = <<d1, d2, d3>> /\ idx[p] # <<>>
        BY <4>1 DEF Chained
      <4>3. 1..3 = {1, 2, 3}
        OBVIOUS
      <4>4. {idx[p][k] : k \in 1..3} = {idx[p][1], idx[p][2], idx[p][3]}
        BY <4>3, Zenon
      <4> QED
        BY <3>1, <4>2, <4>4, Zenon DEF Owns, Users
    <3>2. CASE pc[p] \notin InRequest
      BY <3>2, Zenon DEF IInv, ChainInv, Owns, Users
    <3> QED
      BY <3>1, <3>2
  <2>2. Users(d) \subseteq Procs
    BY DEF Users
  <2>3. CASE free[d]
    BY <2>1, <2>2, <2>3, Zenon DEF IInv, OwnerInv
  <2>4. CASE ~free[d]
    <3>1. PICK p \in Procs : Owns(p, d)
      BY <2>4, Zenon DEF IInv, OwnerInv
    <3>2. \A q \in Procs : Owns(q, d) <=> q = p
      BY <3>1, Zenon DEF IInv, OwnerInv
    <3>3. Users(d) = {p}
      BY <2>1, <2>2, <3>2, Zenon
    <3> QED
      BY <2>4, <3>3, Zenon
  <2> QED
    BY <2>3, <2>4, Zenon
<1> QED
  BY <1>1, Invariance, PTL

\* No completion is lost: while a process sleeps on its buffer its request is
\* still to be finished, or an interrupt for it is pending or being handled, so
\* acknowledging the interrupt before reading the used ring is enough.
THEOREM DiskCompletionPending == Spec => []CompletionPending
<1>1. IInv => CompletionPending
  <2> SUFFICES ASSUME IInv, NEW p \in Procs, pc[p] = "asleep"
               PROVE  /\ bdisk[p]
                      /\ ~irq /\ hpc = "idle" => used_idx = uidx /\ status[idx[p][1]] # 0
    BY Zenon DEF CompletionPending
  <2>1. bdisk[p]
    BY Zenon DEF IInv, DoneInv
  <2>2. ASSUME ~irq, hpc = "idle" PROVE used_idx = uidx /\ status[idx[p][1]] # 0
    <3>1. used_idx = uidx
      BY <2>2, Zenon DEF IInv, DoneInv
    <3>2. PICK av \in SUBSET Descs, us \in SUBSET Descs : Stage(av, us)
      BY Zenon DEF IInv, StageInv
    <3>3. us = {}
      BY <3>1, <3>2, RingEmpty, ZenonT(30) DEF Stage
    <3>4. StageOf(p, av, us)
      BY <3>2 DEF Stage, InRequest
    <3> QED
      BY <2>1, <3>1, <3>3, <3>4, Zenon DEF StageOf
  <2> QED
    BY <2>1, <2>2, Zenon
<1> QED
  BY <1>1, Invariance, PTL

=============================================================================
