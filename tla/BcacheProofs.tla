---------------------------- MODULE BcacheProofs ----------------------------
(***************************************************************************)
(* Proofs about module Bcache: the reference counts keep a buffer for its  *)
(* block, the sleep-lock has one holder and loses no wakeup, and the cache *)
(* is transparent, for any number of buffers, blocks and clients.          *)
(***************************************************************************)
EXTENDS Bcache, Integers, FiniteSetTheorems, WellFoundedInduction, TLAPS

----------------------------------------------------------------------------
(* Remainders *)

LEMMA ModRange ==
  ASSUME NEW n \in Nat \ {0}, NEW x \in Nat
  PROVE  x % n \in 0..n - 1
OBVIOUS

LEMMA ModDef ==
  ASSUME NEW n \in Nat \ {0}, NEW x \in Nat
  PROVE  x \div n \in Nat /\ x = n * (x \div n) + (x % n)
OBVIOUS

LEMMA ModUnique ==
  ASSUME NEW n \in Nat \ {0}, NEW q \in Nat, NEW r \in 0..n - 1
  PROVE  (n * q + r) % n = r
OBVIOUS

LEMMA ModSucc ==
  ASSUME NEW u \in Nat \ {0}, NEW x \in Nat
  PROVE  ((x % u) + 1) % u = (x + 1) % u
<1>1. PICK q \in Nat, r \in 0..u - 1 : x = u * q + r /\ r = x % u
  BY ModDef, ModRange, Zenon
<1>2. CASE r + 1 < u
  <2>1. (u * q + (r + 1)) % u = r + 1
    BY <1>2, ModUnique
  <2>2. (u * 0 + (r + 1)) % u = r + 1
    BY <1>2, ModUnique
  <2> QED
    BY <1>1, <2>1, <2>2
<1>3. CASE r + 1 = u
  <2>1. (u * (q + 1) + 0) % u = 0 /\ (u * 1 + 0) % u = 0
    BY ModUnique
  <2>2. x + 1 = u * (q + 1) + 0 /\ r + 1 = u * 1 + 0
    BY <1>1, <1>3
  <2> QED
    BY <1>1, <2>1, <2>2, Zenon
<1> QED
  BY <1>2, <1>3

----------------------------------------------------------------------------
(* Counting *)

\* A set of numbers has a least one: what stands for induction in these proofs.
LEMMA Least ==
  ASSUME NEW T \in SUBSET Nat, T # {}
  PROVE  \E m \in T : \A k \in T : ~(k < m)
<1> DEFINE R == OpToRel(<, Nat)
<1>1. PICK m \in T : \A k \in T : ~(<<k, m>> \in R)
  <2> HIDE DEF R
  <2>1. IsWellFoundedOn(R, Nat)
    BY NatLessThanWellFounded DEF R
  <2> QED
    BY <2>1, WFMin, Zenon
<1> QED
  BY <1>1, Zenon DEF OpToRel

----------------------------------------------------------------------------
(* The invariant *)

Labels == {"idle", "acquire", "asleep", "read", "held", "drop"}

TypeInv ==
  /\ blk \in [Bufs -> Blocks \cup {NoBlock}]
  /\ valid \in [Bufs -> BOOLEAN]
  /\ refcnt \in [Bufs -> Nat]
  /\ bdata \in [Bufs -> Vals]
  /\ holder \in [Bufs -> Clients \cup {NoClient}]
  /\ disk \in [Blocks -> Vals]
  /\ pc \in [Clients -> Labels]
  /\ cur \in [Clients -> Nodes]
  /\ want \in [Clients -> Blocks \cup {NoBlock}]
  /\ dirty \in [Clients -> BOOLEAN]
  /\ pinned \in SUBSET Bufs

\* Who is in a call has a buffer, and the buffer has the block it asked for.
UserInv ==
  \A p \in Clients :
    /\ pc[p] = "idle" => cur[p] = head
    /\ pc[p] # "idle" => cur[p] \in Bufs /\ want[p] \in Blocks /\ blk[cur[p]] = want[p]

UniqueInv == \A c, d \in Bufs : blk[c] = blk[d] /\ blk[c] # NoBlock => c = d

Users(c) == {p \in Clients : cur[p] = c}

RefInv ==
  \A c \in Bufs : refcnt[c] = Cardinality(Users(c)) + IF c \in pinned THEN 1 ELSE 0

LockInv ==
  \A c \in Bufs, p \in Clients : holder[c] = p <=> cur[p] = c /\ pc[p] \in {"read", "held"}

\* A buffer's contents are valid once it has been read and until it is recycled;
\* what differs from the disk is pinned, or in the hands of who changed it.
DataInv ==
  /\ \A p \in Clients :
       /\ pc[p] = "held" => valid[cur[p]]
       /\ pc[p] = "read" => ~valid[cur[p]]
       /\ dirty[p] => pc[p] = "held"
  /\ \A c \in Bufs : valid[c] =>
       /\ blk[c] \in Blocks
       /\ \/ bdata[c] = disk[blk[c]]
          \/ c \in pinned
          \/ \E p \in Clients : cur[p] = c /\ dirty[p]

IInv ==
  TypeInv /\ UserInv /\ UniqueInv /\ RefInv /\ LockInv /\ DataInv /\ SleepersBlocked

LEMMA HeadNoBuf == head \notin Bufs /\ head \in Nodes /\ Bufs \subseteq Nodes
BY BcacheAssumption DEF head, Bufs, Nodes

LEMMA FiniteUsers == \A c : IsFiniteSet(Users(c))
BY BcacheAssumption, FS_Subset DEF Users

LEMMA InitIInv == Init => IInv
<1> SUFFICES ASSUME Init PROVE IInv
  OBVIOUS
<1>1. TypeInv
  BY BcacheAssumption, HeadNoBuf DEF Init, TypeInv, Labels
<1>2. UserInv /\ UniqueInv /\ DataInv /\ SleepersBlocked
  BY DEF Init, UserInv, UniqueInv, DataInv, SleepersBlocked
<1>3. RefInv
  <2> SUFFICES ASSUME NEW c \in Bufs PROVE refcnt[c] = Cardinality(Users(c)) /\ c \notin pinned
    BY BcacheAssumption DEF Init, RefInv
  <2>1. Users(c) = {}
    BY HeadNoBuf DEF Init, Users
  <2> QED
    BY <2>1, FS_EmptySet DEF Init
<1>4. LockInv
  BY BcacheAssumption DEF Init, LockInv
<1> QED
  BY <1>1, <1>2, <1>3, <1>4 DEF IInv

----------------------------------------------------------------------------
(* bget() *)

\* The counts after client p got buffer c, of which nobody else's place changes.
LEMMA BgetCounts ==
  ASSUME TypeInv, RefInv, NEW p \in Clients, NEW c \in Bufs, cur[p] = head,
         cur' = [cur EXCEPT ![p] = c], pinned' = pinned,
         refcnt' = [refcnt EXCEPT ![c] = @ + 1]
  PROVE  RefInv' /\ refcnt' \in [Bufs -> Nat]
<1>1. refcnt' \in [Bufs -> Nat]
  BY DEF TypeInv
<1>2. Users(c)' = Users(c) \cup {p} /\ p \notin Users(c)
  BY HeadNoBuf DEF TypeInv, Users
<1>3. Cardinality(Users(c)') = Cardinality(Users(c)) + 1
  BY <1>2, FiniteUsers, FS_AddElement, Zenon
<1>4. \A d \in Bufs \ {c} : Users(d)' = Users(d)
  BY HeadNoBuf DEF TypeInv, Users
<1>5. \A d \in Bufs : Cardinality(Users(d)) \in Nat
  BY FiniteUsers, FS_CardinalityType
<1>6. ASSUME NEW d \in Bufs
      PROVE  refcnt'[d] = Cardinality(Users(d)') + IF d \in pinned' THEN 1 ELSE 0
  <2>1. CASE d = c
    BY <1>3, <1>5, <2>1 DEF TypeInv, RefInv
  <2>2. CASE d # c
    BY <1>4, <2>2 DEF TypeInv, RefInv
  <2> QED
    BY <2>1, <2>2
<1> QED
  BY <1>1, <1>6 DEF RefInv

\* A buffer with no reference has no user and no pin.
LEMMA EvictableUnused ==
  ASSUME RefInv, NEW c \in Bufs, refcnt[c] = 0
  PROVE  c \notin pinned /\ \A p \in Clients : cur[p] # c
<1>1. Cardinality(Users(c)) \in Nat
  BY FiniteUsers, FS_CardinalityType
<1>2. Cardinality(Users(c)) = 0 /\ c \notin pinned
  BY <1>1 DEF RefInv
<1>3. Users(c) = {}
  BY <1>2, FiniteUsers, FS_EmptySet
<1> QED
  BY <1>2, <1>3 DEF Users

LEMMA HitKeeps ==
  ASSUME IInv, NEW p \in Clients, NEW b \in Blocks, NEW c \in Bufs, pc[p] = "idle",
         blk[c] = b, Hit(p, b, c), want' = [want EXCEPT ![p] = b],
         pc' = [pc EXCEPT ![p] = "acquire"],
         UNCHANGED <<bdata, holder, disk, dirty, pinned>>
  PROVE  IInv'
<1> USE DEF IInv, Hit
<1>1. cur[p] = head
  BY DEF UserInv
<1>2. RefInv' /\ refcnt' \in [Bufs -> Nat]
  BY <1>1, BgetCounts, Zenon
<1>3. TypeInv'
  BY <1>2, HeadNoBuf, Zenon DEF TypeInv, Labels
<1>4. UserInv' /\ UniqueInv'
  BY DEF TypeInv, UserInv, UniqueInv
<1>5. LockInv' /\ SleepersBlocked'
  BY <1>1, HeadNoBuf DEF TypeInv, UserInv, LockInv, SleepersBlocked
<1>6. DataInv'
  BY <1>1, HeadNoBuf DEF TypeInv, UserInv, DataInv
<1> QED
  BY <1>2, <1>3, <1>4, <1>5, <1>6, Zenon

LEMMA MissKeeps ==
  ASSUME IInv, NEW p \in Clients, NEW b \in Blocks, NEW c \in Bufs, pc[p] = "idle",
         \A d \in Bufs : blk[d] # b, refcnt[c] = 0, Miss(p, b, c),
         want' = [want EXCEPT ![p] = b], pc' = [pc EXCEPT ![p] = "acquire"],
         UNCHANGED <<bdata, holder, disk, dirty, pinned>>
  PROVE  IInv'
<1> USE DEF IInv, Miss
<1>1. cur[p] = head
  BY DEF UserInv
<1>2. c \notin pinned /\ \A q \in Clients : cur[q] # c
  BY EvictableUnused
<1>3. RefInv' /\ refcnt' \in [Bufs -> Nat]
  <2>1. refcnt' = [refcnt EXCEPT ![c] = @ + 1]
    BY DEF TypeInv
  <2> QED
    BY <1>1, <2>1, BgetCounts, Zenon
<1>4. TypeInv'
  BY <1>3, HeadNoBuf, Zenon DEF TypeInv, Labels
<1>5. UserInv' /\ UniqueInv'
  BY <1>2, Zenon DEF TypeInv, UserInv, UniqueInv
<1>6. LockInv' /\ SleepersBlocked'
  BY <1>1, <1>2, HeadNoBuf DEF TypeInv, UserInv, LockInv, SleepersBlocked
<1>7. DataInv'
  BY <1>1, <1>2, HeadNoBuf DEF TypeInv, UserInv, DataInv
<1> QED
  BY <1>3, <1>4, <1>5, <1>6, <1>7, Zenon

LEMMA BgetKeeps ==
  ASSUME IInv, NEW p \in Clients, NEW b \in Blocks, Bget(p, b)
  PROVE  IInv'
<1>1. CASE \E c \in Bufs : blk[c] = b /\ Hit(p, b, c) /\ pc' = [pc EXCEPT ![p] = "acquire"]
  BY <1>1, HitKeeps, Zenon DEF Bget
<1>2. CASE /\ \A d \in Bufs : blk[d] # b
           /\ \E c \in Bufs : IsVictim(c) /\ Miss(p, b, c)
           /\ pc' = [pc EXCEPT ![p] = "acquire"]
  BY <1>2, MissKeeps, Zenon DEF Bget, IsVictim, Evictable
<1>3. CASE UNCHANGED <<blk, valid, refcnt, cur, pc>>
  BY <1>3 DEF Bget, IInv, TypeInv, UserInv, UniqueInv, RefInv, Users, LockInv, DataInv,
              SleepersBlocked
<1> QED
  BY <1>1, <1>2, <1>3 DEF Bget

----------------------------------------------------------------------------
(* The sleep-lock, and what its holder does *)

LEMMA AcquireSleepKeeps ==
  ASSUME IInv, NEW p \in Clients, AcquireSleep(p)
  PROVE  IInv'
<1> USE DEF IInv
<1>1. cur[p] \in Bufs
  BY ZenonT(30) DEF AcquireSleep, UserInv
<1>2. TypeInv'
  BY <1>1, Zenon DEF AcquireSleep, TypeInv, Labels
<1>3. UserInv' /\ UniqueInv'
  BY DEF AcquireSleep, TypeInv, UserInv, UniqueInv
<1>4. RefInv'
  BY Zenon DEF AcquireSleep, RefInv, Users
<1>5. LockInv'
  BY <1>1, BcacheAssumption DEF AcquireSleep, TypeInv, LockInv
<1>6. DataInv'
  BY <1>1 DEF AcquireSleep, TypeInv, DataInv
<1>7. SleepersBlocked'
  <2>1. CASE holder[cur[p]] = NoClient
    BY <1>1, <2>1 DEF AcquireSleep, TypeInv, UserInv, SleepersBlocked
  <2>2. CASE holder[cur[p]] # NoClient
    <3>1. holder[cur[p]] # p
      <4>1. pc[p] = "acquire"
        BY Zenon DEF AcquireSleep
      <4> QED
        BY <1>1, <4>1, Zenon DEF LockInv
    <3> QED
      BY <1>1, <2>2, <3>1, ZenonT(30) DEF AcquireSleep, TypeInv, SleepersBlocked
  <2> QED
    BY <2>1, <2>2, Zenon
<1> QED
  BY <1>2, <1>3, <1>4, <1>5, <1>6, <1>7, Zenon

LEMMA ReadDiskKeeps ==
  ASSUME IInv, NEW p \in Clients, ReadDisk(p)
  PROVE  IInv'
<1> USE DEF IInv
<1>1. cur[p] \in Bufs /\ blk[cur[p]] \in Blocks
  BY Zenon DEF ReadDisk, UserInv
<1>2. TypeInv'
  BY <1>1 DEF ReadDisk, TypeInv, Labels
<1>3. UserInv' /\ UniqueInv'
  BY Zenon DEF ReadDisk, TypeInv, UserInv, UniqueInv
<1>4. RefInv'
  BY Zenon DEF ReadDisk, RefInv, Users
<1>5. LockInv'
  BY DEF ReadDisk, TypeInv, LockInv
<1>6. \A q \in Clients : cur[q] = cur[p] /\ pc[q] \in {"read", "held"} => q = p
  BY <1>1 DEF ReadDisk, LockInv
<1>7. DataInv'
  <2>1. ASSUME NEW q \in Clients
        PROVE  /\ pc'[q] = "held" => valid'[cur'[q]]
               /\ pc'[q] = "read" => ~valid'[cur'[q]]
               /\ dirty'[q] => pc'[q] = "held"
    BY <1>1, <1>6, <2>1, ZenonT(30) DEF ReadDisk, TypeInv, DataInv, UserInv
  <2>2. ASSUME NEW c \in Bufs, valid'[c]
        PROVE  /\ blk'[c] \in Blocks
               /\ \/ bdata'[c] = disk'[blk'[c]]
                  \/ c \in pinned'
                  \/ \E q \in Clients : cur'[q] = c /\ dirty'[q]
    BY <1>1, <2>2 DEF ReadDisk, TypeInv, DataInv
  <2> QED
    BY <2>1, <2>2, Zenon DEF DataInv
<1>8. SleepersBlocked'
  BY DEF ReadDisk, TypeInv, SleepersBlocked
<1> QED
  BY <1>2, <1>3, <1>4, <1>5, <1>7, <1>8

LEMMA ChangeKeeps ==
  ASSUME IInv, NEW p \in Clients, NEW v \in Vals, Change(p, v)
  PROVE  IInv'
<1> USE DEF IInv
<1>1. cur[p] \in Bufs
  BY DEF Change, UserInv
<1>2. TypeInv'
  BY <1>1, Zenon DEF Change, TypeInv
<1>3. UserInv' /\ UniqueInv' /\ LockInv' /\ SleepersBlocked'
  BY DEF Change, UserInv, UniqueInv, LockInv, SleepersBlocked
<1>4. RefInv'
  BY Zenon DEF Change, RefInv, Users
<1>5. DataInv'
  BY <1>1 DEF Change, TypeInv, DataInv
<1> QED
  BY <1>2, <1>3, <1>4, <1>5, Zenon

LEMMA BwriteKeeps ==
  ASSUME IInv, NEW p \in Clients, Bwrite(p)
  PROVE  IInv'
<1> USE DEF IInv
<1>1. cur[p] \in Bufs /\ blk[cur[p]] \in Blocks /\ blk[cur[p]] # NoBlock
  BY BcacheAssumption, Zenon DEF Bwrite, UserInv
<1>2. TypeInv'
  <2>1. disk' \in [Blocks -> Vals]
    BY <1>1, SMTT(30) DEF Bwrite, TypeInv
  <2>2. dirty' \in [Clients -> BOOLEAN]
    <3>1. dirty' = dirty \/ dirty' = [dirty EXCEPT ![p] = FALSE]
      BY Zenon DEF Bwrite
    <3>2. dirty \in [Clients -> BOOLEAN]
      BY Zenon DEF TypeInv
    <3> QED
      BY <3>1, <3>2, Zenon
  <2> QED
    BY <2>1, <2>2, Zenon DEF Bwrite, TypeInv
<1>3. UserInv' /\ UniqueInv' /\ LockInv' /\ SleepersBlocked'
  BY SMTT(30) DEF Bwrite, UserInv, UniqueInv, LockInv, SleepersBlocked
<1>4. RefInv'
  BY Zenon DEF Bwrite, RefInv, Users
<1>5. DataInv'
  BY <1>1, SMTT(30) DEF Bwrite, TypeInv, DataInv, UniqueInv
<1> QED
  BY <1>2, <1>3, <1>4, <1>5, Zenon

LEMMA BpinKeeps ==
  ASSUME IInv, NEW p \in Clients, Bpin(p) \/ Bunpin(p)
  PROVE  IInv'
<1> USE DEF IInv
<1>1. cur[p] \in Bufs /\ pc[p] = "held"
  BY Zenon DEF Bpin, Bunpin, UserInv
<1>2. UNCHANGED <<blk, valid, bdata, holder, disk, pc, cur, want>>
  BY DEF Bpin, Bunpin
<1>3. \A c \in Bufs : Cardinality(Users(c)) \in Nat
  BY FiniteUsers, FS_CardinalityType
<1>4. Cardinality(Users(cur[p])) > 0
  <2>1. Users(cur[p]) # {}
    BY Zenon DEF Users
  <2> QED
    BY <1>1, <1>3, <2>1, FiniteUsers, FS_EmptySet
<1>5. TypeInv' /\ RefInv'
  <2>1. refcnt' \in [Bufs -> Nat] /\ pinned' \in SUBSET Bufs /\ dirty' \in [Clients -> BOOLEAN]
    <3>1. refcnt[cur[p]] \in Nat \ {0}
      BY <1>1, <1>3, <1>4, SMTT(30) DEF TypeInv, RefInv
    <3>2. CASE Bpin(p)
      BY <1>1, <3>1, <3>2 DEF Bpin, TypeInv
    <3>3. CASE Bunpin(p)
      BY <1>1, <3>1, <3>3 DEF Bunpin, TypeInv
    <3> QED
      BY <3>2, <3>3
  <2>2. \A c \in Bufs : Users(c)' = Users(c)
    BY <1>2, Zenon DEF Users
  <2>3. \A c \in Bufs : refcnt'[c] = Cardinality(Users(c)) + IF c \in pinned' THEN 1 ELSE 0
    BY <1>1, <1>3, SMTT(30) DEF Bpin, Bunpin, TypeInv, RefInv
  <2> QED
    BY <1>2, <2>1, <2>2, <2>3, Zenon DEF TypeInv, RefInv
<1>6. UserInv' /\ UniqueInv' /\ LockInv' /\ SleepersBlocked'
  BY <1>2, SMTT(30) DEF UserInv, UniqueInv, LockInv, SleepersBlocked
<1>7. DataInv'
  BY <1>1, <1>2, SMTT(30) DEF Bpin, Bunpin, TypeInv, DataInv
<1> QED
  BY <1>5, <1>6, <1>7

LEMMA ReleaseSleepKeeps ==
  ASSUME IInv, NEW p \in Clients, ReleaseSleep(p)
  PROVE  IInv'
<1> USE DEF IInv
<1>1. cur[p] \in Bufs /\ holder[cur[p]] = p /\ pc[p] = "held" /\ ~dirty[p]
  BY DEF ReleaseSleep, UserInv, LockInv
<1>2. /\ holder' = [holder EXCEPT ![cur[p]] = NoClient]
      /\ pc' = [WakeSleepers(cur[p]) EXCEPT ![p] = "drop"]
      /\ UNCHANGED <<blk, valid, refcnt, bdata, disk, cur, want, dirty, pinned>>
  BY <1>1, Zenon DEF ReleaseSleep
<1>3. /\ pc' \in [Clients -> Labels] /\ pc'[p] = "drop"
      /\ \A q \in Clients \ {p} :
           pc'[q] = IF pc[q] = "asleep" /\ cur[q] = cur[p] THEN "acquire" ELSE pc[q]
  BY <1>2, Zenon DEF WakeSleepers, TypeInv, Labels
<1>4. TypeInv'
  BY <1>1, <1>2, <1>3, Zenon DEF TypeInv
<1>5. UserInv' /\ UniqueInv'
  BY <1>1, <1>2, <1>3, Zenon DEF TypeInv, UserInv, UniqueInv
<1>6. RefInv'
  BY <1>2, Zenon DEF RefInv, Users
<1>7. LockInv' /\ SleepersBlocked'
  BY <1>1, <1>2, <1>3, BcacheAssumption, SMTT(30) DEF TypeInv, UserInv, LockInv, SleepersBlocked
<1>8. DataInv'
  BY <1>1, <1>2, <1>3 DEF TypeInv, DataInv
<1> QED
  BY <1>4, <1>5, <1>6, <1>7, <1>8, Zenon

LEMMA DropKeeps ==
  ASSUME IInv, NEW p \in Clients, Drop(p)
  PROVE  IInv'
<1> USE DEF IInv
<1>1. PICK c \in Bufs : c = cur[p]
  BY ZenonT(30) DEF Drop, UserInv
<1>2. /\ refcnt' = [refcnt EXCEPT ![c] = @ - 1]
      /\ pc' = [pc EXCEPT ![p] = "idle"] /\ cur' = [cur EXCEPT ![p] = head]
      /\ want' = [want EXCEPT ![p] = NoBlock]
      /\ UNCHANGED <<blk, valid, bdata, holder, disk, dirty, pinned>>
  BY <1>1 DEF Drop, Unref
<1>3. \A d \in Bufs : Cardinality(Users(d)) \in Nat
  BY FiniteUsers, FS_CardinalityType, Zenon
<1>4. /\ Users(c)' = Users(c) \ {p} /\ p \in Users(c)
      /\ \A d \in Bufs \ {c} : Users(d)' = Users(d)
  BY <1>1, <1>2, HeadNoBuf DEF TypeInv, Users
<1>5. Cardinality(Users(c)') = Cardinality(Users(c)) - 1 /\ Cardinality(Users(c)) > 0
  <2>1. Cardinality(Users(c)') = Cardinality(Users(c)) - 1
    BY <1>4, FiniteUsers, FS_RemoveElement, Zenon
  <2>2. Cardinality(Users(c)) # 0
    BY <1>4, FiniteUsers, FS_EmptySet
  <2> QED
    BY <1>3, <2>1, <2>2
<1>6. RefInv' /\ refcnt' \in [Bufs -> Nat]
  <2>1. refcnt' \in [Bufs -> Nat]
    BY <1>2, <1>3, <1>5 DEF TypeInv, RefInv
  <2>2. ASSUME NEW d \in Bufs
        PROVE  refcnt'[d] = Cardinality(Users(d)') + IF d \in pinned' THEN 1 ELSE 0
    <3>1. CASE d = c
      BY <1>2, <1>3, <1>5, <3>1 DEF TypeInv, RefInv
    <3>2. CASE d # c
      BY <1>2, <1>4, <3>2, Zenon DEF TypeInv, RefInv
    <3> QED
      BY <3>1, <3>2, Zenon
  <2> QED
    BY <2>1, <2>2, Zenon DEF RefInv
<1>7. TypeInv'
  BY <1>2, <1>6, HeadNoBuf, Zenon DEF TypeInv, Labels
<1>8. UserInv' /\ UniqueInv'
  BY <1>2, Zenon DEF TypeInv, UserInv, UniqueInv
<1>9. LockInv' /\ SleepersBlocked'
  BY <1>1, <1>2, HeadNoBuf, SMTT(30) DEF Drop, TypeInv, LockInv, SleepersBlocked
<1>10. DataInv'
  BY <1>1, <1>2 DEF Drop, TypeInv, DataInv
<1> QED
  BY <1>6, <1>7, <1>8, <1>9, <1>10, ZenonT(30)

LEMMA NextIInv == IInv /\ [Next]_vars => IInv'
<1> SUFFICES ASSUME IInv, [Next]_vars PROVE IInv'
  BY Zenon
<1>1. CASE UNCHANGED vars
  BY <1>1 DEF vars, IInv, TypeInv, UserInv, UniqueInv, RefInv, Users, LockInv, DataInv,
              SleepersBlocked
<1>2. CASE Next
  BY <1>2, BgetKeeps, AcquireSleepKeeps, ReadDiskKeeps, ChangeKeeps, BwriteKeeps, BpinKeeps,
     ReleaseSleepKeeps, DropKeeps DEF Next, Step
<1> QED
  BY <1>1, <1>2

LEMMA Invariance == Spec => []IInv
BY InitIInv, NextIInv, PTL DEF Spec

\* acquiresleep() and releasesleep() lose no wakeup, however many clients wait
\* for one buffer.
THEOREM SleepLockLosesNoWakeup == Spec => []SleepersBlocked
<1>1. IInv => SleepersBlocked
  BY DEF IInv
<1> QED
  BY <1>1, Invariance, PTL

----------------------------------------------------------------------------
(* The LRU list *)

\* s lists the nodes along prev, from the head on; next leads back.
Ring(nx, pv, s) ==
  /\ nx \in [Nodes -> Nodes] /\ pv \in [Nodes -> Nodes] /\ s \in [Nodes -> Nodes]
  /\ s[0] = head
  /\ \A c \in Nodes : \E k \in Nodes : s[k] = c
  /\ \A k, m \in Nodes : s[k] = s[m] => k = m
  /\ \A k \in 0..NBUF - 1 : pv[s[k]] = s[k + 1] /\ nx[s[k + 1]] = s[k]
  /\ pv[s[NBUF]] = head /\ nx[head] = s[NBUF]

ListInv == \E s \in [Nodes -> Nodes] : Ring(next, prev, s)

LEMMA Counts == NBUF \in Nat /\ NBUF >= 1
BY BcacheAssumption

LEMMA RingInit == Init => ListInv
<1> SUFFICES ASSUME Init PROVE ListInv
  OBVIOUS
<1> DEFINE s == [k \in Nodes |-> k]
<1>1. s \in [Nodes -> Nodes] /\ \A k \in Nodes : s[k] = k
  OBVIOUS
<1>2. /\ next \in [Nodes -> Nodes] /\ prev \in [Nodes -> Nodes]
      /\ \A k \in 0..NBUF - 1 : prev[k] = k + 1 /\ next[k + 1] = k
      /\ prev[NBUF] = head /\ next[head] = NBUF
  BY Counts DEF Init, Nodes, head
<1>3. 0 \in Nodes /\ NBUF \in Nodes /\ \A k \in 0..NBUF - 1 : k \in Nodes /\ k + 1 \in Nodes
  BY Counts DEF Nodes
<1> HIDE DEF s
<1>4. /\ s[0] = 0 /\ s[NBUF] = NBUF /\ \A k \in 0..NBUF - 1 : s[k] = k /\ s[k + 1] = k + 1
      /\ \A c \in Nodes : \E k \in Nodes : s[k] = c
      /\ \A k, m \in Nodes : s[k] = s[m] => k = m
  BY <1>1, <1>3
<1>5. Ring(next, prev, s)
  BY <1>1, <1>2, <1>4 DEF Ring, head
<1> QED
  BY <1>1, <1>5, Zenon DEF ListInv

\* The list after the node at place j has moved to the front: the end of s.
Shift(s, j) ==
  [k \in Nodes |-> IF k < j THEN s[k] ELSE IF k < NBUF THEN s[k + 1] ELSE s[j]]

LEMMA SamePlace ==
  ASSUME NEW k \in Nat, NEW m \in Nat, NEW j \in Nat, NEW i \in Nat,
         k < j => i = k, k >= j /\ k < NBUF => i = k + 1, k >= j /\ ~(k < NBUF) => i = j /\ k = NBUF,
         m < j => i = m, m >= j /\ m < NBUF => i = m + 1, m >= j /\ ~(m < NBUF) => i = j /\ m = NBUF
  PROVE  k = m
BY Counts

LEMMA ShiftFacts ==
  ASSUME NEW s \in [Nodes -> Nodes], NEW j \in Bufs,
         \A c \in Nodes : \E k \in Nodes : s[k] = c,
         \A k, m \in Nodes : s[k] = s[m] => k = m
  PROVE  /\ Shift(s, j) \in [Nodes -> Nodes] /\ Shift(s, j)[0] = s[0]
         /\ \A c \in Nodes : \E k \in Nodes : Shift(s, j)[k] = c
         /\ \A k, m \in Nodes : Shift(s, j)[k] = Shift(s, j)[m] => k = m
<1> USE Counts
<1> DEFINE t == Shift(s, j)
<1>1. /\ \A k \in Nodes : k < j => t[k] = s[k]
      /\ \A k \in Nodes : k >= j /\ k < NBUF => t[k] = s[k + 1] /\ k + 1 \in Nodes
      /\ t[NBUF] = s[j]
  BY DEF Shift, Nodes, Bufs
<1>2. j \in Nodes /\ NBUF \in Nodes /\ 0 \in Nodes /\ 0 < j
  BY DEF Bufs, Nodes
<1>3. t \in [Nodes -> Nodes]
  <2>1. ASSUME NEW k \in Nodes PROVE t[k] \in Nodes
    <3>1. k < j \/ (k >= j /\ k < NBUF) \/ k = NBUF
      BY <1>2 DEF Nodes
    <3> QED
      BY <1>1, <1>2, <3>1
  <2>2. t = [k \in Nodes |-> t[k]]
    BY DEF Shift
  <2> HIDE DEF t
  <2> QED
    BY <2>1, <2>2
<1> HIDE DEF t
<1>4. t[0] = s[0]
  BY <1>1, <1>2
<1>5. ASSUME NEW k \in Nodes PROVE \E m \in Nodes : t[m] = s[k]
  <2>1. CASE k < j
    BY <1>1, <2>1
  <2>2. CASE k = j
    BY <1>1, <1>2, <2>2
  <2>3. CASE k > j
    <3>1. k - 1 \in Nodes /\ k - 1 >= j /\ k - 1 < NBUF /\ (k - 1) + 1 = k
      BY <2>3 DEF Bufs, Nodes
    <3>2. t[k - 1] = s[(k - 1) + 1]
      BY <1>1, <3>1
    <3> QED
      BY <3>1, <3>2, Zenon
  <2> QED
    BY <2>1, <2>2, <2>3 DEF Bufs, Nodes
<1>6. ASSUME NEW k \in Nodes
      PROVE  \E i \in Nodes : /\ t[k] = s[i]
                              /\ k < j => i = k
                              /\ k >= j /\ k < NBUF => i = k + 1
                              /\ k >= j /\ ~(k < NBUF) => i = j /\ k = NBUF
  <2>1. CASE k < j
    <3>1. ~(k >= j)
      BY <1>2, <2>1 DEF Nodes
    <3> QED
      BY <1>1, <2>1, <3>1, Zenon
  <2>2. CASE k >= j /\ k < NBUF
    <3>1. ~(k < j)
      BY <1>2, <2>2 DEF Nodes
    <3> QED
      BY <1>1, <2>2, <3>1, Zenon
  <2>3. CASE k >= j /\ ~(k < NBUF)
    <3>1. ~(k < j) /\ k = NBUF
      BY <1>2, <2>3 DEF Nodes
    <3> QED
      BY <1>1, <1>2, <2>3, <3>1, Zenon
  <2>4. k < j \/ k >= j
    BY <1>2 DEF Nodes
  <2> QED
    BY <2>1, <2>2, <2>3, <2>4, Zenon
<1>7. ASSUME NEW k \in Nodes, NEW m \in Nodes, t[k] = t[m] PROVE k = m
  <2>1. PICK i \in Nodes : /\ t[k] = s[i]
                           /\ k < j => i = k
                           /\ k >= j /\ k < NBUF => i = k + 1
                           /\ k >= j /\ ~(k < NBUF) => i = j /\ k = NBUF
    BY <1>6
  <2>2. PICK l \in Nodes : /\ t[m] = s[l]
                           /\ m < j => l = m
                           /\ m >= j /\ m < NBUF => l = m + 1
                           /\ m >= j /\ ~(m < NBUF) => l = j /\ m = NBUF
    BY <1>6
  <2>3. i = l
    BY <1>7, <2>1, <2>2, Zenon
  <2>4. /\ k < j => i = k
        /\ k >= j /\ k < NBUF => i = k + 1
        /\ k >= j /\ ~(k < NBUF) => i = j /\ k = NBUF
    BY <2>1
  <2>5. /\ m < j => i = m
        /\ m >= j /\ m < NBUF => i = m + 1
        /\ m >= j /\ ~(m < NBUF) => i = j /\ m = NBUF
    BY <2>2, <2>3
  <2>6. k \in Nat /\ m \in Nat /\ j \in Nat /\ i \in Nat
    BY <1>2 DEF Nodes
  <2> QED
    BY <2>4, <2>5, <2>6, SamePlace, ZenonT(30)
<1>8. \A c \in Nodes : \E k \in Nodes : t[k] = c
  BY <1>5, Zenon
<1> QED
  BY <1>3, <1>4, <1>7, <1>8, Zenon DEF t

\* The pointer assignments of brelse()
Prev2(nx, pv, c) ==
  LET n1 == [nx EXCEPT ![pv[c]] = nx[c]] IN
  [[[pv EXCEPT ![nx[c]] = pv[c]] EXCEPT ![c] = head] EXCEPT ![n1[head]] = c]

Next2(nx, pv, c) ==
  LET n1 == [nx EXCEPT ![pv[c]] = nx[c]] IN [n1 EXCEPT ![c] = n1[head], ![head] = c]

\* MoveToFront() keeps the list a list of the same nodes.
LEMMA MovedRing ==
  ASSUME NEW nx, NEW pv, NEW s, Ring(nx, pv, s), NEW j \in Bufs
  PROVE  Ring(Next2(nx, pv, s[j]), Prev2(nx, pv, s[j]), Shift(s, j))
<1> USE Counts
<1> DEFINE c == s[j]
           t == Shift(s, j)
           n1 == [nx EXCEPT ![pv[c]] = nx[c]]
           f == n1[head]
           p2 == Prev2(nx, pv, c)
           n2 == Next2(nx, pv, c)
<1>1. /\ nx \in [Nodes -> Nodes] /\ pv \in [Nodes -> Nodes] /\ s \in [Nodes -> Nodes]
      /\ s[0] = head
      /\ \A k, m \in Nodes : s[k] = s[m] => k = m
      /\ \A k \in 0..NBUF - 1 : pv[s[k]] = s[k + 1] /\ nx[s[k + 1]] = s[k]
      /\ pv[s[NBUF]] = head /\ nx[head] = s[NBUF]
  BY DEF Ring
<1>2. /\ j \in Nodes /\ j - 1 \in 0..NBUF - 1 /\ j - 1 \in Nodes /\ (j - 1) + 1 = j
      /\ 0 \in Nodes /\ NBUF \in Nodes /\ j # 0 /\ NBUF # 0 /\ j - 1 # j /\ j - 1 # NBUF
  BY DEF Bufs, Nodes
<1>3. c \in Nodes /\ nx[c] = s[j - 1] /\ c # head
  BY <1>1, <1>2
<1>4. /\ t \in [Nodes -> Nodes] /\ t[0] = head
      /\ \A d \in Nodes : \E k \in Nodes : t[k] = d
      /\ \A k, m \in Nodes : t[k] = t[m] => k = m
  BY ShiftFacts, ZenonT(90) DEF Ring
<1>5. /\ \A k \in Nodes : k < j => t[k] = s[k]
      /\ \A k \in Nodes : k >= j /\ k < NBUF => t[k] = s[k + 1] /\ k + 1 \in Nodes
      /\ t[NBUF] = c
  BY DEF Shift, Nodes, Bufs
<1>6. n1 \in [Nodes -> Nodes] /\ n1[pv[c]] = nx[c] /\ \A d \in Nodes \ {pv[c]} : n1[d] = nx[d]
  BY <1>1, <1>3
<1>7. f \in Nodes
  BY <1>2, <1>6, HeadNoBuf
<1>8. /\ p2 \in [Nodes -> Nodes] /\ p2[f] = c
      /\ c # f => p2[c] = head
      /\ s[j - 1] # f /\ s[j - 1] # c => p2[s[j - 1]] = pv[c]
      /\ \A d \in Nodes : d # f /\ d # c /\ d # s[j - 1] => p2[d] = pv[d]
  BY <1>1, <1>2, <1>3, <1>7, HeadNoBuf, ZenonT(90) DEF Prev2
<1>9. /\ n2 \in [Nodes -> Nodes] /\ n2[head] = c
      /\ n2[c] = f
      /\ \A d \in Nodes : d # head /\ d # c => n2[d] = n1[d]
  BY <1>1, <1>2, <1>3, <1>6, <1>7, HeadNoBuf DEF Next2
<1> HIDE DEF c, t, n1, f, p2, n2
<1>10. CASE j = NBUF
  <2>1. pv[c] = head /\ nx[c] = s[NBUF - 1] /\ f = s[NBUF - 1]
    BY <1>1, <1>3, <1>6, <1>10 DEF c, f
  <2>2. \A k \in Nodes : t[k] = s[k]
    BY <1>5, <1>10 DEF Nodes, c
  <2>3. c # f
    BY <1>1, <1>2, <1>10, <2>1 DEF c
  <2>4. ASSUME NEW k \in 0..NBUF - 1 PROVE p2[s[k]] = s[k + 1] /\ n2[s[k + 1]] = s[k]
    <3>1. k \in Nodes /\ k + 1 \in Nodes /\ k # NBUF /\ k + 1 # 0
      BY DEF Nodes
    <3>2. s[k] \in Nodes /\ s[k + 1] \in Nodes /\ s[k] # c /\ s[k + 1] # head
      BY <1>1, <1>2, <1>10, <3>1 DEF c
    <3>3. CASE k = NBUF - 1
      <4>1. s[k] = f /\ s[k + 1] = c
        BY <1>10, <2>1, <3>3 DEF c
      <4> QED
        BY <1>8, <1>9, <4>1, Zenon
    <3>4. CASE k # NBUF - 1
      <4>1. k + 1 # NBUF /\ NBUF - 1 \in Nodes
        BY <3>4 DEF Nodes
      <4>2. s[k] # f /\ s[k + 1] # c /\ s[k] # s[j - 1]
        BY <1>1, <1>2, <1>10, <2>1, <3>1, <3>4, <4>1, Zenon DEF c
      <4>3. p2[s[k]] = pv[s[k]] /\ n2[s[k + 1]] = n1[s[k + 1]]
        BY <1>8, <1>9, <3>2, <4>2, Zenon
      <4>4. n1[s[k + 1]] = nx[s[k + 1]]
        BY <1>6, <2>1, <3>2, Zenon
      <4> QED
        BY <1>1, <4>3, <4>4, Zenon
    <3> QED
      BY <3>3, <3>4
  <2>5. ASSUME NEW k \in 0..NBUF - 1 PROVE p2[t[k]] = t[k + 1] /\ n2[t[k + 1]] = t[k]
    <3>1. k \in Nodes /\ k + 1 \in Nodes
      BY DEF Nodes
    <3> QED
      BY <2>2, <2>4, <3>1
  <2>6. p2[t[NBUF]] = head /\ n2[head] = t[NBUF]
    BY <1>5, <1>8, <1>9, <2>3, Zenon
  <2> QED
    BY <1>4, <1>8, <1>9, <2>5, <2>6, Zenon DEF Ring, c, t, p2, n2
<1>11. CASE j # NBUF
  <2>1. /\ j \in 0..NBUF - 1 /\ j + 1 \in Nodes /\ j + 1 # 0 /\ j < NBUF /\ NBUF - 1 \in Nodes
        /\ j + 1 # j - 1 /\ j + 1 # j
    BY <1>2, <1>11 DEF Nodes, Bufs
  <2>2. pv[c] = s[j + 1] /\ pv[c] # head
    BY <1>1, <1>2, <2>1 DEF c
  <2>3. f = s[NBUF] /\ c # f /\ s[j - 1] # f /\ s[j - 1] # c
    BY <1>1, <1>2, <1>6, <1>11, <2>2, HeadNoBuf, SMTT(30) DEF c, f
  <2>4. ASSUME NEW k \in 0..NBUF - 1 PROVE p2[t[k]] = t[k + 1] /\ n2[t[k + 1]] = t[k]
    <3>1. k \in Nodes /\ k + 1 \in Nodes /\ k + 1 # 0 /\ k # NBUF /\ k < NBUF
      BY DEF Nodes
    <3>2. CASE k < j - 1
      <4>1. k < j /\ k + 1 < j /\ k # j /\ k # j - 1 /\ k + 1 # j /\ k + 1 # j + 1
        BY <3>2, <1>2 DEF Nodes
      <4>2. t[k] = s[k] /\ t[k + 1] = s[k + 1]
        BY <1>5, <3>1, <4>1, Zenon
      <4>3. /\ s[k] \in Nodes /\ s[k + 1] \in Nodes /\ s[k] # f /\ s[k] # c /\ s[k] # s[j - 1]
            /\ s[k + 1] # head /\ s[k + 1] # c /\ s[k + 1] # pv[c]
        BY <1>1, <1>2, <2>1, <2>2, <2>3, <3>1, <4>1 DEF c
      <4> QED
        BY <1>1, <1>6, <1>8, <1>9, <4>2, <4>3, SMTT(30)
    <3>3. CASE k = j - 1
      <4>1. k < j /\ k + 1 = j
        BY <3>3, <1>2
      <4>2. t[k] = s[j - 1] /\ t[k + 1] = s[j + 1]
        BY <1>2, <1>5, <2>1, <3>1, <3>3, <4>1
      <4>3. s[j + 1] # head /\ s[j + 1] # c /\ s[j + 1] \in Nodes
        BY <1>1, <1>2, <2>1 DEF c
      <4>4. p2[s[j - 1]] = s[j + 1]
        BY <1>8, <2>2, <2>3, Zenon
      <4>5. n2[s[j + 1]] = s[j - 1]
        BY <1>3, <1>6, <1>9, <2>2, <4>3, Zenon
      <4> QED
        BY <4>2, <4>4, <4>5, Zenon
    <3>4. CASE k >= j /\ k < NBUF - 1
      <4>1. /\ k + 1 >= j /\ k + 1 < NBUF /\ k + 2 \in Nodes /\ k + 1 \in 0..NBUF - 1
            /\ (k + 1) + 1 = k + 2 /\ k + 2 # 0 /\ k + 2 # j + 1 /\ k + 2 # j
            /\ k + 1 # j /\ k + 1 # j - 1 /\ k + 1 # NBUF
        BY <1>2, <3>4 DEF Nodes
      <4>2. t[k] = s[k + 1] /\ t[k + 1] = s[k + 2]
        BY <1>5, <3>1, <3>4, <4>1, Zenon
      <4>3. /\ s[k + 1] \in Nodes /\ s[k + 2] \in Nodes
            /\ s[k + 1] # f /\ s[k + 1] # c /\ s[k + 1] # s[j - 1]
            /\ s[k + 2] # head /\ s[k + 2] # c /\ s[k + 2] # pv[c]
        BY <1>1, <1>2, <2>1, <2>2, <2>3, <3>1, <4>1 DEF c
      <4>4. pv[s[k + 1]] = s[k + 2] /\ nx[s[k + 2]] = s[k + 1]
        BY <1>1, <4>1, Zenon
      <4>5. p2[s[k + 1]] = pv[s[k + 1]] /\ n2[s[k + 2]] = n1[s[k + 2]]
        BY <1>8, <1>9, <4>3, Zenon
      <4>6. n1[s[k + 2]] = nx[s[k + 2]]
        BY <1>6, <4>3, Zenon
      <4> QED
        BY <4>2, <4>4, <4>5, <4>6, Zenon
    <3>5. CASE k = NBUF - 1
      <4>1. k >= j /\ k + 1 = NBUF
        BY <1>2, <2>1, <3>5
      <4>2. t[k] = f /\ t[k + 1] = c
        BY <1>5, <2>3, <3>1, <4>1, Zenon
      <4> QED
        BY <1>8, <1>9, <4>2, Zenon
    <3> QED
      BY <1>2, <3>2, <3>3, <3>4, <3>5 DEF Nodes
  <2>5. p2[t[NBUF]] = head /\ n2[head] = t[NBUF]
    BY <1>5, <1>8, <1>9, <2>3, Zenon
  <2> QED
    BY <1>4, <1>8, <1>9, <2>4, <2>5, ZenonT(30) DEF Ring, c, t, p2, n2
<1> QED
  BY <1>10, <1>11, Zenon

LEMMA DropList ==
  ASSUME IInv, ListInv, NEW p \in Clients, Drop(p)
  PROVE  ListInv'
<1> DEFINE c == cur[p]
<1>1. c \in Bufs
  BY DEF IInv, UserInv, Drop
<1>2. CASE UNCHANGED list
  BY <1>2 DEF list, ListInv
<1>3. CASE MoveToFront(c)
  <2>1. prev' = Prev2(next, prev, c) /\ next' = Next2(next, prev, c)
    BY <1>3 DEF MoveToFront, Prev2, Next2
  <2>2. PICK s \in [Nodes -> Nodes] : Ring(next, prev, s)
    BY DEF ListInv
  <2>3. PICK j \in Nodes : s[j] = c
    BY <1>1, <2>2, HeadNoBuf, Zenon DEF Ring
  <2>4. j \in Bufs
    BY <1>1, <2>2, <2>3, HeadNoBuf DEF Ring, Bufs, Nodes
  <2>5. Ring(next', prev', Shift(s, j))
    BY <2>1, <2>2, <2>3, <2>4, MovedRing, Zenon
  <2>6. Shift(s, j) \in [Nodes -> Nodes]
    BY <2>5, Zenon DEF Ring
  <2> QED
    BY <2>5, <2>6, Zenon DEF ListInv
<1> QED
  BY <1>2, <1>3, Zenon DEF Drop

LEMMA NextList == IInv /\ ListInv /\ [Next]_vars => ListInv'
<1> SUFFICES ASSUME IInv, ListInv, [Next]_vars PROVE ListInv'
  OBVIOUS
<1>1. CASE UNCHANGED list
  BY <1>1 DEF list, ListInv
<1>2. CASE \E p \in Clients : Drop(p)
  BY <1>2, DropList, ZenonT(30)
<1>3. UNCHANGED list \/ \E p \in Clients : Drop(p)
  BY ZenonT(30) DEF Next, Step, Bget, Change, AcquireSleep, ReadDisk, Bwrite, Bpin, Bunpin, ReleaseSleep,
         vars, list
<1> QED
  BY <1>1, <1>2, <1>3

\* The way that bget() goes along prev is the list.
LEMMA BackwardIsRing ==
  ASSUME NEW s, Ring(next, prev, s)
  PROVE  \A k \in Nodes : Backward[k] = s[k]
<1> DEFINE N == NBUF + 1
           F(h) == [k \in Nat |-> IF k = 0 THEN head ELSE prev[h[k - 1]]]
           g == [k \in Nat |-> s[k % N]]
<1>1. /\ s[0] = head
      /\ \A k \in 0..NBUF - 1 : prev[s[k]] = s[k + 1]
      /\ prev[s[NBUF]] = head
  BY DEF Ring
<1>2. g = F(g)
  <2>1. g[0] = head
    <3>1. 0 % N = 0
      BY Counts
    <3> QED
      BY <1>1, <3>1
  <2>2. ASSUME NEW k \in Nat \ {0} PROVE g[k] = prev[g[k - 1]]
    <3>1. N \in Nat \ {0} /\ k - 1 \in Nat /\ (k - 1) + 1 = k
      BY Counts
    <3>2. (k - 1) % N \in 0..N - 1
      BY <3>1, ModRange
    <3>3. (((k - 1) % N) + 1) % N = k % N
      BY <3>1, ModSucc
    <3> DEFINE m == (k - 1) % N
    <3>4. g[k] = s[k % N] /\ g[k - 1] = s[m]
      BY <3>1
    <3>5. CASE m = NBUF
      <4>1. (m + 1) % N = 0
        BY <3>1, <3>5
      <4>2. k % N = 0
        BY <3>3, <4>1, Zenon
      <4> QED
        BY <1>1, <3>4, <3>5, <4>2
    <3>6. CASE m # NBUF
      <4> HIDE DEF m
      <4>1. m \in 0..NBUF - 1 /\ m + 1 \in 0..N - 1
        BY <3>2, <3>6, Counts DEF m
      <4>2. (m + 1) % N = m + 1
        BY <3>1, <4>1
      <4>3. k % N = m + 1
        BY <3>3, <4>2, Zenon DEF m
      <4> QED
        BY <1>1, <3>4, <4>1, <4>3, Zenon
    <3> QED
      BY <3>5, <3>6
  <2> HIDE DEF g
  <2>3. \A k \in Nat : g[k] = IF k = 0 THEN head ELSE prev[g[k - 1]]
    BY <2>1, <2>2
  <2>4. g = [k \in Nat |-> g[k]]
    BY DEF g
  <2> QED
    BY <2>3, <2>4, Zenon
<1>3. Backward = CHOOSE h : h = F(h)
  BY Zenon DEF Backward
<1> HIDE DEF g
<1>4. Backward = F(Backward)
  BY <1>2, <1>3, Zenon
<1>5. \A k \in Nat : Backward[k] = IF k = 0 THEN head ELSE prev[Backward[k - 1]]
  BY <1>4, Zenon
<1> DEFINE T == {k \in Nodes : Backward[k] # s[k]}
<1>6. ASSUME T # {} PROVE FALSE
  <2>1. T \in SUBSET Nat
    BY Counts DEF Nodes
  <2>2. PICK m \in T : \A k \in T : ~(k < m)
    <3> HIDE DEF T
    <3> QED
      BY <1>6, <2>1, Least, Zenon
  <2>3. m \in 0..NBUF /\ m \in Nat
    BY Counts DEF Nodes
  <2>4. m # 0
    BY <1>1, <1>5, <2>3, Zenon
  <2>5. m - 1 \in 0..NBUF - 1 /\ m - 1 \in Nodes /\ m - 1 < m /\ (m - 1) + 1 = m
    BY <2>3, <2>4, Counts DEF Nodes
  <2>6. Backward[m - 1] = s[m - 1]
    BY <2>2, <2>5, Zenon
  <2>7. Backward[m] = prev[Backward[m - 1]]
    BY <1>5, <2>3, <2>4, Zenon
  <2>8. prev[s[m - 1]] = s[m]
    BY <1>1, <2>5
  <2> QED
    BY <2>6, <2>7, <2>8, Zenon
<1> QED
  BY <1>6, Zenon

\* If some buffer can be recycled, bget() finds one.
LEMMA VictimFound ==
  ASSUME ListInv, NEW d \in Bufs, refcnt[d] = 0
  PROVE  \E c \in Bufs : IsVictim(c)
<1>1. PICK s \in [Nodes -> Nodes] : Ring(next, prev, s)
  BY DEF ListInv
<1>2. \A k \in Nodes : Backward[k] = s[k]
  BY <1>1, BackwardIsRing
<1> DEFINE T == {k \in Nodes : s[k] \in Bufs /\ refcnt[s[k]] = 0}
<1>3. T \in SUBSET Nat
  BY Counts DEF Nodes
<1>4. T # {}
  BY <1>1, HeadNoBuf DEF Ring
<1>5. PICK k \in T : \A m \in T : ~(m < k)
  <2> HIDE DEF T
  <2> QED
    BY <1>3, <1>4, Least, Zenon
<1>6. k \in Bufs
  BY <1>1, HeadNoBuf, Counts DEF Ring, Nodes, Bufs
<1>7. ASSUME NEW m \in 1..k - 1 PROVE ~Evictable(Backward[m])
  <2>1. m \in Nodes /\ m < k /\ m # 0 /\ 0 \in Nodes
    BY <1>6, Counts DEF Bufs, Nodes
  <2>2. s[m] \in Bufs
    <3>1. s[m] \in Nodes /\ s[m] # s[0] /\ s[0] = head
      BY <1>1, <2>1, ZenonT(30) DEF Ring
    <3> QED
      BY <3>1 DEF Nodes, Bufs, head
  <2>3. m \notin T
    BY <1>5, <2>1, Zenon
  <2> QED
    BY <1>2, <2>1, <2>2, <2>3, Zenon DEF Evictable
<1>8. IsVictim(s[k])
  BY <1>2, <1>6, <1>7, Zenon DEF IsVictim, Evictable
<1> QED
  BY <1>8

\* bget() gave up because no buffer was free.
PanicInv == panicked => \A c \in Bufs : refcnt[c] > 0

LEMMA PanicStep == IInv /\ ListInv /\ PanicInv /\ [Next]_vars => PanicInv'
<1> SUFFICES ASSUME IInv, ListInv, PanicInv, [Next]_vars PROVE PanicInv'
  BY Zenon
<1>1. CASE UNCHANGED vars
  BY <1>1, Zenon DEF PanicInv, vars
<1>2. ASSUME ~panicked' PROVE PanicInv'
  BY <1>2, Zenon DEF PanicInv
<1>3. ASSUME NEW p \in Clients, NEW b \in Blocks, Bget(p, b), ~panicked PROVE PanicInv'
  <2>1. CASE \E d \in Bufs : refcnt[d] = 0
    <3>1. \E c \in Bufs : IsVictim(c)
      BY <2>1, VictimFound, Zenon
    <3>2. ~panicked'
      BY <1>3, <3>1, Zenon DEF Bget
    <3> QED
      BY <1>2, <3>2, Zenon
  <2>2. CASE \A d \in Bufs : refcnt[d] # 0
    <3>1. \A c \in Bufs : refcnt[c] > 0
      BY <2>2 DEF IInv, TypeInv
    <3>2. CASE ~panicked'
      BY <1>2, <3>2
    <3>3. CASE panicked'
      BY <1>3, <3>1, <3>3, Zenon DEF Bget, PanicInv
    <3> QED
      BY <3>2, <3>3
  <2> QED
    BY <2>1, <2>2, Zenon
<1>4. ASSUME NEW p \in Clients, Bwrite(p) \/ ReleaseSleep(p), ~panicked PROVE ~panicked'
  <2>1. pc[p] = "held"
    BY <1>4, Zenon DEF Bwrite, ReleaseSleep
  <2>2. holder[cur[p]] = p
    BY <2>1, Zenon DEF IInv, UserInv, LockInv
  <2> QED
    BY <1>4, <2>2, Zenon DEF Bwrite, ReleaseSleep
<1>5. CASE Next
  <2>1. ~panicked
    BY <1>5, Zenon DEF Next
  <2>2. \/ ~panicked'
        \/ \E p \in Clients : Bwrite(p) \/ ReleaseSleep(p) \/ \E b \in Blocks : Bget(p, b)
    BY <1>5, <2>1, Zenon DEF Next, Step, Change, AcquireSleep, ReadDisk, Bpin, Bunpin, Drop
  <2> QED
    BY <1>2, <1>3, <1>4, <2>1, <2>2, Zenon
<1> QED
  BY <1>1, <1>5

\* bio.c keeps a buffer for its block as long as anybody has a reference to it, and
\* bget() panics only if every buffer is in use or pinned: for any number of
\* buffers, blocks and clients, and whatever the log pins.
THEOREM BcacheKeepsBuffers == Spec => []BufferKept
<1> DEFINE Inv == IInv /\ ListInv /\ PanicInv
<1>1. Init => Inv
  <2>1. Init => PanicInv
    BY Zenon DEF Init, PanicInv
  <2> QED
    BY <2>1, InitIInv, RingInit, Zenon
<1>2. Inv /\ [Next]_vars => Inv'
  BY NextIInv, NextList, PanicStep, Zenon
<1>3. Inv => BufferKept
  BY Zenon DEF BufferKept, PanicInv, IInv, UserInv, UniqueInv, RefInv, Users
<1> HIDE DEF Inv
<1> QED
  BY <1>1, <1>2, <1>3, PTL DEF Spec

----------------------------------------------------------------------------
(* Refinement: the cache is transparent *)

Val == [b \in Blocks |-> Visible(b)]
Holds == [p \in Clients |-> IF pc[p] = "held" THEN blk[cur[p]] ELSE NoBlock]
svars == <<Val, Holds>>

\* A block's value is in the one buffer that has it, or on the disk; now, and in
\* the next state.
LEMMA VisibleNow ==
  ASSUME UniqueInv, NEW b \in Blocks
  PROVE  /\ \A c \in Bufs : blk[c] = b /\ valid[c] => Visible(b) = bdata[c]
         /\ (\A c \in Bufs : ~(blk[c] = b /\ valid[c])) => Visible(b) = disk[b]
<1>1. ASSUME NEW c \in Bufs, blk[c] = b, valid[c] PROVE Visible(b) = bdata[c]
  <2> DEFINE d == CHOOSE e \in Bufs : blk[e] = b /\ valid[e]
  <2>1. d \in Bufs /\ blk[d] = b
    BY <1>1, Zenon
  <2>2. d = c
    BY <1>1, <2>1, BcacheAssumption, Zenon DEF UniqueInv
  <2> QED
    BY <1>1, <2>2, Zenon DEF Visible
<1> QED
  BY <1>1 DEF Visible

LEMMA VisibleThen ==
  ASSUME UniqueInv', NEW b \in Blocks
  PROVE  /\ \A c \in Bufs : blk'[c] = b /\ valid'[c] => Visible(b)' = bdata'[c]
         /\ (\A c \in Bufs : ~(blk'[c] = b /\ valid'[c])) => Visible(b)' = disk'[b]
<1>1. ASSUME NEW c \in Bufs, blk'[c] = b, valid'[c] PROVE Visible(b)' = bdata'[c]
  <2> DEFINE d == CHOOSE e \in Bufs : blk'[e] = b /\ valid'[e]
  <2>1. d \in Bufs /\ blk'[d] = b
    BY <1>1, Zenon
  <2>2. d = c
    BY <1>1, <2>1, BcacheAssumption, Zenon DEF UniqueInv
  <2> QED
    BY <1>1, <2>2, Zenon DEF Visible
<1> QED
  BY <1>1 DEF Visible

\* One client at a time has a block.
LEMMA OneHolder ==
  ASSUME IInv, NEW p \in Clients, NEW q \in Clients, pc[p] # "idle", pc[q] = "held",
         blk[cur[q]] = blk[cur[p]], holder[cur[p]] \in {NoClient, p}
  PROVE  q = p
<1>1. cur[p] \in Bufs /\ cur[q] \in Bufs /\ blk[cur[p]] \in Blocks
  BY Zenon DEF IInv, UserInv
<1>2. cur[p] = cur[q]
  BY <1>1, BcacheAssumption, Zenon DEF IInv, UniqueInv
<1>3. holder[cur[q]] = q
  BY <1>1, Zenon DEF IInv, LockInv
<1> QED
  BY <1>2, <1>3, BcacheAssumption, Zenon

\* Process p gets its block when it has the lock and the contents.
LEMMA GetsHeld ==
  ASSUME IInv, IInv', NEW p \in Clients, pc[p] \in {"acquire", "read"},
         holder[cur[p]] \in {NoClient, p}, pc' = [pc EXCEPT ![p] = "held"],
         UNCHANGED <<blk, cur>>, Val' = Val
  PROVE  \E b \in Blocks : BS!Get(p, b)
<1>1. PICK b \in Blocks : b = blk[cur[p]]
  BY Zenon DEF IInv, UserInv
<1>2. \A q \in Clients : Holds[q] # b
  BY <1>1, OneHolder, BcacheAssumption DEF Holds
<1>3. Holds[p] = NoBlock /\ Holds' = [Holds EXCEPT ![p] = b]
  BY <1>1, ZenonT(30) DEF Holds, IInv, TypeInv
<1>4. BS!Get(p, b)
  BY <1>2, <1>3 DEF BS!Get, Val, Holds
<1> QED
  BY <1>4

\* Steps that change neither a buffer nor the disk.
LEMMA SameVal ==
  ASSUME UNCHANGED <<blk, valid, bdata, disk>>
  PROVE  Val' = Val
BY Zenon DEF Val, Visible

\* Steps of p outside the time that it has its block.
LEMMA SameHolds ==
  ASSUME TypeInv, NEW p \in Clients, NEW to \in Labels, pc[p] # "held", to # "held",
         pc' = [pc EXCEPT ![p] = to],
         \A q \in Clients \ {p} : pc[q] = "held" => blk'[cur'[q]] = blk[cur[q]]
  PROVE  Holds' = Holds
BY Zenon DEF TypeInv, Holds

LEMMA MissRefines ==
  ASSUME IInv, UniqueInv', NEW p \in Clients, NEW b \in Blocks, NEW c \in Bufs,
         pc[p] = "idle", \A d \in Bufs : blk[d] # b, refcnt[c] = 0, Miss(p, b, c),
         pc' = [pc EXCEPT ![p] = "acquire"], UNCHANGED <<bdata, disk>>
  PROVE  Val' = Val /\ Holds' = Holds
<1>1. c \notin pinned /\ \A q \in Clients : cur[q] # c
  BY EvictableUnused, Zenon DEF IInv
<1>2. /\ blk' = [blk EXCEPT ![c] = b] /\ valid' = [valid EXCEPT ![c] = FALSE]
      /\ cur' = [cur EXCEPT ![p] = c]
  BY DEF Miss
<1>3. Holds' = Holds
  <2>1. \A q \in Clients \ {p} : pc[q] = "held" => blk'[cur'[q]] = blk[cur[q]]
    BY <1>1, <1>2, Zenon DEF IInv, TypeInv, UserInv
  <2> QED
    BY <2>1, SameHolds, ZenonT(30) DEF IInv, Labels
<1>4. ASSUME NEW x \in Blocks PROVE Visible(x)' = Visible(x)
  <2>1. CASE \E d \in Bufs \ {c} : blk[d] = x /\ valid[d]
    <3>1. PICK d \in Bufs \ {c} : blk[d] = x /\ valid[d]
      BY <2>1, Zenon
    <3>2. blk'[d] = x /\ valid'[d]
      BY <1>2, <3>1, Zenon DEF IInv, TypeInv
    <3>3. Visible(x) = bdata[d]
      BY <3>1, VisibleNow, Zenon DEF IInv
    <3>4. Visible(x)' = bdata'[d]
      BY <3>1, <3>2, VisibleThen, Zenon
    <3> QED
      BY <3>3, <3>4, Zenon
  <2>2. CASE blk[c] = x /\ valid[c]
    <3>1. bdata[c] = disk[x]
      BY <1>1, <2>2, Zenon DEF IInv, DataInv
    <3>2. \A d \in Bufs : ~(blk'[d] = x /\ valid'[d])
      BY <1>2, <2>2, BcacheAssumption, Zenon DEF IInv, TypeInv, UniqueInv
    <3>3. Visible(x) = bdata[c]
      BY <2>2, VisibleNow, Zenon DEF IInv
    <3>4. Visible(x)' = disk'[x]
      BY <3>2, VisibleThen, Zenon
    <3> QED
      BY <3>1, <3>3, <3>4, Zenon
  <2>3. CASE \A d \in Bufs : ~(blk[d] = x /\ valid[d])
    <3>1. \A d \in Bufs : ~(blk'[d] = x /\ valid'[d])
      BY <1>2, <2>3 DEF IInv, TypeInv
    <3> QED
      BY <2>3, <3>1, VisibleNow, VisibleThen, Zenon DEF IInv
  <2> QED
    BY <2>1, <2>2, <2>3, Zenon
<1> QED
  BY <1>3, <1>4, Zenon DEF Val

LEMMA ReadDiskVal ==
  ASSUME IInv, UniqueInv', NEW p \in Clients, ReadDisk(p)
  PROVE  Val' = Val
<1>1. PICK c \in Bufs : c = cur[p] /\ blk[c] \in Blocks /\ ~valid[c]
  BY Zenon DEF IInv, UserInv, DataInv, ReadDisk
<1>2. /\ bdata' = [bdata EXCEPT ![c] = disk[blk[c]]]
      /\ valid' = [valid EXCEPT ![c] = TRUE] /\ UNCHANGED <<blk, disk>>
  BY <1>1, Zenon DEF ReadDisk
<1>3. ASSUME NEW x \in Blocks PROVE Visible(x)' = Visible(x)
  <2>1. CASE x = blk[c]
    <3>1. \A d \in Bufs : ~(blk[d] = x /\ valid[d])
      BY <1>1, <2>1, BcacheAssumption, Zenon DEF IInv, UniqueInv
    <3>2. blk'[c] = x /\ valid'[c] /\ bdata'[c] = disk[x]
      BY <1>2, <2>1, Zenon DEF IInv, TypeInv
    <3> QED
      BY <3>1, <3>2, VisibleNow, VisibleThen, Zenon DEF IInv
  <2>2. CASE x # blk[c] /\ \E d \in Bufs : blk[d] = x /\ valid[d]
    <3>1. PICK d \in Bufs : blk[d] = x /\ valid[d]
      BY <2>2, Zenon
    <3>2. blk'[d] = x /\ valid'[d] /\ bdata'[d] = bdata[d]
      BY <1>2, <2>2, <3>1, Zenon DEF IInv, TypeInv
    <3>3. Visible(x) = bdata[d]
      BY <3>1, VisibleNow, Zenon DEF IInv
    <3>4. Visible(x)' = bdata'[d]
      BY <3>2, VisibleThen, Zenon
    <3> QED
      BY <3>2, <3>3, <3>4, Zenon
  <2>3. CASE x # blk[c] /\ \A d \in Bufs : ~(blk[d] = x /\ valid[d])
    <3>1. \A d \in Bufs : ~(blk'[d] = x /\ valid'[d])
      BY <1>2, <2>3, Zenon DEF IInv, TypeInv
    <3> QED
      BY <1>2, <2>3, <3>1, VisibleNow, VisibleThen, Zenon DEF IInv
  <2> QED
    BY <2>1, <2>2, <2>3, Zenon
<1> QED
  BY <1>3, Zenon DEF Val

LEMMA ChangeRefines ==
  ASSUME IInv, UniqueInv', NEW p \in Clients, NEW v \in Vals, Change(p, v)
  PROVE  BS!Set(p, v)
<1>1. PICK c \in Bufs, b \in Blocks : c = cur[p] /\ blk[c] = b /\ valid[c]
  BY Zenon DEF IInv, UserInv, DataInv, Change
<1>2. bdata' = [bdata EXCEPT ![c] = v] /\ UNCHANGED <<blk, valid, disk, pc, cur>>
  BY <1>1, Zenon DEF Change
<1>3. Visible(b)' = v
  BY <1>1, <1>2, VisibleThen, Zenon DEF IInv, TypeInv
<1>4. ASSUME NEW x \in Blocks, x # b PROVE Visible(x)' = Visible(x)
  <2>1. CASE \E d \in Bufs : blk[d] = x /\ valid[d]
    <3>1. PICK d \in Bufs : blk[d] = x /\ valid[d]
      BY <2>1, Zenon
    <3>2. bdata'[d] = bdata[d]
      BY <1>1, <1>2, <1>4, <3>1, Zenon DEF IInv, TypeInv
    <3>3. Visible(x) = bdata[d]
      BY <3>1, VisibleNow, Zenon DEF IInv
    <3>4. Visible(x)' = bdata'[d]
      BY <1>2, <3>1, VisibleThen, Zenon
    <3> QED
      BY <3>2, <3>3, <3>4, Zenon
  <2>2. CASE \A d \in Bufs : ~(blk[d] = x /\ valid[d])
    BY <1>2, <2>2, VisibleNow, VisibleThen, ZenonT(30) DEF IInv
  <2> QED
    BY <2>1, <2>2, Zenon
<1>5. Holds[p] = b /\ Holds' = Holds
  BY <1>1, <1>2, ZenonT(30) DEF Holds, Change
<1>6. Val' = [Val EXCEPT ![b] = v]
  BY <1>1, <1>3, <1>4, Zenon DEF Val
<1> QED
  BY <1>1, <1>5, <1>6, BcacheAssumption, Zenon DEF BS!Set, Val, Holds

LEMMA BwriteVal ==
  ASSUME IInv, UniqueInv', NEW p \in Clients, Bwrite(p)
  PROVE  Val' = Val
<1>1. PICK c \in Bufs, b \in Blocks : c = cur[p] /\ blk[c] = b /\ valid[c]
  BY Zenon DEF IInv, UserInv, DataInv, Bwrite
<1>2. /\ disk' = disk \/ disk' = [disk EXCEPT ![b] = bdata[c]]
      /\ UNCHANGED <<blk, valid, bdata>>
  BY <1>1, Zenon DEF Bwrite
<1>3. ASSUME NEW x \in Blocks PROVE Visible(x)' = Visible(x)
  <2>1. CASE \E d \in Bufs : blk[d] = x /\ valid[d]
    <3>1. PICK d \in Bufs : blk[d] = x /\ valid[d]
      BY <2>1, Zenon
    <3>2. Visible(x) = bdata[d]
      BY <3>1, VisibleNow, Zenon DEF IInv
    <3>3. Visible(x)' = bdata'[d]
      BY <1>2, <3>1, VisibleThen, Zenon
    <3> QED
      BY <1>2, <3>2, <3>3, Zenon
  <2>2. CASE \A d \in Bufs : ~(blk[d] = x /\ valid[d])
    <3>1. x # b
      BY <1>1, <2>2, Zenon
    <3>2. disk'[x] = disk[x]
      BY <1>2, <3>1, Zenon DEF IInv, TypeInv
    <3> QED
      BY <1>2, <2>2, <3>2, VisibleNow, VisibleThen, Zenon DEF IInv
  <2> QED
    BY <2>1, <2>2, Zenon
<1> QED
  BY <1>3 DEF Val

LEMMA ReleaseRefines ==
  ASSUME IInv, NEW p \in Clients, ReleaseSleep(p)
  PROVE  BS!Release(p)
<1>1. cur[p] \in Bufs /\ holder[cur[p]] = p
  BY DEF ReleaseSleep, IInv, UserInv, LockInv
<1>2. /\ pc' = [WakeSleepers(cur[p]) EXCEPT ![p] = "drop"]
      /\ UNCHANGED <<blk, valid, bdata, disk, cur>>
  BY <1>1, Zenon DEF ReleaseSleep
<1>3. pc'[p] # "held" /\ \A q \in Clients \ {p} : pc'[q] = "held" <=> pc[q] = "held"
  BY <1>2, SMTT(30) DEF WakeSleepers, IInv, TypeInv
<1>4. Holds' = [Holds EXCEPT ![p] = NoBlock]
  BY <1>2, <1>3, Zenon DEF Holds
<1>5. Val' = Val
  BY <1>2, SameVal, Zenon
<1> QED
  BY <1>4, <1>5, Zenon DEF BS!Release, Val, Holds

LEMMA NextRefines ==
  ASSUME IInv, IInv', [Next]_vars
  PROVE  [BS!Next]_svars
<1> USE DEF svars
<1>1. ASSUME NEW p \in Clients, NEW b \in Blocks, Bget(p, b) PROVE UNCHANGED svars
  <2>1. CASE \E c \in Bufs : Hit(p, b, c) /\ pc' = [pc EXCEPT ![p] = "acquire"]
    <3>1. PICK c \in Bufs : cur' = [cur EXCEPT ![p] = c] /\ UNCHANGED <<blk, valid>>
      BY <2>1, ZenonT(30) DEF Hit
    <3>2. \A q \in Clients \ {p} : blk'[cur'[q]] = blk[cur[q]]
      BY <3>1, Zenon DEF IInv, TypeInv
    <3>3. Holds' = Holds
      BY <1>1, <2>1, <3>2, SameHolds, Zenon DEF Bget, IInv, Labels
    <3> QED
      BY <1>1, <3>1, <3>3, SameVal, Zenon DEF Bget
  <2>2. CASE /\ \A d \in Bufs : blk[d] # b
             /\ \E c \in Bufs : IsVictim(c) /\ Miss(p, b, c)
             /\ pc' = [pc EXCEPT ![p] = "acquire"]
    BY <1>1, <2>2, MissRefines, ZenonT(30) DEF Bget, IsVictim, Evictable, IInv
  <2>3. CASE UNCHANGED <<blk, valid, refcnt, cur, pc>>
    BY <1>1, <2>3, SameVal, Zenon DEF Bget, Holds
  <2> QED
    BY <1>1, <2>1, <2>2, <2>3, Zenon DEF Bget
<1>2. ASSUME NEW p \in Clients, AcquireSleep(p) PROVE [BS!Next]_svars
  <2>1. /\ pc[p] = "acquire" /\ Val' = Val /\ UNCHANGED <<blk, cur>>
        /\ \/ pc' = [pc EXCEPT ![p] = "asleep"]
           \/ pc' = [pc EXCEPT ![p] = "read"]
           \/ pc' = [pc EXCEPT ![p] = "held"] /\ holder[cur[p]] = NoClient
    BY <1>2, SameVal, Zenon DEF AcquireSleep
  <2>2. CASE pc' = [pc EXCEPT ![p] = "held"] /\ holder[cur[p]] = NoClient
    <3>1. \E b \in Blocks : BS!Get(p, b)
      BY <2>1, <2>2, GetsHeld, Zenon
    <3> QED
      BY <3>1 DEF BS!Next
  <2>3. CASE pc' = [pc EXCEPT ![p] = "asleep"] \/ pc' = [pc EXCEPT ![p] = "read"]
    <3>1. Holds' = Holds
      BY <2>1, <2>3, Zenon DEF Holds, IInv, TypeInv
    <3> QED
      BY <2>1, <3>1, Zenon
  <2> QED
    BY <2>1, <2>2, <2>3, Zenon
<1>3. ASSUME NEW p \in Clients, ReadDisk(p) PROVE [BS!Next]_svars
  <2>1. Val' = Val
    BY <1>3, ReadDiskVal, Zenon DEF IInv
  <2>2. cur[p] \in Bufs /\ holder[cur[p]] = p
    BY <1>3 DEF ReadDisk, IInv, UserInv, LockInv
  <2>3. \E b \in Blocks : BS!Get(p, b)
    BY <1>3, <2>1, <2>2, GetsHeld, Zenon DEF ReadDisk
  <2> QED
    BY <2>3 DEF BS!Next
<1>4. ASSUME NEW p \in Clients, NEW v \in Vals, Change(p, v) PROVE [BS!Next]_svars
  BY <1>4, ChangeRefines DEF BS!Next, IInv
<1>5. ASSUME NEW p \in Clients, Bwrite(p) PROVE UNCHANGED svars
  BY <1>5, BwriteVal, ZenonT(30) DEF Bwrite, Holds, IInv
<1>6. ASSUME NEW p \in Clients, Bpin(p) \/ Bunpin(p) PROVE UNCHANGED svars
  BY <1>6, SameVal, Zenon DEF Bpin, Bunpin, Holds
<1>7. ASSUME NEW p \in Clients, ReleaseSleep(p) PROVE [BS!Next]_svars
  BY <1>7, ReleaseRefines, Zenon DEF BS!Next
<1>8. ASSUME NEW p \in Clients, Drop(p) PROVE UNCHANGED svars
  <2>1. /\ pc[p] = "drop" /\ pc' = [pc EXCEPT ![p] = "idle"] /\ cur' = [cur EXCEPT ![p] = head]
        /\ UNCHANGED <<blk, valid, bdata, disk>>
    BY <1>8, Zenon DEF Drop
  <2>2. TypeInv
    BY Zenon DEF IInv
  <2>3. \A q \in Clients \ {p} : blk'[cur'[q]] = blk[cur[q]]
    BY <2>1, <2>2 DEF TypeInv
  <2>4. Holds' = Holds
    BY <2>1, <2>2, <2>3, SameHolds, Zenon DEF Labels
  <2> QED
    BY <2>1, <2>4, SameVal, Zenon
<1>9. CASE UNCHANGED vars
  BY <1>9, SameVal, Zenon DEF vars, Holds
<1> QED
  BY <1>1, <1>2, <1>3, <1>4, <1>5, <1>6, <1>7, <1>8, <1>9, Zenon DEF Next, Step

LEMMA InitRefines == Init => BS!Init
<1> SUFFICES ASSUME Init PROVE BS!Init
  OBVIOUS
<1>1. \A b \in Blocks : Visible(b) = InitVal
  BY DEF Init, Visible
<1> QED
  BY <1>1, Zenon DEF Init, BS!Init

\* The cache is transparent for every number of buffers, blocks, clients and
\* pins: a block has one value, which only the client that has it locked
\* changes, although its buffer is recycled and the block read again.
THEOREM BcacheRefinesBlockStore == Spec => IsBlockStore
<1>1. Init => BS!Init
  BY InitRefines
<1>2. IInv /\ IInv' /\ [Next]_vars => [BS!Next]_svars
  BY NextRefines
<1> QED
  BY <1>1, <1>2, Invariance, PTL DEF Spec, IsBlockStore, BS!Spec, svars, Val, Holds
=============================================================================
