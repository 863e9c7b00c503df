----------------------------- MODULE LogProofs -----------------------------
(***************************************************************************)
(* Proofs about the redo log of kernel/log.c, for any numbers of blocks,   *)
(* processes, log blocks and blocks per call.                              *)
(***************************************************************************)
EXTENDS Log, FiniteSetTheorems, TLAPS

----------------------------------------------------------------------------
(* The inductive invariant *)

\* Where commit() and recover_from_log() are, and what the header on disk says.
PhaseInv ==
  /\ committing <=> phase \in CommitPhases
  /\ phase \in {"idle", "write_log", "write_head", "done"} => dhead = <<>>
  /\ phase \in {"install", "clear", "recover", "rec_clear"} => dhead = lh
  /\ phase \in {"done", "read_head"} => lh = <<>>
  /\ phase \in {"write_log", "install", "recover"} => tail < Len(lh)
  /\ phase \in {"write_head", "clear", "rec_clear"} => tail = Len(lh)
  /\ phase = "write_head" => Len(lh) > 0
  /\ committing \/ ~Up => \A p \in Procs : pc[p] # "op"

Distinct(hd) == \A i, j \in 1..Len(hd) : hd[i] = hd[j] => i = j

\* Absorption keeps the log free of duplicates, in memory and on disk.
DistinctInv == Distinct(lh) /\ Distinct(dhead)

\* log.outstanding counts the calls between begin_op() and end_op().
CountInv == outstanding = Cardinality(Active)

\* A call writes at most OpBlocks different blocks, and starts with none.
WroteInv ==
  \A p \in Procs :
    /\ IsFiniteSet(wrote[p]) /\ Cardinality(wrote[p]) <= OpBlocks
    /\ pc[p] # "op" => wrote[p] = {}

\* The different blocks that active calls may still write.
Reserve ==
  {t \in Procs \X (1..MAXOPBLOCKS) : pc[t[1]] = "op" /\ Cardinality(wrote[t[1]]) < t[2]}

\* The space that begin_op() reserved is there.
ReserveInv == Len(lh) + Cardinality(Reserve) <= LOGBLOCKS

PinInv ==
  /\ Up => \A b \in Blocks : pin[b] = IF b \in Uninstalled THEN 1 ELSE 0
  /\ ~Up => \A b \in Blocks : pin[b] = 0

\* An unpinned block may be recycled: its cached copy is the disk's.
CacheInv ==
  \A b \in Blocks : IF pin[b] = 0 THEN buf[b] \in {NoVal, home[b]} ELSE buf[b] # NoVal

\* The log blocks written so far hold the cached updates; the blocks installed
\* so far hold the log's.
CopyInv ==
  /\ phase = "write_log" => \A i \in 1..tail : dlog[i] = buf[lh[i]]
  /\ phase = "write_head" => \A i \in 1..Len(lh) : dlog[i] = buf[lh[i]]
  /\ phase = "install" => \A i \in tail + 1..Len(lh) : dlog[i] = buf[lh[i]]
  /\ phase \in {"install", "clear", "recover", "rec_clear"} =>
       \A i \in 1..tail : home[lh[i]] = dlog[i]

IInv ==
  /\ TypeOK
  /\ RoomReserved
  /\ WroteInv
  /\ PhaseInv
  /\ DistinctInv
  /\ CountInv
  /\ ReserveInv
  /\ PinInv
  /\ CacheInv
  /\ CopyInv

----------------------------------------------------------------------------

USE DEF CommitPhases, BootPhases, Up

\* An empty log is a log.
LEMMA EmptyLog ==
  ASSUME NEW hd, hd = <<>>
  PROVE  hd \in Seq(Blocks) /\ Len(hd) = 0 /\ Logged(hd) = {}
  BY DEF Logged

\* An index of the log below its length names a block.
LEMMA LogEntry ==
  ASSUME TypeOK, tail < Len(lh)
  PROVE  /\ lh[tail + 1] \in Blocks
         /\ tail + 1 \in 1..LOGBLOCKS
         /\ tail + 1 \in 1..Len(lh)
  BY SizesAssumption DEF TypeOK

LEMMA FiniteSets ==
  ASSUME TypeOK
  PROVE  /\ IsFiniteSet(Active) /\ Cardinality(Active) \in Nat
         /\ IsFiniteSet(Reserve) /\ Cardinality(Reserve) \in Nat
<1>1. IsFiniteSet(1..MAXOPBLOCKS)
  BY FS_Interval, SizesAssumption
<1>2. IsFiniteSet(Procs \X (1..MAXOPBLOCKS))
  BY <1>1, ProcsAssumption, FS_Product, Zenon
<1>3. Active \in SUBSET Procs /\ Reserve \in SUBSET (Procs \X (1..MAXOPBLOCKS))
  BY DEF Active, Reserve
<1>. QED
  BY <1>2, <1>3, ProcsAssumption, FS_Subset, FS_CardinalityType

\* A call that may still write a block that is new to it finds room in the log.
LEMMA RoomToWrite ==
  ASSUME IInv, NEW p \in Procs, pc[p] = "op"
  PROVE  /\ outstanding >= 1
         /\ Cardinality(wrote[p]) \in Nat
         /\ Cardinality(wrote[p]) < MAXOPBLOCKS => Len(lh) < LOGBLOCKS
<1>. TypeOK /\ CountInv /\ ReserveInv /\ WroteInv
  BY DEF IInv
<1>1. p \in Active
  BY DEF Active
<1>2. outstanding >= 1
  BY <1>1, FiniteSets, FS_EmptySet DEF CountInv
<1>3. Cardinality(wrote[p]) \in Nat
  BY FS_CardinalityType DEF WroteInv
<1>4. ASSUME Cardinality(wrote[p]) < MAXOPBLOCKS PROVE Len(lh) < LOGBLOCKS
  <2>1. MAXOPBLOCKS \in 1..MAXOPBLOCKS
    BY SizesAssumption
  <2>2. <<p, MAXOPBLOCKS>> \in Reserve
    BY <1>4, <2>1 DEF Reserve
  <2>3. Cardinality(Reserve) >= 1
    BY <2>2, FiniteSets, FS_EmptySet
  <2>. QED
    BY <2>3, FiniteSets, SizesAssumption DEF ReserveInv, TypeOK
<1>. QED
  BY <1>2, <1>3, <1>4

\* A call that writes a block adds one to its blocks, or none.
LEMMA WroteGrows ==
  ASSUME IInv, NEW p \in Procs, NEW b \in Blocks
  PROVE  /\ IsFiniteSet(wrote[p] \cup {b})
         /\ Cardinality(wrote[p]) \in Nat
         /\ Cardinality(wrote[p] \cup {b})
              = IF b \in wrote[p] THEN Cardinality(wrote[p]) ELSE Cardinality(wrote[p]) + 1
<1>1. IsFiniteSet(wrote[p])
  BY Zenon DEF IInv, WroteInv
<1>2. Cardinality(wrote[p]) \in Nat
  BY <1>1, FS_CardinalityType
<1>. QED
  BY <1>1, <1>2, FS_AddElement, Zenon

\* So log_write() absorbs the block or appends it; if it panics, the log is full
\* and holds the block already.
LEMMA LogWriteEffect ==
  ASSUME IInv, NEW p \in Procs, NEW b \in Blocks, NEW v \in Vals,
         LogWrite(p, b, v)
  PROVE  /\ panicked' \in BOOLEAN
         /\ panicked' => \/ panicked
                         \/ OpBlocks = MAXOPBLOCKS /\ Len(lh) = LOGBLOCKS
         /\ \/ b \in Logged(lh) /\ lh' = lh /\ pin' = pin
            \/ /\ b \notin Logged(lh)
               /\ Len(lh) < LOGBLOCKS
               /\ lh' = Append(lh, b)
               /\ pin' = [pin EXCEPT ![b] = @ + 1]
               /\ Len(lh') = Len(lh) + 1 /\ lh' \in Seq(Blocks)
               /\ \A i \in 1..Len(lh) : lh'[i] = lh[i]
               /\ lh'[Len(lh) + 1] = b
<1>. TypeOK /\ RoomReserved /\ WroteInv
  BY DEF IInv
<1>0. pc[p] = "op" /\ Cardinality(wrote[p] \cup {b}) <= OpBlocks
  BY DEF LogWrite
<1>1. /\ outstanding >= 1
      /\ Cardinality(wrote[p]) \in Nat
      /\ Cardinality(wrote[p]) < MAXOPBLOCKS => Len(lh) < LOGBLOCKS
  BY <1>0, RoomToWrite, Zenon
<1>2. wrote[p] \subseteq Logged(lh)
  BY <1>0, Zenon DEF RoomReserved, Active
<1>3. CASE Len(lh) >= LOGBLOCKS
  <2>1. ~(Cardinality(wrote[p]) < MAXOPBLOCKS)
    BY <1>1, <1>3, SizesAssumption DEF TypeOK
  <2>2. b \in wrote[p] /\ OpBlocks = MAXOPBLOCKS
    <3>1. Cardinality(wrote[p] \cup {b})
            = IF b \in wrote[p] THEN Cardinality(wrote[p]) ELSE Cardinality(wrote[p]) + 1
      BY WroteGrows, Zenon
    <3>. QED
      BY <1>0, <1>1, <2>1, <3>1, SizesAssumption
  <2>3. Len(lh) = LOGBLOCKS
    BY <1>3, SizesAssumption DEF TypeOK
  <2>4. panicked' = TRUE /\ lh' = lh /\ pin' = pin
    BY <1>3, Zenon DEF LogWrite
  <2>. QED
    BY <1>2, <2>2, <2>3, <2>4, Zenon
<1>4. CASE ~(Len(lh) >= LOGBLOCKS)
  <2>0. Len(lh) < LOGBLOCKS /\ ~(Len(lh) >= LOGBLOCKS \/ outstanding < 1)
    BY <1>1, <1>4, SizesAssumption DEF TypeOK
  <2>1. panicked' = panicked /\ IF b \in Logged(lh) THEN UNCHANGED <<lh, pin>> ELSE AddBlock(b)
    BY <2>0, Zenon DEF LogWrite, Absorbs
  <2>2. panicked' \in BOOLEAN
    BY <2>1, Zenon DEF TypeOK
  <2>3. CASE b \in Logged(lh)
    BY <2>1, <2>2, <2>3, Zenon
  <2>4. CASE b \notin Logged(lh)
    <3>1. lh' = Append(lh, b) /\ pin' = [pin EXCEPT ![b] = @ + 1]
      BY <2>1, <2>4, Zenon DEF AddBlock
    <3>2. Len(lh') = Len(lh) + 1 /\ lh' \in Seq(Blocks)
      BY <3>1 DEF TypeOK
    <3>3. lh'[Len(lh) + 1] = b /\ \A i \in 1..Len(lh) : lh'[i] = lh[i]
      BY <3>1 DEF TypeOK
    <3>. QED
      BY <2>0, <2>1, <2>2, <2>4, <3>1, <3>2, <3>3, Zenon
  <2>. QED
    BY <2>3, <2>4, Zenon
<1>. QED
  BY <1>3, <1>4, Zenon

\* The blocks of the log after log_write().
LEMMA LogWriteLogged ==
  ASSUME IInv, NEW p \in Procs, NEW b \in Blocks, NEW v \in Vals,
         LogWrite(p, b, v)
  PROVE  Logged(lh') = Logged(lh) \cup {b}
<1>1. CASE b \in Logged(lh) /\ lh' = lh
  BY <1>1, Zenon DEF Logged
<1>2. CASE /\ Len(lh') = Len(lh) + 1
           /\ \A i \in 1..Len(lh) : lh'[i] = lh[i]
           /\ lh'[Len(lh) + 1] = b
  <2>1. Len(lh) \in Nat
    BY DEF IInv, TypeOK
  <2>2. 1..Len(lh') = (1..Len(lh)) \cup {Len(lh) + 1}
    BY <1>2, <2>1
  <2>. QED
    BY <1>2, <2>2, Zenon DEF Logged
<1>. QED
  BY <1>1, <1>2, LogWriteEffect, Zenon

----------------------------------------------------------------------------
(* Types *)

LEMMA InitType ==
  ASSUME Init
  PROVE  TypeOK
<1>1. lh \in Seq(Blocks) /\ Len(lh) = 0 /\ dhead \in Seq(Blocks) /\ Len(dhead) = 0
  BY EmptyLog DEF Init
<1>2. home \in [Blocks -> Vals] /\ dlog \in [1..LOGBLOCKS -> Vals]
  BY ValsAssumption DEF Init
<1>3. buf \in [Blocks -> Vals \cup {NoVal}] /\ pin \in [Blocks -> Nat]
  BY DEF Init
<1>4. outstanding \in Nat /\ tail \in 0..LOGBLOCKS
  BY SizesAssumption DEF Init
<1>5. pc \in [Procs -> {"idle", "begin", "sleep", "op", "commit"}]
  BY DEF Init
<1>6. wrote \in [Procs -> SUBSET Blocks]
  BY DEF Init
<1>7. committing \in BOOLEAN /\ panicked \in BOOLEAN
  BY Zenon DEF Init
<1>8. phase \in {"idle"} \cup CommitPhases \cup BootPhases
  BY DEF Init
<1>. QED
  BY <1>1, <1>2, <1>3, <1>4, <1>5, <1>6, <1>7, <1>8, SizesAssumption DEF TypeOK

LEMMA CrashType ==
  ASSUME TypeOK, Crash
  PROVE  TypeOK'
<1>1. lh' \in Seq(Blocks) /\ Len(lh') = 0
  BY EmptyLog DEF Crash
<1>2. home' = home /\ dlog' = dlog /\ dhead' = dhead
  BY DEF Crash, disk
<1>3. buf' \in [Blocks -> Vals \cup {NoVal}] /\ pin' \in [Blocks -> Nat]
  BY DEF Crash
<1>4. outstanding' \in Nat /\ tail' \in 0..LOGBLOCKS
  BY SizesAssumption DEF Crash
<1>5. pc' \in [Procs -> {"idle", "begin", "sleep", "op", "commit"}]
  BY DEF Crash
<1>6. wrote' \in [Procs -> SUBSET Blocks]
  BY DEF Crash
<1>7. committing' \in BOOLEAN /\ panicked' \in BOOLEAN
  BY Zenon DEF Crash
<1>8. phase' \in {"idle"} \cup CommitPhases \cup BootPhases
  BY DEF Crash
<1>. QED
  BY <1>1, <1>2, <1>3, <1>4, <1>5, <1>6, <1>7, <1>8, SizesAssumption DEF TypeOK

\* Every step keeps the types.
LEMMA NextType ==
  ASSUME IInv, [Next]_vars
  PROVE  TypeOK'
<1> USE DEF disk, ops
<1>. TypeOK /\ PhaseInv /\ PinInv
  BY DEF IInv
<1>1. ASSUME NEW p \in Procs, BeginOp(p) PROVE TypeOK'
  <2>1. outstanding' \in Nat
    BY <1>1 DEF TypeOK, BeginOp
  <2>2. pc' \in [Procs -> {"idle", "begin", "sleep", "op", "commit"}]
    BY <1>1, Zenon DEF TypeOK, BeginOp
  <2>. QED
    BY <1>1, <2>1, <2>2 DEF TypeOK, BeginOp
<1>2. ASSUME NEW p \in Procs, EndOp(p) PROVE TypeOK'
  <2>1. outstanding' \in Nat
    BY <1>2, RoomToWrite DEF TypeOK, EndOp
  <2>2. pc' \in [Procs -> {"idle", "begin", "sleep", "op", "commit"}]
    BY <1>2, Zenon DEF TypeOK, EndOp, WakeLog
  <2>3. committing' \in BOOLEAN /\ panicked' \in BOOLEAN
    BY <1>2, Zenon DEF TypeOK, EndOp
  <2>4. tail' \in 0..LOGBLOCKS /\ phase' \in {"idle"} \cup CommitPhases \cup BootPhases
    BY <1>2, SizesAssumption DEF TypeOK, EndOp
  <2>5. wrote' \in [Procs -> SUBSET Blocks]
    BY <1>2 DEF TypeOK, EndOp
  <2>. QED
    BY <1>2, <2>1, <2>2, <2>3, <2>4, <2>5 DEF TypeOK, EndOp
<1>3. ASSUME NEW p \in Procs, NEW b \in Blocks, NEW v \in Vals, LogWrite(p, b, v)
      PROVE  TypeOK'
  <2>1. lh' \in Seq(Blocks) /\ Len(lh') <= LOGBLOCKS /\ panicked' \in BOOLEAN
    BY <1>3, LogWriteEffect, SizesAssumption DEF TypeOK
  <2>2. pin' \in [Blocks -> Nat]
    BY <1>3, LogWriteEffect, SMTT(30) DEF TypeOK
  <2>3. buf' \in [Blocks -> Vals \cup {NoVal}]
    BY <1>3 DEF TypeOK, LogWrite
  <2>4. wrote' \in [Procs -> SUBSET Blocks]
    BY <1>3 DEF TypeOK, LogWrite
  <2>. QED
    BY <1>3, <2>1, <2>2, <2>3, <2>4, Zenon DEF TypeOK, LogWrite
<1>4. CASE WriteLog
  <2>1. lh[tail + 1] \in Blocks /\ tail + 1 \in 1..LOGBLOCKS
    <3>1. tail < Len(lh)
      BY <1>4, Zenon DEF WriteLog, PhaseInv
    <3>. QED
      BY <3>1, LogEntry, Zenon
  <2>2. Cached(lh[tail + 1]) \in Vals
    BY <2>1 DEF TypeOK, Cached
  <2>3. tail' \in 0..LOGBLOCKS
    BY <1>4, <2>1, SizesAssumption DEF WriteLog
  <2>4. phase' \in {"idle"} \cup CommitPhases \cup BootPhases
    BY <1>4, Zenon DEF WriteLog, CommitPhases
  <2>5. dlog' \in [1..LOGBLOCKS -> Vals] /\ buf' \in [Blocks -> Vals \cup {NoVal}]
    BY <1>4, <2>1, <2>2, Zenon DEF TypeOK, WriteLog
  <2>. QED
    BY <1>4, <2>3, <2>4, <2>5, Zenon DEF TypeOK, WriteLog, ops
<1>5. CASE WriteHead
  BY <1>5, SizesAssumption DEF TypeOK, WriteHead
<1>6. CASE Install
  <2>1. tail < Len(lh)
    BY <1>6 DEF Install, PhaseInv
  <2>2. pin[lh[tail + 1]] = 1
    BY <1>6, <2>1, LogEntry DEF Install, PinInv, Uninstalled
  <2>. QED
    <3>1. pin' \in [Blocks -> Nat]
      BY <1>6, <2>1, <2>2, LogEntry DEF TypeOK, Install, Unpin
    <3>2. home' \in [Blocks -> Vals] /\ buf' \in [Blocks -> Vals \cup {NoVal}]
      BY <1>6, <2>1, LogEntry, Zenon DEF TypeOK, Install, InstallBlock
    <3>3. tail' \in 0..LOGBLOCKS
      BY <1>6, <2>1, LogEntry DEF TypeOK, Install, InstallBlock
    <3>. QED
      BY <1>6, <3>1, <3>2, <3>3, Zenon DEF TypeOK, Install
<1>7. CASE Clear
  BY <1>7, EmptyLog, SizesAssumption DEF TypeOK, Clear, EraseLog
<1>8. CASE CommitDone
  BY <1>8, Zenon DEF TypeOK, CommitDone, WakeLog
<1>9. CASE ReadHead
  BY <1>9, SizesAssumption DEF TypeOK, ReadHead
<1>10. CASE Recover
  BY <1>10, LogEntry, SMTT(30) DEF TypeOK, Recover, InstallBlock, PhaseInv
<1>11. CASE RecClear
  BY <1>11, EmptyLog, SizesAssumption DEF TypeOK, RecClear, EraseLog
<1>12. ASSUME NEW b \in Blocks, Bread(b) \/ Recycle(b) PROVE TypeOK'
  BY <1>12, Zenon DEF TypeOK, Bread, Recycle
<1>13. CASE Crash
  BY <1>13, CrashType
<1>14. CASE UNCHANGED vars
  BY <1>14 DEF TypeOK, vars
<1>. QED
  BY <1>1, <1>2, <1>3, <1>4, <1>5, <1>6, <1>7, <1>8, <1>9, <1>10, <1>11, <1>12,
     <1>13, <1>14 DEF Next, Running, CommitStep, RecoveryStep

----------------------------------------------------------------------------
(* Who is active, and how much they may still write *)

\* begin_op() adds its caller to the active calls, end_op() removes it; no other
\* step of the running system changes who is active.
LEMMA ActiveStep ==
  ASSUME IInv, [Next]_vars
  PROVE  \/ /\ Active' = Active /\ outstanding' = outstanding
         \/ \E p \in Procs : /\ BeginOp(p) /\ MayBegin
                             /\ p \notin Active /\ Active' = Active \cup {p}
                             /\ outstanding' = outstanding + 1
         \/ \E p \in Procs : /\ EndOp(p)
                             /\ p \in Active /\ Active' = Active \ {p}
                             /\ outstanding' = outstanding - 1
         \/ Crash /\ Active' = {} /\ outstanding' = 0
<1> DEFINE Same == Active' = Active /\ outstanding' = outstanding
<1>. TypeOK /\ PhaseInv
  BY DEF IInv
<1>1. ASSUME NEW p \in Procs, BeginOp(p), MayBegin
      PROVE  p \notin Active /\ Active' = Active \cup {p} /\ outstanding' = outstanding + 1
  BY <1>1 DEF Active, BeginOp, TypeOK
<1>2. ASSUME NEW p \in Procs, BeginOp(p), ~MayBegin
      PROVE  Same
  BY <1>2 DEF Active, BeginOp, TypeOK
<1>3. ASSUME NEW p \in Procs, EndOp(p)
      PROVE  p \in Active /\ Active' = Active \ {p} /\ outstanding' = outstanding - 1
  <2>1. ~committing
    BY <1>3, Zenon DEF EndOp, PhaseInv
  <2>2. CASE pc' = [pc EXCEPT ![p] = "commit"]
    BY <1>3, <2>2, Zenon DEF Active, EndOp, TypeOK
  <2>3. CASE pc' = WakeLog([pc EXCEPT ![p] = "idle"])
    BY <1>3, <2>3, Zenon DEF Active, EndOp, WakeLog, TypeOK
  <2>. QED
    BY <1>3, <2>1, <2>2, <2>3 DEF EndOp
<1>4. ASSUME NEW p \in Procs, NEW b \in Blocks, NEW v \in Vals, LogWrite(p, b, v)
      PROVE  Same
  BY <1>4, Zenon DEF Active, LogWrite
<1>5. CASE CommitDone
  BY <1>5, Zenon DEF Active, CommitDone, WakeLog, TypeOK
<1>6. CASE WriteLog \/ WriteHead \/ Install \/ Clear
  BY <1>6, Zenon DEF Active, WriteLog, WriteHead, Install, Clear, ops
<1>7. CASE RecoveryStep
  BY <1>7, Zenon DEF Active, RecoveryStep, ReadHead, Recover, RecClear, ops
<1>8. ASSUME NEW b \in Blocks, Bread(b) \/ Recycle(b) PROVE Same
  BY <1>8, Zenon DEF Active, Bread, Recycle, ops
<1>9. CASE Crash
  BY <1>9 DEF Active, Crash
<1>10. CASE UNCHANGED vars
  BY <1>10 DEF Active, vars
<1>. QED
  BY <1>1, <1>2, <1>3, <1>4, <1>5, <1>6, <1>7, <1>8, <1>9, <1>10
     DEF Next, Running, CommitStep

LEMMA NextCount ==
  ASSUME IInv, [Next]_vars
  PROVE  CountInv'
<1>. TypeOK /\ CountInv
  BY DEF IInv
<1>1. ASSUME NEW p \in Procs, p \notin Active, Active' = Active \cup {p},
             outstanding' = outstanding + 1
      PROVE  CountInv'
  BY <1>1, FiniteSets, FS_AddElement, Zenon DEF CountInv
<1>2. ASSUME NEW p \in Procs, p \in Active, Active' = Active \ {p},
             outstanding' = outstanding - 1
      PROVE  CountInv'
  BY <1>2, FiniteSets, FS_RemoveElement, Zenon DEF CountInv
<1>3. ASSUME Active' = {}, outstanding' = 0
      PROVE  CountInv'
  BY <1>3, FS_EmptySet DEF CountInv
<1>4. ASSUME Active' = Active, outstanding' = outstanding
      PROVE  CountInv'
  BY <1>4 DEF CountInv
<1>. QED
  BY <1>1, <1>2, <1>3, <1>4, ActiveStep, Zenon

\* The calls that are active can write at most MAXOPBLOCKS blocks each.
LEMMA ReserveBound ==
  ASSUME NEW A \in SUBSET Procs, NEW R \in SUBSET (A \X (1..MAXOPBLOCKS))
  PROVE  Cardinality(R) <= Cardinality(A) * MAXOPBLOCKS
<1>1. IsFiniteSet(A) /\ Cardinality(A) \in Nat
  BY ProcsAssumption, FS_Subset, FS_CardinalityType
<1>2. IsFiniteSet(1..MAXOPBLOCKS) /\ Cardinality(1..MAXOPBLOCKS) = MAXOPBLOCKS
  BY FS_Interval, SizesAssumption
<1>3. /\ IsFiniteSet(A \X (1..MAXOPBLOCKS))
      /\ Cardinality(A \X (1..MAXOPBLOCKS)) = Cardinality(A) * MAXOPBLOCKS
  BY <1>1, <1>2, FS_Product, Zenon
<1>. QED
  BY <1>3, FS_Subset

LEMMA NextReserve ==
  ASSUME IInv, [Next]_vars
  PROVE  ReserveInv'
<1>. TypeOK /\ PhaseInv /\ ReserveInv /\ CountInv
  BY DEF IInv
<1>. TypeOK'
  BY NextType
<1>0. Cardinality(Reserve) \in Nat /\ IsFiniteSet(Reserve)
  BY FiniteSets
\* Steps that do not lengthen the log and give nobody more to write.
<1>1. ASSUME Reserve' \subseteq Reserve, Len(lh') <= Len(lh)
      PROVE  ReserveInv'
  <2>1. Cardinality(Reserve') <= Cardinality(Reserve) /\ Cardinality(Reserve') \in Nat
    BY <1>0, <1>1, FS_Subset, FS_CardinalityType
  <2>. QED
    BY <1>0, <1>1, <2>1, SizesAssumption DEF ReserveInv, TypeOK
<1>2. ASSUME NEW p \in Procs, BeginOp(p) PROVE ReserveInv'
  <2>1. CASE MayBegin
    <3>1. Active' = Active \cup {p} /\ p \notin Active
      BY <1>2, <2>1 DEF Active, BeginOp, TypeOK
    <3>2. Cardinality(Active') = outstanding + 1
      BY <3>1, FiniteSets, FS_AddElement, Zenon DEF CountInv
    <3>3. Active' \in SUBSET Procs /\ Reserve' \in SUBSET (Active' \X (1..MAXOPBLOCKS))
      BY DEF Active, Reserve
    <3>4. Cardinality(Reserve') <= (outstanding + 1) * MAXOPBLOCKS
      BY <3>2, <3>3, ReserveBound
    <3>5. Len(lh) + (outstanding + 1) * MAXOPBLOCKS <= LOGBLOCKS
      BY <2>1 DEF MayBegin, HasRoom
    <3>6. Cardinality(Reserve') \in Nat
      <4>0. IsFiniteSet(1..MAXOPBLOCKS)
        BY FS_Interval, SizesAssumption
      <4>1. IsFiniteSet(Procs \X (1..MAXOPBLOCKS))
        BY <4>0, ProcsAssumption, FS_Product, Zenon
      <4>2. Reserve' \in SUBSET (Procs \X (1..MAXOPBLOCKS))
        BY DEF Reserve
      <4>. QED
        BY <4>1, <4>2, FS_Subset, FS_CardinalityType
    <3>7. lh' = lh
      BY <1>2 DEF BeginOp
    <3>8. (outstanding + 1) * MAXOPBLOCKS \in Nat
      BY SizesAssumption DEF TypeOK
    <3>. QED
      BY <3>4, <3>5, <3>6, <3>7, <3>8, SizesAssumption DEF ReserveInv, TypeOK
  <2>2. CASE ~MayBegin
    <3>1. Reserve' \subseteq Reserve
      BY <1>2, <2>2 DEF Reserve, BeginOp, TypeOK
    <3>. QED
      BY <1>1, <1>2, <3>1 DEF BeginOp, TypeOK
  <2>. QED
    BY <2>1, <2>2, Zenon
<1>3. ASSUME NEW p \in Procs, EndOp(p) PROVE ReserveInv'
  <2>1. Reserve' \subseteq Reserve
    <3>1. \A q \in Procs : pc'[q] = "op" => pc[q] = "op" /\ wrote'[q] = wrote[q]
      <4>1. \A q \in Procs : pc'[q] = "op" => q # p /\ pc[q] = "op"
        <5>1. ~committing
          BY <1>3, Zenon DEF EndOp, PhaseInv
        <5>2. CASE pc' = [pc EXCEPT ![p] = "commit"]
          BY <5>2, Zenon DEF TypeOK
        <5>3. CASE pc' = WakeLog([pc EXCEPT ![p] = "idle"])
          BY <5>3, Zenon DEF WakeLog, TypeOK
        <5>. QED
          BY <1>3, <5>1, <5>2, <5>3, Zenon DEF EndOp
      <4>. QED
        BY <1>3, <4>1, Zenon DEF EndOp, TypeOK
    <3>. QED
      BY <3>1, Zenon DEF Reserve
  <2>. QED
    BY <1>1, <1>3, <2>1 DEF EndOp, TypeOK
<1>4. ASSUME NEW p \in Procs, NEW b \in Blocks, NEW v \in Vals, LogWrite(p, b, v)
      PROVE  ReserveInv'
  <2> DEFINE k == Cardinality(wrote[p])
             t == <<p, k + 1>>
  <2>0. /\ pc[p] = "op" /\ pc' = pc
        /\ Cardinality(wrote[p] \cup {b}) <= OpBlocks
        /\ wrote'[p] = wrote[p] \cup {b}
        /\ \A q \in Procs : q # p => wrote'[q] = wrote[q]
    BY <1>4, Zenon DEF LogWrite, TypeOK
  <2>1. CASE b \in wrote[p]
    <3>1. b \in Logged(lh)
      BY <2>0, <2>1, Zenon DEF IInv, RoomReserved, Active
    <3>2. lh' = lh
      BY <1>4, <3>1, LogWriteEffect, Zenon
    <3>3. \A q \in Procs : wrote'[q] = wrote[q]
      BY <2>0, <2>1, Zenon
    <3>4. Reserve' \subseteq Reserve
      BY <2>0, <3>3, Zenon DEF Reserve
    <3>. QED
      BY <1>1, <3>2, <3>4 DEF TypeOK
  <2>2. CASE b \notin wrote[p]
    <3>1. k \in Nat /\ k + 1 \in 1..MAXOPBLOCKS /\ k < k + 1 /\ Cardinality(wrote'[p]) = k + 1
      <4>1. k \in Nat /\ Cardinality(wrote[p] \cup {b}) = k + 1
        BY <2>2, WroteGrows, Zenon
      <4>. QED
        BY <2>0, <4>1, SizesAssumption
    <3>2. t \in Reserve
      BY <2>0, <3>1, Zenon DEF Reserve
    <3>3. Reserve' \subseteq Reserve \ {t}
      <4>. SUFFICES ASSUME NEW q \in Procs, NEW i \in 1..MAXOPBLOCKS,
                           pc[q] = "op", Cardinality(wrote'[q]) < i
                    PROVE  Cardinality(wrote[q]) < i /\ <<q, i>> # t
        BY <2>0 DEF Reserve
      <4>1. CASE q = p
        BY <3>1, <4>1
      <4>2. CASE q # p
        BY <2>0, <4>2, Zenon
      <4>. QED
        BY <4>1, <4>2
    <3>4. IsFiniteSet(Reserve \ {t}) /\ Cardinality(Reserve \ {t}) = Cardinality(Reserve) - 1
      BY <1>0, <3>2, FS_RemoveElement, Zenon
    <3>5. Cardinality(Reserve') <= Cardinality(Reserve) - 1 /\ Cardinality(Reserve') \in Nat
      BY <3>3, <3>4, FS_Subset, FS_CardinalityType
    <3>6. Len(lh') <= Len(lh) + 1
      BY <1>4, LogWriteEffect DEF TypeOK
    <3>7. Len(lh) \in Nat /\ Cardinality(Reserve) \in Nat /\ LOGBLOCKS \in Nat
      BY <1>0, FS_CardinalityType, SizesAssumption DEF TypeOK
    <3>8. Len(lh') \in Nat
      BY <1>4, LogWriteEffect DEF TypeOK
    <3>. QED
      BY <3>5, <3>6, <3>7, <3>8 DEF ReserveInv
  <2>. QED
    BY <2>1, <2>2, Zenon
<1>5. CASE CommitDone
  <2>1. Reserve' \subseteq Reserve
    BY <1>5, Zenon DEF Reserve, CommitDone, WakeLog, TypeOK
  <2>. QED
    BY <1>1, <1>5, <2>1 DEF CommitDone, TypeOK
<1>6. CASE WriteLog \/ WriteHead \/ Install \/ Recover \/ UNCHANGED vars
  <2>1. UNCHANGED <<lh, pc, wrote>>
    BY <1>6, Zenon DEF WriteLog, WriteHead, Install, Recover, ops, vars
  <2>2. Reserve' = Reserve
    BY <2>1, Zenon DEF Reserve
  <2>. QED
    BY <2>1, <2>2, Zenon DEF ReserveInv
<1>7. CASE Clear \/ RecClear
  <2>1. Len(lh') = 0
    BY <1>7, EmptyLog, Zenon DEF Clear, RecClear, EraseLog
  <2>2. Reserve' \subseteq Reserve
    BY <1>7, Zenon DEF Reserve, Clear, RecClear, ops
  <2>. QED
    BY <1>1, <2>1, <2>2 DEF TypeOK
<1>8. CASE ReadHead
  <2>1. Reserve' = {}
    BY <1>8, Zenon DEF Reserve, ReadHead, PhaseInv, ops
  <2>. QED
    BY <2>1, FS_EmptySet, SizesAssumption DEF ReserveInv, TypeOK
<1>9. ASSUME NEW b \in Blocks, Bread(b) \/ Recycle(b) PROVE ReserveInv'
  BY <1>1, <1>9 DEF Reserve, Bread, Recycle, ops, TypeOK
<1>10. CASE Crash
  <2>1. Reserve' = {}
    BY <1>10, Zenon DEF Reserve, Crash
  <2>. QED
    BY <2>1, FS_EmptySet, SizesAssumption DEF ReserveInv, TypeOK
<1>. QED
  BY <1>2, <1>3, <1>4, <1>5, <1>6, <1>7, <1>8, <1>9, <1>10
     DEF Next, Running, CommitStep, RecoveryStep

----------------------------------------------------------------------------
(* Control *)

LEMMA NextPhase ==
  ASSUME IInv, [Next]_vars
  PROVE  PhaseInv'
<1>. TypeOK /\ PhaseInv /\ CountInv
  BY DEF IInv
<1>. TypeOK' /\ CountInv'
  BY NextType, NextCount
<1>1. ASSUME NEW p \in Procs, BeginOp(p) PROVE PhaseInv'
  <2>1. CASE MayBegin
    BY <1>1, <2>1, Zenon DEF BeginOp, MayBegin, PhaseInv, TypeOK, disk
  <2>2. CASE ~MayBegin
    BY <1>1, <2>2 DEF BeginOp, PhaseInv, TypeOK, disk
  <2>. QED
    BY <2>1, <2>2, Zenon
<1>2. ASSUME NEW p \in Procs, EndOp(p) PROVE PhaseInv'
  <2>0. ~committing /\ phase = "idle" /\ dhead = <<>> /\ dhead' = dhead /\ lh' = lh
    BY <1>2, Zenon DEF EndOp, PhaseInv, TypeOK, disk
  <2>1. CASE outstanding' = 0
    <3>1. Active' = {}
      <4>1. IsFiniteSet(Active')
        <5>. Active' \in SUBSET Procs
          BY DEF Active
        <5>. QED
          BY ProcsAssumption, FS_Subset
      <4>. QED
        BY <2>1, <4>1, FS_EmptySet, Zenon DEF CountInv
    <3>2. committing' = TRUE /\ tail' = 0 /\ phase' = IF lh # <<>> THEN "write_log" ELSE "done"
      BY <1>2, <2>0, <2>1, Zenon DEF EndOp
    <3>3. lh # <<>> => Len(lh) > 0
      BY DEF TypeOK
    <3>4. \A q \in Procs : pc'[q] # "op"
      BY <3>1 DEF Active
    <3>. QED
      BY <2>0, <3>2, <3>3, <3>4, Zenon DEF PhaseInv
  <2>2. CASE outstanding' # 0
    BY <1>2, <2>0, <2>2, Zenon DEF EndOp, PhaseInv
  <2>. QED
    BY <2>1, <2>2, Zenon
<1>3. ASSUME NEW p \in Procs, NEW b \in Blocks, NEW v \in Vals, LogWrite(p, b, v)
      PROVE  PhaseInv'
  BY <1>3, Zenon DEF LogWrite, PhaseInv, TypeOK, disk
<1>4. CASE WriteLog
  BY <1>4 DEF WriteLog, PhaseInv, TypeOK, ops
<1>5. CASE WriteHead
  BY <1>5, EmptyLog, Zenon DEF WriteHead, PhaseInv, TypeOK, ops
<1>6. CASE Install
  BY <1>6 DEF Install, InstallBlock, PhaseInv, TypeOK, ops
<1>7. CASE Clear
  BY <1>7, EmptyLog, Zenon DEF Clear, EraseLog, PhaseInv, TypeOK, ops
<1>8. CASE CommitDone
  BY <1>8, Zenon DEF CommitDone, WakeLog, PhaseInv, TypeOK, disk
<1>9. CASE ReadHead
  <2>1. dhead # <<>> => Len(dhead) > 0
    BY DEF TypeOK
  <2>. QED
    BY <1>9, <2>1, Zenon DEF ReadHead, PhaseInv, TypeOK, ops, disk
<1>10. CASE Recover
  BY <1>10 DEF Recover, InstallBlock, PhaseInv, TypeOK, ops
<1>11. CASE RecClear
  BY <1>11, EmptyLog, Zenon DEF RecClear, EraseLog, PhaseInv, TypeOK, ops
<1>12. ASSUME NEW b \in Blocks, Bread(b) \/ Recycle(b) PROVE PhaseInv'
  BY <1>12, Zenon DEF Bread, Recycle, PhaseInv, TypeOK, ops, disk
<1>13. CASE Crash
  BY <1>13, Zenon DEF Crash, PhaseInv, TypeOK, disk
<1>14. CASE UNCHANGED vars
  BY <1>14, Zenon DEF PhaseInv, vars
<1>. QED
  BY SMTT(30), <1>1, <1>2, <1>3, <1>4, <1>5, <1>6, <1>7, <1>8, <1>9, <1>10, <1>11, <1>12,
     <1>13, <1>14 DEF Next, Running, CommitStep, RecoveryStep

LEMMA NextDistinct ==
  ASSUME IInv, [Next]_vars
  PROVE  DistinctInv'
<1>. TypeOK /\ PhaseInv /\ DistinctInv
  BY Zenon DEF IInv
<1>1. ASSUME NEW p \in Procs, NEW b \in Blocks, NEW v \in Vals, LogWrite(p, b, v)
      PROVE  DistinctInv'
  <2>1. dhead' = dhead
    BY <1>1 DEF LogWrite, disk
  <2>2. CASE lh' = lh
    BY <2>1, <2>2, Zenon DEF DistinctInv, Distinct
  <2>3. CASE /\ b \notin Logged(lh)
             /\ Len(lh') = Len(lh) + 1
             /\ \A i \in 1..Len(lh) : lh'[i] = lh[i]
             /\ lh'[Len(lh) + 1] = b
    <3>1. \A i \in 1..Len(lh) : lh[i] # b
      BY <2>3, Zenon DEF Logged
    <3>2. Distinct(lh')
      <4>. SUFFICES ASSUME NEW i \in 1..Len(lh'), NEW j \in 1..Len(lh'), lh'[i] = lh'[j]
                    PROVE  i = j
        BY DEF Distinct
      <4>1. Len(lh) \in Nat
        BY DEF TypeOK
      <4>2. CASE i \in 1..Len(lh) /\ j \in 1..Len(lh)
        BY <2>3, <4>2, Zenon DEF DistinctInv, Distinct
      <4>3. CASE i = Len(lh) + 1 \/ j = Len(lh) + 1
        BY <2>3, <3>1, <4>1, <4>3
      <4>. QED
        BY <2>3, <4>1, <4>2, <4>3
    <3>. QED
      BY <2>1, <3>2, Zenon DEF DistinctInv, Distinct
  <2>. QED
    BY <1>1, <2>2, <2>3, LogWriteEffect, Zenon
<1>2. CASE WriteHead
  BY <1>2, Zenon DEF WriteHead, DistinctInv, Distinct
<1>3. CASE ReadHead
  BY <1>3, Zenon DEF ReadHead, DistinctInv, Distinct, disk
<1>4. CASE Clear \/ RecClear
  BY <1>4, EmptyLog DEF Clear, RecClear, EraseLog, DistinctInv, Distinct
<1>5. CASE Crash
  BY <1>5, EmptyLog DEF Crash, DistinctInv, Distinct, disk
<1>6. ASSUME UNCHANGED <<lh, dhead>> PROVE DistinctInv'
  BY <1>6, Zenon DEF DistinctInv, Distinct
<1>7. ASSUME NEW p \in Procs, BeginOp(p) \/ EndOp(p) PROVE DistinctInv'
  BY <1>6, <1>7, Zenon DEF BeginOp, EndOp, disk
<1>8. CASE WriteLog \/ Install \/ CommitDone \/ Recover \/ UNCHANGED vars
  BY <1>6, <1>8, Zenon DEF WriteLog, Install, CommitDone, Recover, vars, disk
<1>9. ASSUME NEW b \in Blocks, Bread(b) \/ Recycle(b) PROVE DistinctInv'
  BY <1>6, <1>9, Zenon DEF Bread, Recycle, disk
<1>. QED
  BY <1>1, <1>2, <1>3, <1>4, <1>5, <1>7, <1>8, <1>9, Zenon
     DEF Next, Running, CommitStep, RecoveryStep

----------------------------------------------------------------------------
(* The cache and the log *)

LEMMA NextPin ==
  ASSUME IInv, [Next]_vars
  PROVE  PinInv'
<1>. TypeOK /\ PhaseInv /\ DistinctInv /\ PinInv
  BY Zenon DEF IInv
<1>0. ASSUME UNCHANGED <<pin, lh, tail, phase>> PROVE PinInv'
  BY <1>0 DEF PinInv, Uninstalled
<1>1. ASSUME NEW p \in Procs, BeginOp(p) PROVE PinInv'
  BY <1>0, <1>1, Zenon DEF BeginOp
<1>2. ASSUME NEW p \in Procs, EndOp(p) PROVE PinInv'
  <2>1. phase = "idle" /\ phase' \notin {"install", "clear"} \cup BootPhases
    BY <1>2, Zenon DEF EndOp, PhaseInv, TypeOK
  <2>2. Uninstalled' = Uninstalled /\ pin' = pin
    BY <1>2, <2>1, Zenon DEF EndOp, Uninstalled
  <2>. QED
    BY <2>1, <2>2, Zenon DEF PinInv
<1>3. ASSUME NEW p \in Procs, NEW b \in Blocks, NEW v \in Vals, LogWrite(p, b, v)
      PROVE  PinInv'
  <2>1. phase = "idle" /\ phase' = phase /\ tail' = tail
    BY <1>3 DEF LogWrite, PhaseInv, TypeOK
  <2>2. CASE lh' = lh /\ pin' = pin
    BY <1>0, <2>1, <2>2, Zenon
  <2>3. CASE /\ b \notin Logged(lh)
             /\ pin' = [pin EXCEPT ![b] = @ + 1]
             /\ Len(lh') = Len(lh) + 1
             /\ \A i \in 1..Len(lh) : lh'[i] = lh[i]
             /\ lh'[Len(lh) + 1] = b
    <3>1. Uninstalled = Logged(lh) /\ Uninstalled' = Logged(lh')
      BY <2>1 DEF Uninstalled, Logged
    <3>2. Logged(lh') = Logged(lh) \cup {b}
      BY <1>3, LogWriteLogged, Zenon
    <3>. QED
      BY <2>1, <2>3, <3>1, <3>2 DEF PinInv, TypeOK
  <2>. QED
    BY <1>3, <2>2, <2>3, LogWriteEffect, Zenon
<1>4. CASE WriteLog \/ WriteHead
  BY <1>4 DEF WriteLog, WriteHead, PinInv, Uninstalled
<1>5. CASE Install
  <2> DEFINE c == lh[tail + 1]
  <2>1. tail < Len(lh) /\ lh' = lh /\ tail' = tail + 1 /\ phase' \in {"install", "clear"}
    BY <1>5, Zenon DEF Install, InstallBlock, PhaseInv
  <2>2. Uninstalled = {lh[i] : i \in tail + 1..Len(lh)}
    BY <1>5, Zenon DEF Install, Uninstalled
  <2>3. Uninstalled' = {lh[i] : i \in tail + 2..Len(lh)}
    <3>1. Uninstalled' = {lh[i] : i \in tail + 1 + 1..Len(lh)}
      BY <2>1, Zenon DEF Uninstalled
    <3>2. tail + 1 + 1 = tail + 2
      BY DEF TypeOK
    <3>. QED
      BY <3>1, <3>2, Zenon
  <2>4. Uninstalled' = Uninstalled \ {c} /\ c \in Uninstalled
    BY <2>1, <2>2, <2>3 DEF DistinctInv, Distinct, TypeOK
  <2>5. pin' = [pin EXCEPT ![c] = @ - 1] /\ c \in Blocks
    BY <1>5, <2>1, LogEntry, Zenon DEF Install, Unpin
  <2>. QED
    BY <1>5, <2>1, <2>4, <2>5 DEF Install, PinInv, TypeOK
<1>6. CASE Clear
  <2>1. Uninstalled = {} /\ Uninstalled' = {}
    BY <1>6, EmptyLog DEF Clear, EraseLog, Uninstalled, PhaseInv, TypeOK
  <2>. QED
    BY <1>6, <2>1, Zenon DEF Clear, PinInv
<1>7. CASE CommitDone
  BY <1>7, Zenon DEF CommitDone, PinInv, Uninstalled
<1>8. CASE ReadHead \/ Recover
  BY <1>8, Zenon DEF ReadHead, Recover, PinInv
<1>9. CASE RecClear
  <2>1. Uninstalled' = {}
    BY <1>9, EmptyLog DEF RecClear, EraseLog, Uninstalled
  <2>. QED
    BY <1>9, <2>1, Zenon DEF RecClear, PinInv
<1>10. ASSUME NEW b \in Blocks, Bread(b) \/ Recycle(b) PROVE PinInv'
  BY <1>0, <1>10, Zenon DEF Bread, Recycle
<1>11. CASE Crash
  BY <1>11, Zenon DEF Crash, PinInv
<1>12. CASE UNCHANGED vars
  BY <1>0, <1>12, Zenon DEF vars
<1>. QED
  BY <1>1, <1>2, <1>3, <1>4, <1>5, <1>6, <1>7, <1>8, <1>9, <1>10, <1>11, <1>12, Zenon
     DEF Next, Running, CommitStep, RecoveryStep

\* A block that commit() has yet to copy or install is pinned, so it is cached.
LEMMA PinnedIsCached ==
  ASSUME IInv, phase \in {"write_log", "write_head", "install"},
         NEW i \in (IF phase = "install" THEN tail + 1 ELSE 1)..Len(lh)
  PROVE  lh[i] \in Blocks /\ pin[lh[i]] = 1 /\ buf[lh[i]] # NoVal /\ Cached(lh[i]) = buf[lh[i]]
<1>. TypeOK /\ PinInv /\ CacheInv
  BY Zenon DEF IInv
<1>1. i \in 1..Len(lh) /\ lh[i] \in Blocks
  BY DEF TypeOK
<1>2. lh[i] \in Uninstalled
  BY DEF Uninstalled
<1>. QED
  BY <1>1, <1>2 DEF PinInv, CacheInv, Cached

LEMMA NextCache ==
  ASSUME IInv, [Next]_vars
  PROVE  CacheInv'
<1>. TypeOK /\ PhaseInv /\ DistinctInv /\ PinInv /\ CacheInv
  BY DEF IInv
<1>0. ASSUME UNCHANGED <<home, buf, pin>> PROVE CacheInv'
  BY <1>0, Zenon DEF CacheInv
<1>1. ASSUME NEW p \in Procs, BeginOp(p) \/ EndOp(p) PROVE CacheInv'
  BY <1>0, <1>1, Zenon DEF BeginOp, EndOp, disk
<1>2. ASSUME NEW p \in Procs, NEW b \in Blocks, NEW v \in Vals, LogWrite(p, b, v)
      PROVE  CacheInv'
  <2>1. buf' = [buf EXCEPT ![b] = v] /\ home' = home
    BY <1>2, Zenon DEF LogWrite, disk
  <2>2. pin'[b] # 0 /\ \A c \in Blocks : c # b => pin'[c] = pin[c]
    <3>1. CASE b \in Logged(lh) /\ pin' = pin
      <4>1. b \in Uninstalled
        BY <1>2, <3>1, SMTT(30) DEF LogWrite, Uninstalled, Logged, PhaseInv, TypeOK
      <4>. QED
        BY <1>2, <3>1, <4>1, SMTT(30) DEF PinInv, LogWrite
    <3>2. CASE pin' = [pin EXCEPT ![b] = @ + 1]
      BY <3>2 DEF TypeOK
    <3>. QED
      BY <1>2, <3>1, <3>2, LogWriteEffect, Zenon
  <2>. QED
    BY <2>1, <2>2, ValsAssumption, Zenon DEF CacheInv, TypeOK
<1>3. CASE WriteLog
  <2>1. buf' = buf
    <3>1. tail + 1 \in 1..Len(lh)
      BY <1>3, LogEntry, Zenon DEF WriteLog, PhaseInv
    <3>2. lh[tail + 1] \in Blocks /\ Cached(lh[tail + 1]) = buf[lh[tail + 1]]
      BY <1>3, <3>1, PinnedIsCached, Zenon DEF WriteLog
    <3>. QED
      BY <1>3, <3>2, Zenon DEF WriteLog, TypeOK
  <2>. QED
    BY <1>0, <1>3, <2>1, Zenon DEF WriteLog
<1>4. CASE Install
  <2>1. tail < Len(lh) /\ lh[tail + 1] \in Blocks /\ tail + 1 \in 1..LOGBLOCKS
    BY <1>4, LogEntry DEF Install, PhaseInv
  <2>. QED
    <3> DEFINE c == lh[tail + 1]
    <3>1. home'[c] = buf'[c] /\ buf'[c] = dlog[tail + 1] /\ dlog[tail + 1] \in Vals
      BY <1>4, <2>1, Zenon DEF Install, InstallBlock, TypeOK
    <3>2. \A b \in Blocks : b # c => home'[b] = home[b] /\ buf'[b] = buf[b] /\ pin'[b] = pin[b]
      BY <1>4, <2>1 DEF Install, InstallBlock, Unpin, TypeOK
    <3>. QED
      BY <3>1, <3>2, ValsAssumption, Zenon DEF CacheInv
<1>5. CASE Recover
  <2>1. tail < Len(lh) /\ lh[tail + 1] \in Blocks /\ tail + 1 \in 1..LOGBLOCKS
    BY <1>5, LogEntry, Zenon DEF Recover, PhaseInv
  <2>. QED
    BY <1>5, <2>1, Zenon DEF Recover, InstallBlock, CacheInv, PinInv, TypeOK
<1>6. CASE WriteHead \/ Clear \/ CommitDone \/ ReadHead \/ RecClear \/ UNCHANGED vars
  BY <1>0, <1>6, Zenon DEF WriteHead, Clear, CommitDone, ReadHead, RecClear, vars, disk
<1>7. ASSUME NEW b \in Blocks, Bread(b) PROVE CacheInv'
  BY <1>7, ValsAssumption, Zenon DEF Bread, CacheInv, TypeOK, disk
<1>8. ASSUME NEW b \in Blocks, Recycle(b) PROVE CacheInv'
  BY <1>8, Zenon DEF Recycle, CacheInv, TypeOK, disk
<1>9. CASE Crash
  BY <1>9, Zenon DEF Crash, CacheInv
<1>. QED
  BY <1>1, <1>2, <1>3, <1>4, <1>5, <1>6, <1>7, <1>8, <1>9, Zenon
     DEF Next, Running, CommitStep, RecoveryStep

LEMMA NextCopy ==
  ASSUME IInv, [Next]_vars
  PROVE  CopyInv'
<1>. TypeOK /\ PhaseInv /\ DistinctInv /\ PinInv /\ CacheInv /\ CopyInv
  BY Zenon DEF IInv
<1>0. ASSUME UNCHANGED <<home, dlog, buf, lh, phase, tail>> PROVE CopyInv'
  BY <1>0, Zenon DEF CopyInv
<1>1. ASSUME NEW p \in Procs, BeginOp(p) PROVE CopyInv'
  BY <1>0, <1>1, Zenon DEF BeginOp, disk
<1>2. ASSUME NEW p \in Procs, EndOp(p) PROVE CopyInv'
  BY <1>2 DEF EndOp, CopyInv, PhaseInv, TypeOK
<1>3. ASSUME NEW p \in Procs, NEW b \in Blocks, NEW v \in Vals, LogWrite(p, b, v)
      PROVE  CopyInv'
  BY <1>3, Zenon DEF LogWrite, CopyInv, PhaseInv, TypeOK
<1>4. CASE WriteLog
  <2>1. tail + 1 \in 1..Len(lh) /\ tail + 1 \in 1..LOGBLOCKS
    BY <1>4, LogEntry, Zenon DEF WriteLog, PhaseInv
  <2>2. lh[tail + 1] \in Blocks /\ Cached(lh[tail + 1]) = buf[lh[tail + 1]]
    BY <1>4, <2>1, PinnedIsCached, Zenon DEF WriteLog
  <2>3. buf' = buf /\ lh' = lh /\ tail' = tail + 1
    BY <1>4, <2>2, Zenon DEF WriteLog, TypeOK
  <2>4. dlog'[tail + 1] = buf[lh[tail + 1]] /\ \A i \in 1..tail : dlog'[i] = dlog[i]
    BY <1>4, <2>1, <2>2, SMTT(30) DEF WriteLog, TypeOK
  <2>5. \A i \in 1..tail' : dlog'[i] = buf'[lh'[i]]
    BY <1>4, <2>3, <2>4 DEF WriteLog, CopyInv, TypeOK
  <2>. QED
    BY <1>4, <2>3, <2>5, Zenon DEF WriteLog, CopyInv
<1>5. CASE WriteHead
  BY <1>5 DEF WriteHead, CopyInv
<1>6. ASSUME phase \in {"install", "recover"}, InstallBlock(lh[tail + 1]),
             UNCHANGED <<lh, dlog>>
      PROVE  /\ \A i \in 1..tail' : home'[lh'[i]] = dlog'[i]
             /\ \A i \in tail' + 1..Len(lh) : buf'[lh[i]] = buf[lh[i]]
  <2>1. /\ tail < Len(lh) /\ lh[tail + 1] \in Blocks
        /\ tail + 1 \in 1..Len(lh) /\ tail' = tail + 1
    BY <1>6, LogEntry, Zenon DEF PhaseInv, InstallBlock
  <2>2. \A i \in 1..Len(lh) : lh[i] \in Blocks /\ (i # tail + 1 => lh[i] # lh[tail + 1])
    BY <2>1 DEF DistinctInv, Distinct, TypeOK
  <2>3. home'[lh[tail + 1]] = dlog[tail + 1]
    BY <1>6, <2>1, Zenon DEF InstallBlock, TypeOK
  <2>4. \A i \in 1..Len(lh) : i # tail + 1 => home'[lh[i]] = home[lh[i]] /\ buf'[lh[i]] = buf[lh[i]]
    BY <1>6, <2>1, <2>2, Zenon DEF InstallBlock, TypeOK
  <2>5. \A i \in 1..tail : home[lh[i]] = dlog[i]
    BY <1>6, Zenon DEF CopyInv
  <2>. QED
    <3>1. tail \in Nat /\ Len(lh) \in Nat
      BY DEF TypeOK
    <3>2. \A i \in 1..tail' : i = tail + 1 \/ (i \in 1..tail /\ i \in 1..Len(lh) /\ i # tail + 1)
      <4>1. tail < Len(lh)
        BY <2>1
      <4>2. \A i \in 1..tail + 1 : i = tail + 1 \/ (i \in 1..tail /\ i \in 1..Len(lh) /\ i # tail + 1)
        BY <3>1, <4>1
      <4>. QED
        BY <2>1, <4>2, Zenon
    <3>3. \A i \in tail' + 1..Len(lh) : i \in 1..Len(lh) /\ i # tail + 1
      <4>1. \A i \in tail + 1 + 1..Len(lh) : i \in 1..Len(lh) /\ i # tail + 1
        BY <3>1
      <4>. QED
        BY <2>1, <4>1, Zenon
    <3>4. \A i \in 1..tail' : home'[lh'[i]] = dlog'[i]
      BY <1>6, <2>3, <2>4, <2>5, <3>2, Zenon
    <3>. QED
      BY <2>4, <3>3, <3>4, Zenon
<1>7. CASE Install
  <2>1. /\ \A i \in 1..tail' : home'[lh'[i]] = dlog'[i]
        /\ \A i \in tail' + 1..Len(lh) : buf'[lh[i]] = buf[lh[i]]
        /\ lh' = lh /\ dlog' = dlog /\ tail' = tail + 1
    BY <1>6, <1>7, Zenon DEF Install, InstallBlock
  <2>2. \A i \in tail' + 1..Len(lh) : dlog[i] = buf[lh[i]]
    <3>1. \A i \in tail + 1..Len(lh) : dlog[i] = buf[lh[i]]
      BY <1>7, Zenon DEF Install, CopyInv
    <3>2. \A i \in tail + 1 + 1..Len(lh) : i \in tail + 1..Len(lh)
      BY DEF TypeOK
    <3>. QED
      BY <2>1, <3>1, <3>2, Zenon
  <2>3. phase' \in {"install", "clear"}
    BY <1>7, Zenon DEF Install
  <2>4. \A i \in tail' + 1..Len(lh') : dlog'[i] = buf'[lh'[i]]
    BY <2>1, <2>2, Zenon
  <2>. QED
    BY <2>1, <2>3, <2>4, Zenon DEF CopyInv
<1>8. CASE Recover
  BY <1>6, <1>8, Zenon DEF Recover, CopyInv
<1>9. CASE Clear \/ CommitDone \/ RecClear
  BY <1>9, Zenon DEF Clear, CommitDone, RecClear, CopyInv
<1>10. CASE ReadHead
  BY <1>10 DEF ReadHead, CopyInv
<1>11. ASSUME NEW b \in Blocks, Bread(b) \/ Recycle(b) PROVE CopyInv'
  <2>1. /\ UNCHANGED <<home, dlog, lh, phase, tail>>
        /\ buf[b] = NoVal \/ pin[b] = 0
        /\ \A c \in Blocks : c # b => buf'[c] = buf[c]
    BY <1>11, Zenon DEF Bread, Recycle, disk, TypeOK
  <2>2. ASSUME phase \in {"write_log", "write_head", "install"},
               NEW i \in (IF phase = "install" THEN tail + 1 ELSE 1)..Len(lh)
        PROVE  buf'[lh[i]] = buf[lh[i]]
    BY <2>1, <2>2, PinnedIsCached, SMTT(30)
  <2>3. CASE phase = "write_log"
    BY <2>1, <2>2, <2>3 DEF CopyInv, PhaseInv, TypeOK
  <2>4. CASE phase = "write_head"
    BY <2>1, <2>2, <2>4, Zenon DEF CopyInv
  <2>5. CASE phase = "install"
    BY <2>1, <2>2, <2>5, Zenon DEF CopyInv
  <2>6. CASE phase \notin {"write_log", "write_head", "install"}
    BY <2>1, <2>6, Zenon DEF CopyInv
  <2>. QED
    BY <2>3, <2>4, <2>5, <2>6, Zenon
<1>12. CASE Crash
  BY <1>12, Zenon DEF Crash, CopyInv
<1>13. CASE UNCHANGED vars
  BY <1>0, <1>13 DEF vars
<1>. QED
  BY <1>1, <1>2, <1>3, <1>4, <1>5, <1>7, <1>8, <1>9, <1>10, <1>11, <1>12, <1>13, Zenon
     DEF Next, Running, CommitStep, RecoveryStep

----------------------------------------------------------------------------
(* The invariant is inductive *)

LEMMA InitIInv ==
  ASSUME Init
  PROVE  IInv
<1>1. TypeOK
  BY InitType, Zenon
<1>2. lh = <<>> /\ dhead = <<>> /\ Len(lh) = 0 /\ Len(dhead) = 0
  BY EmptyLog, Zenon DEF Init
<1>3. Active = {} /\ Reserve = {}
  BY Zenon DEF Init, Active, Reserve
<1>4. PhaseInv
  BY Zenon DEF Init, PhaseInv
<1>8. RoomReserved
  BY <1>3, Zenon DEF Init, RoomReserved
<1>9. WroteInv
  BY FS_EmptySet, SizesAssumption DEF Init, WroteInv
<1>5. CountInv /\ ReserveInv
  BY <1>2, <1>3, FS_EmptySet, SizesAssumption DEF Init, CountInv, ReserveInv
<1>6. DistinctInv
  BY <1>2 DEF DistinctInv, Distinct
<1>7. PinInv /\ CacheInv /\ CopyInv
  BY Zenon DEF Init, PinInv, CacheInv, CopyInv
<1>. QED
  BY <1>1, <1>4, <1>5, <1>6, <1>7, <1>8, <1>9 DEF IInv

LEMMA NextWrote ==
  ASSUME IInv, [Next]_vars
  PROVE  WroteInv'
<1>. TypeOK /\ PhaseInv /\ WroteInv
  BY Zenon DEF IInv
<1>0. IsFiniteSet({}) /\ Cardinality({}) <= OpBlocks
  BY FS_EmptySet, SizesAssumption
<1>1. ASSUME NEW p \in Procs, NEW b \in Blocks, NEW v \in Vals, LogWrite(p, b, v)
      PROVE  WroteInv'
  <2>1. /\ pc[p] = "op" /\ pc' = pc
        /\ Cardinality(wrote[p] \cup {b}) <= OpBlocks
        /\ wrote'[p] = wrote[p] \cup {b}
        /\ \A q \in Procs : q # p => wrote'[q] = wrote[q]
    BY <1>1, Zenon DEF LogWrite, TypeOK
  <2>2. IsFiniteSet(wrote[p] \cup {b})
    BY WroteGrows, Zenon
  <2>. QED
    BY <2>1, <2>2, Zenon DEF WroteInv
<1>2. ASSUME NEW p \in Procs, EndOp(p) PROVE WroteInv'
  <2>1. ~committing
    BY <1>2, Zenon DEF EndOp, PhaseInv
  <2>2. wrote'[p] = {} /\ \A q \in Procs : q # p => wrote'[q] = wrote[q]
    BY <1>2, Zenon DEF EndOp, TypeOK
  <2>3. \A q \in Procs : q # p /\ pc'[q] # "op" => pc[q] # "op"
    <3>1. CASE pc' = [pc EXCEPT ![p] = "commit"]
      BY <3>1, Zenon DEF TypeOK
    <3>2. CASE pc' = WakeLog([pc EXCEPT ![p] = "idle"])
      BY <3>2, Zenon DEF WakeLog, TypeOK
    <3>. QED
      BY <1>2, <2>1, <3>1, <3>2, Zenon DEF EndOp
  <2>. QED
    BY <1>0, <2>2, <2>3, Zenon DEF WroteInv
<1>3. ASSUME NEW p \in Procs, BeginOp(p) PROVE WroteInv'
  BY <1>3, Zenon DEF BeginOp, WroteInv, TypeOK
<1>4. CASE CommitDone
  BY <1>4, Zenon DEF CommitDone, WakeLog, WroteInv, TypeOK
<1>5. CASE WriteLog \/ WriteHead \/ Install \/ Clear \/ RecoveryStep
  BY <1>5, Zenon DEF WriteLog, WriteHead, Install, Clear, RecoveryStep, ReadHead, Recover,
     RecClear, ops, WroteInv
<1>6. ASSUME NEW b \in Blocks, Bread(b) \/ Recycle(b) PROVE WroteInv'
  BY <1>6, Zenon DEF Bread, Recycle, ops, WroteInv
<1>7. CASE Crash
  BY <1>0, <1>7, Zenon DEF Crash, WroteInv
<1>8. CASE UNCHANGED vars
  BY <1>8, Zenon DEF vars, WroteInv
<1>. QED
  BY <1>1, <1>2, <1>3, <1>4, <1>5, <1>6, <1>7, <1>8, Zenon DEF Next, Running, CommitStep

LEMMA NextRoom ==
  ASSUME IInv, [Next]_vars
  PROVE  RoomReserved'
<1>. TypeOK /\ RoomReserved /\ WroteInv /\ PhaseInv
  BY Zenon DEF IInv
\* Nobody becomes active and the log stays as it is.
<1>0. ASSUME UNCHANGED <<lh, wrote, panicked>>, Active' = Active
      PROVE  RoomReserved'
  BY <1>0, Zenon DEF RoomReserved, Logged
<1>1. ASSUME NEW p \in Procs, NEW b \in Blocks, NEW v \in Vals, LogWrite(p, b, v), ~panicked
      PROVE  RoomReserved'
  <2>1. Active' = Active /\ p \in Active
    BY <1>1, Zenon DEF LogWrite, Active
  <2>2. \A q \in Procs : wrote'[q] \subseteq wrote[q] \cup {b}
    BY <1>1, Zenon DEF LogWrite, TypeOK
  <2>3. \A q \in Active' : wrote'[q] \subseteq Logged(lh')
    BY <1>1, <2>1, <2>2, LogWriteLogged, Zenon DEF RoomReserved, Active
  <2>4. panicked' => OpBlocks = MAXOPBLOCKS /\ Len(lh') = LOGBLOCKS
    <3>1. SUFFICES ASSUME panicked' PROVE OpBlocks = MAXOPBLOCKS /\ Len(lh') = LOGBLOCKS
      OBVIOUS
    <3>2. OpBlocks = MAXOPBLOCKS /\ Len(lh) = LOGBLOCKS
      BY <1>1, <3>1, LogWriteEffect, Zenon
    <3>3. ~(Len(lh) < LOGBLOCKS)
      BY <3>2, SizesAssumption
    <3>. QED
      BY <1>1, <3>2, <3>3, LogWriteEffect, Zenon
  <2>. QED
    BY <2>1, <2>3, <2>4, Zenon DEF RoomReserved
<1>2. ASSUME NEW p \in Procs, EndOp(p), ~panicked PROVE RoomReserved'
  <2>1. ~committing
    BY <1>2, Zenon DEF EndOp, PhaseInv
  <2>2. panicked' = panicked /\ lh' = lh
    BY <1>2, <2>1, Zenon DEF EndOp
  <2>3. \A q \in Procs : wrote'[q] \subseteq wrote[q]
    BY <1>2, Zenon DEF EndOp, TypeOK
  <2>4. Active' \subseteq Active
    <3>1. CASE pc' = [pc EXCEPT ![p] = "commit"]
      BY <1>2, <3>1, Zenon DEF Active, TypeOK
    <3>2. CASE pc' = WakeLog([pc EXCEPT ![p] = "idle"])
      BY <1>2, <3>2, Zenon DEF Active, WakeLog, TypeOK
    <3>. QED
      BY <1>2, <2>1, <3>1, <3>2, Zenon DEF EndOp
  <2>. QED
    BY <1>2, <2>2, <2>3, <2>4, Zenon DEF RoomReserved, Active, Logged
<1>3. ASSUME NEW p \in Procs, BeginOp(p), ~panicked PROVE RoomReserved'
  <2>1. /\ UNCHANGED <<lh, wrote, panicked>>
        /\ wrote[p] = {}
        /\ \A q \in Active' : q = p \/ q \in Active
    BY <1>3, Zenon DEF BeginOp, Active, WroteInv, TypeOK
  <2>. QED
    BY <1>3, <2>1, Zenon DEF RoomReserved, Logged
<1>4. CASE CommitDone
  <2>1. Active' = Active
    BY <1>4, Zenon DEF Active, CommitDone, WakeLog, TypeOK
  <2>. QED
    BY <1>0, <1>4, <2>1, Zenon DEF CommitDone
<1>5. CASE WriteLog \/ WriteHead \/ Install \/ Recover \/ UNCHANGED vars
  <2>1. UNCHANGED <<lh, wrote, panicked, pc>>
    BY <1>5, Zenon DEF WriteLog, WriteHead, Install, Recover, ops, vars
  <2>. QED
    BY <1>0, <2>1, Zenon DEF Active
<1>6. CASE (Clear \/ ReadHead \/ RecClear) /\ ~panicked
  <2>1. UNCHANGED <<pc, panicked>> /\ \A p \in Procs : pc[p] # "op"
    BY <1>6, Zenon DEF Clear, ReadHead, RecClear, PhaseInv, ops
  <2>. QED
    BY <1>6, <2>1, Zenon DEF RoomReserved, Active
<1>7. ASSUME NEW b \in Blocks, Bread(b) \/ Recycle(b) PROVE RoomReserved'
  BY <1>0, <1>7, Zenon DEF Bread, Recycle, ops, Active
<1>8. CASE Crash
  BY <1>8, Zenon DEF Crash, RoomReserved, Active
<1>. QED
  BY <1>1, <1>2, <1>3, <1>4, <1>5, <1>6, <1>7, <1>8, Zenon
     DEF Next, Running, CommitStep, RecoveryStep

LEMMA NextIInv == IInv /\ [Next]_vars => IInv'
  BY NextType, NextRoom, NextWrote, NextPhase, NextDistinct, NextCount, NextReserve, NextPin,
     NextCache, NextCopy DEF IInv

LEMMA Invariance == Spec => []IInv
  BY InitIInv, NextIInv, PTL DEF Spec

\* Types, for every size of the system, panics included.
THEOREM TypeCorrect == Spec => []TypeOK
<1>1. IInv => TypeOK
  BY Zenon DEF IInv
<1>. QED
  BY <1>1, Invariance, PTL

\* What begin_op() reserves is enough for every block that is new to the log, in
\* every interleaving of calls, commits and crashes and however often the calls
\* write their blocks: only a block that the exactly full log holds already can
\* make log_write() panic.
THEOREM RoomIsReserved == Spec => []RoomReserved
<1>1. IInv => RoomReserved
  BY Zenon DEF IInv
<1>. QED
  BY <1>1, Invariance, PTL

\* If every call leaves at least one block of its reservation unused, then none
\* of the panics of log.c is reached, however often a call writes its blocks.
THEOREM LogNeverPanics ==
  ASSUME OpBlocks < MAXOPBLOCKS
  PROVE  Spec => []~panicked
<1>1. OpBlocks # MAXOPBLOCKS
  BY SizesAssumption
<1>2. IInv => ~panicked
  BY <1>1, Zenon DEF IInv, RoomReserved
<1>. QED
  BY <1>2, Invariance, PTL

\* Pins and log entries stay in step: bpin() in log_write() is undone exactly
\* once, by install_trans().
THEOREM PinsMatchLog == Spec => []PinnedWhileLogged
<1>1. IInv => PinnedWhileLogged
  BY DEF IInv, PinInv, DistinctInv, Distinct, PinnedWhileLogged
<1>. QED
  BY <1>1, Invariance, PTL

----------------------------------------------------------------------------
(* Refinement: every step is a step of the abstract disk, or none *)

LEMMA IndexFacts ==
  ASSUME NEW hd \in Seq(Blocks), NEW b \in Logged(hd)
  PROVE  IndexOf(hd, b) \in 1..Len(hd) /\ hd[IndexOf(hd, b)] = b
<1>1. \E i \in 1..Len(hd) : hd[i] = b
  BY Zenon DEF Logged
<1>. QED
  BY <1>1, Zenon DEF IndexOf

\* What running calls see of a block in the log is the log's pending copy; of
\* any other block, the disk's.
LEMMA CachedValue ==
  ASSUME IInv, Up, NEW b \in Blocks
  PROVE  b \notin Uninstalled => Cached(b) = home[b]
  BY Zenon DEF IInv, PinInv, CacheInv, Cached

\* With an empty header on disk a reboot finds the home blocks.
LEMMA RecoveredEmpty ==
  ASSUME dhead = <<>>
  PROVE  Recovered = [b \in Blocks |-> home[b]]
  BY EmptyLog DEF Recovered

LEMMA InitRefines ==
  ASSUME Init
  PROVE  TD!Init
<1>1. Recovered = [b \in Blocks |-> InitVal]
  BY RecoveredEmpty, Zenon DEF Init
<1>2. Current = Recovered /\ Active = {}
  BY Zenon DEF Init, Current, Active
<1>. QED
  BY <1>1, <1>2, Zenon DEF TD!Init

\* Steps that touch neither the disk, nor the cache, nor the phase.
LEMMA SameContents ==
  ASSUME UNCHANGED <<home, dlog, dhead, buf>>, Up' = Up
  PROVE  Recovered' = Recovered /\ Current' = Current
  BY Zenon DEF Recovered, Current, Cached

LEMMA WriteHeadCommits ==
  ASSUME IInv, WriteHead
  PROVE  Recovered' = Current /\ Current' = Current /\ Active = {}
<1>. TypeOK /\ PhaseInv /\ CopyInv
  BY Zenon DEF IInv
<1>1. Active = {}
  BY Zenon DEF WriteHead, PhaseInv, Active
<1>2. Current' = Current /\ Current = [b \in Blocks |-> Cached(b)]
  BY DEF WriteHead, Current, Cached
<1>3. ASSUME NEW b \in Blocks PROVE Recovered'[b] = Cached(b)
  <2>1. CASE b \in Logged(lh)
    <3>1. IndexOf(lh, b) \in 1..Len(lh) /\ lh[IndexOf(lh, b)] = b
      BY <2>1, IndexFacts, Zenon DEF TypeOK
    <3>2. Recovered'[b] = dlog[IndexOf(lh, b)]
      BY <2>1, Zenon DEF WriteHead, Recovered
    <3>3. dlog[IndexOf(lh, b)] = buf[b]
      BY <3>1, Zenon DEF WriteHead, CopyInv
    <3>4. Cached(b) = buf[b]
      BY <3>1, PinnedIsCached, Zenon DEF WriteHead
    <3>. QED
      BY <3>2, <3>3, <3>4, Zenon
  <2>2. CASE b \notin Logged(lh)
    <3>1. Recovered'[b] = home[b]
      BY <2>2, Zenon DEF WriteHead, Recovered
    <3>2. b \notin Uninstalled
      BY <2>2 DEF WriteHead, Uninstalled, Logged
    <3>. QED
      BY <3>1, <3>2, CachedValue, Zenon DEF WriteHead
  <2>. QED
    BY <2>1, <2>2, Zenon
<1>4. Recovered' = [b \in Blocks |-> Recovered'[b]]
  BY Zenon DEF Recovered
<1>. QED
  BY <1>1, <1>2, <1>3, <1>4, Zenon

\* Copying a committed block home changes nothing that a reboot would find.
LEMMA InstallKeepsRecovered ==
  ASSUME IInv, phase \in {"install", "recover"}, InstallBlock(lh[tail + 1]),
         UNCHANGED <<dlog, dhead>>
  PROVE  Recovered' = Recovered
<1>. TypeOK /\ PhaseInv
  BY Zenon DEF IInv
<1>1. dhead = lh /\ lh[tail + 1] \in Logged(dhead)
  BY LogEntry, Zenon DEF PhaseInv, Logged
<1>2. \A b \in Blocks : b \notin Logged(dhead) => home'[b] = home[b]
  BY <1>1 DEF InstallBlock, TypeOK
<1>. QED
  BY <1>2 DEF Recovered

\* Neither does erasing the header once every block is home.
LEMMA EraseKeepsRecovered ==
  ASSUME IInv, phase \in {"clear", "rec_clear"}, EraseLog, home' = home
  PROVE  Recovered' = Recovered /\ Recovered = [b \in Blocks |-> home[b]]
<1>. TypeOK /\ PhaseInv /\ CopyInv
  BY Zenon DEF IInv
<1>1. ASSUME NEW b \in Blocks, b \in Logged(dhead) PROVE dlog[IndexOf(dhead, b)] = home[b]
  <2>1. IndexOf(dhead, b) \in 1..Len(dhead) /\ dhead[IndexOf(dhead, b)] = b
    BY <1>1, IndexFacts, Zenon DEF TypeOK
  <2>. QED
    BY <2>1 DEF PhaseInv, CopyInv
<1>2. Recovered = [b \in Blocks |-> home[b]]
  BY <1>1, Zenon DEF Recovered
<1>3. Recovered' = [b \in Blocks |-> home'[b]]
  <2>1. dhead' = <<>>
    BY DEF EraseLog
  <2>2. Logged(dhead') = {}
    BY <2>1, EmptyLog, Zenon
  <2>. QED
    BY <2>2 DEF Recovered
<1>. QED
  BY <1>2, <1>3

LEMMA NextRefines ==
  ASSUME IInv, IInv', [Next]_vars
  PROVE  [TD!Next]_(TD!tvars)
<1> USE DEF disk, ops
<1>. TypeOK /\ PhaseInv /\ CacheInv /\ CopyInv /\ PinInv
  BY DEF IInv
<1> DEFINE Stutter == Recovered' = Recovered /\ Current' = Current /\ Active' = Active
<1>0. ASSUME Stutter PROVE UNCHANGED TD!tvars
  BY <1>0 DEF TD!tvars
<1>1. ASSUME NEW p \in Procs, BeginOp(p) PROVE [TD!Next]_(TD!tvars)
  <2>1. Recovered' = Recovered /\ Current' = Current
    BY <1>1, SameContents, Zenon DEF BeginOp
  <2>2. CASE MayBegin
    <3>1. p \notin Active /\ Active' = Active \cup {p}
      BY <1>1, <2>2, Zenon DEF Active, BeginOp, TypeOK
    <3>2. TD!Begin(p)
      BY <2>1, <3>1, Zenon DEF TD!Begin
    <3>. QED
      BY <3>2, Zenon DEF TD!Next
  <2>3. CASE ~MayBegin
    <3>1. Active' = Active
      BY <1>1, <2>3, Zenon DEF Active, BeginOp, TypeOK
    <3>. QED
      BY <1>0, <2>1, <3>1, Zenon
  <2>. QED
    BY <2>2, <2>3, Zenon
<1>2. ASSUME NEW p \in Procs, EndOp(p) PROVE [TD!Next]_(TD!tvars)
  <2>1. phase = "idle" /\ phase' \notin BootPhases /\ ~committing
    BY <1>2, Zenon DEF EndOp, PhaseInv, TypeOK
  <2>2. Recovered' = Recovered /\ Current' = Current
    BY <1>2, <2>1, SameContents, Zenon DEF EndOp
  <2>3. p \in Active /\ Active' = Active \ {p}
    <3>1. CASE pc' = [pc EXCEPT ![p] = "commit"]
      BY <1>2, <3>1, Zenon DEF Active, EndOp, TypeOK
    <3>2. CASE pc' = WakeLog([pc EXCEPT ![p] = "idle"])
      BY <1>2, <3>2, Zenon DEF Active, EndOp, WakeLog, TypeOK
    <3>. QED
      BY <1>2, <2>1, <3>1, <3>2, Zenon DEF EndOp
  <2>4. TD!End(p)
    BY <2>2, <2>3, Zenon DEF TD!End
  <2>. QED
    BY <2>4, Zenon DEF TD!Next
<1>3. ASSUME NEW p \in Procs, NEW b \in Blocks, NEW v \in Vals, LogWrite(p, b, v)
      PROVE  [TD!Next]_(TD!tvars)
  <2>1. Recovered' = Recovered /\ Active' = Active /\ p \in Active
    BY <1>3, Zenon DEF LogWrite, Recovered, Active
  <2>2. Current' = [Current EXCEPT ![b] = v]
    BY <1>3, ValsAssumption, Zenon DEF LogWrite, Current, Cached, TypeOK
  <2>3. TD!Write(p, b, v)
    BY <2>1, <2>2 DEF TD!Write
  <2>. QED
    BY <2>3, Zenon DEF TD!Next
<1>4. CASE WriteLog
  <2>1. lh[tail + 1] \in Blocks /\ Cached(lh[tail + 1]) = buf[lh[tail + 1]]
    BY <1>4, LogEntry, PinnedIsCached DEF WriteLog, PhaseInv
  <2>2. buf' = buf
    BY <1>4, <2>1, Zenon DEF WriteLog, TypeOK
  <2>3. Recovered' = Recovered
    BY <1>4, RecoveredEmpty, EmptyLog, Zenon DEF WriteLog, PhaseInv, Recovered
  <2>4. Current' = Current
    BY <1>4, <2>2, Zenon DEF WriteLog, Current, Cached
  <2>. QED
    BY <1>0, <1>4, <2>3, <2>4, SMTT(30) DEF WriteLog, Active
<1>5. CASE WriteHead
  <2>1. Recovered' = Current /\ Current' = Current /\ Active = {}
    BY <1>5, WriteHeadCommits, Zenon
  <2>2. TD!Commit
    BY <1>5, <2>1, Zenon DEF TD!Commit, WriteHead, Active
  <2>. QED
    BY <2>2 DEF TD!Next
<1>6. CASE Install
  <2>1. Recovered' = Recovered
    BY <1>6, InstallKeepsRecovered, Zenon DEF Install
  <2>2. tail + 1 \in 1..Len(lh) /\ lh[tail + 1] \in Blocks
    BY <1>6, LogEntry, ZenonT(30) DEF Install, PhaseInv
  <2>3. Cached(lh[tail + 1]) = dlog[tail + 1] /\ dlog[tail + 1] # NoVal
    <3>1. phase = "install" /\ CopyInv
      BY <1>6, Zenon DEF Install, IInv
    <3>2. tail + 1 \in tail + 1..Len(lh)
      BY <2>2
    <3>3. dlog[tail + 1] = buf[lh[tail + 1]]
      BY <3>1, <3>2, Zenon DEF CopyInv
    <3>4. buf[lh[tail + 1]] # NoVal /\ Cached(lh[tail + 1]) = buf[lh[tail + 1]]
      BY <3>1, <3>2, PinnedIsCached
    <3> QED
      BY <3>3, <3>4, Zenon
  <2>4. Current' = Current
    BY <1>6, <2>2, <2>3, Zenon DEF Install, InstallBlock, Current, Cached, TypeOK
  <2>. QED
    BY <1>0, <1>6, <2>1, <2>4, Zenon DEF Install, Active
<1>7. CASE Clear
  BY <1>0, <1>7, EraseKeepsRecovered, Zenon DEF Clear, Current, Cached, Active
<1>8. CASE CommitDone
  <2>1. Active' = Active
    BY <1>8, Zenon DEF CommitDone, WakeLog, Active, TypeOK
  <2>. QED
    BY <1>0, <1>8, <2>1, SameContents, Zenon DEF CommitDone
<1>9. CASE ReadHead
  BY <1>0, <1>9, SameContents, Zenon DEF ReadHead, Active
<1>10. CASE Recover
  <2>1. Recovered' = Recovered
    BY <1>10, InstallKeepsRecovered, Zenon DEF Recover
  <2>. QED
    BY <1>0, <1>10, <2>1, Zenon DEF Recover, Current, Active
<1>11. CASE RecClear
  <2>1. Recovered' = Recovered /\ Recovered = [b \in Blocks |-> home[b]]
    BY <1>11, EraseKeepsRecovered, Zenon DEF RecClear
  <2>2. \A b \in Blocks : Cached(b) = home[b]
    BY <1>11, Zenon DEF RecClear, PinInv, CacheInv, Cached
  <2>3. Current' = Current
    BY <1>11, <2>1, <2>2, Zenon DEF RecClear, Current, Cached
  <2>. QED
    BY <1>0, <1>11, <2>1, <2>3, Zenon DEF RecClear, Active
<1>12. ASSUME NEW b \in Blocks, Bread(b) \/ Recycle(b) PROVE [TD!Next]_(TD!tvars)
  <2>1. Recovered' = Recovered /\ Active' = Active
    BY <1>12, Zenon DEF Bread, Recycle, Recovered, Active
  <2>2. Current' = Current
    BY <1>12, <2>1, ValsAssumption, ZenonT(30) DEF Bread, Recycle, CacheInv, Current, Cached, TypeOK
  <2>. QED
    BY <1>0, <2>1, <2>2, Zenon
<1>13. CASE Crash
  <2>1. Recovered' = Recovered /\ Current' = Recovered' /\ Active' = {}
    BY <1>13, Zenon DEF Crash, Recovered, Current, Active
  <2>2. TD!Crash
    BY <2>1 DEF TD!Crash
  <2>. QED
    BY <2>2 DEF TD!Next
<1>14. CASE UNCHANGED vars
  BY <1>0, <1>14, SameContents DEF vars, Active
<1>. QED
  BY SMTT(30), <1>1, <1>2, <1>3, <1>4, <1>5, <1>6, <1>7, <1>8, <1>9, <1>10, <1>11, <1>12,
     <1>13, <1>14 DEF Next, Running, CommitStep, RecoveryStep

\* log.c implements atomic groups of calls, for every number of processes,
\* blocks and log blocks, and however often and wherever the machine crashes.
THEOREM LogRefinesTxnDisk == Spec => AtomicGroups
<1>1. Init => TD!Init
  BY InitRefines
<1>2. IInv /\ IInv' /\ [Next]_vars => [TD!Next]_(TD!tvars)
  BY NextRefines, Zenon
<1>. QED
  BY <1>1, <1>2, Invariance, PTL DEF Spec, AtomicGroups, TD!Spec

\* When commit() is over nothing that running calls see is at risk.
LEMMA DoneIsDurable ==
  ASSUME IInv, [Next]_vars, committing, ~committing', phase' = "idle"
  PROVE  Recovered' = Current
<1>. TypeOK /\ PhaseInv
  BY Zenon DEF IInv
<1>1. CASE CommitDone
  <2>1. Recovered = [b \in Blocks |-> home[b]] /\ Recovered' = Recovered
    BY <1>1, RecoveredEmpty, SameContents, Zenon DEF CommitDone, PhaseInv, disk
  <2>2. Uninstalled = {}
    BY <1>1, EmptyLog DEF CommitDone, PhaseInv, Uninstalled
  <2>3. \A b \in Blocks : Cached(b) = home[b]
    BY <1>1, <2>2, CachedValue, Zenon DEF CommitDone
  <2>. QED
    BY <1>1, <2>1, <2>3, Zenon DEF CommitDone, Current
<1>2. ASSUME NEW p \in Procs, BeginOp(p) \/ EndOp(p) PROVE FALSE
  BY <1>2, Zenon DEF BeginOp, EndOp, PhaseInv
<1>3. ASSUME NEW p \in Procs, NEW b \in Blocks, NEW v \in Vals, LogWrite(p, b, v) PROVE FALSE
  BY <1>3, Zenon DEF LogWrite
<1>4. CASE WriteLog \/ WriteHead \/ Install \/ Clear \/ ReadHead \/ Recover \/ RecClear
  BY <1>4, Zenon DEF WriteLog, WriteHead, Install, Clear, ReadHead, Recover, RecClear
<1>5. ASSUME NEW b \in Blocks, Bread(b) \/ Recycle(b) PROVE FALSE
  BY <1>5, Zenon DEF Bread, Recycle
<1>6. CASE Crash \/ UNCHANGED vars
  BY <1>6 DEF Crash, vars
<1>. QED
  BY <1>1, <1>2, <1>3, <1>4, <1>5, <1>6, Zenon DEF Next, Running, CommitStep, RecoveryStep

\* The end_op() that commits returns only once the whole group is durable.
THEOREM CommitDurability == Spec => CommitIsDurable
<1>1. IInv /\ [Next]_vars =>
        [committing /\ ~committing' /\ phase' = "idle" => Recovered' = Current]_vars
  BY DoneIsDurable
<1>. QED
  BY <1>1, Invariance, PTL DEF Spec, CommitIsDurable
=============================================================================
