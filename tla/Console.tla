------------------------------ MODULE Console ------------------------------
(***************************************************************************)
(* Console input, kernel/console.c: the interrupt handler consoleintr()    *)
(* edits and commits lines in a ring buffer, any number of processes read  *)
(* it.  Every step below runs with cons.lock held from its first to its    *)
(* last access, except that sleep() gives the lock up; a reader's loop is  *)
(* one step per character and keeps the lock between the steps.            *)
(***************************************************************************)
EXTENDS Naturals, Sequences

CONSTANTS
  INPUT_BUF_SIZE,
  UINT,           \* cons.r, cons.w and cons.e are counted modulo UINT
  Char, NL, EOT,  \* characters; EOT is ^D
  Readers, Nobody,
  MaxN            \* bound on the length of a read

ASSUME ConsoleAssumption ==
  /\ INPUT_BUF_SIZE \in Nat \ {0}
  /\ UINT \in Nat /\ UINT > INPUT_BUF_SIZE /\ UINT % INPUT_BUF_SIZE = 0
  /\ {NL, EOT} \subseteq Char
  /\ Nobody \notin Readers
  /\ MaxN \in Nat

VARIABLES
  buf, r, w, e,   \* cons
  lock,           \* cons.lock, held by a reader
  pc, n, target,  \* of each reader: n characters still wanted of target
  got,            \* the characters copied out by the read in progress
  result          \* what each reader's last read returned

cons == <<buf, r, w, e>>
vars == <<buf, r, w, e, lock, pc, n, target, got, result>>

Plus(a, k) == (a + k) % UINT

\* unsigned subtraction
Minus(a, b) == (a + UINT - b) % UINT

Slot(a) == a % INPUT_BUF_SIZE

Init ==
  /\ buf = [k \in 0..INPUT_BUF_SIZE - 1 |-> NL]
  /\ r = 0 /\ w = 0 /\ e = 0
  /\ lock = Nobody
  /\ pc = [p \in Readers |-> "idle"]
  /\ n = [p \in Readers |-> 0] /\ target = [p \in Readers |-> 0]
  /\ got = [p \in Readers |-> <<>>]
  /\ result = [p \in Readers |-> <<>>]

----------------------------------------------------------------------------
(* consoleintr() *)

\* Mutant: nobody is woken.
WakeNobody == pc

\* pc after wakeup(&cons.r)
WakeReaders == [p \in Readers |-> IF pc[p] = "asleep" THEN "lock" ELSE pc[p]]

Completes(c, e2) == c \in {NL, EOT} \/ Minus(e2, r) = INPUT_BUF_SIZE

\* Mutant: ++cons.e
EditSlotNext == Slot(Plus(e, 1))

\* cons.e++
EditSlot == Slot(e)

\* Any other character, \r being read as NL; it is dropped when the buffer is full.
IntrChar(c) ==
  /\ lock = Nobody
  /\ Minus(e, r) < INPUT_BUF_SIZE
  /\ buf' = [buf EXCEPT ![EditSlot] = c]
  /\ e' = Plus(e, 1)
  /\ IF Completes(c, Plus(e, 1))
     THEN w' = Plus(e, 1) /\ pc' = WakeReaders
     ELSE UNCHANGED <<w, pc>>
  /\ UNCHANGED <<r, lock, n, target, got, result>>

Erasable == e # w

\* ^H or delete
IntrErase ==
  /\ lock = Nobody
  /\ Erasable
  /\ e' = Minus(e, 1)
  /\ UNCHANGED <<buf, r, w, lock, pc, n, target, got, result>>

\* How many characters ^U takes back: up to a newline or to the end of what is
\* committed.
KillCount ==
  LET stops(k) == Minus(e, k) = w \/ buf[Slot(Minus(e, k + 1))] = NL
  IN CHOOSE k \in 0..INPUT_BUF_SIZE : stops(k) /\ \A j \in 0..k - 1 : ~stops(j)

\* ^U
IntrKill ==
  /\ lock = Nobody
  /\ e' = Minus(e, KillCount)
  /\ UNCHANGED <<buf, r, w, lock, pc, n, target, got, result>>

----------------------------------------------------------------------------
(* consoleread() *)

Call(p, k) ==
  /\ pc[p] = "idle"
  /\ pc' = [pc EXCEPT ![p] = "lock"]
  /\ n' = [n EXCEPT ![p] = k]
  /\ target' = [target EXCEPT ![p] = k]
  /\ got' = [got EXCEPT ![p] = <<>>]
  /\ UNCHANGED <<cons, lock, result>>

Lock(p) ==
  /\ pc[p] = "lock"
  /\ lock = Nobody
  /\ lock' = p
  /\ pc' = [pc EXCEPT ![p] = "read"]
  /\ UNCHANGED <<cons, n, target, got, result>>

\* release(&cons.lock) and return
Return(p, res) ==
  /\ lock' = Nobody
  /\ pc' = [pc EXCEPT ![p] = "idle"]
  /\ result' = [result EXCEPT ![p] = res]
  /\ n' = [n EXCEPT ![p] = 0] /\ target' = [target EXCEPT ![p] = 0]
  /\ got' = [got EXCEPT ![p] = <<>>]

\* The loop ends: nothing more is wanted.
ReadAll(p) ==
  /\ pc[p] = "read"
  /\ n[p] = 0
  /\ Return(p, got[p])
  /\ UNCHANGED cons

\* Nothing to read: a killed process gives up, any other sleeps on &cons.r.
ReadWait(p) ==
  /\ pc[p] = "read"
  /\ n[p] > 0
  /\ r = w
  /\ \/ Return(p, <<"killed">>)
     \/ /\ lock' = Nobody
        /\ pc' = [pc EXCEPT ![p] = "asleep"]
        /\ UNCHANGED <<n, target, got, result>>
  /\ UNCHANGED cons

\* Mutant: ^D is always consumed.
GivesBackNever(p) == FALSE

\* ^D after other characters is kept for the next read.
GivesBack(p) == n[p] < target[p]

ReadEot(p) ==
  /\ pc[p] = "read"
  /\ n[p] > 0 /\ r # w
  /\ buf[Slot(r)] = EOT
  /\ r' = IF GivesBack(p) THEN r ELSE Plus(r, 1)
  /\ Return(p, got[p])
  /\ UNCHANGED <<buf, w, e>>

\* A character is copied out, and a newline ends the read; if the copy fails the
\* character is lost.
ReadChar(p) ==
  LET c == buf[Slot(r)] IN
  /\ pc[p] = "read"
  /\ n[p] > 0 /\ r # w
  /\ c # EOT
  /\ r' = Plus(r, 1)
  /\ \/ Return(p, got[p])
     \/ c = NL /\ Return(p, Append(got[p], c))
     \/ /\ c # NL
        /\ n' = [n EXCEPT ![p] = @ - 1]
        /\ got' = [got EXCEPT ![p] = Append(@, c)]
        /\ UNCHANGED <<lock, pc, target, result>>
  /\ UNCHANGED <<buf, w, e>>

\* kkill() makes a sleeper runnable.
Kill(p) ==
  /\ pc[p] = "asleep"
  /\ pc' = [pc EXCEPT ![p] = "lock"]
  /\ UNCHANGED <<cons, lock, n, target, got, result>>

----------------------------------------------------------------------------

Read(p) == Lock(p) \/ ReadAll(p) \/ ReadWait(p) \/ ReadEot(p) \/ ReadChar(p)

Next ==
  \/ \E c \in Char : IntrChar(c)
  \/ IntrErase \/ IntrKill
  \/ \E p \in Readers : Read(p) \/ Kill(p) \/ \E k \in 0..MaxN : Call(p, k)

Spec == Init /\ [][Next]_vars

----------------------------------------------------------------------------
(* Properties *)

\* No lost wakeup: a reader sleeps only while there is no complete line, and a
\* full buffer counts as one.
NoLostWakeup ==
  (\E p \in Readers : pc[p] = "asleep") => r = w /\ Minus(e, r) < INPUT_BUF_SIZE

\* "to make sure caller gets a 0-byte result": the end of file that ends a read
\* which already has characters is seen by a later read, so ^D is consumed only by
\* a read that returns nothing.
EofSeen ==
  [][\A p \in Readers :
       r' # r /\ buf[Slot(r)] = EOT /\ lock = p => result'[p] = <<>>]_vars

Contents(a, b) == [k \in 1..Minus(b, a) |-> buf[Slot(Plus(a, k - 1))]]

Lines == INSTANCE LineBuffer WITH Size <- INPUT_BUF_SIZE,
                                  ready <- Contents(r, w), editing <- Contents(w, e)

\* consoleintr() and consoleread() implement a line buffer: editing touches only
\* the line being typed, lines are read in order and once.
IsLineBuffer == Lines!Spec
=============================================================================
