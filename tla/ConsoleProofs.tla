--------------------------- MODULE ConsoleProofs ---------------------------
(***************************************************************************)
(* Proofs about module Console: for every size of the buffer, every width  *)
(* of its counters and any number of readers, the console is a line        *)
(* buffer, loses no wakeup and no end of file.                             *)
(***************************************************************************)
EXTENDS Console, Integers, SequenceTheorems, TLAPS

----------------------------------------------------------------------------
(* Remainders *)

LEMMA ModRange ==
  ASSUME NEW b \in Nat \ {0}, NEW x \in Nat
  PROVE  x % b \in 0..b - 1
OBVIOUS

LEMMA ModTwice ==
  ASSUME NEW b \in Nat \ {0}, NEW x \in 0..2 * b - 1
  PROVE  x % b = IF x < b THEN x ELSE x - b
OBVIOUS

LEMMA ModDef ==
  ASSUME NEW b \in Nat \ {0}, NEW x \in Nat
  PROVE  x \div b \in Nat /\ x = b * (x \div b) + (x % b)
OBVIOUS

LEMMA ModUnique ==
  ASSUME NEW b \in Nat \ {0}, NEW q \in Nat, NEW d \in 0..b - 1
  PROVE  (b * q + d) % b = d
OBVIOUS

LEMMA ModOfMultiple ==
  ASSUME NEW b \in Nat \ {0}, NEW u \in Nat, u % b = 0, NEW x \in Nat
  PROVE  (x + u) % b = x % b
<1>1. PICK q \in Nat, d \in 0..b - 1 : x = b * q + d /\ d = x % b
  BY ModDef, ModRange, Zenon
<1>2. PICK k \in Nat : u = b * k
  <2>1. u \div b \in Nat /\ u = b * (u \div b) + (u % b)
    BY ModDef
  <2>2. b * (u \div b) \in Nat
    BY <2>1
  <2>3. b * (u \div b) + 0 = b * (u \div b)
    BY <2>2
  <2> QED
    BY <2>1, <2>3, Zenon
<1>3. x + u = b * (q + k) + d
  BY <1>1, <1>2
<1>4. (b * (q + k) + d) % b = d
  BY ModUnique
<1> QED
  BY <1>1, <1>3, <1>4

LEMMA TimesSucc ==
  ASSUME NEW b \in Nat, NEW m \in Nat
  PROVE  b * (m + 1) = b * m + b /\ b * m \in Nat
OBVIOUS

\* Fewer than b numbers in a row have different remainders.
LEMMA ModDistinct ==
  ASSUME NEW b \in Nat \ {0}, NEW x \in Nat, NEW y \in Nat, x < y, y < x + b
  PROVE  x % b # y % b
<1> SUFFICES ASSUME x % b = y % b PROVE FALSE
  OBVIOUS
<1>1. PICK q \in Nat, k \in Nat, d \in 0..b - 1 : x = b * q + d /\ y = b * k + d
  <2>1. x \div b \in Nat /\ x = b * (x \div b) + (x % b)
    BY ModDef
  <2>2. y \div b \in Nat /\ y = b * (y \div b) + (x % b)
    BY ModDef
  <2>3. x % b \in 0..b - 1
    BY ModRange
  <2> QED
    BY <2>1, <2>2, <2>3, Zenon
<1>2. y - x = b * (k - q)
  BY <1>1
<1>3. k > q
  <2> SUFFICES ASSUME k <= q PROVE FALSE
    OBVIOUS
  <2>1. b * (q - k) >= 0
    OBVIOUS
  <2> QED
    BY <1>1, <2>1
<1>4. PICK m \in Nat : k - q = m + 1
  BY <1>3
<1>5. b * (m + 1) = b * m + b /\ b * m \in Nat
  BY TimesSucc
<1> QED
  BY <1>2, <1>4, <1>5

LEMMA TimesAssoc ==
  ASSUME NEW b \in Nat, NEW k \in Nat, NEW q \in Nat, NEW j \in Nat, NEW s \in Nat
  PROVE  (b * k) * q + (b * j + s) = b * (k * q + j) + s /\ k * q \in Nat
OBVIOUS

\* A ring of b cells indexed by a counter that wraps at a multiple of b.
LEMMA ModOfMod ==
  ASSUME NEW b \in Nat \ {0}, NEW u \in Nat \ {0}, u % b = 0, NEW x \in Nat
  PROVE  (x % u) % b = x % b
<1>1. PICK q \in Nat, d \in 0..u - 1 : x = u * q + d /\ d = x % u
  BY ModDef, ModRange, Zenon
<1>2. PICK k \in Nat : u = b * k
  <2>1. u \div b \in Nat /\ u = b * (u \div b) + (u % b)
    BY ModDef
  <2>2. b * (u \div b) \in Nat
    BY <2>1
  <2>3. b * (u \div b) + 0 = b * (u \div b)
    BY <2>2
  <2> QED
    BY <2>1, <2>3, Zenon
<1>3. PICK j \in Nat, s \in 0..b - 1 : d = b * j + s /\ s = d % b
  <2>1. d \in Nat
    OBVIOUS
  <2> QED
    BY <2>1, ModDef, ModRange, Zenon
<1>4. x = b * (k * q + j) + s /\ k * q + j \in Nat
  <2>1. x = (b * k) * q + (b * j + s)
    BY <1>1, <1>2, <1>3, Zenon
  <2>2. (b * k) * q + (b * j + s) = b * (k * q + j) + s /\ k * q \in Nat
    BY TimesAssoc
  <2> QED
    BY <2>1, <2>2
<1>5. (b * (k * q + j) + s) % b = s
  BY <1>4, ModUnique
<1> QED
  BY <1>1, <1>3, <1>4, <1>5, Zenon

----------------------------------------------------------------------------
(* The counters *)

Index == 0..UINT - 1

LEMMA Sizes == INPUT_BUF_SIZE \in Nat \ {0} /\ UINT \in Nat \ {0} /\ UINT > INPUT_BUF_SIZE
BY ConsoleAssumption

LEMMA UintMod ==
  ASSUME NEW x \in 0..2 * UINT - 1
  PROVE  x % UINT = IF x < UINT THEN x ELSE x - UINT
BY Sizes, ModTwice, Zenon

LEMMA PlusFacts ==
  ASSUME NEW a \in Index, NEW k \in Index
  PROVE  Plus(a, k) \in Index /\ (Plus(a, k) = a + k \/ Plus(a, k) = a + k - UINT)
<1> USE Sizes DEF Index
<1>1. a + k \in 0..2 * UINT - 1
  OBVIOUS
<1>2. Plus(a, k) = IF a + k < UINT THEN a + k ELSE a + k - UINT
  BY <1>1, UintMod DEF Plus
<1> QED
  BY <1>2

\* Unsigned subtraction is the way from b to a, however often they have wrapped.
LEMMA MinusFacts ==
  ASSUME NEW a \in Index, NEW b \in Index
  PROVE  Minus(a, b) \in Index /\ (b + Minus(a, b) = a \/ b + Minus(a, b) = a + UINT)
<1> USE Sizes DEF Index
<1>1. a + UINT - b \in 0..2 * UINT - 1
  OBVIOUS
<1>2. Minus(a, b) = IF a + UINT - b < UINT THEN a + UINT - b ELSE a + UINT - b - UINT
  BY <1>1, UintMod DEF Minus
<1> QED
  BY <1>2

LEMMA MinusNat ==
  ASSUME NEW a \in Index, NEW b \in Index
  PROVE  Minus(a, b) \in Nat /\ b \in Nat
<1>1. Minus(a, b) \in Index
  BY MinusFacts
<1> QED
  BY <1>1, Sizes DEF Index

LEMMA MinusSelf ==
  ASSUME NEW a \in Index
  PROVE  Minus(a, a) = 0
<1>1. Minus(a, a) \in Index /\ (a + Minus(a, a) = a \/ a + Minus(a, a) = a + UINT)
  BY MinusFacts
<1> QED
  BY <1>1, Sizes DEF Index

\* The way from x to z over y.
LEMMA MinusSum ==
  ASSUME NEW x \in Index, NEW y \in Index, NEW z \in Index,
         Minus(y, x) + Minus(z, y) < UINT
  PROVE  Minus(z, x) = Minus(y, x) + Minus(z, y)
<1> USE Sizes DEF Index
<1>1. Minus(y, x) \in Index /\ (x + Minus(y, x) = y \/ x + Minus(y, x) = y + UINT)
  BY MinusFacts
<1>2. Minus(z, y) \in Index /\ (y + Minus(z, y) = z \/ y + Minus(z, y) = z + UINT)
  BY MinusFacts
<1>3. Minus(z, x) \in Index /\ (x + Minus(z, x) = z \/ x + Minus(z, x) = z + UINT)
  BY MinusFacts
<1> QED
  BY <1>1, <1>2, <1>3

LEMMA MinusNext ==
  ASSUME NEW a \in Index, NEW b \in Index, Minus(b, a) < UINT - 1
  PROVE  Plus(b, 1) \in Index /\ Minus(Plus(b, 1), a) = Minus(b, a) + 1
<1> USE Sizes DEF Index
<1>1. Plus(b, 1) \in Index /\ (Plus(b, 1) = b + 1 \/ Plus(b, 1) = b + 1 - UINT)
  <2>1. 1 \in Index
    OBVIOUS
  <2> QED
    BY <2>1, PlusFacts, Zenon
<1>2. Minus(b, a) \in Index /\ (a + Minus(b, a) = b \/ a + Minus(b, a) = b + UINT)
  BY MinusFacts
<1>3. /\ Minus(Plus(b, 1), a) \in Index
      /\ a + Minus(Plus(b, 1), a) = Plus(b, 1) \/ a + Minus(Plus(b, 1), a) = Plus(b, 1) + UINT
  BY <1>1, MinusFacts
<1> QED
  BY <1>1, <1>2, <1>3

LEMMA MinusRest ==
  ASSUME NEW a \in Index, NEW b \in Index, a # b
  PROVE  /\ Minus(b, a) > 0 /\ Plus(a, 1) \in Index
         /\ Minus(b, Plus(a, 1)) = Minus(b, a) - 1
<1> USE Sizes DEF Index
<1>1. Plus(a, 1) \in Index /\ (Plus(a, 1) = a + 1 \/ Plus(a, 1) = a + 1 - UINT)
  <2>1. 1 \in Index
    OBVIOUS
  <2> QED
    BY <2>1, PlusFacts
<1>2. Minus(b, a) \in Index /\ (a + Minus(b, a) = b \/ a + Minus(b, a) = b + UINT)
  BY MinusFacts
<1>3. /\ Minus(b, Plus(a, 1)) \in Index
      /\ \/ Plus(a, 1) + Minus(b, Plus(a, 1)) = b
         \/ Plus(a, 1) + Minus(b, Plus(a, 1)) = b + UINT
  BY <1>1, MinusFacts, Zenon
<1> QED
  BY <1>1, <1>2, <1>3

\* Stepping back k places on the way from a to b.
LEMMA MinusBack ==
  ASSUME NEW a \in Index, NEW b \in Index, NEW k \in 0..Minus(b, a)
  PROVE  /\ Minus(b, k) \in Index
         /\ Minus(Minus(b, k), a) = Minus(b, a) - k
         /\ Minus(b, k) = a <=> k = Minus(b, a)
<1> USE Sizes DEF Index
<1>1. Minus(b, a) \in Index /\ (a + Minus(b, a) = b \/ a + Minus(b, a) = b + UINT)
  BY MinusFacts
<1>2. k \in Index
  BY <1>1
<1>3. Minus(b, k) \in Index /\ (k + Minus(b, k) = b \/ k + Minus(b, k) = b + UINT)
  BY <1>2, MinusFacts
<1>4. /\ Minus(Minus(b, k), a) \in Index
      /\ a + Minus(Minus(b, k), a) = Minus(b, k) \/ a + Minus(Minus(b, k), a) = Minus(b, k) + UINT
  BY <1>3, MinusFacts
<1>5. Minus(Minus(b, k), a) = Minus(b, a) - k
  <2> DEFINE m == Minus(b, k)
             d == Minus(b, a)
             c == Minus(m, a)
  <2>1. m \in 0..UINT - 1 /\ d \in 0..UINT - 1 /\ c \in 0..UINT - 1 /\ k \in 0..d
    BY <1>1, <1>3, <1>4
  <2>2. /\ a + d = b \/ a + d = b + UINT
        /\ k + m = b \/ k + m = b + UINT
        /\ a + c = m \/ a + c = m + UINT
    BY <1>1, <1>3, <1>4
  <2> HIDE DEF m, d, c
  <2>3. c = d - k
    BY <2>1, <2>2
  <2> QED
    BY <2>3 DEF m, d, c
<1>6. Minus(b, k) = a <=> k = Minus(b, a)
  BY <1>1, <1>2, <1>3
<1> QED
  BY <1>3, <1>5, <1>6

----------------------------------------------------------------------------
(* The characters in the buffer *)

Slots == 0..INPUT_BUF_SIZE - 1

LEMMA SlotFacts ==
  ASSUME NEW x \in Nat
  PROVE  /\ Slot(x) \in Slots
         /\ Slot(x + UINT) = Slot(x)
         /\ Slot(x % UINT) = Slot(x)
<1>1. x % INPUT_BUF_SIZE \in 0..INPUT_BUF_SIZE - 1
  BY Sizes, ModRange
<1>2. (x + UINT) % INPUT_BUF_SIZE = x % INPUT_BUF_SIZE
  BY Sizes, ConsoleAssumption, ModOfMultiple, Zenon
<1>3. (x % UINT) % INPUT_BUF_SIZE = x % INPUT_BUF_SIZE
  BY Sizes, ConsoleAssumption, ModOfMod, Zenon
<1> QED
  BY <1>1, <1>2, <1>3, Zenon DEF Slot, Slots

LEMMA SlotsDiffer ==
  ASSUME NEW x \in Nat, NEW y \in Nat, x < y, y < x + INPUT_BUF_SIZE
  PROVE  Slot(x) # Slot(y)
BY Sizes, ModDistinct, Zenon DEF Slot

\* The m characters of b from place x on.
Text(b, x, m) == [k \in 1..m |-> b[Slot(x + k - 1)]]

Buffers == [Slots -> Char]

LEMMA TextTyped ==
  ASSUME NEW b \in Buffers, NEW x \in Nat, NEW m \in Nat
  PROVE  /\ Text(b, x, m) \in Seq(Char) /\ Len(Text(b, x, m)) = m
         /\ \A k \in 1..m : Text(b, x, m)[k] = b[Slot(x + k - 1)]
<1>1. \A k \in 1..m : b[Slot(x + k - 1)] \in Char
  <2> SUFFICES ASSUME NEW k \in 1..m PROVE b[Slot(x + k - 1)] \in Char
    OBVIOUS
  <2>1. x + k - 1 \in Nat
    OBVIOUS
  <2>2. Slot(x + k - 1) \in Slots
    BY <2>1, SlotFacts
  <2> QED
    BY <2>2 DEF Buffers
<1> QED
  BY <1>1 DEF Text

LEMMA TextWrap ==
  ASSUME NEW b, NEW x \in Nat, NEW m \in Nat
  PROVE  Text(b, x + UINT, m) = Text(b, x, m)
<1>1. \A k \in 1..m : Slot(x + UINT + k - 1) = Slot(x + k - 1)
  <2> SUFFICES ASSUME NEW k \in 1..m PROVE Slot(x + UINT + k - 1) = Slot(x + k - 1)
    OBVIOUS
  <2>1. x + k - 1 \in Nat /\ x + UINT + k - 1 = (x + k - 1) + UINT
    BY Sizes
  <2> QED
    BY <2>1, SlotFacts
<1> QED
  BY <1>1, Zenon DEF Text

\* The m characters of b from the counter y on.
Walk(b, y, m) == [k \in 1..m |-> b[Slot(Plus(y, k - 1))]]

\* What is read with a counter is the text at the place where it is counted from x.
LEMMA TextBetween ==
  ASSUME NEW b, NEW x \in Index, NEW y \in Index, NEW m \in Nat
  PROVE  Walk(b, y, m) = Text(b, x + Minus(y, x), m)
<1>1. PICK d \in Nat : d = Minus(y, x) /\ (x + d = y \/ x + d = y + UINT)
  <2>1. Minus(y, x) \in Index /\ (x + Minus(y, x) = y \/ x + Minus(y, x) = y + UINT)
    BY MinusFacts
  <2>2. Minus(y, x) \in Nat
    BY <2>1, Sizes DEF Index
  <2> QED
    BY <2>1, <2>2, Zenon
<1>2. ASSUME NEW k \in 1..m PROVE Slot(Plus(y, k - 1)) = Slot(x + d + k - 1)
  <2>1. y + (k - 1) \in Nat /\ x \in Nat
    BY Sizes DEF Index
  <2>2. Slot((y + (k - 1)) % UINT) = Slot(y + (k - 1)) /\ Slot(y + (k - 1) + UINT) = Slot(y + (k - 1))
    BY <2>1, SlotFacts
  <2>3. x + d + k - 1 = y + (k - 1) \/ x + d + k - 1 = y + (k - 1) + UINT
    BY <1>1, <2>1, Sizes DEF Index
  <2> QED
    BY <2>2, <2>3, Zenon DEF Plus
<1> QED
  BY <1>1, <1>2, Zenon DEF Text, Walk

LEMMA TextTail ==
  ASSUME NEW b \in Buffers, NEW x \in Nat, NEW m \in Nat \ {0}
  PROVE  Text(b, x, m) # <<>> /\ Tail(Text(b, x, m)) = Text(b, x + 1, m - 1)
<1>1. /\ Text(b, x, m) \in Seq(Char) /\ Len(Text(b, x, m)) = m
      /\ \A k \in 1..m : Text(b, x, m)[k] = b[Slot(x + k - 1)]
  BY TextTyped
<1>2. /\ Text(b, x + 1, m - 1) \in Seq(Char) /\ Len(Text(b, x + 1, m - 1)) = m - 1
      /\ \A k \in 1..m - 1 : Text(b, x + 1, m - 1)[k] = b[Slot(x + 1 + k - 1)]
  <2>1. x + 1 \in Nat /\ m - 1 \in Nat
    OBVIOUS
  <2> QED
    BY <2>1, TextTyped, Zenon
<1>3. Text(b, x, m) # <<>>
  BY <1>1
<1>4. /\ Tail(Text(b, x, m)) \in Seq(Char) /\ Len(Tail(Text(b, x, m))) = m - 1
      /\ \A k \in 1..m - 1 : Tail(Text(b, x, m))[k] = Text(b, x, m)[k + 1]
  BY <1>1, <1>3, HeadTailProperties
<1>5. ASSUME NEW k \in 1..m - 1 PROVE Tail(Text(b, x, m))[k] = Text(b, x + 1, m - 1)[k]
  <2>1. k + 1 \in 1..m /\ x + (k + 1) - 1 = x + 1 + k - 1
    OBVIOUS
  <2> QED
    BY <1>1, <1>2, <1>4, <2>1, Zenon
<1>6. Tail(Text(b, x, m)) = Text(b, x + 1, m - 1)
  BY <1>2, <1>4, <1>5, SeqEqual, Zenon
<1> QED
  BY <1>3, <1>6

LEMMA TextFront ==
  ASSUME NEW b \in Buffers, NEW x \in Nat, NEW m \in Nat \ {0}
  PROVE  Text(b, x, m) # <<>> /\ SubSeq(Text(b, x, m), 1, m - 1) = Text(b, x, m - 1)
<1>1. /\ Text(b, x, m) \in Seq(Char) /\ Len(Text(b, x, m)) = m
      /\ \A k \in 1..m : Text(b, x, m)[k] = b[Slot(x + k - 1)]
  BY TextTyped
<1>2. /\ Text(b, x, m - 1) \in Seq(Char) /\ Len(Text(b, x, m - 1)) = m - 1
      /\ \A k \in 1..m - 1 : Text(b, x, m - 1)[k] = b[Slot(x + k - 1)]
  <2>1. m - 1 \in Nat
    OBVIOUS
  <2> QED
    BY <2>1, TextTyped, Zenon
<1> DEFINE f == SubSeq(Text(b, x, m), 1, m - 1)
<1>3. f \in Seq(Char) /\ Len(f) = m - 1 /\ \A k \in 1..m - 1 : f[k] = Text(b, x, m)[k]
  <2>1. \A k \in 1..m - 1 : Text(b, x, m)[k] \in Char
    BY <1>1
  <2>2. /\ f \in Seq(Char) /\ Len(f) = IF 1 <= m - 1 THEN m - 1 - 1 + 1 ELSE 0
        /\ \A k \in 1..m - 1 - 1 + 1 : f[k] = Text(b, x, m)[1 + k - 1]
    BY <2>1, SubSeqProperties
  <2>3. m - 1 - 1 + 1 = m - 1 /\ \A k \in 1..m - 1 : 1 + k - 1 = k
    OBVIOUS
  <2> HIDE DEF f
  <2> QED
    BY <2>2, <2>3
<1> HIDE DEF f
<1>4. ASSUME NEW k \in 1..m - 1 PROVE f[k] = Text(b, x, m - 1)[k]
  <2>1. k \in 1..m
    OBVIOUS
  <2> QED
    BY <1>1, <1>2, <1>3, <2>1, Zenon
<1>5. f = Text(b, x, m - 1)
  BY <1>2, <1>3, <1>4, SeqEqual
<1>6. Text(b, x, m) # <<>>
  BY <1>1
<1> QED
  BY <1>5, <1>6 DEF f

LEMMA TextConcat ==
  ASSUME NEW b \in Buffers, NEW x \in Nat, NEW m \in Nat, NEW l \in Nat
  PROVE  Text(b, x, m) \o Text(b, x + m, l) = Text(b, x, m + l)
<1>1. /\ Text(b, x, m) \in Seq(Char) /\ Len(Text(b, x, m)) = m
      /\ \A k \in 1..m : Text(b, x, m)[k] = b[Slot(x + k - 1)]
  BY TextTyped, Zenon
<1>2. /\ Text(b, x + m, l) \in Seq(Char) /\ Len(Text(b, x + m, l)) = l
      /\ \A k \in 1..l : Text(b, x + m, l)[k] = b[Slot(x + m + k - 1)]
  <2>1. x + m \in Nat
    OBVIOUS
  <2> QED
    BY <2>1, TextTyped, Zenon
<1>3. /\ Text(b, x, m + l) \in Seq(Char) /\ Len(Text(b, x, m + l)) = m + l
      /\ \A k \in 1..m + l : Text(b, x, m + l)[k] = b[Slot(x + k - 1)]
  <2>1. m + l \in Nat
    OBVIOUS
  <2> QED
    BY <2>1, TextTyped, Zenon
<1> DEFINE c == Text(b, x, m) \o Text(b, x + m, l)
<1>4. /\ c \in Seq(Char) /\ Len(c) = m + l
      /\ \A k \in 1..m + l : c[k] = IF k <= m THEN Text(b, x, m)[k] ELSE Text(b, x + m, l)[k - m]
  <2>1. /\ c \in Seq(Char) /\ Len(c) = Len(Text(b, x, m)) + Len(Text(b, x + m, l))
        /\ \A k \in 1..Len(Text(b, x, m)) + Len(Text(b, x + m, l)) :
             c[k] = IF k <= Len(Text(b, x, m)) THEN Text(b, x, m)[k]
                    ELSE Text(b, x + m, l)[k - Len(Text(b, x, m))]
    BY <1>1, <1>2, ConcatProperties, Zenon
  <2> HIDE DEF c
  <2>2. Len(Text(b, x, m)) = m /\ Len(Text(b, x + m, l)) = l
    BY <1>1, <1>2
  <2> QED
    BY <2>1, <2>2, Zenon
<1> HIDE DEF c
<1>5. ASSUME NEW k \in 1..m + l PROVE c[k] = Text(b, x, m + l)[k]
  <2>1. CASE k <= m
    <3>1. k \in 1..m
      BY <2>1
    <3> QED
      BY <1>1, <1>3, <1>4, <2>1, <3>1, Zenon
  <2>2. CASE ~(k <= m)
    <3>1. k - m \in 1..l /\ x + m + (k - m) - 1 = x + k - 1
      BY <2>2
    <3> QED
      BY <1>2, <1>3, <1>4, <2>2, <3>1, Zenon
  <2> QED
    BY <2>1, <2>2
<1>6. c = Text(b, x, m + l)
  BY <1>3, <1>4, <1>5, SeqEqual, Zenon
<1> QED
  BY <1>6 DEF c

\* b with the character c in place i
Put(b, i, c) == [b EXCEPT ![i] = c]

\* A character written behind a text leaves it alone, and is appended to it.
LEMMA TextWrite ==
  ASSUME NEW b \in Buffers, NEW x \in Nat, NEW m \in Nat, NEW y \in Nat,
         x + m <= y, y < x + INPUT_BUF_SIZE, NEW c \in Char
  PROVE  /\ Put(b, Slot(y), c) \in Buffers
         /\ Text(Put(b, Slot(y), c), x, m) = Text(b, x, m)
         /\ y = x + m => Text(Put(b, Slot(y), c), x, m + 1) = Append(Text(b, x, m), c)
<1> DEFINE b2 == Put(b, Slot(y), c)
<1>1. Slot(y) \in Slots
  BY SlotFacts
<1>2. b2 \in Buffers /\ b2[Slot(y)] = c /\ \A i \in Slots : i # Slot(y) => b2[i] = b[i]
  BY <1>1 DEF Buffers, Put
<1> HIDE DEF b2
<1>3. \A k \in 1..m : b2[Slot(x + k - 1)] = b[Slot(x + k - 1)]
  <2> SUFFICES ASSUME NEW k \in 1..m PROVE b2[Slot(x + k - 1)] = b[Slot(x + k - 1)]
    OBVIOUS
  <2>1. x + k - 1 \in Nat /\ x + k - 1 < y /\ y < x + k - 1 + INPUT_BUF_SIZE
    BY Sizes
  <2>2. Slot(x + k - 1) \in Slots /\ Slot(x + k - 1) # Slot(y)
    BY <2>1, SlotFacts, SlotsDiffer
  <2> QED
    BY <1>2, <2>2
<1>4. Text(b2, x, m) = Text(b, x, m)
  BY <1>3, Zenon DEF Text
<1>5. ASSUME y = x + m PROVE Text(b2, x, m + 1) = Append(Text(b, x, m), c)
  <2>1. /\ Text(b, x, m) \in Seq(Char) /\ Len(Text(b, x, m)) = m
        /\ \A k \in 1..m : Text(b, x, m)[k] = b[Slot(x + k - 1)]
    BY TextTyped, Zenon
  <2>2. /\ Text(b2, x, m + 1) \in Seq(Char) /\ Len(Text(b2, x, m + 1)) = m + 1
        /\ \A k \in 1..m + 1 : Text(b2, x, m + 1)[k] = b2[Slot(x + k - 1)]
    <3>1. m + 1 \in Nat
      OBVIOUS
    <3> QED
      BY <1>2, <3>1, TextTyped, Zenon
  <2> DEFINE a == Append(Text(b, x, m), c)
  <2>3. /\ a \in Seq(Char) /\ Len(a) = m + 1
        /\ \A k \in 1..m : a[k] = Text(b, x, m)[k]
        /\ a[m + 1] = c
    BY <2>1, AppendProperties
  <2> HIDE DEF a
  <2>4. ASSUME NEW k \in 1..m + 1 PROVE Text(b2, x, m + 1)[k] = a[k]
    <3>1. CASE k \in 1..m
      BY <1>3, <2>1, <2>2, <2>3, <3>1, Zenon
    <3>2. CASE k = m + 1
      <4>1. x + k - 1 = y
        BY <1>5, <3>2
      <4> QED
        BY <1>2, <2>2, <2>3, <3>2, <4>1, Zenon
    <3> QED
      BY <3>1, <3>2
  <2>5. Text(b2, x, m + 1) = a
    BY <2>2, <2>3, <2>4, SeqEqual, Zenon
  <2> QED
    BY <2>5 DEF a
<1> QED
  BY <1>2, <1>4, <1>5 DEF b2

----------------------------------------------------------------------------
(* What writing, erasing and reading do to the text between two counters *)

Between(b, x, y) == Walk(b, x, Minus(y, x))

LEMMA BetweenIsText ==
  ASSUME NEW b, NEW x \in Index, NEW y \in Index
  PROVE  Minus(y, x) \in Nat /\ Between(b, x, y) = Text(b, x, Minus(y, x))
<1>1. Minus(y, x) \in Nat /\ x \in Nat
  BY MinusNat
<1>2. Walk(b, x, Minus(y, x)) = Text(b, x + Minus(x, x), Minus(y, x))
  BY <1>1, TextBetween, Zenon
<1>3. x + Minus(x, x) = x
  BY <1>1, MinusSelf
<1> QED
  BY <1>1, <1>2, <1>3, Zenon DEF Between

LEMMA BetweenSecond ==
  ASSUME NEW b, NEW x \in Index, NEW y \in Index, NEW z \in Index
  PROVE  Between(b, y, z) = Text(b, x + Minus(y, x), Minus(z, y))
<1>1. Minus(z, y) \in Nat
  BY MinusNat
<1> QED
  BY <1>1, TextBetween, Zenon DEF Between

LEMMA BetweenTyped ==
  ASSUME NEW b \in Buffers, NEW x \in Index, NEW y \in Index
  PROVE  /\ Between(b, x, y) \in Seq(Char) /\ Len(Between(b, x, y)) = Minus(y, x)
         /\ Between(b, x, x) = <<>>
<1>1. x \in Nat
  BY Sizes DEF Index
<1>2. \A t \in Index : Between(b, x, t) \in Seq(Char) /\ Len(Between(b, x, t)) = Minus(t, x)
  <2> SUFFICES ASSUME NEW t \in Index
               PROVE  Between(b, x, t) \in Seq(Char) /\ Len(Between(b, x, t)) = Minus(t, x)
    OBVIOUS
  <2>1. Minus(t, x) \in Nat /\ Between(b, x, t) = Text(b, x, Minus(t, x))
    BY BetweenIsText
  <2>2. Text(b, x, Minus(t, x)) \in Seq(Char) /\ Len(Text(b, x, Minus(t, x))) = Minus(t, x)
    BY <1>1, <2>1, TextTyped
  <2> QED
    BY <2>1, <2>2, Zenon
<1>3. Between(b, x, x) \in Seq(Char) /\ Len(Between(b, x, x)) = 0
  BY <1>2, MinusSelf, Zenon
<1>4. Between(b, x, x) = <<>>
  BY <1>3
<1> QED
  BY <1>2, <1>4

LEMMA Taken ==
  ASSUME NEW b \in Buffers, NEW x \in Index, NEW y \in Index, x # y
  PROVE  /\ Between(b, x, y) # <<>>
         /\ Between(b, Plus(x, 1), y) = Tail(Between(b, x, y))
<1>1. /\ Minus(y, x) > 0 /\ Plus(x, 1) \in Index
      /\ Minus(y, Plus(x, 1)) = Minus(y, x) - 1
  BY MinusRest, Zenon
<1>2. Minus(y, x) \in Nat \ {0} /\ Minus(y, x) - 1 \in Nat /\ x \in Nat /\ Plus(x, 1) \in Nat
  <2>1. Minus(y, x) \in Index
    BY MinusFacts
  <2> QED
    BY <1>1, <2>1, Sizes DEF Index
<1>3. Plus(x, 1) = x + 1 \/ x + 1 = Plus(x, 1) + UINT
  <2>1. 1 \in Index
    BY Sizes DEF Index
  <2>2. Plus(x, 1) = x + 1 \/ Plus(x, 1) = x + 1 - UINT
    BY <2>1, PlusFacts
  <2> QED
    BY <1>2, <2>2, Sizes
<1>4. Text(b, x + 1, Minus(y, x) - 1) = Text(b, Plus(x, 1), Minus(y, x) - 1)
  <2>1. Text(b, Plus(x, 1) + UINT, Minus(y, x) - 1) = Text(b, Plus(x, 1), Minus(y, x) - 1)
    BY <1>2, TextWrap, Zenon
  <2> QED
    BY <1>3, <2>1, Zenon
<1>5. Between(b, x, y) = Text(b, x, Minus(y, x))
  BY BetweenIsText
<1>6. Between(b, Plus(x, 1), y) = Text(b, Plus(x, 1), Minus(y, x) - 1)
  BY <1>1, BetweenIsText, Zenon
<1>7. /\ Text(b, x, Minus(y, x)) # <<>>
      /\ Tail(Text(b, x, Minus(y, x))) = Text(b, x + 1, Minus(y, x) - 1)
  BY <1>2, TextTail, Zenon
<1> QED
  BY <1>4, <1>5, <1>6, <1>7, Zenon

LEMMA Erased ==
  ASSUME NEW b \in Buffers, NEW y \in Index, NEW z \in Index, z # y
  PROVE  /\ Minus(z, 1) \in Index /\ Minus(Minus(z, 1), y) = Minus(z, y) - 1
         /\ Between(b, y, z) # <<>>
         /\ Between(b, y, Minus(z, 1)) = SubSeq(Between(b, y, z), 1, Minus(z, y) - 1)
<1>1. Minus(z, y) \in Nat \ {0} /\ y \in Nat
  <2>1. Minus(z, y) > 0
    BY MinusRest
  <2>2. Minus(z, y) \in Index
    BY MinusFacts
  <2> QED
    BY <2>1, <2>2, Sizes DEF Index
<1>2. Minus(z, 1) \in Index /\ Minus(Minus(z, 1), y) = Minus(z, y) - 1
  <2>1. 1 \in 0..Minus(z, y)
    BY <1>1
  <2> QED
    BY <2>1, MinusBack
<1>3. Between(b, y, z) = Text(b, y, Minus(z, y))
  BY BetweenIsText
<1>4. Between(b, y, Minus(z, 1)) = Text(b, y, Minus(z, y) - 1)
  BY <1>2, BetweenIsText, Zenon
<1>5. /\ Text(b, y, Minus(z, y)) # <<>>
      /\ SubSeq(Text(b, y, Minus(z, y)), 1, Minus(z, y) - 1) = Text(b, y, Minus(z, y) - 1)
  BY <1>1, TextFront, Zenon
<1> QED
  BY <1>2, <1>3, <1>4, <1>5, Zenon

\* c is typed at z, behind the text that is complete (x to y) and the line being
\* typed (y to z).
TypedAt(b, x, y, z, c) ==
  /\ Put(b, Slot(z), c) \in Buffers /\ Plus(z, 1) \in Index
  /\ Minus(z, x) = Minus(y, x) + Minus(z, y)
  /\ Minus(Plus(z, 1), x) = Minus(y, x) + Minus(z, y) + 1
  /\ Minus(Plus(z, 1), y) = Minus(z, y) + 1
  /\ Between(Put(b, Slot(z), c), x, y) = Between(b, x, y)
  /\ Between(Put(b, Slot(z), c), y, Plus(z, 1)) = Append(Between(b, y, z), c)
  /\ Between(Put(b, Slot(z), c), x, Plus(z, 1))
       = Between(b, x, y) \o Append(Between(b, y, z), c)

LEMMA Typed ==
  ASSUME NEW b \in Buffers, NEW x \in Index, NEW y \in Index, NEW z \in Index, NEW c \in Char,
         Minus(y, x) + Minus(z, y) < INPUT_BUF_SIZE
  PROVE  TypedAt(b, x, y, z, c)
<1> DEFINE b2 == Put(b, Slot(z), c)
           z2 == Plus(z, 1)
           R == Minus(y, x)
           E == Minus(z, y)
           s == x + R + E
<1>1. R \in Nat /\ E \in Nat /\ R + E < INPUT_BUF_SIZE /\ x \in Nat
  BY MinusNat
<1>2. R + E < UINT /\ R + E < UINT - 1 /\ E < UINT - 1
  BY <1>1, Sizes
<1>3. Minus(z, x) = R + E
  BY <1>2, MinusSum, Zenon
<1>4. z2 \in Index /\ Minus(z2, x) = R + E + 1 /\ Minus(z2, y) = E + 1
  BY <1>2, <1>3, MinusNext
<1>5. Slot(z) = Slot(s)
  <2>1. x + Minus(z, x) = z \/ x + Minus(z, x) = z + UINT
    BY MinusFacts
  <2>2. x + Minus(z, x) = s /\ z \in Nat
    BY <1>1, <1>3, Sizes DEF Index
  <2>3. Slot(z + UINT) = Slot(z)
    BY <2>2, SlotFacts
  <2> QED
    BY <2>1, <2>2, <2>3, Zenon
<1>6. /\ s \in Nat /\ x + R \in Nat /\ x + R + E = s /\ R + (E + 1) = R + E + 1
      /\ x + R <= s /\ s < x + INPUT_BUF_SIZE
      /\ x + R + E <= s /\ s < x + R + INPUT_BUF_SIZE /\ E + 1 \in Nat
  BY <1>1, Sizes
<1> HIDE DEF R, E, s, z2
<1>7. b2 \in Buffers /\ Text(b2, x, R) = Text(b, x, R)
  <2>1. /\ Put(b, Slot(s), c) \in Buffers
        /\ Text(Put(b, Slot(s), c), x, R) = Text(b, x, R)
    BY <1>1, <1>6, TextWrite
  <2> QED
    BY <1>5, <2>1, Zenon
<1>8. Text(b2, x + R, E + 1) = Append(Text(b, x + R, E), c)
  <2>1. Text(Put(b, Slot(s), c), x + R, E + 1) = Append(Text(b, x + R, E), c)
    BY <1>1, <1>6, TextWrite
  <2> QED
    BY <1>5, <2>1, Zenon
<1> HIDE DEF b2
<1>9. Text(b2, x, R) \o Text(b2, x + R, E + 1) = Text(b2, x, R + E + 1)
  <2>1. Text(b2, x, R) \o Text(b2, x + R, E + 1) = Text(b2, x, R + (E + 1))
    <3>1. \A l \in Nat : Text(b2, x, R) \o Text(b2, x + R, l) = Text(b2, x, R + l)
      BY <1>1, <1>7, TextConcat, Zenon
    <3> QED
      BY <1>6, <3>1, Zenon
  <2> QED
    BY <1>6, <2>1, Zenon
<1>10. Between(b2, x, y) = Text(b2, x, R) /\ Between(b, x, y) = Text(b, x, R)
  BY BetweenIsText DEF R
<1>11. Between(b, y, z) = Text(b, x + R, E) /\ Between(b2, y, z2) = Text(b2, x + R, E + 1)
  <2>1. Between(b, y, z) = Text(b, x + Minus(y, x), Minus(z, y))
    BY BetweenSecond
  <2>2. Between(b2, y, z2) = Text(b2, x + Minus(y, x), Minus(z2, y))
    BY <1>4, BetweenSecond
  <2> QED
    BY <1>4, <2>1, <2>2, Zenon DEF R, E
<1>12. Between(b2, x, z2) = Text(b2, x, R + E + 1)
  BY <1>4, BetweenIsText, ZenonT(30)
<1>13. /\ b2 \in Buffers /\ z2 \in Index /\ Minus(z, x) = R + E
       /\ Minus(z2, x) = R + E + 1 /\ Minus(z2, y) = E + 1
       /\ Between(b2, x, y) = Between(b, x, y)
       /\ Between(b2, y, z2) = Append(Between(b, y, z), c)
       /\ Between(b2, x, z2) = Between(b, x, y) \o Append(Between(b, y, z), c)
  BY <1>3, <1>4, <1>7, <1>8, <1>9, <1>10, <1>11, <1>12, Zenon
<1> QED
  BY <1>13, Zenon DEF TypedAt, b2, z2, R, E

----------------------------------------------------------------------------
(* The inductive invariant *)

\* What is complete and what is being typed fit into the buffer; when it is full
\* all of it is complete.
RingInv ==
  /\ Minus(w, r) + Minus(e, w) <= INPUT_BUF_SIZE
  /\ Minus(w, r) + Minus(e, w) = INPUT_BUF_SIZE => e = w

Plain(t) == \A k \in 1..Len(t) : t[k] \notin {NL, EOT}

\* A character that completes a line is never in the line being typed.
LineInv == Plain(Between(buf, w, e))

\* cons.lock is held by the reader that is in its loop.
LockInv == \A p \in Readers : pc[p] = "read" <=> lock = p

\* A reader sleeps only while no line is complete.
SleepInv == \A p \in Readers : pc[p] = "asleep" => r = w

\* A read that wants all it was called for has nothing yet.
WantInv == \A p \in Readers : n[p] <= target[p] /\ (n[p] = target[p] => got[p] = <<>>)

\* The part of the invariant that is about the buffer.
TextInv ==
  r \in Index /\ w \in Index /\ e \in Index /\ buf \in Buffers /\ RingInv /\ LineInv

ReaderTypes ==
  /\ lock \in Readers \cup {Nobody}
  /\ pc \in [Readers -> {"idle", "lock", "read", "asleep"}]
  /\ n \in [Readers -> Nat] /\ target \in [Readers -> Nat]
  /\ got \in [Readers -> Seq(Char)]
  /\ result \in [Readers -> Seq(Char \cup {"killed"})]

LEMMA PlainFront ==
  ASSUME NEW t \in Seq(Char), t # <<>>, Plain(t)
  PROVE  Plain(SubSeq(t, 1, Len(t) - 1))
BY DEF Plain

LEMMA PlainAppend ==
  ASSUME NEW t \in Seq(Char), NEW c \in Char, Plain(t), c \notin {NL, EOT}
  PROVE  Plain(Append(t, c))
BY DEF Plain

LEMMA PlainEmpty == Plain(<<>>)
BY DEF Plain

\* The number of free places, and what the handler's test of it says.
LEMMA RoomLeft ==
  ASSUME TextInv
  PROVE  /\ Minus(e, r) = Minus(w, r) + Minus(e, w)
         /\ Minus(w, r) \in Nat /\ Minus(e, w) \in Nat
<1>1. Minus(w, r) \in Nat /\ Minus(e, w) \in Nat
  BY MinusNat DEF TextInv
<1>2. Minus(w, r) + Minus(e, w) < UINT
  BY <1>1, Sizes DEF TextInv, RingInv
<1> QED
  BY <1>1, <1>2, MinusSum DEF TextInv

LEMMA NoText ==
  ASSUME NEW b \in Buffers, NEW x \in Index
  PROVE  Between(b, x, x) = <<>> /\ Minus(x, x) = 0 /\ Plain(Between(b, x, x))
BY BetweenTyped, MinusSelf, PlainEmpty, Zenon

----------------------------------------------------------------------------
(* Each step preserves the invariant and is a step of the line buffer *)

Shown == <<Between(buf, r, w), Between(buf, w, e)>>

\* The line buffer's steps, on what the ring buffer holds
TypeStep(c) ==
  /\ Len(Between(buf, r, w)) + Len(Between(buf, w, e)) < INPUT_BUF_SIZE
  /\ IF c \in {NL, EOT}
        \/ Len(Between(buf, r, w)) + Len(Append(Between(buf, w, e), c)) = INPUT_BUF_SIZE
     THEN /\ Between(buf, r, w)' = Between(buf, r, w) \o Append(Between(buf, w, e), c)
          /\ Between(buf, w, e)' = <<>>
     ELSE /\ Between(buf, w, e)' = Append(Between(buf, w, e), c)
          /\ Between(buf, r, w)' = Between(buf, r, w)

EraseStep ==
  /\ Between(buf, w, e) # <<>>
  /\ Between(buf, w, e)' \in {SubSeq(Between(buf, w, e), 1, Len(Between(buf, w, e)) - 1), <<>>}
  /\ Between(buf, r, w)' = Between(buf, r, w)

TakeStep ==
  /\ Between(buf, r, w) # <<>>
  /\ Between(buf, r, w)' = Tail(Between(buf, r, w))
  /\ Between(buf, w, e)' = Between(buf, w, e)

LEMMA IntrCharText ==
  ASSUME TextInv, NEW c \in Char, IntrChar(c)
  PROVE  TextInv' /\ TypeStep(c)
<1> DEFINE b2 == Put(buf, Slot(e), c)
           e2 == Plus(e, 1)
           R == Minus(w, r)
           E == Minus(e, w)
<1>1. R \in Nat /\ E \in Nat /\ Minus(e, r) = R + E
  BY RoomLeft
<1>2. R + E < INPUT_BUF_SIZE
  BY <1>1 DEF IntrChar
<1>3. buf' = b2 /\ e' = e2 /\ r' = r
  BY DEF IntrChar, EditSlot, Put
<1>4. r \in Index /\ w \in Index /\ e \in Index /\ buf \in Buffers /\ Plain(Between(buf, w, e))
  BY DEF TextInv, LineInv
<1>5. /\ b2 \in Buffers /\ e2 \in Index
      /\ Minus(e2, r) = R + E + 1
      /\ Minus(e2, w) = E + 1
      /\ Between(b2, r, w) = Between(buf, r, w)
      /\ Between(b2, w, e2) = Append(Between(buf, w, e), c)
      /\ Between(b2, r, e2) = Between(buf, r, w) \o Append(Between(buf, w, e), c)
  <2>1. TypedAt(buf, r, w, e, c)
    BY <1>2, <1>4, Typed, Zenon
  <2> QED
    BY <2>1, Zenon DEF TypedAt
<1>6. /\ Between(buf, r, w) \in Seq(Char) /\ Len(Between(buf, r, w)) = R
      /\ Between(buf, w, e) \in Seq(Char) /\ Len(Between(buf, w, e)) = E
      /\ Len(Append(Between(buf, w, e), c)) = E + 1
  <2>1. /\ Between(buf, r, w) \in Seq(Char) /\ Len(Between(buf, r, w)) = R
        /\ Between(buf, w, e) \in Seq(Char) /\ Len(Between(buf, w, e)) = E
    BY <1>4, BetweenTyped
  <2> QED
    BY <2>1, AppendProperties
<1>7. /\ Completes(c, e2) <=> c \in {NL, EOT} \/ R + E + 1 = INPUT_BUF_SIZE
      /\ Completes(c, e2) => w' = e2
      /\ ~Completes(c, e2) => w' = w
  BY <1>5 DEF IntrChar, Completes
<1> HIDE DEF b2, e2, R, E
<1>8. Between(b2, e2, e2) = <<>> /\ Minus(e2, e2) = 0 /\ Plain(Between(b2, e2, e2))
  BY <1>5, NoText
<1>9. /\ Between(buf, r, w)' = Between(b2, r, w') /\ Between(buf, w, e)' = Between(b2, w', e2)
      /\ Minus(w, r)' = Minus(w', r) /\ Minus(e, w)' = Minus(e2, w')
  BY <1>3
<1>10. R + (E + 1) = R + E + 1 /\ R + E + 1 + 0 <= INPUT_BUF_SIZE
  BY <1>1, <1>2, Sizes
<1>11. CASE Completes(c, e2)
  <2>1. w' = e2
    BY <1>7, <1>11, SMTT(30)
  <2>2. RingInv'
    BY <1>5, <1>8, <1>9, <1>10, <1>3, <2>1, SMTT(30) DEF RingInv
  <2>3. LineInv'
    BY <1>8, <1>9, <2>1, Zenon DEF LineInv
  <2>4. TextInv'
    BY <1>3, <1>4, <1>5, <2>1, <2>2, <2>3, Zenon DEF TextInv
  <2>5. c \in {NL, EOT} \/ R + (E + 1) = INPUT_BUF_SIZE
    BY <1>7, <1>10, <1>11, Zenon
  <2>6. /\ Between(buf, r, w)' = Between(buf, r, w) \o Append(Between(buf, w, e), c)
        /\ Between(buf, w, e)' = <<>>
    BY <1>5, <1>8, <1>9, <2>1, Zenon
  <2> QED
    BY <1>2, <1>6, <2>4, <2>5, <2>6, Zenon DEF TypeStep
<1>12. CASE ~Completes(c, e2)
  <2>1. w' = w
    BY <1>7, <1>12
  <2>2. ~(c \in {NL, EOT} \/ R + (E + 1) = INPUT_BUF_SIZE)
    BY <1>7, <1>10, <1>12, Zenon
  <2>3. RingInv'
    <3>1. Minus(w, r)' = R /\ Minus(e, w)' = E + 1
      BY <1>5, <1>9, <2>1 DEF R
    <3> QED
      BY <1>1, <1>2, <2>2, <3>1, Sizes, SMTT(30) DEF RingInv
  <2>4. LineInv'
    <3>1. Plain(Append(Between(buf, w, e), c))
      BY <1>4, <1>6, <2>2, PlainAppend
    <3> QED
      BY <1>5, <1>9, <2>1, <3>1, Zenon DEF LineInv
  <2>5. TextInv'
    BY <1>3, <1>4, <1>5, <2>1, <2>3, <2>4, Zenon DEF TextInv
  <2>6. /\ Between(buf, w, e)' = Append(Between(buf, w, e), c)
        /\ Between(buf, r, w)' = Between(buf, r, w)
    BY <1>5, <1>9, <2>1, Zenon
  <2> QED
    BY <1>2, <1>6, <2>2, <2>5, <2>6, Zenon DEF TypeStep
<1> QED
  BY <1>11, <1>12

LEMMA IntrEraseText ==
  ASSUME TextInv, IntrErase
  PROVE  TextInv' /\ EraseStep
<1> DEFINE e2 == Minus(e, 1)
           E == Minus(e, w)
<1>1. r \in Index /\ w \in Index /\ e \in Index /\ buf \in Buffers /\ Plain(Between(buf, w, e))
  BY DEF TextInv, LineInv
<1>2. e # w /\ buf' = buf /\ r' = r /\ w' = w /\ e' = e2
  BY DEF IntrErase, Erasable
<1>3. /\ e2 \in Index /\ Minus(e2, w) = E - 1 /\ Between(buf, w, e) # <<>>
      /\ Between(buf, w, e2) = SubSeq(Between(buf, w, e), 1, E - 1)
  BY <1>1, <1>2, Erased
<1>4. Between(buf, w, e) \in Seq(Char) /\ Len(Between(buf, w, e)) = E
  BY <1>1, BetweenTyped
<1>5. Minus(w, r) \in Nat /\ E \in Nat /\ Minus(w, r) + E <= INPUT_BUF_SIZE
  BY RoomLeft DEF TextInv, RingInv
<1> HIDE DEF e2, E
<1>6. Between(buf, w, e)' = Between(buf, w, e2) /\ Between(buf, r, w)' = Between(buf, r, w)
  BY <1>2
<1>7. RingInv'
  <2>1. Minus(w, r)' = Minus(w, r) /\ Minus(e, w)' = E - 1
    BY <1>2, <1>3
  <2> QED
    BY <1>5, <2>1, Sizes DEF RingInv
<1>8. LineInv'
  <2>1. Plain(SubSeq(Between(buf, w, e), 1, E - 1))
    BY <1>1, <1>3, <1>4, PlainFront
  <2> QED
    BY <1>3, <1>6, <2>1, Zenon DEF LineInv
<1>9. TextInv'
  BY <1>1, <1>2, <1>3, <1>7, <1>8, Zenon DEF TextInv
<1> QED
  BY <1>3, <1>4, <1>6, <1>9, Zenon DEF EraseStep

\* Nothing in the line being typed stops ^U before it is all gone.
LEMMA KillsLine ==
  ASSUME TextInv
  PROVE  KillCount = Minus(e, w) /\ Minus(e, KillCount) = w
<1> DEFINE E == Minus(e, w)
           stops(k) == Minus(e, k) = w \/ buf[Slot(Minus(e, k + 1))] = NL
<1>1. r \in Index /\ w \in Index /\ e \in Index /\ buf \in Buffers /\ Plain(Between(buf, w, e))
  BY DEF TextInv, LineInv
<1>2. E \in Nat /\ E <= INPUT_BUF_SIZE /\ E \in 0..E
  BY RoomLeft, Sizes DEF TextInv, RingInv
<1>3. Minus(e, E) = w
  BY <1>1, <1>2, MinusBack
<1>4. ASSUME NEW j \in 0..E - 1 PROVE ~stops(j)
  <2>1. j \in 0..E /\ j + 1 \in 0..E /\ j # E /\ j + 1 # 0
    BY <1>2
  <2>2. Minus(e, j) # w
    BY <1>1, <2>1, MinusBack
  <2>3. Minus(e, j + 1) \in Index /\ Minus(Minus(e, j + 1), w) = E - (j + 1)
    BY <1>1, <2>1, MinusBack
  <2>4. E - (j + 1) \in Nat /\ E - j \in 1..E /\ w \in Nat /\ w + (E - j) - 1 = w + (E - (j + 1))
    BY <1>1, <1>2, Sizes DEF Index
  <2>5. Slot(Minus(e, j + 1)) = Slot(w + (E - (j + 1)))
    <3> DEFINE m == Minus(e, j + 1)
    <3>1. m \in Index /\ m \in Nat
      BY <2>3, Sizes DEF Index
    <3>2. w + Minus(m, w) = m \/ w + Minus(m, w) = m + UINT
      BY <1>1, <3>1, MinusFacts
    <3>3. Slot(m + UINT) = Slot(m)
      BY <3>1, SlotFacts
    <3> QED
      BY <2>3, <3>2, <3>3, Zenon
  <2>6. Between(buf, w, e)[E - j] = buf[Slot(w + (E - (j + 1)))]
    <3>1. Between(buf, w, e) = Text(buf, w, E)
      BY <1>1, BetweenIsText
    <3>2. \A k \in 1..E : Text(buf, w, E)[k] = buf[Slot(w + k - 1)]
      BY <1>1, <1>2, <2>4, TextTyped, Zenon
    <3> QED
      BY <2>4, <3>1, <3>2, Zenon
  <2>7. Between(buf, w, e)[E - j] \notin {NL, EOT}
    <3>1. Len(Between(buf, w, e)) = E
      BY <1>1, BetweenTyped
    <3> QED
      BY <1>1, <2>4, <3>1, Zenon DEF Plain
  <2> QED
    BY <2>2, <2>5, <2>6, <2>7, Zenon
<1>5. stops(E) /\ E \in 0..INPUT_BUF_SIZE
  BY <1>2, <1>3, Sizes
<1>6. ASSUME NEW k \in 0..INPUT_BUF_SIZE, stops(k), \A j \in 0..k - 1 : ~stops(j) PROVE k = E
  <2> HIDE DEF stops, E
  <2>1. k \notin 0..E - 1
    BY <1>4, <1>6
  <2>2. E \notin 0..k - 1
    BY <1>5, <1>6
  <2> QED
    BY <1>2, <2>1, <2>2
<1>7. KillCount = CHOOSE k \in 0..INPUT_BUF_SIZE : stops(k) /\ \A j \in 0..k - 1 : ~stops(j)
  BY Zenon DEF KillCount
<1> HIDE DEF stops, E
<1>8. KillCount = E
  <2>1. \E k \in 0..INPUT_BUF_SIZE : stops(k) /\ \A j \in 0..k - 1 : ~stops(j)
    BY <1>4, <1>5, Zenon
  <2>2. /\ KillCount \in 0..INPUT_BUF_SIZE /\ stops(KillCount)
        /\ \A j \in 0..KillCount - 1 : ~stops(j)
    BY <1>7, <2>1, Zenon
  <2> QED
    BY <1>6, <2>2, Zenon
<1> QED
  BY <1>3, <1>8, Zenon DEF E

LEMMA IntrKillText ==
  ASSUME TextInv, IntrKill
  PROVE  TextInv' /\ (EraseStep \/ UNCHANGED Shown)
<1>1. r \in Index /\ w \in Index /\ e \in Index /\ buf \in Buffers
  BY DEF TextInv
<1>2. buf' = buf /\ r' = r /\ w' = w /\ e' = w
  BY KillsLine DEF IntrKill
<1>3. Between(buf, w, w) = <<>> /\ Minus(w, w) = 0 /\ Plain(Between(buf, w, w))
  BY <1>1, NoText
<1>4. Between(buf, w, e)' = Between(buf, w, w) /\ Between(buf, r, w)' = Between(buf, r, w)
  BY <1>2
<1>5. RingInv'
  <2>1. Minus(w, r)' = Minus(w, r) /\ Minus(e, w)' = 0 /\ w' = e'
    BY <1>2, <1>3
  <2>2. Minus(w, r) \in Nat /\ Minus(e, w) \in Nat
    BY RoomLeft
  <2> QED
    BY <2>1, <2>2, Sizes DEF RingInv, TextInv
<1>6. LineInv'
  BY <1>3, <1>4, Zenon DEF LineInv
<1>7. TextInv'
  BY <1>1, <1>2, <1>5, <1>6, Zenon DEF TextInv
<1>8. CASE Between(buf, w, e) = <<>>
  BY <1>3, <1>4, <1>7, <1>8, Zenon DEF Shown
<1>9. CASE Between(buf, w, e) # <<>>
  BY <1>3, <1>4, <1>7, <1>9, Zenon DEF EraseStep
<1> QED
  BY <1>8, <1>9

\* A character is taken out of what is complete.
LEMMA TakeText ==
  ASSUME TextInv, r # w, r' = Plus(r, 1), UNCHANGED <<buf, w, e>>
  PROVE  TextInv' /\ TakeStep
<1>1. r \in Index /\ w \in Index /\ e \in Index /\ buf \in Buffers
  BY DEF TextInv
<1>2. /\ Minus(w, r) > 0 /\ Plus(r, 1) \in Index
      /\ Minus(w, Plus(r, 1)) = Minus(w, r) - 1
  BY <1>1, MinusRest, Zenon
<1>3. /\ Between(buf, r, w) # <<>>
      /\ Between(buf, Plus(r, 1), w) = Tail(Between(buf, r, w))
  BY <1>1, Taken
<1>4. /\ Between(buf, r, w)' = Between(buf, Plus(r, 1), w)
      /\ Between(buf, w, e)' = Between(buf, w, e)
  OBVIOUS
<1>5. RingInv'
  <2>1. Minus(w, r)' = Minus(w, r) - 1 /\ Minus(e, w)' = Minus(e, w)
    BY <1>2
  <2>2. Minus(w, r) \in Nat /\ Minus(e, w) \in Nat
    BY RoomLeft
  <2> QED
    BY <1>2, <2>1, <2>2, Sizes DEF RingInv, TextInv
<1>6. LineInv'
  BY <1>4, Zenon DEF LineInv, TextInv
<1>7. TextInv'
  BY <1>1, <1>2, <1>5, <1>6, Zenon DEF TextInv
<1> QED
  BY <1>3, <1>4, <1>7, Zenon DEF TakeStep

LEMMA SameText ==
  ASSUME TextInv, UNCHANGED cons
  PROVE  TextInv' /\ UNCHANGED Shown
<1>1. buf' = buf /\ r' = r /\ w' = w /\ e' = e
  BY DEF cons
<1>2. TextInv'
  BY <1>1 DEF TextInv, RingInv, LineInv
<1> QED
  BY <1>1, <1>2 DEF Shown

----------------------------------------------------------------------------
(* The readers *)

ReaderInv == ReaderTypes /\ LockInv /\ SleepInv /\ WantInv

\* consoleintr() wakes every sleeper when it completes a line.
LEMMA IntrCharReaders ==
  ASSUME ReaderInv, NEW c \in Char, IntrChar(c)
  PROVE  ReaderInv'
<1>1. /\ lock' = lock /\ n' = n /\ target' = target /\ got' = got /\ result' = result /\ r' = r
      /\ pc' = WakeReaders \/ (pc' = pc /\ w' = w)
  BY DEF IntrChar
<1>2. /\ pc' \in [Readers -> {"idle", "lock", "read", "asleep"}]
      /\ \A p \in Readers : pc'[p] = "read" <=> pc[p] = "read"
      /\ \A p \in Readers : pc'[p] = "asleep" => pc[p] = "asleep" /\ w' = w
  BY <1>1 DEF WakeReaders, ReaderInv, ReaderTypes
<1>3. ReaderTypes' /\ WantInv'
  BY <1>1, <1>2, Zenon DEF ReaderInv, ReaderTypes, WantInv
<1>4. LockInv' /\ SleepInv'
  BY <1>1, <1>2, Zenon DEF ReaderInv, LockInv, SleepInv
<1> QED
  BY <1>3, <1>4 DEF ReaderInv

LEMMA IntrEditReaders ==
  ASSUME ReaderInv, IntrErase \/ IntrKill
  PROVE  ReaderInv'
<1>1. UNCHANGED <<r, w, lock, pc, n, target, got, result>>
  BY DEF IntrErase, IntrKill
<1> QED
  BY <1>1 DEF ReaderInv, ReaderTypes, LockInv, SleepInv, WantInv

LEMMA CallReaders ==
  ASSUME ReaderInv, NEW p \in Readers, NEW k \in 0..MaxN, Call(p, k)
  PROVE  ReaderInv'
<1>1. k \in Nat
  BY ConsoleAssumption
<1>2. r' = r /\ w' = w /\ lock' = lock /\ result' = result /\ pc[p] = "idle"
  BY DEF Call, cons
<1>3. /\ pc' = [pc EXCEPT ![p] = "lock"]
      /\ n' = [n EXCEPT ![p] = k] /\ target' = [target EXCEPT ![p] = k]
      /\ got' = [got EXCEPT ![p] = <<>>]
  BY DEF Call
<1>4. ReaderTypes'
  BY <1>1, <1>2, <1>3, SMTT(30) DEF ReaderInv, ReaderTypes
<1>5. LockInv' /\ SleepInv'
  BY <1>2, <1>3 DEF ReaderInv, ReaderTypes, LockInv, SleepInv
<1>6. WantInv'
  BY <1>1, <1>3 DEF ReaderInv, ReaderTypes, WantInv
<1> QED
  BY <1>4, <1>5, <1>6 DEF ReaderInv

LEMMA LockReaders ==
  ASSUME ReaderInv, NEW p \in Readers, Lock(p)
  PROVE  ReaderInv'
<1>1. /\ r' = r /\ w' = w /\ lock' = p /\ lock = Nobody
      /\ n' = n /\ target' = target /\ got' = got /\ result' = result
      /\ pc' = [pc EXCEPT ![p] = "read"]
  BY DEF Lock, cons
<1>2. ReaderTypes' /\ SleepInv' /\ WantInv'
  BY <1>1 DEF ReaderInv, ReaderTypes, SleepInv, WantInv
<1>3. LockInv'
  BY <1>1, ConsoleAssumption DEF ReaderInv, ReaderTypes, LockInv
<1> QED
  BY <1>2, <1>3 DEF ReaderInv

\* kkill()
LEMMA KillReaders ==
  ASSUME ReaderInv, NEW p \in Readers, Kill(p)
  PROVE  ReaderInv'
<1>1. /\ r' = r /\ w' = w /\ lock' = lock /\ pc[p] = "asleep"
      /\ n' = n /\ target' = target /\ got' = got /\ result' = result
      /\ pc' = [pc EXCEPT ![p] = "lock"]
  BY DEF Kill, cons
<1>2. ReaderTypes' /\ WantInv'
  BY <1>1, Zenon DEF ReaderInv, ReaderTypes, WantInv
<1>3. LockInv' /\ SleepInv'
  BY <1>1 DEF ReaderInv, ReaderTypes, LockInv, SleepInv
<1> QED
  BY <1>2, <1>3 DEF ReaderInv

\* A reader leaves its loop; whether it has moved cons.r or not, nobody sleeps on
\* a complete line.
LEMMA ReturnReaders ==
  ASSUME ReaderInv, NEW p \in Readers, pc[p] = "read",
         NEW res \in Seq(Char \cup {"killed"}), Return(p, res),
         w' = w, r' = r \/ r # w
  PROVE  ReaderInv'
<1>1. /\ lock' = Nobody /\ pc' = [pc EXCEPT ![p] = "idle"]
      /\ result' = [result EXCEPT ![p] = res]
      /\ n' = [n EXCEPT ![p] = 0] /\ target' = [target EXCEPT ![p] = 0]
      /\ got' = [got EXCEPT ![p] = <<>>]
  BY DEF Return
<1>2. ReaderTypes'
  BY <1>1, SMTT(30) DEF ReaderInv, ReaderTypes
<1>3. LockInv' /\ SleepInv'
  BY <1>1, ConsoleAssumption DEF ReaderInv, ReaderTypes, LockInv, SleepInv
<1>4. WantInv'
  BY <1>1 DEF ReaderInv, ReaderTypes, WantInv
<1> QED
  BY <1>2, <1>3, <1>4 DEF ReaderInv

LEMMA GotIsResult ==
  ASSUME ReaderInv, NEW p \in Readers
  PROVE  got[p] \in Seq(Char) /\ got[p] \in Seq(Char \cup {"killed"})
BY SeqMonotonic DEF ReaderInv, ReaderTypes

LEMMA ReadAllReaders ==
  ASSUME ReaderInv, NEW p \in Readers, ReadAll(p)
  PROVE  ReaderInv'
BY GotIsResult, ReturnReaders DEF ReadAll, cons

LEMMA ReadWaitReaders ==
  ASSUME ReaderInv, NEW p \in Readers, ReadWait(p)
  PROVE  ReaderInv'
<1>1. pc[p] = "read" /\ r = w /\ r' = r /\ w' = w
  BY DEF ReadWait, cons
<1>2. CASE Return(p, <<"killed">>)
  <2>1. <<"killed">> \in Seq(Char \cup {"killed"})
    OBVIOUS
  <2> QED
    BY <1>1, <1>2, <2>1, ReturnReaders, Zenon
<1>3. CASE /\ lock' = Nobody
           /\ pc' = [pc EXCEPT ![p] = "asleep"]
           /\ UNCHANGED <<n, target, got, result>>
  <2>1. ReaderTypes' /\ WantInv'
    BY <1>3, SMTT(30) DEF ReaderInv, ReaderTypes, WantInv
  <2>2. LockInv' /\ SleepInv'
    BY <1>1, <1>3, ConsoleAssumption, SMTT(30) DEF ReaderInv, ReaderTypes, LockInv, SleepInv
  <2> QED
    BY <2>1, <2>2 DEF ReaderInv
<1> QED
  BY <1>2, <1>3 DEF ReadWait

LEMMA ReadEotReaders ==
  ASSUME ReaderInv, NEW p \in Readers, ReadEot(p)
  PROVE  ReaderInv'
BY GotIsResult, ReturnReaders DEF ReadEot

LEMMA ReadCharReaders ==
  ASSUME TextInv, ReaderInv, NEW p \in Readers, ReadChar(p)
  PROVE  ReaderInv'
<1> DEFINE c == buf[Slot(r)]
<1>1. pc[p] = "read" /\ n[p] > 0 /\ r # w /\ w' = w
  BY DEF ReadChar
<1>2. c \in Char
  <2>1. r \in Nat /\ buf \in Buffers
    BY Sizes DEF TextInv, Index
  <2>2. Slot(r) \in Slots
    BY <2>1, SlotFacts
  <2> QED
    BY <2>1, <2>2 DEF Buffers
<1>3. got[p] \in Seq(Char) /\ got[p] \in Seq(Char \cup {"killed"})
  BY GotIsResult
<1> HIDE DEF c
<1>4. CASE Return(p, got[p])
  BY <1>1, <1>3, <1>4, ReturnReaders
<1>5. CASE Return(p, Append(got[p], c))
  <2>1. Append(got[p], c) \in Seq(Char \cup {"killed"})
    BY <1>2, <1>3
  <2> QED
    BY <1>1, <1>5, <2>1, ReturnReaders, Zenon
<1>6. CASE /\ n' = [n EXCEPT ![p] = @ - 1]
           /\ got' = [got EXCEPT ![p] = Append(@, c)]
           /\ UNCHANGED <<lock, pc, target, result>>
  <2>1. ReaderTypes'
    BY <1>1, <1>2, <1>6, SMTT(30) DEF ReaderInv, ReaderTypes
  <2>2. LockInv' /\ SleepInv'
    BY <1>1, <1>6 DEF ReaderInv, LockInv, SleepInv
  <2>3. WantInv'
    BY <1>1, <1>6, SMTT(30) DEF ReaderInv, ReaderTypes, WantInv
  <2> QED
    BY <2>1, <2>2, <2>3, SMTT(30) DEF ReaderInv
<1> QED
  BY <1>4, <1>5, <1>6 DEF ReadChar, c

LEMMA StutterReaders ==
  ASSUME ReaderInv, UNCHANGED vars
  PROVE  ReaderInv'
BY DEF vars, ReaderInv, ReaderTypes, LockInv, SleepInv, WantInv

----------------------------------------------------------------------------
(* The theorems *)

\* A step of the line buffer, or one it does not see
LineStep == (\E c \in Char : TypeStep(c)) \/ EraseStep \/ TakeStep \/ UNCHANGED Shown

LEMMA IInvInit == Init => TextInv /\ ReaderInv /\ Between(buf, r, w) = <<>> /\ Between(buf, w, e) = <<>>
<1> SUFFICES ASSUME Init
             PROVE  TextInv /\ ReaderInv /\ Between(buf, r, w) = <<>> /\ Between(buf, w, e) = <<>>
  OBVIOUS
<1>1. r = 0 /\ w = 0 /\ e = 0 /\ 0 \in Index
  BY Sizes DEF Init, Index
<1>2. buf \in Buffers
  BY ConsoleAssumption DEF Init, Buffers, Slots
<1>3. Between(buf, 0, 0) = <<>> /\ Minus(0, 0) = 0 /\ Plain(Between(buf, 0, 0))
  BY <1>1, <1>2, NoText
<1>4. TextInv
  <2>1. RingInv
    BY <1>1, <1>3, Sizes DEF RingInv
  <2>2. LineInv
    BY <1>1, <1>3 DEF LineInv
  <2> QED
    BY <1>1, <1>2, <2>1, <2>2 DEF TextInv
<1>5. ReaderInv
  <2>1. ReaderTypes /\ WantInv
    BY DEF Init, ReaderTypes, WantInv
  <2>2. LockInv /\ SleepInv
    BY ConsoleAssumption DEF Init, LockInv, SleepInv
  <2> QED
    BY <2>1, <2>2 DEF ReaderInv
<1> QED
  BY <1>1, <1>3, <1>4, <1>5

LEMMA IInvStep == TextInv /\ ReaderInv /\ [Next]_vars => TextInv' /\ ReaderInv' /\ LineStep
<1> SUFFICES ASSUME TextInv, ReaderInv, [Next]_vars
             PROVE  TextInv' /\ ReaderInv' /\ LineStep
  OBVIOUS
<1>1. ASSUME NEW c \in Char, IntrChar(c) PROVE TextInv' /\ ReaderInv' /\ LineStep
  BY <1>1, IntrCharText, IntrCharReaders DEF LineStep
<1>2. CASE IntrErase
  BY <1>2, IntrEraseText, IntrEditReaders DEF LineStep
<1>3. CASE IntrKill
  BY <1>3, IntrKillText, IntrEditReaders DEF LineStep
<1>4. ASSUME NEW p \in Readers, Kill(p) PROVE TextInv' /\ ReaderInv' /\ LineStep
  <2>1. UNCHANGED cons
    BY <1>4 DEF Kill
  <2> QED
    BY <1>4, <2>1, SameText, KillReaders DEF LineStep
<1>5. ASSUME NEW p \in Readers, NEW k \in 0..MaxN, Call(p, k)
      PROVE  TextInv' /\ ReaderInv' /\ LineStep
  <2>1. UNCHANGED cons
    BY <1>5 DEF Call
  <2> QED
    BY <1>5, <2>1, SameText, CallReaders, SMTT(30) DEF LineStep
<1>6. ASSUME NEW p \in Readers, Read(p) PROVE TextInv' /\ ReaderInv' /\ LineStep
  <2>1. CASE Lock(p)
    <3>1. UNCHANGED cons
      BY <2>1, SMTT(30) DEF Lock
    <3> QED
      BY <2>1, <3>1, SameText, LockReaders DEF LineStep
  <2>2. CASE ReadAll(p)
    <3>1. UNCHANGED cons
      BY <2>2, SMTT(30) DEF ReadAll
    <3> QED
      BY <2>2, <3>1, SameText, ReadAllReaders DEF LineStep
  <2>3. CASE ReadWait(p)
    <3>1. UNCHANGED cons
      BY <2>3 DEF ReadWait
    <3> QED
      BY <2>3, <3>1, SameText, ReadWaitReaders DEF LineStep
  <2>4. CASE ReadEot(p)
    <3>1. TextInv' /\ LineStep
      <4>1. CASE GivesBack(p)
        <5>1. UNCHANGED cons
          BY <2>4, <4>1 DEF ReadEot, cons
        <5> QED
          BY <5>1, SameText, SMTT(30) DEF LineStep
      <4>2. CASE ~GivesBack(p)
        <5>1. r # w /\ r' = Plus(r, 1) /\ UNCHANGED <<buf, w, e>>
          BY <2>4, <4>2 DEF ReadEot
        <5> QED
          BY <5>1, TakeText DEF LineStep
      <4> QED
        BY <4>1, <4>2
    <3> QED
      BY <2>4, <3>1, ReadEotReaders
  <2>5. CASE ReadChar(p)
    <3>1. r # w /\ r' = Plus(r, 1) /\ UNCHANGED <<buf, w, e>>
      BY <2>5 DEF ReadChar
    <3> QED
      BY <2>5, <3>1, TakeText, ReadCharReaders, SMTT(30) DEF LineStep
  <2> QED
    BY <1>6, <2>1, <2>2, <2>3, <2>4, <2>5, SMTT(30) DEF Read
<1>7. CASE UNCHANGED vars
  <2>1. UNCHANGED cons
    BY <1>7 DEF vars, cons
  <2> QED
    BY <1>7, <2>1, SameText, StutterReaders, SMTT(30) DEF LineStep
<1> QED
  BY <1>1, <1>2, <1>3, <1>4, <1>5, <1>6, <1>7, ZenonT(30) DEF Next

LEMMA ConsoleInv == Spec => [](TextInv /\ ReaderInv)
<1>1. Init => TextInv /\ ReaderInv
  BY IInvInit
<1>2. TextInv /\ ReaderInv /\ [Next]_vars => (TextInv /\ ReaderInv)'
  BY IInvStep
<1> QED
  BY <1>1, <1>2, PTL DEF Spec

\* No lost wakeup, for any number of readers and any buffer: while a process
\* sleeps in consoleread() no line is complete and the buffer is not full.
THEOREM ConsoleNoLostWakeup == Spec => []NoLostWakeup
<1>1. TextInv /\ ReaderInv => NoLostWakeup
  <2> SUFFICES ASSUME TextInv, ReaderInv, NEW p \in Readers, pc[p] = "asleep"
               PROVE  r = w /\ Minus(e, r) < INPUT_BUF_SIZE
    BY DEF NoLostWakeup
  <2>1. r = w
    BY DEF ReaderInv, SleepInv
  <2>2. Minus(w, r) = 0
    BY <2>1, MinusSelf DEF TextInv
  <2>3. Minus(e, r) = Minus(w, r) + Minus(e, w) /\ Minus(e, w) \in Nat
    BY RoomLeft
  <2>4. e = w => Minus(e, w) = 0
    BY MinusSelf DEF TextInv
  <2> QED
    BY <2>1, <2>2, <2>3, <2>4, Sizes, SMTT(30) DEF TextInv, RingInv
<1> QED
  BY <1>1, ConsoleInv, PTL

\* consoleread() gives ^D back to the buffer unless the caller gets a 0-byte
\* result, whatever the readers and the keyboard do.
THEOREM ConsoleEofSeen == Spec => EofSeen
<1> DEFINE Seen == \A p \in Readers :
                     r' # r /\ buf[Slot(r)] = EOT /\ lock = p => result'[p] = <<>>
<1>1. TextInv /\ ReaderInv /\ [Next]_vars => [Seen]_vars
  <2> SUFFICES ASSUME TextInv, ReaderInv, Next, NEW p \in Readers,
                      r' # r, buf[Slot(r)] = EOT, lock = p
               PROVE  result'[p] = <<>>
    BY ZenonT(30)
  <2>1. PICK q \in Readers : ReadEot(q) \/ ReadChar(q)
    BY DEF Next, IntrChar, IntrErase, IntrKill, Read, Kill, Call, Lock, ReadAll, ReadWait, cons
  <2>2. ReadEot(q)
    BY <2>1 DEF ReadChar
  <2>3. q = p
    BY <2>2 DEF ReadEot, ReaderInv, LockInv
  <2>4. ~GivesBack(p)
    BY <2>2, <2>3 DEF ReadEot
  <2>5. got[p] = <<>>
    BY <2>4 DEF GivesBack, ReaderInv, ReaderTypes, WantInv
  <2>6. result' = [result EXCEPT ![p] = got[p]]
    BY <2>2, <2>3 DEF ReadEot, Return
  <2> QED
    BY <2>5, <2>6 DEF ReaderInv, ReaderTypes
<1> QED
  BY <1>1, ConsoleInv, PTL DEF Spec, EofSeen

\* consoleintr() and consoleread() on the ring buffer with its wrapping counters
\* implement the line buffer: a character can be taken back only while its line is
\* being typed, and complete lines are read in order, every character once.
THEOREM ConsoleIsLineBuffer == Spec => IsLineBuffer
<1>1. Contents(r, w) = Between(buf, r, w) /\ Contents(w, e) = Between(buf, w, e)
  BY Zenon DEF Contents, Between, Walk
<1>2. Init => Lines!Init
  BY <1>1, IInvInit DEF Lines!Init
<1>3. TextInv /\ ReaderInv /\ [Next]_vars => [Lines!Next]_(Lines!vars)
  <2> SUFFICES ASSUME LineStep PROVE [Lines!Next]_(Lines!vars)
    BY IInvStep
  <2>1. /\ Contents(r, w)' = Between(buf, r, w)' /\ Contents(w, e)' = Between(buf, w, e)'
    BY Zenon DEF Contents, Between, Walk
  <2>2. ASSUME NEW c \in Char, TypeStep(c) PROVE Lines!Type(c)
    BY <1>1, <2>1, <2>2, Zenon DEF TypeStep, Lines!Type, Lines!Room
  <2>3. ASSUME EraseStep PROVE Lines!Erase
    BY <1>1, <2>1, <2>3, Zenon DEF EraseStep, Lines!Erase
  <2>4. ASSUME TakeStep PROVE Lines!Take
    BY <1>1, <2>1, <2>4, Zenon DEF TakeStep, Lines!Take
  <2>5. ASSUME UNCHANGED Shown PROVE UNCHANGED Lines!vars
    BY <1>1, <2>1, <2>5, Zenon DEF Shown, Lines!vars
  <2> QED
    BY <2>2, <2>3, <2>4, <2>5, Zenon DEF LineStep, Lines!Next
<1> QED
  BY <1>2, <1>3, ConsoleInv, PTL DEF Spec, IsLineBuffer, Lines!Spec
=============================================================================
