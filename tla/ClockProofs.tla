---------------------------- MODULE ClockProofs ----------------------------
(***************************************************************************)
(* Proofs about Clock, for any CPUs, any process table and any tick        *)
(* counter: a trap returns to the code it interrupted, in the mode it      *)
(* interrupted, and pause() does not return before its time.  Neither      *)
(* needs to know who holds which lock: a thread's frames are changed only  *)
(* by the CPU that executes it, and each frame is right for its place in   *)
(* its own stack, on whatever CPU it will run again.                       *)
(***************************************************************************)
EXTENDS Clock, TLAPS

----------------------------------------------------------------------------
(* The invariant *)

Threads == CPUs \cup Procs
Slots == 1..Len(proc)

IsSeq(s) == s \in Seq({s[i] : i \in DOMAIN s})

\* labels of the frame a thread begins with: user code or the scheduler's loop
BottomLabels == {"user", "intr_on", "wfi", "mask", "look", "back"}

\* a frame of sys_pause(), and its start at tick m or before
IsPause(f) ==
  /\ DOMAIN f = {"at", "n", "asked", "t0", "born"}
  /\ f.asked \in Int /\ f.asked < UINT /\ f.n = Clamp(f.asked)
Began(f, m) == f.born \in 0..m /\ f.t0 = (UINT - 1 + f.born) % UINT

PauseOK(f, m) ==
  /\ f.at \in {"start", "while", "paused", "failed"} => IsPause(f)
  /\ f.at \in {"while", "paused"} => Began(f, m)
  /\ f.at = "paused" => m - f.born >= f.asked

\* the frame that goes back to user space goes to the first frame of its thread
ReturnOK(t, f) ==
  f.at \in {"return", "sret", "forkret"} => DOMAIN f = {"at", "epc", "sys"} /\ f.epc = <<t, 1>>

\* a frame of thread t above its first that is not one of kerneltrap(), at tick m
Plain(t, f, m) ==
  /\ "at" \in DOMAIN f /\ f.at \notin BottomLabels \cup {"kt_ret"}
  /\ PauseOK(f, m) /\ ReturnOK(t, f)

\* what follows killed() may end in another killed(), the one before usertrap()
\* returns
Inner(t, f, m) == Plain(t, f, m) /\ (f.at = "killed" => f.yes = Exiting /\ f.no = <<>>)

Inners(t, fs, m) == IsSeq(fs) /\ \A j \in 1..Len(fs) : Inner(t, fs[j], m)

Sound(t, f, m) ==
  Plain(t, f, m) /\ (f.at = "killed" => Inners(t, f.yes, m) /\ Inners(t, f.no, m))

First(i, f) ==
  /\ "at" \in DOMAIN f /\ f.at \in BottomLabels
  /\ f.at = "user" => i = 1
  /\ f.at \in {"look", "back"} => DOMAIN f = {"at", "i", "found"} /\ f.i \in Slots

Interrupted(t, i, f) == f.at = "kt_ret" /\ f.sepc = <<t, i - 1>> /\ f.spie = TRUE /\ f.spp = TRUE

\* frame f at place i
Fine(t, i, f, m) == First(i, f) \/ (i > 1 /\ (Sound(t, f, m) \/ Interrupted(t, i, f)))

\* frames fs, to be placed on n others
Fits(t, n, fs, m) == IsSeq(fs) /\ \A j \in 1..Len(fs) : Fine(t, n + j, fs[j], m)

StackOK(t, s, m) == Len(s) > 0 /\ Fits(t, 0, s, m)

Stacks(S, m) == S = [t \in Threads |-> S[t]] /\ \A t \in Threads : StackOK(t, S[t], m)

Registers == {"noff", "intena", "sie", "spie", "spp", "sepc", "stvec"}
CPUsOK(k) == k = [c \in CPUs |-> k[c]] /\ \A c \in CPUs : DOMAIN k[c] = Registers

IInv ==
  /\ CPUsOK(cpu)
  /\ run \in [CPUs -> Threads]
  /\ now \in Nat /\ ticks = (UINT - 1 + now) % UINT
  /\ Stacks(stack, now)

\* pause(n) returns 0 only after n ticks, also when the 32-bit tick counter
\* wraps during the pause: the first half of PauseOnTime.
NeverEarly ==
  \A p \in Procs : \A i \in DOMAIN stack[p] :
    stack[p][i].at = "paused" => now - stack[p][i].born >= stack[p][i].asked

----------------------------------------------------------------------------
(* Sequences of frames *)

LEMMA Larger ==
  ASSUME NEW S, NEW T, S \subseteq T, NEW s \in Seq(S)
  PROVE  s \in Seq(T)
OBVIOUS

LEMMA SeqIsSeq ==
  ASSUME NEW S, NEW s \in Seq(S)
  PROVE  IsSeq(s)
BY DEF IsSeq

\* r is fs on the first n of s
Rebuilt(r, s, n, fs) ==
  /\ IsSeq(r) /\ Len(r) = n + Len(fs)
  /\ \A i \in 1..n : r[i] = s[i]
  /\ \A j \in 1..Len(fs) : r[n + j] = fs[j]

LEMMA OverFacts ==
  ASSUME NEW s, NEW fs, IsSeq(s), IsSeq(fs), NEW n \in 0..Len(s)
  PROVE  Rebuilt(Over(s, n, fs), s, n, fs)
<1> DEFINE S == {s[i] : i \in DOMAIN s} \cup {fs[i] : i \in DOMAIN fs}
           q == SubSeq(s, 1, n)
<1>1. s \in Seq(S) /\ fs \in Seq(S)
  BY Larger DEF IsSeq
<1> HIDE DEF S
<1>2. q \in Seq(S) /\ Len(q) = n /\ \A i \in 1..n : q[i] = s[i]
  BY <1>1
<1> HIDE DEF q
<1>3. q \o fs \in Seq(S) /\ Len(q \o fs) = n + Len(fs)
  <2>1. q \o fs \in Seq(S)
    BY <1>1, <1>2
  <2>2. Len(q \o fs) = Len(q) + Len(fs)
    BY <1>1, <1>2, SMTT(30)
  <2> QED
    BY <1>2, <2>1, <2>2
<1>4. \A i \in 1..n : (q \o fs)[i] = s[i]
  BY <1>1, <1>2
<1>5. \A j \in 1..Len(fs) : (q \o fs)[n + j] = fs[j]
  BY <1>1, <1>2
<1>6. IsSeq(q \o fs)
  BY <1>3, SeqIsSeq, Zenon
<1> QED
  BY <1>3, <1>4, <1>5, <1>6, Zenon DEF Over, Rebuilt, q

LEMMA CatFacts ==
  ASSUME NEW u, NEW v, IsSeq(u), IsSeq(v)
  PROVE  /\ IsSeq(u \o v) /\ Len(u \o v) = Len(u) + Len(v)
         /\ Len(u) \in Nat /\ Len(v) \in Nat
         /\ \A i \in 1..Len(u) : (u \o v)[i] = u[i]
         /\ \A j \in 1..Len(v) : (u \o v)[Len(u) + j] = v[j]
<1> DEFINE S == {u[i] : i \in DOMAIN u} \cup {v[i] : i \in DOMAIN v}
<1>1. u \in Seq(S) /\ v \in Seq(S)
  BY Larger DEF IsSeq
<1> HIDE DEF S
<1>2. u \o v \in Seq(S) /\ Len(u \o v) = Len(u) + Len(v) /\ Len(u) \in Nat /\ Len(v) \in Nat
  BY <1>1
<1>3. \A i \in 1..Len(u) : (u \o v)[i] = u[i]
  BY <1>1
<1>4. \A j \in 1..Len(v) : (u \o v)[Len(u) + j] = v[j]
  BY <1>1
<1>5. IsSeq(u \o v)
  BY <1>2, SeqIsSeq, Zenon
<1> QED
  BY <1>2, <1>3, <1>4, <1>5, Zenon

LEMMA OneFact ==
  ASSUME NEW a
  PROVE  IsSeq(<<a>>) /\ Len(<<a>>) = 1 /\ <<a>>[1] = a
BY DEF IsSeq

LEMMA TwoFact ==
  ASSUME NEW a, NEW b
  PROVE  IsSeq(<<a, b>>) /\ Len(<<a, b>>) = 2 /\ <<a, b>>[1] = a /\ <<a, b>>[2] = b
BY DEF IsSeq

LEMMA ThreeFact ==
  ASSUME NEW a, NEW b, NEW d
  PROVE  /\ IsSeq(<<a, b, d>>) /\ Len(<<a, b, d>>) = 3
         /\ <<a, b, d>>[1] = a /\ <<a, b, d>>[2] = b /\ <<a, b, d>>[3] = d
BY DEF IsSeq

LEMMA NoneFact == IsSeq(<<>>) /\ Len(<<>>) = 0
BY DEF IsSeq

----------------------------------------------------------------------------
(* The tick counter *)

\* ticks counts on when it wraps
LEMMA ModRange ==
  ASSUME NEW n \in Nat \ {0}, NEW x \in Nat
  PROVE  x % n \in 0..n - 1
OBVIOUS

LEMMA ModDef ==
  ASSUME NEW n \in Nat \ {0}, NEW x \in Nat
  PROVE  x \div n \in Nat /\ x = n * (x \div n) + (x % n)
OBVIOUS

LEMMA ModUnique ==
  ASSUME NEW n \in Nat \ {0}, NEW q \in Nat, NEW r \in 0..n - 1
  PROVE  (n * q + r) % n = r
OBVIOUS

LEMMA NextTick ==
  ASSUME NEW u \in Nat \ {0}, NEW x \in Nat
  PROVE  (((u - 1 + x) % u) + 1) % u = (u - 1 + (x + 1)) % u
<1>1. PICK q \in Nat, r \in 0..u - 1 : u - 1 + x = u * q + r /\ r = (u - 1 + x) % u
  <2>1. u - 1 + x \in Nat
    OBVIOUS
  <2> QED
    BY <2>1, ModDef, ModRange, Zenon
<1>3. CASE r + 1 < u
  <2>1. r + 1 \in 0..u - 1 /\ (r + 1) % u = r + 1
    BY <1>3
  <2>3. u - 1 + (x + 1) = u * q + (r + 1)
    <3>1. PICK w \in Nat : w = u * q
      OBVIOUS
    <3>2. u - 1 + x = w + r
      BY <1>1, <3>1, Zenon
    <3>3. u - 1 + (x + 1) = w + (r + 1)
      BY <3>2
    <3> QED
      BY <3>1, <3>3, Zenon
  <2>2. (u * q + (r + 1)) % u = r + 1
    BY <2>1, ModUnique, Zenon
  <2> QED
    BY <1>1, <2>1, <2>2, <2>3, Zenon
<1>4. CASE r + 1 = u
  <2>1. u - 1 + (x + 1) = u * (q + 1) + 0 /\ q + 1 \in Nat /\ 0 \in 0..u - 1
    BY <1>1, <1>4
  <2>2. (u * (q + 1) + 0) % u = 0
    BY <2>1, ModUnique, Zenon
  <2>3. (r + 1) % u = 0
    BY <1>4
  <2> QED
    BY <1>1, <2>1, <2>2, <2>3
<1> QED
  BY <1>3, <1>4

\* ticks - ticks0, in unsigned arithmetic, is at most the ticks since ticks0
LEMMA Elapsed ==
  ASSUME NEW u \in Nat \ {0}, NEW x \in Nat, NEW b \in 0..x
  PROVE  (((u - 1 + x) % u) - ((u - 1 + b) % u)) % u <= x - b
<1> DEFINE r == (u - 1 + x) % u
           s == (u - 1 + b) % u
           q == (u - 1 + x) \div u
           k == (u - 1 + b) \div u
<1>1. u - 1 + x \in Nat /\ u - 1 + b \in Nat
  OBVIOUS
<1>2. q \in Nat /\ r \in 0..u - 1 /\ u - 1 + x = u * q + r
  BY <1>1, ModDef, ModRange, Zenon
<1>3. k \in Nat /\ s \in 0..u - 1 /\ u - 1 + b = u * k + s
  BY <1>1, ModDef, ModRange, Zenon
<1> SUFFICES (r - s) % u <= x - b
  OBVIOUS
<1> HIDE DEF r, s, q, k
<1>4. x - b = u * (q - k) + (r - s)
  BY <1>2, <1>3
<1>5. CASE r >= s
  <2>1. (r - s) % u = r - s
    BY <1>2, <1>3, <1>5
  <2>2. q - k >= 0
    <3>1. SUFFICES ASSUME q - k <= -1 PROVE FALSE
      BY <1>2, <1>3
    <3>2. u * (q - k) <= -u
      BY <1>2, <1>3, <3>1
    <3> QED
      BY <1>2, <1>3, <1>4, <3>2
  <2>3. u * (q - k) >= 0
    BY <1>2, <1>3, <2>2
  <2>4. r - s <= x - b
    BY <1>2, <1>3, <1>4, <2>3
  <2> QED
    BY <2>1, <2>4, Zenon
<1>6. CASE r < s
  <2>1. (r - s) % u = r - s + u
    BY <1>2, <1>3, <1>6
  <2>2. q - k >= 1
    <3>1. SUFFICES ASSUME q - k <= 0 PROVE FALSE
      BY <1>2, <1>3
    <3>2. u * (q - k) <= 0
      BY <1>2, <1>3, <3>1
    <3> QED
      BY <1>2, <1>3, <1>4, <1>6, <3>2
  <2>3. u * (q - k) >= u
    BY <1>2, <1>3, <2>2
  <2>4. r - s + u <= x - b
    BY <1>2, <1>3, <1>4, <2>3
  <2> QED
    BY <2>1, <2>4, Zenon
<1> QED
  BY <1>2, <1>3, <1>5, <1>6

----------------------------------------------------------------------------
(* Frames *)

SpecialLabels ==
  BottomLabels \cup {"kt_ret", "start", "while", "paused", "failed", "return", "sret", "forkret",
                   "killed"}

LEMMA Bare ==
  ASSUME NEW t, NEW m, NEW f, "at" \in DOMAIN f, f.at \notin SpecialLabels
  PROVE  Inner(t, f, m)
BY DEF Inner, Plain, PauseOK, ReturnOK, SpecialLabels

LEMMA AcquireInner ==
  ASSUME NEW t, NEW m, NEW l
  PROVE  Inner(t, Acquire(l), m)
<1>1. "at" \in DOMAIN Acquire(l) /\ Acquire(l).at \notin SpecialLabels
  BY DEF Acquire, SpecialLabels, BottomLabels
<1> QED
  BY <1>1, Bare

LEMMA FrameInner ==
  ASSUME NEW t, NEW m, NEW l, l \notin SpecialLabels
  PROVE  Inner(t, Frame(l), m)
<1>1. "at" \in DOMAIN Frame(l) /\ Frame(l).at = l
  BY DEF Frame
<1> QED
  BY <1>1, Bare

LEMMA InnersNone ==
  ASSUME NEW t, NEW m
  PROVE  Inners(t, <<>>, m)
BY NoneFact DEF Inners

LEMMA InnersOne ==
  ASSUME NEW t, NEW m, NEW f, Inner(t, f, m)
  PROVE  Inners(t, <<f>>, m)
BY OneFact DEF Inners

LEMMA InnersTwo ==
  ASSUME NEW t, NEW m, NEW f, Inner(t, f, m), NEW g, Inner(t, g, m)
  PROVE  Inners(t, <<f, g>>, m)
<1>1. \A j \in 1..2 : j = 1 \/ j = 2
  OBVIOUS
<1> QED
  BY <1>1, TwoFact DEF Inners

LEMMA InnersCat ==
  ASSUME NEW t, NEW m, NEW u, Inners(t, u, m), NEW v, Inners(t, v, m)
  PROVE  Inners(t, u \o v, m)
<1>1. IsSeq(u) /\ IsSeq(v) /\ (\A j \in 1..Len(u) : Inner(t, u[j], m)) /\ \A j \in 1..Len(v) : Inner(t, v[j], m)
  BY DEF Inners
<1> DEFINE w == u \o v
<1>2. /\ IsSeq(w) /\ Len(w) = Len(u) + Len(v) /\ Len(u) \in Nat /\ Len(v) \in Nat
      /\ \A i \in 1..Len(u) : w[i] = u[i]
      /\ \A j \in 1..Len(v) : w[Len(u) + j] = v[j]
  BY <1>1, CatFacts
<1> HIDE DEF w
<1>3. ASSUME NEW i \in 1..Len(w) PROVE Inner(t, w[i], m)
  <2>1. CASE i <= Len(u)
    BY <1>1, <1>2, <2>1
  <2>2. CASE i > Len(u)
    <3>1. PICK j \in 1..Len(v) : i = Len(u) + j
      <4>1. i - Len(u) \in 1..Len(v) /\ i = Len(u) + (i - Len(u))
        BY <1>2, <2>2
      <4> QED
        BY <4>1, Zenon
    <3> QED
      BY <1>1, <1>2, <3>1, Zenon
  <2> QED
    BY <1>2, <2>1, <2>2
<1> QED
  BY <1>2, <1>3 DEF Inners, w

LEMMA ExitingInner ==
  ASSUME NEW t, NEW m
  PROVE  Inners(t, Exiting, m)
<1>1. "zombie" \notin SpecialLabels /\ "reparent" \notin SpecialLabels
  BY DEF SpecialLabels, BottomLabels
<1>2. \A j \in 1..3 : j = 1 \/ j = 2 \/ j = 3
  OBVIOUS
<1> QED
  BY <1>1, <1>2, AcquireInner, FrameInner, ThreeFact DEF Inners, Exiting

LEMMA InnerSound ==
  ASSUME NEW t, NEW m, NEW f, Inner(t, f, m)
  PROVE  Sound(t, f, m)
BY ExitingInner, InnersNone DEF Inner, Sound

LEMMA SoundFine ==
  ASSUME NEW t, NEW m, NEW f, Sound(t, f, m), NEW i, i > 1
  PROVE  Fine(t, i, f, m)
BY DEF Fine

----------------------------------------------------------------------------
(* Frames on others *)

LEMMA FitsInners ==
  ASSUME NEW t, NEW m, NEW n \in Nat, n > 0, NEW fs, Inners(t, fs, m)
  PROVE  Fits(t, n, fs, m)
<1>1. Len(fs) \in Nat
  BY CatFacts DEF Inners
<1>2. ASSUME NEW j \in 1..Len(fs) PROVE Fine(t, n + j, fs[j], m)
  <2>1. n + j > 1
    BY <1>1
  <2>2. Sound(t, fs[j], m)
    BY InnerSound DEF Inners
  <2> QED
    BY <2>1, <2>2, SoundFine
<1> QED
  BY <1>2 DEF Fits, Inners

LEMMA FitsOne ==
  ASSUME NEW t, NEW m, NEW n, NEW f, Fine(t, n + 1, f, m)
  PROVE  Fits(t, n, <<f>>, m)
<1>1. \A j \in 1..1 : j = 1
  OBVIOUS
<1> QED
  BY <1>1, OneFact DEF Fits

LEMMA FitsTwo ==
  ASSUME NEW t, NEW m, NEW n \in Nat, NEW f, Fine(t, n + 1, f, m), NEW g, Inner(t, g, m)
  PROVE  Fits(t, n, <<f, g>>, m)
<1>1. \A j \in 1..2 : j = 1 \/ j = 2
  OBVIOUS
<1>2. n + 2 > 1
  OBVIOUS
<1>3. Fine(t, n + 2, g, m)
  BY <1>2, InnerSound, SoundFine
<1> QED
  BY <1>1, <1>3, TwoFact DEF Fits

LEMMA FitsCat ==
  ASSUME NEW t, NEW m, NEW n \in Nat, n > 0, NEW u, Fits(t, n, u, m), NEW v, Inners(t, v, m)
  PROVE  Fits(t, n, u \o v, m)
<1>1. IsSeq(u) /\ IsSeq(v) /\ (\A j \in 1..Len(u) : Fine(t, n + j, u[j], m)) /\ \A j \in 1..Len(v) : Inner(t, v[j], m)
  BY DEF Inners, Fits
<1> DEFINE w == u \o v
<1>2. /\ IsSeq(w) /\ Len(w) = Len(u) + Len(v) /\ Len(u) \in Nat /\ Len(v) \in Nat
      /\ \A i \in 1..Len(u) : w[i] = u[i]
      /\ \A j \in 1..Len(v) : w[Len(u) + j] = v[j]
  BY <1>1, CatFacts
<1> HIDE DEF w
<1>3. ASSUME NEW i \in 1..Len(w) PROVE Fine(t, n + i, w[i], m)
  <2>1. CASE i <= Len(u)
    BY <1>1, <1>2, <2>1
  <2>2. CASE i > Len(u)
    <3>1. PICK j \in 1..Len(v) : i = Len(u) + j
      <4>1. i - Len(u) \in 1..Len(v) /\ i = Len(u) + (i - Len(u))
        BY <1>2, <2>2
      <4> QED
        BY <4>1, Zenon
    <3>2. Sound(t, w[i], m)
      BY <1>1, <1>2, <3>1, InnerSound, Zenon
    <3>3. n + i > 1
      BY <1>2
    <3> QED
      BY <3>2, <3>3, SoundFine
  <2> QED
    BY <1>2, <2>1, <2>2
<1> QED
  BY <1>2, <1>3 DEF Fits, w

\* a frame stays fine as the clock counts
LEMMA Later ==
  ASSUME NEW t, NEW m \in Nat, NEW k \in Nat, m <= k
  PROVE  /\ \A f : PauseOK(f, m) => PauseOK(f, k)
         /\ \A i, f : Fine(t, i, f, m) => Fine(t, i, f, k)
<1>1. ASSUME NEW f, PauseOK(f, m) PROVE PauseOK(f, k)
  <2>1. Began(f, m) => Began(f, k)
    BY DEF Began
  <2>2. Began(f, m) /\ IsPause(f) /\ m - f.born >= f.asked => k - f.born >= f.asked
    BY DEF Began, IsPause
  <2> QED
    BY <1>1, <2>1, <2>2 DEF PauseOK
<1>2. \A f : Plain(t, f, m) => Plain(t, f, k)
  BY <1>1 DEF Plain
<1>3. \A fs : Inners(t, fs, m) => Inners(t, fs, k)
  BY <1>2 DEF Inner, Inners
<1>4. \A f : Sound(t, f, m) => Sound(t, f, k)
  BY <1>2, <1>3 DEF Sound
<1> QED
  BY <1>1, <1>4 DEF Fine

----------------------------------------------------------------------------
(* Steps *)

\* the thread on c, its stack and its last frame
LEMMA Thread ==
  ASSUME IInv, NEW c \in CPUs
  PROVE  /\ run[c] \in Threads /\ IsSeq(stack[run[c]])
         /\ Len(stack[run[c]]) \in Nat \ {0}
         /\ Top(c) = stack[run[c]][Len(stack[run[c]])]
         /\ Fine(run[c], Len(stack[run[c]]), Top(c), now)
         /\ Fine(run[c], 1, stack[run[c]][1], now)
<1>1. run[c] \in Threads
  BY DEF IInv
<1> DEFINE t == run[c]
           s == stack[t]
<1> HIDE DEF t, s
<1>2. IsSeq(s) /\ Len(s) > 0 /\ \A j \in 1..Len(s) : Fine(t, 0 + j, s[j], now)
  BY <1>1 DEF IInv, Stacks, StackOK, Fits, t, s
<1>3. Len(s) \in Nat
  BY <1>2, CatFacts
<1>4. Fine(t, 1, s[1], now) /\ Fine(t, Len(s), s[Len(s)], now)
  <2>1. 1 \in 1..Len(s) /\ Len(s) \in 1..Len(s) /\ 0 + 1 = 1 /\ 0 + Len(s) = Len(s)
    BY <1>2, <1>3
  <2> QED
    BY <1>2, <2>1
<1>5. Top(c) = s[Len(s)]
  BY DEF Top, s, t
<1> QED
  BY <1>1, <1>2, <1>3, <1>4, <1>5 DEF t, s

\* frames fs on the first n of the stack of the thread on c, at tick m
LEMMA Stacked ==
  ASSUME IInv, NEW c \in CPUs, NEW n \in 0..Len(stack[run[c]]), NEW m \in Nat, now <= m,
         NEW fs, Fits(run[c], n, fs, m), n + Len(fs) > 0,
         stack' = [stack EXCEPT ![run[c]] = Over(@, n, fs)]
  PROVE  Stacks(stack', m)
<1> DEFINE t == run[c]
           s == stack[t]
           r == Over(s, n, fs)
<1>1. t \in Threads /\ IsSeq(s) /\ Len(s) \in Nat /\ now \in Nat
  BY Thread DEF IInv
<1>2. stack = [u \in Threads |-> stack[u]] /\ \A u \in Threads : StackOK(u, stack[u], now)
  BY DEF IInv, Stacks
<1>3. IsSeq(fs) /\ \A j \in 1..Len(fs) : Fine(t, n + j, fs[j], m)
  BY DEF Fits
<1>4. /\ IsSeq(r) /\ Len(r) = n + Len(fs)
      /\ \A i \in 1..n : r[i] = s[i]
      /\ \A j \in 1..Len(fs) : r[n + j] = fs[j]
  <2>1. Rebuilt(r, s, n, fs)
    BY <1>1, <1>3, OverFacts, Zenon
  <2> HIDE DEF r, s
  <2> QED
    BY <2>1 DEF Rebuilt
<1>5. stack' = [u \in Threads |-> IF u = t THEN r ELSE stack[u]]
  BY <1>2
<1>6. \A j \in 1..Len(s) : Fine(t, j, s[j], now)
  <2>1. \A j \in 1..Len(s) : Fine(t, 0 + j, s[j], now)
    BY <1>1, <1>2 DEF StackOK, Fits
  <2>2. \A j \in 1..Len(s) : 0 + j = j
    BY <1>1
  <2> QED
    BY <2>1, <2>2
<1> HIDE DEF t, s, r
<1>7. \A u \in Threads : StackOK(u, stack[u], m)
  BY <1>1, <1>2, Later, Zenon DEF StackOK, Fits
<1>8. ASSUME NEW i \in 1..Len(r) PROVE Fine(t, 0 + i, r[i], m)
  <2>1. Len(fs) \in Nat
    BY <1>3, CatFacts
  <2>2. CASE i <= n
    <3>1. i \in 1..n /\ i \in 1..Len(s) /\ 0 + i = i
      BY <1>1, <1>4, <2>1, <2>2 DEF s, t
    <3> QED
      BY <1>1, <1>4, <1>6, <3>1, Later, Zenon
  <2>3. CASE i > n
    <3>1. PICK j \in 1..Len(fs) : i = n + j
      <4>1. i - n \in 1..Len(fs) /\ i = n + (i - n)
        BY <1>1, <1>4, <2>1, <2>3
      <4> QED
        BY <4>1, Zenon
    <3>2. 0 + i = n + j
      BY <2>1, <3>1
    <3> QED
      BY <1>3, <1>4, <3>1, <3>2, Zenon
  <2> QED
    BY <1>1, <1>4, <2>1, <2>2, <2>3
<1>9. StackOK(t, r, m)
  BY <1>4, <1>8 DEF StackOK, Fits
<1> QED
  BY <1>5, <1>7, <1>9, Zenon DEF Stacks

LEMMA Moved ==
  ASSUME IInv, NEW c \in CPUs, NEW n \in 0..Len(stack[run[c]]), NEW fs, Fits(run[c], n, fs, now),
         n + Len(fs) > 0, stack' = [stack EXCEPT ![run[c]] = Over(@, n, fs)],
         CPUsOK(cpu'), run' \in [CPUs -> Threads], UNCHANGED <<ticks, now>>
  PROVE  IInv'
<1>1. now \in Nat /\ now <= now
  BY DEF IInv
<1>2. Stacks(stack', now)
  BY <1>1, Stacked, Zenon
<1> QED
  BY <1>2 DEF IInv

\* the last frame is above another one
LEMMA Above ==
  ASSUME IInv, NEW c \in CPUs, Top(c).at \notin BottomLabels
  PROVE  Len(stack[run[c]]) - 1 \in 1..Len(stack[run[c]])
<1> DEFINE s == stack[run[c]]
<1>1. Len(s) \in Nat \ {0} /\ Top(c) = s[Len(s)] /\ Fine(run[c], Len(s), Top(c), now)
  BY Thread
<1> HIDE DEF s
<1>2. Len(s) > 1
  BY <1>1 DEF Fine, First
<1>3. Len(s) - 1 \in 1..Len(s)
  BY <1>1, <1>2
<1> QED
  BY <1>3 DEF s

LEMMA TopSound ==
  ASSUME IInv, NEW c \in CPUs, Top(c).at \notin BottomLabels, Top(c).at # "kt_ret"
  PROVE  Sound(run[c], Top(c), now) /\ Plain(run[c], Top(c), now) /\ "at" \in DOMAIN Top(c)
<1>1. Sound(run[c], Top(c), now)
  BY Thread, Zenon DEF Fine, First, Interrupted
<1> QED
  BY <1>1 DEF Sound, Plain

\* fs in place of the last frame
LEMMA ThenStep ==
  ASSUME IInv, NEW c \in CPUs, Top(c).at \notin BottomLabels, NEW fs, Inners(run[c], fs, now), Then(c, fs),
         CPUsOK(cpu'), run' \in [CPUs -> Threads], UNCHANGED <<ticks, now>>
  PROVE  IInv'
<1>1. PICK n : n = Len(stack[run[c]]) - 1 /\ n \in 1..Len(stack[run[c]])
  BY Above, Zenon
<1>2. n \in Nat /\ n > 0 /\ n \in 0..Len(stack[run[c]]) /\ Len(fs) \in Nat
  <2>1. Len(stack[run[c]]) \in Nat
    BY Thread
  <2>2. Len(fs) \in Nat
    BY CatFacts DEF Inners
  <2> QED
    BY <1>1, <2>1, <2>2
<1>3. Fits(run[c], n, fs, now)
  BY <1>2, FitsInners, Zenon
<1>4. n + Len(fs) > 0
  BY <1>2
<1>5. stack' = [stack EXCEPT ![run[c]] = Over(@, n, fs)]
  BY <1>1 DEF Then
<1> QED
  BY <1>2, <1>3, <1>4, <1>5, Moved, Zenon

\* fs, which may hold the first frame of a thread, in place of the last frame
LEMMA FirstStep ==
  ASSUME IInv, NEW c \in CPUs, NEW fs, Fits(run[c], Len(stack[run[c]]) - 1, fs, now), Len(fs) > 0, Len(fs) \in Nat,
         Then(c, fs), CPUsOK(cpu'), run' \in [CPUs -> Threads], UNCHANGED <<ticks, now>>
  PROVE  IInv'
<1>1. PICK n : n = Len(stack[run[c]]) - 1
  OBVIOUS
<1>2. n \in 0..Len(stack[run[c]]) /\ n + Len(fs) > 0
  <2>1. Len(stack[run[c]]) \in Nat \ {0}
    BY Thread
  <2> QED
    BY <1>1, <2>1
<1>3. Fits(run[c], n, fs, now)
  BY <1>1
<1>4. stack' = [stack EXCEPT ![run[c]] = Over(@, n, fs)]
  BY <1>1 DEF Then
<1> QED
  BY <1>2, <1>3, <1>4, Moved, Zenon

----------------------------------------------------------------------------
(* Registers *)

LEMMA CPUSet ==
  ASSUME IInv, NEW c \in CPUs, NEW v, DOMAIN v = Registers, cpu' = [cpu EXCEPT ![c] = v]
  PROVE  CPUsOK(cpu')
BY DEF CPUsOK, IInv

LEMMA PushedOff ==
  ASSUME IInv, NEW c \in CPUs, NEW old, cpu' = [cpu EXCEPT ![c] = PushOff(@, old)]
  PROVE  CPUsOK(cpu')
<1>1. DOMAIN PushOff(cpu[c], old) = Registers
  BY DEF PushOff, IInv, CPUsOK
<1>2. cpu' = [cpu EXCEPT ![c] = PushOff(cpu[c], old)]
  OBVIOUS
<1> QED
  BY <1>1, <1>2, CPUSet, Zenon

LEMMA Released ==
  ASSUME IInv, NEW c \in CPUs, NEW l, NEW k, DOMAIN k = Registers, Release(c, l, k)
  PROVE  CPUsOK(cpu')
<1>1. DOMAIN PopOff(k) = Registers /\ cpu' = [cpu EXCEPT ![c] = PopOff(k)]
  BY DEF PopOff, Release
<1> QED
  BY <1>1, CPUSet, Zenon

LEMMA CPUIs ==
  ASSUME IInv, NEW c \in CPUs
  PROVE  DOMAIN cpu[c] = Registers /\ DOMAIN Restored(c) = Registers
BY DEF IInv, CPUsOK, Restored

LEMMA SameCPU ==
  ASSUME IInv, cpu' = cpu
  PROVE  CPUsOK(cpu')
BY DEF IInv

LEMMA SameRun ==
  ASSUME IInv, run' = run
  PROVE  run' \in [CPUs -> Threads]
BY DEF IInv

\* a trap: usertrap() or kerneltrap() on the last frame
LEMMA TrapStep ==
  ASSUME IInv, NEW c \in CPUs, NEW uf, NEW kf, Trap(c, uf, kf),
         At(c, "user") => Fits(run[c], Len(stack[run[c]]), uf, now),
         ~At(c, "user") => Fits(run[c], Len(stack[run[c]]), kf, now)
  PROVE  IInv'
<1> DEFINE k == Trapped(c)
           user == k.stvec = "uservec"
           bad == IF user THEN k.spp ELSE ~k.spp \/ k.sie
           v == [k EXCEPT !.stvec = IF bad THEN @ ELSE "kernelvec"]
<1>1. DOMAIN cpu[c] = Registers
  BY CPUIs
<1>2. DOMAIN k = Registers /\ k.spp = ~At(c, "user") /\ k.sie = FALSE
  BY <1>1 DEF Trapped, Registers
<1>3. DOMAIN v = Registers
  <2> HIDE DEF k
  <2> QED
    BY <1>2
<1>4. cpu' = [cpu EXCEPT ![c] = v] /\ UNCHANGED <<run, ticks, now>>
  BY Zenon DEF Trap
<1>5. CPUsOK(cpu')
  <2> HIDE DEF v
  <2> QED
    BY <1>3, <1>4, CPUSet, Zenon
<1>6. run' \in [CPUs -> Threads] /\ UNCHANGED <<ticks, now>>
  BY <1>4, SameRun
<1>7. CASE bad
  <2>1. stack' = stack
    BY <1>7, Zenon DEF Trap
  <2> QED
    BY <1>5, <1>6, <2>1 DEF IInv
<1>8. CASE ~bad
  <2>1. PICK fs : fs = (IF user THEN uf ELSE kf)
    OBVIOUS
  <2>2. stack' = [stack EXCEPT ![run[c]] = Over(@, Len(@), fs)]
    BY <1>8, <2>1, Zenon DEF Trap
  <2>3. user <=> At(c, "user")
    BY <1>2, <1>8, Zenon
  <2>4. Fits(run[c], Len(stack[run[c]]), fs, now)
    BY <2>1, <2>3, Zenon
  <2>5. PICK n : n = Len(stack[run[c]])
    OBVIOUS
  <2>6. n \in 0..Len(stack[run[c]]) /\ n + Len(fs) > 0
    <3>1. Len(stack[run[c]]) \in Nat \ {0}
      BY Thread
    <3>2. Len(fs) \in Nat
      BY <2>4, CatFacts DEF Fits
    <3> QED
      BY <2>5, <3>1, <3>2
  <2>7. Fits(run[c], n, fs, now) /\ stack' = [stack EXCEPT ![run[c]] = Over(@, n, fs)]
    BY <2>2, <2>4, <2>5
  <2> QED
    BY <1>5, <1>6, <2>6, <2>7, Moved, Zenon
<1> QED
  BY <1>7, <1>8

----------------------------------------------------------------------------
(* spinlock.c and proc.c *)

\* the last frame is gone
LEMMA ReturnStep ==
  ASSUME IInv, NEW c \in CPUs, Top(c).at \notin BottomLabels, Return(c), CPUsOK(cpu'), UNCHANGED <<run, ticks, now>>
  PROVE  IInv'
<1>1. Inners(run[c], <<>>, now) /\ Then(c, <<>>)
  BY InnersNone DEF Return
<1>2. run' \in [CPUs -> Threads]
  BY SameRun
<1> QED
  BY <1>1, <1>2, ThenStep, Zenon

\* another frame in its place
LEMMA BecomeStep ==
  ASSUME IInv, NEW c \in CPUs, Top(c).at \notin BottomLabels, NEW f, Inner(run[c], f, now), Become(c, f),
         CPUsOK(cpu'), run' \in [CPUs -> Threads], UNCHANGED <<ticks, now>>
  PROVE  IInv'
<1>1. Inners(run[c], <<f>>, now) /\ Then(c, <<f>>)
  BY InnersOne DEF Become
<1> QED
  BY <1>1, ThenStep, Zenon

LEMMA TwoStep ==
  ASSUME IInv, NEW c \in CPUs, Top(c).at \notin BottomLabels, NEW f, Inner(run[c], f, now), NEW l,
         Then(c, <<f, Acquire(l)>>), CPUsOK(cpu'), UNCHANGED <<run, ticks, now>>
  PROVE  IInv'
<1>1. Inners(run[c], <<f, Acquire(l)>>, now)
  BY InnersTwo, AcquireInner, Zenon
<1>2. run' \in [CPUs -> Threads]
  BY SameRun
<1> QED
  BY <1>1, <1>2, ThenStep, Zenon

\* the last frame at another label
LEMMA GotoStep ==
  ASSUME IInv, NEW c \in CPUs, Top(c).at \notin BottomLabels, Top(c).at # "kt_ret", NEW l, l \notin SpecialLabels,
         Goto(c, l), CPUsOK(cpu'), UNCHANGED <<run, ticks, now>>
  PROVE  IInv'
<1> DEFINE f == [Top(c) EXCEPT !.at = l]
<1>1. "at" \in DOMAIN f /\ f.at = l
  BY TopSound
<1>2. Inner(run[c], f, now)
  BY <1>1, Bare, Zenon
<1>3. Become(c, f) /\ run' \in [CPUs -> Threads]
  BY SameRun DEF Goto
<1> QED
  BY <1>2, <1>3, BecomeStep, Zenon

LEMMA LockingStep ==
  ASSUME IInv, NEW c \in CPUs, Locking(c)
  PROVE  IInv'
<1>1. CASE IntrGet(c)
  <2>1. Top(c).at \notin BottomLabels /\ Top(c).at # "kt_ret"
    BY <1>1 DEF IntrGet, At, BottomLabels
  <2> DEFINE f == [Top(c) EXCEPT !.at = "intr_off", !.old = TRUE]
  <2>2. "at" \in DOMAIN f /\ f.at \notin SpecialLabels
    BY <2>1, TopSound DEF SpecialLabels, BottomLabels
  <2>3. Inner(run[c], f, now)
    BY <2>2, Bare, Zenon
  <2>4. Become(c, f) /\ CPUsOK(cpu') /\ run' \in [CPUs -> Threads] /\ UNCHANGED <<ticks, now>>
    BY <1>1, SameCPU, SameRun DEF IntrGet
  <2> QED
    BY <2>1, <2>3, <2>4, BecomeStep, Zenon
<1>2. CASE Lock(c)
  <2>1. Top(c).at \notin BottomLabels
    BY <1>2 DEF Lock, At, BottomLabels
  <2>2. CPUsOK(cpu')
    BY <1>2, PushedOff, Zenon DEF Lock
  <2> QED
    BY <1>2, <2>1, <2>2, ReturnStep, Zenon DEF Lock
<1> QED
  BY <1>1, <1>2 DEF Locking

LEMMA SchedStep ==
  ASSUME IInv, NEW c \in CPUs, Top(c).at \notin BottomLabels, NEW s, NEW l, l \notin SpecialLabels, Sched(c, s, l)
  PROVE  IInv'
<1> DEFINE f == [at |-> l, intena |-> cpu[c].intena]
<1>1. "at" \in DOMAIN f /\ f.at = l
  OBVIOUS
<1>2. Inner(run[c], f, now)
  BY <1>1, Bare, Zenon
<1>3. Become(c, f) /\ CPUsOK(cpu') /\ UNCHANGED <<ticks, now>>
  BY SameCPU DEF Sched
<1>4. run' \in [CPUs -> Threads]
  BY DEF Sched, IInv, Threads
<1> QED
  BY <1>2, <1>3, <1>4, BecomeStep, Zenon

LEMMA YieldStep ==
  ASSUME IInv, NEW c \in CPUs, Yield(c)
  PROVE  IInv'
<1>1. Top(c).at \notin BottomLabels /\ "yielded" \notin SpecialLabels
  BY DEF Yield, At, BottomLabels, SpecialLabels
<1>2. CASE Sched(c, "RUNNABLE", "yielded")
  BY <1>1, <1>2, SchedStep, Zenon
<1>3. CASE Release(c, run[c], Restored(c)) /\ Return(c) /\ UNCHANGED <<run, state, killed, ticks, now>>
  BY <1>1, <1>3, CPUIs, Released, ReturnStep
<1> QED
  BY <1>2, <1>3 DEF Yield

LEMMA SleepStep ==
  ASSUME IInv, NEW c \in CPUs, Sleep(c)
  PROVE  IInv'
<1>1. /\ Top(c).at \notin BottomLabels /\ Top(c).at # "kt_ret"
      /\ "sleeping" \notin SpecialLabels /\ "woken" \notin SpecialLabels
  BY DEF Sleep, At, BottomLabels, SpecialLabels
<1>2. CASE Release(c, tickslock, cpu[c]) /\ Goto(c, "sleeping") /\ UNCHANGED <<run, state, killed, ticks, now>>
  BY <1>1, <1>2, CPUIs, Released, GotoStep
<1>3. CASE Sched(c, "SLEEPING", "woken")
  BY <1>1, <1>3, SchedStep, Zenon
<1>4. CASE /\ Release(c, run[c], Restored(c)) /\ Become(c, Acquire(tickslock))
           /\ UNCHANGED <<run, state, killed, ticks, now>>
  <2>1. CPUsOK(cpu') /\ run' \in [CPUs -> Threads] /\ UNCHANGED <<ticks, now>>
    BY <1>4, CPUIs, Released, SameRun
  <2> QED
    BY <1>1, <1>4, <2>1, AcquireInner, BecomeStep, Zenon
<1> QED
  BY <1>2, <1>3, <1>4 DEF Sleep

LEMMA ExitStep ==
  ASSUME IInv, NEW c \in CPUs, Exit(c)
  PROVE  IInv'
<1>1. /\ Top(c).at \notin BottomLabels
      /\ "orphans" \notin SpecialLabels /\ "zombie_exit" \notin SpecialLabels
  BY DEF Exit, At, BottomLabels, SpecialLabels
<1>2. CASE /\ Then(c, <<Frame("orphans"), Acquire(run[c])>>)
           /\ UNCHANGED <<cpu, run, holder, state, killed, ticks, now, panicked>>
  <2>1. Inner(run[c], Frame("orphans"), now)
    BY <1>1, FrameInner, Zenon
  <2>2. CPUsOK(cpu') /\ UNCHANGED <<run, ticks, now>>
    BY <1>2, SameCPU
  <2> QED
    BY <1>1, <1>2, <2>1, <2>2, TwoStep, Zenon
<1>3. CASE Release(c, wait_lock, cpu[c]) /\ Return(c) /\ UNCHANGED <<run, state, killed, ticks, now>>
  BY <1>1, <1>3, CPUIs, Released, ReturnStep
<1>4. CASE Sched(c, "ZOMBIE", "zombie_exit")
  BY <1>1, <1>4, SchedStep, Zenon
<1> QED
  BY <1>2, <1>3, <1>4 DEF Exit

LEMMA KilledStep ==
  ASSUME IInv, NEW c \in CPUs, Killed(c)
  PROVE  IInv'
<1> DEFINE f == Top(c)
<1>1. f.at = "killed" /\ f.at \notin BottomLabels /\ f.at # "kt_ret"
  BY DEF Killed, BottomLabels
<1>2. Inners(run[c], f.yes, now) /\ Inners(run[c], f.no, now)
  BY <1>1, TopSound DEF Sound
<1>3. PICK fs : fs = (IF killed[run[c]] THEN f.yes ELSE f.no)
  OBVIOUS
<1>4. Then(c, fs) /\ Inners(run[c], fs, now)
  BY <1>2, <1>3 DEF Killed
<1>5. CPUsOK(cpu') /\ run' \in [CPUs -> Threads] /\ UNCHANGED <<ticks, now>>
  BY CPUIs, Released, SameRun DEF Killed
<1> QED
  BY <1>1, <1>4, <1>5, ThenStep, Zenon

----------------------------------------------------------------------------
(* scheduler() *)

LEMMA ProcFacts == Len(proc) \in Nat /\ \A i \in Slots : proc[i] \in Procs /\ proc[i] \in Threads
BY ClockAssumption DEF Slots, Threads

LEMMA SlotFits ==
  ASSUME NEW t, NEW m, NEW n \in Nat, NEW i \in Nat \ {0}, NEW found
  PROVE  /\ Fits(t, n, Slot(i, found), m)
         /\ Len(Slot(i, found)) \in Nat /\ Len(Slot(i, found)) > 0
<1>1. CASE i <= Len(proc)
  <2> DEFINE f == [at |-> "look", i |-> i, found |-> found]
  <2>1. Slot(i, found) = <<f, Acquire(proc[i])>>
    BY <1>1 DEF Slot
  <2>2. First(n + 1, f)
    <3>1. i \in Slots
      BY <1>1, ProcFacts DEF Slots
    <3> QED
      BY <3>1 DEF First, BottomLabels
  <2> HIDE DEF f
  <2>3. Fine(t, n + 1, f, m)
    BY <2>2 DEF Fine
  <2>4. Fits(t, n, <<f, Acquire(proc[i])>>, m)
    BY <2>3, AcquireInner, FitsTwo, Zenon
  <2> QED
    BY <2>1, <2>4, TwoFact
<1>2. CASE ~(i <= Len(proc))
  <2>1. PICK l \in {"intr_on", "wfi"} : Slot(i, found) = <<Frame(l)>>
    BY <1>2 DEF Slot
  <2>2. First(n + 1, Frame(l))
    <3>1. "at" \in DOMAIN Frame(l) /\ Frame(l).at = l
      BY DEF Frame
    <3> QED
      BY <3>1 DEF First, BottomLabels
  <2>3. Fits(t, n, <<Frame(l)>>, m)
    BY <2>2, FitsOne DEF Fine
  <2> QED
    BY <2>1, <2>3, OneFact
<1> QED
  BY <1>1, <1>2

\* the scheduler goes on at slot i
LEMMA SlotStep ==
  ASSUME IInv, NEW c \in CPUs, NEW i \in Nat \ {0}, NEW found, Then(c, Slot(i, found)), CPUsOK(cpu'),
         UNCHANGED <<run, ticks, now>>
  PROVE  IInv'
<1>1. PICK n \in Nat : n = Len(stack[run[c]]) - 1
  <2>1. Len(stack[run[c]]) \in Nat \ {0}
    BY Thread
  <2>2. Len(stack[run[c]]) - 1 \in Nat
    BY <2>1
  <2> QED
    BY <2>2, Zenon
<1>2. PICK fs : fs = Slot(i, found)
  OBVIOUS
<1>3. Fits(run[c], Len(stack[run[c]]) - 1, fs, now) /\ Len(fs) \in Nat /\ Len(fs) > 0
  BY <1>1, <1>2, SlotFits
<1>4. Then(c, fs) /\ run' \in [CPUs -> Threads]
  BY <1>2, SameRun
<1> QED
  BY <1>3, <1>4, FirstStep, Zenon

LEMMA ReadyStep ==
  ASSUME IInv, NEW c \in CPUs, Ready(c)
  PROVE  IInv'
<1> DEFINE f == [Top(c) EXCEPT !.at = "mask"]
<1>1. PICK n : n = Len(stack[run[c]]) - 1
  OBVIOUS
<1>2. "at" \in DOMAIN Top(c)
  <2>1. Top(c).at \in {"intr_on", "wfi"}
    BY DEF Ready
  <2>2. Fine(run[c], Len(stack[run[c]]), Top(c), now)
    BY Thread
  <2> QED
    BY <2>1, <2>2 DEF Fine, First, Sound, Plain, Interrupted, BottomLabels
<1>3. Fine(run[c], n + 1, f, now)
  BY <1>2 DEF Fine, First, BottomLabels
<1>4. Fits(run[c], n, <<f>>, now)
  BY <1>3, FitsOne, Zenon
<1>5. Len(<<f>>) \in Nat /\ Len(<<f>>) > 0
  BY OneFact
<1>6. CPUsOK(cpu')
  BY Zenon DEF Ready, IInv, CPUsOK
<1>7. Then(c, <<f>>) /\ run' \in [CPUs -> Threads] /\ UNCHANGED <<ticks, now>>
  BY SameRun DEF Ready, Goto, Become
<1> QED
  BY <1>1, <1>4, <1>5, <1>6, <1>7, FirstStep, Zenon

LEMMA SchedulerOffStep ==
  ASSUME IInv, NEW c \in CPUs, SchedulerOff(c)
  PROVE  IInv'
<1>1. CPUsOK(cpu')
  BY Zenon DEF SchedulerOff, IInv, CPUsOK
<1>2. Then(c, Slot(1, FALSE)) /\ UNCHANGED <<run, ticks, now>>
  BY Zenon DEF SchedulerOff
<1>3. 1 \in Nat \ {0}
  OBVIOUS
<1> QED
  BY <1>1, <1>2, <1>3, SlotStep, Zenon

\* the frame of scheduler() at a slot
LEMMA AtSlot ==
  ASSUME IInv, NEW c \in CPUs, Top(c).at \in {"look", "back"}
  PROVE  /\ DOMAIN Top(c) = {"at", "i", "found"} /\ Top(c).i \in Slots
         /\ Top(c).i + 1 \in Nat \ {0}
<1>1. Fine(run[c], Len(stack[run[c]]), Top(c), now)
  BY Thread
<1>2. DOMAIN Top(c) = {"at", "i", "found"} /\ Top(c).i \in Slots
  BY <1>1 DEF Fine, First, Sound, Plain, Interrupted, BottomLabels
<1> QED
  BY <1>2, ProcFacts DEF Slots

LEMMA LookStep ==
  ASSUME IInv, NEW c \in CPUs, Look(c)
  PROVE  IInv'
<1> DEFINE f == Top(c)
           p == proc[f.i]
<1>1. f.at = "look" /\ DOMAIN f = {"at", "i", "found"} /\ f.i \in Slots /\ f.i + 1 \in Nat \ {0} /\ p \in Threads
  BY AtSlot, ProcFacts DEF Look
<1>2. CASE run' = [run EXCEPT ![c] = p] /\ Become(c, [f EXCEPT !.at = "back", !.found = TRUE]) /\ UNCHANGED cpu
  <2> DEFINE g == [f EXCEPT !.at = "back", !.found = TRUE]
  <2>1. DOMAIN g = {"at", "i", "found"} /\ g.at = "back" /\ g.i = f.i
    BY <1>1
  <2>2. PICK n : n = Len(stack[run[c]]) - 1
    OBVIOUS
  <2>3. run' \in [CPUs -> Threads] /\ CPUsOK(cpu') /\ UNCHANGED <<ticks, now>>
    BY <1>1, <1>2, SameCPU DEF IInv, Look
  <2>4. Then(c, <<g>>)
    BY <1>2 DEF Become
  <2> HIDE DEF g
  <2>5. Fine(run[c], n + 1, g, now)
    BY <1>1, <2>1 DEF Fine, First, BottomLabels
  <2>6. Fits(run[c], n, <<g>>, now) /\ Len(<<g>>) \in Nat /\ Len(<<g>>) > 0
    BY <2>5, FitsOne, OneFact
  <2> QED
    BY <2>2, <2>3, <2>4, <2>6, FirstStep, Zenon
<1>3. CASE Release(c, p, cpu[c]) /\ Then(c, Slot(f.i + 1, f.found)) /\ UNCHANGED <<run, state>>
  <2>1. CPUsOK(cpu') /\ UNCHANGED <<run, ticks, now>>
    BY <1>3, CPUIs, Released DEF Look
  <2> QED
    BY <1>1, <1>3, <2>1, SlotStep, Zenon
<1> QED
  BY <1>2, <1>3 DEF Look

LEMMA BackStep ==
  ASSUME IInv, NEW c \in CPUs, Back(c)
  PROVE  IInv'
<1>1. Top(c).i + 1 \in Nat \ {0}
  BY AtSlot DEF Back
<1>2. CPUsOK(cpu') /\ Then(c, Slot(Top(c).i + 1, TRUE)) /\ UNCHANGED <<run, ticks, now>>
  BY CPUIs, Released, Zenon DEF Back
<1> QED
  BY <1>1, <1>2, SlotStep, Zenon

----------------------------------------------------------------------------
(* trap.c *)

LEMMA YieldingInner ==
  ASSUME NEW t, NEW m, NEW p
  PROVE  Inners(t, Yielding(p), m)
<1>1. "yielding" \notin SpecialLabels
  BY DEF SpecialLabels, BottomLabels
<1>2. Inner(t, Frame("yielding"), m) /\ Inner(t, Acquire(p), m)
  BY <1>1, FrameInner, AcquireInner, Zenon
<1> QED
  BY <1>2, InnersTwo, Zenon DEF Yielding

LEMMA ClockCallInner ==
  ASSUME NEW t, NEW m, NEW c
  PROVE  Inners(t, ClockCall(c), m)
<1>1. "tick" \notin SpecialLabels
  BY DEF SpecialLabels, BottomLabels
<1>2. Inner(t, Frame("tick"), m) /\ Inner(t, Acquire(tickslock), m)
  BY <1>1, FrameInner, AcquireInner, Zenon
<1>3. Inners(t, <<Frame("tick"), Acquire(tickslock)>>, m) /\ Inners(t, <<>>, m)
  BY <1>2, InnersTwo, InnersNone, Zenon
<1> QED
  BY <1>3 DEF ClockCall

LEMMA KernelTimerFits ==
  ASSUME IInv, NEW c \in CPUs, ~At(c, "user"), cpu[c].sie
  PROVE  Fits(run[c], Len(stack[run[c]]), KernelTimer(c), now)
<1> DEFINE k == Trapped(c)
           f == [at |-> "kt_ret", sepc |-> k.sepc, spie |-> k.spie, spp |-> k.spp]
           y == IF InProcess(c) THEN Yielding(run[c]) ELSE <<>>
<1>1. PICK n \in Nat \ {0} : n = Len(stack[run[c]])
  BY Thread
<1>2. Inners(run[c], y, now) /\ Inners(run[c], ClockCall(c), now)
  BY YieldingInner, InnersNone, ClockCallInner
<1>3. KernelTimer(c) = (<<f>> \o y) \o ClockCall(c)
  BY DEF KernelTimer
<1>4. k.sepc = Here(c) /\ k.spie = cpu[c].sie /\ k.spp = TRUE
  <2>1. DOMAIN cpu[c] = Registers
    BY CPUIs
  <2> QED
    BY <2>1 DEF Trapped, Registers
<1>5. f.at = "kt_ret" /\ f.sepc = <<run[c], n>> /\ f.spie = cpu[c].sie /\ f.spp = TRUE
  BY <1>1, <1>4 DEF Here
<1> HIDE DEF f, y, k
<1>6. Fine(run[c], n + 1, f, now)
  <2>1. n + 1 > 1 /\ n + 1 - 1 = n
    BY <1>1
  <2> QED
    BY <1>5, <2>1 DEF Fine, Interrupted
<1>7. Fits(run[c], n, <<f>>, now)
  BY <1>6, FitsOne, Zenon
<1>8. n \in Nat /\ n > 0
  BY <1>1
<1>9. Fits(run[c], n, <<f>> \o y, now)
  BY <1>2, <1>7, <1>8, FitsCat, Zenon
<1>10. Fits(run[c], n, (<<f>> \o y) \o ClockCall(c), now)
  BY <1>2, <1>8, <1>9, FitsCat, Zenon
<1> QED
  BY <1>1, <1>3, <1>10

\* sret to place n of the thread
LEMMA SretStep ==
  ASSUME IInv, NEW c \in CPUs, NEW k, DOMAIN k = Registers, NEW n, n \in 1..Len(stack[run[c]]),
         k.sepc[2] = n, Sret(c, k)
  PROVE  IInv'
<1>1. n \in 0..Len(stack[run[c]]) /\ n \in Nat /\ n > 0
  BY Thread
<1>2. Fits(run[c], n, <<>>, now)
  BY <1>1, InnersNone, FitsInners, Zenon
<1>3. n + Len(<<>>) > 0
  BY <1>1, NoneFact
<1>4. stack' = [stack EXCEPT ![run[c]] = Over(@, n, <<>>)]
  BY DEF Sret
<1>5. CPUsOK(cpu')
  <2> DEFINE v == [k EXCEPT !.sie = k.spie, !.spie = TRUE, !.spp = FALSE, !.sepc = <<>>]
  <2>1. DOMAIN v = Registers /\ cpu' = [cpu EXCEPT ![c] = v]
    BY DEF Sret
  <2> QED
    BY <2>1, CPUSet, Zenon
<1>6. run' \in [CPUs -> Threads] /\ UNCHANGED <<ticks, now>>
  BY SameRun DEF Sret
<1> QED
  BY <1>1, <1>2, <1>3, <1>4, <1>5, <1>6, Moved, Zenon

\* what kerneltrap() restores
LEMMA RestoredRegs ==
  ASSUME IInv, NEW c \in CPUs, Top(c).at = "kt_ret"
  PROVE  LET k == Restore(cpu[c], Top(c)) IN
         /\ DOMAIN k = Registers /\ k.sepc = <<run[c], Len(stack[run[c]]) - 1>>
         /\ k.spp = TRUE /\ k.spie = TRUE
<1>1. Fine(run[c], Len(stack[run[c]]), Top(c), now)
  BY Thread
<1>2. Interrupted(run[c], Len(stack[run[c]]), Top(c))
  BY <1>1 DEF Fine, First, Sound, Plain, BottomLabels
<1> DEFINE f == Top(c)
           k == Restore(cpu[c], f)
<1>3. f.sepc = <<run[c], Len(stack[run[c]]) - 1>> /\ f.spp = TRUE /\ f.spie = TRUE
  BY <1>2 DEF Interrupted
<1>4. DOMAIN cpu[c] = Registers
  BY CPUIs
<1>5. DOMAIN k = Registers /\ k.sepc = f.sepc /\ k.spp = f.spp /\ k.spie = f.spie
  <2> HIDE DEF f
  <2> QED
    BY <1>4 DEF Restore, Registers
<1> QED
  BY <1>3, <1>5, Zenon

LEMMA KernelReturnStep ==
  ASSUME IInv, NEW c \in CPUs, KernelReturn(c)
  PROVE  IInv'
<1> DEFINE k == Restore(cpu[c], Top(c))
<1>1. Top(c).at = "kt_ret" /\ Sret(c, k)
  BY DEF KernelReturn, At
<1>2. DOMAIN k = Registers /\ k.sepc = <<run[c], Len(stack[run[c]]) - 1>>
  BY <1>1, RestoredRegs, Zenon
<1>3. Len(stack[run[c]]) - 1 \in 1..Len(stack[run[c]])
  BY <1>1, Above DEF BottomLabels
<1> HIDE DEF k
<1>4. k.sepc[2] = Len(stack[run[c]]) - 1
  BY <1>2
<1> QED
  BY <1>1, <1>2, <1>3, <1>4, SretStep, Zenon

LEMMA PrepareReturnStep ==
  ASSUME IInv, NEW c \in CPUs, PrepareReturn(c)
  PROVE  IInv'
<1> DEFINE f == Top(c)
           g == [f EXCEPT !.at = "sret"]
<1>1. f.at = "return" /\ f.at \notin BottomLabels
  BY DEF PrepareReturn, At, BottomLabels
<1>2. DOMAIN f = {"at", "epc", "sys"} /\ f.epc = <<run[c], 1>>
  BY <1>1, TopSound DEF Plain, ReturnOK, BottomLabels
<1>3. CPUsOK(cpu')
  <2>1. DOMAIN Prepared(cpu[c]) = Registers
    BY CPUIs DEF Prepared
  <2>2. cpu' = [cpu EXCEPT ![c] = Prepared(cpu[c])]
    BY DEF PrepareReturn
  <2> QED
    BY <2>1, <2>2, CPUSet, Zenon
<1>4. run' \in [CPUs -> Threads] /\ UNCHANGED <<ticks, now>> /\ Become(c, g)
  BY SameRun DEF PrepareReturn, Goto
<1>5. DOMAIN g = {"at", "epc", "sys"} /\ g.at = "sret" /\ g.epc = f.epc
  <2> HIDE DEF f
  <2> QED
    BY <1>2
<1> HIDE DEF g, f
<1>6. Inner(run[c], g, now)
  BY <1>2, <1>5 DEF Inner, Plain, PauseOK, ReturnOK, BottomLabels
<1> QED
  BY <1>1, <1>3, <1>4, <1>6, BecomeStep DEF f

LEMMA UserReturnStep ==
  ASSUME IInv, NEW c \in CPUs, UserReturn(c)
  PROVE  IInv'
<1> DEFINE e == Top(c).epc
           k == [cpu[c] EXCEPT !.spp = FALSE, !.spie = TRUE, !.sepc = e]
<1>1. Top(c).at = "sret" /\ Sret(c, k)
  BY DEF UserReturn, At
<1>2. e = <<run[c], 1>>
  BY <1>1, TopSound DEF Plain, ReturnOK, BottomLabels
<1>3. 1 \in 1..Len(stack[run[c]])
  BY Thread
<1>4. DOMAIN cpu[c] = Registers
  BY CPUIs
<1> HIDE DEF e
<1>5. DOMAIN k = Registers /\ k.sepc = e
  BY <1>4 DEF Registers
<1> HIDE DEF k
<1>6. k.sepc[2] = 1
  BY <1>2, <1>5
<1> QED
  BY <1>1, <1>3, <1>5, <1>6, SretStep, Zenon

LEMMA ForkretStep ==
  ASSUME IInv, NEW c \in CPUs, Forkret(c)
  PROVE  IInv'
<1> DEFINE f == Top(c)
           g == [f EXCEPT !.at = "return"]
<1>1. f.at = "forkret" /\ f.at \notin BottomLabels
  BY DEF Forkret, At, BottomLabels
<1>2. DOMAIN f = {"at", "epc", "sys"} /\ f.epc = <<run[c], 1>>
  BY <1>1, TopSound DEF Plain, ReturnOK, BottomLabels
<1>3. CPUsOK(cpu') /\ run' \in [CPUs -> Threads] /\ UNCHANGED <<ticks, now>> /\ Become(c, g)
  BY CPUIs, Released, SameRun DEF Forkret, Goto
<1>4. DOMAIN g = {"at", "epc", "sys"} /\ g.at = "return" /\ g.epc = f.epc
  <2> HIDE DEF f
  <2> QED
    BY <1>2
<1> HIDE DEF g, f
<1>5. Inner(run[c], g, now)
  BY <1>2, <1>4 DEF Inner, Plain, PauseOK, ReturnOK, BottomLabels
<1> QED
  BY <1>1, <1>3, <1>5, BecomeStep DEF f

LEMMA KilledFits ==
  ASSUME NEW t, NEW m, NEW n \in Nat, n > 0, NEW p, NEW yes, Inners(t, yes, m), NEW no, Inners(t, no, m)
  PROVE  Fits(t, n, KilledThen(p, yes, no), m)
<1> DEFINE f == [at |-> "killed", yes |-> yes, no |-> no]
<1>1. "at" \in DOMAIN f /\ f.at = "killed" /\ f.yes = yes /\ f.no = no
  OBVIOUS
<1>2. KilledThen(p, yes, no) = <<f, Acquire(p)>>
  BY DEF KilledThen
<1> HIDE DEF f
<1>3. Sound(t, f, m)
  BY <1>1 DEF Sound, Plain, PauseOK, ReturnOK, BottomLabels
<1>4. n + 1 > 1
  OBVIOUS
<1>5. Fine(t, n + 1, f, m)
  BY <1>3, <1>4, SoundFine, Zenon
<1>6. Fits(t, n, <<f, Acquire(p)>>, m)
  BY <1>5, AcquireInner, FitsTwo, Zenon
<1> QED
  BY <1>2, <1>6

LEMMA KilledInner ==
  ASSUME NEW t, NEW m, NEW p
  PROVE  Inners(t, KilledThen(p, Exiting, <<>>), m)
<1> DEFINE f == [at |-> "killed", yes |-> Exiting, no |-> <<>>]
<1>1. "at" \in DOMAIN f /\ f.at = "killed" /\ f.yes = Exiting /\ f.no = <<>>
  OBVIOUS
<1>2. KilledThen(p, Exiting, <<>>) = <<f, Acquire(p)>>
  BY DEF KilledThen
<1> HIDE DEF f
<1>3. Inner(t, f, m)
  BY <1>1 DEF Inner, Plain, PauseOK, ReturnOK, BottomLabels
<1> QED
  BY <1>2, <1>3, AcquireInner, InnersTwo

\* the frame that returns to the user code that c executes
LEMMA BackFrame ==
  ASSUME IInv, NEW c \in CPUs, At(c, "user"), NEW sys
  PROVE  /\ Inners(run[c], <<[at |-> "return", epc |-> Here(c), sys |-> sys]>>, now)
         /\ Len(stack[run[c]]) = 1
<1>1. Fine(run[c], Len(stack[run[c]]), Top(c), now) /\ Top(c).at = "user"
  BY Thread DEF At
<1>2. Len(stack[run[c]]) = 1
  BY <1>1 DEF Fine, First, Sound, Plain, Interrupted, BottomLabels
<1> DEFINE f == [at |-> "return", epc |-> Here(c), sys |-> sys]
<1>3. DOMAIN f = {"at", "epc", "sys"} /\ f.at = "return" /\ f.epc = <<run[c], 1>>
  BY <1>2 DEF Here
<1> HIDE DEF f
<1>4. Inner(run[c], f, now)
  BY <1>3 DEF Inner, Plain, PauseOK, ReturnOK, BottomLabels
<1> QED
  BY <1>2, <1>4, InnersOne DEF f

LEMMA UserTimerFits ==
  ASSUME IInv, NEW c \in CPUs, At(c, "user")
  PROVE  Fits(run[c], Len(stack[run[c]]), UserTimer(c), now)
<1> DEFINE t == run[c]
           back == [at |-> "return", epc |-> Here(c), sys |-> FALSE]
           no == <<back>> \o Yielding(t)
           fs == KilledThen(t, Exiting, no)
<1>1. Inners(t, <<back>>, now) /\ Len(stack[t]) = 1
  BY BackFrame
<1>2. UserTimer(c) = fs \o ClockCall(c)
  BY DEF UserTimer
<1> HIDE DEF back
<1>3. Inners(t, no, now)
  BY <1>1, YieldingInner, InnersCat, Zenon
<1> HIDE DEF no
<1>4. 1 \in Nat /\ 1 > 0
  OBVIOUS
<1>5. Fits(t, 1, fs, now)
  BY <1>3, <1>4, ExitingInner, KilledFits, Zenon
<1> HIDE DEF fs
<1>6. Fits(t, 1, fs \o ClockCall(c), now)
  BY <1>4, <1>5, ClockCallInner, FitsCat, Zenon
<1> QED
  BY <1>1, <1>2, <1>6

LEMMA TimerStep ==
  ASSUME IInv, NEW c \in CPUs, Timer(c)
  PROVE  IInv'
BY KernelTimerFits, UserTimerFits, TrapStep, Zenon DEF Timer

LEMMA EcallStep ==
  ASSUME IInv, NEW c \in CPUs, NEW fs, Inners(run[c], fs, now), Ecall(c, fs)
  PROVE  IInv'
<1> DEFINE t == run[c]
           back == [at |-> "return", epc |-> Here(c), sys |-> TRUE]
           after == <<back>> \o KilledThen(t, Exiting, <<>>)
           no == after \o fs \o <<Frame("syscall")>>
<1>1. Inners(t, <<back>>, now) /\ Len(stack[t]) = 1
  BY BackFrame DEF Ecall
<1>2. Trap(c, KilledThen(t, Exiting, no), <<>>) /\ At(c, "user")
  BY DEF Ecall
<1> HIDE DEF back
<1>3. Inners(t, after, now)
  BY <1>1, KilledInner, InnersCat, Zenon
<1> HIDE DEF after
<1>4. Inners(t, after \o fs, now)
  BY <1>3, InnersCat, Zenon
<1>5. Inners(t, <<Frame("syscall")>>, now)
  <2>1. "syscall" \notin SpecialLabels
    BY DEF SpecialLabels, BottomLabels
  <2> QED
    BY <2>1, FrameInner, InnersOne, Zenon
<1>6. Inners(t, no, now)
  BY <1>4, <1>5, InnersCat, Zenon
<1> HIDE DEF no
<1>7. 1 \in Nat /\ 1 > 0
  OBVIOUS
<1>8. Fits(t, 1, KilledThen(t, Exiting, no), now)
  BY <1>6, <1>7, ExitingInner, KilledFits, Zenon
<1> QED
  BY <1>1, <1>2, <1>8, TrapStep, Zenon

LEMMA SyscallStep ==
  ASSUME IInv, NEW c \in CPUs, Syscall(c)
  PROVE  IInv'
<1> DEFINE t == run[c]
<1>1. t \in Procs
  BY DEF Syscall, InProcess
<1>2. ASSUME NEW n \in Pauses[t], Ecall(c, Pause(n)) PROVE IInv'
  <2> DEFINE f == [at |-> "start", n |-> Clamp(n), asked |-> n, t0 |-> 0, born |-> 0]
  <2>1. n \in Int /\ n < UINT
    BY <1>1, ClockAssumption
  <2>2. /\ DOMAIN f = {"at", "n", "asked", "t0", "born"} /\ "at" \in DOMAIN f
        /\ f.at = "start" /\ f.n = Clamp(n) /\ f.asked = n
    OBVIOUS
  <2>3. Pause(n) = <<f, Acquire(tickslock)>>
    BY DEF Pause
  <2> HIDE DEF f
  <2>4. Inner(t, f, now)
    BY <2>1, <2>2 DEF Inner, Plain, PauseOK, IsPause, ReturnOK, BottomLabels
  <2>5. Inners(t, Pause(n), now)
    BY <2>3, <2>4, AcquireInner, InnersTwo
  <2> QED
    BY <1>2, <2>5, EcallStep, Zenon
<1>3. ASSUME Ecall(c, Uptime) PROVE IInv'
  <2>1. "xticks" \notin SpecialLabels
    BY DEF SpecialLabels, BottomLabels
  <2>2. Inners(t, Uptime, now)
    BY <2>1, FrameInner, AcquireInner, InnersTwo, Zenon DEF Uptime
  <2> QED
    BY <1>3, <2>2, EcallStep, Zenon
<1>4. ASSUME NEW p, Ecall(c, KillCall(p)) PROVE IInv'
  <2> DEFINE f == [at |-> "victim", i |-> 1, pid |-> p]
  <2>1. "at" \in DOMAIN f /\ f.at \notin SpecialLabels
    BY DEF SpecialLabels, BottomLabels
  <2>2. KillCall(p) = <<f, Acquire(proc[1])>>
    BY DEF KillCall
  <2> HIDE DEF f
  <2>3. Inners(t, KillCall(p), now)
    BY <2>1, <2>2, Bare, AcquireInner, InnersTwo, Zenon
  <2> QED
    BY <1>4, <2>3, EcallStep, Zenon
<1> QED
  BY <1>2, <1>3, <1>4 DEF Syscall

LEMMA EnterSyscallStep ==
  ASSUME IInv, NEW c \in CPUs, EnterSyscall(c)
  PROVE  IInv'
<1>1. Top(c).at \notin BottomLabels
  BY DEF EnterSyscall, At, BottomLabels
<1>2. CPUsOK(cpu')
  BY Zenon DEF EnterSyscall, IInv, CPUsOK
<1>3. Return(c) /\ UNCHANGED <<run, ticks, now>>
  BY DEF EnterSyscall
<1> QED
  BY <1>1, <1>2, <1>3, ReturnStep, Zenon

----------------------------------------------------------------------------
(* clockintr() *)

LEMMA WakeInner ==
  ASSUME NEW t, NEW m, NEW c, NEW i
  PROVE  Inners(t, Wake(c, i), m)
<1>1. CASE i > Len(proc)
  <2>1. "ticked" \notin SpecialLabels
    BY DEF SpecialLabels, BottomLabels
  <2>2. Inners(t, <<Frame("ticked")>>, m)
    BY <2>1, FrameInner, InnersOne, Zenon
  <2> QED
    BY <1>1, <2>2 DEF Wake
<1>2. CASE ~(i > Len(proc))
  <2> DEFINE f == [at |-> "wake", i |-> i]
             a == IF proc[i] = run[c] THEN <<>> ELSE <<Acquire(proc[i])>>
  <2>1. "at" \in DOMAIN f /\ f.at \notin SpecialLabels
    BY DEF SpecialLabels, BottomLabels
  <2>2. Wake(c, i) = <<f>> \o a
    BY <1>2 DEF Wake
  <2>3. Inners(t, a, m)
    BY InnersNone, InnersOne, AcquireInner
  <2> HIDE DEF f, a
  <2>4. Inners(t, <<f>>, m)
    BY <2>1, Bare, InnersOne, Zenon
  <2> QED
    BY <2>2, <2>3, <2>4, InnersCat
<1> QED
  BY <1>1, <1>2

LEMMA TickStep ==
  ASSUME IInv, NEW c \in CPUs, Top(c).at = "tick", ticks' = (ticks + 1) % UINT, now' = now + 1,
         Then(c, Wake(c, 1)), UNCHANGED <<cpu, run>>
  PROVE  IInv'
<1>1. PICK n : n = Len(stack[run[c]]) - 1 /\ n \in 1..Len(stack[run[c]])
  BY Above, Zenon DEF BottomLabels
<1>2. PICK m : m = now + 1
  OBVIOUS
<1>3. now \in Nat /\ m \in Nat /\ now <= m /\ ticks = (UINT - 1 + now) % UINT /\ UINT \in Nat \ {0}
  BY <1>2, ClockAssumption DEF IInv
<1>4. PICK fs : fs = Wake(c, 1)
  OBVIOUS
<1>5. Inners(run[c], fs, m)
  BY <1>4, WakeInner
<1>6. n \in Nat /\ n > 0 /\ n \in 0..Len(stack[run[c]]) /\ n + Len(fs) > 0
  <2>1. Len(stack[run[c]]) \in Nat
    BY Thread
  <2>2. Len(fs) \in Nat
    BY <1>5, CatFacts DEF Inners
  <2> QED
    BY <1>1, <2>1, <2>2
<1>7. Fits(run[c], n, fs, m)
  BY <1>5, <1>6, FitsInners, Zenon
<1>8. stack' = [stack EXCEPT ![run[c]] = Over(@, n, fs)]
  BY <1>1, <1>4 DEF Then
<1>9. Stacks(stack', m)
  BY <1>3, <1>6, <1>7, <1>8, Stacked, Zenon
<1>10. ticks' = (UINT - 1 + (now + 1)) % UINT
  BY <1>3, NextTick, Zenon
<1>11. CPUsOK(cpu') /\ run' \in [CPUs -> Threads]
  BY SameCPU, SameRun, SMTT(30)
<1> QED
  BY <1>2, <1>3, <1>9, <1>10, <1>11 DEF IInv

LEMMA ClockIntrStep ==
  ASSUME IInv, NEW c \in CPUs, ClockIntr(c)
  PROVE  IInv'
<1> DEFINE f == Top(c)
           p == proc[f.i]
<1>1. CASE f.at = "tick"
  BY <1>1, TickStep DEF ClockIntr
<1>2. CASE f.at = "wake"
  <2>1. f.at \notin BottomLabels
    BY <1>2, SMTT(30) DEF BottomLabels
  <2>2. CPUsOK(cpu') /\ run' \in [CPUs -> Threads] /\ UNCHANGED <<ticks, now>>
    BY <1>2, CPUIs, Released, SameCPU, SameRun, ZenonT(30) DEF ClockIntr
  <2>3. Then(c, Wake(c, f.i + 1))
    BY <1>2 DEF ClockIntr
  <2> QED
    BY <2>1, <2>2, <2>3, WakeInner, ThenStep, Zenon
<1>3. CASE f.at = "ticked"
  <2>1. f.at \notin BottomLabels
    BY <1>3, SMTT(30) DEF BottomLabels
  <2>2. CPUsOK(cpu') /\ Return(c) /\ UNCHANGED <<run, ticks, now>>
    BY <1>3, CPUIs, Released, ZenonT(30) DEF ClockIntr
  <2> QED
    BY <2>1, <2>2, ReturnStep, Zenon
<1> QED
  BY <1>1, <1>2, <1>3, SMTT(30) DEF ClockIntr

----------------------------------------------------------------------------
(* System calls *)

\* when the loop of sys_pause() ends, the ticks asked for have passed
LEMMA Waited ==
  ASSUME IInv, NEW f, IsPause(f), Began(f, now), ~Waiting(ticks, f)
  PROVE  now - f.born >= f.asked
<1>1. /\ UINT \in Nat \ {0} /\ now \in Nat /\ ticks = (UINT - 1 + now) % UINT
      /\ f.born \in 0..now /\ f.t0 = (UINT - 1 + f.born) % UINT
      /\ f.asked \in Int /\ f.asked < UINT /\ f.n = Clamp(f.asked)
  BY ClockAssumption DEF IInv, IsPause, Began
<1> DEFINE d == (ticks - f.t0) % UINT
<1>2. d <= now - f.born
  BY <1>1, Elapsed, Zenon
<1>3. f.n % UINT = f.n /\ f.n \in Nat /\ f.n >= f.asked
  BY <1>1 DEF Clamp
<1>4. ~(d < f.n)
  BY <1>3 DEF Waiting
<1>5. d \in Int
  <2>1. ticks \in Int /\ f.t0 \in Int
    BY <1>1
  <2> QED
    BY <1>1, <2>1
<1> HIDE DEF d
<1> QED
  BY <1>1, <1>2, <1>3, <1>4, <1>5

\* a frame of sys_pause() at another label
LEMMA Relabelled ==
  ASSUME NEW t, NEW m, NEW f, IsPause(f), Began(f, m), NEW l \in {"while", "failed", "paused"},
         l = "paused" => m - f.born >= f.asked
  PROVE  Inner(t, [f EXCEPT !.at = l], m)
<1> DEFINE g == [f EXCEPT !.at = l]
<1>1. /\ DOMAIN g = {"at", "n", "asked", "t0", "born"} /\ "at" \in DOMAIN g /\ g.at = l
      /\ g.n = f.n /\ g.asked = f.asked /\ g.t0 = f.t0 /\ g.born = f.born
  BY DEF IsPause
<1> HIDE DEF g
<1>2. IsPause(g) /\ Began(g, m)
  BY <1>1 DEF IsPause, Began
<1>3. Inner(t, g, m)
  BY <1>1, <1>2 DEF Inner, Plain, PauseOK, ReturnOK, BottomLabels
<1> QED
  BY <1>3 DEF g

LEMMA LoopStep ==
  ASSUME IInv, NEW c \in CPUs, Top(c).at \notin BottomLabels, NEW f, IsPause(f), Began(f, now), Loop(c, f)
  PROVE  IInv'
<1> DEFINE t == run[c]
           yes == <<[f EXCEPT !.at = "failed"]>>
           no == <<[f EXCEPT !.at = "while"]>> \o Sleeping(t)
<1>1. CPUsOK(cpu') /\ run' \in [CPUs -> Threads] /\ UNCHANGED <<run, ticks, now>>
  BY SameCPU, SameRun DEF Loop
<1>2. CASE Waiting(ticks, f)
  <2>1. Inners(t, Sleeping(t), now)
    <3>1. "unlock" \notin SpecialLabels
      BY DEF SpecialLabels, BottomLabels
    <3> QED
      BY <3>1, FrameInner, AcquireInner, InnersTwo, Zenon DEF Sleeping
  <2>2. Inner(t, [f EXCEPT !.at = "failed"], now) /\ Inner(t, [f EXCEPT !.at = "while"], now)
    BY Relabelled, Zenon
  <2>3. Inners(t, yes, now) /\ Inners(t, no, now)
    BY <2>1, <2>2, InnersOne, InnersCat, Zenon
  <2>4. Then(c, KilledThen(t, yes, no))
    BY <1>2 DEF Loop
  <2> HIDE DEF yes, no
  <2>5. PICK n : n = Len(stack[run[c]]) - 1 /\ n \in 1..Len(stack[run[c]])
    BY Above, Zenon
  <2>6. n \in Nat /\ n > 0
    BY <2>5, Thread
  <2>7. Fits(t, n, KilledThen(t, yes, no), now)
    BY <2>3, <2>6, KilledFits, Zenon
  <2>8. PICK fs : fs = KilledThen(t, yes, no)
    OBVIOUS
  <2>9. Len(fs) \in Nat /\ Len(fs) > 0
    BY <2>8, TwoFact DEF KilledThen
  <2> QED
    BY <1>1, <2>4, <2>5, <2>7, <2>8, <2>9, FirstStep, Zenon
<1>3. CASE ~Waiting(ticks, f)
  <2>1. Inner(t, [f EXCEPT !.at = "paused"], now)
    BY <1>3, Waited, Relabelled, Zenon
  <2>2. Become(c, [f EXCEPT !.at = "paused"])
    BY <1>3 DEF Loop, Become
  <2> QED
    BY <1>1, <2>1, <2>2, BecomeStep, Zenon
<1> QED
  BY <1>2, <1>3

LEMMA SysPauseStep ==
  ASSUME IInv, NEW c \in CPUs, SysPause(c)
  PROVE  IInv'
<1> DEFINE f == Top(c)
<1>1. f.at \in {"start", "while", "paused", "failed"} /\ f.at \notin BottomLabels /\ f.at # "kt_ret"
  BY DEF SysPause, BottomLabels
<1>2. PauseOK(f, now)
  BY <1>1, TopSound DEF Plain
<1>3. CASE f.at = "start"
  <2> DEFINE g == [f EXCEPT !.t0 = ticks, !.born = now]
  <2>1. IsPause(f)
    BY <1>2, <1>3 DEF PauseOK
  <2>2. Loop(c, g)
    BY <1>3 DEF SysPause
  <2>3. /\ DOMAIN g = {"at", "n", "asked", "t0", "born"} /\ g.n = f.n /\ g.asked = f.asked
        /\ g.t0 = ticks /\ g.born = now
    <3> HIDE DEF f
    <3> QED
      BY <2>1 DEF IsPause
  <2>4. now \in 0..now /\ ticks = (UINT - 1 + now) % UINT
    BY DEF IInv
  <2> HIDE DEF g
  <2>5. IsPause(g) /\ Began(g, now)
    BY <2>1, <2>3, <2>4 DEF IsPause, Began
  <2> QED
    BY <1>1, <2>2, <2>5, LoopStep, Zenon
<1>4. CASE f.at = "while"
  <2>1. IsPause(f) /\ Began(f, now)
    BY <1>2, <1>4 DEF PauseOK
  <2>2. Loop(c, f)
    BY <1>4 DEF SysPause
  <2> QED
    BY <1>1, <2>1, <2>2, LoopStep, Zenon
<1>5. CASE f.at \in {"paused", "failed"}
  <2>1. CPUsOK(cpu') /\ Return(c) /\ UNCHANGED <<run, ticks, now>>
    BY <1>5, CPUIs, Released DEF SysPause
  <2> QED
    BY <1>1, <2>1, ReturnStep, Zenon
<1> QED
  BY <1>1, <1>3, <1>4, <1>5

LEMMA SysUptimeStep ==
  ASSUME IInv, NEW c \in CPUs, SysUptime(c)
  PROVE  IInv'
<1>1. Top(c).at \notin BottomLabels
  BY DEF SysUptime, At, BottomLabels
<1>2. CPUsOK(cpu') /\ Return(c) /\ UNCHANGED <<run, ticks, now>>
  BY CPUIs, Released DEF SysUptime
<1> QED
  BY <1>1, <1>2, ReturnStep, Zenon

LEMMA KillStep ==
  ASSUME IInv, NEW c \in CPUs, Kill(c)
  PROVE  IInv'
<1> DEFINE f == Top(c)
           g == [f EXCEPT !.i = @ + 1]
<1>1. f.at = "victim" /\ f.at \notin BottomLabels /\ f.at # "kt_ret"
  BY DEF Kill, BottomLabels
<1>2. CPUsOK(cpu') /\ UNCHANGED <<run, ticks, now>>
  BY CPUIs, Released DEF Kill
<1>3. CASE Return(c)
  BY <1>1, <1>2, <1>3, ReturnStep, Zenon
<1>4. CASE Then(c, <<g, Acquire(proc[f.i + 1])>>)
  <2>1. "at" \in DOMAIN f
    BY <1>1, TopSound
  <2>2. "at" \in DOMAIN g /\ g.at = "victim"
    <3> HIDE DEF f
    <3> QED
      BY <1>1, <2>1
  <2>3. "victim" \notin SpecialLabels
    BY DEF SpecialLabels, BottomLabels
  <2> HIDE DEF g
  <2>4. Inner(run[c], g, now)
    BY <2>2, <2>3, Bare
  <2> QED
    BY <1>1, <1>2, <1>4, <2>4, TwoStep, Zenon
<1> QED
  BY <1>3, <1>4 DEF Kill

----------------------------------------------------------------------------
(* The theorems *)

LEMMA InitOK ==
  ASSUME Init
  PROVE  IInv
<1>1. CPUsOK(cpu)
  BY DEF Init, CPUsOK, Registers
<1>2. run \in [CPUs -> Threads]
  BY DEF Init, Threads
<1>3. now \in Nat /\ ticks = (UINT - 1 + now) % UINT
  <2>1. UINT \in Nat \ {0} /\ 0 \in Nat /\ UINT - 1 \in 0..UINT - 1
    BY ClockAssumption
  <2>2. (UINT * 0 + (UINT - 1)) % UINT = UINT - 1
    BY <2>1, ModUnique, Zenon
  <2>3. UINT * 0 + (UINT - 1) = UINT - 1 + 0
    BY <2>1
  <2> QED
    BY <2>2, <2>3 DEF Init
<1>4. stack = [t \in Threads |-> stack[t]]
  BY DEF Init, Threads
<1>5. ASSUME NEW t \in Threads PROVE StackOK(t, stack[t], now)
  <2>1. CASE t \in CPUs
    <3> DEFINE f == Frame("intr_on")
    <3>1. stack[t] = <<f>>
      BY <2>1 DEF Init, Threads
    <3>2. "at" \in DOMAIN f /\ f.at = "intr_on"
      BY DEF Frame
    <3> HIDE DEF f
    <3>3. Fine(t, 0 + 1, f, now)
      BY <3>2 DEF Fine, First, BottomLabels
    <3> QED
      BY <3>1, <3>3, FitsOne, OneFact DEF StackOK
  <2>2. CASE t \notin CPUs
    <3> DEFINE f == Frame("user")
               g == [at |-> "forkret", epc |-> <<t, 1>>, sys |-> FALSE]
    <3>1. stack[t] = <<f, g>>
      BY <2>2, Zenon DEF Init, Threads
    <3>2. "at" \in DOMAIN f /\ f.at = "user"
      BY DEF Frame
    <3>3. DOMAIN g = {"at", "epc", "sys"} /\ g.at = "forkret" /\ g.epc = <<t, 1>>
      OBVIOUS
    <3> HIDE DEF f, g
    <3>4. Fine(t, 0 + 1, f, now)
      BY <3>2 DEF Fine, First, BottomLabels
    <3>5. Inner(t, g, now)
      BY <3>3 DEF Inner, Plain, PauseOK, ReturnOK, BottomLabels
    <3>6. 0 \in Nat
      OBVIOUS
    <3>7. Fits(t, 0, <<f, g>>, now)
      BY <3>4, <3>5, <3>6, FitsTwo, Zenon
    <3> QED
      BY <3>1, <3>7, TwoFact DEF StackOK
  <2> QED
    BY <2>1, <2>2
<1> QED
  BY <1>1, <1>2, <1>3, <1>4, <1>5, SMTT(30) DEF IInv, Stacks

LEMMA NextOK ==
  ASSUME IInv, [Next]_vars
  PROVE  IInv'
<1>1. ASSUME NEW c \in CPUs, Switching(c) PROVE IInv'
  BY <1>1, ReadyStep, SchedulerOffStep, LookStep, BackStep, YieldStep, SleepStep, ExitStep, KilledStep,
     Zenon DEF Switching
<1>2. ASSUME NEW c \in CPUs, Trapping(c) PROVE IInv'
  BY <1>2, TimerStep, ClockIntrStep, KernelReturnStep, SyscallStep, EnterSyscallStep,
     PrepareReturnStep, UserReturnStep, ForkretStep, Zenon DEF Trapping
<1>3. ASSUME NEW c \in CPUs, Calling(c) PROVE IInv'
  BY <1>3, SysPauseStep, SysUptimeStep, KillStep, Zenon DEF Calling
<1>4. CASE Next
  BY <1>1, <1>2, <1>3, <1>4, LockingStep, Zenon DEF Next
<1>5. CASE UNCHANGED vars
  BY <1>5 DEF IInv, vars
<1> QED
  BY <1>4, <1>5

\* Every frame of every thread is right for its place, in every reachable state:
\* what kerneltrap() and usertrap() keep in their frames names the frame they
\* interrupted, and sys_pause() knows the tick it began at.
THEOREM FramesInPlace == Spec => []IInv
<1>1. Init => IInv
  BY InitOK
<1>2. IInv /\ [Next]_vars => IInv'
  BY NextOK
<1> QED
  BY <1>1, <1>2, PTL DEF Spec

\* A trap returns to the code it interrupted, in the mode it interrupted, on
\* whatever CPU kerneltrap() ends after yield(): for any number of CPUs, of
\* processes and of nested traps.
THEOREM TrapsReturnHome == Spec => []TrapReturnsHome
<1>1. IInv => TrapReturnsHome
  <2> SUFFICES ASSUME IInv, NEW c \in CPUs, Top(c).at = "kt_ret"
               PROVE  LET k == Restore(cpu[c], Top(c)) IN
                      k.sepc = <<run[c], Len(stack[run[c]]) - 1>> /\ k.spp /\ k.spie
    BY Zenon DEF TrapReturnsHome, At
  <2> QED
    BY RestoredRegs, Zenon
<1> QED
  BY <1>1, FramesInPlace, PTL

\* sys_pause() returns 0 only after the ticks it was asked for, for any width
\* of the tick counter and however often it wraps.
THEOREM PausesNeverEarly == Spec => []NeverEarly
<1>1. IInv => NeverEarly
  <2> SUFFICES ASSUME IInv, NEW p \in Procs, NEW i \in DOMAIN stack[p], stack[p][i].at = "paused"
               PROVE  now - stack[p][i].born >= stack[p][i].asked
    BY DEF NeverEarly
  <2> DEFINE s == stack[p]
  <2>1. StackOK(p, s, now)
    BY Zenon DEF IInv, Stacks, Threads
  <2> HIDE DEF s
  <2>2. IsSeq(s) /\ \A j \in 1..Len(s) : Fine(p, 0 + j, s[j], now)
    BY <2>1 DEF StackOK, Fits
  <2>3. i \in 1..Len(s)
    BY <2>2 DEF IsSeq, s
  <2>4. Fine(p, 0 + i, s[i], now) /\ s[i].at = "paused"
    BY <2>2, <2>3, SMTT(30) DEF s
  <2>5. PauseOK(s[i], now)
    BY <2>4 DEF Fine, First, Sound, Plain, Interrupted, BottomLabels
  <2> QED
    BY <2>4, <2>5 DEF PauseOK, s
<1> QED
  BY <1>1, FramesInPlace, PTL

====
