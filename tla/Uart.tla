------------------------------- MODULE Uart -------------------------------
(***************************************************************************)
(* Output through the UART, kernel/uart.c: uartwrite(), which waits for    *)
(* the transmit interrupt, uartputc_sync(), which polls and ignores        *)
(* tx_lock, and the transmit half of uartintr().  The UART raises the      *)
(* transmit interrupt when its FIFO becomes empty; a write to THR or a     *)
(* read of ISR clears it.                                                  *)
(***************************************************************************)
EXTENDS Naturals, FiniteSets

CONSTANTS
  Writers,        \* processes in uartwrite()
  Syncs,          \* CPUs in uartputc_sync()
  Nobody,
  MaxN            \* bound on the length of a write

ASSUME UartAssumption ==
  /\ IsFiniteSet(Syncs)
  /\ Nobody \notin Writers
  /\ MaxN \in Nat \ {0}

Handler == "uartintr"

VARIABLES
  tx_busy,
  lock,           \* tx_lock
  pc, left,       \* of each writer; the characters it has still to send
  spc,            \* of each CPU in uartputc_sync()
  hpc,            \* of the interrupt handler
  fifo, irq       \* the device: characters to transmit, interrupt pending

vars == <<tx_busy, lock, pc, left, spc, hpc, fifo, irq>>

Init ==
  /\ tx_busy = FALSE
  /\ lock = Nobody
  /\ pc = [w \in Writers |-> "idle"]
  /\ left = [w \in Writers |-> 0]
  /\ spc = [s \in Syncs |-> "idle"]
  /\ hpc = "idle"
  /\ fifo = 0
  /\ irq = FALSE

\* WriteReg(THR, c)
WriteTHR == fifo' = fifo + 1 /\ irq' = FALSE

----------------------------------------------------------------------------
(* uartwrite() *)

Call(w, n) ==
  /\ pc[w] = "idle"
  /\ pc' = [pc EXCEPT ![w] = "lock"]
  /\ left' = [left EXCEPT ![w] = n]
  /\ UNCHANGED <<tx_busy, lock, spc, hpc, fifo, irq>>

Lock(w) ==
  /\ pc[w] = "lock"
  /\ lock = Nobody
  /\ lock' = w
  /\ pc' = [pc EXCEPT ![w] = "send"]
  /\ UNCHANGED <<tx_busy, left, spc, hpc, fifo, irq>>

MustWait == tx_busy

\* while(i < n)
More(w) == left[w] > 0

\* sleep(&tx_chan, &tx_lock)
Sleep(w) ==
  /\ pc[w] = "send"
  /\ More(w)
  /\ MustWait
  /\ lock' = Nobody
  /\ pc' = [pc EXCEPT ![w] = "asleep"]
  /\ UNCHANGED <<tx_busy, left, spc, hpc, fifo, irq>>

Send(w) ==
  /\ pc[w] = "send"
  /\ More(w)
  /\ ~MustWait
  /\ WriteTHR
  /\ left' = [left EXCEPT ![w] = @ - 1]
  /\ tx_busy' = TRUE
  /\ UNCHANGED <<lock, pc, spc, hpc>>

Return(w) ==
  /\ pc[w] = "send"
  /\ ~More(w)
  /\ lock' = Nobody
  /\ pc' = [pc EXCEPT ![w] = "idle"]
  /\ UNCHANGED <<tx_busy, left, spc, hpc, fifo, irq>>

\* kkill() makes a sleeper runnable.
Kill(w) ==
  /\ pc[w] = "asleep"
  /\ pc' = [pc EXCEPT ![w] = "lock"]
  /\ UNCHANGED <<tx_busy, lock, left, spc, hpc, fifo, irq>>

----------------------------------------------------------------------------
(* uartputc_sync() *)

\* LSR_TX_IDLE is set
SyncSee(s) ==
  /\ spc[s] = "idle"
  /\ fifo = 0
  /\ spc' = [spc EXCEPT ![s] = "put"]
  /\ UNCHANGED <<tx_busy, lock, pc, left, hpc, fifo, irq>>

SyncPut(s) ==
  /\ spc[s] = "put"
  /\ WriteTHR
  /\ spc' = [spc EXCEPT ![s] = "idle"]
  /\ UNCHANGED <<tx_busy, lock, pc, left, hpc>>

----------------------------------------------------------------------------
(* uartintr() *)

\* The interrupt is for a transmission, or for input; the read of ISR clears the
\* transmit interrupt, unless ISR reported the input.
IntrAck ==
  /\ hpc = "idle"
  /\ irq' = FALSE \/ UNCHANGED irq
  /\ hpc' = "lock"
  /\ UNCHANGED <<tx_busy, lock, pc, left, spc, fifo>>

IntrLock ==
  /\ hpc = "lock"
  /\ lock = Nobody
  /\ lock' = Handler
  /\ hpc' = "check"
  /\ UNCHANGED <<tx_busy, pc, left, spc, fifo, irq>>

TxIdle == fifo = 0

\* Mutant: nobody is woken.
WakeNobody == pc

\* pc after wakeup(&tx_chan)
WakeTx == [w \in Writers |-> IF pc[w] = "asleep" THEN "lock" ELSE pc[w]]

IntrTx ==
  /\ hpc = "check"
  /\ IF TxIdle THEN tx_busy' = FALSE /\ pc' = WakeTx ELSE UNCHANGED <<tx_busy, pc>>
  /\ lock' = Nobody
  /\ hpc' = "idle"
  /\ UNCHANGED <<left, spc, fifo, irq>>

\* The device transmits a character.
Transmit ==
  /\ fifo > 0
  /\ fifo' = fifo - 1
  /\ irq' = (irq \/ fifo = 1)
  /\ UNCHANGED <<tx_busy, lock, pc, left, spc, hpc>>

----------------------------------------------------------------------------

Step(w) == Lock(w) \/ Sleep(w) \/ Send(w) \/ Return(w)

Next ==
  \/ \E w \in Writers : Step(w) \/ Kill(w) \/ \E n \in 1..MaxN : Call(w, n)
  \/ \E s \in Syncs : SyncSee(s) \/ SyncPut(s)
  \/ IntrAck \/ IntrLock \/ IntrTx
  \/ Transmit

Spec == Init /\ [][Next]_vars

\* The UART transmits, a pending interrupt is taken, and a lock that is released
\* again and again is got.
Fairness ==
  /\ \A w \in Writers : SF_vars(Step(w))
  /\ WF_vars(irq /\ IntrAck)
  /\ SF_vars(IntrLock)
  /\ WF_vars(IntrTx)
  /\ WF_vars(Transmit)

FairSpec == Spec /\ Fairness

----------------------------------------------------------------------------
(* Properties *)

\* If the kernel stops echoing and printing at some point, every writer that waits
\* for the transmitter is woken: no transmit interrupt is lost to a uartputc_sync()
\* that refills the FIFO before uartintr() looks at it.  (Which of several writers
\* sends next is up to tx_lock; uartwrite() is not fair to them.)
SleepersWoken ==
  <>[](\A s \in Syncs : spc[s] = "idle") =>
    \A w \in Writers : pc[w] = "asleep" ~> pc[w] # "asleep"
=============================================================================
