-------------------------------- MODULE Uart --------------------------------
(***************************************************************************)
(* Console output (kernel/uart.c, console.c): write() puts characters in a *)
(* ring that the transmit interrupt empties; printf() and echo go to the   *)
(* device directly, without the ring's lock.  The device (external) has a  *)
(* FIFO of characters, and raises its interrupt when the FIFO runs empty;  *)
(* giving it a character, or reading ISR, takes the request back.          *)
(***************************************************************************)
EXTENDS Integers, Sequences, FiniteSets

CONSTANTS
  Writer,        \* processes in write()
  Printer,       \* CPUs in printf()
  Intr, None,    \* uartintr()
  SIZE,          \* UART_TX_BUF_SIZE
  DEPTH,         \* of the device's FIFO
  MaxC,          \* bound on the characters of a write()
  MaxIn,         \* bound on the characters typed
  MayPanic       \* whether a printer may panic()

\* What is assumed of the constants.
UartAssumption == {SIZE, DEPTH, MaxC} \subseteq Nat \ {0} /\ MaxIn \in Nat /\ MayPanic \in BOOLEAN

VARIABLES
  buf, r, w,         \* uart_tx_buf, uart_tx_r, uart_tx_w
  lock,              \* holder of uart_tx_lock, or None
  pc, left,          \* of every actor, and the characters it still has
  panicked,
  fifo, irq, sent,   \* of the device; what it has sent
  typed,             \* characters typed but not fetched
  accepted           \* history: what write() put in the ring

ring == <<buf, r, w>>
device == <<fifo, irq, sent>>
Actor == Writer \cup Printer \cup {Intr}
vars == <<ring, lock, pc, left, panicked, device, typed, accepted>>

Init ==
  /\ buf = [i \in 0..SIZE - 1 |-> None] /\ r = 0 /\ w = 0 /\ lock = None
  /\ pc = [a \in Actor |-> IF a \in Writer THEN "put" ELSE IF a \in Printer THEN "sync" ELSE "idle"]
  /\ left = [a \in Actor |-> IF a = Intr THEN MaxIn ELSE MaxC]
  /\ panicked = FALSE
  /\ fifo = <<>> /\ irq = FALSE /\ sent = <<>> /\ typed = 0 /\ accepted = <<>>

\* Mutant: the ring is full one character too late.
FullLate == w = r + SIZE + 1

Full == w = r + SIZE

\* Mutant: consolewrite() goes one character past the last.
MorePast(p) == left[p] >= 0

\* consolewrite()'s loop goes on.
More(p) == left[p] > 0

\* uartputc() of consolewrite()'s next character; uart_tx_lock is taken for uartstart().
\* panicked is tested on entry, not after a sleep.
uartputc(p) ==
  /\ (pc[p] = "put" /\ More(p) /\ ~panicked) \/ pc[p] = "woken"
  /\ lock = None
  /\ IF Full
     THEN /\ pc' = [pc EXCEPT ![p] = "sleep"]
          /\ UNCHANGED <<ring, lock, left, accepted>>
     ELSE /\ buf' = [buf EXCEPT ![w % SIZE] = <<p, left[p]>>] /\ w' = w + 1
          /\ accepted' = Append(accepted, <<p, left[p]>>)
          /\ left' = [left EXCEPT ![p] = @ - 1]
          /\ lock' = p /\ pc' = [pc EXCEPT ![p] = "start"]
          /\ UNCHANGED r
  /\ UNCHANGED <<panicked, device, typed>>

\* if(panicked) for(;;), with the lock
spin(p) ==
  /\ pc[p] = "put" /\ More(p) /\ lock = None /\ panicked
  /\ lock' = p /\ pc' = [pc EXCEPT ![p] = "spin"]
  /\ UNCHANGED <<ring, left, panicked, device, typed, accepted>>

\* Mutant: the test of LSR_TX_IDLE is the wrong way round.
BusyInverted == fifo = <<>>

\* LSR_TX_IDLE is clear: uartstart() must wait for the interrupt.
Busy == fifo # <<>>

After(a) == IF a = Intr THEN "idle" ELSE "put"

\* The two returns of uartstart(), and the release that follows.
startReturns(a) ==
  /\ pc[a] = "start" /\ (w = r \/ Busy)
  /\ irq' = (irq /\ w # r)    \* ReadReg(ISR) if the ring is empty
  /\ lock' = None /\ pc' = [pc EXCEPT ![a] = After(a)]
  /\ UNCHANGED <<ring, left, panicked, fifo, sent, typed, accepted>>

\* uartstart() finds the device idle.
startIdle(a) ==
  /\ pc[a] = "start" /\ w # r /\ ~Busy
  /\ pc' = [pc EXCEPT ![a] = "send"]
  /\ UNCHANGED <<ring, lock, left, panicked, device, typed, accepted>>

\* Mutant: wakeup() is left out.
WokenNone(q) == q

\* wakeup(&uart_tx_r)
Woken(q) == IF q = "sleep" THEN "woken" ELSE q

WriteTHR(c) == fifo' = Append(fifo, c) /\ irq' = FALSE /\ UNCHANGED sent

\* uartstart() sends a character.
send(a) ==
  /\ pc[a] = "send"
  /\ WriteTHR(buf[r % SIZE]) /\ r' = r + 1
  /\ pc' = [[b \in Actor |-> Woken(pc[b])] EXCEPT ![a] = "start"]
  /\ UNCHANGED <<buf, w, lock, left, panicked, typed, accepted>>

\* Mutant: uartputc_sync() does not wait for the device.
ReadyAlways == TRUE

\* uartputc_sync()'s busy wait is over.
Ready == fifo = <<>>

\* uartputc_sync(), of printf() or of an echo: the test of panicked, ...
syncTest(a) ==
  /\ pc[a] = "sync" /\ (a = Intr \/ left[a] > 0) /\ ~panicked
  /\ pc' = [pc EXCEPT ![a] = "poll"]
  /\ UNCHANGED <<ring, lock, left, panicked, device, typed, accepted>>

\* ... the wait, ...
syncWait(a) ==
  /\ pc[a] = "poll" /\ Ready
  /\ pc' = [pc EXCEPT ![a] = "thr"]
  /\ UNCHANGED <<ring, lock, left, panicked, device, typed, accepted>>

\* ... and the character.
syncPut(a) ==
  /\ pc[a] = "thr"
  /\ WriteTHR(<<a, left[a]>>)
  /\ left' = [left EXCEPT ![a] = IF a = Intr THEN @ ELSE @ - 1]
  /\ pc' = [pc EXCEPT ![a] = IF a = Intr THEN "rx" ELSE "sync"]
  /\ UNCHANGED <<ring, lock, panicked, typed, accepted>>

\* panic(), after its message
panic(a) ==
  /\ MayPanic /\ a \in Printer /\ pc[a] = "sync" /\ left[a] = 0
  /\ panicked' = TRUE /\ pc' = [pc EXCEPT ![a] = "spin"]
  /\ UNCHANGED <<ring, lock, left, device, typed, accepted>>

\* devintr() claims the interrupt and calls uartintr().
uartintr ==
  /\ pc[Intr] = "idle" /\ (irq \/ typed > 0)
  /\ pc' = [pc EXCEPT ![Intr] = "rx"]
  /\ UNCHANGED <<ring, lock, left, panicked, device, typed, accepted>>

\* An iteration of uartintr(): a character to consoleintr(), which echoes it.
uartgetc ==
  /\ pc[Intr] = "rx" /\ typed > 0
  /\ typed' = typed - 1 /\ pc' = [pc EXCEPT ![Intr] = "sync"]
  /\ UNCHANGED <<ring, lock, left, panicked, device, accepted>>

\* uartintr() has no more input: uartstart() with the lock.
intrStart ==
  /\ pc[Intr] = "rx" /\ typed = 0 /\ lock = None
  /\ lock' = Intr /\ pc' = [pc EXCEPT ![Intr] = "start"]
  /\ UNCHANGED <<ring, left, panicked, device, typed, accepted>>

\* A key is pressed.
key ==
  /\ left[Intr] > 0 /\ left' = [left EXCEPT ![Intr] = @ - 1]
  /\ typed' = typed + 1
  /\ UNCHANGED <<ring, lock, pc, panicked, device, accepted>>

\* The device sends a character.
transmit ==
  /\ fifo # <<>>
  /\ sent' = Append(sent, Head(fifo)) /\ fifo' = Tail(fifo)
  /\ irq' = (irq \/ fifo' = <<>>)
  /\ UNCHANGED <<ring, lock, pc, left, panicked, typed, accepted>>

start(a) == startReturns(a) \/ startIdle(a) \/ send(a)
sync(a) == syncTest(a) \/ syncWait(a) \/ syncPut(a)

Next ==
  \/ \E p \in Writer : uartputc(p) \/ spin(p)
  \/ \E a \in Actor : start(a) \/ sync(a) \/ panic(a)
  \/ uartintr \/ uartgetc \/ intrStart \/ key \/ transmit

Spec == Init /\ [][Next]_vars

\* The device sends, an interrupt is taken, a CPU in the kernel goes on, a lock that is
\* free again and again is taken, and a busy wait sees an idle device that often is.
FairSpec ==
  /\ Spec /\ WF_vars(transmit) /\ WF_vars(uartintr) /\ WF_vars(uartgetc) /\ SF_vars(intrStart)
  /\ \A a \in Actor : WF_vars(start(a) \/ syncTest(a) \/ syncPut(a)) /\ SF_vars(syncWait(a))
  /\ \A p \in Writer : SF_vars(uartputc(p))

-----------------------------------------------------------------------------
\* Every variable has its type: no writer, printer or echo sends more than it
\* has left.
TypeOK ==
  /\ r \in Nat /\ w \in Nat /\ lock \in Actor \cup {None}
  /\ pc \in [Actor -> {"put", "sleep", "woken", "spin", "start", "send", "sync", "poll", "thr", "idle", "rx"}]
  /\ left \in [Actor -> 0..MaxC + MaxIn] /\ {panicked, irq} \subseteq BOOLEAN /\ typed \in 0..MaxIn

\* What write() accepted leaves in the order it was accepted, none lost and none twice.
InOrder ==
  LET written(c) == c[1] \in Writer
      ringed == [i \in 1..w - r |-> buf[(r + i - 1) % SIZE]]
  IN  SelectSeq(sent \o fifo, written) \o ringed = accepted

\* However printers and uartstart() race for the device after seeing it idle, there is
\* room in its FIFO for all of them.
FifoFits == Len(fifo) <= DEPTH

\* Characters in the ring are never stranded: the device is busy and will interrupt, has
\* interrupted, or somebody is in uartstart() or about to be.
Underway == w # r => fifo # <<>> \/ irq \/ lock # None \/ pc[Intr] # "idle"

\* A writer sleeps only while the ring is full.
NoLostWakeup == \A p \in Writer : pc[p] = "sleep" => w = r + SIZE

\* Everything that is written, printed and echoed is sent.
AllSent == <>[](w = r /\ fifo = <<>> /\ \A a \in Writer \cup Printer : left[a] = 0)

\* panic() freezes the output of other CPUs: once it has, no character of theirs is
\* given to the device.
Frozen == [][panicked => Len(fifo') <= Len(fifo)]_vars
=============================================================================
