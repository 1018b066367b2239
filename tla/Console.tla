------------------------------ MODULE Console -------------------------------
(***************************************************************************)
(* Console input (kernel/console.c): the interrupt handler edits a line in *)
(* a ring of characters, readers take finished lines.  The three indices   *)
(* are unsigned and wrap around.  cons.lock is held from the start of a    *)
(* read to its end, but for sleep().                                       *)
(***************************************************************************)
EXTENDS Integers, Sequences, FiniteSets

CONSTANTS
  Proc, None,
  Char, Newline, Eof,   \* characters typed; Eof is ^D
  SIZE,                 \* INPUT_BUF_SIZE
  UINT,                 \* indices are modulo UINT, a multiple of SIZE
  MaxN                  \* bound on the bytes a read() asks for

\* What is assumed of the constants.
ConsoleAssumption ==
  /\ {SIZE, UINT, MaxN} \subseteq Nat \ {0} /\ UINT % SIZE = 0 /\ UINT > SIZE
  /\ {Newline, Eof} \subseteq Char

VARIABLES
  buf, r, w, e,    \* cons
  lock,            \* reader that holds cons.lock, or None
  pc, n,           \* of each reader, and the bytes it still wants
  got,             \* whether it has read some
  killed

cons == <<buf, r, w, e>>
vars == <<cons, lock, pc, n, got, killed>>

Init ==
  /\ buf = [i \in 0..SIZE - 1 |-> Newline]
  /\ \E i \in {0, UINT - 2} : r = i /\ w = i /\ e = i
  /\ lock = None
  /\ pc = [p \in Proc |-> "out"] /\ n = [p \in Proc |-> 0] /\ got = [p \in Proc |-> FALSE]
  /\ killed = {}

\* Mutant: indices do not wrap around.
AddWide(i, k) == i + k

Add(i, k) == (i + k) % UINT

\* i - j for unsigned indices
Distance(i, j) == (i - j) % UINT

\* Mutant: wakeup() is left out.
WokenNone(q) == q

\* wakeup(&cons.r)
Woken(q) == IF q = "sleep" THEN "woken" ELSE q

\* Mutant: only an end of line or of file finishes the line.
FinishesLine(c, d) == c \in {Newline, Eof}

\* The line is complete after c, with d characters in the ring.
Finishes(c, d) == c \in {Newline, Eof} \/ d = SIZE

\* consoleintr() for a character that is not for editing; dropped if there is no room.
type(c) ==
  /\ lock = None /\ Distance(e, r) < SIZE
  /\ buf' = [buf EXCEPT ![e % SIZE] = c]
  /\ e' = Add(e, 1)
  /\ IF Finishes(c, Distance(e, r) + 1)
     THEN w' = e' /\ pc' = [p \in Proc |-> Woken(pc[p])]
     ELSE UNCHANGED <<w, pc>>
  /\ UNCHANGED <<r, lock, n, got, killed>>

\* Mutant: backspace goes on into the finished lines.
ErasableAny == e # r

Erasable == e # w

\* ^H and delete
backspace ==
  /\ lock = None /\ Erasable
  /\ e' = Add(e, -1)
  /\ UNCHANGED <<buf, r, w, lock, pc, n, got, killed>>

\* ^U: back to the end of the last finished line, or to a newline in this one.
killline ==
  /\ lock = None /\ e # w
  /\ \E k \in 1..Distance(e, w) :
       /\ \A j \in 1..k : buf[Add(e, -j) % SIZE] # Newline
       /\ k = Distance(e, w) \/ buf[Add(e, -(k + 1)) % SIZE] = Newline
       /\ e' = Add(e, -k)
  /\ UNCHANGED <<buf, r, w, lock, pc, n, got, killed>>

\* consoleread() begins.
consoleread(p) ==
  /\ pc[p] = "out" /\ lock = None
  /\ lock' = p /\ pc' = [pc EXCEPT ![p] = "loop"]
  /\ \E k \in 1..MaxN : n' = [n EXCEPT ![p] = k]
  /\ UNCHANGED <<cons, got, killed>>

return(p) ==
  /\ lock' = None
  /\ pc' = [pc EXCEPT ![p] = "out"]
  /\ n' = [n EXCEPT ![p] = 0] /\ got' = [got EXCEPT ![p] = FALSE]
  /\ killed' = killed \ {p}    \* a killed process exits on its way out

\* Mutant: being killed does not end a read.
GivesUpNot(p) == FALSE

GivesUp(p) == p \in killed

\* Nothing to read: give up if killed.
wait(p) ==
  /\ pc[p] = "loop" /\ lock = p /\ r = w
  /\ IF GivesUp(p) THEN return(p)
     ELSE pc' = [pc EXCEPT ![p] = "tosleep"] /\ UNCHANGED <<lock, n, got, killed>>
  /\ UNCHANGED cons

\* sleep(&cons.r, &cons.lock); a kill() since the look at p->killed goes unnoticed.
sleep(p) ==
  /\ pc[p] = "tosleep"
  /\ lock' = None /\ pc' = [pc EXCEPT ![p] = "sleep"]
  /\ UNCHANGED <<cons, n, got, killed>>

\* The end of sleep(): take the lock again.
wake(p) ==
  /\ pc[p] = "woken" /\ lock = None
  /\ lock' = p /\ pc' = [pc EXCEPT ![p] = "loop"]
  /\ UNCHANGED <<cons, n, got, killed>>

\* Mutant: ^D is consumed by the read that it ends.
KeepEofNot(p) == FALSE

\* ^D after some bytes is kept for the next read, which then returns 0.
KeepEof(p) == got[p]

\* An iteration of consoleread()'s loop; either_copyout() may fail.
take(p) ==
  LET c == buf[r % SIZE]
  IN  /\ pc[p] = "loop" /\ lock = p /\ r # w
      /\ r' = IF c = Eof /\ KeepEof(p) THEN r ELSE Add(r, 1)
      /\ \/ return(p)
         \/ /\ c \notin {Newline, Eof} /\ n[p] > 1
            /\ n' = [n EXCEPT ![p] = @ - 1] /\ got' = [got EXCEPT ![p] = TRUE]
            /\ UNCHANGED <<lock, pc, killed>>
      /\ UNCHANGED <<buf, w, e>>

\* kill() of a reader
kill(p) ==
  /\ pc[p] # "out" /\ killed' = killed \cup {p}
  /\ pc' = [pc EXCEPT ![p] = Woken(@)]
  /\ UNCHANGED <<cons, lock, n, got>>

Step(p) == consoleread(p) \/ wait(p) \/ sleep(p) \/ wake(p) \/ take(p)

Next == (\E c \in Char : type(c)) \/ backspace \/ killline \/ \E p \in Proc : Step(p) \/ kill(p)

Spec == Init /\ [][Next]_vars

\* Readers that can run do; the keyboard and kill() need not.
FairSpec == Spec /\ \A p \in Proc : WF_vars(wait(p) \/ sleep(p) \/ take(p)) /\ SF_vars(wake(p))

-----------------------------------------------------------------------------
\* Every variable has its type: characters are stored inside the ring, and a
\* read never takes more than it was asked for.
TypeOK ==
  /\ buf \in [0..SIZE - 1 -> Char] /\ {r, w, e} \subseteq 0..UINT - 1
  /\ lock \in Proc \cup {None}
  /\ pc \in [Proc -> {"out", "loop", "tosleep", "sleep", "woken"}] /\ n \in [Proc -> 0..MaxN]

\* r <= w <= e <= r + SIZE in the circle of indices; and a full ring has a finished
\* line, so that readers can make room.
Indices == Distance(w, r) <= Distance(e, r) /\ Distance(e, r) <= SIZE /\ (Distance(e, r) = SIZE => w = e)

\* No reader sleeps while there is something to read.
NoLostWakeup == \A p \in Proc : pc[p] = "sleep" => r = w

Chars(i, j) == [k \in 1..Distance(j, i) |-> buf[Add(i, k - 1) % SIZE]]
tty == INSTANCE Tty WITH ready <- Chars(r, w), line <- Chars(w, e), Size <- SIZE

\* The ring behaves as a line being edited and a queue of finished characters, each
\* read once and in order, also when the indices wrap around.
TtySpec == tty!Spec

\* A reader that is killed in its sleep returns, even if nothing is ever typed again.
ReadEnds == \A p \in Proc : (pc[p] = "woken" /\ p \in killed) ~> pc[p] = "out"

\* What was typed and finished is read as long as somebody is reading.
LinesRead == (r # w /\ \E p \in Proc : pc[p] # "out") ~> (r = w \/ \A p \in Proc : pc[p] = "out")

\* A read that returns no bytes for ^D comes after one that returned the bytes before
\* it: a ^D is only consumed by a read that has nothing else.
EofAlone ==
  [][\A p \in Proc : take(p) /\ buf[r % SIZE] = Eof /\ r' # r => ~got[p]]_vars
=============================================================================
