----------------------------- MODULE MCDevices ------------------------------
(***************************************************************************)
(* The buffer cache and the console, each by itself: part, chosen at       *)
(* first, says which one runs.  Processes and blocks are interchangeable.  *)
(***************************************************************************)
EXTENDS Bcache, TLC

Symmetry == Permutations(User) \cup Permutations(Block)

VARIABLES
  part,  \* the component that runs
  buf, r, w, e, lock_console, pc_console, n, got, killed

K == INSTANCE Console WITH
  Proc <- User,
  Char <- {"x", "nl", "eof"}, Newline <- "nl", Eof <- "eof", SIZE <- 3, UINT <- 6,
  MaxN <- 2, lock <- lock_console, pc <- pc_console

bcachevars == <<blockno, refcnt, valid, data, lock, lru, disk, pinned, pc, b, want>>
consolevars == <<buf, r, w, e, lock_console, pc_console, n, got, killed>>

allvars == <<part, bcachevars, consolevars>>

\* A step of one component leaves the variables of the others alone.
OnBcache(A) == part = "bcache" /\ A /\ UNCHANGED <<part, consolevars>>
OnConsole(A) == part = "console" /\ A /\ UNCHANGED <<part, bcachevars>>

MCInit ==
  /\ part \in {"bcache", "console"}
  /\ Init /\ (part # "bcache" => \A x \in Block : disk[x] = 0)
  /\ K!Init /\ (part # "console" => r = 0)

MCNext ==
  \/ OnBcache(Next)
  \/ OnConsole(K!Next)

MCSpec == MCInit /\ [][MCNext]_allvars

ASSUME Constants == K!ConsoleAssumption

\* The console's indices are in order in their circle, a full ring has a finished line, so
\* that readers can make room, and no reader sleeps while there is something to read.
Input == part = "console" => K!TypeOK /\ K!Indices /\ K!NoLostWakeup

\* The console's ring behaves as a line being edited and a queue of finished characters, each
\* read once and in order, also when the indices wrap around; and a ^D is only consumed by a
\* read that has nothing else.
TtySpec ==
  /\ part = "console" => K!tty!Init
  /\ [][part = "console" => [K!tty!Next]_(K!tty!vars)]_allvars
  /\ K!EofAlone

=============================================================================
