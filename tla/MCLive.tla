------------------------------- MODULE MCLive -------------------------------
(***************************************************************************)
(* What must eventually happen, in each component that waits: part, chosen *)
(* at first, says which one runs.                                          *)
(***************************************************************************)
EXTENDS Integers

CONSTANTS pa, pb, pc, None

\* Lines that nest the shell's constructs.
Nested == {
  <<"a", "|", "a", "|", "a">>,
  <<"a", "<", "a", "|", "(", "a", ";", "a", ")", ">", "a">>,
  <<"(", "a", "|", "a", "&", ")", "|", "a">>,
  <<"a", "&", ";", "a", "|", "a">>}

VARIABLES
  part,  \* the component that runs
  home, logblock, head, cache, pins, lh, outstanding, committing, stage, tail, pc_log,
  wrote, panicked, crashes,
  data_pipe, nread, nwrite, readopen, writeopen, lock_pipe, users, pc_pipe, i, n_pipe,
  killed_pipe,
  blockno, refcnt, valid, data_bcache, lock_bcache, lru, disk, pinned, pc_bcache, b,
  want,
  free, next, info, avail, availidx, used, usedidx, seen, intr, irq, taken, busy,
  platter, pc_disk, op, idx,
  type, nlink, ent, up, c,
  buf, r, w, e, lock_console, pc_console, n_console, got, killed_console,
  ticks, lock_clock, place, n_clock, ticks0, killed_clock, passed, lag,
  pc_shell, cmd, parent, fd, bg

L == INSTANCE Log WITH
  Proc <- {pa, pb, pc}, Block <- {1}, Value <- {0}, Blank <- 0, NoBuf <- None,
  MAXOPBLOCKS <- 1, LOGSIZE <- 2, size <- 3, MaxCrash <- 1, pc <- pc_log

Q == INSTANCE Pipe WITH
  Writer <- {pa}, Reader <- {pb}, Byte <- {0}, PIPESIZE <- 1, UINT <- 2, MaxN <- 2,
  data <- data_pipe, lock <- lock_pipe, pc <- pc_pipe, n <- n_pipe,
  killed <- killed_pipe

B == INSTANCE Bcache WITH
  User <- {pa, pb}, Block <- {1}, Val <- {0}, NBUF <- 1, MaxPin <- 1,
  data <- data_bcache, lock <- lock_bcache, pc <- pc_bcache

D == INSTANCE Disk WITH
  Proc <- {pa, pb}, Block <- {1, 2}, Val <- {0}, NUM <- 4, RING <- 2, UINT16 <- 4,
  pc <- pc_disk

F == INSTANCE Fs WITH
  Proc <- {pa, pb}, Inum <- {1, 2, 3}, Root <- 1, Name <- {"a"}, Dots <- {"."},
  Calls <- {"mkdir", "unlink"}, MaxPath <- 2, MaxLink <- 3

K == INSTANCE Console WITH
  Proc <- {pa, pb}, Char <- {"nl", "eof"}, Newline <- "nl", Eof <- "eof", SIZE <- 2,
  UINT <- 4, MaxN <- 2, lock <- lock_console, pc <- pc_console, n <- n_console,
  killed <- killed_console

C == INSTANCE Clock WITH
  Proc <- {pa, pb}, UINT <- 4, MaxN <- 2, MaxLag <- 1, lock <- lock_clock,
  n <- n_clock, killed <- killed_clock

S == INSTANCE Shell WITH
  MAXARGS <- 10, Lines <- Nested, MaxProc <- 8, MayFail <- TRUE, pc <- pc_shell

logvars == <<home, logblock, head, cache, pins, lh, outstanding, committing, stage,
  tail, pc_log, wrote, panicked, crashes>>
pipevars == <<data_pipe, nread, nwrite, readopen, writeopen, lock_pipe, users, pc_pipe,
  i, n_pipe, killed_pipe>>
bcachevars == <<blockno, refcnt, valid, data_bcache, lock_bcache, lru, disk, pinned,
  pc_bcache, b, want>>
diskvars == <<free, next, info, avail, availidx, used, usedidx, seen, intr, irq, taken,
  busy, platter, pc_disk, op, idx>>
fsvars == <<type, nlink, ent, up, c>>
consolevars == <<buf, r, w, e, lock_console, pc_console, n_console, got, killed_console>>
clockvars == <<ticks, lock_clock, place, n_clock, ticks0, killed_clock, passed, lag>>
shellvars == <<pc_shell, cmd, parent, fd, bg>>

allvars == <<part, logvars, pipevars, bcachevars, diskvars, fsvars, consolevars, clockvars,
  shellvars>>

\* A step of one component leaves the variables of the others alone.
OnLog(A) == part = "log" /\ A /\ UNCHANGED <<part, pipevars, bcachevars, diskvars,
  fsvars, consolevars, clockvars, shellvars>>
OnPipe(A) == part = "pipe" /\ A /\ UNCHANGED <<part, logvars, bcachevars, diskvars,
  fsvars, consolevars, clockvars, shellvars>>
OnBcache(A) == part = "bcache" /\ A /\ UNCHANGED <<part, logvars, pipevars, diskvars,
  fsvars, consolevars, clockvars, shellvars>>
OnDisk(A) == part = "disk" /\ A /\ UNCHANGED <<part, logvars, pipevars, bcachevars,
  fsvars, consolevars, clockvars, shellvars>>
OnFs(A) == part = "fs" /\ A /\ UNCHANGED <<part, logvars, pipevars, bcachevars,
  diskvars, consolevars, clockvars, shellvars>>
OnConsole(A) == part = "console" /\ A /\ UNCHANGED <<part, logvars, pipevars,
  bcachevars, diskvars, fsvars, clockvars, shellvars>>
OnClock(A) == part = "clock" /\ A /\ UNCHANGED <<part, logvars, pipevars, bcachevars,
  diskvars, fsvars, consolevars, shellvars>>
OnShell(A) == part = "shell" /\ A /\ UNCHANGED <<part, logvars, pipevars, bcachevars,
  diskvars, fsvars, consolevars, clockvars>>

Init ==
  /\ part \in {"log", "pipe", "bcache", "disk", "fs", "console", "clock", "shell"}
  /\ L!Init
  /\ Q!Init
  /\ B!Init
  /\ D!Init
  /\ F!Init
  /\ K!Init /\ (part # "console" => r = 0)
  /\ C!ClockInit /\ (part # "clock" => ticks = 0)
  /\ S!Init

Next ==
  \/ OnLog(L!Next)
  \/ OnPipe(Q!Next)
  \/ OnBcache(B!Next)
  \/ OnDisk(D!Next)
  \/ OnFs(F!Next)
  \/ OnConsole(K!Next)
  \/ OnClock(C!ClockNext)
  \/ OnShell(S!Next)

Spec == Init /\ [][Next]_allvars

ASSUME Constants ==
  /\ L!LogAssumption /\ Q!PipeAssumption /\ B!BcacheAssumption /\ D!DiskAssumption
  /\ F!FsAssumption /\ K!ConsoleAssumption /\ C!ClockAssumption /\ S!ShellAssumption

\* In a behaviour one component runs.  Its steps are fair as in its own FairSpec,
\* so conditions on different components may share a WF or an SF.
FairSpec ==
  /\ Spec
  /\ WF_allvars(OnLog(L!Commit \/ L!Recover) \/ OnDisk(D!devtake))
  /\ WF_allvars(OnDisk(D!Handler))
  /\ WF_allvars(OnDisk(\E d \in 0..3 : D!devdone(d)))
  /\ SF_allvars(OnClock(C!clockintr))
  /\ WF_allvars(OnLog(L!begin_op(pc))) /\ WF_allvars(OnLog(L!end_op(pc) \/ L!finish(pc)))
  /\ \A q \in 0..8 : WF_allvars(OnShell(S!Step(q)))
  /\ \A p \in {pa, pb} :
       /\ WF_allvars(\/ OnLog(L!begin_op(p)) \/ OnBcache(B!read(p))
                     \/ OnConsole(K!wait(p) \/ K!sleep(p) \/ K!take(p))
                     \/ OnClock(C!loop(p) \/ C!sleep(p)))
       /\ WF_allvars(OnLog(L!end_op(p) \/ L!finish(p)) \/ OnBcache(B!bwrite(p)))
       /\ WF_allvars(OnBcache(B!brelse(p)))
       /\ SF_allvars(\/ OnPipe(Q!Inside(p)) \/ OnBcache(B!releasesleep(p)) \/ OnDisk(D!submit(p))
                     \/ OnFs(F!Step(p)) \/ OnConsole(K!wake(p)) \/ OnClock(C!wake(p)))
       /\ SF_allvars(\/ OnPipe(Q!pipeclose(p) /\ killed_pipe[p]) \/ OnDisk(D!finish(p))
                     \/ OnBcache(B!acquiresleep(p) /\ lock_bcache' # lock_bcache))

\* Nobody waits for ever: a sleeper in begin_op() is woken, calls on a pipe whose other
\* end is closed return, whoever asks for a buffer gets it, a disk request completes, a
\* call on names ends (sys_unlink() locks downwards in the tree), a reader of the console
\* that is killed in its sleep returns, and so does every sys_sleep(), also when the kill()
\* comes between the look at p->killed and sleep().  What was typed and finished on the
\* console is read as long as somebody is reading.
CallsEnd ==
  /\ \A p \in {pa, pb} :
       (\/ part = "log" /\ pc_log[p] = "asleep"
        \/ part = "pipe" /\ IF p = pa THEN writeopen /\ ~readopen ELSE readopen /\ ~writeopen
        \/ part = "bcache" /\ pc_bcache[p] = "lock"
        \/ part = "disk" /\ pc_disk[p] # "out"
        \/ part = "fs" /\ c[p].pc # "out"
        \/ part = "console" /\ pc_console[p] = "woken" /\ p \in killed_console
        \/ part = "clock" /\ place[p] # "out")
       ~>
       (\/ part = "log" /\ pc_log[p] # "asleep"
        \/ part = "pipe" /\ pc_pipe[p] = "out"
        \/ part = "bcache" /\ pc_bcache[p] = "hold"
        \/ part = "disk" /\ pc_disk[p] = "out"
        \/ part = "fs" /\ c[p].pc = "out"
        \/ part = "console" /\ pc_console[p] = "out"
        \/ part = "clock" /\ place[p] = "out")
  /\ K!LinesRead

\* Every line ends and the shell prompts again, also when something fails in the middle of
\* a pipeline: end of file reaches every reader, and no writer is left without one.
Prompts == S!Prompts

=============================================================================
