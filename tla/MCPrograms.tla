----------------------------- MODULE MCPrograms -----------------------------
(***************************************************************************)
(* The clock, memory, the serial port and the programs, each by itself:    *)
(* part, chosen at first, says which one runs.  Processes are              *)
(* interchangeable.                                                        *)
(***************************************************************************)
EXTENDS Clock, SequencesExt

Symmetry == Permutations(Proc)

\* Lines that nest the shell's constructs.
Nested == {
  <<"a", "|", "a", "|", "a">>,
  <<"a", "<", "a", "|", "(", "a", ";", "a", ")", ">", "a">>,
  <<"(", "a", "|", "a", "&", ")", "|", "a">>,
  <<"a", "&", ";", "a", "|", "a">>}

\* All short texts, and two that are longer than grep's buffer.
Texts ==
  BoundedSeq({"a", "b", "\n"}, 4) \cup
    {<<"a", "b", "\n", "b", "a", "a">>, <<"a", "a", "b", "a", "a", "\n">>}

VARIABLES
  part,  \* the component that runs
  pc_mkfs, freeinode, freeblock, inode, block, written, bitmap,
  next, size, freep, brk, used, own,
  free, pt, tf, sz, panicked_memory,
  buf_uart, r, w, lock_uart, pc_uart, left, panicked_uart, fifo, irq, sent, typed,
  accepted,
  round, pc_round, j, X, clock, terminos, overheads, eficiencias, justicas, child, arg,
  tmp, spent, reported,
  pc_bfs, matrix, u, fila, esq, visitado, distancia,
  line,
  pc_shell, cmd, parent, fd, bg,
  first, files, pc_rows, i, linhas,
  pattern, text, pos, buf_grep, out, done,
  op, va0, len0, mem0, pte, mem, dst, va, len, got_null, ret

I == INSTANCE Mkfs WITH
  BSIZE <- 3, DESIZE <- 1, IPB <- 2, BPB <- 20, NINODES <- 5, LOGSIZE <- 2,
  FSSIZE <- 30, NDIRECT <- 1, NINDIRECT <- 2, MaxFiles <- 3, pc <- pc_mkfs

H == INSTANCE Heap WITH
  MIN <- 4, MaxUnits <- 5, TOP <- 14, MaxSbrk <- 1

\* Small tables, that calls have to add to, and one table for all, so that exec() and the
\* copy of a second page fit into memory.
M1 == INSTANCE Memory WITH
  NPAGE <- 10, PGSIZE <- 2, TABLE <- 2, NVA <- 16, ADDR <- 64, MaxSbrk <- 2,
  MaxSz <- 3, Program <- {<<<<0, 1>>>>, <<<<2, 1>>, <<0, 3>>>>},
  panicked <- panicked_memory

M2 == INSTANCE Memory WITH
  NPAGE <- 9, PGSIZE <- 2, TABLE <- 16, NVA <- 16, ADDR <- 64, MaxSbrk <- 2,
  MaxSz <- 3, Program <- {<<<<0, 1>>>>, <<<<2, 1>>, <<0, 3>>>>},
  panicked <- panicked_memory

T == INSTANCE Uart WITH
  Writer <- Proc, Printer <- {"printf"}, Intr <- "intr", SIZE <- 2, DEPTH <- 3,
  MaxC <- 2, MaxIn <- 1, MayPanic <- TRUE, buf <- buf_uart, lock <- lock_uart,
  pc <- pc_uart, panicked <- panicked_uart

E1 == INSTANCE Experiment WITH
  N <- 3, BASE <- 2, MinCpu <- 1, MaxCpu <- 2, PERSEC <- 2, SCALE <- 100, MaxTime <- 3,
  MaxRound <- 1, MayFail <- FALSE, pc <- pc_round

E2 == INSTANCE Experiment WITH
  N <- 3, BASE <- 2, MinCpu <- 1, MaxCpu <- 2, PERSEC <- 2, SCALE <- 100, MaxTime <- 2,
  MaxRound <- 2, MayFail <- TRUE, pc <- pc_round

B == INSTANCE Bfs WITH
  V <- 4, MaxEdges <- 6, TAM <- 8, pc <- pc_bfs

P == INSTANCE ShellLines WITH
  MAXARGS <- 3, Token <- {"a", "|", "&", ";", "(", ")", "<"}, MaxLine <- 5

S == INSTANCE Shell WITH
  MAXARGS <- 10, Lines <- Nested, MaxProc <- 8, MayFail <- FALSE, pc <- pc_shell

R == INSTANCE Rows WITH
  Worker <- {0, 10, 19}, FirstPid <- {1, 4, 93, 8990}, L <- 2, SWAPS <- 1,
  pc <- pc_rows

G == INSTANCE Grep WITH
  Patterns <- BoundedSeq({"a", ".", "*", "^", "$"}, 3), Texts <- Texts, BUFSIZE <- 5,
  buf <- buf_grep

U == INSTANCE CopyUser WITH
  PGSIZE <- 2, NPAGE <- 3, ADDR <- 8, MaxLen <- 4

mkfsvars == <<pc_mkfs, freeinode, freeblock, inode, block, written, bitmap>>
heapvars == <<next, size, freep, brk, used, own>>
memoryvars == <<free, pt, tf, sz, panicked_memory>>
uartvars == <<buf_uart, r, w, lock_uart, pc_uart, left, panicked_uart, fifo, irq, sent,
  typed, accepted>>
roundvars == <<round, pc_round, j, X, clock, terminos, overheads, eficiencias,
  justicas, child, arg, tmp, spent, reported>>
bfsvars == <<pc_bfs, matrix, u, fila, esq, visitado, distancia>>
parsevars == <<line>>
shellvars == <<pc_shell, cmd, parent, fd, bg>>
rowsvars == <<first, files, pc_rows, i, linhas>>
grepvars == <<pattern, text, pos, buf_grep, out, done>>
copyvars == <<op, va0, len0, mem0, pte, mem, dst, va, len, got_null, ret>>

allvars == <<part, mkfsvars, clockvars, heapvars, memoryvars, uartvars, roundvars, bfsvars,
  parsevars, shellvars, rowsvars, grepvars, copyvars>>

\* A step of one component leaves the variables of the others alone.
OnMkfs(A) == part = "mkfs" /\ A /\ UNCHANGED <<part, clockvars, heapvars, memoryvars,
  uartvars, roundvars, bfsvars, parsevars, shellvars, rowsvars, grepvars, copyvars>>
OnClock(A) == part = "clock" /\ A /\ UNCHANGED <<part, mkfsvars, heapvars, memoryvars,
  uartvars, roundvars, bfsvars, parsevars, shellvars, rowsvars, grepvars, copyvars>>
OnHeap(A) == part = "heap" /\ A /\ UNCHANGED <<part, mkfsvars, clockvars, memoryvars,
  uartvars, roundvars, bfsvars, parsevars, shellvars, rowsvars, grepvars, copyvars>>
OnMemory(A) == part \in {"tables", "memory"} /\ A /\ UNCHANGED <<part, mkfsvars, clockvars, heapvars,
  uartvars, roundvars, bfsvars, parsevars, shellvars, rowsvars, grepvars, copyvars>>
OnUart(A) == part = "uart" /\ A /\ UNCHANGED <<part, mkfsvars, clockvars, heapvars,
  memoryvars, roundvars, bfsvars, parsevars, shellvars, rowsvars, grepvars, copyvars>>
OnExperiment(A) == part \in {"round", "rounds"} /\ A /\ UNCHANGED <<part, mkfsvars,
  clockvars, heapvars, memoryvars, uartvars, bfsvars, parsevars, shellvars, rowsvars,
  grepvars, copyvars>>
OnBfs(A) == part = "bfs" /\ A /\ UNCHANGED <<part, mkfsvars, clockvars, heapvars,
  memoryvars, uartvars, roundvars, parsevars, shellvars, rowsvars, grepvars, copyvars>>
OnShellLines(A) == part = "parse" /\ A /\ UNCHANGED <<part, mkfsvars, clockvars,
  heapvars, memoryvars, uartvars, roundvars, bfsvars, shellvars, rowsvars, grepvars,
  copyvars>>
OnShell(A) == part = "shell" /\ A /\ UNCHANGED <<part, mkfsvars, clockvars, heapvars,
  memoryvars, uartvars, roundvars, bfsvars, parsevars, rowsvars, grepvars, copyvars>>
OnRows(A) == part = "rows" /\ A /\ UNCHANGED <<part, mkfsvars, clockvars, heapvars,
  memoryvars, uartvars, roundvars, bfsvars, parsevars, shellvars, grepvars, copyvars>>
OnGrep(A) == part = "grep" /\ A /\ UNCHANGED <<part, mkfsvars, clockvars, heapvars,
  memoryvars, uartvars, roundvars, bfsvars, parsevars, shellvars, rowsvars, copyvars>>
OnCopyUser(A) == part = "copy" /\ A /\ UNCHANGED <<part, mkfsvars, clockvars, heapvars,
  memoryvars, uartvars, roundvars, bfsvars, parsevars, shellvars, rowsvars, grepvars>>

MCInit ==
  /\ part \in {"mkfs", "clock", "heap", "tables", "memory", "uart", "round", "rounds", "bfs",
               "parse", "shell", "rows", "grep", "copy"}
  /\ I!Init
  /\ ClockInit /\ (part # "clock" => ticks = 0)
  /\ H!Init
  /\ IF part = "tables" THEN M1!Init
     ELSE IF part = "memory" THEN M2!Init
     ELSE /\ free = 0 /\ pt = 0 /\ tf = 0 /\ sz = 0 /\ panicked_memory = 0
  /\ T!Init
  /\ E1!Init
  /\ B!Init
  /\ P!Init
  /\ S!Init
  /\ IF part = "rows" THEN R!Init
     ELSE /\ first = 0 /\ files = 0 /\ pc_rows = 0 /\ i = 0 /\ linhas = 0
  /\ IF part = "grep" THEN G!Init
     ELSE /\ pattern = 0 /\ text = 0 /\ pos = 0 /\ buf_grep = 0 /\ out = 0 /\ done = 0
  /\ IF part = "copy" THEN U!Init
     ELSE /\ op = 0 /\ va0 = 0 /\ len0 = 0 /\ mem0 = 0 /\ pte = 0 /\ mem = 0 /\ dst = 0
          /\ va = 0 /\ len = 0 /\ got_null = 0 /\ ret = 0

MCNext ==
  \/ OnMkfs(I!Next)
  \/ OnClock(ClockNext)
  \/ OnHeap(H!Next)
  \/ part = "tables" /\ OnMemory(M1!Next)
  \/ part = "memory" /\ OnMemory(M2!Next)
  \/ OnUart(T!Next)
  \/ part = "round" /\ OnExperiment(E1!Next)
  \/ part = "rounds" /\ OnExperiment(E2!Next)
  \/ OnBfs(B!Next)
  \/ OnShellLines(P!Next)
  \/ OnShell(S!Next)
  \/ OnRows(R!Next)
  \/ OnGrep(G!Next)
  \/ OnCopyUser(U!Next)

MCSpec == MCInit /\ [][MCNext]_allvars

ASSUME Constants ==
  /\ M1!MemoryAssumption /\ M2!MemoryAssumption /\ U!CopyAssumption /\ T!UartAssumption /\ E1!ExperimentAssumption
  /\ E2!ExperimentAssumption /\ R!RowsAssumption /\ B!BfsAssumption /\ H!HeapAssumption
  /\ P!ParseAssumption /\ S!ShellAssumption /\ G!GrepAssumption /\ I!MkfsAssumption

\* Every page of memory has one use or is free, and every process has just the pages that its
\* size says, whatever runs out in fork(), exec() or sbrk(), so that no panic is reached; and
\* copies to and from user memory move just the bytes that the range and the permissions allow.
Pages ==
  /\ part = "tables" => M1!TypeOK /\ M1!PagesExact /\ M1!SizeExact /\ M1!NoPanic
  /\ part = "memory" => M2!TypeOK /\ M2!PagesExact /\ M2!SizeExact /\ M2!NoPanic
  /\ part = "copy" => U!CopyoutExact /\ U!CopyinExact /\ U!CopyinstrExact

\* What write() accepts is sent in order, the device's FIFO never overflows, characters in the
\* ring are never stranded, and no writer sleeps beside a ring with room, also when printf()
\* and interrupts use the device without the lock.
Output == part = "uart" => T!TypeOK /\ T!InOrder /\ T!FifoFits /\ T!Underway /\ T!NoLostWakeup

\* The metrics are those of the workers of the round that reported, and no worker outlives its
\* round; when all succeed the results are what they are called, and fractions of one unless
\* workers were done within a tick.  Each file worker has its own file and only reorders its
\* lines; a graph worker finds the shortest distances with a queue that is long enough.
Experiments ==
  /\ part = "round" =>
       /\ E1!TypeOK /\ E1!MetricsExact /\ E1!Throughput
       /\ E1!OnlyIo /\ E1!Normalised
  /\ part = "rounds" => E2!TypeOK /\ E2!MetricsExact /\ E2!RoundOver
  /\ part = "rows" => R!TypeOK /\ R!OwnFile /\ R!Permuted
  /\ part = "bfs" => B!Shortest /\ B!QueueFits

\* The shell accepts the lines of its grammar and keeps their words in order; it prompts when
\* what is left runs in the background, and programs have no descriptor of a pipe but their own.
Commands ==
  /\ part = "parse" => P!Accepts /\ P!WordsKept
  /\ part = "shell" => S!Foreground /\ S!Descriptors

\* malloc() and free() tile the heap with blocks and join the free ones; grep writes the lines
\* that match, however read() cuts the text; and mkfs marks exactly the blocks in use, each with
\* one use and what the kernel will read.
Utilities ==
  /\ part = "heap" => H!Partition /\ H!Coalesced
  /\ part = "grep" => G!Greps /\ G!ReadsAll
  /\ part = "mkfs" => I!BlocksExact /\ I!Contents

=============================================================================
