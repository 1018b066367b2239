-------------------------------- MODULE Shell -------------------------------
(***************************************************************************)
(* The shell at work (user/sh.c): main() forks a process for each line,    *)
(* which runs the parsed command in a tree of processes joined by pipes.   *)
(* A program reads its input to the end and then exits; it cannot exit     *)
(* while a full pipe waits for a reader.                                   *)
(***************************************************************************)
EXTENDS ShellParse, FiniteSets

CONSTANTS
  Lines,     \* command lines the user may type
  MaxProc,   \* bound on the processes made for a line
  MayFail    \* whether pipe(), fork(), open() and exec() may fail

\* What is assumed of the constants.
ShellAssumption == MaxProc \in Nat \ {0} /\ MayFail \in BOOLEAN

VARIABLES
  pc, cmd, parent,   \* of each process; Main is the shell's own
  fd,                \* what each of its descriptors is
  bg                 \* history: processes run in the background

vars == <<pc, cmd, parent, fd, bg>>

Main == 0
init == -1
Procs == 0..MaxProc
Fd == 0..8
Tty == <<"tty", 0>>
Closed == <<"closed", 0>>
NoFds == [x \in Fd |-> Closed]

Init ==
  /\ pc = [p \in Procs |-> IF p = Main THEN "prompt" ELSE "none"]
  /\ cmd = [p \in Procs |-> execcmd]
  /\ parent = [p \in Procs |-> init]
  /\ fd = [p \in Procs |-> IF p = Main THEN [x \in Fd |-> IF x < 3 THEN Tty ELSE Closed] ELSE NoFds]
  /\ bg = {}

Lowest(f) == CHOOSE x \in Fd : f[x] = Closed /\ \A y \in Fd : f[y] = Closed => x <= y

close(f, x) == [f EXCEPT ![x] = Closed]
dup(f, x) == [f EXCEPT ![Lowest(f)] = f[x]]

\* pipe() of process p: its two ends carry p's number and the level of the pipe in it.
p0(p) == Lowest(fd[p])
p1(p) == Lowest([fd[p] EXCEPT ![p0(p)] = Tty])
Piped(p) == [fd[p] EXCEPT ![p0(p)] = <<"read", p>>, ![p1(p)] = <<"write", p>>]

Unused == {p \in Procs : pc[p] = "none"}

\* fork1(): process q runs command c with descriptors f, and p goes on at l.
forks(p, q, c, f, l) ==
  /\ q \in Unused /\ \A x \in Unused : q <= x
  /\ pc' = [pc EXCEPT ![p] = l, ![q] = "run"]
  /\ cmd' = [cmd EXCEPT ![q] = c] /\ parent' = [parent EXCEPT ![q] = p]
  /\ fd' = [fd EXCEPT ![q] = f]

\* exit(): descriptors are closed and children given to init.
exit(p) ==
  /\ pc' = [q \in Procs |-> IF q = p THEN "zombie" ELSE pc[q]]
  /\ parent' = [q \in Procs |-> IF parent[q] = p THEN init ELSE parent[q]]
  /\ fd' = [fd EXCEPT ![p] = NoFds]
  /\ cmd' = [cmd EXCEPT ![p] = execcmd]

\* main() reads a line and forks; the child parses and runs it.  A bound of the model: the
\* line before has ended, in the background too (init has its processes, which nothing here
\* joins to those of the next line), and its processes' numbers are free.  A cd makes no
\* process, and when main()'s own fork fails init starts a shell, which prompts.
getcmd ==
  /\ pc[Main] = "prompt" /\ \A p \in Procs \ {Main} : pc[p] \in {"none", "gone"}
  /\ pc' = [p \in Procs |-> IF p = Main THEN "wait1" ELSE IF p = 1 THEN "run" ELSE "none"]
  /\ \E r \in {parsecmd(l) : l \in Lines} : ~r.err /\ cmd' = [cmd EXCEPT ![1] = r.cmd]
  /\ parent' = [parent EXCEPT ![1] = Main] /\ fd' = [fd EXCEPT ![1] = fd[Main]]
  /\ bg' = {}

Runs(p, t) == pc[p] = "run" /\ cmd[p].t = t

\* EXEC: exec() of a program, or exit() for want of one.
runexec(p) ==
  /\ Runs(p, "EXEC")
  /\ \/ cmd[p].argv # <<>> /\ pc' = [pc EXCEPT ![p] = "program"] /\ UNCHANGED <<cmd, parent, fd>>
     \/ (cmd[p].argv = <<>> \/ MayFail) /\ exit(p)
  /\ UNCHANGED bg

\* REDIR: the file takes the descriptor's place.
runredir(p) ==
  LET x == IF cmd[p].mode = "<" THEN 0 ELSE 1
  IN  /\ Runs(p, "REDIR")
      /\ \/ /\ fd' = [fd EXCEPT ![p][x] = <<"file", 0>>]
            /\ cmd' = [cmd EXCEPT ![p] = cmd[p].cmd] /\ UNCHANGED <<pc, parent>>
         \/ MayFail /\ exit(p)
  /\ UNCHANGED bg

\* LIST: the first command is forked, ...
runlist(p) ==
  /\ Runs(p, "LIST")
  /\ \/ \E q \in Procs : forks(p, q, cmd[p].left, fd[p], "list")
     \/ MayFail /\ exit(p)
  /\ UNCHANGED bg

Children(p) == {q \in Procs : parent[q] = p /\ pc[q] \notin {"none", "gone"}}

Ended(p) == {q \in Children(p) : pc[q] = "zombie"}

\* wait(0)
reap(p, q, l) ==
  /\ q \in Ended(p)
  /\ pc' = [pc EXCEPT ![q] = "gone", ![p] = l]
  /\ parent' = [parent EXCEPT ![q] = init]

\* ... and waited for before the second is run.
listwait(p) ==
  /\ pc[p] = "list"
  /\ \E q \in Procs : reap(p, q, "run")
  /\ cmd' = [cmd EXCEPT ![p] = cmd[p].right]
  /\ UNCHANGED <<fd, bg>>

\* Mutant: the left side keeps the pipe open.
LeftEndsKept(p) == dup(close(Piped(p), 1), p1(p))

\* Descriptors of the left side of a pipe.
LeftEnds(p) == close(close(dup(close(Piped(p), 1), p1(p)), p0(p)), p1(p))

\* Descriptors of the right side, with the pipe's ends at a and b.
RightEnds(f, a, b) == close(close(dup(close(f, 0), a), a), b)

At(p, end) == CHOOSE x \in Fd : x > 2 /\ fd[p][x] = <<end, p>>

\* PIPE: the left side, ...
runpipe(p) ==
  /\ Runs(p, "PIPE")
  /\ \/ \E q \in Procs :
          /\ q \in Unused /\ \A x \in Unused : q <= x
          /\ pc' = [pc EXCEPT ![p] = "pipe", ![q] = "run"]
          /\ cmd' = [cmd EXCEPT ![q] = cmd[p].left] /\ parent' = [parent EXCEPT ![q] = p]
          /\ fd' = [fd EXCEPT ![q] = LeftEnds(p), ![p] = Piped(p)]
     \/ MayFail /\ exit(p)
  /\ UNCHANGED bg

\* ... the right side, ...
piperight(p) ==
  /\ pc[p] = "pipe"
  /\ \/ \E q \in Procs : forks(p, q, cmd[p].right, RightEnds(fd[p], At(p, "read"), At(p, "write")), "close")
     \/ MayFail /\ exit(p)
  /\ UNCHANGED bg

\* Mutant: one end is left open.
ParentEndsKept(f, a, b) == close(f, a)

\* Descriptors of the process that waits for the two sides.
ParentEnds(f, a, b) == close(close(f, a), b)

\* Mutant: one side is waited for.
WaitsOnce == "wait1"

Waits == "wait2"

\* ... and the ends that this process still has.
pipeclose(p) ==
  /\ pc[p] = "close"
  /\ fd' = [fd EXCEPT ![p] = ParentEnds(fd[p], At(p, "read"), At(p, "write"))]
  /\ pc' = [pc EXCEPT ![p] = Waits]
  /\ UNCHANGED <<cmd, parent, bg>>

\* wait(0), twice for a pipe
wait(p) ==
  /\ \/ pc[p] = "wait2" /\ \E q \in Procs : reap(p, q, "wait1")
     \/ pc[p] = "wait1" /\ \E q \in Procs : reap(p, q, IF p = Main THEN "prompt" ELSE "exit")
  /\ UNCHANGED <<cmd, fd, bg>>

\* BACK: forked and not waited for.
runback(p) ==
  /\ Runs(p, "BACK")
  /\ \/ \E q \in Procs : forks(p, q, cmd[p].cmd, fd[p], "exit") /\ bg' = bg \cup {q}
     \/ MayFail /\ exit(p) /\ UNCHANGED bg

quit(p) == pc[p] = "exit" /\ exit(p) /\ UNCHANGED bg

Holds(end) == \E p \in Procs : \E x \in Fd : fd[p][x] = end

\* A program (external) ends: its input is at an end, and its output has somewhere to go.
program(p) ==
  /\ pc[p] = "program"
  /\ fd[p][0][1] = "read" => ~Holds(<<"write", fd[p][0][2]>>)
  /\ fd[p][1][1] = "write" =>
       \/ ~Holds(<<"read", fd[p][1][2]>>)
       \/ \E q \in Procs : pc[q] = "program" /\ fd[q][0] = <<"read", fd[p][1][2]>>
  /\ exit(p) /\ UNCHANGED bg

\* init reaps what was given to it.
initreap(q) ==
  /\ pc[q] = "zombie" /\ parent[q] = init
  /\ pc' = [pc EXCEPT ![q] = "gone"]
  /\ UNCHANGED <<cmd, parent, fd, bg>>

Step(p) ==
  \/ runexec(p) \/ runredir(p) \/ runlist(p) \/ listwait(p) \/ runpipe(p) \/ piperight(p)
  \/ pipeclose(p) \/ wait(p) \/ runback(p) \/ quit(p) \/ program(p) \/ initreap(p)

Next == getcmd \/ \E p \in Procs : Step(p)

Spec == Init /\ [][Next]_vars

\* Processes run and programs that can end do.
FairSpec == Spec /\ \A p \in Procs : WF_vars(Step(p))

-----------------------------------------------------------------------------
\* Processes that p waits for, or that were started for it, in the background or not.
RECURSIVE InBackground(_)
InBackground(p) == p \in bg \/ (parent[p] > Main /\ InBackground(parent[p]))

\* When the shell prompts again, what is left of the line runs in the background.
Foreground ==
  pc[Main] = "prompt" /\ ~MayFail =>
    \A p \in Procs \ {Main} : pc[p] \in {"none", "gone", "zombie"} \/ InBackground(p)

\* Every program has its standard descriptors, and no end of a pipe but as its input and
\* output: no reader waits for an end of file that its own process keeps away.
Descriptors ==
  \A p \in Procs : pc[p] = "program" =>
    /\ fd[p][0][1] \in {"tty", "file", "read"} /\ fd[p][1][1] \in {"tty", "file", "write"}
    /\ \A x \in Fd \ {0, 1} : fd[p][x][1] \notin {"read", "write"}

\* Every line ends and the shell prompts again, also when something fails in the middle of
\* a pipeline: end of file reaches every reader, and no writer is left without one.
Prompts == pc[Main] # "prompt" ~> (pc[Main] = "prompt" /\ \A p \in Procs \ {Main} : pc[p] \in {"none", "gone"})
=============================================================================
