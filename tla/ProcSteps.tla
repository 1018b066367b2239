----------------------------- MODULE ProcSteps ------------------------------
(***************************************************************************)
(* Steps of kernel threads preserve IInv of Proc.  First the frame, and    *)
(* the steps of traps, yield(), kill(), set_type(), sleep() and the start  *)
(* of exit(); then those of fork(), exit() and wait().                     *)
(*                                                                         *)
(* A step of a kernel thread moves that thread and at most the one in the  *)
(* slot that fork() or wait() has in hand.  ThreadStep says what such a    *)
(* step has to establish, and LocalStep the same for a step that moves one *)
(* thread only; the lemma of each action then shows just that.  The steps  *)
(* from allocproc() to the child's RUNNABLE also move the slot fork() has  *)
(* in hand: they go through HandStep.  When wait() frees the slot of a     *)
(* ZOMBIE it goes through ThreadStep.                                      *)
(***************************************************************************)
EXTENDS Proc, TLAPS

\* What the proofs need of slot numbers and cursors; Slot and Cursor stay opaque
\* everywhere else.
LEMMA SlotFacts ==
  /\ NULL \notin Slot
  /\ initproc \in Slot
  /\ 0 \in Cursor /\ 1 \in Cursor /\ 1 # 0
  /\ \A x \in Cursor : x > NPROC \/ x = 0 \/ x \in Slot
  /\ \A x \in Cursor : ~(x > NPROC) => x + 1 \in Cursor /\ x + 1 # 0
  /\ \A x \in Cursor : x <= NPROC <=> ~(x > NPROC)
  /\ \A x \in Slot : /\ x \in Cursor /\ x # 0 /\ x <= NPROC /\ ~(x > NPROC)
                     /\ x + 1 \in Cursor /\ x + 1 # 0
BY ConstAssumption DEF Slot, NULL, initproc, Cursor

\* A cursor inside the table can be incremented.
LEMMA CursorFacts ==
  ASSUME NEW x \in Cursor, ~(x > NPROC)
  PROVE  x + 1 \in Cursor /\ x + 1 # 0
BY ConstAssumption DEF Cursor

\* A process on a CPU is that CPU's run_proc and no other CPU is running it.
LEMMA OnFacts ==
  ASSUME CpuInv, UniqueCpu, NEW p \in Slot, NEW c \in CPU, On(p, c)
  PROVE /\ spc[c] = "run" /\ run[c] = p /\ cpuproc[c] = p
        /\ \A d \in CPU : d # c /\ spc[d] = "run" => run[d] # p /\ run[d] \in Slot
BY Zenon, SlotFacts DEF CpuInv, UniqueCpu, On

\* What IInv says of a process on a CPU: its own state and cursors, and the
\* locks its CPU holds.
LEMMA OnCpuFacts ==
  ASSUME IInv, NEW p \in Slot, NEW c \in CPU, On(p, c)
  PROVE  /\ TypeOK /\ StateOf(p) /\ CursorOf(p)
         /\ state[p] = "RUNNING" \/ Switching(p)
         /\ \A q \in Slot : lock[q] = c <=> \/ q = p /\ (Switching(p) \/ Resuming(p))
                                            \/ pc[p] = "forkcopy" /\ i[p] = q
         /\ wait_lock = c <=> pc[p] \in WaitLocked
<1>1. spc[c] = "run" /\ run[c] = p
  BY Zenon, OnFacts DEF IInv
<1>2. \A q \in Slot : lock[q] = c <=> \/ q = p /\ (Switching(p) \/ Resuming(p))
                                      \/ pc[p] = "forkcopy" /\ i[p] = q
  BY <1>1 DEF IInv, LockInv, Holds
<1>3. wait_lock = c <=> pc[p] \in WaitLocked
  BY Zenon, <1>1 DEF IInv, WaitLockInv
<1>4. state[p] = "RUNNING" \/ Switching(p)
  BY Zenon DEF IInv, OnCpuInv
<1>q. QED BY Zenon, <1>2, <1>3, <1>4 DEF IInv, StateInv, CursorInv

\* A CPU whose thread does not move keeps its locks.
LEMMA HoldsFrame ==
  ASSUME NEW d \in CPU, NEW q \in Slot, spc'[d] = spc[d], run'[d] = run[d],
         spc[d] = "run" => /\ pc'[run[d]] = pc[run[d]]
                           /\ trap'[run[d]] = trap[run[d]]
                           /\ i'[run[d]] = i[run[d]]
  PROVE Holds(d, q)' <=> Holds(d, q)
BY Zenon DEF Holds, Switching, Resuming

-----------------------------------------------------------------------------
(* Steps of kernel threads                                                 *)

\* The threads of all slots but p and np stay where they are; some may be woken.
Frame(p, np) ==
  \A x \in Slot \ {p, np} :
    /\ pc'[x] = pc[x] /\ trap'[x] = trap[x] /\ i'[x] = i[x] /\ w'[x] = w[x]
    /\ \/ state'[x] = state[x]
       \/ state[x] = "SLEEPING" /\ state'[x] = "RUNNABLE" /\ lock[x] = NoCpu

\* CPU c takes and gives up p->locks, and holds those the thread of p says.
LockStep(p, c) ==
  \A q \in Slot :
    /\ lock'[q] = c <=> \/ q = p /\ (Switching(p)' \/ Resuming(p)')
                        \/ pc'[p] = "forkcopy" /\ i'[p] = q
    /\ lock'[q] # lock[q] => lock[q] \in {c, NoCpu} /\ lock'[q] \in {c, NoCpu}

\* The same for wait_lock.
WaitStep(p, c) ==
  /\ wait_lock' = c <=> pc'[p] \in WaitLocked
  /\ wait_lock' # wait_lock => wait_lock \in {c, NoCpu} /\ wait_lock' \in {c, NoCpu}

\* The thread of p is still one that can be on a CPU.
OwnStep(p) ==
  /\ state'[p] = "RUNNING" \/ Switching(p)'
  /\ StateOf(p)' /\ CursorOf(p)'

\* The thread of np is not on a CPU and does not get there.
OffCpu(np) ==
  /\ state[np] # "RUNNING" /\ ~Switching(np)
  /\ state'[np] # "RUNNING" /\ ~Switching(np)'
  /\ StateOf(np)' /\ CursorOf(np)'

\* A step of the thread of p that also moves the slot np in its hand.
LEMMA ThreadStep ==
  ASSUME IInv, NEW p \in Slot, NEW np \in Slot, NEW c \in CPU, On(p, c),
         TypeOK', UNCHANGED cpuVars, Frame(p, np), OwnStep(p), np # p => OffCpu(np),
         LockStep(p, c), WaitStep(p, c), ForkInv'
  PROVE  IInv'
<1>1. TypeOK /\ CpuInv /\ UniqueCpu /\ LockInv /\ WaitLockInv /\ StateInv /\ OnCpuInv
      /\ CursorInv
  BY Zenon DEF IInv
<1>2. UNCHANGED <<cpuproc, spc, run>>
  BY Zenon DEF cpuVars
<1>3. CpuInv' /\ UniqueCpu'
  BY Zenon, <1>1, <1>2 DEF CpuInv, UniqueCpu
<1>4. spc[c] = "run" /\ run[c] = p
  BY Zenon, <1>1, OnFacts
<1>5. \A d \in CPU : d # c /\ spc[d] = "run" => run[d] \in Slot \ {p, np}
  <2>1. SUFFICES ASSUME NEW d \in CPU, d # c, spc[d] = "run"
                 PROVE  run[d] \in Slot \ {p, np}
    OBVIOUS
  <2>2. run[d] \in Slot /\ run[d] # p /\ On(run[d], d)
    BY Zenon, <1>1, <2>1, OnFacts DEF CpuInv, On
  <2>3. np # p => run[d] # np
    BY Zenon, <1>1, <2>2 DEF OnCpuInv, OffCpu
  <2>q. QED BY Zenon, <2>2, <2>3
<1>6. LockInv'
  <2>1. SUFFICES ASSUME NEW d \in CPU, NEW q \in Slot
                 PROVE  (lock[q] = d <=> Holds(d, q))'
    BY Zenon DEF LockInv
  <2>2. CASE d = c
    <3>1. Holds(c, q)' <=> \/ q = p /\ (Switching(p)' \/ Resuming(p)')
                           \/ pc'[p] = "forkcopy" /\ i'[p] = q
      BY Zenon, <1>2, <1>4 DEF Holds
    <3>q. QED BY Zenon, <2>2, <3>1 DEF LockStep
  <2>3. CASE d # c
    <3>1. Holds(d, q)' <=> Holds(d, q)
      BY Zenon, <1>2, <1>5, <2>3, HoldsFrame DEF Frame
    <3>2. lock'[q] = d <=> lock[q] = d
      BY <2>3, ConstAssumption DEF LockStep
    <3>q. QED BY Zenon, <1>1, <3>1, <3>2 DEF LockInv
  <2>q. QED BY Zenon, <2>2, <2>3
<1>7. WaitLockInv'
  <2>1. SUFFICES ASSUME NEW d \in CPU
                 PROVE  (wait_lock = d <=> spc[d] = "run" /\ pc[run[d]] \in WaitLocked)'
    BY Zenon DEF WaitLockInv
  <2>2. CASE d = c
    BY Zenon, <1>2, <1>4, <2>2 DEF WaitStep
  <2>3. CASE d # c
    <3>1. spc[d] = "run" => pc'[run[d]] = pc[run[d]]
      BY Zenon, <1>5, <2>3 DEF Frame
    <3>2. wait_lock' = d <=> wait_lock = d
      BY <2>3, ConstAssumption DEF WaitStep
    <3>q. QED BY Zenon, <1>1, <1>2, <3>1, <3>2 DEF WaitLockInv
  <2>q. QED BY Zenon, <2>2, <2>3
<1>8. StateInv'
  <2>1. SUFFICES ASSUME NEW x \in Slot \ {p, np}
                 PROVE  StateOf(x)'
    BY Zenon DEF StateInv, OwnStep, OffCpu
  <2>2. StateOf(x) /\ pc'[x] = pc[x] /\ trap'[x] = trap[x]
    BY Zenon, <1>1 DEF StateInv, Frame
  <2>3. CASE state'[x] = state[x]
    BY Zenon, <2>2, <2>3 DEF StateOf, Resuming, Switching
  <2>4. CASE state[x] = "SLEEPING" /\ state'[x] = "RUNNABLE" /\ lock[x] = NoCpu
    <3>1. ASSUME Switching(x)
          PROVE  FALSE
      <4>1. PICK d \in CPU : On(x, d)
        BY Zenon, <1>1, <3>1 DEF OnCpuInv
      <4>2. lock[x] = d
        BY <1>1, <3>1, <4>1, OnFacts DEF LockInv, Holds
      <4>q. QED BY Zenon, <2>4, <4>2, ConstAssumption
    <3>q. QED BY Zenon, <2>2, <2>4, <3>1 DEF StateOf, Resuming, Switching
  <2>q. QED BY Zenon, <2>3, <2>4 DEF Frame
<1>9. OnCpuInv'
  <2>1. SUFFICES ASSUME NEW x \in Slot
                 PROVE  ((\E d \in CPU : On(x, d)) <=> state[x] = "RUNNING" \/ Switching(x))'
    BY Zenon DEF OnCpuInv
  <2>2. \A d \in CPU : On(x, d)' <=> On(x, d)
    BY Zenon, <1>2 DEF On
  <2>3. CASE x = p
    BY Zenon, <2>2, <2>3 DEF OwnStep
  <2>4. CASE x = np /\ np # p
    BY Zenon, <1>1, <2>2, <2>4 DEF OffCpu, OnCpuInv
  <2>5. CASE x \notin {p, np}
    <3>1. Switching(x)' <=> Switching(x)
      BY Zenon, <2>5 DEF Frame, Switching
    <3>2. state'[x] = "RUNNING" <=> state[x] = "RUNNING"
      BY Zenon, <2>5 DEF Frame
    <3>q. QED BY Zenon, <1>1, <2>2, <3>1, <3>2 DEF OnCpuInv
  <2>q. QED BY Zenon, <2>3, <2>4, <2>5
<1>10. CursorInv'
  BY Zenon, <1>1 DEF CursorInv, CursorOf, OwnStep, OffCpu, Frame
<1>q. QED BY Zenon, <1>3, <1>6, <1>7, <1>8, <1>9, <1>10 DEF IInv

\* A step that moves the thread of p only and does not touch the slot that a
\* fork() has in hand.
LEMMA LocalStep ==
  ASSUME IInv, NEW p \in Slot, NEW c \in CPU, On(p, c),
         TypeOK', UNCHANGED cpuVars, Frame(p, p), OwnStep(p),
         LockStep(p, c), WaitStep(p, c),
         Forking(p)' => /\ Forking(p) /\ i'[p] = i[p]
                        /\ pc[p] # "forkcopy" /\ pc'[p] # "forkcopy"
  PROVE  IInv'
<1>1. ForkInv /\ state[p] # "USED"
  BY Zenon, OnCpuFacts DEF IInv, StateOf, Switching
<1>2. \A x \in Slot : Forking(x)' => /\ Forking(x) /\ i'[x] = i[x]
                                     /\ (pc'[x] = "forkcopy" <=> pc[x] = "forkcopy")
  BY Zenon DEF Frame, Forking
<1>3. \A x \in Slot : state[x] = "USED" => state'[x] = "USED" /\ pc'[x] = pc[x]
  BY Zenon, <1>1 DEF Frame
<1>4. ForkInv'
  <2>1. SUFFICES ASSUME NEW x \in Slot, NEW y \in Slot, Forking(x)'
                 PROVE  (/\ i[x] \in Slot
                         /\ state[i[x]] = "USED"
                         /\ pc[i[x]] = IF pc[x] = "forkcopy" THEN "none" ELSE "forkret"
                         /\ Forking(y) /\ y # x => i[y] # i[x])'
    BY Zenon DEF ForkInv
  <2>q. QED BY <1>1, <1>2, <1>3, <2>1 DEF ForkInv
<1>q. QED BY Zenon, <1>4, ThreadStep

-----------------------------------------------------------------------------
(* Traps, yield(), kill() and set_type()                                   *)

\* A trap from user space preserves IInv.
LEMMA usertrapStep ==
  ASSUME IInv, NEW p \in Slot, NEW c \in CPU, usertrap(p, c)
  PROVE  IInv'
<1>1. On(p, c) /\ TypeOK
  BY Zenon DEF usertrap, At, IInv
<1>2. /\ StateOf(p) /\ CursorOf(p)
      /\ state[p] = "RUNNING" \/ Switching(p)
      /\ \A q \in Slot : lock[q] = c <=> \/ q = p /\ (Switching(p) \/ Resuming(p))
                                         \/ pc[p] = "forkcopy" /\ i[p] = q
      /\ wait_lock = c <=> pc[p] \in WaitLocked
  BY Zenon, <1>1, OnCpuFacts
<1>3. TypeOK'
  <2>1. (pc \in [Slot -> Location])'
    BY <1>1 DEF TypeOK, usertrap, Goto, Location
  <2>2. (i \in [Slot -> Cursor])'
    BY <1>1, <1>2, SlotFacts, CursorFacts DEF TypeOK, usertrap, Goto, At, CursorOf
  <2>3. (arg \in [Slot -> Nat])'
    BY <1>1, ConstAssumption DEF TypeOK, usertrap, Goto
  <2>q. QED BY Zenon, <1>1, <2>1, <2>2, <2>3 DEF TypeOK, usertrap, Goto, procVars,
       lockVars, cpuVars
<1>4. UNCHANGED cpuVars /\ Frame(p, p)
  BY <1>1 DEF usertrap, Goto, Frame, TypeOK, procVars
<1>5. OwnStep(p)
  BY <1>1, <1>2 DEF usertrap, Goto, At, OwnStep, StateOf, CursorOf, Switching,
     TypeOK, procVars, lockVars
<1>6. LockStep(p, c)
  BY <1>1, <1>2 DEF usertrap, Goto, At, LockStep, Switching, Resuming, TypeOK,
     lockVars
<1>7. WaitStep(p, c)
  BY <1>1, <1>2 DEF usertrap, Goto, At, WaitStep, WaitLocked, TypeOK, lockVars
<1>8. Forking(p)' => /\ Forking(p) /\ i'[p] = i[p]
                     /\ pc[p] # "forkcopy" /\ pc'[p] # "forkcopy"
  BY <1>1 DEF usertrap, Goto, Forking, TypeOK
<1>q. QED BY Zenon, <1>1, <1>3, <1>4, <1>5, <1>6, <1>7, <1>8, LocalStep

\* A fault in user space preserves IInv.
LEMMA faultStep ==
  ASSUME IInv, NEW p \in Slot, NEW c \in CPU, fault(p, c)
  PROVE  IInv'
<1>1. On(p, c) /\ TypeOK
  BY Zenon DEF fault, At, IInv
<1>2. /\ StateOf(p) /\ CursorOf(p)
      /\ state[p] = "RUNNING" \/ Switching(p)
      /\ \A q \in Slot : lock[q] = c <=> \/ q = p /\ (Switching(p) \/ Resuming(p))
                                         \/ pc[p] = "forkcopy" /\ i[p] = q
      /\ wait_lock = c <=> pc[p] \in WaitLocked
  BY Zenon, <1>1, OnCpuFacts
<1>3. TypeOK'
  <2>1. (killed \in [Slot -> BOOLEAN])'
    BY Zenon, <1>1 DEF TypeOK, fault, Goto
  <2>2. (pc \in [Slot -> Location])'
    BY Zenon, <1>1 DEF TypeOK, fault, Goto, Location
  <2>q. QED BY Zenon, <1>1, <2>1, <2>2 DEF TypeOK, fault, Goto, lockVars, cpuVars
<1>4. UNCHANGED cpuVars /\ Frame(p, p)
  BY Zenon, <1>1 DEF fault, Goto, Frame, TypeOK
<1>5. OwnStep(p)
  BY Zenon, <1>1, <1>2 DEF fault, Goto, At, OwnStep, StateOf, CursorOf, Switching, TypeOK
<1>6. LockStep(p, c)
  BY Zenon, <1>1, <1>2 DEF fault, Goto, At, LockStep, Switching, Resuming, TypeOK, lockVars
<1>7. WaitStep(p, c)
  BY Zenon, <1>1, <1>2 DEF fault, Goto, At, WaitStep, WaitLocked, TypeOK, lockVars
<1>8. Forking(p)' => /\ Forking(p) /\ i'[p] = i[p]
                     /\ pc[p] # "forkcopy" /\ pc'[p] # "forkcopy"
  BY Zenon, <1>1 DEF fault, Goto, At, Forking, TypeOK
<1>q. QED BY Zenon, <1>1, <1>3, <1>4, <1>5, <1>6, <1>7, <1>8, LocalStep

\* The return to user space preserves IInv.
LEMMA trapretStep ==
  ASSUME IInv, NEW p \in Slot, NEW c \in CPU, trapret(p, c)
  PROVE  IInv'
<1>1. On(p, c) /\ TypeOK
  BY Zenon DEF trapret, At, IInv
<1>2. /\ StateOf(p) /\ CursorOf(p)
      /\ state[p] = "RUNNING" \/ Switching(p)
      /\ \A q \in Slot : lock[q] = c <=> \/ q = p /\ (Switching(p) \/ Resuming(p))
                                         \/ pc[p] = "forkcopy" /\ i[p] = q
      /\ wait_lock = c <=> pc[p] \in WaitLocked
  BY Zenon, <1>1, OnCpuFacts
<1>3. TypeOK'
  <2>1. (pc \in [Slot -> Location])'
    BY Zenon, <1>1 DEF TypeOK, trapret, Goto, Location
  <2>q. QED BY Zenon, <1>1, <2>1 DEF TypeOK, trapret, Goto, procVars, lockVars, cpuVars
<1>4. UNCHANGED cpuVars /\ Frame(p, p)
  BY Zenon, <1>1 DEF trapret, Goto, Frame, TypeOK, procVars
<1>5. OwnStep(p)
  BY Zenon, <1>1, <1>2 DEF trapret, Goto, At, OwnStep, StateOf, CursorOf, Switching,
     TypeOK, procVars
<1>6. LockStep(p, c)
  BY Zenon, <1>1, <1>2 DEF trapret, Goto, At, LockStep, Switching, Resuming, TypeOK,
     lockVars
<1>7. WaitStep(p, c)
  BY Zenon, <1>1, <1>2 DEF trapret, Goto, At, WaitStep, WaitLocked, TypeOK, lockVars
<1>8. Forking(p)' => /\ Forking(p) /\ i'[p] = i[p]
                     /\ pc[p] # "forkcopy" /\ pc'[p] # "forkcopy"
  BY Zenon, <1>1 DEF trapret, Goto, At, Forking, TypeOK
<1>q. QED BY Zenon, <1>1, <1>3, <1>4, <1>5, <1>6, <1>7, <1>8, LocalStep

\* A timer interrupt preserves IInv.
LEMMA yieldStep ==
  ASSUME IInv, NEW p \in Slot, NEW c \in CPU, yield(p, c)
  PROVE  IInv'
<1>1. On(p, c) /\ TypeOK
  BY Zenon DEF yield, IInv
<1>2. /\ StateOf(p) /\ CursorOf(p)
      /\ state[p] = "RUNNING" \/ Switching(p)
      /\ \A q \in Slot : lock[q] = c <=> \/ q = p /\ (Switching(p) \/ Resuming(p))
                                         \/ pc[p] = "forkcopy" /\ i[p] = q
      /\ wait_lock = c <=> pc[p] \in WaitLocked
  BY Zenon, <1>1, OnCpuFacts
<1>3. TypeOK'
  <2>1. (lock \in [Slot -> CPU \cup {NoCpu}])'
    BY Zenon, <1>1 DEF TypeOK, yield, Acquire
  <2>2. (state \in [Slot -> {"UNUSED", "USED", "SLEEPING", "RUNNABLE", "RUNNING", "ZOMBIE"}])'
    BY Zenon, <1>1 DEF TypeOK, yield, Acquire
  <2>3. (trap \in [Slot -> {"none", "sched", "ret"}])'
    BY Zenon, <1>1 DEF TypeOK, yield, Acquire
  <2>q. QED BY Zenon, <1>1, <2>1, <2>2, <2>3 DEF TypeOK, yield, Acquire, cpuVars
<1>4. UNCHANGED cpuVars /\ Frame(p, p)
  BY Zenon, <1>1 DEF yield, Frame, TypeOK
<1>5. OwnStep(p)
  BY Zenon, <1>1, <1>2 DEF yield, OwnStep, StateOf, CursorOf, Switching, TypeOK
<1>6. LockStep(p, c)
  BY <1>1, <1>2 DEF yield, Acquire, LockStep, Switching, Free, TypeOK
<1>7. WaitStep(p, c)
  BY Zenon, <1>1, <1>2 DEF yield, WaitStep, TypeOK
<1>8. Forking(p)' => /\ Forking(p) /\ i'[p] = i[p]
                     /\ pc[p] # "forkcopy" /\ pc'[p] # "forkcopy"
  BY Zenon, <1>1 DEF yield, Forking, TypeOK, Interruptible
<1>q. QED BY Zenon, <1>1, <1>3, <1>4, <1>5, <1>6, <1>7, <1>8, LocalStep

\* The end of yield() preserves IInv.
LEMMA yieldretStep ==
  ASSUME IInv, NEW p \in Slot, NEW c \in CPU, yieldret(p, c)
  PROVE  IInv'
<1>1. On(p, c) /\ TypeOK
  BY Zenon DEF yieldret, IInv
<1>2. /\ StateOf(p) /\ CursorOf(p)
      /\ state[p] = "RUNNING" \/ Switching(p)
      /\ \A q \in Slot : lock[q] = c <=> \/ q = p /\ (Switching(p) \/ Resuming(p))
                                         \/ pc[p] = "forkcopy" /\ i[p] = q
      /\ wait_lock = c <=> pc[p] \in WaitLocked
  BY Zenon, <1>1, OnCpuFacts
<1>3. TypeOK'
  <2>1. (lock \in [Slot -> CPU \cup {NoCpu}])'
    BY Zenon, <1>1 DEF TypeOK, yieldret, Release
  <2>2. (trap \in [Slot -> {"none", "sched", "ret"}])'
    BY Zenon, <1>1 DEF TypeOK, yieldret, Release
  <2>q. QED BY Zenon, <1>1, <2>1, <2>2 DEF TypeOK, yieldret, Release, procVars, cpuVars
<1>4. UNCHANGED cpuVars /\ Frame(p, p)
  BY Zenon, <1>1 DEF yieldret, Frame, TypeOK, procVars
<1>5. OwnStep(p)
  BY Zenon, <1>1, <1>2 DEF yieldret, OwnStep, StateOf, CursorOf, Switching, Interruptible,
     TypeOK, procVars
<1>6. LockStep(p, c)
  BY <1>1, <1>2, ConstAssumption DEF yieldret, Release, LockStep, Switching,
     Resuming, TypeOK, StateOf, Interruptible
<1>7. WaitStep(p, c)
  BY Zenon, <1>1, <1>2 DEF yieldret, WaitStep, TypeOK
<1>8. Forking(p)' => /\ Forking(p) /\ i'[p] = i[p]
                     /\ pc[p] # "forkcopy" /\ pc'[p] # "forkcopy"
  BY Zenon, <1>1, <1>2 DEF yieldret, Forking, TypeOK, Interruptible, StateOf
<1>q. QED BY Zenon, <1>1, <1>3, <1>4, <1>5, <1>6, <1>7, <1>8, LocalStep

\* A new process's first step preserves IInv.
LEMMA forkretStep ==
  ASSUME IInv, NEW p \in Slot, NEW c \in CPU, forkret(p, c)
  PROVE  IInv'
<1>1. On(p, c) /\ TypeOK
  BY Zenon DEF forkret, At, IInv
<1>2. /\ StateOf(p) /\ CursorOf(p)
      /\ state[p] = "RUNNING" \/ Switching(p)
      /\ \A q \in Slot : lock[q] = c <=> \/ q = p /\ (Switching(p) \/ Resuming(p))
                                         \/ pc[p] = "forkcopy" /\ i[p] = q
      /\ wait_lock = c <=> pc[p] \in WaitLocked
  BY Zenon, <1>1, OnCpuFacts
<1>3. TypeOK'
  <2>1. (lock \in [Slot -> CPU \cup {NoCpu}])'
    BY Zenon, <1>1 DEF TypeOK, forkret, Goto, Release
  <2>2. (pc \in [Slot -> Location])'
    BY Zenon, <1>1 DEF TypeOK, forkret, Goto, Release, Location
  <2>q. QED BY Zenon, <1>1, <2>1, <2>2 DEF TypeOK, forkret, Goto, Release, procVars,
       cpuVars
<1>4. UNCHANGED cpuVars /\ Frame(p, p)
  BY Zenon, <1>1 DEF forkret, Goto, Frame, TypeOK, procVars
<1>5. OwnStep(p)
  BY Zenon, <1>1, <1>2 DEF forkret, Goto, At, OwnStep, StateOf, CursorOf, Switching,
     TypeOK, procVars
<1>6. LockStep(p, c)
  BY <1>1, <1>2, ConstAssumption DEF forkret, Goto, Release, At, LockStep,
     Switching, Resuming, TypeOK
<1>7. WaitStep(p, c)
  BY Zenon, <1>1, <1>2 DEF forkret, Goto, At, WaitStep, WaitLocked, TypeOK
<1>8. Forking(p)' => /\ Forking(p) /\ i'[p] = i[p]
                     /\ pc[p] # "forkcopy" /\ pc'[p] # "forkcopy"
  BY Zenon, <1>1 DEF forkret, Goto, At, Forking, TypeOK
<1>q. QED BY Zenon, <1>1, <1>3, <1>4, <1>5, <1>6, <1>7, <1>8, LocalStep

\* An iteration of kill() preserves IInv.
LEMMA killStep ==
  ASSUME IInv, NEW p \in Slot, NEW c \in CPU, kill(p, c)
  PROVE  IInv'
<1>1. On(p, c) /\ TypeOK
  BY Zenon DEF kill, At, IInv
<1>2. /\ StateOf(p) /\ CursorOf(p)
      /\ state[p] = "RUNNING" \/ Switching(p)
      /\ \A q \in Slot : lock[q] = c <=> \/ q = p /\ (Switching(p) \/ Resuming(p))
                                         \/ pc[p] = "forkcopy" /\ i[p] = q
      /\ wait_lock = c <=> pc[p] \in WaitLocked
  BY Zenon, <1>1, OnCpuFacts
<1>3. TypeOK'
  <2>1. (state \in [Slot -> {"UNUSED", "USED", "SLEEPING", "RUNNABLE", "RUNNING", "ZOMBIE"}])'
    <3>1. state' = state \/ state' = [state EXCEPT ![i[p]] = "RUNNABLE"]
      BY Zenon DEF kill
    <3>2. state \in [Slot -> {"UNUSED", "USED", "SLEEPING", "RUNNABLE", "RUNNING", "ZOMBIE"}]
      BY Zenon, <1>1 DEF TypeOK
    <3>q. QED BY Zenon, <3>1, <3>2
  <2>2. (killed \in [Slot -> BOOLEAN])'
    <3>1. killed' = killed \/ killed' = [killed EXCEPT ![i[p]] = TRUE]
      BY Zenon DEF kill
    <3>2. killed \in [Slot -> BOOLEAN]
      BY Zenon, <1>1 DEF TypeOK
    <3>q. QED BY <3>1, <3>2, Zenon
  <2>3. (pc \in [Slot -> Location])'
    BY <1>1 DEF TypeOK, kill, Goto, Location
  <2>4. (i \in [Slot -> Cursor])'
    BY <1>1, <1>2, SlotFacts, CursorFacts DEF TypeOK, kill, Goto, At, CursorOf
  <2>5. (arg \in [Slot -> Nat])'
    BY Zenon, <1>1, ConstAssumption DEF TypeOK, kill, Goto
  <2>q. QED BY Zenon, <1>1, <2>1, <2>2, <2>3, <2>4, <2>5 DEF TypeOK, kill, Goto, lockVars,
       cpuVars
<1>4. UNCHANGED cpuVars /\ Frame(p, p)
  BY <1>1 DEF kill, Goto, Frame, TypeOK, Free
<1>5. OwnStep(p)
  BY <1>1, <1>2, SlotFacts DEF kill, Goto, At, OwnStep, StateOf, CursorOf,
     Switching, TypeOK
<1>6. LockStep(p, c)
  BY Zenon, <1>1, <1>2 DEF kill, Goto, At, LockStep, Switching, Resuming, TypeOK, lockVars
<1>7. WaitStep(p, c)
  BY <1>1, <1>2 DEF kill, Goto, At, WaitStep, WaitLocked, TypeOK, lockVars
<1>8. Forking(p)' => /\ Forking(p) /\ i'[p] = i[p]
                     /\ pc[p] # "forkcopy" /\ pc'[p] # "forkcopy"
  BY <1>1 DEF kill, Goto, At, Forking, TypeOK
<1>q. QED BY Zenon, <1>1, <1>3, <1>4, <1>5, <1>6, <1>7, <1>8, LocalStep

\* An iteration of set_type() preserves IInv.
LEMMA settypeStep ==
  ASSUME IInv, NEW p \in Slot, NEW c \in CPU, settype(p, c)
  PROVE  IInv'
<1>1. On(p, c) /\ TypeOK
  BY Zenon DEF settype, At, IInv
<1>2. /\ StateOf(p) /\ CursorOf(p)
      /\ state[p] = "RUNNING" \/ Switching(p)
      /\ \A q \in Slot : lock[q] = c <=> \/ q = p /\ (Switching(p) \/ Resuming(p))
                                         \/ pc[p] = "forkcopy" /\ i[p] = q
      /\ wait_lock = c <=> pc[p] \in WaitLocked
  BY Zenon, <1>1, OnCpuFacts
<1>3. TypeOK'
  <2>1. (pc \in [Slot -> Location])'
    <3>1. pc' = pc \/ \E l \in {"ret", "setwrite"} : pc' = [pc EXCEPT ![p] = l]
      BY Zenon DEF settype, Goto
    <3>2. pc \in [Slot -> Location]
      BY Zenon, <1>1 DEF TypeOK
    <3>q. QED BY Zenon, <3>1, <3>2 DEF Location
  <2>2. (i \in [Slot -> Cursor])'
    <3>1. \/ i' = i \/ i' = [i EXCEPT ![p] = 0]
          \/ ~(i[p] > NPROC) /\ i' = [i EXCEPT ![p] = i[p] + 1]
      BY Zenon DEF settype
    <3>2. i \in [Slot -> Cursor]
      BY Zenon, <1>1 DEF TypeOK
    <3>q. QED BY Zenon, <3>1, <3>2, SlotFacts, CursorFacts
  <2>3. (arg \in [Slot -> Nat])'
    BY <1>1, ConstAssumption DEF TypeOK, settype, Goto
  <2>q. QED BY Zenon, <1>1, <2>1, <2>2, <2>3 DEF TypeOK, settype, Goto, procVars, lockVars,
       cpuVars
<1>4. UNCHANGED cpuVars /\ Frame(p, p)
  BY <1>1 DEF settype, Goto, Frame, TypeOK, procVars
<1>5. OwnStep(p)
  BY <1>1, <1>2, SlotFacts DEF settype, Goto, At, OwnStep, StateOf, CursorOf,
     Switching, TypeOK, procVars
<1>6. LockStep(p, c)
  BY <1>1, <1>2 DEF settype, Goto, At, LockStep, Switching, Resuming, TypeOK,
     lockVars
<1>7. WaitStep(p, c)
  BY <1>1, <1>2 DEF settype, Goto, At, WaitStep, WaitLocked, TypeOK, lockVars
<1>8. Forking(p)' => /\ Forking(p) /\ i'[p] = i[p]
                     /\ pc[p] # "forkcopy" /\ pc'[p] # "forkcopy"
  BY Zenon, <1>1 DEF settype, Goto, At, Forking, TypeOK
<1>q. QED BY Zenon, <1>1, <1>3, <1>4, <1>5, <1>6, <1>7, <1>8, LocalStep

\* The store of set_type() preserves IInv.
LEMMA setwriteStep ==
  ASSUME IInv, NEW p \in Slot, NEW c \in CPU, setwrite(p, c)
  PROVE  IInv'
<1>1. On(p, c) /\ TypeOK
  BY Zenon DEF setwrite, At, IInv
<1>2. /\ StateOf(p) /\ CursorOf(p)
      /\ state[p] = "RUNNING" \/ Switching(p)
      /\ \A q \in Slot : lock[q] = c <=> \/ q = p /\ (Switching(p) \/ Resuming(p))
                                         \/ pc[p] = "forkcopy" /\ i[p] = q
      /\ wait_lock = c <=> pc[p] \in WaitLocked
  BY Zenon, <1>1, OnCpuFacts
<1>3. TypeOK'
  <2>1. (type \in [Slot -> AnyType])'
    BY Zenon, <1>1, <1>2, ConstAssumption DEF TypeOK, setwrite, Goto, At, AnyType, Type,
       CursorOf
  <2>2. (pc \in [Slot -> Location])'
    BY Zenon, <1>1 DEF TypeOK, setwrite, Goto, Location
  <2>3. (i \in [Slot -> Cursor])'
    BY Zenon, <1>1, <1>2, SlotFacts, CursorFacts DEF TypeOK, setwrite, Goto, At, CursorOf
  <2>4. (arg \in [Slot -> Nat])'
    BY Zenon, <1>1, ConstAssumption DEF TypeOK, setwrite, Goto
  <2>q. QED BY Zenon, <1>1, <2>1, <2>2, <2>3, <2>4 DEF TypeOK, setwrite, Goto, lockVars,
       cpuVars
<1>4. UNCHANGED cpuVars /\ Frame(p, p)
  BY Zenon, <1>1 DEF setwrite, Goto, Frame, TypeOK
<1>5. OwnStep(p)
  BY <1>1, <1>2 DEF setwrite, Goto, At, OwnStep, StateOf, CursorOf, Switching,
     TypeOK
<1>6. LockStep(p, c)
  BY <1>1, <1>2 DEF setwrite, Goto, At, LockStep, Switching, Resuming, TypeOK,
     lockVars
<1>7. WaitStep(p, c)
  BY <1>1, <1>2 DEF setwrite, Goto, At, WaitStep, WaitLocked, TypeOK, lockVars
<1>8. Forking(p)' => /\ Forking(p) /\ i'[p] = i[p]
                     /\ pc[p] # "forkcopy" /\ pc'[p] # "forkcopy"
  BY Zenon, <1>1 DEF setwrite, Goto, At, Forking, TypeOK
<1>q. QED BY Zenon, <1>1, <1>3, <1>4, <1>5, <1>6, <1>7, <1>8, LocalStep

\* Going to sleep preserves IInv.
LEMMA sleepStep ==
  ASSUME IInv, NEW p \in Slot, NEW c \in CPU, sleep(p, c)
  PROVE  IInv'
<1>1. On(p, c) /\ TypeOK
  BY Zenon DEF sleep, At, IInv
<1>2. /\ StateOf(p) /\ CursorOf(p)
      /\ state[p] = "RUNNING" \/ Switching(p)
      /\ \A q \in Slot : lock[q] = c <=> \/ q = p /\ (Switching(p) \/ Resuming(p))
                                         \/ pc[p] = "forkcopy" /\ i[p] = q
      /\ wait_lock = c <=> pc[p] \in WaitLocked
  BY Zenon, <1>1, OnCpuFacts
<1>3. TypeOK'
  <2>1. (lock \in [Slot -> CPU \cup {NoCpu}])'
    BY Zenon, <1>1 DEF TypeOK, sleep, Goto, Acquire
  <2>2. (wait_lock \in CPU \cup {NoCpu})'
    BY Zenon, <1>1 DEF TypeOK, sleep, Goto, Acquire
  <2>3. (chan \in [Slot -> Slot \cup {NULL}])'
    BY Zenon, <1>1 DEF TypeOK, sleep, Goto, Acquire
  <2>4. (state \in [Slot -> {"UNUSED", "USED", "SLEEPING", "RUNNABLE", "RUNNING", "ZOMBIE"}])'
    BY Zenon, <1>1 DEF TypeOK, sleep, Goto, Acquire
  <2>5. (pc \in [Slot -> Location])'
    BY Zenon, <1>1 DEF TypeOK, sleep, Goto, Acquire, Location
  <2>q. QED BY Zenon, <1>1, <2>1, <2>2, <2>3, <2>4, <2>5 DEF TypeOK, sleep, Goto, Acquire,
       cpuVars
<1>4. UNCHANGED cpuVars /\ Frame(p, p)
  BY Zenon, <1>1 DEF sleep, Goto, Frame, TypeOK
<1>5. OwnStep(p)
  BY Zenon, <1>1 DEF sleep, Goto, At, OwnStep, StateOf, CursorOf, Switching, TypeOK
<1>6. LockStep(p, c)
  BY Zenon, <1>1, <1>2 DEF sleep, Goto, Acquire, At, LockStep, Switching, Free, TypeOK
<1>7. WaitStep(p, c)
  BY Zenon, <1>1, <1>2, ConstAssumption DEF sleep, Goto, At, WaitStep, WaitLocked, TypeOK
<1>8. Forking(p)' => /\ Forking(p) /\ i'[p] = i[p]
                     /\ pc[p] # "forkcopy" /\ pc'[p] # "forkcopy"
  BY Zenon, <1>1 DEF sleep, Goto, At, Forking, TypeOK
<1>q. QED BY Zenon, <1>1, <1>3, <1>4, <1>5, <1>6, <1>7, <1>8, LocalStep

\* Waking up in sleep() preserves IInv.
LEMMA sleepretStep ==
  ASSUME IInv, NEW p \in Slot, NEW c \in CPU, sleepret(p, c)
  PROVE  IInv'
<1>1. On(p, c) /\ TypeOK
  BY Zenon DEF sleepret, At, IInv
<1>2. /\ StateOf(p) /\ CursorOf(p)
      /\ state[p] = "RUNNING" \/ Switching(p)
      /\ \A q \in Slot : lock[q] = c <=> \/ q = p /\ (Switching(p) \/ Resuming(p))
                                         \/ pc[p] = "forkcopy" /\ i[p] = q
      /\ wait_lock = c <=> pc[p] \in WaitLocked
  BY Zenon, <1>1, OnCpuFacts
<1>3. TypeOK'
  <2>1. (chan \in [Slot -> Slot \cup {NULL}])'
    BY Zenon, <1>1 DEF TypeOK, sleepret, Goto, Release
  <2>2. (lock \in [Slot -> CPU \cup {NoCpu}])'
    BY Zenon, <1>1 DEF TypeOK, sleepret, Goto, Release
  <2>3. (pc \in [Slot -> Location])'
    BY Zenon, <1>1 DEF TypeOK, sleepret, Goto, Release, Location
  <2>q. QED BY Zenon, <1>1, <2>1, <2>2, <2>3 DEF TypeOK, sleepret, Goto, Release, cpuVars
<1>4. UNCHANGED cpuVars /\ Frame(p, p)
  BY Zenon, <1>1 DEF sleepret, Goto, Frame, TypeOK
<1>5. OwnStep(p)
  BY Zenon, <1>1, <1>2 DEF sleepret, Goto, At, OwnStep, StateOf, CursorOf, Switching,
     TypeOK
<1>6. LockStep(p, c)
  BY <1>1, <1>2, ConstAssumption DEF sleepret, Goto, Release, At, LockStep,
     Switching, Resuming, TypeOK
<1>7. WaitStep(p, c)
  BY Zenon, <1>1, <1>2 DEF sleepret, Goto, At, WaitStep, WaitLocked, TypeOK
<1>8. Forking(p)' => /\ Forking(p) /\ i'[p] = i[p]
                     /\ pc[p] # "forkcopy" /\ pc'[p] # "forkcopy"
  BY Zenon, <1>1 DEF sleepret, Goto, At, Forking, TypeOK
<1>q. QED BY Zenon, <1>1, <1>3, <1>4, <1>5, <1>6, <1>7, <1>8, LocalStep

\* The start of exit() preserves IInv.
LEMMA exitlockStep ==
  ASSUME IInv, NEW p \in Slot, NEW c \in CPU, exitlock(p, c)
  PROVE  IInv'
<1>1. On(p, c) /\ TypeOK
  BY Zenon DEF exitlock, At, IInv
<1>2. /\ StateOf(p) /\ CursorOf(p)
      /\ state[p] = "RUNNING" \/ Switching(p)
      /\ \A q \in Slot : lock[q] = c <=> \/ q = p /\ (Switching(p) \/ Resuming(p))
                                         \/ pc[p] = "forkcopy" /\ i[p] = q
      /\ wait_lock = c <=> pc[p] \in WaitLocked
  BY Zenon, <1>1, OnCpuFacts
<1>3. TypeOK'
  <2>1. (wait_lock \in CPU \cup {NoCpu})'
    BY Zenon, <1>1 DEF TypeOK, exitlock, Goto
  <2>2. (pc \in [Slot -> Location])'
    BY Zenon, <1>1 DEF TypeOK, exitlock, Goto, Location
  <2>3. (i \in [Slot -> Cursor])'
    BY Zenon, <1>1, <1>2, SlotFacts, CursorFacts DEF TypeOK, exitlock, Goto, At, CursorOf
  <2>q. QED BY Zenon, <1>1, <2>1, <2>2, <2>3 DEF TypeOK, exitlock, Goto, procVars, cpuVars
<1>4. UNCHANGED cpuVars /\ Frame(p, p)
  BY Zenon, <1>1 DEF exitlock, Goto, Frame, TypeOK, procVars
<1>5. OwnStep(p)
  BY <1>1, <1>2 DEF exitlock, Goto, At, OwnStep, StateOf, CursorOf, Switching,
     TypeOK, procVars
<1>6. LockStep(p, c)
  BY Zenon, <1>1, <1>2 DEF exitlock, Goto, At, LockStep, Switching, Resuming, TypeOK
<1>7. WaitStep(p, c)
  BY Zenon, <1>1 DEF exitlock, Goto, WaitStep, WaitLocked, TypeOK
<1>8. Forking(p)' => /\ Forking(p) /\ i'[p] = i[p]
                     /\ pc[p] # "forkcopy" /\ pc'[p] # "forkcopy"
  BY Zenon, <1>1 DEF exitlock, Goto, At, Forking, TypeOK
<1>q. QED BY Zenon, <1>1, <1>3, <1>4, <1>5, <1>6, <1>7, <1>8, LocalStep

-----------------------------------------------------------------------------
(* fork(), exit() and wait()                                               *)

\* A step that moves p and the slot np in its hand, which no other fork() has.
LEMMA HandStep ==
  ASSUME IInv, NEW p \in Slot, NEW np \in Slot, NEW c \in CPU, On(p, c), np # p,
         Frame(p, np), ~Forking(np)', \A x \in Slot \ {p} : Forking(x) => i[x] # np,
         Forking(p)' =>
           /\ i'[p] = np /\ state'[np] = "USED"
           /\ pc'[np] = IF pc'[p] = "forkcopy" THEN "none" ELSE "forkret"
  PROVE  ForkInv'
<1>1. ForkInv /\ state[p] # "USED"
  BY Zenon, OnCpuFacts DEF IInv, StateOf, Switching
<1>2. ASSUME NEW x \in Slot \ {p}, Forking(x)'
      PROVE  /\ Forking(x) /\ i'[x] = i[x] /\ pc'[x] = pc[x]
             /\ i[x] \in Slot \ {p, np}
             /\ state'[i[x]] = "USED" /\ pc'[i[x]] = pc[i[x]]
  <2>1. x # np /\ Forking(x) /\ i'[x] = i[x] /\ pc'[x] = pc[x]
    BY Zenon, <1>2 DEF Frame, Forking
  <2>2. i[x] \in Slot \ {p, np} /\ state[i[x]] = "USED"
    BY Zenon, <1>1, <2>1 DEF ForkInv
  <2>q. QED BY Zenon, <2>1, <2>2 DEF Frame
<1>3. SUFFICES ASSUME NEW x \in Slot, NEW y \in Slot, Forking(x)'
               PROVE  (/\ i[x] \in Slot
                       /\ state[i[x]] = "USED"
                       /\ pc[i[x]] = IF pc[x] = "forkcopy" THEN "none" ELSE "forkret"
                       /\ Forking(y) /\ y # x => i[y] # i[x])'
  BY Zenon DEF ForkInv
<1>4. CASE x = p
  BY Zenon, <1>2, <1>3, <1>4
<1>5. CASE x # p
  <2>1. /\ Forking(x) /\ i'[x] = i[x] /\ pc'[x] = pc[x] /\ i[x] \in Slot \ {p, np}
        /\ state'[i[x]] = "USED" /\ pc'[i[x]] = pc[i[x]]
    BY Zenon, <1>2, <1>3, <1>5
  <2>2. pc[i[x]] = IF pc[x] = "forkcopy" THEN "none" ELSE "forkret"
    BY Zenon, <1>1, <2>1 DEF ForkInv
  <2>3. ASSUME Forking(y)', y # x
        PROVE  i'[y] # i'[x]
    <3>1. CASE y = p
      BY Zenon, <2>1, <2>3, <3>1
    <3>2. CASE y # p
      <4>1. Forking(y) /\ i'[y] = i[y]
        BY Zenon, <1>2, <2>3, <3>2
      <4>q. QED BY Zenon, <1>1, <2>1, <2>3, <4>1 DEF ForkInv
    <3>q. QED BY Zenon, <3>1, <3>2
  <2>q. QED BY Zenon, <2>1, <2>2, <2>3
<1>q. QED BY Zenon, <1>4, <1>5

\* freeproc() keeps the types of the fields it clears.
LEMMA freeprocType ==
  ASSUME TypeOK, NEW np \in Slot, freeproc(np)
  PROVE  (/\ state \in [Slot -> {"UNUSED", "USED", "SLEEPING", "RUNNABLE", "RUNNING", "ZOMBIE"}]
          /\ pid \in [Slot -> Nat]
          /\ parent \in [Slot -> Slot \cup {NULL}]
          /\ chan \in [Slot -> Slot \cup {NULL}]
          /\ killed \in [Slot -> BOOLEAN])'
BY Zenon DEF freeproc, TypeOK

\* A fork() has a slot of its own in hand, which is on no CPU.
LEMMA ForkFacts ==
  ASSUME IInv, NEW p \in Slot, NEW c \in CPU, On(p, c), Forking(p)
  PROVE  /\ i[p] \in Slot /\ i[p] # p /\ state[i[p]] = "USED" /\ trap[i[p]] = "none"
         /\ pc[i[p]] = IF pc[p] = "forkcopy" THEN "none" ELSE "forkret"
         /\ \A x \in Slot \ {p} : Forking(x) => i[x] # i[p]
<1>1. ForkInv /\ StateInv /\ state[p] # "USED"
  BY Zenon, OnCpuFacts DEF IInv, StateOf, Switching
<1>q. QED BY Zenon, <1>1 DEF ForkInv, StateInv, StateOf

\* An iteration of allocproc() preserves IInv.
LEMMA allocprocStep ==
  ASSUME IInv, NEW p \in Slot, NEW c \in CPU, allocproc(p, c)
  PROVE  IInv'
<1>1. On(p, c) /\ TypeOK /\ trap[p] = "none" /\ pc[p] = "alloc"
  BY Zenon DEF allocproc, At, IInv
<1>2. /\ StateOf(p) /\ i[p] # 0 /\ state[p] = "RUNNING"
      /\ \A q \in Slot : lock[q] # c
      /\ wait_lock # c
  BY <1>1, OnCpuFacts DEF Switching, Resuming, CursorOf, WaitLocked
<1>3. TypeOK'
  <2>1. (state \in [Slot -> {"UNUSED", "USED", "SLEEPING", "RUNNABLE", "RUNNING", "ZOMBIE"}])'
    <3>1. state' = state \/ state' = [state EXCEPT ![i[p]] = "USED"]
      BY Zenon DEF allocproc
    <3>2. state \in [Slot -> {"UNUSED", "USED", "SLEEPING", "RUNNABLE", "RUNNING", "ZOMBIE"}]
      BY Zenon, <1>1 DEF TypeOK
    <3>q. QED BY Zenon, <3>1, <3>2
  <2>2. (pid \in [Slot -> Nat])'
    <3>1. pid' = pid \/ pid' = [pid EXCEPT ![i[p]] = nextpid]
      BY Zenon DEF allocproc
    <3>2. pid \in [Slot -> Nat] /\ nextpid \in Nat
      BY Zenon, <1>1 DEF TypeOK
    <3>q. QED BY Zenon, <3>1, <3>2
  <2>3. (type \in [Slot -> AnyType])'
    BY Zenon, <1>1 DEF TypeOK, allocproc, AnyType, Type
  <2>4. (nextpid \in Nat)'
    BY <1>1 DEF TypeOK, allocproc
  <2>5. (lock \in [Slot -> CPU \cup {NoCpu}])'
    <3>1. lock' = lock \/ lock' = [lock EXCEPT ![i[p]] = c]
      BY Zenon DEF allocproc, Acquire
    <3>q. QED BY Zenon, <1>1, <3>1 DEF TypeOK
  <2>6. (pc \in [Slot -> Location])'
    BY <1>1 DEF TypeOK, allocproc, Goto, Location
  <2>7. (i \in [Slot -> Cursor])'
    BY <1>1, SlotFacts DEF TypeOK, allocproc
  <2>q. QED BY Zenon, <1>1, <2>1, <2>2, <2>3, <2>4, <2>5, <2>6, <2>7 DEF TypeOK, allocproc,
       cpuVars
<1>4. WaitStep(p, c) /\ UNCHANGED <<cpuVars, wait_lock, trap, w>>
  BY <1>1, <1>2 DEF allocproc, Goto, WaitStep, WaitLocked, TypeOK
<1>5. CASE ~(i[p] > NPROC) /\ state[i[p]] = "UNUSED"
  <2>1. PICK np \in Slot : np = i[p] /\ np # p /\ trap[np] = "none" /\ pc[np] = "none"
    BY Zenon, <1>1, <1>2, <1>5, SlotFacts DEF IInv, StateInv, StateOf, TypeOK
  <2>2. /\ lock[np] = NoCpu /\ lock' = [lock EXCEPT ![np] = c]
        /\ state' = [state EXCEPT ![np] = "USED"]
        /\ pc' = [pc EXCEPT ![p] = "forkcopy"] /\ i' = i
    BY Zenon, <1>5, <2>1 DEF allocproc, Acquire, Free, Goto
  <2>3. Frame(p, np)
    BY Zenon, <1>1, <1>4, <2>2 DEF Frame, TypeOK
  <2>4. OwnStep(p)
    BY Zenon, <1>1, <1>2, <1>4, <2>1, <2>2 DEF OwnStep, StateOf, CursorOf, Switching,
       TypeOK
  <2>5. OffCpu(np)
    BY Zenon, <1>1, <1>4, <1>5, <2>1, <2>2 DEF OffCpu, StateOf, CursorOf, Switching, TypeOK
  <2>6. LockStep(p, c)
    BY Zenon, <1>1, <1>2, <1>4, <2>1, <2>2 DEF LockStep, Switching, Resuming, TypeOK
  <2>7. ForkInv'
    <3>1. \A x \in Slot \ {p} : Forking(x) => i[x] # np
      BY Zenon, <1>5, <2>1 DEF IInv, ForkInv
    <3>2. ~Forking(np)' /\ i'[p] = np /\ state'[np] = "USED" /\ pc'[np] = "none" /\ pc'[p] = "forkcopy"
      BY Zenon, <1>1, <2>1, <2>2 DEF Forking, TypeOK
    <3>q. QED BY Zenon, <1>1, <2>3, <3>1, <3>2, HandStep
  <2>q. QED BY Zenon, <1>1, <1>3, <1>4, <2>3, <2>4, <2>5, <2>6, <2>7, ThreadStep
<1>6. CASE ~(~(i[p] > NPROC) /\ state[i[p]] = "UNUSED")
  <2>1. /\ UNCHANGED <<lock, state>>
        /\ \/ pc' = [pc EXCEPT ![p] = "ret"]
           \/ pc' = pc /\ ~(i[p] > NPROC) /\ i' = [i EXCEPT ![p] = i[p] + 1]
        /\ \A x \in Slot \ {p} : i'[x] = i[x]
    BY Zenon, <1>1, <1>6 DEF allocproc, Goto, TypeOK
  <2>2. Frame(p, p)
    BY Zenon, <1>1, <1>4, <2>1 DEF Frame, TypeOK
  <2>3. OwnStep(p)
    BY <1>1, <1>2, <1>4, <2>1, CursorFacts DEF OwnStep, StateOf, CursorOf,
       Switching, TypeOK
  <2>4. LockStep(p, c)
    BY Zenon, <1>1, <1>2, <1>4, <2>1 DEF LockStep, Switching, Resuming, TypeOK
  <2>5. ~Forking(p)'
    BY Zenon, <1>1, <2>1 DEF Forking, TypeOK
  <2>q. QED BY Zenon, <1>1, <1>3, <1>4, <2>2, <2>3, <2>4, <2>5, LocalStep
<1>q. QED BY Zenon, <1>5, <1>6

\* A failing fork() preserves IInv.
LEMMA forkfailStep ==
  ASSUME IInv, NEW p \in Slot, NEW c \in CPU, forkfail(p, c)
  PROVE  IInv'
<1>1. On(p, c) /\ TypeOK /\ trap[p] = "none" /\ pc[p] = "forkcopy"
  BY Zenon DEF forkfail, At, IInv
<1>2. /\ state[p] = "RUNNING" /\ StateOf(p)
      /\ \A q \in Slot : lock[q] = c <=> q = i[p]
      /\ wait_lock # c
  <2>0. On(p, c)
    BY Zenon, <1>1
  <2>1. /\ StateOf(p) /\ CursorOf(p)
        /\ state[p] = "RUNNING" \/ Switching(p)
        /\ \A q \in Slot : lock[q] = c <=> \/ q = p /\ (Switching(p) \/ Resuming(p))
                                           \/ pc[p] = "forkcopy" /\ i[p] = q
        /\ wait_lock = c <=> pc[p] \in WaitLocked
    BY Zenon, <2>0, OnCpuFacts
  <2>2. ~Switching(p) /\ ~Resuming(p)
    BY Zenon, <1>1 DEF Switching, Resuming
  <2>q. QED BY Zenon, <1>1, <2>1, <2>2 DEF WaitLocked
<1>3. PICK np \in Slot :
      /\ np = i[p] /\ np # p /\ state[np] = "USED" /\ trap[np] = "none" /\ pc[np] = "none"
      /\ \A x \in Slot \ {p} : Forking(x) => i[x] # np
  <2>1. On(p, c) /\ Forking(p)
    BY Zenon, <1>1 DEF Forking
  <2>2. /\ i[p] \in Slot /\ i[p] # p /\ state[i[p]] = "USED" /\ trap[i[p]] = "none"
        /\ pc[i[p]] = IF pc[p] = "forkcopy" THEN "none" ELSE "forkret"
        /\ \A x \in Slot \ {p} : Forking(x) => i[x] # i[p]
    BY Zenon, <2>1, ForkFacts
  <2>q. QED BY Zenon, <1>1, <2>2
<1>4. /\ freeproc(np)
      /\ lock' = [lock EXCEPT ![np] = NoCpu]
      /\ pc' = [pc EXCEPT ![p] = "ret"] /\ i' = [i EXCEPT ![p] = 0]
      /\ UNCHANGED <<cpuVars, wait_lock, trap, w>>
  BY Zenon, <1>3 DEF forkfail, Release, Goto
<1>5. TypeOK'
  <2>1. (pc \in [Slot -> Location])' /\ (i \in [Slot -> Cursor])'
    BY Zenon, <1>1, <1>4, SlotFacts DEF TypeOK, Location
  <2>q. QED BY Zenon, <1>1, <1>3, <1>4, <2>1, freeprocType DEF TypeOK, forkfail, cpuVars
<1>6. Frame(p, np)
  BY Zenon, <1>1, <1>4 DEF Frame, freeproc, TypeOK
<1>7. OwnStep(p)
  BY Zenon, <1>1, <1>2, <1>3, <1>4 DEF OwnStep, freeproc, StateOf, CursorOf, Switching,
     TypeOK
<1>8. OffCpu(np)
  BY Zenon, <1>1, <1>3, <1>4 DEF OffCpu, freeproc, StateOf, CursorOf, Switching, TypeOK
<1>9. LockStep(p, c)
  BY <1>1, <1>2, <1>3, <1>4, ConstAssumption DEF LockStep, Switching, Resuming,
     TypeOK
<1>10. WaitStep(p, c)
  BY Zenon, <1>1, <1>2, <1>4 DEF WaitStep, WaitLocked, TypeOK
<1>11. ForkInv'
  <2>1. ~Forking(p)' /\ ~Forking(np)'
    BY Zenon, <1>1, <1>3, <1>4 DEF Forking, TypeOK
  <2>q. QED BY Zenon, <1>1, <1>3, <1>6, <2>1, HandStep
<1>q. QED BY Zenon, <1>1, <1>4, <1>5, <1>6, <1>7, <1>8, <1>9, <1>10, <1>11, ThreadStep

\* The set-up of the child in fork() preserves IInv.
LEMMA forkcopyStep ==
  ASSUME IInv, NEW p \in Slot, NEW c \in CPU, forkcopy(p, c)
  PROVE  IInv'
<1>1. On(p, c) /\ TypeOK /\ trap[p] = "none" /\ pc[p] = "forkcopy"
  BY Zenon DEF forkcopy, At, IInv
<1>2. /\ state[p] = "RUNNING" /\ StateOf(p)
      /\ \A q \in Slot : lock[q] = c <=> q = i[p]
      /\ wait_lock # c
  <2>0. On(p, c)
    BY Zenon, <1>1
  <2>1. /\ StateOf(p) /\ CursorOf(p)
        /\ state[p] = "RUNNING" \/ Switching(p)
        /\ \A q \in Slot : lock[q] = c <=> \/ q = p /\ (Switching(p) \/ Resuming(p))
                                           \/ pc[p] = "forkcopy" /\ i[p] = q
        /\ wait_lock = c <=> pc[p] \in WaitLocked
    BY Zenon, <2>0, OnCpuFacts
  <2>2. ~Switching(p) /\ ~Resuming(p)
    BY Zenon, <1>1 DEF Switching, Resuming
  <2>q. QED BY Zenon, <1>1, <2>1, <2>2 DEF WaitLocked
<1>3. PICK np \in Slot :
      /\ np = i[p] /\ np # p /\ state[np] = "USED" /\ trap[np] = "none"
      /\ \A x \in Slot \ {p} : Forking(x) => i[x] # np
  <2>1. On(p, c) /\ Forking(p)
    BY Zenon, <1>1 DEF Forking
  <2>2. /\ i[p] \in Slot /\ i[p] # p /\ state[i[p]] = "USED" /\ trap[i[p]] = "none"
        /\ pc[i[p]] = IF pc[p] = "forkcopy" THEN "none" ELSE "forkret"
        /\ \A x \in Slot \ {p} : Forking(x) => i[x] # i[p]
    BY Zenon, <2>1, ForkFacts
  <2>q. QED BY Zenon, <1>1, <2>2
<1>4. /\ lock' = [lock EXCEPT ![np] = NoCpu]
      /\ pc' = [pc EXCEPT ![np] = "forkret", ![p] = "forkparent"]
      /\ UNCHANGED <<cpuVars, state, wait_lock, trap, i, w>>
  BY Zenon, <1>3 DEF forkcopy, Release, procVars
<1>5. i'[p] = np
  BY Zenon, <1>3, <1>4
<1>6. TypeOK'
  <2>1. (pc \in [Slot -> Location])'
    BY <1>1, <1>4, Zenon DEF TypeOK, Location
  <2>2. (lock \in [Slot -> CPU \cup {NoCpu}])'
    BY <1>1, <1>4, Zenon DEF TypeOK
  <2>3. UNCHANGED <<procVars, cpuVars, wait_lock, trap, i, w, kids, arg>>
    BY Zenon DEF forkcopy
  <2>q. QED BY Zenon, <1>1, <2>1, <2>2, <2>3 DEF TypeOK, procVars, cpuVars
<1>7. Frame(p, np)
  BY Zenon, <1>1, <1>4 DEF Frame, TypeOK
<1>8. OwnStep(p)
  BY Zenon, <1>1, <1>2, <1>4 DEF OwnStep, StateOf, CursorOf, Switching, TypeOK
<1>9. OffCpu(np)
  <2>1. pc'[np] = "forkret" /\ trap'[np] = "none" /\ state'[np] = "USED"
    BY Zenon, <1>1, <1>3, <1>4 DEF TypeOK
  <2>2. ~Switching(np)
    BY Zenon, <1>1, <1>3, ForkFacts DEF Switching, Forking
  <2>q. QED BY Zenon, <1>3, <2>1, <2>2 DEF OffCpu, StateOf, CursorOf, Switching
<1>10. LockStep(p, c)
  BY Zenon, <1>1, <1>2, <1>3, <1>4, ConstAssumption DEF LockStep, Switching, Resuming,
     TypeOK
<1>11. WaitStep(p, c)
  BY Zenon, <1>1, <1>2, <1>4 DEF WaitStep, WaitLocked, TypeOK
<1>12. ForkInv'
  <2>1. ~Forking(np)' /\ state'[np] = "USED" /\ pc'[np] = "forkret" /\ pc'[p] = "forkparent"
    BY Zenon, <1>1, <1>3, <1>4 DEF Forking, TypeOK
  <2>q. QED BY Zenon, <1>1, <1>3, <1>5, <1>7, <2>1, HandStep
<1>q. QED BY Zenon, <1>1, <1>4, <1>6, <1>7, <1>8, <1>9, <1>10, <1>11, <1>12, ThreadStep

\* Setting np->parent in fork() preserves IInv.
LEMMA forkparentStep ==
  ASSUME IInv, NEW p \in Slot, NEW c \in CPU, forkparent(p, c)
  PROVE  IInv'
<1>1. On(p, c) /\ TypeOK
  BY Zenon DEF forkparent, At, IInv
<1>2. /\ StateOf(p) /\ CursorOf(p)
      /\ state[p] = "RUNNING" \/ Switching(p)
      /\ \A q \in Slot : lock[q] = c <=> \/ q = p /\ (Switching(p) \/ Resuming(p))
                                         \/ pc[p] = "forkcopy" /\ i[p] = q
      /\ wait_lock = c <=> pc[p] \in WaitLocked
  BY Zenon, <1>1, OnCpuFacts
<1>3. TypeOK'
  <2>1. (parent \in [Slot -> Slot \cup {NULL}])'
    <3>1. parent' = [parent EXCEPT ![i[p]] = p]
      BY Zenon DEF forkparent
    <3>2. parent \in [Slot -> Slot \cup {NULL}]
      BY Zenon, <1>1 DEF TypeOK
    <3>q. QED BY <3>1, <3>2, Zenon
  <2>2. (pc \in [Slot -> Location])'
    BY Zenon, <1>1 DEF TypeOK, forkparent, Goto, Location
  <2>q. QED BY Zenon, <1>1, <2>1, <2>2 DEF TypeOK, forkparent, Goto, lockVars, cpuVars
<1>4. UNCHANGED cpuVars /\ Frame(p, p)
  BY Zenon, <1>1 DEF forkparent, Goto, Frame, TypeOK
<1>5. OwnStep(p)
  BY Zenon, <1>1, <1>2 DEF forkparent, Goto, At, OwnStep, StateOf, CursorOf, Switching,
     TypeOK
<1>6. LockStep(p, c)
  BY Zenon, <1>1, <1>2 DEF forkparent, Goto, At, LockStep, Switching, Resuming, TypeOK,
     lockVars
<1>7. WaitStep(p, c)
  BY Zenon, <1>1, <1>2, ConstAssumption DEF forkparent, Goto, WaitStep, WaitLocked, TypeOK,
     lockVars
<1>8. Forking(p)' => /\ Forking(p) /\ i'[p] = i[p]
                     /\ pc[p] # "forkcopy" /\ pc'[p] # "forkcopy"
  BY Zenon, <1>1 DEF forkparent, Goto, At, Forking, TypeOK
<1>q. QED BY Zenon, <1>1, <1>3, <1>4, <1>5, <1>6, <1>7, <1>8, LocalStep

\* Making the child RUNNABLE in fork() preserves IInv.
LEMMA forkrunStep ==
  ASSUME IInv, NEW p \in Slot, NEW c \in CPU, forkrun(p, c)
  PROVE  IInv'
<1>1. On(p, c) /\ TypeOK /\ trap[p] = "none" /\ pc[p] = "forkrun"
  BY Zenon DEF forkrun, At, IInv
<1>2. /\ state[p] = "RUNNING" /\ StateOf(p)
      /\ \A q \in Slot : lock[q] # c
      /\ wait_lock # c
  <2>0. On(p, c)
    BY Zenon, <1>1
  <2>1. /\ StateOf(p) /\ CursorOf(p)
        /\ state[p] = "RUNNING" \/ Switching(p)
        /\ \A q \in Slot : lock[q] = c <=> \/ q = p /\ (Switching(p) \/ Resuming(p))
                                           \/ pc[p] = "forkcopy" /\ i[p] = q
        /\ wait_lock = c <=> pc[p] \in WaitLocked
    BY Zenon, <2>0, OnCpuFacts
  <2>2. ~Switching(p) /\ ~Resuming(p)
    BY Zenon, <1>1 DEF Switching, Resuming
  <2>q. QED BY Zenon, <1>1, <2>1, <2>2 DEF WaitLocked
<1>3. PICK np \in Slot :
      /\ np = i[p] /\ np # p /\ state[np] = "USED" /\ trap[np] = "none" /\ pc[np] = "forkret"
      /\ \A x \in Slot \ {p} : Forking(x) => i[x] # np
  <2>1. On(p, c) /\ Forking(p)
    BY Zenon, <1>1 DEF Forking
  <2>2. /\ i[p] \in Slot /\ i[p] # p /\ state[i[p]] = "USED" /\ trap[i[p]] = "none"
        /\ pc[i[p]] = IF pc[p] = "forkcopy" THEN "none" ELSE "forkret"
        /\ \A x \in Slot \ {p} : Forking(x) => i[x] # i[p]
    BY Zenon, <2>1, ForkFacts
  <2>q. QED BY Zenon, <1>1, <2>2
<1>4. /\ state' = [state EXCEPT ![np] = "RUNNABLE"]
      /\ pc' = [pc EXCEPT ![p] = "ret"] /\ i' = [i EXCEPT ![p] = 0]
      /\ UNCHANGED <<cpuVars, lock, wait_lock, trap, w>>
  BY Zenon, <1>3 DEF forkrun, Goto, lockVars
<1>5. TypeOK'
  <2>1. (pc \in [Slot -> Location])'
    BY Zenon, <1>1, <1>4 DEF TypeOK, Location
  <2>2. (i \in [Slot -> Cursor])'
    BY Zenon, <1>1, <1>4, SlotFacts DEF TypeOK
  <2>3. (state \in [Slot -> {"UNUSED", "USED", "SLEEPING", "RUNNABLE", "RUNNING", "ZOMBIE"}])'
    BY Zenon, <1>1, <1>4 DEF TypeOK
  <2>q. QED BY Zenon, <1>1, <2>1, <2>2, <2>3 DEF TypeOK, forkrun, lockVars, cpuVars
<1>6. Frame(p, np)
  BY Zenon, <1>1, <1>4 DEF Frame, TypeOK
<1>7. OwnStep(p)
  BY Zenon, <1>1, <1>2, <1>3, <1>4 DEF OwnStep, StateOf, CursorOf, Switching, TypeOK
<1>8. OffCpu(np)
  BY Zenon, <1>1, <1>3, <1>4 DEF OffCpu, StateOf, CursorOf, Switching, Resuming, TypeOK
<1>9. LockStep(p, c)
  BY Zenon, <1>1, <1>2, <1>4 DEF LockStep, Switching, Resuming, TypeOK
<1>10. WaitStep(p, c)
  BY Zenon, <1>1, <1>2, <1>4 DEF WaitStep, WaitLocked, TypeOK
<1>11. ForkInv'
  <2>1. ~Forking(p)' /\ ~Forking(np)'
    BY Zenon, <1>1, <1>3, <1>4 DEF Forking, TypeOK
  <2>q. QED BY Zenon, <1>1, <1>3, <1>6, <2>1, HandStep
<1>q. QED BY Zenon, <1>1, <1>4, <1>5, <1>6, <1>7, <1>8, <1>9, <1>10, <1>11, ThreadStep

\* An iteration of wakeup() keeps the types of what it changes.
LEMMA WakeupType ==
  ASSUME TypeOK, NEW p \in Slot, NEW ch, wakeup(p, ch)
  PROVE  /\ (state \in [Slot -> {"UNUSED", "USED", "SLEEPING", "RUNNABLE", "RUNNING", "ZOMBIE"}])'
         /\ (w \in [Slot -> Cursor])'
<1>1. state' = state \/ state' = [state EXCEPT ![w[p]] = "RUNNABLE"]
  BY Zenon DEF wakeup
<1>2. w' = [w EXCEPT ![p] = w[p] + 1] /\ w[p] + 1 \in Cursor
  BY Zenon, SlotFacts DEF wakeup, TypeOK
<1>3. (state \in [Slot -> {"UNUSED", "USED", "SLEEPING", "RUNNABLE", "RUNNING", "ZOMBIE"}])'
  BY Zenon, <1>1 DEF TypeOK
<1>4. (w \in [Slot -> Cursor])'
  BY Zenon, <1>2 DEF TypeOK
<1>q. QED BY Zenon, <1>3, <1>4

\* An iteration of reparent() preserves IInv.
LEMMA reparentStep ==
  ASSUME IInv, NEW p \in Slot, NEW c \in CPU, reparent(p, c)
  PROVE  IInv'
<1>1. On(p, c) /\ TypeOK
  BY Zenon DEF reparent, At, IInv
<1>2. /\ StateOf(p) /\ CursorOf(p)
      /\ state[p] = "RUNNING" \/ Switching(p)
      /\ \A q \in Slot : lock[q] = c <=> \/ q = p /\ (Switching(p) \/ Resuming(p))
                                         \/ pc[p] = "forkcopy" /\ i[p] = q
      /\ wait_lock = c <=> pc[p] \in WaitLocked
  BY Zenon, <1>1, OnCpuFacts
<1>3. TypeOK'
  <2>1. (pc \in [Slot -> Location])'
    BY <1>1 DEF TypeOK, reparent, Goto, Location
  <2>2. (w \in [Slot -> Cursor])'
    BY <1>1, <1>2, SlotFacts, CursorFacts DEF TypeOK, reparent, Goto, At, CursorOf
  <2>3. (i \in [Slot -> Cursor])'
    BY <1>1, <1>2, SlotFacts, CursorFacts DEF TypeOK, reparent, Goto, At, CursorOf
  <2>4. (parent \in [Slot -> Slot \cup {NULL}])'
    BY <1>1, SlotFacts DEF TypeOK, reparent, Goto
  <2>q. QED BY Zenon, <1>1, <2>1, <2>2, <2>3, <2>4 DEF TypeOK, reparent, Goto, lockVars,
       cpuVars
<1>4. UNCHANGED cpuVars /\ Frame(p, p)
  BY <1>1 DEF reparent, Goto, Frame, TypeOK
<1>5. OwnStep(p)
  BY <1>1, <1>2, SlotFacts DEF reparent, Goto, At, OwnStep, StateOf, CursorOf,
     Switching, TypeOK
<1>6. LockStep(p, c)
  BY <1>1, <1>2 DEF reparent, Goto, At, LockStep, Switching, Resuming, TypeOK,
     lockVars
<1>7. WaitStep(p, c)
  BY <1>1, <1>2 DEF reparent, Goto, At, WaitStep, WaitLocked, TypeOK, lockVars
<1>8. Forking(p)' => /\ Forking(p) /\ i'[p] = i[p]
                     /\ pc[p] # "forkcopy" /\ pc'[p] # "forkcopy"
  BY <1>1 DEF reparent, Goto, At, Forking, TypeOK
<1>q. QED BY Zenon, <1>1, <1>3, <1>4, <1>5, <1>6, <1>7, <1>8, LocalStep

\* An iteration of wakeup(initproc) preserves IInv.
LEMMA wakeinitStep ==
  ASSUME IInv, NEW p \in Slot, NEW c \in CPU, wakeinit(p, c)
  PROVE  IInv'
<1>1. On(p, c) /\ TypeOK
  BY Zenon DEF wakeinit, At, IInv
<1>2. /\ StateOf(p) /\ CursorOf(p)
      /\ state[p] = "RUNNING" \/ Switching(p)
      /\ \A q \in Slot : lock[q] = c <=> \/ q = p /\ (Switching(p) \/ Resuming(p))
                                         \/ pc[p] = "forkcopy" /\ i[p] = q
      /\ wait_lock = c <=> pc[p] \in WaitLocked
  BY Zenon, <1>1, OnCpuFacts
<1>3. TypeOK'
  <2>1. (state \in [Slot -> {"UNUSED", "USED", "SLEEPING", "RUNNABLE", "RUNNING", "ZOMBIE"}])'
    BY Zenon, <1>1, WakeupType DEF TypeOK, wakeinit
  <2>2. (w \in [Slot -> Cursor])'
    <3>1. wakeup(p, initproc) \/ w' = [w EXCEPT ![p] = 0]
      BY Zenon DEF wakeinit
    <3>q. QED BY <1>1, <3>1, WakeupType, SlotFacts DEF TypeOK
  <2>3. (i \in [Slot -> Cursor])'
    BY <1>1, <1>2, SlotFacts, CursorFacts DEF TypeOK, wakeinit, Goto, wakeup, At,
       CursorOf
  <2>4. (pc \in [Slot -> Location])'
    <3>1. pc' = pc \/ pc' = [pc EXCEPT ![p] = "reparent"]
      BY Zenon DEF wakeinit, Goto
    <3>2. pc \in [Slot -> Location]
      BY Zenon, <1>1 DEF TypeOK
    <3>q. QED BY Zenon, <3>1, <3>2 DEF Location
  <2>q. QED BY Zenon, <1>1, <2>1, <2>2, <2>3, <2>4 DEF TypeOK, wakeinit, Goto, wakeup,
       lockVars, cpuVars
<1>4. UNCHANGED cpuVars /\ Frame(p, p)
  BY <1>1 DEF wakeinit, Goto, wakeup, Frame, TypeOK, Free
<1>5. OwnStep(p)
  BY <1>1, <1>2, SlotFacts DEF wakeinit, Goto, wakeup, At, OwnStep, StateOf,
     CursorOf, Switching, TypeOK
<1>6. LockStep(p, c)
  BY <1>1, <1>2 DEF wakeinit, Goto, At, LockStep, Switching, Resuming, TypeOK,
     lockVars
<1>7. WaitStep(p, c)
  BY Zenon, <1>1, <1>2 DEF wakeinit, Goto, At, WaitStep, WaitLocked, TypeOK, lockVars
<1>8. Forking(p)' => /\ Forking(p) /\ i'[p] = i[p]
                     /\ pc[p] # "forkcopy" /\ pc'[p] # "forkcopy"
  BY <1>1 DEF wakeinit, Goto, At, Forking, TypeOK
<1>q. QED BY Zenon, <1>1, <1>3, <1>4, <1>5, <1>6, <1>7, <1>8, LocalStep

\* An iteration of wakeup(p->parent) preserves IInv.
LEMMA wakeparentStep ==
  ASSUME IInv, NEW p \in Slot, NEW c \in CPU, wakeparent(p, c)
  PROVE  IInv'
<1>1. On(p, c) /\ TypeOK
  BY Zenon DEF wakeparent, At, IInv
<1>2. /\ StateOf(p) /\ CursorOf(p)
      /\ state[p] = "RUNNING" \/ Switching(p)
      /\ \A q \in Slot : lock[q] = c <=> \/ q = p /\ (Switching(p) \/ Resuming(p))
                                         \/ pc[p] = "forkcopy" /\ i[p] = q
      /\ wait_lock = c <=> pc[p] \in WaitLocked
  BY Zenon, <1>1, OnCpuFacts
<1>3. TypeOK'
  <2>1. (state \in [Slot -> {"UNUSED", "USED", "SLEEPING", "RUNNABLE", "RUNNING", "ZOMBIE"}])'
    BY Zenon, <1>1, WakeupType DEF TypeOK, wakeparent
  <2>2. (w \in [Slot -> Cursor])'
    <3>1. wakeup(p, parent[p]) \/ w' = [w EXCEPT ![p] = 0]
      BY Zenon DEF wakeparent
    <3>q. QED BY <1>1, <3>1, WakeupType, SlotFacts DEF TypeOK
  <2>3. (pc \in [Slot -> Location])'
    <3>1. pc' = pc \/ pc' = [pc EXCEPT ![p] = "zombie"]
      BY Zenon DEF wakeparent, Goto
    <3>2. pc \in [Slot -> Location]
      BY Zenon, <1>1 DEF TypeOK
    <3>q. QED BY Zenon, <3>1, <3>2 DEF Location
  <2>q. QED BY Zenon, <1>1, <2>1, <2>2, <2>3 DEF TypeOK, wakeparent, Goto, wakeup,
       lockVars, cpuVars
<1>4. UNCHANGED cpuVars /\ Frame(p, p)
  BY <1>1 DEF wakeparent, Goto, wakeup, Frame, TypeOK, Free
<1>5. OwnStep(p)
  <2>1. /\ trap' = trap /\ i' = i /\ pc[p] = "wakeparent" /\ trap[p] = "none"
        /\ state[p] = "RUNNING" /\ state'[p] = state[p]
        /\ pc'[p] \in {"wakeparent", "zombie"}
    BY Zenon, <1>1, <1>2 DEF wakeparent, Goto, wakeup, At, TypeOK, Switching
  <2>2. pc'[p] = "wakeparent" => w'[p] # 0
    <3>1. CASE wakeup(p, parent[p])
      <4>1. w[p] \in Cursor /\ w'[p] = w[p] + 1
        BY Zenon, <1>1, <3>1 DEF wakeup, TypeOK
      <4>q. QED BY <4>1, ConstAssumption DEF Cursor
    <3>2. CASE Goto(p, "zombie")
      BY Zenon, <1>1, <3>2 DEF Goto, TypeOK
    <3>q. QED BY Zenon, <3>1, <3>2 DEF wakeparent
  <2>q. QED BY Zenon, <1>2, <2>1, <2>2 DEF OwnStep, StateOf, CursorOf, Switching
<1>6. LockStep(p, c)
  BY Zenon, <1>1, <1>2 DEF wakeparent, Goto, At, LockStep, Switching, Resuming, TypeOK,
     lockVars
<1>7. WaitStep(p, c)
  BY Zenon, <1>1, <1>2 DEF wakeparent, Goto, At, WaitStep, WaitLocked, TypeOK, lockVars
<1>8. Forking(p)' => /\ Forking(p) /\ i'[p] = i[p]
                     /\ pc[p] # "forkcopy" /\ pc'[p] # "forkcopy"
  BY Zenon, <1>1 DEF wakeparent, Goto, At, Forking, TypeOK
<1>q. QED BY Zenon, <1>1, <1>3, <1>4, <1>5, <1>6, <1>7, <1>8, LocalStep

\* Becoming a ZOMBIE preserves IInv.
LEMMA zombieStep ==
  ASSUME IInv, NEW p \in Slot, NEW c \in CPU, zombie(p, c)
  PROVE  IInv'
<1>1. On(p, c) /\ TypeOK
  BY Zenon DEF zombie, At, IInv
<1>2. /\ StateOf(p) /\ CursorOf(p)
      /\ state[p] = "RUNNING" \/ Switching(p)
      /\ \A q \in Slot : lock[q] = c <=> \/ q = p /\ (Switching(p) \/ Resuming(p))
                                         \/ pc[p] = "forkcopy" /\ i[p] = q
      /\ wait_lock = c <=> pc[p] \in WaitLocked
  BY Zenon, <1>1, OnCpuFacts
<1>3. TypeOK'
  <2>1. (lock \in [Slot -> CPU \cup {NoCpu}])'
    BY Zenon, <1>1 DEF TypeOK, zombie, Goto, Acquire
  <2>2. (state \in [Slot -> {"UNUSED", "USED", "SLEEPING", "RUNNABLE", "RUNNING", "ZOMBIE"}])'
    BY Zenon, <1>1 DEF TypeOK, zombie, Goto, Acquire
  <2>3. (wait_lock \in CPU \cup {NoCpu})'
    BY Zenon, <1>1 DEF TypeOK, zombie, Goto, Acquire
  <2>4. (pc \in [Slot -> Location])'
    BY Zenon, <1>1 DEF TypeOK, zombie, Goto, Acquire, Location
  <2>q. QED BY Zenon, <1>1, <2>1, <2>2, <2>3, <2>4 DEF TypeOK, zombie, Goto, Acquire,
       cpuVars
<1>4. UNCHANGED cpuVars /\ Frame(p, p)
  BY Zenon, <1>1 DEF zombie, Goto, Frame, TypeOK
<1>5. OwnStep(p)
  BY Zenon, <1>1 DEF zombie, Goto, At, OwnStep, StateOf, CursorOf, Switching, TypeOK
<1>6. LockStep(p, c)
  BY Zenon, <1>1, <1>2 DEF zombie, Goto, Acquire, At, LockStep, Switching, Free, TypeOK
<1>7. WaitStep(p, c)
  BY Zenon, <1>1, <1>2, ConstAssumption DEF zombie, Goto, At, WaitStep, WaitLocked, TypeOK
<1>8. Forking(p)' => /\ Forking(p) /\ i'[p] = i[p]
                     /\ pc[p] # "forkcopy" /\ pc'[p] # "forkcopy"
  BY Zenon, <1>1 DEF zombie, Goto, At, Forking, TypeOK
<1>q. QED BY Zenon, <1>1, <1>3, <1>4, <1>5, <1>6, <1>7, <1>8, LocalStep

\* The start of wait() preserves IInv.
LEMMA waitlockStep ==
  ASSUME IInv, NEW p \in Slot, NEW c \in CPU, waitlock(p, c)
  PROVE  IInv'
<1>1. On(p, c) /\ TypeOK
  BY Zenon DEF waitlock, At, IInv
<1>2. /\ StateOf(p) /\ CursorOf(p)
      /\ state[p] = "RUNNING" \/ Switching(p)
      /\ \A q \in Slot : lock[q] = c <=> \/ q = p /\ (Switching(p) \/ Resuming(p))
                                         \/ pc[p] = "forkcopy" /\ i[p] = q
      /\ wait_lock = c <=> pc[p] \in WaitLocked
  BY Zenon, <1>1, OnCpuFacts
<1>3. TypeOK'
  <2>1. (wait_lock \in CPU \cup {NoCpu})'
    BY Zenon, <1>1 DEF TypeOK, waitlock, Goto
  <2>2. (pc \in [Slot -> Location])'
    BY Zenon, <1>1 DEF TypeOK, waitlock, Goto, Location
  <2>3. (i \in [Slot -> Cursor])'
    BY Zenon, <1>1, <1>2, SlotFacts, CursorFacts DEF TypeOK, waitlock, Goto, At, CursorOf
  <2>q. QED BY Zenon, <1>1, <2>1, <2>2, <2>3 DEF TypeOK, waitlock, Goto, procVars, cpuVars
<1>4. UNCHANGED cpuVars /\ Frame(p, p)
  BY Zenon, <1>1 DEF waitlock, Goto, Frame, TypeOK, procVars
<1>5. OwnStep(p)
  BY <1>1, <1>2 DEF waitlock, Goto, At, OwnStep, StateOf, CursorOf, Switching,
     TypeOK, procVars
<1>6. LockStep(p, c)
  BY Zenon, <1>1, <1>2 DEF waitlock, Goto, At, LockStep, Switching, Resuming, TypeOK
<1>7. WaitStep(p, c)
  BY Zenon, <1>1 DEF waitlock, Goto, WaitStep, WaitLocked, TypeOK
<1>8. Forking(p)' => /\ Forking(p) /\ i'[p] = i[p]
                     /\ pc[p] # "forkcopy" /\ pc'[p] # "forkcopy"
  BY Zenon, <1>1 DEF waitlock, Goto, At, Forking, TypeOK
<1>q. QED BY Zenon, <1>1, <1>3, <1>4, <1>5, <1>6, <1>7, <1>8, LocalStep

\* An iteration of wait()'s scan preserves IInv.
LEMMA waitscanStep ==
  ASSUME IInv, NEW p \in Slot, NEW c \in CPU, waitscan(p, c)
  PROVE  IInv'
<1>1. On(p, c) /\ TypeOK
  BY Zenon DEF waitscan, At, IInv
<1>2. /\ StateOf(p) /\ CursorOf(p)
      /\ state[p] = "RUNNING" \/ Switching(p)
      /\ \A q \in Slot : lock[q] = c <=> \/ q = p /\ (Switching(p) \/ Resuming(p))
                                         \/ pc[p] = "forkcopy" /\ i[p] = q
      /\ wait_lock = c <=> pc[p] \in WaitLocked
  BY Zenon, <1>1, OnCpuFacts
<1>3. TypeOK'
  <2>1. (kids \in [Slot -> BOOLEAN])'
    BY Zenon, <1>1 DEF TypeOK, waitscan
  <2>2. (i \in [Slot -> Cursor])'
    BY Zenon, <1>1, <1>2, SlotFacts, CursorFacts DEF TypeOK, waitscan, At, CursorOf
  <2>q. QED BY Zenon, <1>1, <2>1, <2>2 DEF TypeOK, waitscan, procVars, lockVars, cpuVars
<1>4. UNCHANGED cpuVars /\ Frame(p, p)
  BY Zenon, <1>1 DEF waitscan, Frame, TypeOK, procVars
<1>5. OwnStep(p)
  BY Zenon, <1>1, <1>2, SlotFacts DEF waitscan, At, OwnStep, StateOf, CursorOf, Switching,
     TypeOK, procVars
<1>6. LockStep(p, c)
  BY Zenon, <1>1, <1>2 DEF waitscan, At, LockStep, Switching, Resuming, TypeOK, lockVars
<1>7. WaitStep(p, c)
  BY Zenon, <1>1, <1>2 DEF waitscan, WaitStep, TypeOK, lockVars
<1>8. Forking(p)' => /\ Forking(p) /\ i'[p] = i[p]
                     /\ pc[p] # "forkcopy" /\ pc'[p] # "forkcopy"
  BY Zenon, <1>1 DEF waitscan, At, Forking, TypeOK
<1>q. QED BY Zenon, <1>1, <1>3, <1>4, <1>5, <1>6, <1>7, <1>8, LocalStep

\* Reaping a child in wait() preserves IInv.
LEMMA reapStep ==
  ASSUME IInv, NEW p \in Slot, NEW c \in CPU, reap(p, c)
  PROVE  IInv'
<1>1. /\ On(p, c) /\ TypeOK /\ trap[p] = "none" /\ pc[p] = "waitscan"
      /\ lock[i[p]] = NoCpu /\ state[i[p]] = "ZOMBIE" /\ i[p] <= NPROC
  BY Zenon DEF reap, At, Free, IInv
<1>2. /\ state[p] = "RUNNING" /\ StateOf(p) /\ i[p] # 0
      /\ \A q \in Slot : lock[q] # c
      /\ wait_lock = c
  <2>0. On(p, c)
    BY Zenon, <1>1
  <2>1. /\ StateOf(p) /\ CursorOf(p)
        /\ state[p] = "RUNNING" \/ Switching(p)
        /\ \A q \in Slot : lock[q] = c <=> \/ q = p /\ (Switching(p) \/ Resuming(p))
                                           \/ pc[p] = "forkcopy" /\ i[p] = q
        /\ wait_lock = c <=> pc[p] \in WaitLocked
    BY Zenon, <2>0, OnCpuFacts
  <2>2. ~Switching(p) /\ ~Resuming(p)
    BY Zenon, <1>1 DEF Switching, Resuming
  <2>q. QED BY Zenon, <1>1, <2>1, <2>2 DEF WaitLocked, CursorOf
<1>3. PICK np \in Slot : np = i[p] /\ np # p /\ state[np] = "ZOMBIE" /\ lock[np] = NoCpu
  BY Zenon, <1>1, <1>2, SlotFacts DEF TypeOK
<1>4. trap[np] = "none" /\ pc[np] = "dead"
  <2>1. ~Switching(np)
    <3>1. SUFFICES ASSUME Switching(np) PROVE FALSE
      OBVIOUS
    <3>2. PICK d \in CPU : On(np, d)
      BY Zenon, <3>1 DEF IInv, OnCpuInv
    <3>3. \A q \in Slot : lock[q] = d <=> \/ q = np /\ (Switching(np) \/ Resuming(np))
                                          \/ pc[np] = "forkcopy" /\ i[np] = q
      BY Zenon, <3>2, OnCpuFacts
    <3>4. lock[np] = d
      BY Zenon, <3>1, <3>3
    <3>q. QED BY Zenon, <1>3, <3>4, ConstAssumption
  <2>q. QED BY Zenon, <1>3, <2>1 DEF IInv, StateInv, StateOf, Switching
<1>5. /\ i' = [i EXCEPT ![p] = 0] /\ wait_lock' = NoCpu
      /\ UNCHANGED <<cpuVars, lock, trap, w>>
  BY Zenon DEF reap
<1>6. \A x \in Slot \ {p} : Forking(x) => i[x] # np
  BY Zenon, <1>3 DEF IInv, ForkInv
<1>7. CASE freeproc(np) /\ pc' = [pc EXCEPT ![np] = "none", ![p] = "ret"]
  <2>1. TypeOK'
    <3>1. (pc \in [Slot -> Location])' /\ (i \in [Slot -> Cursor])' /\ (kids \in [Slot -> BOOLEAN])'
      <4>1. pc \in [Slot -> Location] /\ i \in [Slot -> Cursor] /\ kids \in [Slot -> BOOLEAN]
        BY Zenon, <1>1 DEF TypeOK
      <4>2. kids' = [kids EXCEPT ![p] = FALSE]
        BY Zenon DEF reap
      <4>3. 0 \in Cursor /\ "none" \in Location /\ "ret" \in Location
        BY SlotFacts DEF Location
      <4>q. QED BY Zenon, <1>5, <1>7, <4>1, <4>2, <4>3
    <3>2. (/\ state \in [Slot -> {"UNUSED", "USED", "SLEEPING", "RUNNABLE", "RUNNING", "ZOMBIE"}]
           /\ pid \in [Slot -> Nat]
           /\ parent \in [Slot -> Slot \cup {NULL}]
           /\ chan \in [Slot -> Slot \cup {NULL}]
           /\ killed \in [Slot -> BOOLEAN])'
      BY Zenon, <1>1, <1>7, freeprocType
    <3>3. wait_lock' \in CPU \cup {NoCpu} /\ UNCHANGED <<type, nextpid, lock, cpuVars, trap, w, arg>>
      BY Zenon DEF reap
    <3>q. QED BY Zenon, <1>1, <3>1, <3>2, <3>3 DEF TypeOK, cpuVars
  <2>2. Frame(p, np)
    BY Zenon, <1>1, <1>5, <1>7 DEF Frame, freeproc, TypeOK
  <2>3. OwnStep(p)
    BY <1>1, <1>2, <1>5, <1>7 DEF OwnStep, freeproc, StateOf, CursorOf, Switching,
       TypeOK
  <2>4. OffCpu(np)
    BY Zenon, <1>1, <1>3, <1>4, <1>5, <1>7 DEF OffCpu, freeproc, StateOf, CursorOf,
       Switching, TypeOK
  <2>5. LockStep(p, c)
    BY Zenon, <1>1, <1>2, <1>5, <1>7 DEF LockStep, Switching, Resuming, TypeOK
  <2>6. WaitStep(p, c)
    BY Zenon, <1>1, <1>2, <1>3, <1>5, <1>7 DEF WaitStep, WaitLocked, TypeOK
  <2>7. ForkInv'
    <3>1. ~Forking(p)' /\ ~Forking(np)'
      BY Zenon, <1>1, <1>7 DEF Forking, TypeOK
    <3>q. QED BY Zenon, <1>1, <1>3, <1>6, <2>2, <3>1, HandStep
  <2>q. QED BY Zenon, <1>1, <1>5, <2>1, <2>2, <2>3, <2>4, <2>5, <2>6, <2>7, ThreadStep
<1>8. CASE pc' = [pc EXCEPT ![p] = "ret"] /\ UNCHANGED <<state, pid, parent, chan, killed>>
  <2>1. TypeOK'
    BY <1>1, <1>5, <1>8, SlotFacts DEF TypeOK, Location, reap, cpuVars
  <2>2. Frame(p, p)
    BY Zenon, <1>1, <1>5, <1>8 DEF Frame, TypeOK
  <2>3. OwnStep(p)
    BY Zenon, <1>1, <1>2, <1>5, <1>8 DEF OwnStep, StateOf, CursorOf, Switching, TypeOK
  <2>4. LockStep(p, c)
    BY Zenon, <1>1, <1>2, <1>5, <1>8 DEF LockStep, Switching, Resuming, TypeOK
  <2>5. WaitStep(p, c)
    BY Zenon, <1>1, <1>2, <1>5, <1>8, ConstAssumption DEF WaitStep, WaitLocked, TypeOK
  <2>6. ~Forking(p)'
    BY Zenon, <1>1, <1>8 DEF Forking, TypeOK
  <2>q. QED BY Zenon, <1>1, <1>5, <2>1, <2>2, <2>3, <2>4, <2>5, <2>6, LocalStep
<1>q. QED BY Zenon, <1>3, <1>7, <1>8 DEF reap, Goto

\* The end of wait()'s scan preserves IInv.
LEMMA waitendStep ==
  ASSUME IInv, NEW p \in Slot, NEW c \in CPU, waitend(p, c)
  PROVE  IInv'
<1>1. On(p, c) /\ TypeOK
  BY Zenon DEF waitend, At, IInv
<1>2. /\ StateOf(p) /\ CursorOf(p)
      /\ state[p] = "RUNNING" \/ Switching(p)
      /\ \A q \in Slot : lock[q] = c <=> \/ q = p /\ (Switching(p) \/ Resuming(p))
                                         \/ pc[p] = "forkcopy" /\ i[p] = q
      /\ wait_lock = c <=> pc[p] \in WaitLocked
  BY Zenon, <1>1, OnCpuFacts
<1>3. TypeOK'
  <2>1. (pc \in [Slot -> Location])'
    BY <1>1 DEF TypeOK, waitend, Goto, Location
  <2>2. (wait_lock \in CPU \cup {NoCpu})'
    BY Zenon, <1>1 DEF TypeOK, waitend, Goto
  <2>3. (i \in [Slot -> Cursor])'
    BY Zenon, <1>1, <1>2, SlotFacts, CursorFacts DEF TypeOK, waitend, Goto, At, CursorOf
  <2>4. (kids \in [Slot -> BOOLEAN])'
    BY Zenon, <1>1 DEF TypeOK, waitend, Goto
  <2>q. QED BY Zenon, <1>1, <2>1, <2>2, <2>3, <2>4 DEF TypeOK, waitend, Goto, procVars,
       cpuVars
<1>4. UNCHANGED cpuVars /\ Frame(p, p)
  BY <1>1 DEF waitend, Goto, Frame, TypeOK, procVars
<1>5. OwnStep(p)
  BY <1>1, <1>2 DEF waitend, Goto, At, OwnStep, StateOf, CursorOf, Switching,
     TypeOK, procVars
<1>6. LockStep(p, c)
  BY <1>1, <1>2 DEF waitend, Goto, At, LockStep, Switching, Resuming, TypeOK
<1>7. WaitStep(p, c)
  BY <1>1, <1>2, ConstAssumption DEF waitend, Goto, At, WaitStep, WaitLocked, TypeOK
<1>8. Forking(p)' => /\ Forking(p) /\ i'[p] = i[p]
                     /\ pc[p] # "forkcopy" /\ pc'[p] # "forkcopy"
  BY <1>1 DEF waitend, Goto, Forking, TypeOK
<1>q. QED BY Zenon, <1>1, <1>3, <1>4, <1>5, <1>6, <1>7, <1>8, LocalStep
=============================================================================
