----------------------------- MODULE ProcProofs -----------------------------
(***************************************************************************)
(* IInv of Proc is inductive, for every table size, set of CPUs and        *)
(* argument of the system calls, and implies that a process is on one CPU  *)
(* at a time, that a slot is not freed under a CPU and that no panic of    *)
(* the locking code is reached.  FamilyInv is inductive relative to IInv:  *)
(* pids are unique, parents are alive and wait() misses no exit.           *)
(*                                                                         *)
(* ProcSteps has the steps of kernel threads for IInv.  Here are first the *)
(* steps of Proc for FamilyInv: those that leave the tree of processes as  *)
(* it is, which are scheduling, traps, the scans of fork(), exit() and     *)
(* wait(), and wakeup(); then those that change the tree, or stop or free  *)
(* one of its members.  After them come the steps that change what a CPU   *)
(* does, scheduler()'s and sched(), that every step follows the life cycle *)
(* of a slot, and the theorems.                                            *)
(***************************************************************************)
EXTENDS ProcSteps

Alive == {"SLEEPING", "RUNNABLE", "RUNNING"}

\* The types of what FamilyInv is about.
FamilyType ==
  /\ state \in [Slot -> {"UNUSED", "USED", "SLEEPING", "RUNNABLE", "RUNNING", "ZOMBIE"}]
  /\ pid \in [Slot -> Nat]
  /\ parent \in [Slot -> Slot \cup {NULL}]
  /\ chan \in [Slot -> Slot \cup {NULL}]
  /\ nextpid \in Nat
  /\ pc \in [Slot -> Location]
  /\ i \in [Slot -> Cursor]
  /\ w \in [Slot -> Cursor]

\* The types of the variables that FamilyInv is about.
LEMMA FamilyTypes ==
  ASSUME IInv
  PROVE  FamilyType
BY Zenon DEF IInv, TypeOK, FamilyType

\* A process at a place where nobody switches away is RUNNING.
LEMMA RunningFacts ==
  ASSUME IInv, NEW p \in Slot, NEW c \in CPU, On(p, c), trap[p] = "none",
         pc[p] \notin {"sleepsched", "exitsched"}
  PROVE  state[p] = "RUNNING"
BY Zenon, OnCpuFacts DEF Switching

\* A thread in a section under wait_lock is RUNNING and its CPU holds the lock.
LEMMA WaitLockOwner ==
  ASSUME IInv, NEW p \in Slot, pc[p] \in WaitLocked
  PROVE  state[p] = "RUNNING" /\ \E c \in CPU : On(p, c) /\ wait_lock = c
<1>1. StateOf(p) /\ FamilyType
  BY Zenon, FamilyTypes DEF IInv, StateInv
<1>2. trap[p] = "none"
  BY Zenon, <1>1 DEF StateOf, WaitLocked, Interruptible
<1>3. state[p] = "RUNNING"
  <2>1. state[p] \in {"UNUSED", "USED", "SLEEPING", "RUNNABLE", "RUNNING", "ZOMBIE"}
    BY Zenon, <1>1 DEF FamilyType
  <2>q. QED BY Zenon, <1>1, <1>2, <2>1 DEF StateOf, Resuming, WaitLocked
<1>4. PICK c \in CPU : On(p, c)
  BY Zenon, <1>3 DEF IInv, OnCpuInv
<1>q. QED BY Zenon, <1>3, <1>4, OnCpuFacts

\* wait_lock has one holder: nobody else is in such a section.
LEMMA WaitLockOne ==
  ASSUME IInv, NEW p \in Slot, pc[p] \in WaitLocked
  PROVE  wait_lock # NoCpu /\ \A q \in Slot \ {p} : pc[q] \notin WaitLocked
<1>1. PICK c \in CPU : On(p, c) /\ wait_lock = c
  BY Zenon, WaitLockOwner
<1>2. ASSUME NEW q \in Slot, pc[q] \in WaitLocked
      PROVE  q = p
  <2>1. PICK d \in CPU : On(q, d) /\ wait_lock = d
    BY Zenon, <1>2, WaitLockOwner
  <2>q. QED BY Zenon, <1>1, <2>1 DEF On
<1>q. QED BY Zenon, <1>1, <1>2, ConstAssumption

\* No process is made to sleep or exit, and no slot is taken or freed.
QuietState ==
  \A q \in Slot :
    \/ state'[q] = state[q]
    \/ state[q] \in Alive /\ state'[q] \in {"RUNNABLE", "RUNNING"}

\* A step of the thread of p, or of none, that makes no process sleep or exit,
\* takes no slot and changes no parent.
LEMMA QuietStep ==
  ASSUME FamilyInv, FamilyType, NEW p \in Slot,
         UNCHANGED <<pid, nextpid, parent>>,
         QuietState,
         \A q \in Slot : state'[q] = "SLEEPING" => chan'[q] = chan[q],
         \A q \in Slot \ {p} :
           /\ i'[q] = i[q] /\ w'[q] = w[q]
           /\ pc'[q] = pc[q] \/ (pc[q] = "none" /\ pc'[q] = "forkret"),
         pc[p] = "wakeinit" /\ w[p] <= initproc => state'[initproc] # "SLEEPING",
         pc'[p] = "forkrun" => parent[i'[p]] # NULL,
         p = initproc => pc'[p] \notin {"reparent", "wakeinit", "wakeparent", "zombie"},
         \A q \in Slot : (HandedOver(p, q) /\ Scanned(p, q) /\ Woken(p, q))'
  PROVE  FamilyInv'
<1>1. PidInv' /\ UniquePids'
  BY Zenon DEF FamilyInv, PidInv, UniquePids
<1>2. InitInv'
  BY Zenon, SlotFacts DEF FamilyInv, InitInv, QuietState, Alive
<1>3. SelfInv'
  BY DEF FamilyInv, SelfInv, QuietState, Alive
<1>4. ThreadInv'
  <2>1. SUFFICES ASSUME NEW x \in Slot \ {p}, NEW q \in Slot
                 PROVE  /\ pc'[x] = "forkrun" => parent'[i'[x]] # NULL
                        /\ (HandedOver(x, q) /\ Scanned(x, q) /\ Woken(x, q))'
    BY Zenon DEF ThreadInv
  <2>2. /\ pc[x] = "forkrun" => parent[i[x]] # NULL
        /\ HandedOver(x, q) /\ Scanned(x, q) /\ Woken(x, q)
    BY Zenon DEF FamilyInv, ThreadInv
  <2>3. CASE pc'[x] = "forkret"
    BY Zenon, <2>3 DEF HandedOver, Scanned, Woken
  <2>4. CASE pc'[x] = pc[x]
    BY Zenon, <2>2, <2>4 DEF HandedOver, Scanned, Woken, QuietState, Alive
  <2>q. QED BY Zenon, <2>3, <2>4
<1>5. ParentAlive'
  <2>1. \A x \in Slot : parent[x] # NULL => parent[x] \in Slot
    BY DEF FamilyType
  <2>2. ParentAlive
    BY Zenon DEF FamilyInv
  <2>q. QED BY Zenon, <2>1, <2>2 DEF ParentAlive, QuietState, Alive
<1>6. NoLostWakeup'
  <2>1. SUFFICES ASSUME NEW x \in Slot, NEW z \in Slot, state'[x] = "SLEEPING",
                        parent[z] = x, state'[z] = "ZOMBIE"
                 PROVE  x = initproc /\ \E q \in Slot : pc'[q] = "wakeinit" /\ w'[q] <= x
    BY Zenon DEF NoLostWakeup
  <2>2. state[x] = "SLEEPING" /\ state[z] = "ZOMBIE"
    BY Zenon, <2>1 DEF QuietState, Alive
  <2>3. x = initproc /\ \E q \in Slot : pc[q] = "wakeinit" /\ w[q] <= x
    BY Zenon, <2>1, <2>2 DEF FamilyInv, NoLostWakeup
  <2>4. PICK q \in Slot : pc[q] = "wakeinit" /\ w[q] <= x
    BY Zenon, <2>3
  <2>5. q # p
    BY Zenon, <2>1, <2>3, <2>4
  <2>q. QED BY Zenon, <2>3, <2>4, <2>5
<1>q. QED BY Zenon, <1>1, <1>2, <1>3, <1>4, <1>5, <1>6 DEF FamilyInv

\* Where the thread of a process knows nothing of its family.
Plain ==
  Location \ {"forkrun", "reparent", "wakeinit", "wakeparent", "zombie", "waitscan", "sleep"}

\* A step of the thread of p that goes to such a place.
LEMMA PlainStep ==
  ASSUME FamilyInv, FamilyType, NEW p \in Slot,
         UNCHANGED <<pid, nextpid, parent>>,
         QuietState,
         \A q \in Slot : state'[q] = "SLEEPING" => chan'[q] = chan[q],
         \A q \in Slot \ {p} :
           /\ i'[q] = i[q] /\ w'[q] = w[q]
           /\ pc'[q] = pc[q] \/ (pc[q] = "none" /\ pc'[q] = "forkret"),
         pc[p] # "wakeinit", pc'[p] \in Plain
  PROVE  FamilyInv'
<1>1. \A q \in Slot : (HandedOver(p, q) /\ Scanned(p, q) /\ Woken(p, q))'
  BY Zenon DEF HandedOver, Scanned, Woken, Plain
<1>2. pc'[p] \notin {"forkrun", "reparent", "wakeinit", "wakeparent", "zombie"}
  BY Zenon DEF Plain
<1>q. QED BY Zenon, <1>1, <1>2, QuietStep

\* A step in which every thread stays where it is.
LEMMA KeepStep ==
  ASSUME FamilyInv, FamilyType,
         UNCHANGED <<pid, nextpid, parent, chan, pc, i, w>>,
         QuietState
  PROVE  FamilyInv'
<1>1. \A q \in Slot :
        HandedOver(initproc, q) /\ Scanned(initproc, q) /\ Woken(initproc, q)
  BY Zenon, SlotFacts DEF FamilyInv, ThreadInv
<1>2. \A q \in Slot :
        (HandedOver(initproc, q) /\ Scanned(initproc, q) /\ Woken(initproc, q))'
  BY Zenon, <1>1 DEF HandedOver, Scanned, Woken, QuietState, Alive
<1>3. pc[initproc] \notin {"reparent", "wakeinit", "wakeparent", "zombie"}
  BY Zenon DEF FamilyInv, InitInv
<1>4. pc[initproc] = "forkrun" => parent[i[initproc]] # NULL
  BY Zenon, SlotFacts DEF FamilyInv, ThreadInv
<1>q. QED BY Zenon, <1>2, <1>3, <1>4, SlotFacts, QuietStep

-----------------------------------------------------------------------------
(* Steps that leave the family as it is.                                   *)

\* scheduler() dispatches a RUNNABLE process, or changes no process at all.
LEMMA SchedFamily ==
  ASSUME FamilyInv, FamilyType, NEW c \in CPU, Sched(c)
  PROVE  FamilyInv'
<1>1. UNCHANGED <<pid, nextpid, parent, chan, pc, i, w>>
  BY Zenon DEF Sched, scan, pick, takelock, loop, procVars, threadVars
<1>2. QuietState
  <2>1. CASE loop(c)
    BY Zenon, <2>1 DEF loop, QuietState, Alive, FamilyType
  <2>q. QED BY Zenon, <2>1 DEF Sched, scan, pick, takelock, procVars, QuietState
<1>q. QED BY Zenon, <1>1, <1>2, KeepStep

\* Traps and the switch to the scheduler: at most a RUNNING process becomes
\* RUNNABLE.
LEMMA TrapFamily ==
  ASSUME IInv, FamilyInv, NEW p \in Slot, NEW c \in CPU,
         Switch(p, c) \/ Trap(p, c)
  PROVE  FamilyInv'
<1>1. FamilyType
  BY Zenon, FamilyTypes
<1>2. CASE yield(p, c)
  <2>1. state[p] = "RUNNING"
    BY Zenon, <1>2, RunningFacts DEF yield, Interruptible
  <2>2. QuietState
    BY Zenon, <1>1, <1>2, <2>1 DEF yield, QuietState, Alive, FamilyType
  <2>q. QED BY Zenon, <1>1, <1>2, <2>2, KeepStep DEF yield
<1>3. CASE yieldret(p, c)
  BY Zenon, <1>1, <1>3, KeepStep DEF yieldret, procVars, QuietState
<1>4. CASE sched(p, c)
  <2>1. CASE trap[p] = "sched"
    BY Zenon, <1>1, <1>4, <2>1, KeepStep DEF sched, procVars, QuietState
  <2>2. CASE trap[p] # "sched"
    <3>1. pc[p] # "wakeinit" /\ pc'[p] \in Plain
      BY <1>1, <1>4, <2>2 DEF sched, Switching, Goto, Plain, Location, FamilyType
    <3>2. \A q \in Slot \ {p} : pc'[q] = pc[q]
      BY Zenon, <1>1, <1>4, <2>2 DEF sched, Goto, FamilyType
    <3>q. QED BY Zenon, <1>1, <1>4, <3>1, <3>2, PlainStep DEF sched, procVars, QuietState
  <2>q. QED BY Zenon, <2>1, <2>2
<1>5. CASE usertrap(p, c) \/ fault(p, c)
  <2>1. pc[p] # "wakeinit" /\ pc'[p] \in Plain
    BY <1>1, <1>5 DEF usertrap, fault, At, Goto, Plain, Location, FamilyType
  <2>2. \A q \in Slot \ {p} : pc'[q] = pc[q] /\ i'[q] = i[q] /\ w'[q] = w[q]
    BY <1>1, <1>5 DEF usertrap, fault, Goto, FamilyType
  <2>3. UNCHANGED <<state, pid, nextpid, parent, chan>>
    BY Zenon, <1>5 DEF usertrap, fault, procVars
  <2>q. QED BY Zenon, <1>1, <2>1, <2>2, <2>3, PlainStep DEF QuietState
<1>q. QED BY Zenon, <1>2, <1>3, <1>4, <1>5 DEF Switch, Trap

\* Steps of kernel threads to places where they know nothing of their family.
LEMMA PlainFamily ==
  ASSUME IInv, FamilyInv, NEW p \in Slot, NEW c \in CPU,
         \/ trapret(p, c) \/ forkcopy(p, c) \/ forkret(p, c) \/ sleepret(p, c)
         \/ kill(p, c) \/ settype(p, c) \/ setwrite(p, c)
  PROVE  FamilyInv'
<1>1. FamilyType
  BY Zenon, FamilyTypes
<1>2. CASE forkcopy(p, c)
  <2>1. i[p] \in Slot /\ i[p] # p /\ pc[i[p]] = "none"
    BY Zenon, <1>2 DEF forkcopy, At, IInv, ForkInv, Forking
  <2>2. pc[p] # "wakeinit" /\ pc'[p] \in Plain
    BY Zenon, <1>1, <1>2, <2>1 DEF forkcopy, At, Plain, Location, FamilyType
  <2>3. \A q \in Slot \ {p} : pc'[q] = pc[q] \/ (pc[q] = "none" /\ pc'[q] = "forkret")
    BY Zenon, <1>1, <1>2, <2>1 DEF forkcopy, FamilyType
  <2>q. QED BY Zenon, <1>1, <1>2, <2>2, <2>3, PlainStep DEF forkcopy, procVars, QuietState
<1>3. CASE sleepret(p, c)
  <2>1. state[p] = "RUNNING"
    BY Zenon, <1>3, RunningFacts DEF sleepret, At
  <2>2. pc[p] # "wakeinit" /\ pc'[p] \in Plain /\ \A q \in Slot \ {p} : pc'[q] = pc[q]
    BY Zenon, <1>1, <1>3 DEF sleepret, At, Goto, Plain, Location, FamilyType
  <2>3. \A q \in Slot : state'[q] = "SLEEPING" => chan'[q] = chan[q]
    BY Zenon, <1>1, <1>3, <2>1 DEF sleepret, FamilyType
  <2>q. QED BY Zenon, <1>1, <1>3, <2>2, <2>3, PlainStep DEF sleepret, QuietState
<1>4. CASE trapret(p, c) \/ forkret(p, c) \/ settype(p, c) \/ setwrite(p, c)
  <2>1. pc[p] # "wakeinit" /\ pc'[p] \in Plain
    BY <1>1, <1>4
       DEF trapret, forkret, settype, setwrite, At, Goto, Plain, Location, FamilyType
  <2>2. \A q \in Slot \ {p} : pc'[q] = pc[q] /\ i'[q] = i[q] /\ w'[q] = w[q]
    BY Zenon, <1>1, <1>4 DEF trapret, forkret, settype, setwrite, Goto, FamilyType
  <2>3. UNCHANGED <<state, pid, nextpid, parent, chan>>
    BY Zenon, <1>4 DEF trapret, forkret, settype, setwrite, procVars
  <2>q. QED BY Zenon, <1>1, <2>1, <2>2, <2>3, PlainStep DEF QuietState
<1>5. CASE kill(p, c)
  <2>1. pc[p] # "wakeinit" /\ pc'[p] \in Plain
    BY Zenon, <1>1, <1>5 DEF kill, At, Goto, Plain, Location, FamilyType
  <2>2. \A q \in Slot \ {p} : pc'[q] = pc[q] /\ i'[q] = i[q] /\ w'[q] = w[q]
    BY Zenon, <1>1, <1>5 DEF kill, Goto, FamilyType
  <2>3. QuietState
    BY Zenon, <1>1, <1>5 DEF kill, QuietState, Alive, FamilyType
  <2>q. QED BY Zenon, <1>1, <1>5, <2>1, <2>2, <2>3, PlainStep DEF kill
<1>q. QED BY Zenon, <1>2, <1>3, <1>4, <1>5

\* exit() and wait() take wait_lock and start their loops; a scan passes a slot
\* that is no exited child, and sleeps when it has passed them all.
LEMMA ScanFamily ==
  ASSUME IInv, FamilyInv, NEW p \in Slot, NEW c \in CPU,
         exitlock(p, c) \/ waitlock(p, c) \/ waitscan(p, c) \/ waitend(p, c)
  PROVE  FamilyInv'
<1>1. FamilyType
  BY Zenon, FamilyTypes
<1>2. \A q \in Slot \ {p} : pc'[q] = pc[q] /\ i'[q] = i[q] /\ w'[q] = w[q]
  BY <1>1 DEF exitlock, waitlock, waitscan, waitend, Goto, FamilyType
<1>3. UNCHANGED <<state, pid, nextpid, parent, chan>>
  BY Zenon DEF exitlock, waitlock, waitscan, waitend, procVars
<1>4. pc[p] # "wakeinit" /\ pc'[p] \notin {"forkrun", "wakeinit", "wakeparent", "zombie"}
  BY <1>1 DEF exitlock, waitlock, waitscan, waitend, At, Goto, FamilyType
<1>5. p = initproc => pc'[p] # "reparent"
  BY <1>1 DEF exitlock, waitlock, waitscan, waitend, At, Goto, FamilyType
<1>6. \A q \in Slot : HandedOver(p, q)' /\ Scanned(p, q)' /\ Woken(p, q)'
  <2>1. SUFFICES ASSUME NEW q \in Slot
                 PROVE  HandedOver(p, q)' /\ Scanned(p, q)' /\ Woken(p, q)'
    OBVIOUS
  <2>2. Scanned(p, q)
    BY Zenon DEF FamilyInv, ThreadInv
  <2>6. i[p] \in Int /\ q \in Int /\ q >= 1 /\ q <= NPROC
    BY <1>1, ConstAssumption DEF FamilyType, Cursor, Slot
  <2>3. CASE exitlock(p, c) \/ waitlock(p, c)
    <3>1. i'[p] = 1 /\ pc'[p] \in {"reparent", "waitscan"}
      BY Zenon, <1>1, <2>3 DEF exitlock, waitlock, Goto, FamilyType
    <3>q. QED BY <2>6, <3>1 DEF HandedOver, Scanned, Woken
  <2>4. CASE waitscan(p, c)
    <3>1. /\ i'[p] = i[p] + 1 /\ pc[p] = "waitscan" /\ pc'[p] = "waitscan"
          /\ parent[i[p]] = p => state[i[p]] # "ZOMBIE"
      BY Zenon, <1>1, <2>4 DEF waitscan, At, FamilyType
    <3>2. q < i[p] + 1 => q < i[p] \/ q = i[p]
      BY <2>6
    <3>q. QED BY Zenon, <1>3, <2>2, <3>1, <3>2 DEF HandedOver, Scanned, Woken
  <2>5. CASE waitend(p, c)
    <3>1. pc[p] = "waitscan" /\ i[p] > NPROC /\ pc'[p] \in {"ret", "sleep"}
      BY Zenon, <1>1, <2>5 DEF waitend, At, Goto, FamilyType
    <3>2. q < i[p]
      BY <2>6, <3>1, ConstAssumption
    <3>q. QED BY Zenon, <1>3, <2>2, <3>1, <3>2 DEF HandedOver, Scanned, Woken
  <2>q. QED BY Zenon, <2>3, <2>4, <2>5
<1>q. QED BY Zenon, <1>1, <1>2, <1>3, <1>4, <1>5, <1>6, QuietStep DEF QuietState

\* One iteration of wakeup(ch) on the way through exit(): whoever it passes and
\* sleeps on its own channel ch is awake.
LEMMA WakeupFacts ==
  ASSUME FamilyType, SelfInv, NEW p \in Slot, NEW ch, wakeup(p, ch), w[p] # 0
  PROVE  /\ w[p] \in Slot /\ w'[p] = w[p] + 1
         /\ \A q \in Slot \ {p} : w'[q] = w[q]
         /\ QuietState
         /\ ch = w[p] /\ ch # p => state'[ch] # "SLEEPING"
<1>1. w[p] \in Slot
  <2>1. w[p] \in Cursor /\ w[p] <= NPROC
    BY Zenon DEF FamilyType, wakeup
  <2>q. QED BY <2>1, ConstAssumption DEF Cursor, Slot
<1>2. w'[p] = w[p] + 1 /\ \A q \in Slot \ {p} : w'[q] = w[q]
  BY Zenon DEF FamilyType, wakeup
<1>3. QuietState
  BY Zenon, <1>1 DEF FamilyType, wakeup, QuietState, Alive
<1>4. ch = w[p] /\ ch # p => state'[ch] # "SLEEPING"
  BY Zenon, <1>1 DEF FamilyType, wakeup, SelfInv
<1>q. QED BY Zenon, <1>1, <1>2, <1>3, <1>4

\* wakeup(initproc) for an orphan: once it has passed init, init is awake.
LEMMA wakeinitFamily ==
  ASSUME IInv, FamilyInv, NEW p \in Slot, NEW c \in CPU, wakeinit(p, c)
  PROVE  FamilyInv'
<1>1. FamilyType /\ SelfInv /\ p # initproc /\ pc[p] = "wakeinit"
  BY Zenon, FamilyTypes DEF FamilyInv, InitInv, wakeinit, At
<1>2. w[p] \in Int /\ w[p] # 0 /\ i[p] \in Int
  BY <1>1 DEF IInv, CursorInv, CursorOf, FamilyType, Cursor
<1>3. \A q \in Slot : HandedOver(p, q)
  BY Zenon DEF FamilyInv, ThreadInv
<1>4. CASE wakeup(p, initproc) /\ UNCHANGED <<pc, i>>
  <2>1. /\ QuietState
        /\ \A q \in Slot \ {p} : w'[q] = w[q]
        /\ initproc = w[p] => state'[initproc] # "SLEEPING"
    BY Zenon, <1>1, <1>2, <1>4, SlotFacts, WakeupFacts
  <2>2. w[p] <= initproc => w[p] = initproc
    <3>1. w[p] >= 0
      BY <1>1, ConstAssumption DEF FamilyType, Cursor
    <3>q. QED BY <1>2, <3>1 DEF initproc
  <2>3. \A q \in Slot : HandedOver(p, q)' /\ Scanned(p, q)' /\ Woken(p, q)'
    BY Zenon, <1>1, <1>3, <1>4 DEF wakeinit, HandedOver, Scanned, Woken
  <2>q. QED BY Zenon, <1>1, <1>4, <2>1, <2>2, <2>3, QuietStep DEF wakeinit
<1>5. CASE /\ w[p] > NPROC /\ w' = [w EXCEPT ![p] = 0] /\ i' = [i EXCEPT ![p] = i[p] + 1]
           /\ Goto(p, "reparent") /\ UNCHANGED state
  <2>1. ~(w[p] <= initproc)
    BY <1>2, <1>5, ConstAssumption DEF initproc
  <2>2. /\ pc'[p] = "reparent" /\ i'[p] = i[p] + 1
        /\ \A q \in Slot \ {p} : pc'[q] = pc[q] /\ i'[q] = i[q] /\ w'[q] = w[q]
    BY Zenon, <1>1, <1>5 DEF Goto, FamilyType
  <2>3. ASSUME NEW q \in Slot
        PROVE  HandedOver(p, q)' /\ Scanned(p, q)' /\ Woken(p, q)'
    <3>1. q < i[p] + 1 => q <= i[p]
      BY <1>2 DEF Slot
    <3>q. QED BY Zenon, <1>1, <1>3, <2>2, <3>1 DEF wakeinit, HandedOver, Scanned, Woken
  <2>q. QED BY Zenon, <1>1, <1>5, <2>1, <2>2, <2>3, QuietStep DEF wakeinit, QuietState
<1>q. QED BY Zenon, <1>4, <1>5 DEF wakeinit

\* wakeup(p->parent): once it has passed the parent, the parent is awake.
LEMMA wakeparentFamily ==
  ASSUME IInv, FamilyInv, NEW p \in Slot, NEW c \in CPU, wakeparent(p, c)
  PROVE  FamilyInv'
<1>1. FamilyType /\ SelfInv /\ p # initproc /\ pc[p] = "wakeparent"
  BY Zenon, FamilyTypes DEF FamilyInv, InitInv, wakeparent, At
<1>2. w[p] \in Int /\ w[p] # 0 /\ parent[p] # p
  BY <1>1 DEF IInv, CursorInv, CursorOf, FamilyType, Cursor, SelfInv
<1>3. \A q \in Slot : HandedOver(p, q) /\ Woken(p, q)
  BY Zenon DEF FamilyInv, ThreadInv
<1>4. CASE wakeup(p, parent[p]) /\ UNCHANGED pc
  <2>1. /\ w'[p] = w[p] + 1
        /\ \A q \in Slot \ {p} : w'[q] = w[q]
    BY Zenon, <1>1, <1>2, <1>4, WakeupFacts
  <2>2. QuietState
    BY Zenon, <1>1, <1>2, <1>4, WakeupFacts
  <2>3. parent[p] = w[p] => state'[parent[p]] # "SLEEPING"
    BY Zenon, <1>1, <1>2, <1>4, WakeupFacts
  <2>4. ASSUME NEW q \in Slot
        PROVE  HandedOver(p, q)' /\ Scanned(p, q)' /\ Woken(p, q)'
    <3>1. HandedOver(p, q)' /\ Scanned(p, q)'
      BY Zenon, <1>1, <1>3, <1>4 DEF wakeparent, HandedOver, Scanned
    <3>2. q < w[p] + 1 => q < w[p] \/ q = w[p]
      BY <1>2 DEF Slot
    <3>3. Woken(p, q)'
      BY Zenon, <1>1, <1>3, <1>4, <2>1, <2>2, <2>3, <3>2
         DEF wakeparent, Woken, QuietState, Alive
    <3>q. QED BY Zenon, <3>1, <3>3
  <2>q. QED BY Zenon, <1>1, <1>4, <2>1, <2>2, <2>4, QuietStep DEF wakeparent
<1>5. CASE w[p] > NPROC /\ w' = [w EXCEPT ![p] = 0] /\ Goto(p, "zombie") /\ UNCHANGED state
  <2>1. /\ pc'[p] = "zombie"
        /\ \A q \in Slot \ {p} : pc'[q] = pc[q] /\ w'[q] = w[q]
    BY Zenon, <1>1, <1>5 DEF Goto, FamilyType
  <2>2. ASSUME NEW q \in Slot
        PROVE  HandedOver(p, q)' /\ Scanned(p, q)' /\ Woken(p, q)'
    <3>1. q < w[p]
      BY <1>2, <1>5, ConstAssumption DEF Slot
    <3>q. QED BY Zenon, <1>1, <1>3, <1>5, <2>1, <3>1
                 DEF wakeparent, HandedOver, Scanned, Woken
  <2>q. QED BY Zenon, <1>1, <1>5, <2>1, <2>2, QuietStep DEF wakeparent, QuietState
<1>q. QED BY Zenon, <1>4, <1>5 DEF wakeparent

-----------------------------------------------------------------------------
(* Steps that change the family.                                           *)

\* sleep() in wait(): the scan has found no exited child, and a child that is
\* about to exit would hold wait_lock.
LEMMA sleepFamily ==
  ASSUME IInv, FamilyInv, NEW p \in Slot, NEW c \in CPU, sleep(p, c)
  PROVE  FamilyInv'
<1>1. FamilyType /\ On(p, c) /\ trap[p] = "none" /\ pc[p] = "sleep"
  BY Zenon, FamilyTypes DEF sleep, At
<1>2. state[p] = "RUNNING" /\ \A q \in Slot \ {p} : pc[q] \notin WaitLocked
  BY Zenon, <1>1, RunningFacts, WaitLockOne DEF WaitLocked
<1>3. /\ state'[p] = "SLEEPING" /\ chan'[p] = p /\ pc'[p] = "sleepsched"
      /\ \A q \in Slot \ {p} : state'[q] = state[q] /\ chan'[q] = chan[q] /\ pc'[q] = pc[q]
      /\ UNCHANGED <<pid, nextpid, parent, i, w>>
  BY Zenon, <1>1 DEF sleep, Goto, FamilyType
<1>4. /\ PidInv /\ InitInv /\ SelfInv /\ ThreadInv
      /\ UniquePids /\ ParentAlive /\ NoLostWakeup
  BY Zenon DEF FamilyInv
<1>5. PidInv' /\ UniquePids'
  BY Zenon, <1>3, <1>4 DEF PidInv, UniquePids
<1>6. InitInv' /\ SelfInv'
  BY <1>3, <1>4, SlotFacts DEF InitInv, SelfInv
<1>7. ThreadInv'
  BY <1>2, <1>3, <1>4 DEF ThreadInv, HandedOver, Scanned, Woken, WaitLocked
<1>8. ParentAlive'
  <2>1. \A x \in Slot : parent[x] # NULL => parent[x] \in Slot
    BY Zenon, <1>1 DEF FamilyType
  <2>q. QED BY Zenon, <1>2, <1>3, <1>4, <2>1 DEF ParentAlive
<1>9. NoLostWakeup'
  <2>1. \A z \in Slot : ~(parent[z] = p /\ state[z] = "ZOMBIE")
    BY Zenon, <1>1, <1>4 DEF ThreadInv, Scanned
  <2>q. QED BY <1>1, <1>2, <1>3, <1>4, <2>1 DEF NoLostWakeup, SelfInv
<1>q. QED BY Zenon, <1>5, <1>6, <1>7, <1>8, <1>9 DEF FamilyInv

\* exit() becomes a ZOMBIE: its children are init's, and its parent is awake.
LEMMA zombieFamily ==
  ASSUME IInv, FamilyInv, NEW p \in Slot, NEW c \in CPU, zombie(p, c)
  PROVE  FamilyInv'
<1>1. FamilyType /\ On(p, c) /\ trap[p] = "none" /\ pc[p] = "zombie"
  BY Zenon, FamilyTypes DEF zombie, At
<1>2. state[p] = "RUNNING" /\ \A q \in Slot \ {p} : pc[q] \notin WaitLocked
  BY Zenon, <1>1, RunningFacts, WaitLockOne DEF WaitLocked
<1>3. /\ state'[p] = "ZOMBIE" /\ pc'[p] = "exitsched"
      /\ \A q \in Slot \ {p} : state'[q] = state[q] /\ pc'[q] = pc[q]
      /\ UNCHANGED <<pid, nextpid, parent, chan, i, w>>
  BY Zenon, <1>1 DEF zombie, Goto, FamilyType
<1>4. /\ PidInv /\ InitInv /\ SelfInv /\ ThreadInv
      /\ UniquePids /\ ParentAlive /\ NoLostWakeup
  BY Zenon DEF FamilyInv
<1>5. PidInv' /\ UniquePids'
  BY Zenon, <1>3, <1>4 DEF PidInv, UniquePids
<1>6. InitInv' /\ SelfInv'
  BY Zenon, <1>1, <1>3, <1>4, SlotFacts DEF InitInv, SelfInv
<1>7. ThreadInv'
  BY <1>2, <1>3, <1>4 DEF ThreadInv, HandedOver, Scanned, Woken, WaitLocked
<1>8. ParentAlive'
  <2>1. \A x \in Slot : parent[x] # NULL => parent[x] \in Slot
    BY Zenon, <1>1 DEF FamilyType
  <2>2. \A x \in Slot : parent[x] # p
    BY Zenon, <1>1, <1>4 DEF ThreadInv, HandedOver
  <2>q. QED BY Zenon, <1>2, <1>3, <1>4, <2>1, <2>2 DEF ParentAlive
<1>9. NoLostWakeup'
  <2>1. \A x \in Slot : ~(parent[p] = x /\ state[x] = "SLEEPING")
    BY Zenon, <1>1, <1>4 DEF ThreadInv, Woken
  <2>q. QED BY <1>1, <1>3, <1>4, <2>1 DEF NoLostWakeup
<1>q. QED BY Zenon, <1>5, <1>6, <1>7, <1>8, <1>9 DEF FamilyInv

\* allocproc() takes a slot that nobody has as parent, with a new pid.
LEMMA allocprocFamily ==
  ASSUME IInv, FamilyInv, NEW p \in Slot, NEW c \in CPU, allocproc(p, c)
  PROVE  FamilyInv'
<1>1. FamilyType /\ pc[p] = "alloc" /\ i[p] # 0
  BY Zenon, FamilyTypes DEF IInv, allocproc, At, CursorInv, CursorOf
<1>2. CASE UNCHANGED <<state, pid, nextpid>>
  <2>1. pc'[p] \in Plain /\ \A q \in Slot \ {p} : pc'[q] = pc[q] /\ i'[q] = i[q]
    BY <1>1, <1>2 DEF allocproc, Goto, Plain, Location, FamilyType
  <2>q. QED BY Zenon, <1>1, <1>2, <2>1, PlainStep DEF allocproc, QuietState
<1>3. CASE /\ ~(i[p] > NPROC) /\ state[i[p]] = "UNUSED"
           /\ pid' = [pid EXCEPT ![i[p]] = nextpid] /\ nextpid' = nextpid + 1
           /\ state' = [state EXCEPT ![i[p]] = "USED"]
           /\ Goto(p, "forkcopy") /\ UNCHANGED i
  <2> DEFINE np == i[p]
  <2>1. np \in Slot
    BY Zenon, <1>1, <1>3, SlotFacts DEF FamilyType
  <2>2. /\ state'[np] = "USED" /\ pid'[np] = nextpid /\ pc'[p] = "forkcopy"
        /\ \A q \in Slot \ {np} : state'[q] = state[q] /\ pid'[q] = pid[q]
        /\ \A q \in Slot \ {p} : pc'[q] = pc[q]
        /\ UNCHANGED <<parent, chan, i, w>>
    BY Zenon, <1>1, <1>3, <2>1 DEF allocproc, Goto, FamilyType
  <2>3. /\ PidInv /\ InitInv /\ SelfInv /\ ThreadInv
        /\ UniquePids /\ ParentAlive /\ NoLostWakeup
    BY Zenon DEF FamilyInv
  <2>4. \A q \in Slot : parent[q] # np
    BY Zenon, <1>3, <2>1, <2>3, SlotFacts DEF ParentAlive
  <2>5. PidInv' /\ UniquePids'
    <3>1. nextpid \in Int /\ \A q \in Slot : pid[q] \in Int /\ pid[q] < nextpid
      BY <1>1, <2>3 DEF FamilyType, PidInv
    <3>q. QED BY <1>3, <2>1, <2>2, <2>3, <3>1 DEF PidInv, UniquePids
  <2>6. InitInv' /\ SelfInv'
    BY Zenon, <1>3, <2>1, <2>2, <2>3, SlotFacts DEF InitInv, SelfInv
  <2>7. ThreadInv'
    BY <1>3, <2>1, <2>2, <2>3 DEF ThreadInv, HandedOver, Scanned, Woken
  <2>8. ParentAlive'
    <3>1. \A x \in Slot : parent[x] # NULL => parent[x] \in Slot
      BY Zenon, <1>1 DEF FamilyType
    <3>q. QED BY <1>3, <2>1, <2>2, <2>3, <2>4, <3>1 DEF ParentAlive
  <2>9. NoLostWakeup'
    BY <1>1, <1>3, <2>1, <2>2, <2>3 DEF NoLostWakeup
  <2>q. QED BY Zenon, <2>5, <2>6, <2>7, <2>8, <2>9 DEF FamilyInv
<1>q. QED BY Zenon, <1>2, <1>3 DEF allocproc

\* freeproc() of a slot in hand, by a failed fork() or by wait(): it is nobody's
\* parent.
LEMMA FreeStep ==
  ASSUME FamilyInv, FamilyType, NEW p \in Slot, NEW np \in Slot, np # p,
         state[np] \in {"USED", "ZOMBIE"}, freeproc(np), UNCHANGED <<nextpid, w>>,
         pc[p] # "wakeinit", pc'[p] = "ret", pc[np] # "wakeinit", pc'[np] = "none",
         \A q \in Slot \ {p, np} : pc'[q] = pc[q],
         \A q \in Slot \ {p} : i'[q] = i[q] /\ (pc[q] = "forkrun" => i[q] \in Slot \ {np})
  PROVE  FamilyInv'
<1>1. /\ state'[np] = "UNUSED" /\ pid'[np] = 0 /\ parent'[np] = NULL /\ chan'[np] = NULL
      /\ \A q \in Slot \ {np} : /\ state'[q] = state[q] /\ pid'[q] = pid[q]
                                /\ parent'[q] = parent[q] /\ chan'[q] = chan[q]
  BY Zenon DEF freeproc, FamilyType
<1>2. /\ PidInv /\ InitInv /\ SelfInv /\ ThreadInv
      /\ UniquePids /\ ParentAlive /\ NoLostWakeup
  BY Zenon DEF FamilyInv
<1>3. \A q \in Slot : parent[q] # np
  BY Zenon, <1>2, SlotFacts DEF ParentAlive
<1>4. PidInv' /\ UniquePids'
  <2>1. nextpid > 0 /\ nextpid' = nextpid
    BY <1>2 DEF PidInv, FamilyType
  <2>2. PidInv'
    BY Zenon, <1>1, <1>2, <2>1 DEF PidInv
  <2>3. UniquePids'
    BY <1>1, <1>2 DEF UniquePids
  <2>q. QED BY Zenon, <2>2, <2>3
<1>5. InitInv' /\ SelfInv'
  BY <1>1, <1>2, SlotFacts DEF InitInv, SelfInv
<1>6. ThreadInv'
  <2>1. ASSUME NEW x \in Slot, NEW q \in Slot
        PROVE  HandedOver(x, q)' /\ Scanned(x, q)' /\ Woken(x, q)'
    <3>1. CASE x \in {p, np}
      BY Zenon, <3>1 DEF HandedOver, Scanned, Woken
    <3>2. CASE x \notin {p, np}
      BY <1>1, <1>2, <3>2, SlotFacts DEF ThreadInv, HandedOver, Scanned, Woken
    <3>q. QED BY Zenon, <3>1, <3>2
  <2>2. ASSUME NEW x \in Slot, pc'[x] = "forkrun"
        PROVE  parent'[i'[x]] # NULL
    <3>1. x \notin {p, np} /\ pc[x] = "forkrun" /\ i'[x] = i[x] /\ i[x] \in Slot \ {np}
      BY Zenon, <2>2
    <3>2. parent[i[x]] # NULL
      BY Zenon, <1>2, <3>1 DEF ThreadInv
    <3>q. QED BY Zenon, <1>1, <3>1, <3>2
  <2>q. QED BY Zenon, <2>1, <2>2 DEF ThreadInv
<1>7. ParentAlive'
  <2>1. \A x \in Slot : parent[x] # NULL => parent[x] \in Slot
    BY Zenon DEF FamilyType
  <2>2. ASSUME NEW x \in Slot, parent'[x] # NULL
        PROVE  state'[parent'[x]] \in {"SLEEPING", "RUNNABLE", "RUNNING"}
    <3>1. x # np /\ parent'[x] = parent[x]
      BY Zenon, <1>1, <2>2
    <3>2. /\ parent[x] \in Slot \ {np}
          /\ state[parent[x]] \in {"SLEEPING", "RUNNABLE", "RUNNING"}
      BY Zenon, <1>2, <1>3, <2>1, <2>2, <3>1 DEF ParentAlive
    <3>q. QED BY Zenon, <1>1, <3>1, <3>2
  <2>3. ASSUME NEW x \in Slot, x # initproc, state'[x] \notin {"UNUSED", "USED"}
        PROVE  parent'[x] # NULL
    <3>1. x # np
      BY Zenon, <1>1, <2>3
    <3>q. QED BY Zenon, <1>1, <1>2, <2>3, <3>1 DEF ParentAlive
  <2>q. QED BY Zenon, <2>2, <2>3 DEF ParentAlive
<1>8. NoLostWakeup'
  BY <1>1, <1>2 DEF NoLostWakeup
<1>q. QED BY Zenon, <1>4, <1>5, <1>6, <1>7, <1>8 DEF FamilyInv

\* A fork() that fails gives its slot back.
LEMMA forkfailFamily ==
  ASSUME IInv, FamilyInv, NEW p \in Slot, NEW c \in CPU, forkfail(p, c)
  PROVE  FamilyInv'
<1>1. FamilyType /\ ForkInv /\ pc[p] = "forkcopy"
  BY Zenon, FamilyTypes DEF IInv, forkfail, At
<1>2. i[p] \in Slot /\ state[i[p]] = "USED" /\ pc[i[p]] = "none" /\ i[p] # p
  BY Zenon, <1>1 DEF ForkInv, Forking
<1>3. \A q \in Slot \ {p} : pc[q] = "forkrun" => i[q] \in Slot \ {i[p]}
  BY Zenon, <1>1 DEF ForkInv, Forking
<1>4. /\ pc'[p] = "ret" /\ \A q \in Slot \ {p} : pc'[q] = pc[q] /\ i'[q] = i[q]
      /\ freeproc(i[p]) /\ UNCHANGED <<nextpid, w>>
  BY Zenon, <1>1 DEF forkfail, Goto, FamilyType
<1>q. QED BY Zenon, <1>1, <1>2, <1>3, <1>4, FreeStep

\* wait() frees an exited child, or leaves it when the copy of its status fails.
LEMMA reapFamily ==
  ASSUME IInv, FamilyInv, NEW p \in Slot, NEW c \in CPU, reap(p, c)
  PROVE  FamilyInv'
<1>1. FamilyType /\ On(p, c) /\ trap[p] = "none" /\ pc[p] = "waitscan" /\ i[p] # 0
  BY Zenon, FamilyTypes DEF IInv, reap, At, CursorInv, CursorOf
<1>2. i[p] \in Slot /\ state[i[p]] = "ZOMBIE" /\ state[p] = "RUNNING"
  BY Zenon, <1>1, SlotFacts, RunningFacts DEF reap, FamilyType
<1>3. \A q \in Slot \ {p} : i'[q] = i[q]
  BY Zenon, <1>1 DEF reap, FamilyType
<1>4. CASE freeproc(i[p]) /\ pc' = [pc EXCEPT ![i[p]] = "none", ![p] = "ret"]
  <2>1. \A q \in Slot \ {p} : pc[q] = "forkrun" => i[q] \in Slot \ {i[p]}
    BY Zenon, <1>2 DEF IInv, ForkInv, Forking
  <2>2. pc[i[p]] # "wakeinit"
    BY Zenon, <1>2 DEF IInv, StateInv, StateOf
  <2>3. /\ pc'[p] = "ret" /\ pc'[i[p]] = "none" /\ i[p] # p
        /\ \A q \in Slot \ {p, i[p]} : pc'[q] = pc[q]
    BY Zenon, <1>1, <1>2, <1>4 DEF FamilyType
  <2>4. UNCHANGED <<nextpid, w>>
    BY Zenon DEF reap
  <2>5. pc[p] # "wakeinit" /\ freeproc(i[p]) /\ state[i[p]] \in {"USED", "ZOMBIE"}
    BY Zenon, <1>1, <1>2, <1>4
  <2>6. \A q \in Slot \ {p} : i'[q] = i[q] /\ (pc[q] = "forkrun" => i[q] \in Slot \ {i[p]})
    BY Zenon, <1>3, <2>1
  <2>q. QED BY <1>1, <1>2, <2>2, <2>3, <2>4, <2>5, <2>6, FreeStep
<1>5. CASE Goto(p, "ret") /\ UNCHANGED <<state, pid, parent, chan, killed>>
  <2>1. pc'[p] \in Plain /\ \A q \in Slot \ {p} : pc'[q] = pc[q]
    BY Zenon, <1>1, <1>5 DEF Goto, Plain, Location, FamilyType
  <2>q. QED BY Zenon, <1>1, <1>3, <1>5, <2>1, PlainStep DEF reap, QuietState
<1>q. QED BY Zenon, <1>4, <1>5 DEF reap

\* fork() sets the child's parent, under wait_lock, before the child can run.
LEMMA forkparentFamily ==
  ASSUME IInv, FamilyInv, NEW p \in Slot, NEW c \in CPU, forkparent(p, c)
  PROVE  FamilyInv'
<1> DEFINE np == i[p]
<1>1. FamilyType /\ On(p, c) /\ trap[p] = "none" /\ pc[p] = "forkparent" /\ wait_lock = NoCpu
  BY Zenon, FamilyTypes DEF forkparent, At
<1>2. /\ state[p] = "RUNNING" /\ \A q \in Slot : pc[q] \notin WaitLocked
      /\ np \in Slot /\ state[np] = "USED"
  BY Zenon, <1>1, RunningFacts, WaitLockOne DEF IInv, ForkInv, Forking
<1>3. /\ parent'[np] = p /\ \A q \in Slot \ {np} : parent'[q] = parent[q]
      /\ pc'[p] = "forkrun" /\ \A q \in Slot \ {p} : pc'[q] = pc[q]
      /\ UNCHANGED <<state, pid, nextpid, chan, i, w>>
  BY Zenon, <1>1, <1>2 DEF forkparent, Goto, FamilyType
<1>4. /\ PidInv /\ InitInv /\ SelfInv /\ ThreadInv
      /\ UniquePids /\ ParentAlive /\ NoLostWakeup
  BY Zenon DEF FamilyInv
<1>5. PidInv' /\ UniquePids'
  BY Zenon, <1>3, <1>4 DEF PidInv, UniquePids
<1>6. InitInv' /\ SelfInv'
  BY <1>2, <1>3, <1>4, SlotFacts DEF InitInv, SelfInv
<1>7. ThreadInv'
  <2>1. ASSUME NEW x \in Slot, pc'[x] = "forkrun"
        PROVE  parent'[i'[x]] # NULL
    <3>1. i[x] \in Slot
      BY Zenon, <1>1, <1>3, <2>1 DEF IInv, ForkInv, Forking
    <3>q. QED BY Zenon, <1>3, <1>4, <2>1, <3>1, SlotFacts DEF ThreadInv
  <2>2. \A x \in Slot : pc'[x] \notin WaitLocked
    BY Zenon, <1>2, <1>3 DEF WaitLocked
  <2>q. QED BY Zenon, <2>1, <2>2 DEF ThreadInv, HandedOver, Scanned, Woken, WaitLocked
<1>8. ParentAlive'
  BY Zenon, <1>2, <1>3, <1>4, SlotFacts DEF ParentAlive
<1>9. NoLostWakeup'
  BY <1>1, <1>2, <1>3, <1>4 DEF NoLostWakeup
<1>q. QED BY Zenon, <1>5, <1>6, <1>7, <1>8, <1>9 DEF FamilyInv

\* fork() makes the child RUNNABLE: it has a parent by then.
LEMMA forkrunFamily ==
  ASSUME IInv, FamilyInv, NEW p \in Slot, NEW c \in CPU, forkrun(p, c)
  PROVE  FamilyInv'
<1> DEFINE np == i[p]
<1>1. FamilyType /\ pc[p] = "forkrun" /\ np \in Slot /\ state[np] = "USED" /\ np # p
  BY Zenon, FamilyTypes DEF IInv, forkrun, At, ForkInv, Forking
<1>2. /\ state'[np] = "RUNNABLE" /\ \A q \in Slot \ {np} : state'[q] = state[q]
      /\ pc'[p] = "ret" /\ \A q \in Slot \ {p} : pc'[q] = pc[q] /\ i'[q] = i[q]
      /\ UNCHANGED <<pid, nextpid, parent, chan, w>>
  BY Zenon, <1>1 DEF forkrun, Goto, FamilyType
<1>3. /\ PidInv /\ InitInv /\ SelfInv /\ ThreadInv
      /\ UniquePids /\ ParentAlive /\ NoLostWakeup
  BY Zenon DEF FamilyInv
<1>4. PidInv' /\ UniquePids'
  BY Zenon, <1>2, <1>3 DEF PidInv, UniquePids
<1>5. InitInv' /\ SelfInv'
  BY Zenon, <1>1, <1>2, <1>3, SlotFacts DEF InitInv, SelfInv
<1>6. ThreadInv'
  <2>1. ASSUME NEW x \in Slot, NEW q \in Slot
        PROVE  /\ pc'[x] = "forkrun" => parent'[i'[x]] # NULL
               /\ HandedOver(x, q)' /\ Scanned(x, q)' /\ Woken(x, q)'
    BY <1>1, <1>2, <1>3 DEF ThreadInv, HandedOver, Scanned, Woken
  <2>q. QED BY Zenon, <2>1 DEF ThreadInv
<1>7. ParentAlive'
  <2>1. parent[np] # NULL
    BY Zenon, <1>1, <1>3 DEF ThreadInv
  <2>2. \A x \in Slot : parent[x] # NULL => parent[x] \in Slot
    BY Zenon, <1>1 DEF FamilyType
  <2>q. QED BY Zenon, <1>1, <1>2, <1>3, <2>1, <2>2 DEF ParentAlive
<1>8. NoLostWakeup'
  BY <1>1, <1>2, <1>3 DEF NoLostWakeup
<1>q. QED BY Zenon, <1>4, <1>5, <1>6, <1>7, <1>8 DEF FamilyInv

-----------------------------------------------------------------------------
(* The scheduler, the life cycle of a slot, and reparent()                 *)

\* A step of the scheduler of c that dispatches nobody.
LEMMA IdleStep ==
  ASSUME IInv, NEW c \in CPU, TypeOK', spc[c] # "run", spc'[c] # "run",
         UNCHANGED <<state, wait_lock, cpuproc, pc, trap, i, w>>,
         \A d \in CPU \ {c} : spc'[d] = spc[d] /\ run'[d] = run[d],
         spc'[c] # "scan" => run'[c] \in Slot,
         \A q \in Slot :
           /\ lock'[q] = c <=> spc'[c] \in {"loop", "back"} /\ run'[c] = q
           /\ lock'[q] # lock[q] => lock[q] \in {c, NoCpu} /\ lock'[q] \in {c, NoCpu}
  PROVE  IInv'
<1>1. TypeOK /\ CpuInv /\ UniqueCpu /\ LockInv /\ WaitLockInv /\ StateInv /\ OnCpuInv
      /\ ForkInv /\ CursorInv
  BY Zenon DEF IInv
<1>2. CpuInv' /\ UniqueCpu'
  BY Zenon, <1>1 DEF CpuInv, UniqueCpu
<1>3. LockInv'
  <2>1. SUFFICES ASSUME NEW d \in CPU, NEW q \in Slot
                 PROVE  (lock[q] = d <=> Holds(d, q))'
    BY Zenon DEF LockInv
  <2>2. CASE d = c
    BY Zenon, <2>2 DEF Holds
  <2>3. CASE d # c
    <3>1. Holds(d, q)' <=> Holds(d, q)
      BY Zenon, <2>3, HoldsFrame
    <3>2. lock'[q] = d <=> lock[q] = d
      BY <2>3, ConstAssumption
    <3>q. QED BY Zenon, <1>1, <3>1, <3>2 DEF LockInv
  <2>q. QED BY Zenon, <2>2, <2>3
<1>4. WaitLockInv'
  BY Zenon, <1>1 DEF WaitLockInv
<1>5. StateInv' /\ ForkInv' /\ CursorInv'
  BY <1>1 DEF StateInv, StateOf, Switching, Resuming, ForkInv, Forking, CursorInv,
     CursorOf
<1>6. OnCpuInv'
  BY <1>1 DEF OnCpuInv, On, Switching
<1>q. QED BY Zenon, <1>2, <1>3, <1>4, <1>5, <1>6 DEF IInv

\* An iteration of the scheduler's scan preserves IInv.
LEMMA scanStep ==
  ASSUME IInv, NEW c \in CPU, scan(c)
  PROVE  IInv'
<1>1. TypeOK /\ CpuInv /\ LockInv
  BY Zenon DEF IInv
<1>2. TypeOK'
  <2>1. (found \in [CPU -> [Type -> Slot \cup {NULL}]])'
    BY Zenon, <1>1, SlotFacts DEF TypeOK, scan, AnyType
  <2>2. (si \in [CPU -> Cursor \ {0}])'
    BY Zenon, <1>1, SlotFacts DEF TypeOK, scan
  <2>q. QED BY Zenon, <1>1, <2>1, <2>2 DEF TypeOK, scan, procVars, lockVars, threadVars
<1>3. /\ spc[c] = "scan" /\ UNCHANGED <<lock, spc, run>>
      /\ UNCHANGED <<state, wait_lock, cpuproc, pc, trap, i, w>>
  BY Zenon DEF scan, procVars, lockVars, threadVars
<1>4. \A q \in Slot : lock[q] # c
  BY Zenon, <1>1, <1>3 DEF LockInv, Holds
<1>q. QED BY Zenon, <1>2, <1>3, <1>4, IdleStep

\* The scheduler's choice preserves IInv.
LEMMA pickStep ==
  ASSUME IInv, NEW c \in CPU, pick(c)
  PROVE  IInv'
<1>1. TypeOK /\ LockInv
  BY Zenon DEF IInv
<1>2. Choice(found[c]) \in Slot \cup {NULL}
  BY <1>1 DEF TypeOK, Choice, Type
<1>3. TypeOK'
  <2>1. (run \in [CPU -> Slot \cup {NULL}])'
    BY Zenon, <1>1, <1>2 DEF TypeOK, pick
  <2>2. (spc \in [CPU -> {"scan", "acquire", "loop", "back", "run"}])'
    BY Zenon, <1>1 DEF TypeOK, pick
  <2>3. (si \in [CPU -> Cursor \ {0}])'
    BY Zenon, <1>1, SlotFacts DEF TypeOK, pick
  <2>4. (found \in [CPU -> [Type -> Slot \cup {NULL}]])'
    BY Zenon, <1>1 DEF TypeOK, pick
  <2>q. QED BY Zenon, <1>1, <2>1, <2>2, <2>3, <2>4 DEF TypeOK, pick, procVars, lockVars,
       threadVars
<1>4. /\ spc[c] = "scan" /\ spc'[c] \in {"scan", "acquire"}
      /\ spc'[c] # "scan" => run'[c] \in Slot
      /\ \A d \in CPU \ {c} : spc'[d] = spc[d] /\ run'[d] = run[d]
  BY Zenon, <1>1, <1>2 DEF pick, TypeOK
<1>5. lock' = lock /\ UNCHANGED <<state, wait_lock, cpuproc, pc, trap, i, w>>
  BY Zenon DEF pick, procVars, lockVars, threadVars
<1>6. \A q \in Slot : lock[q] # c
  BY Zenon, <1>1, <1>4 DEF LockInv, Holds
<1>q. QED BY Zenon, <1>3, <1>4, <1>5, <1>6, IdleStep

\* Taking the chosen process's lock preserves IInv.
LEMMA takelockStep ==
  ASSUME IInv, NEW c \in CPU, takelock(c)
  PROVE  IInv'
<1>1. TypeOK /\ CpuInv /\ LockInv
  BY Zenon DEF IInv
<1>2. /\ spc[c] = "acquire" /\ spc' = [spc EXCEPT ![c] = "loop"] /\ run' = run
      /\ lock[run[c]] = NoCpu /\ lock' = [lock EXCEPT ![run[c]] = c]
      /\ UNCHANGED <<state, wait_lock, cpuproc, pc, trap, i, w>>
  BY Zenon DEF takelock, Acquire, Free, procVars, threadVars
<1>3. run[c] \in Slot /\ \A q \in Slot : lock[q] # c
  BY Zenon, <1>1, <1>2 DEF CpuInv, LockInv, Holds
<1>4. TypeOK'
  <2>1. (lock \in [Slot -> CPU \cup {NoCpu}])'
    BY <1>1, <1>2, Zenon DEF TypeOK
  <2>2. (spc \in [CPU -> {"scan", "acquire", "loop", "back", "run"}])'
    BY Zenon, <1>1, <1>2 DEF TypeOK
  <2>q. QED BY Zenon, <1>1, <2>1, <2>2 DEF TypeOK, takelock, procVars, threadVars
<1>5. /\ spc'[c] = "loop"
      /\ \A d \in CPU \ {c} : spc'[d] = spc[d]
      /\ \A q \in Slot : lock'[q] = IF q = run[c] THEN c ELSE lock[q]
  BY Zenon, <1>1, <1>2 DEF TypeOK
<1>q. QED BY <1>2, <1>3, <1>4, <1>5, IdleStep

\* scheduler()'s dispatch loop preserves IInv.
LEMMA loopStep ==
  ASSUME IInv, NEW c \in CPU, loop(c)
  PROVE  IInv'
<1>1. TypeOK /\ CpuInv /\ UniqueCpu /\ LockInv /\ WaitLockInv /\ StateInv /\ OnCpuInv
      /\ ForkInv /\ CursorInv
  BY Zenon DEF IInv
<1>2. PICK r \in Slot : r = run[c]
  BY Zenon, <1>1 DEF CpuInv, loop
<1>3. spc[c] \in {"loop", "back"} /\ \A q \in Slot : lock[q] = c <=> q = r
  BY <1>1, <1>2 DEF LockInv, Holds, loop
<1>4. UNCHANGED <<wait_lock, pc, trap, i, w>>
  BY Zenon DEF loop, threadVars
<1>5. CASE state[r] # "RUNNABLE"
  <2>1. /\ lock' = [lock EXCEPT ![r] = NoCpu] /\ spc' = [spc EXCEPT ![c] = "scan"]
        /\ run' = [run EXCEPT ![c] = NULL] /\ UNCHANGED <<state, cpuproc>>
    BY Zenon, <1>2, <1>5 DEF loop, Release
  <2>2. TypeOK'
    BY Zenon, <1>1, <2>1 DEF TypeOK, loop, threadVars
  <2>3. /\ spc'[c] = "scan"
        /\ \A d \in CPU \ {c} : spc'[d] = spc[d] /\ run'[d] = run[d]
        /\ \A q \in Slot : lock'[q] = IF q = r THEN NoCpu ELSE lock[q]
    BY Zenon, <1>1, <2>1 DEF TypeOK
  <2>q. QED BY <1>3, <1>4, <2>1, <2>2, <2>3, IdleStep, ConstAssumption
<1>6. CASE state[r] = "RUNNABLE"
  <2>1. /\ state' = [state EXCEPT ![r] = "RUNNING"] /\ cpuproc' = [cpuproc EXCEPT ![c] = r]
        /\ spc' = [spc EXCEPT ![c] = "run"] /\ UNCHANGED <<lock, run>>
    BY Zenon, <1>2, <1>6 DEF loop
  <2>2. TypeOK'
    BY Zenon, <1>1, <2>1 DEF TypeOK, loop, threadVars
  <2>3. /\ cpuproc'[c] = r /\ spc'[c] = "run" /\ state'[r] = "RUNNING"
        /\ \A d \in CPU \ {c} : spc'[d] = spc[d] /\ cpuproc'[d] = cpuproc[d]
        /\ \A x \in Slot \ {r} : state'[x] = state[x]
    BY Zenon, <1>1, <2>1 DEF TypeOK
  <2>4. ASSUME NEW d \in CPU
        PROVE  ~On(r, d)
    <3>1. SUFFICES ASSUME On(r, d) PROVE FALSE
      OBVIOUS
    <3>2. lock[r] = d
      BY <1>6, <3>1, OnCpuFacts
    <3>q. QED BY Zenon, <1>3, <3>1, <3>2 DEF On
  <2>5. Resuming(r) /\ ~Switching(r) /\ pc[r] \notin {"none", "dead", "forkcopy"} \cup WaitLocked
    <3>1. ~Switching(r)
      BY Zenon, <1>1, <2>4 DEF OnCpuInv
    <3>q. QED BY Zenon, <1>1, <1>6, <3>1 DEF StateInv, StateOf, Switching, Resuming,
         Interruptible, WaitLocked
  <2>6. CpuInv'
    BY <1>1, <1>2, <2>1, <2>3 DEF CpuInv
  <2>7. UniqueCpu'
    BY <1>1, <2>3, <2>4 DEF UniqueCpu, On, CpuInv
  <2>8. LockInv'
    <3>1. SUFFICES ASSUME NEW d \in CPU, NEW q \in Slot
                   PROVE  (lock[q] = d <=> Holds(d, q))'
      BY Zenon DEF LockInv
    <3>2. CASE d = c
      BY <1>2, <1>3, <1>4, <2>1, <2>5, <3>2 DEF Holds, Resuming
    <3>3. CASE d # c
      BY <1>1, <1>4, <2>1, <3>3, HoldsFrame DEF LockInv
    <3>q. QED BY Zenon, <3>2, <3>3
  <2>9. WaitLockInv'
    BY <1>1, <1>2, <1>4, <2>1, <2>5 DEF WaitLockInv
  <2>10. StateInv'
    BY <1>1, <1>4, <2>3, <2>5 DEF StateInv, StateOf, Switching, Resuming
  <2>11. OnCpuInv'
    BY <1>1, <1>3, <1>4, <2>3 DEF OnCpuInv, On, Switching
  <2>12. ForkInv' /\ CursorInv'
    BY <1>1, <1>4, <1>6, <2>3 DEF ForkInv, Forking, CursorInv, CursorOf
  <2>q. QED BY Zenon, <2>2, <2>6, <2>7, <2>8, <2>9, <2>10, <2>11, <2>12 DEF IInv
<1>q. QED BY Zenon, <1>5, <1>6

\* Leaving the CPU in sched() preserves IInv.
LEMMA schedStep ==
  ASSUME IInv, NEW p \in Slot, NEW c \in CPU, sched(p, c)
  PROVE  IInv'
<1>1. TypeOK /\ CpuInv /\ UniqueCpu /\ LockInv /\ WaitLockInv /\ StateInv /\ OnCpuInv
      /\ ForkInv /\ CursorInv
  BY Zenon DEF IInv
<1>2. /\ On(p, c) /\ Switching(p)
      /\ cpuproc' = [cpuproc EXCEPT ![c] = NULL] /\ spc' = [spc EXCEPT ![c] = "back"]
      /\ UNCHANGED <<state, lock, wait_lock, run, i, w>>
      /\ \/ trap[p] = "sched" /\ trap' = [trap EXCEPT ![p] = "ret"] /\ pc' = pc
         \/ /\ pc[p] = "sleepsched" /\ pc' = [pc EXCEPT ![p] = "sleepret"]
            /\ trap[p] = "none" /\ trap' = trap
         \/ /\ pc[p] = "exitsched" /\ pc' = [pc EXCEPT ![p] = "dead"]
            /\ trap[p] = "none" /\ trap' = trap
  BY Zenon DEF sched, Switching, Goto, procVars, lockVars
<1>3. /\ spc[c] = "run" /\ run[c] = p /\ cpuproc[c] = p
      /\ \A d \in CPU : d # c /\ spc[d] = "run" => run[d] # p /\ run[d] \in Slot
  BY <1>1, <1>2, OnFacts
<1>4. pc[p] \notin WaitLocked \cup {"forkcopy"}
  <2>1. pc[p] \in Interruptible \cup {"sleepsched", "exitsched"}
    BY Zenon, <1>1, <1>2 DEF StateInv, StateOf
  <2>q. QED BY Zenon, <2>1 DEF Interruptible, WaitLocked
<1>5. TypeOK'
  <2>1. (pc \in [Slot -> Location])'
    BY <1>1, <1>2 DEF TypeOK, Location
  <2>2. (trap \in [Slot -> {"none", "sched", "ret"}])'
    BY <1>1, <1>2 DEF TypeOK
  <2>3. /\ (cpuproc \in [CPU -> Slot \cup {NULL}])'
        /\ (spc \in [CPU -> {"scan", "acquire", "loop", "back", "run"}])'
    BY Zenon, <1>1, <1>2 DEF TypeOK
  <2>q. QED BY Zenon, <1>1, <2>1, <2>2, <2>3 DEF TypeOK, sched, procVars, lockVars
<1>6. /\ cpuproc'[c] = NULL /\ spc'[c] = "back"
      /\ \A d \in CPU \ {c} : cpuproc'[d] = cpuproc[d] /\ spc'[d] = spc[d]
      /\ \A x \in Slot \ {p} : pc'[x] = pc[x] /\ trap'[x] = trap[x]
  BY <1>1, <1>2 DEF TypeOK
<1>7. ~Switching(p)' /\ StateOf(p)' /\ CursorOf(p)' /\ state[p] # "RUNNING"
  BY <1>1, <1>2, <1>4 DEF TypeOK, StateInv, CursorInv, StateOf, CursorOf, Switching,
                          Resuming, Interruptible
<1>8. CpuInv' /\ UniqueCpu'
  BY <1>1, <1>2, <1>3, <1>6 DEF CpuInv, UniqueCpu
<1>9. LockInv'
  <2>1. SUFFICES ASSUME NEW d \in CPU, NEW q \in Slot
                 PROVE  (lock[q] = d <=> Holds(d, q))'
    BY Zenon DEF LockInv
  <2>2. CASE d = c
    <3>1. \A x \in Slot : lock[x] = c <=> \/ x = p /\ (Switching(p) \/ Resuming(p))
                                          \/ pc[p] = "forkcopy" /\ i[p] = x
      <4>1. On(p, c)
        BY Zenon, <1>2
      <4>q. QED BY Zenon, <4>1, OnCpuFacts
    <3>2. lock[q] = c <=> q = p
      BY Zenon, <1>2, <1>4, <3>1
    <3>q. QED BY Zenon, <1>2, <1>3, <1>6, <2>2, <3>2 DEF Holds
  <2>3. CASE d # c
    <3>1. Holds(d, q)' <=> Holds(d, q)
      BY Zenon, <1>2, <1>3, <1>6, <2>3, HoldsFrame
    <3>q. QED BY Zenon, <1>1, <1>2, <3>1 DEF LockInv
  <2>q. QED BY Zenon, <2>2, <2>3
<1>10. WaitLockInv'
  <2>1. wait_lock # c /\ wait_lock' = wait_lock
    BY Zenon, <1>1, <1>2, <1>3, <1>4 DEF WaitLockInv
  <2>2. \A d \in CPU \ {c} : spc[d] = "run" => pc'[run[d]] = pc[run[d]]
    BY Zenon, <1>3, <1>6
  <2>3. spc'[c] # "run" /\ run' = run
    BY <1>2, <1>6
  <2>4. ASSUME NEW d \in CPU \ {c}
        PROVE  (wait_lock = d <=> spc[d] = "run" /\ pc[run[d]] \in WaitLocked)'
    <3>1. wait_lock = d <=> spc[d] = "run" /\ pc[run[d]] \in WaitLocked
      BY Zenon, <1>1 DEF WaitLockInv
    <3>2. spc'[d] = spc[d]
      BY Zenon, <1>6
    <3>q. QED BY Zenon, <2>1, <2>2, <2>3, <3>1, <3>2
  <2>q. QED BY Zenon, <2>1, <2>3, <2>4 DEF WaitLockInv
<1>11. StateInv' /\ CursorInv'
  BY <1>1, <1>2, <1>6, <1>7 DEF StateInv, StateOf, CursorInv, CursorOf, Switching,
     Resuming
<1>12. OnCpuInv'
  <2>1. \A x \in Slot \ {p} : Switching(x)' <=> Switching(x)
    BY Zenon, <1>6 DEF Switching
  <2>2. \A x \in Slot, d \in CPU : On(x, d)' <=> On(x, d) /\ d # c
    BY Zenon, <1>6 DEF On
  <2>3. \A d \in CPU \ {c} : ~On(p, d)
    BY Zenon, <1>1, <1>3, SlotFacts DEF On, UniqueCpu
  <2>4. \A x \in Slot : On(x, c) <=> x = p
    BY Zenon, <1>3 DEF On
  <2>q. QED BY Zenon, <1>1, <1>2, <1>7, <2>1, <2>2, <2>3, <2>4 DEF OnCpuInv
<1>13. ForkInv'
  <2>1. Forking(p)' => Forking(p) /\ pc'[p] = pc[p]
    BY Zenon, <1>1, <1>2 DEF Forking, TypeOK
  <2>2. \A x \in Slot : Forking(x)' => Forking(x) /\ pc'[x] = pc[x]
    BY Zenon, <1>6, <2>1 DEF Forking
  <2>3. i' = i /\ state' = state
    BY Zenon, <1>2
  <2>4. \A x \in Slot : Forking(x) => pc'[i[x]] = pc[i[x]]
    <3>1. \A x \in Slot : Forking(x) => i[x] \in Slot /\ state[i[x]] = "USED"
      BY Zenon, <1>1 DEF ForkInv
    <3>2. \A x \in Slot : Forking(x) => i[x] # p
      BY Zenon, <1>1, <1>2, <3>1 DEF StateInv, StateOf, Switching
    <3>q. QED BY Zenon, <1>6, <3>1, <3>2
  <2>5. ASSUME NEW x \in Slot, NEW y \in Slot, Forking(x)'
        PROVE  /\ i'[x] \in Slot /\ state'[i'[x]] = "USED"
               /\ pc'[i'[x]] = IF pc'[x] = "forkcopy" THEN "none" ELSE "forkret"
               /\ Forking(y)' /\ y # x => i'[y] # i'[x]
    <3>1. Forking(x) /\ pc'[x] = pc[x] /\ pc'[i[x]] = pc[i[x]] /\ (Forking(y)' => Forking(y))
      BY Zenon, <2>2, <2>4, <2>5
    <3>2. /\ i[x] \in Slot /\ state[i[x]] = "USED"
          /\ pc[i[x]] = IF pc[x] = "forkcopy" THEN "none" ELSE "forkret"
          /\ Forking(y) /\ y # x => i[y] # i[x]
      BY Zenon, <1>1, <3>1 DEF ForkInv
    <3>q. QED BY <2>3, <3>1, <3>2
  <2>q. QED BY Zenon, <2>5 DEF ForkInv
<1>q. QED BY Zenon, <1>5, <1>8, <1>9, <1>10, <1>11, <1>12, <1>13 DEF IInv

-----------------------------------------------------------------------------

\* The state that main() leaves satisfies IInv.
LEMMA InitIInv == Init => IInv
<1> SUFFICES ASSUME Init PROVE IInv
  OBVIOUS
<1>1. TypeOK
  BY Zenon, SlotFacts, ConstAssumption DEF Init, TypeOK, Location, AnyType, Type
<1>2. CpuInv /\ UniqueCpu
  BY Zenon DEF Init, CpuInv, UniqueCpu
<1>3. LockInv /\ WaitLockInv
  BY Zenon, ConstAssumption DEF Init, LockInv, WaitLockInv, Holds
<1>4. StateInv /\ OnCpuInv
  BY Zenon DEF Init, StateInv, StateOf, OnCpuInv, On, Switching, Resuming
<1>5. ForkInv /\ CursorInv
  BY Zenon DEF Init, ForkInv, Forking, CursorInv, CursorOf
<1>q. QED BY Zenon, <1>1, <1>2, <1>3, <1>4, <1>5 DEF IInv

\* A step that changes nothing preserves IInv.
LEMMA StutterStep ==
  ASSUME IInv, UNCHANGED vars
  PROVE  IInv'
<1> USE DEF vars, procVars, lockVars, cpuVars, threadVars
<1>1. TypeOK'
  BY Zenon DEF IInv, TypeOK
<1>2. CpuInv' /\ UniqueCpu' /\ WaitLockInv'
  BY Zenon DEF IInv, CpuInv, UniqueCpu, WaitLockInv
<1>3. LockInv'
  <2>1. \A c \in CPU, q \in Slot : Holds(c, q)' <=> Holds(c, q)
    BY DEF Holds, Switching, Resuming
  <2>q. QED BY Zenon, <2>1 DEF IInv, LockInv
<1>4. StateInv' /\ OnCpuInv'
  <2>1. \A q \in Slot : /\ StateOf(q)' <=> StateOf(q)
                        /\ Switching(q)' <=> Switching(q)
    BY DEF StateOf, Switching, Resuming
  <2>2. \A q \in Slot, c \in CPU : On(q, c)' <=> On(q, c)
    BY Zenon DEF On
  <2>q. QED BY Zenon, <2>1, <2>2 DEF IInv, StateInv, OnCpuInv
<1>5. ForkInv' /\ CursorInv'
  BY Zenon DEF IInv, ForkInv, Forking, CursorInv, CursorOf
<1>q. QED BY Zenon, <1>1, <1>2, <1>3, <1>4, <1>5 DEF IInv

\* Every step of the system preserves IInv.
LEMMA NextIInv == IInv /\ [Next]_vars => IInv'
<1> SUFFICES ASSUME IInv, [Next]_vars PROVE IInv'
  OBVIOUS
<1>1. CASE \E c \in CPU : Sched(c)
  BY <1>1, scanStep, pickStep, takelockStep, loopStep DEF Sched
<1>2. ASSUME NEW p \in Slot, NEW c \in CPU, Switch(p, c)
      PROVE  IInv'
  BY Zenon, <1>2, schedStep, yieldretStep DEF Switch
<1>3. ASSUME NEW p \in Slot, NEW c \in CPU, Trap(p, c)
      PROVE  IInv'
  BY Zenon, <1>3, usertrapStep, faultStep, yieldStep DEF Trap
<1>4. ASSUME NEW p \in Slot, NEW c \in CPU, Kernel(p, c)
      PROVE  IInv'
  BY Zenon, <1>4, trapretStep, allocprocStep, forkfailStep, forkcopyStep, forkparentStep,
     forkrunStep, forkretStep, exitlockStep, reparentStep, wakeinitStep, wakeparentStep,
     zombieStep, waitlockStep, reapStep, waitscanStep, waitendStep, sleepStep,
     sleepretStep, killStep, settypeStep, setwriteStep DEF Kernel
<1>5. CASE UNCHANGED vars
  BY Zenon, <1>5, StutterStep
<1>q. QED BY Zenon, <1>1, <1>2, <1>3, <1>4, <1>5 DEF Next

\* IInv holds in every reachable state.
THEOREM Invariance == Spec => []IInv
BY InitIInv, NextIInv, PTL DEF Spec

\* Every variable of the process table, the CPUs and the kernel threads keeps
\* its type; in particular every loop cursor stays in the table or one past it.
THEOREM TypeCorrect == Spec => []TypeOK
<1>1. IInv => TypeOK
  BY Zenon DEF IInv
<1>q. QED BY <1>1, Invariance, PTL

\* A process is on at most one CPU and a RUNNING one is on a CPU: scheduler()'s
\* recheck of state under p->lock is enough, for any number of schedulers.
THEOREM OneCpuHolds == Spec => []OneCpu
<1>1. IInv => OneCpu
  BY Zenon DEF IInv, UniqueCpu, OnCpuInv, OneCpu
<1>q. QED BY <1>1, Invariance, PTL

\* wait() and a failing fork() never free a slot a CPU is still on.
THEOREM NoFreeOnCpuHolds == Spec => []NoFreeOnCpu
<1>1. ASSUME IInv, NEW c \in CPU, cpuproc[c] # NULL
      PROVE  state[cpuproc[c]] \notin {"UNUSED", "USED"}
  <2>1. cpuproc[c] \in Slot /\ On(cpuproc[c], c)
    BY <1>1 DEF IInv, CpuInv, TypeOK, On
  <2>q. QED BY Zenon, <1>1, <2>1, OnCpuFacts DEF StateOf, Switching
<1>2. IInv => NoFreeOnCpu
  BY Zenon, <1>1 DEF NoFreeOnCpu
<1>q. QED BY <1>2, Invariance, PTL

\* IInv says of each lock who holds it, and so rules the panics out.
LEMMA IInvNoPanic == IInv => NoPanic
<1>1. SUFFICES ASSUME IInv, NEW p \in Slot, NEW c \in CPU, On(p, c)
      PROVE  /\ Switching(p) => /\ lock[p] = c
                                /\ wait_lock # c
                                /\ \A q \in Slot \ {p} : lock[q] # c
                                /\ state[p] # "RUNNING"
             /\ trap[p] = "none" /\ pc[p] \in TakesProcLock =>
                  \A q \in Slot : lock[q] # c
             /\ trap[p] = "none" /\ pc[p] \in TakesWaitLock =>
                  wait_lock # c /\ \A q \in Slot : lock[q] # c
             /\ Resuming(p) => lock[p] = c
             /\ pc[p] = "forkcopy" => lock[i[p]] = c
             /\ pc[p] \in WaitLocked => wait_lock = c
  BY Zenon DEF NoPanic
<1>2. /\ \A q \in Slot : lock[q] = c <=> \/ q = p /\ (Switching(p) \/ Resuming(p))
                                         \/ pc[p] = "forkcopy" /\ i[p] = q
      /\ wait_lock = c <=> pc[p] \in WaitLocked
      /\ StateOf(p)
  BY Zenon, <1>1, OnCpuFacts
<1>3. pc[p] = "forkcopy" => lock[i[p]] = c
  BY Zenon, <1>1, <1>2, ForkFacts DEF Forking
<1>4. CASE Switching(p)
  <2>1. pc[p] \notin WaitLocked /\ pc[p] # "forkcopy" /\ state[p] # "RUNNING"
    BY Zenon, <1>2, <1>4 DEF StateOf, Switching, Interruptible, WaitLocked
  <2>2. ~(trap[p] = "none" /\ pc[p] \in TakesProcLock \cup TakesWaitLock)
    BY Zenon, <1>4 DEF Switching, TakesProcLock, TakesWaitLock
  <2>q. QED BY <1>1, <1>2, <1>3, <1>4, <2>1, <2>2
<1>5. CASE ~Switching(p)
  <2>1. ASSUME trap[p] = "none", pc[p] \in TakesProcLock \cup TakesWaitLock
        PROVE  ~Resuming(p) /\ pc[p] # "forkcopy"
    BY Zenon, <2>1 DEF Resuming, TakesProcLock, TakesWaitLock
  <2>2. pc[p] \in TakesWaitLock => pc[p] \notin WaitLocked
    BY Zenon DEF TakesWaitLock, WaitLocked
  <2>q. QED BY Zenon, <1>1, <1>2, <1>3, <1>5, <2>1, <2>2
<1>q. QED BY Zenon, <1>4, <1>5

\* The locking discipline: sched() is always called with p->lock as the only
\* lock held and state changed, no CPU acquires a lock it already holds or
\* releases one it does not, and wait_lock is taken before any p->lock.
THEOREM NoPanicHolds == Spec => []NoPanic
BY IInvNoPanic, Invariance, PTL

\* What LifeCycle allows of a step.
LifeStep ==
  \A p \in Slot : state'[p] # state[p] =>
    <<state[p], state'[p]>> \in
      {<<"UNUSED", "USED">>, <<"USED", "UNUSED">>, <<"USED", "RUNNABLE">>,
       <<"RUNNABLE", "RUNNING">>, <<"RUNNING", "RUNNABLE">>,
       <<"RUNNING", "SLEEPING">>, <<"SLEEPING", "RUNNABLE">>,
       <<"RUNNING", "ZOMBIE">>, <<"ZOMBIE", "UNUSED">>}

\* The scheduler dispatches RUNNABLE processes only.
LEMMA SchedLife ==
  ASSUME IInv, NEW c \in CPU, Sched(c)
  PROVE  LifeStep
<1>1. CASE loop(c)
  <2>1. state \in [Slot -> {"UNUSED", "USED", "SLEEPING", "RUNNABLE", "RUNNING", "ZOMBIE"}]
    BY Zenon DEF IInv, TypeOK
  <2>q. QED BY Zenon, <1>1, <2>1 DEF loop, LifeStep
<1>q. QED BY Zenon, <1>1 DEF Sched, scan, pick, takelock, procVars, LifeStep

\* Traps and the way back to and from the CPU change RUNNING to RUNNABLE only.
LEMMA TrapLife ==
  ASSUME IInv, NEW p \in Slot, NEW c \in CPU, Switch(p, c) \/ Trap(p, c)
  PROVE  LifeStep
<1>1. CASE yield(p, c)
  <2>1. state[p] = "RUNNING"
    BY Zenon, <1>1, RunningFacts DEF yield, Interruptible
  <2>q. QED BY <1>1, <2>1 DEF yield, LifeStep, IInv, TypeOK
<1>q. QED BY Zenon, <1>1
             DEF Switch, Trap, sched, yieldret, usertrap, fault, procVars, LifeStep

\* The steps of a kernel thread follow the life cycle: fork() has a USED slot
\* in hand, wait() a ZOMBIE, and exit() and sleep() a RUNNING process.
LEMMA KernelLife ==
  ASSUME IInv, NEW p \in Slot, NEW c \in CPU, Kernel(p, c)
  PROVE  LifeStep
<1>1. state \in [Slot -> {"UNUSED", "USED", "SLEEPING", "RUNNABLE", "RUNNING", "ZOMBIE"}]
  BY Zenon DEF IInv, TypeOK
<1>2. CASE allocproc(p, c)
  BY Zenon, <1>1, <1>2 DEF allocproc, LifeStep
<1>3. CASE forkfail(p, c) \/ forkrun(p, c)
  <2>1. state[i[p]] = "USED"
    BY <1>3 DEF forkfail, forkrun, At, IInv, ForkInv, Forking
  <2>q. QED BY Zenon, <1>1, <1>3, <2>1 DEF forkfail, freeproc, forkrun, LifeStep
<1>4. CASE wakeinit(p, c) \/ wakeparent(p, c)
  BY Zenon, <1>1, <1>4 DEF wakeinit, wakeparent, wakeup, LifeStep
<1>5. CASE zombie(p, c) \/ sleep(p, c)
  <2>1. state[p] = "RUNNING"
    BY Zenon, <1>5, RunningFacts DEF zombie, sleep, At
  <2>q. QED BY Zenon, <1>1, <1>5, <2>1 DEF zombie, sleep, LifeStep
<1>6. CASE reap(p, c)
  BY Zenon, <1>1, <1>6 DEF reap, freeproc, LifeStep
<1>7. CASE kill(p, c)
  BY Zenon, <1>1, <1>7 DEF kill, LifeStep
<1>8. CASE UNCHANGED state
  BY Zenon, <1>8 DEF LifeStep
<1>q. QED
  BY Zenon, <1>2, <1>3, <1>4, <1>5, <1>6, <1>7, <1>8
     DEF Kernel, trapret, forkcopy, forkparent,
     forkret, exitlock, reparent, waitlock, waitscan, waitend, sleepret, settype,
     setwrite, procVars

-----------------------------------------------------------------------------
(* The family of processes.                                                *)

\* A slot goes through fork, run, exit and wait in this order, whatever wakeups
\* and kills reach it: a process that has exited never runs again.
THEOREM LifeCycleHolds == Spec => LifeCycle
<1>1. IInv /\ [Next]_vars => [LifeStep]_vars
  BY Zenon, SchedLife, TrapLife, KernelLife DEF Next
<1>q. QED BY <1>1, Invariance, PTL DEF Spec, LifeCycle, LifeStep

-----------------------------------------------------------------------------
(* FamilyInv is inductive relative to IInv.                                *)

\* reparent() gives a child to init, which wakeup(initproc) is then to wake, or
\* passes a slot that is no child, or has passed them all.
LEMMA reparentFamily ==
  ASSUME IInv, FamilyInv, NEW p \in Slot, NEW c \in CPU, reparent(p, c)
  PROVE  FamilyInv'
<1>1. FamilyType /\ p # initproc /\ pc[p] = "reparent"
  BY Zenon, FamilyTypes DEF FamilyInv, InitInv, reparent, At
<1>2. /\ PidInv /\ InitInv /\ SelfInv /\ ThreadInv
      /\ UniquePids /\ ParentAlive /\ NoLostWakeup
  BY Zenon DEF FamilyInv
<1>3. i[p] \in Int /\ i[p] # 0 /\ i[p] >= 0
  BY <1>1, ConstAssumption DEF IInv, CursorInv, CursorOf, FamilyType, Cursor
<1>4. \A q \in Slot : q \in Int /\ q <= NPROC
  BY ConstAssumption DEF Slot
<1>5. \A q \in Slot : q < i[p] => parent[q] # p
  BY Zenon, <1>1, <1>2 DEF ThreadInv, HandedOver
<1>6. UNCHANGED <<state, pid, nextpid, chan>>
  BY Zenon DEF reparent
<1>7. CASE i[p] > NPROC
  <2>1. /\ pc'[p] = "wakeparent" /\ w'[p] = 1 /\ UNCHANGED parent
        /\ \A q \in Slot \ {p} : pc'[q] = pc[q] /\ i'[q] = i[q] /\ w'[q] = w[q]
    BY <1>1, <1>7 DEF reparent, Goto, FamilyType
  <2>2. \A q \in Slot : q < i[p] /\ ~(q < 1)
    <3>1. NPROC \in Int
      BY ConstAssumption
    <3>2. \A q \in Slot : q \in Int /\ q >= 1 /\ q <= NPROC
      BY <3>1 DEF Slot
    <3>q. QED BY <1>3, <1>7, <3>1, <3>2
  <2>3. \A q \in Slot : HandedOver(p, q)' /\ Scanned(p, q)' /\ Woken(p, q)'
    BY Zenon, <1>5, <2>1, <2>2 DEF HandedOver, Scanned, Woken
  <2>q. QED BY Zenon, <1>1, <1>6, <2>1, <2>3, QuietStep DEF QuietState
<1>8. CASE ~(i[p] > NPROC) /\ parent[i[p]] # p
  <2>1. /\ i'[p] = i[p] + 1 /\ UNCHANGED <<parent, pc, w>>
        /\ \A q \in Slot \ {p} : i'[q] = i[q]
    BY Zenon, <1>1, <1>8 DEF reparent, FamilyType
  <2>2. ASSUME NEW q \in Slot
        PROVE  HandedOver(p, q)' /\ Scanned(p, q)' /\ Woken(p, q)'
    <3>1. q < i[p] + 1 => q < i[p] \/ q = i[p]
      BY <1>3, <1>4
    <3>2. HandedOver(p, q)'
      BY Zenon, <1>1, <1>5, <1>8, <2>1, <3>1 DEF HandedOver
    <3>3. Scanned(p, q)' /\ Woken(p, q)'
      BY Zenon, <1>1, <2>1 DEF Scanned, Woken
    <3>q. QED BY Zenon, <3>2, <3>3
  <2>q. QED BY Zenon, <1>1, <1>6, <2>1, <2>2, QuietStep DEF QuietState
<1>9. CASE ~(i[p] > NPROC) /\ parent[i[p]] = p
  <2> DEFINE np == i[p]
  <2>1. np \in Slot
    BY <1>3, <1>9, ConstAssumption DEF Slot
  <2>2. /\ parent'[np] = initproc /\ \A q \in Slot \ {np} : parent'[q] = parent[q]
        /\ pc'[p] = "wakeinit" /\ w'[p] = 1 /\ UNCHANGED i
        /\ \A q \in Slot \ {p} : pc'[q] = pc[q] /\ w'[q] = w[q]
    BY <1>1, <1>9, <2>1 DEF reparent, Goto, FamilyType
  <2>3. /\ \A q \in Slot \ {p} : pc[q] \notin WaitLocked
        /\ np # initproc /\ initproc \in Slot /\ initproc # NULL
    BY Zenon, <1>1, <1>2, <1>9, WaitLockOne, SlotFacts DEF WaitLocked, InitInv
  <2>4. PidInv' /\ UniquePids'
    BY Zenon, <1>2, <1>6 DEF PidInv, UniquePids
  <2>5. InitInv' /\ SelfInv'
    BY Zenon, <1>1, <1>2, <1>6, <2>1, <2>2, <2>3 DEF InitInv, SelfInv
  <2>6. ThreadInv'
    <3>1. ASSUME NEW q \in Slot
          PROVE  HandedOver(p, q)' /\ Scanned(p, q)' /\ Woken(p, q)'
      <4>1. q <= i[p] => q < i[p] \/ q = i[p]
        BY <1>3, <1>4
      <4>2. HandedOver(p, q)'
        BY Zenon, <1>1, <1>5, <2>2, <4>1 DEF HandedOver
      <4>q. QED BY Zenon, <2>2, <4>2 DEF Scanned, Woken
    <3>2. ASSUME NEW x \in Slot \ {p}, NEW q \in Slot
          PROVE  HandedOver(x, q)' /\ Scanned(x, q)' /\ Woken(x, q)'
      BY <2>2, <2>3 DEF HandedOver, Scanned, Woken, WaitLocked
    <3>3. ASSUME NEW x \in Slot, pc'[x] = "forkrun"
          PROVE  parent'[i'[x]] # NULL
      <4>1. pc[x] = "forkrun" /\ i'[x] = i[x]
        BY Zenon, <2>2, <3>3
      <4>2. i[x] \in Slot
        BY <4>1 DEF IInv, ForkInv, Forking
      <4>q. QED BY Zenon, <1>2, <2>2, <2>3, <4>1, <4>2 DEF ThreadInv
    <3>q. QED BY Zenon, <3>1, <3>2, <3>3 DEF ThreadInv
  <2>7. ParentAlive'
    <3>1. \A x \in Slot : parent[x] # NULL => parent[x] \in Slot
      BY Zenon, <1>1 DEF FamilyType
    <3>2. state[initproc] \in {"SLEEPING", "RUNNABLE", "RUNNING"} /\ p # NULL
      BY Zenon, <1>2, SlotFacts DEF InitInv
    <3>q. QED BY <1>2, <1>6, <1>9, <2>1, <2>2, <2>3, <3>1, <3>2 DEF ParentAlive
  <2>8. NoLostWakeup'
    <3>1. w'[p] <= initproc
      BY <2>2 DEF initproc
    <3>q. QED BY <1>2, <1>6, <2>1, <2>2, <3>1 DEF NoLostWakeup
  <2>q. QED BY Zenon, <2>4, <2>5, <2>6, <2>7, <2>8 DEF FamilyInv
<1>q. QED BY Zenon, <1>7, <1>8, <1>9

\* FamilyInv holds when initproc is the only process.
LEMMA InitFamily == Init => FamilyInv
<1>1. SUFFICES ASSUME Init PROVE FamilyInv
  OBVIOUS
<1>2. PidInv /\ UniquePids
  BY <1>1 DEF Init, PidInv, UniquePids
<1>3. InitInv /\ SelfInv
  BY Zenon, <1>1, SlotFacts DEF Init, InitInv, SelfInv
<1>4. ThreadInv
  BY Zenon, <1>1 DEF Init, ThreadInv, HandedOver, Scanned, Woken
<1>5. ParentAlive /\ NoLostWakeup
  BY Zenon, <1>1 DEF Init, ParentAlive, NoLostWakeup
<1>q. QED BY Zenon, <1>2, <1>3, <1>4, <1>5 DEF FamilyInv

\* Every step of the kernel preserves FamilyInv.
LEMMA NextFamily == IInv /\ FamilyInv /\ [Next]_vars => FamilyInv'
<1>1. SUFFICES ASSUME IInv, FamilyInv, [Next]_vars
      PROVE  FamilyInv'
  OBVIOUS
<1>2. ASSUME NEW c \in CPU, Sched(c)
      PROVE  FamilyInv'
  BY Zenon, <1>1, <1>2, SchedFamily, FamilyTypes
<1>3. ASSUME NEW p \in Slot, NEW c \in CPU, Switch(p, c) \/ Trap(p, c)
      PROVE  FamilyInv'
  BY Zenon, <1>1, <1>3, TrapFamily
<1>4. ASSUME NEW p \in Slot, NEW c \in CPU, Kernel(p, c)
      PROVE  FamilyInv'
  BY <1>1, <1>4, PlainFamily, ScanFamily, allocprocFamily, forkfailFamily,
     forkparentFamily, forkrunFamily, reparentFamily, wakeinitFamily,
     wakeparentFamily, zombieFamily, reapFamily, sleepFamily DEF Kernel
<1>5. CASE UNCHANGED vars
  BY Zenon, <1>1, <1>5, KeepStep, FamilyTypes DEF vars, procVars, threadVars, QuietState
<1>q. QED BY Zenon, <1>1, <1>2, <1>3, <1>4, <1>5 DEF Next

\* fork(), exit(), wait() and the timer, on any number of CPUs and slots, keep
\* the tree of processes sound and wait_lock's sections exact about it.
THEOREM FamilyInvariance == Spec => []FamilyInv
BY Invariance, InitFamily, NextFamily, PTL DEF Spec

\* No two slots in use have the same pid.
THEOREM UniquePidsHolds == Spec => []UniquePids
<1>1. FamilyInv => UniquePids
  BY Zenon DEF FamilyInv
<1>q. QED BY <1>1, FamilyInvariance, PTL

\* Every process but init has a parent that has not exited: reparent() hands all
\* of them over before the exiting process becomes a ZOMBIE.
THEOREM ParentAliveHolds == Spec => []ParentAlive
<1>1. FamilyInv => ParentAlive
  BY Zenon DEF FamilyInv
<1>q. QED BY <1>1, FamilyInvariance, PTL

\* No parent stays asleep in wait() once a child has exited: sleep() takes
\* p->lock before it lets go of wait_lock, which exit() holds when it wakes.
THEOREM NoLostWakeupHolds == Spec => []NoLostWakeup
<1>1. FamilyInv => NoLostWakeup
  BY Zenon DEF FamilyInv
<1>q. QED BY <1>1, FamilyInvariance, PTL
=============================================================================
