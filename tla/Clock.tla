------------------------------- MODULE Clock --------------------------------
(***************************************************************************)
(* The tick counter (kernel/trap.c) and sleep() of a number of ticks       *)
(* (kernel/sysproc.c).  The counter is unsigned and wraps around.          *)
(***************************************************************************)
EXTENDS Process, Integers, FiniteSets

CONSTANTS
  UINT,     \* ticks are modulo UINT
  MaxN,     \* bound on the ticks a process asks for
  MaxLag    \* bound on the ticks a runnable process waits for a CPU

ASSUME ClockAssumption ==
  /\ None \notin Proc
  /\ {UINT, MaxN, MaxLag} \subseteq Nat \ {0} /\ MaxN + MaxLag < UINT

VARIABLES
  ticks, lock,       \* tickslock's holder, or None
  place, n, ticks0,  \* of sys_sleep()
  killed,
  passed, lag        \* history: ticks since the call, and since it became runnable

local == <<n, ticks0, passed>>
clockvars == <<ticks, lock, place, local, killed, lag>>

ClockInit ==
  /\ ticks \in {0, UINT - 1} /\ lock = None
  /\ place = [p \in Proc |-> "out"] /\ killed = {}
  /\ n = [p \in Proc |-> 0] /\ ticks0 = n /\ passed = n /\ lag = n

\* Mutant: wakeup() is left out.
WokenNone(q) == q

\* wakeup(&ticks)
Woken(q) == IF q = "sleep" THEN "woken" ELSE q

\* ticks++
Tick == (ticks + 1) % UINT

Running(p) == place[p] \notin {"out", "sleep"}

\* clockintr() on CPU 0; the history stops counting at UINT.
clockintr ==
  /\ lock = None /\ \A p \in Proc : Running(p) => lag[p] < MaxLag
  /\ ticks' = Tick
  /\ passed' = [p \in Proc |-> IF place[p] = "out" \/ passed[p] = UINT THEN passed[p] ELSE passed[p] + 1]
  /\ lag' = [p \in Proc |-> IF Running(p) THEN lag[p] + 1 ELSE 0]
  /\ place' = [p \in Proc |-> Woken(place[p])]
  /\ UNCHANGED <<lock, n, ticks0, killed>>

\* sys_sleep() begins; a negative count is taken for 0.
sys_sleep(p) ==
  /\ place[p] = "out" /\ lock = None
  /\ lock' = p /\ place' = [place EXCEPT ![p] = "loop"]
  /\ \E k \in -1..MaxN : n' = [n EXCEPT ![p] = IF k < 0 THEN 0 ELSE k]
  /\ ticks0' = [ticks0 EXCEPT ![p] = ticks] /\ passed' = [passed EXCEPT ![p] = 0]
  /\ UNCHANGED <<ticks, killed, lag>>

\* Mutant: the time to wake up is computed, and may have wrapped around.
EarlyAt(p) == ticks < (ticks0[p] + n[p]) % UINT

\* ticks - ticks0 < n, unsigned
Early(p) == (ticks - ticks0[p]) % UINT < n[p]

\* An iteration of sys_sleep()'s loop.
loop(p) ==
  /\ place[p] = "loop"
  /\ IF Early(p) /\ p \notin killed
     THEN place' = [place EXCEPT ![p] = "tosleep"] /\ UNCHANGED <<lock, local, killed, lag>>
     ELSE /\ lock' = None /\ place' = [place EXCEPT ![p] = "out"] /\ killed' = killed \ {p}
          /\ n' = [n EXCEPT ![p] = 0] /\ ticks0' = [ticks0 EXCEPT ![p] = 0]
          /\ passed' = [passed EXCEPT ![p] = 0] /\ lag' = [lag EXCEPT ![p] = 0]
  /\ UNCHANGED ticks

\* sleep(&ticks, &tickslock); a kill() since the look at p->killed goes unnoticed.
sleep(p) ==
  /\ place[p] = "tosleep"
  /\ lock' = None /\ place' = [place EXCEPT ![p] = "sleep"] /\ lag' = [lag EXCEPT ![p] = 0]
  /\ UNCHANGED <<ticks, local, killed>>

\* The end of sleep().
wake(p) ==
  /\ place[p] = "woken" /\ lock = None
  /\ lock' = p /\ place' = [place EXCEPT ![p] = "loop"]
  /\ UNCHANGED <<ticks, local, killed, lag>>

\* kill() of a process that is in sys_sleep().
kill(p) ==
  /\ place[p] # "out" /\ killed' = killed \cup {p}
  /\ place' = [place EXCEPT ![p] = Woken(@)]
  /\ UNCHANGED <<ticks, lock, local, lag>>

ClockNext == clockintr \/ \E p \in Proc : sys_sleep(p) \/ loop(p) \/ sleep(p) \/ wake(p) \/ kill(p)

ClockSpec == ClockInit /\ [][ClockNext]_clockvars

\* The clock ticks, and processes run; the lock is free again and again.
ClockFairSpec ==
  ClockSpec /\ SF_clockvars(clockintr) /\ \A p \in Proc : WF_clockvars(loop(p) \/ sleep(p)) /\ SF_clockvars(wake(p))

-----------------------------------------------------------------------------
\* Every variable has its type: ticks stays a uint, and a sleeper is woken
\* before the counter has gone round once since it started.
ClockTypeOK ==
  /\ ticks \in 0..UINT - 1 /\ lock \in Proc \cup {None} /\ killed \subseteq Proc
  /\ place \in [Proc -> {"out", "loop", "tosleep", "sleep", "woken"}] /\ n \in [Proc -> 0..MaxN]
  /\ ticks0 \in [Proc -> 0..UINT - 1] /\ passed \in [Proc -> 0..UINT] /\ lag \in [Proc -> 0..MaxLag]

Leaves(p) == place[p] = "loop" /\ place'[p] = "out"

\* sys_sleep() never returns early, and when it has not been killed it returns late only
\* by the time the process waited for a CPU: also when ticks wraps around in between.
OnTime ==
  [][\A p \in Proc : Leaves(p) /\ p \notin killed => passed[p] \in n[p]..n[p] + MaxLag]_clockvars

\* Every call returns, and a process that is killed in it, at whatever point, does too: a
\* kill() that comes between the look at p->killed and sleep() is noticed at the next tick.
SleepEnds == \A p \in Proc : place[p] # "out" ~> place[p] = "out"
=============================================================================
