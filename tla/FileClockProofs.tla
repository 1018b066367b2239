-------------------------- MODULE FileClockProofs ---------------------------
(***************************************************************************)
(* The clock and the file table, both tables that all processes share.     *)
(*                                                                         *)
(* The clock: sys_sleep() is on time, for every number of processes, every *)
(* width of the tick counter and every count of ticks that is below it.    *)
(*                                                                         *)
(* The file table, for every number of files, descriptors, processes and   *)
(* objects: ref counts the uses of a file, an object is released once, and *)
(* no descriptor is of a half-made file.                                   *)
(*                                                                         *)
(* A file in use has descriptors, or is in a variable of one call that is  *)
(* making it, never both: CountInv and AloneInv.  Own says the same of an  *)
(* object: it is in one file, or one fileclose() is about to release it.   *)
(* The lemmas about Held say how a step changes the descriptors of a file, *)
(* those about Own how it moves an object, and CallStep what else it has   *)
(* to establish; then there is a lemma for each action.                    *)
(***************************************************************************)
EXTENDS Clock, FileTable, FiniteSetTheorems, WellFoundedInduction, TLAPS

\* The counter is ahead of ticks0 by the ticks that passed, around its end or not.
Elapsed(p) ==
  \/ ticks = ticks0[p] + passed[p]
  \/ ticks = ticks0[p] + passed[p] - UINT

\* A process in the call: it is late only by its wait for a CPU, and it goes to sleep only
\* with time left.
Sleeper(p) ==
  /\ Elapsed(p) /\ passed[p] <= n[p] + lag[p]
  /\ place[p] \in {"sleep", "tosleep"} => passed[p] < n[p]

\* The tick cannot move while a process is between its look at ticks and its sleep, since
\* that process has tickslock.
ClockInv ==
  /\ ClockTypeOK
  /\ \A p \in Proc : lock = p <=> place[p] \in {"loop", "tosleep"}
  /\ \A p \in Proc : place[p] \in {"out", "sleep"} => lag[p] = 0
  /\ \A p \in Proc : place[p] # "out" => Sleeper(p)

\* The constants, as the provers use them.
LEMMA Widths ==
  /\ UINT \in Nat /\ UINT > 0 /\ MaxN \in Nat /\ MaxLag \in Nat /\ MaxN + MaxLag < UINT
  /\ None \notin Proc
BY ClockAssumption

\* ticks++ of trap.c: the counter goes on, or from its last value to 0.
LEMMA TickStep ==
  ASSUME ticks \in 0..UINT - 1
  PROVE  Tick \in 0..UINT - 1 /\ (Tick = ticks + 1 \/ Tick = ticks + 1 - UINT)
<1>1. CASE ticks + 1 < UINT
  <2>1. (ticks + 1) % UINT = ticks + 1
    BY <1>1, Widths
  <2>q. QED BY <1>1, <2>1, Widths DEF Tick
<1>2. CASE ticks + 1 = UINT
  <2>1. UINT % UINT = 0
    BY Widths
  <2>q. QED BY <1>2, <2>1, Widths DEF Tick
<1>q. QED BY <1>1, <1>2, Widths

\* ticks - ticks0 < n of sysproc.c, unsigned: it compares the ticks that passed.
LEMMA EarlyExact ==
  ASSUME ClockTypeOK, NEW p \in Proc, Elapsed(p), passed[p] < UINT
  PROVE  Early(p) <=> passed[p] < n[p]
<1>1. /\ ticks \in 0..UINT - 1 /\ ticks0[p] \in 0..UINT - 1
      /\ passed[p] \in 0..UINT - 1 /\ n[p] \in Nat
  BY Widths DEF ClockTypeOK
<1>2. (ticks - ticks0[p]) % UINT = passed[p]
  <2>1. CASE ticks - ticks0[p] = passed[p]
    BY <1>1, <2>1, Widths
  <2>2. CASE ticks - ticks0[p] = passed[p] - UINT
    <3>1. (passed[p] - UINT) % UINT = passed[p]
      BY <1>1, Widths
    <3>q. QED BY <2>2, <3>1
  <2>q. QED BY <1>1, <2>1, <2>2, Widths DEF Elapsed
<1>q. QED BY <1>2 DEF Early

\* Within the call fewer than UINT ticks pass, so that the unsigned difference is exact.
LEMMA PassedFits ==
  ASSUME ClockInv, NEW p \in Proc, place[p] # "out"
  PROVE  passed[p] < UINT
<1>1. passed[p] \in Nat /\ n[p] \in 0..MaxN /\ lag[p] \in 0..MaxLag /\ passed[p] <= n[p] + lag[p]
  BY DEF ClockInv, ClockTypeOK, Sleeper
<1>q. QED BY <1>1, Widths

\* clockintr() preserves ClockInv: sleepers become runnable, the others were late by lag.
LEMMA clockintrStep ==
  ASSUME ClockInv, clockintr
  PROVE  ClockInv'
<1>1. ClockTypeOK /\ ticks' \in 0..UINT - 1 /\ (ticks' = ticks + 1 \/ ticks' = ticks + 1 - UINT)
  BY TickStep DEF ClockInv, ClockTypeOK, clockintr
<1>2. /\ place' = [p \in Proc |-> Woken(place[p])] /\ lock = None
      /\ passed' = [p \in Proc |-> IF place[p] = "out" \/ passed[p] = UINT THEN passed[p] ELSE passed[p] + 1]
      /\ lag' = [p \in Proc |-> IF Running(p) THEN lag[p] + 1 ELSE 0]
      /\ UNCHANGED <<lock, n, ticks0, killed>>
      /\ \A p \in Proc : Running(p) => lag[p] < MaxLag
  BY DEF clockintr
<1>3. ClockTypeOK'
  <2>1. (place \in [Proc -> {"out", "loop", "tosleep", "sleep", "woken"}])'
    BY <1>1, <1>2 DEF ClockTypeOK, Woken
  <2>2. (passed \in [Proc -> 0..UINT])'
    BY <1>1, <1>2, Widths DEF ClockTypeOK
  <2>3. (lag \in [Proc -> 0..MaxLag])'
    BY <1>1, <1>2, Widths DEF ClockTypeOK
  <2>q. QED BY <1>1, <1>2, <2>1, <2>2, <2>3 DEF ClockTypeOK
<1>4. ASSUME NEW p \in Proc
      PROVE  place[p] \in {"out", "sleep", "woken"} /\ place'[p] \in {"out", "woken"} /\ (place'[p] = "out" <=> place[p] = "out")
  <2>1. place[p] \in {"out", "sleep", "woken"}
    BY <1>1, <1>2, Widths DEF ClockInv, ClockTypeOK
  <2>q. QED BY <1>2, <2>1 DEF Woken
<1>5. \A p \in Proc : (lock = p <=> place[p] \in {"loop", "tosleep"})'
  BY <1>2, <1>4, Widths
<1>6. \A p \in Proc : (place[p] \in {"out", "sleep"} => lag[p] = 0)'
  BY <1>2, <1>4 DEF Running
<1>7. ASSUME NEW p \in Proc, place[p] # "out"
      PROVE  Sleeper(p)'
  <2>1. /\ passed[p] < UINT /\ Sleeper(p) /\ passed[p] \in Nat /\ n[p] \in Nat /\ lag[p] \in Nat
        /\ ticks \in Nat /\ ticks0[p] \in 0..UINT - 1
    BY <1>1, <1>7, PassedFits, Widths DEF ClockInv, ClockTypeOK
  <2>2. passed'[p] = passed[p] + 1 /\ n'[p] = n[p] /\ ticks0'[p] = ticks0[p]
    BY <1>2, <1>7, <2>1
  <2>3. Elapsed(p)'
    BY <1>1, <2>1, <2>2, Widths DEF Sleeper, Elapsed
  <2>4. passed'[p] <= n'[p] + lag'[p]
    <3>1. CASE place[p] = "sleep"
      <4>1. lag'[p] = 0 /\ passed[p] < n[p]
        BY <1>2, <2>1, <3>1 DEF Running, Sleeper
      <4>q. QED BY <2>1, <2>2, <4>1
    <3>2. CASE place[p] = "woken"
      <4>1. lag'[p] = lag[p] + 1
        BY <1>2, <3>2 DEF Running
      <4>q. QED BY <2>1, <2>2, <4>1 DEF Sleeper
    <3>q. QED BY <1>4, <1>7, <3>1, <3>2
  <2>q. QED BY <1>4, <2>3, <2>4 DEF Sleeper
<1>q. QED BY <1>3, <1>4, <1>5, <1>6, <1>7 DEF ClockInv

\* Of a step that leaves the other processes alone, only p's part of ClockInv is to be shown.
LEMMA OwnStep ==
  ASSUME ClockInv, NEW p \in Proc, ClockTypeOK', ticks' = ticks,
         \A q \in Proc \ {p} : /\ place'[q] = place[q] /\ n'[q] = n[q] /\ ticks0'[q] = ticks0[q]
                               /\ passed'[q] = passed[q] /\ lag'[q] = lag[q]
                               /\ lock' = q <=> lock = q,
         (lock = p <=> place[p] \in {"loop", "tosleep"})',
         (place[p] \in {"out", "sleep"} => lag[p] = 0)',
         (place[p] # "out" => Sleeper(p))'
  PROVE  ClockInv'
<1>1. ASSUME NEW q \in Proc
      PROVE  (/\ lock = q <=> place[q] \in {"loop", "tosleep"}
              /\ place[q] \in {"out", "sleep"} => lag[q] = 0
              /\ place[q] # "out" => Sleeper(q))'
  <2>1. CASE q = p
    BY <2>1
  <2>2. CASE q # p
    BY <2>2 DEF ClockInv, Sleeper, Elapsed
  <2>q. QED BY <2>1, <2>2
<1>q. QED BY <1>1 DEF ClockInv

\* The beginning of sys_sleep() preserves ClockInv: no tick has passed.
LEMMA sys_sleepStep ==
  ASSUME ClockInv, NEW p \in Proc, sys_sleep(p)
  PROVE  ClockInv'
<1>1. ClockTypeOK /\ lock = None /\ place[p] = "out" /\ lag[p] = 0
  BY DEF ClockInv, sys_sleep
<1>2. PICK k \in -1..MaxN : n' = [n EXCEPT ![p] = IF k < 0 THEN 0 ELSE k]
  BY Zenon DEF sys_sleep
<1>3. /\ lock' = p /\ place' = [place EXCEPT ![p] = "loop"] /\ UNCHANGED <<ticks, killed, lag>>
      /\ ticks0' = [ticks0 EXCEPT ![p] = ticks] /\ passed' = [passed EXCEPT ![p] = 0]
  BY Zenon DEF sys_sleep
<1>4. ClockTypeOK'
  BY <1>1, <1>2, <1>3, Widths DEF ClockTypeOK
<1>5. (place[p] # "out" => Sleeper(p))'
  BY <1>1, <1>2, <1>3, Widths DEF ClockTypeOK, Sleeper, Elapsed
<1>q. QED BY <1>1, <1>2, <1>3, <1>4, <1>5, OwnStep, Widths DEF ClockTypeOK

\* A turn of sys_sleep()'s loop preserves ClockInv: it goes to sleep only with time left.
LEMMA loopStep ==
  ASSUME ClockInv, NEW p \in Proc, loop(p)
  PROVE  ClockInv'
<1>1. ClockTypeOK /\ lock = p /\ place[p] = "loop" /\ Sleeper(p) /\ ticks' = ticks
  BY DEF ClockInv, loop
<1>2. CASE Early(p) /\ p \notin killed
  <2>1. place' = [place EXCEPT ![p] = "tosleep"] /\ UNCHANGED <<ticks, lock, n, ticks0, passed, killed, lag>>
    BY <1>2 DEF loop, local
  <2>2. passed[p] < n[p]
    BY <1>1, <1>2, EarlyExact, PassedFits DEF Sleeper
  <2>3. ClockTypeOK'
    BY <1>1, <2>1 DEF ClockTypeOK
  <2>4. Sleeper(p)'
    BY <1>1, <2>1, <2>2 DEF Sleeper, Elapsed
  <2>q. QED BY <1>1, <2>1, <2>3, <2>4, OwnStep DEF ClockTypeOK
<1>3. CASE ~(Early(p) /\ p \notin killed)
  <2>1. /\ lock' = None /\ place' = [place EXCEPT ![p] = "out"] /\ killed' = killed \ {p}
        /\ n' = [n EXCEPT ![p] = 0] /\ ticks0' = [ticks0 EXCEPT ![p] = 0]
        /\ passed' = [passed EXCEPT ![p] = 0] /\ lag' = [lag EXCEPT ![p] = 0]
    BY <1>3 DEF loop
  <2>2. ClockTypeOK'
    BY <1>1, <2>1, Widths DEF ClockTypeOK
  <2>q. QED BY <1>1, <2>1, <2>2, OwnStep, Widths DEF ClockTypeOK
<1>q. QED BY <1>2, <1>3

\* sleep() preserves ClockInv.
LEMMA sleepStep ==
  ASSUME ClockInv, NEW p \in Proc, sleep(p)
  PROVE  ClockInv'
<1>1. ClockTypeOK /\ lock = p /\ place[p] = "tosleep" /\ Sleeper(p) /\ passed[p] < n[p]
  BY DEF ClockInv, sleep, Sleeper
<1>2. /\ lock' = None /\ place' = [place EXCEPT ![p] = "sleep"] /\ lag' = [lag EXCEPT ![p] = 0]
      /\ UNCHANGED <<ticks, n, ticks0, passed, killed>>
  BY DEF sleep, local
<1>3. ClockTypeOK'
  BY <1>1, <1>2, Widths DEF ClockTypeOK
<1>4. Sleeper(p)'
  BY <1>1, <1>2, Widths DEF Sleeper, Elapsed, ClockTypeOK
<1>q. QED BY <1>1, <1>2, <1>3, <1>4, OwnStep, Widths DEF ClockTypeOK

\* The end of sleep() preserves ClockInv.
LEMMA wakeStep ==
  ASSUME ClockInv, NEW p \in Proc, wake(p)
  PROVE  ClockInv'
<1>1. ClockTypeOK /\ lock = None /\ place[p] = "woken" /\ Sleeper(p)
  BY DEF ClockInv, wake
<1>2. lock' = p /\ place' = [place EXCEPT ![p] = "loop"] /\ UNCHANGED <<ticks, n, ticks0, passed, killed, lag>>
  BY DEF wake, local
<1>3. ClockTypeOK'
  BY <1>1, <1>2 DEF ClockTypeOK
<1>4. Sleeper(p)'
  BY <1>1, <1>2 DEF Sleeper, Elapsed, ClockTypeOK
<1>q. QED BY <1>1, <1>2, <1>3, <1>4, OwnStep, Widths DEF ClockTypeOK

\* kill() preserves ClockInv: a sleeper that it wakes has time left.
LEMMA killStep ==
  ASSUME ClockInv, NEW p \in Proc, kill(p)
  PROVE  ClockInv'
<1>1. ClockTypeOK /\ place[p] # "out" /\ Sleeper(p) /\ (lock = p <=> place[p] \in {"loop", "tosleep"})
  BY DEF ClockInv, kill
<1>2. /\ place' = [place EXCEPT ![p] = Woken(place[p])] /\ killed' = killed \cup {p}
      /\ UNCHANGED <<ticks, lock, n, ticks0, passed, lag>>
  BY DEF kill, local
<1>3. place'[p] = Woken(place[p]) /\ place'[p] \notin {"out", "sleep"} /\ Woken(place[p]) \in {"loop", "tosleep", "woken"}
  BY <1>1, <1>2 DEF ClockTypeOK, Woken
<1>4. ClockTypeOK'
  BY <1>1, <1>2, <1>3 DEF ClockTypeOK
<1>5. Sleeper(p)'
  BY <1>1, <1>2, <1>3 DEF Sleeper, Elapsed, ClockTypeOK, Woken
<1>6. (lock = p <=> place[p] \in {"loop", "tosleep"})'
  BY <1>1, <1>2, <1>3 DEF Woken
<1>q. QED BY <1>1, <1>2, <1>3, <1>4, <1>5, <1>6, OwnStep DEF ClockTypeOK

\* ClockInv holds of every reachable state of clockintr() and sys_sleep().
THEOREM ClockInvariance == ClockSpec => []ClockInv
<1>1. ClockInit => ClockInv
  <2>1. SUFFICES ASSUME ClockInit PROVE ClockInv
    OBVIOUS
  <2>2. ClockTypeOK
    BY <2>1, Widths DEF ClockInit, ClockTypeOK
  <2>q. QED BY <2>1, <2>2, Widths DEF ClockInit, ClockInv
<1>2. ClockInv /\ [ClockNext]_clockvars => ClockInv'
  <2>1. SUFFICES ASSUME ClockInv, [ClockNext]_clockvars PROVE ClockInv'
    OBVIOUS
  <2>2. CASE UNCHANGED clockvars
    BY <2>1, <2>2 DEF clockvars, local, ClockInv, ClockTypeOK, Sleeper, Elapsed
  <2>3. CASE clockintr
    BY <2>1, <2>3, clockintrStep
  <2>4. CASE \E p \in Proc : sys_sleep(p) \/ loop(p) \/ sleep(p) \/ wake(p) \/ kill(p)
    BY <2>1, <2>4, sys_sleepStep, loopStep, sleepStep, wakeStep, killStep
  <2>q. QED BY <2>1, <2>2, <2>3, <2>4 DEF ClockNext
<1>q. QED BY <1>1, <1>2, PTL DEF ClockSpec

\* Every variable of the clock and of sys_sleep() keeps its type: ticks stays within its
\* width, and the wait for a CPU within MaxLag.
THEOREM ClockTypeCorrect == ClockSpec => []ClockTypeOK
<1>1. ClockInv => ClockTypeOK
  BY DEF ClockInv
<1>q. QED BY <1>1, ClockInvariance, PTL

\* sys_sleep(n) returns after n ticks at least and, but for kill() and the wait for a CPU,
\* at once then, wherever in its range the counter was when the call began.
THEOREM OnTimeHolds == ClockSpec => OnTime
<1>1. ASSUME ClockInv, [ClockNext]_clockvars
      PROVE  [\A p \in Proc : Leaves(p) /\ p \notin killed => passed[p] \in n[p]..n[p] + MaxLag]_clockvars
  <2>1. SUFFICES ASSUME ClockNext, NEW p \in Proc, Leaves(p), p \notin killed
                 PROVE  passed[p] \in n[p]..n[p] + MaxLag
    BY <1>1
  <2>2. /\ ClockTypeOK /\ Sleeper(p) /\ place[p] = "loop" /\ place'[p] = "out" /\ passed[p] < UINT
        /\ lag[p] \in 0..MaxLag /\ n[p] \in Nat /\ passed[p] \in Nat
    BY <1>1, <2>1, PassedFits DEF ClockInv, Leaves, ClockTypeOK
  <2>3. ~Early(p)
    <3>1. ~clockintr
      BY <2>2 DEF clockintr, Woken
    <3>2. PICK q \in Proc : sys_sleep(q) \/ loop(q) \/ sleep(q) \/ wake(q) \/ kill(q)
      BY <2>1, <3>1 DEF ClockNext
    <3>3. loop(q) /\ q = p
      BY <2>2, <3>2 DEF sys_sleep, loop, sleep, wake, kill, Woken, ClockTypeOK
    <3>q. QED BY <2>1, <2>2, <3>3 DEF loop, ClockTypeOK
  <2>4. ~(passed[p] < n[p])
    BY <2>2, <2>3, EarlyExact DEF Sleeper
  <2>q. QED BY <2>2, <2>4, Widths DEF Sleeper
<1>q. QED BY <1>1, ClockInvariance, PTL DEF ClockSpec, OnTime

-----------------------------------------------------------------------------
\* The descriptors of file f, and the calls that have it in a local variable.
Held(f) == {x \in Proc \X Fd : ofile[x[1]][x[2]] = f}
Has(p, f) == \E k \in 1..Len(loc[p]) : loc[p][k] = f
InLoc(f) == \E p \in Proc : Has(p, f)

\* What a call has at each place.
LocOf(p) ==
  /\ Len(loc[p]) \in 0..2
  /\ Len(loc[p]) = 0 <=> pc[p] \in {"unused", "run", "exit"}
  /\ pc[p] \in {"open", "pipe"} => Len(loc[p]) = 1
  /\ pc[p] = "pipefd" => Len(loc[p]) = 2
  /\ Len(loc[p]) = 2 => loc[p][1] # loc[p][2]
LocInv == loc \in [Proc -> Seq(File)] /\ \A p \in Proc : LocOf(p)

\* A file that a call is making is the call's alone.
AloneInv == \A p, q \in Proc, f \in File : Has(p, f) /\ Has(q, f) => p = q
CountInv ==
  \A f \in File : IF InLoc(f) THEN ref[f] = 1 /\ Held(f) = {} ELSE ref[f] = Cardinality(Held(f))

UnusedInv == \A p \in Proc, fd \in Fd : pc[p] = "unused" => ofile[p][fd] = None
FreeInv == \A f \in File : ref[f] = 0 => obj[f] = None

\* A file is filled in before it has a descriptor.
HalfInv == \A p \in Proc : pc[p] \in {"open", "pipe"} => obj[loc[p][1]] = None
FullInv == \A p \in Proc : pc[p] = "pipefd" => obj[loc[p][1]] # None /\ obj[loc[p][2]] # None

\* The objects l have one place each, among the files' o and the pending releases r.
Own(o, r, l) ==
  /\ \A f, g \in File : o[f] = o[g] /\ o[f] # None => f = g
  /\ \A p, q \in Proc : r[p] = r[q] /\ r[p] # None => p = q
  /\ \A f \in File, p \in Proc : o[f] # None => o[f] # r[p]
  /\ \A f \in File : o[f] # None => o[f] \in l
  /\ \A p \in Proc : r[p] # None => r[p] \in l
  /\ \A e \in l : (\E f \in File : o[f] = e) \/ (\E p \in Proc : r[p] = e)

IInv ==
  /\ FileTableAssumption
  /\ TypeOK /\ LocInv /\ AloneInv /\ CountInv /\ UnusedInv /\ FreeInv /\ HalfInv /\ FullInv
  /\ FdReady /\ Own(obj, pend, live)

-----------------------------------------------------------------------------
(* Files, descriptors and the calls' variables                             *)

\* The types of the variables, and that None is neither a file nor an object.
LEMMA Types ==
  ASSUME IInv
  PROVE  /\ FileTableAssumption /\ None \notin File /\ None \notin Obj \X End
         /\ ref \in [File -> Nat] /\ obj \in [File -> (Obj \X End) \cup {None}]
         /\ ofile \in [Proc -> [Fd -> File \cup {None}]]
         /\ pc \in [Proc -> {"unused", "run", "open", "pipe", "pipefd", "undo", "exit"}]
         /\ pend \in [Proc -> (Obj \X End) \cup {None}] /\ live \subseteq Obj \X End
         /\ loc \in [Proc -> Seq(File)]
BY Zenon DEF IInv, TypeOK, LocInv, FileTableAssumption

\* Sets of descriptors, counted.
LEMMA HeldSets ==
  ASSUME FileTableAssumption, NEW S, S \subseteq Proc \X Fd
  PROVE  /\ IsFiniteSet(S) /\ Cardinality(S) \in Nat
         /\ Cardinality(S) = 0 <=> S = {}
         /\ \A x \in S : Cardinality(S \ {x}) = Cardinality(S) - 1
         /\ \A x : x \notin S => Cardinality(S \cup {x}) = Cardinality(S) + 1
<1>1. IsFiniteSet(Fd)
  BY FS_Interval DEF FileTableAssumption, Fd
<1>2. IsFiniteSet(Proc \X Fd)
  BY <1>1, FS_Product DEF FileTableAssumption
<1>3. IsFiniteSet(S)
  BY <1>2, FS_Subset
<1>4. Cardinality(S) \in Nat
  BY <1>3, FS_CardinalityType
<1>5. Cardinality(S) = 0 <=> S = {}
  BY <1>3, FS_EmptySet
<1>6. \A x \in S : Cardinality(S \ {x}) = Cardinality(S) - 1
  BY Zenon, <1>3, FS_RemoveElement
<1>7. \A x : x \notin S => Cardinality(S \cup {x}) = Cardinality(S) + 1
  BY Zenon, <1>3, FS_AddElement
<1>q. QED BY Zenon, <1>3, <1>4, <1>5, <1>6, <1>7

\* The first free file or descriptor is one.
LEMMA MinIn ==
  ASSUME NEW S \in SUBSET Nat, S # {}
  PROVE  Min(S) \in S
<1>1. PICK m \in S : \A j \in S : ~(<<j, m>> \in OpToRel(<, Nat))
  BY Zenon, NatLessThanWellFounded, WFMin
<1>2. \A j \in S : m <= j
  <2>1. OpToRel(<, Nat) = {ss \in Nat \X Nat : ss[1] < ss[2]}
    BY Zenon DEF OpToRel
  <2>2. \A j \in S : ~(j < m)
    BY Zenon, <1>1, <2>1
  <2>3. \A j \in S : j \in Nat /\ m \in Nat
    BY Zenon
  <2>q. QED BY <2>2, <2>3
<1>q. QED BY Zenon, <1>2 DEF Min

\* filealloc() finds a free file and fdalloc() a free descriptor, if there is one.
LEMMA FirstFree ==
  ASSUME IInv
  PROVE  /\ Free # {} => Min(Free) \in File /\ ref[Min(Free)] = 0
         /\ \A p \in Proc : FreeFd(p) # {} => Min(FreeFd(p)) \in Fd /\ ofile[p][Min(FreeFd(p))] = None
         /\ \A p \in Proc : FreeFd(p) # Fd =>
              Min(Fd \ FreeFd(p)) \in Fd /\ ofile[p][Min(Fd \ FreeFd(p))] \in File
<1>1. File \subseteq Nat /\ Fd \subseteq Nat
  BY DEF File, Fd
<1>2. Free # {} => Min(Free) \in Free
  BY Zenon, <1>1, MinIn DEF Free
<1>3. \A p \in Proc : FreeFd(p) # {} => Min(FreeFd(p)) \in FreeFd(p)
  BY Zenon, <1>1, MinIn DEF FreeFd
<1>4. ASSUME NEW p \in Proc, FreeFd(p) # Fd
      PROVE  Min(Fd \ FreeFd(p)) \in Fd \ FreeFd(p)
  <2>1. Fd \ FreeFd(p) # {} /\ Fd \ FreeFd(p) \in SUBSET Nat
    BY Zenon, <1>1, <1>4 DEF FreeFd
  <2>q. QED BY Zenon, <2>1, MinIn
<1>5. Free # {} => Min(Free) \in File /\ ref[Min(Free)] = 0
  BY Zenon, <1>2 DEF Free
<1>6. \A p \in Proc : FreeFd(p) # {} => Min(FreeFd(p)) \in Fd /\ ofile[p][Min(FreeFd(p))] = None
  BY Zenon, <1>3 DEF FreeFd
<1>7. ASSUME NEW p \in Proc, FreeFd(p) # Fd
      PROVE  Min(Fd \ FreeFd(p)) \in Fd /\ ofile[p][Min(Fd \ FreeFd(p))] \in File
  <2>1. PICK d \in Fd : d = Min(Fd \ FreeFd(p)) /\ d \notin FreeFd(p)
    BY Zenon, <1>4, <1>7
  <2>2. ofile[p][d] # None
    BY Zenon, <2>1 DEF FreeFd
  <2>3. ofile[p][d] \in File \cup {None}
    BY Types
  <2>q. QED BY Zenon, <2>1, <2>2, <2>3
<1>q. QED BY Zenon, <1>5, <1>6, <1>7

\* A sequence of at most two files, and what is in it.
LEMMA Short ==
  ASSUME NEW s \in Seq(File), Len(s) \in 0..2
  PROVE  /\ Len(s) = 0 => s = <<>> /\ \A f : ~ \E k \in 1..Len(s) : s[k] = f
         /\ Len(s) = 1 => /\ s[1] \in File /\ s = <<s[1]>>
                          /\ \A f : (\E k \in 1..Len(s) : s[k] = f) <=> f = s[1]
         /\ Len(s) = 2 => /\ s[1] \in File /\ s[2] \in File
                          /\ \A f : (\E k \in 1..Len(s) : s[k] = f) <=> f = s[1] \/ f = s[2]
<1>1. CASE Len(s) = 0
  BY <1>1
<1>2. CASE Len(s) = 1
  <2>1. s[1] \in File /\ s = <<s[1]>>
    BY <1>2
  <2>2. 1..Len(s) = {1}
    BY <1>2
  <2>q. QED BY <1>2, <2>1, <2>2
<1>3. CASE Len(s) = 2
  <2>1. 1..2 = {1, 2} /\ \A k \in 1..Len(s) : s[k] \in File
    OBVIOUS
  <2>2. 1..Len(s) = {1, 2}
    BY Zenon, <1>3, <2>1
  <2>3. s[1] \in File /\ s[2] \in File
    BY Zenon, <2>1, <2>2
  <2>q. QED BY <1>3, <2>2, <2>3
<1>q. QED BY <1>1, <1>2, <1>3

\* What a call has in its variables, by its place.
LEMMA Locals ==
  ASSUME IInv, NEW p \in Proc
  PROVE  /\ pc[p] \in {"unused", "run", "exit"} => loc[p] = <<>> /\ \A f : ~Has(p, f)
         /\ pc[p] \in {"open", "pipe"} =>
              loc[p][1] \in File /\ loc[p] = <<loc[p][1]>> /\ \A f : Has(p, f) <=> f = loc[p][1]
         /\ pc[p] = "pipefd" =>
              /\ loc[p][1] \in File /\ loc[p][2] \in File /\ loc[p][1] # loc[p][2]
              /\ \A f : Has(p, f) <=> f = loc[p][1] \/ f = loc[p][2]
         /\ pc[p] = "undo" =>
              /\ loc[p][1] \in File
              /\ \/ Len(loc[p]) = 1 /\ \A f : Has(p, f) <=> f = loc[p][1]
                 \/ /\ Len(loc[p]) = 2 /\ loc[p][2] \in File /\ loc[p][1] # loc[p][2]
                    /\ \A f : Has(p, f) <=> f = loc[p][1] \/ f = loc[p][2]
<1>1. /\ loc[p] \in Seq(File) /\ Len(loc[p]) \in 0..2
      /\ Len(loc[p]) = 0 <=> pc[p] \in {"unused", "run", "exit"}
      /\ pc[p] \in {"open", "pipe"} => Len(loc[p]) = 1
      /\ pc[p] = "pipefd" => Len(loc[p]) = 2
      /\ Len(loc[p]) = 2 => loc[p][1] # loc[p][2]
  BY Zenon DEF IInv, LocInv, LocOf
<1>2. /\ Len(loc[p]) = 0 => loc[p] = <<>> /\ \A f : ~Has(p, f)
      /\ Len(loc[p]) = 1 => /\ loc[p][1] \in File /\ loc[p] = <<loc[p][1]>>
                            /\ \A f : Has(p, f) <=> f = loc[p][1]
      /\ Len(loc[p]) = 2 => /\ loc[p][1] \in File /\ loc[p][2] \in File
                                    /\ \A f : Has(p, f) <=> f = loc[p][1] \/ f = loc[p][2]
  BY Zenon, <1>1, Short DEF Has
<1>3. Len(loc[p]) = 0 \/ Len(loc[p]) = 1 \/ Len(loc[p]) = 2
  BY <1>1
<1>4. pc[p] \in {"unused", "run", "exit"} => loc[p] = <<>> /\ \A f : ~Has(p, f)
  BY Zenon, <1>1, <1>2
<1>5. pc[p] \in {"open", "pipe"} =>
        loc[p][1] \in File /\ loc[p] = <<loc[p][1]>> /\ \A f : Has(p, f) <=> f = loc[p][1]
  BY Zenon, <1>1, <1>2
<1>6. pc[p] = "pipefd" =>
        /\ loc[p][1] \in File /\ loc[p][2] \in File /\ loc[p][1] # loc[p][2]
        /\ \A f : Has(p, f) <=> f = loc[p][1] \/ f = loc[p][2]
  BY Zenon, <1>1, <1>2
<1>7. pc[p] = "undo" => Len(loc[p]) # 0
  BY <1>1
<1>q. QED BY Zenon, <1>1, <1>2, <1>3, <1>4, <1>5, <1>6, <1>7

\* A file has descriptors, or is in one call's variable, or is free.
LEMMA Uses ==
  ASSUME IInv
  PROVE  /\ \A p \in Proc, fd \in Fd, f \in File : ofile[p][fd] = f =>
              ~InLoc(f) /\ ref[f] = Cardinality(Held(f)) /\ ref[f] > 0 /\ <<p, fd>> \in Held(f)
         /\ \A f \in File : ref[f] = 0 => ~InLoc(f) /\ Held(f) = {} /\ obj[f] = None
         /\ \A p \in Proc, f \in File : Has(p, f) => ref[f] = 1 /\ Held(f) = {}
<1>1. \A f \in File : Held(f) \subseteq Proc \X Fd
  BY Zenon DEF Held
<1>2. \A f \in File : Cardinality(Held(f)) = 0 <=> Held(f) = {}
  BY Zenon, <1>1, HeldSets, Types
<1>3. ASSUME NEW p \in Proc, NEW fd \in Fd, NEW f \in File, ofile[p][fd] = f
      PROVE  ~InLoc(f) /\ ref[f] = Cardinality(Held(f)) /\ ref[f] > 0 /\ <<p, fd>> \in Held(f)
  <2>1. <<p, fd>> \in Held(f)
    BY <1>3 DEF Held
  <2>2. ~InLoc(f) /\ ref[f] = Cardinality(Held(f))
    BY Zenon, <2>1 DEF IInv, CountInv
  <2>3. ref[f] # 0 /\ ref[f] \in Nat
    BY Zenon, <1>2, <2>1, <2>2, Types
  <2>4. ref[f] > 0
    BY <2>3
  <2>q. QED BY Zenon, <2>1, <2>2, <2>4
<1>4. ASSUME NEW f \in File, ref[f] = 0
      PROVE  ~InLoc(f) /\ Held(f) = {} /\ obj[f] = None
  <2>1. ~InLoc(f) /\ ref[f] = Cardinality(Held(f))
    BY <1>4 DEF IInv, CountInv
  <2>q. QED BY Zenon, <1>2, <1>4, <2>1 DEF IInv, FreeInv
<1>5. \A p \in Proc, f \in File : Has(p, f) => ref[f] = 1 /\ Held(f) = {}
  BY Zenon DEF IInv, CountInv, InLoc
<1>q. QED BY Zenon, <1>3, <1>4, <1>5

\* A file that a call is making has no descriptor yet.
LEMMA InCall ==
  ASSUME IInv, NEW p \in Proc, NEW f \in File, Has(p, f)
  PROVE  ref[f] = 1 /\ Held(f) = {}
BY Zenon, Uses

-----------------------------------------------------------------------------
(* Objects and their places                                                *)

\* A new object is put into a file that had none.
LEMMA OwnNew ==
  ASSUME NEW o \in [File -> (Obj \X End) \cup {None}], NEW r \in [Proc -> (Obj \X End) \cup {None}],
         NEW l, None \notin l, Own(o, r, l),
         NEW f \in File, o[f] = None, NEW e, e # None, e \notin l
  PROVE  Own([o EXCEPT ![f] = e], r, l \cup {e})
<1> DEFINE m == [o EXCEPT ![f] = e]
<1>1. m[f] = e /\ \A g \in File \ {f} : m[g] = o[g]
  BY Zenon
<1> HIDE DEF m
<1>2. /\ \A g \in File : o[g] # None => o[g] # e
      /\ \A p \in Proc : r[p] # None => r[p] # e
  BY Zenon DEF Own
<1>3. \A g, h \in File : m[g] = m[h] /\ m[g] # None => g = h
  <2>1. ASSUME NEW g \in File, NEW h \in File, m[g] = m[h], m[g] # None
        PROVE  g = h
    <3>1. CASE g # f /\ h # f
      BY <1>1, <2>1, <3>1 DEF Own
    <3>2. CASE g = f \/ h = f
      BY Zenon, <1>1, <1>2, <2>1, <3>2
    <3>q. QED BY Zenon, <3>1, <3>2
  <2>q. QED BY Zenon, <2>1
<1>4. \A g \in File, p \in Proc : m[g] # None => m[g] # r[p]
  <2>1. ASSUME NEW g \in File, NEW p \in Proc, m[g] # None
        PROVE  m[g] # r[p]
    <3>1. CASE g = f
      BY Zenon, <1>1, <1>2, <2>1, <3>1
    <3>2. CASE g # f
      BY <1>1, <2>1, <3>2 DEF Own
    <3>q. QED BY Zenon, <3>1, <3>2
  <2>q. QED BY Zenon, <2>1
<1>5. \A g \in File : m[g] # None => m[g] \in l \cup {e}
  BY Zenon, <1>1 DEF Own
<1>6. \A d \in l \cup {e} : (\E g \in File : m[g] = d) \/ (\E p \in Proc : r[p] = d)
  <2>1. ASSUME NEW d \in l \cup {e}
        PROVE  (\E g \in File : m[g] = d) \/ (\E p \in Proc : r[p] = d)
    <3>1. CASE d = e
      BY Zenon, <1>1, <3>1
    <3>2. CASE d # e
      <4>1. CASE \E p \in Proc : r[p] = d
        BY Zenon, <4>1
      <4>2. CASE \E g \in File : o[g] = d
        <5>1. PICK g \in File : o[g] = d
          BY Zenon, <4>2
        <5>2. CASE g = f
          BY Zenon, <2>1, <3>2, <5>1, <5>2
        <5>3. CASE g # f
          BY Zenon, <1>1, <5>1, <5>3
        <5>q. QED BY Zenon, <5>2, <5>3
      <4>q. QED BY Zenon, <2>1, <3>2, <4>1, <4>2 DEF Own
    <3>q. QED BY Zenon, <3>1, <3>2
  <2>q. QED BY Zenon, <2>1
<1>7. \A p, q \in Proc : r[p] = r[q] /\ r[p] # None => p = q
  BY Zenon DEF Own
<1>8. \A p \in Proc : r[p] # None => r[p] \in l \cup {e}
  BY Zenon DEF Own
<1>9. Own(m, r, l \cup {e})
  BY Zenon, <1>3, <1>4, <1>5, <1>6, <1>7, <1>8 DEF Own
<1>q. QED BY Zenon, <1>9 DEF m

\* fileclose()'s last reference: the object goes from the file to the caller.
LEMMA OwnMove ==
  ASSUME NEW o \in [File -> (Obj \X End) \cup {None}], NEW r \in [Proc -> (Obj \X End) \cup {None}],
         NEW l, None \notin l, Own(o, r, l), NEW f \in File, NEW p \in Proc, r[p] = None
  PROVE  Own([o EXCEPT ![f] = None], [r EXCEPT ![p] = o[f]], l)
<1> DEFINE m == [o EXCEPT ![f] = None]
           s == [r EXCEPT ![p] = o[f]]
<1>1. /\ m[f] = None /\ \A g \in File \ {f} : m[g] = o[g]
      /\ s[p] = o[f] /\ \A q \in Proc \ {p} : s[q] = r[q]
  BY Zenon
<1> HIDE DEF m, s
<1>2. \A g, h \in File : m[g] = m[h] /\ m[g] # None => g = h
  BY <1>1 DEF Own
<1>3. \A q, t \in Proc : s[q] = s[t] /\ s[q] # None => q = t
  <2>1. ASSUME NEW q \in Proc, NEW t \in Proc, s[q] = s[t], s[q] # None
        PROVE  q = t
    <3>1. CASE q # p /\ t # p
      BY <1>1, <2>1, <3>1 DEF Own
    <3>2. CASE q = p /\ t # p
      BY <1>1, <2>1, <3>2 DEF Own
    <3>3. CASE q # p /\ t = p
      BY <1>1, <2>1, <3>3 DEF Own
    <3>q. QED BY Zenon, <3>1, <3>2, <3>3
  <2>q. QED BY Zenon, <2>1
<1>4. \A g \in File, q \in Proc : m[g] # None => m[g] # s[q]
  <2>1. ASSUME NEW g \in File, NEW q \in Proc, m[g] # None, m[g] = s[q]
        PROVE  FALSE
    <3>1. g # f /\ m[g] = o[g]
      BY Zenon, <1>1, <2>1
    <3>2. CASE q = p
      <4>1. o[g] = o[f] /\ o[g] # None
        BY Zenon, <1>1, <2>1, <3>1, <3>2
      <4>q. QED BY Zenon, <3>1, <4>1 DEF Own
    <3>3. CASE q # p
      <4>1. o[g] = r[q] /\ o[g] # None
        BY Zenon, <1>1, <2>1, <3>1, <3>3
      <4>q. QED BY Zenon, <4>1 DEF Own
    <3>q. QED BY Zenon, <3>2, <3>3
  <2>q. QED BY Zenon, <2>1
<1>5. \A g \in File : m[g] # None => m[g] \in l
  BY Zenon, <1>1 DEF Own
<1>6. \A q \in Proc : s[q] # None => s[q] \in l
  BY Zenon, <1>1 DEF Own
<1>7. \A d \in l : (\E g \in File : m[g] = d) \/ (\E q \in Proc : s[q] = d)
  <2>1. ASSUME NEW d \in l
        PROVE  (\E g \in File : m[g] = d) \/ (\E q \in Proc : s[q] = d)
    <3>1. CASE \E g \in File : o[g] = d
      BY Zenon, <1>1, <3>1
    <3>2. CASE \E q \in Proc : r[q] = d
      BY Zenon, <1>1, <2>1, <3>2
    <3>q. QED BY Zenon, <2>1, <3>1, <3>2 DEF Own
  <2>q. QED BY Zenon, <2>1
<1>8. Own(m, s, l)
  BY Zenon, <1>2, <1>3, <1>4, <1>5, <1>6, <1>7 DEF Own
<1>q. QED BY Zenon, <1>8 DEF m, s

\* pipeclose() or iput(): the object is gone.
LEMMA OwnRelease ==
  ASSUME NEW o \in [File -> (Obj \X End) \cup {None}], NEW r \in [Proc -> (Obj \X End) \cup {None}],
         NEW l, None \notin l, Own(o, r, l), NEW p \in Proc, r[p] # None
  PROVE  Own(o, [r EXCEPT ![p] = None], l \ {r[p]})
<1> DEFINE s == [r EXCEPT ![p] = None]
<1>1. s[p] = None /\ \A q \in Proc \ {p} : s[q] = r[q]
  BY Zenon
<1> HIDE DEF s
<1>2. \A g, h \in File : o[g] = o[h] /\ o[g] # None => g = h
  BY Zenon DEF Own
<1>3. \A q, t \in Proc : s[q] = s[t] /\ s[q] # None => q = t
  BY <1>1 DEF Own
<1>4. \A g \in File, q \in Proc : o[g] # None => o[g] # s[q]
  BY <1>1 DEF Own
<1>5. \A g \in File : o[g] # None => o[g] \in l \ {r[p]}
  BY Zenon DEF Own
<1>6. \A q \in Proc : s[q] # None => s[q] \in l \ {r[p]}
  BY <1>1 DEF Own
<1>7. \A d \in l \ {r[p]} : (\E g \in File : o[g] = d) \/ (\E q \in Proc : s[q] = d)
  <2>1. ASSUME NEW d \in l, d # r[p]
        PROVE  (\E g \in File : o[g] = d) \/ (\E q \in Proc : s[q] = d)
    <3>1. CASE \E g \in File : o[g] = d
      BY Zenon, <3>1
    <3>2. CASE \E q \in Proc : r[q] = d
      BY Zenon, <1>1, <2>1, <3>2
    <3>q. QED BY Zenon, <2>1, <3>1, <3>2 DEF Own
  <2>q. QED BY Zenon, <2>1
<1>8. Own(o, s, l \ {r[p]})
  BY Zenon, <1>2, <1>3, <1>4, <1>5, <1>6, <1>7 DEF Own
<1>q. QED BY Zenon, <1>8 DEF s

-----------------------------------------------------------------------------
(* Steps                                                                   *)

\* A step changes the variables of one process, and no file that another is making.
LEMMA CallStep ==
  ASSUME IInv, NEW p \in Proc, TypeOK', loc' \in [Proc -> Seq(File)], LocOf(p)',
         \A q \in Proc \ {p} : pc'[q] = pc[q] /\ loc'[q] = loc[q] /\ ofile'[q] = ofile[q],
         \A fd \in Fd : pc'[p] = "unused" => ofile'[p][fd] = None,
         \A q \in Proc \ {p}, f \in File : Has(q, f) => obj'[f] = obj[f],
         pc'[p] \in {"open", "pipe"} => obj'[loc'[p][1]] = None,
         pc'[p] = "pipefd" => obj'[loc'[p][1]] # None /\ obj'[loc'[p][2]] # None,
         AloneInv', CountInv', FreeInv', FdReady', Own(obj', pend', live')
  PROVE  IInv'
<1>1. LocInv'
  <2>1. \A q \in Proc \ {p} : LocOf(q)'
    BY DEF IInv, LocInv, LocOf
  <2>q. QED BY Zenon, <2>1 DEF LocInv
<1>2. UnusedInv'
  BY DEF IInv, UnusedInv
<1>3. HalfInv'
  <2>1. ASSUME NEW q \in Proc \ {p}, pc[q] \in {"open", "pipe"}
        PROVE  obj'[loc'[q][1]] = None
    <3>1. loc[q][1] \in File /\ Has(q, loc[q][1])
      BY Zenon, <2>1, Locals
    <3>2. obj'[loc[q][1]] = obj[loc[q][1]] /\ loc'[q] = loc[q]
      BY Zenon, <3>1
    <3>q. QED BY Zenon, <2>1, <3>2 DEF IInv, HalfInv
  <2>q. QED BY Zenon, <2>1 DEF HalfInv
<1>4. FullInv'
  <2>1. ASSUME NEW q \in Proc \ {p}, pc[q] = "pipefd"
        PROVE  obj'[loc'[q][1]] # None /\ obj'[loc'[q][2]] # None
    <3>1. /\ loc[q][1] \in File /\ Has(q, loc[q][1])
          /\ loc[q][2] \in File /\ Has(q, loc[q][2])
      BY Zenon, <2>1, Locals
    <3>2. /\ obj'[loc[q][1]] = obj[loc[q][1]] /\ obj'[loc[q][2]] = obj[loc[q][2]]
          /\ loc'[q] = loc[q]
      BY Zenon, <3>1
    <3>q. QED BY <2>1, <3>2 DEF IInv, FullInv
  <2>q. QED BY Zenon, <2>1 DEF FullInv
<1>5. FileTableAssumption' /\ Own(obj, pend, live)'
  BY Zenon DEF IInv, FileTableAssumption, Own
<1>q. QED BY Zenon, <1>1, <1>2, <1>3, <1>4, <1>5 DEF IInv

\* Variables of the others are as they were.
LEMMA OthersHave ==
  ASSUME NEW q \in Proc, loc'[q] = loc[q]
  PROVE  \A f : Has(q, f)' <=> Has(q, f)
BY Zenon DEF Has

\* filealloc(): a free file becomes the call's.
LEMMA TakeFile ==
  ASSUME IInv, NEW p \in Proc, NEW f \in File, ref[f] = 0, ref' = [ref EXCEPT ![f] = 1],
         ofile' = ofile, \A q \in Proc \ {p} : loc'[q] = loc[q],
         \A g \in File : Has(p, g)' <=> Has(p, g) \/ g = f
  PROVE  AloneInv' /\ CountInv' /\ ref' \in [File -> Nat]
<1>1. ~InLoc(f) /\ Held(f) = {}
  BY Zenon, Uses
<1>2. \A q \in Proc \ {p}, g \in File : Has(q, g)' <=> Has(q, g)
  BY Zenon, OthersHave
<1>3. \A g \in File : Held(g)' = Held(g)
  BY Zenon DEF Held
<1>4. AloneInv'
  <2>1. ASSUME NEW q \in Proc, NEW r \in Proc, NEW g \in File, Has(q, g)', Has(r, g)'
        PROVE  q = r
    <3>1. CASE g = f
      BY Zenon, <1>1, <1>2, <2>1, <3>1 DEF InLoc
    <3>2. CASE g # f
      BY Zenon, <1>2, <2>1, <3>2 DEF IInv, AloneInv
    <3>q. QED BY Zenon, <3>1, <3>2
  <2>q. QED BY Zenon, <2>1 DEF AloneInv
<1>5. ref' \in [File -> Nat] /\ ref'[f] = 1 /\ \A g \in File \ {f} : ref'[g] = ref[g]
  <2>1. 1 \in Nat
    OBVIOUS
  <2>q. QED BY Zenon, <2>1, Types
<1>6. InLoc(f)' /\ \A g \in File \ {f} : InLoc(g)' <=> InLoc(g)
  BY Zenon, <1>2 DEF InLoc
<1>7. CountInv'
  <2>1. ASSUME NEW g \in File
        PROVE  IF InLoc(g)' THEN ref'[g] = 1 /\ Held(g)' = {} ELSE ref'[g] = Cardinality(Held(g)')
    <3>1. CASE g = f
      BY Zenon, <1>1, <1>3, <1>5, <1>6, <3>1
    <3>2. CASE g # f
      <4>1. IF InLoc(g) THEN ref[g] = 1 /\ Held(g) = {} ELSE ref[g] = Cardinality(Held(g))
        BY Zenon DEF IInv, CountInv
      <4>2. (InLoc(g)' <=> InLoc(g)) /\ ref'[g] = ref[g] /\ Held(g)' = Held(g)
        BY Zenon, <1>3, <1>5, <1>6, <3>2
      <4>q. QED BY Zenon, <4>1, <4>2
    <3>q. QED BY Zenon, <3>1, <3>2
  <2>q. QED BY Zenon, <2>1 DEF CountInv
<1>q. QED BY Zenon, <1>4, <1>5, <1>7

\* fdalloc(): a call's files become descriptors.
LEMMA GiveFiles ==
  ASSUME IInv, NEW p \in Proc, ref' = ref, \A q \in Proc \ {p} : loc'[q] = loc[q],
         \A g \in File : ~Has(p, g)',
         \A g \in File : Has(p, g) => \E x : Held(g)' = {x},
         \A g \in File : ~Has(p, g) => Held(g)' = Held(g)
  PROVE  AloneInv' /\ CountInv'
<1>1. \A q \in Proc \ {p}, g \in File : Has(q, g)' <=> Has(q, g)
  BY Zenon, OthersHave
<1>2. AloneInv'
  BY Zenon, <1>1 DEF IInv, AloneInv
<1>3. ASSUME NEW g \in File
      PROVE  IF InLoc(g)' THEN ref'[g] = 1 /\ Held(g)' = {} ELSE ref'[g] = Cardinality(Held(g)')
  <2>1. CASE Has(p, g)
    <3>1. ~InLoc(g)'
      BY Zenon, <1>1, <2>1 DEF IInv, AloneInv, InLoc
    <3>2. PICK x : Held(g)' = {x}
      BY Zenon, <2>1
    <3>3. Cardinality({x}) = 1
        BY Zenon, FS_Singleton
    <3>4. ref[g] = 1
      BY Zenon, <2>1, Uses
    <3>q. QED BY Zenon, <3>1, <3>2, <3>3, <3>4
  <2>2. CASE ~Has(p, g)
    <3>1. InLoc(g)' <=> InLoc(g)
      BY Zenon, <1>1, <2>2 DEF InLoc
    <3>2. IF InLoc(g) THEN ref[g] = 1 /\ Held(g) = {} ELSE ref[g] = Cardinality(Held(g))
      BY Zenon DEF IInv, CountInv
    <3>q. QED BY Zenon, <2>2, <3>1, <3>2
  <2>q. QED BY Zenon, <2>1, <2>2
<1>q. QED BY Zenon, <1>2, <1>3 DEF CountInv

\* Two sets of descriptors are equal when they have the same pairs.
LEMMA PairSets ==
  ASSUME NEW S, S \subseteq Proc \X Fd, NEW T, T \subseteq Proc \X Fd,
         \A q \in Proc, d \in Fd : <<q, d>> \in S <=> <<q, d>> \in T
  PROVE  S = T
OBVIOUS

\* Held, by its elements.
LEMMA HeldAt ==
  ASSUME NEW f
  PROVE  /\ Held(f) \subseteq Proc \X Fd
         /\ \A q \in Proc, d \in Fd : <<q, d>> \in Held(f) <=> ofile[q][d] = f
         /\ Held(f)' \subseteq Proc \X Fd
         /\ \A q \in Proc, d \in Fd : <<q, d>> \in Held(f)' <=> ofile'[q][d] = f
BY DEF Held

\* A free descriptor is set.
LEMMA SetFd ==
  ASSUME IInv, NEW p \in Proc, NEW fd \in Fd, ofile[p][fd] = None, NEW v \in File,
         ofile'[p][fd] = v, \A d \in Fd \ {fd} : ofile'[p][d] = ofile[p][d],
         \A q \in Proc \ {p} : ofile'[q] = ofile[q]
  PROVE  /\ <<p, fd>> \notin Held(v) /\ Held(v)' = Held(v) \cup {<<p, fd>>}
         /\ \A g \in File : g # v => Held(g)' = Held(g)
<1>1. /\ ofile'[p][fd] = v /\ \A d \in Fd \ {fd} : ofile'[p][d] = ofile[p][d]
      /\ \A q \in Proc \ {p} : ofile'[q] = ofile[q]
  OBVIOUS
<1>2. <<p, fd>> \notin Held(v)
  BY HeldAt, Types
<1>3. Held(v)' = Held(v) \cup {<<p, fd>>}
  <2>1. Held(v)' \subseteq Proc \X Fd /\ Held(v) \cup {<<p, fd>>} \subseteq Proc \X Fd
    BY HeldAt
  <2>2. ASSUME NEW q \in Proc, NEW d \in Fd
        PROVE  <<q, d>> \in Held(v)' <=> <<q, d>> \in Held(v) \cup {<<p, fd>>}
    <3>1. CASE q = p /\ d = fd
      BY Zenon, <1>1, <3>1, HeldAt
    <3>2. CASE ~(q = p /\ d = fd)
      <4>1. ofile'[q][d] = ofile[q][d] /\ <<q, d>> # <<p, fd>>
        BY <1>1, <3>2
      <4>q. QED BY <4>1, HeldAt
    <3>q. QED BY Zenon, <3>1, <3>2
  <2>q. QED BY <2>1, <2>2, PairSets
<1>4. ASSUME NEW g \in File, g # v
      PROVE  Held(g)' = Held(g)
  <2>1. Held(g)' \subseteq Proc \X Fd /\ Held(g) \subseteq Proc \X Fd
    BY Zenon, HeldAt
  <2>2. ASSUME NEW q \in Proc, NEW d \in Fd
        PROVE  <<q, d>> \in Held(g)' <=> <<q, d>> \in Held(g)
    <3>1. CASE q = p /\ d = fd
      <4>1. ofile'[q][d] # g /\ ofile[q][d] # g
        BY <1>1, <1>4, <3>1, Types
      <4>q. QED BY <4>1, HeldAt
    <3>2. CASE ~(q = p /\ d = fd)
      <4>1. ofile'[q][d] = ofile[q][d]
        BY <1>1, <3>2
      <4>q. QED BY <4>1, HeldAt
    <3>q. QED BY Zenon, <3>1, <3>2
  <2>q. QED BY Zenon, <2>1, <2>2, PairSets
<1>q. QED BY Zenon, <1>2, <1>3, <1>4

\* A descriptor is given up.
LEMMA ClearFd ==
  ASSUME IInv, NEW p \in Proc, NEW fd \in Fd, NEW f \in File, ofile[p][fd] = f,
         ofile'[p][fd] = None, \A d \in Fd \ {fd} : ofile'[p][d] = ofile[p][d],
         \A q \in Proc \ {p} : ofile'[q] = ofile[q]
  PROVE  /\ <<p, fd>> \in Held(f) /\ Held(f)' = Held(f) \ {<<p, fd>>}
         /\ \A g \in File : g # f => Held(g)' = Held(g)
<1>1. /\ ofile'[p][fd] = None /\ \A d \in Fd \ {fd} : ofile'[p][d] = ofile[p][d]
      /\ \A q \in Proc \ {p} : ofile'[q] = ofile[q]
  OBVIOUS
<1>2. <<p, fd>> \in Held(f)
  BY Zenon, HeldAt
<1>3. Held(f)' = Held(f) \ {<<p, fd>>}
  <2>1. Held(f)' \subseteq Proc \X Fd /\ Held(f) \ {<<p, fd>>} \subseteq Proc \X Fd
    BY HeldAt
  <2>2. ASSUME NEW q \in Proc, NEW d \in Fd
        PROVE  <<q, d>> \in Held(f)' <=> <<q, d>> \in Held(f) \ {<<p, fd>>}
    <3>1. CASE q = p /\ d = fd
      <4>1. ofile'[q][d] # f
        BY <1>1, <3>1, Types
      <4>q. QED BY <3>1, <4>1, HeldAt
    <3>2. CASE ~(q = p /\ d = fd)
      <4>1. ofile'[q][d] = ofile[q][d] /\ <<q, d>> # <<p, fd>>
        BY <1>1, <3>2
      <4>q. QED BY <4>1, HeldAt
    <3>q. QED BY Zenon, <3>1, <3>2
  <2>q. QED BY <2>1, <2>2, PairSets
<1>4. ASSUME NEW g \in File, g # f
      PROVE  Held(g)' = Held(g)
  <2>1. Held(g)' \subseteq Proc \X Fd /\ Held(g) \subseteq Proc \X Fd
    BY Zenon, HeldAt
  <2>2. ASSUME NEW q \in Proc, NEW d \in Fd
        PROVE  <<q, d>> \in Held(g)' <=> <<q, d>> \in Held(g)
    <3>1. CASE q = p /\ d = fd
      <4>1. ofile'[q][d] # g /\ ofile[q][d] # g
        BY <1>1, <1>4, <3>1, Types
      <4>q. QED BY <4>1, HeldAt
    <3>2. CASE ~(q = p /\ d = fd)
      <4>1. ofile'[q][d] = ofile[q][d]
        BY <1>1, <3>2
      <4>q. QED BY <4>1, HeldAt
    <3>q. QED BY Zenon, <3>1, <3>2
  <2>q. QED BY Zenon, <2>1, <2>2, PairSets
<1>q. QED BY Zenon, <1>2, <1>3, <1>4

\* The counts hold on when files, descriptors and local variables stay.
LEMMA SameUses ==
  ASSUME IInv, UNCHANGED <<ref, ofile, loc>>
  PROVE  AloneInv' /\ CountInv'
<1>1. AloneInv'
  <2>1. \A p \in Proc, f \in File : Has(p, f)' <=> Has(p, f)
    BY Zenon DEF Has
  <2>q. QED BY Zenon, <2>1 DEF IInv, AloneInv
<1>2. CountInv'
  BY DEF IInv, CountInv, InLoc, Has, Held
<1>q. QED BY Zenon, <1>1, <1>2

\* filealloc() preserves IInv.
LEMMA fileallocStep ==
  ASSUME IInv, NEW p \in Proc, filealloc(p)
  PROVE  IInv'
<1>1. PICK f \in File : f = Min(Free) /\ ref[f] = 0
  BY Zenon, FirstFree DEF filealloc
<1>2. /\ pc[p] = "run" /\ ref' = [ref EXCEPT ![f] = 1] /\ loc' = [loc EXCEPT ![p] = <<f>>]
      /\ \E call \in {"open", "pipe"} : pc' = [pc EXCEPT ![p] = call]
      /\ UNCHANGED <<obj, ofile, pend, live>>
  BY Zenon, <1>1 DEF filealloc, At
<1>3. /\ pc'[p] \in {"open", "pipe"}
      /\ pc' \in [Proc -> {"unused", "run", "open", "pipe", "pipefd", "undo", "exit"}]
      /\ \A q \in Proc \ {p} : pc'[q] = pc[q]
  BY Zenon, <1>2, Types
<1>4. <<f>> \in Seq(File) /\ Len(<<f>>) = 1 /\ <<f>>[1] = f
  OBVIOUS
<1>5. loc' \in [Proc -> Seq(File)] /\ loc'[p] = <<f>> /\ \A q \in Proc \ {p} : loc'[q] = loc[q]
  BY Zenon, <1>2, <1>4, Types
<1>6. \A g \in File : Has(p, g)' <=> Has(p, g) \/ g = f
  <2>1. \A g : ~Has(p, g)
    BY Zenon, <1>2, Locals
  <2>2. \A g : Has(p, g)' <=> g = f
    <3>1. 1..Len(<<f>>) = {1}
      BY <1>4
    <3>q. QED BY <1>4, <1>5, <3>1 DEF Has
  <2>q. QED BY Zenon, <2>1, <2>2
<1>7. AloneInv' /\ CountInv' /\ ref' \in [File -> Nat]
  BY Zenon, <1>1, <1>2, <1>5, <1>6, TakeFile
<1>8. LocOf(p)'
  <2>1. Len(loc'[p]) = 1 /\ pc'[p] \in {"open", "pipe"}
    BY Zenon, <1>3, <1>4, <1>5
  <2>q. QED BY <2>1 DEF LocOf
<1>9. TypeOK'
  BY Zenon, <1>2, <1>3, <1>7, Types DEF TypeOK
<1>10. FreeInv' /\ FdReady' /\ obj[f] = None
  <2>1. \A g \in File : ref'[g] = 0 => ref[g] = 0
    BY <1>2, Types
  <2>2. obj[f] = None
    BY Zenon, <1>1 DEF IInv, FreeInv
  <2>q. QED BY Zenon, <1>2, <2>1, <2>2 DEF IInv, FreeInv, FdReady
<1>11. Own(obj', pend', live')
  BY Zenon, <1>2 DEF IInv
<1>12. pc'[p] # "unused" /\ pc'[p] # "pipefd" /\ obj'[loc'[p][1]] = None
  <2>1. obj'[loc'[p][1]] = None
    BY Zenon, <1>2, <1>4, <1>5, <1>10
  <2>q. QED BY <1>3, <2>1
<1>13. \A q \in Proc \ {p} : pc'[q] = pc[q] /\ loc'[q] = loc[q] /\ ofile'[q] = ofile[q]
  BY Zenon, <1>2, <1>3, <1>5
<1>q. QED BY Zenon, <1>2, <1>5, <1>7, <1>8, <1>9, <1>10, <1>11, <1>12, <1>13, CallStep

\* A call goes on to close its files.
LEMMA ToUndo ==
  ASSUME IInv, NEW p \in Proc, pc[p] \in {"open", "pipe", "pipefd"}, pc' = [pc EXCEPT ![p] = "undo"],
         UNCHANGED <<ref, obj, ofile, loc, pend, live>>
  PROVE  IInv'
<1>1. /\ pc'[p] = "undo" /\ \A q \in Proc \ {p} : pc'[q] = pc[q]
      /\ pc' \in [Proc -> {"unused", "run", "open", "pipe", "pipefd", "undo", "exit"}]
  BY Zenon, Types
<1>2. LocOf(p)'
  BY <1>1 DEF IInv, LocInv, LocOf
<1>3. TypeOK'
  BY Zenon, <1>1, Types DEF TypeOK
<1>4. FreeInv' /\ FdReady'
  BY Zenon DEF IInv, FreeInv, FdReady
<1>5. Own(obj', pend', live') /\ loc' \in [Proc -> Seq(File)]
  BY Zenon, Types DEF IInv
<1>6. AloneInv' /\ CountInv'
  BY Zenon, SameUses
<1>7. pc'[p] # "unused" /\ pc'[p] # "pipefd" /\ pc'[p] \notin {"open", "pipe"}
  BY <1>1
<1>q. QED BY Zenon, <1>1, <1>2, <1>3, <1>4, <1>5, <1>6, <1>7, CallStep

\* The ends of a new object are new.
LEMMA NewEnds ==
  ASSUME IInv, NEW o \in New
  PROVE  \A x \in {"i", "r", "w"} : <<o, x>> \in Obj \X End /\ <<o, x>> # None /\ <<o, x>> \notin live
<1>1. ASSUME NEW x \in {"i", "r", "w"}
      PROVE  <<o, x>> \in Obj \X End /\ <<o, x>> # None /\ <<o, x>> \notin live
  <2>1. o \in Obj /\ \A e \in live : e[1] # o
    BY Zenon DEF New
  <2>2. <<o, x>> \in Obj \X End
    BY <2>1 DEF End
  <2>3. <<o, x>>[1] = o
    OBVIOUS
  <2>q. QED BY Zenon, <2>1, <2>2, <2>3, Types
<1>q. QED BY Zenon, <1>1

\* fdalloc() and the filling in of the file in sys_open(), or their failure, preserve IInv.
LEMMA openStep ==
  ASSUME IInv, NEW p \in Proc, open(p)
  PROVE  IInv'
<1>1. pc[p] = "open" /\ UNCHANGED <<ref, pend>>
  BY Zenon DEF open, At
<1>2. CASE ~(FreeFd(p) # {} /\ New # {})
  <2>1. pc' = [pc EXCEPT ![p] = "undo"] /\ UNCHANGED <<ref, obj, ofile, loc, pend, live>>
    BY Zenon, <1>1, <1>2 DEF open
  <2>q. QED BY Zenon, <1>1, <2>1, ToUndo
<1>3. CASE FreeFd(p) # {} /\ New # {}
  <2>1. PICK f \in File : f = loc[p][1] /\ \A g : Has(p, g) <=> g = f
    BY Zenon, <1>1, Locals
  <2>2. PICK fd \in Fd : fd = Min(FreeFd(p)) /\ ofile[p][fd] = None
    BY Zenon, <1>3, FirstFree
  <2>3. PICK o \in New :
          /\ ofile' = [ofile EXCEPT ![p][fd] = f] /\ obj' = [obj EXCEPT ![f] = <<o, "i">>]
          /\ live' = live \cup {<<o, "i">>} /\ loc' = [loc EXCEPT ![p] = <<>>]
          /\ pc' = [pc EXCEPT ![p] = "run"]
    BY Zenon, <1>3, <2>1, <2>2 DEF open
  <2>4. PICK e \in Obj \X End : e = <<o, "i">> /\ e # None /\ e \notin live
    BY Zenon, NewEnds
  <2>5. obj[f] = None
    BY Zenon, <1>1, <2>1 DEF IInv, HalfInv
  <2>6. /\ obj' \in [File -> (Obj \X End) \cup {None}] /\ obj'[f] = e
        /\ \A g \in File \ {f} : obj'[g] = obj[g]
    BY Zenon, <2>3, <2>4, Types
  <2>7. None \notin live /\ Own(obj, pend, live)
    BY Zenon, Types DEF IInv
  <2>8. Own(obj', pend', live') /\ live' \subseteq Obj \X End
    <3>1. Own([obj EXCEPT ![f] = e], pend, live \cup {e})
      BY Zenon, <2>4, <2>5, <2>7, OwnNew, Types
    <3>q. QED BY Zenon, <1>1, <2>3, <2>4, <3>1, Types
  <2>9. /\ pc'[p] = "run" /\ \A q \in Proc \ {p} : pc'[q] = pc[q]
        /\ pc' \in [Proc -> {"unused", "run", "open", "pipe", "pipefd", "undo", "exit"}]
    BY Zenon, <2>3, Types
  <2>10. <<>> \in Seq(File) /\ Len(<<>>) = 0 /\ 1..Len(<<>>) = {}
    OBVIOUS
  <2>11. loc' \in [Proc -> Seq(File)] /\ loc'[p] = <<>> /\ \A q \in Proc \ {p} : loc'[q] = loc[q]
    BY Zenon, <2>3, <2>10, Types
  <2>12. \A g : ~Has(p, g)'
    BY Zenon, <2>10, <2>11 DEF Has
  <2>13. /\ ofile' \in [Proc -> [Fd -> File \cup {None}]]
         /\ ofile'[p][fd] = f /\ \A d \in Fd \ {fd} : ofile'[p][d] = ofile[p][d]
         /\ \A q \in Proc \ {p} : ofile'[q] = ofile[q]
    BY <2>3, Types
  <2>22. Held(f)' = Held(f) \cup {<<p, fd>>} /\ \A g \in File : g # f => Held(g)' = Held(g)
    <3>1. ofile[p][fd] = None
      BY Zenon, <2>2
    <3>2. ofile'[p][fd] = f
      BY Zenon, <2>13
    <3>3. \A d \in Fd \ {fd} : ofile'[p][d] = ofile[p][d]
      BY Zenon, <2>13
    <3>4. \A q \in Proc \ {p} : ofile'[q] = ofile[q]
      BY Zenon, <2>13
    <3>5. Held(f)' = Held(f) \cup {<<p, fd>>}
      BY Zenon, <3>1, <3>2, <3>3, <3>4, SetFd
    <3>6. \A g \in File : g # f => Held(g)' = Held(g)
      BY Zenon, <3>1, <3>2, <3>3, <3>4, SetFd
    <3>q. QED BY Zenon, <3>5, <3>6
  <2>14. AloneInv' /\ CountInv'
    <3>1. Held(f)' = {<<p, fd>>}
      BY Zenon, <2>1, <2>22, InCall
    <3>2. /\ \A g \in File : Has(p, g) => \E x : Held(g)' = {x}
          /\ \A g \in File : ~Has(p, g) => Held(g)' = Held(g)
      BY Zenon, <2>1, <2>22, <3>1
    <3>q. QED BY Zenon, <1>1, <2>11, <2>12, <3>2, GiveFiles
  <2>15. TypeOK'
    BY Zenon, <1>1, <2>6, <2>8, <2>9, <2>13, Types DEF TypeOK
  <2>16. LocOf(p)'
    <3>1. Len(loc'[p]) = 0
      BY Zenon, <2>10, <2>11
    <3>q. QED BY <2>9, <3>1 DEF LocOf
  <2>17. FreeInv'
    <3>1. ref[f] # 0
      <4>1. ref[f] = 1
        BY Zenon, <2>1, InCall
      <4>q. QED BY <4>1
    <3>q. QED BY Zenon, <1>1, <2>6, <3>1 DEF IInv, FreeInv
  <2>18. FdReady'
    <3>1. ASSUME NEW q \in Proc, NEW d \in Fd, ofile'[q][d] # None
          PROVE  obj'[ofile'[q][d]] # None
      <4>1. CASE q = p /\ d = fd
        BY Zenon, <2>4, <2>6, <2>13, <4>1
      <4>2. CASE ~(q = p /\ d = fd)
        <5>1. ofile'[q][d] = ofile[q][d]
          BY <2>13, <4>2
        <5>2. ofile[q][d] \in File /\ obj[ofile[q][d]] # None
          BY <3>1, <5>1, Types DEF IInv, FdReady
        <5>q. QED BY Zenon, <2>5, <2>6, <5>1, <5>2
      <4>q. QED BY Zenon, <4>1, <4>2
    <3>q. QED BY Zenon, <3>1 DEF FdReady
  <2>19. \A q \in Proc \ {p}, g \in File : Has(q, g) => obj'[g] = obj[g]
    BY Zenon, <2>1, <2>6 DEF IInv, AloneInv
  <2>20. pc'[p] # "unused" /\ pc'[p] # "pipefd" /\ pc'[p] \notin {"open", "pipe"}
    BY <2>9
  <2>21. \A q \in Proc \ {p} : pc'[q] = pc[q] /\ loc'[q] = loc[q] /\ ofile'[q] = ofile[q]
    BY Zenon, <2>9, <2>11, <2>13
  <2>q. QED
    BY Zenon, <2>8, <2>11, <2>14, <2>15, <2>16, <2>17, <2>18, <2>19, <2>20, <2>21, CallStep
<1>q. QED BY Zenon, <1>2, <1>3

\* pipealloc() has its second file.
LEMMA SecondFile ==
  ASSUME IInv, NEW p \in Proc, pc[p] = "pipe", NEW f \in File, ref[f] = 0,
         ref' = [ref EXCEPT ![f] = 1], loc' = [loc EXCEPT ![p] = Append(@, f)],
         UNCHANGED <<ofile, pend>>, NEW s \in {"pipefd", "undo"}, pc' = [pc EXCEPT ![p] = s],
         obj' \in [File -> (Obj \X End) \cup {None}], live' \subseteq Obj \X End,
         Own(obj', pend', live'),
         \A g \in File : obj[g] # None => obj'[g] = obj[g],
         \A g \in File : g # f /\ g # loc[p][1] => obj'[g] = obj[g],
         s = "pipefd" => obj'[loc[p][1]] # None /\ obj'[f] # None
  PROVE  IInv'
<1>1. PICK h \in File : h = loc[p][1] /\ loc[p] = <<h>> /\ \A g : Has(p, g) <=> g = h
  BY Zenon, Locals
<1>2. ref[h] = 1
  BY Zenon, <1>1, InCall
<1>3. f # h
  BY <1>2
<1>4. /\ Append(<<h>>, f) \in Seq(File) /\ Len(Append(<<h>>, f)) = 2
      /\ Append(<<h>>, f)[1] = h /\ Append(<<h>>, f)[2] = f /\ 1..2 = {1, 2}
  OBVIOUS
<1>5. loc' \in [Proc -> Seq(File)] /\ loc'[p] = Append(<<h>>, f) /\ \A q \in Proc \ {p} : loc'[q] = loc[q]
  BY Zenon, <1>1, <1>4, Types
<1>6. Len(loc'[p]) = 2 /\ loc'[p][1] = h /\ loc'[p][2] = f
  BY Zenon, <1>4, <1>5
<1>7. \A g \in File : Has(p, g)' <=> Has(p, g) \/ g = f
  <2>1. \A g \in File : Has(p, g)' <=> g = h \/ g = f
    BY Zenon, <1>4, <1>6 DEF Has
  <2>q. QED BY Zenon, <1>1, <2>1
<1>8. AloneInv' /\ CountInv' /\ ref' \in [File -> Nat]
  BY Zenon, <1>5, <1>7, TakeFile
<1>9. /\ pc'[p] = s /\ \A q \in Proc \ {p} : pc'[q] = pc[q]
      /\ pc' \in [Proc -> {"unused", "run", "open", "pipe", "pipefd", "undo", "exit"}]
  BY Zenon, Types
<1>10. LocOf(p)'
  BY <1>3, <1>6, <1>9 DEF LocOf
<1>11. TypeOK'
  BY Zenon, <1>8, <1>9, Types DEF TypeOK
<1>12. FreeInv'
  <2>1. ASSUME NEW g \in File, ref'[g] = 0
        PROVE  obj'[g] = None
    <3>1. ref[g] = 0 /\ g # f
      BY <2>1, Types
    <3>2. g # loc[p][1]
      BY <1>1, <1>2, <3>1
    <3>q. QED BY Zenon, <3>1, <3>2 DEF IInv, FreeInv
  <2>q. QED BY Zenon, <2>1 DEF FreeInv
<1>13. FdReady'
  <2>1. ASSUME NEW q \in Proc, NEW d \in Fd, ofile[q][d] # None
        PROVE  obj'[ofile[q][d]] # None
    <3>1. ofile[q][d] \in File
      BY <2>1, Types
    <3>2. obj[ofile[q][d]] # None
      BY Zenon, <2>1 DEF IInv, FdReady
    <3>q. QED BY Zenon, <3>1, <3>2
  <2>q. QED BY Zenon, <2>1 DEF FdReady
<1>14. \A q \in Proc \ {p}, g \in File : Has(q, g) => obj'[g] = obj[g]
  <2>1. ASSUME NEW q \in Proc, q # p, NEW g \in File, Has(q, g)
        PROVE  obj'[g] = obj[g]
    <3>1. g # h
      BY Zenon, <1>1, <2>1 DEF IInv, AloneInv
    <3>2. ref[g] = 1
      BY Zenon, <2>1, InCall
    <3>3. g # f
      BY <3>2
    <3>q. QED BY Zenon, <1>1, <3>1, <3>3
  <2>q. QED BY Zenon, <2>1
<1>15. pc'[p] # "unused" /\ pc'[p] \notin {"open", "pipe"}
  BY <1>9
<1>16. pc'[p] = "pipefd" => obj'[loc'[p][1]] # None /\ obj'[loc'[p][2]] # None
  BY Zenon, <1>1, <1>6, <1>9
<1>17. \A q \in Proc \ {p} : pc'[q] = pc[q] /\ loc'[q] = loc[q] /\ ofile'[q] = ofile[q]
  BY Zenon, <1>5, <1>9
<1>q. QED
  BY Zenon, <1>5, <1>8, <1>10, <1>11, <1>12, <1>13, <1>14, <1>15, <1>16, <1>17, CallStep

\* The second file and the two ends of pipealloc(), or their failure, preserve IInv.
LEMMA pipeallocStep ==
  ASSUME IInv, NEW p \in Proc, pipealloc(p)
  PROVE  IInv'
<1>1. pc[p] = "pipe" /\ UNCHANGED <<ofile, pend>>
  BY Zenon DEF pipealloc, At
<1>2. CASE Free = {}
  <2>1. pc' = [pc EXCEPT ![p] = "undo"] /\ UNCHANGED <<ref, obj, ofile, loc, pend, live>>
    BY Zenon, <1>1, <1>2 DEF pipealloc
  <2>q. QED BY Zenon, <1>1, <2>1, ToUndo
<1>3. CASE Free # {}
  <2>1. PICK f \in File : f = Min(Free) /\ ref[f] = 0
    BY Zenon, <1>3, FirstFree
  <2>2. ref' = [ref EXCEPT ![f] = 1] /\ loc' = [loc EXCEPT ![p] = Append(@, f)]
    BY Zenon, <1>3, <2>1 DEF pipealloc
  <2>3. CASE pc' = [pc EXCEPT ![p] = "undo"] /\ UNCHANGED <<obj, live>>
    <3>1. /\ obj' \in [File -> (Obj \X End) \cup {None}] /\ live' \subseteq Obj \X End
          /\ Own(obj', pend', live') /\ \A g \in File : obj'[g] = obj[g]
      BY Zenon, <1>1, <2>3, Types DEF IInv
    <3>2. "undo" \in {"pipefd", "undo"} /\ "undo" # "pipefd"
      OBVIOUS
    <3>q. QED BY Zenon, <1>1, <2>1, <2>2, <2>3, <3>1, <3>2, SecondFile
  <2>4. ASSUME NEW o \in New, pc' = [pc EXCEPT ![p] = "pipefd"],
               obj' = [obj EXCEPT ![loc[p][1]] = <<o, "r">>, ![f] = <<o, "w">>],
               live' = live \cup {<<o, "r">>, <<o, "w">>}
        PROVE  IInv'
    <3>1. PICK h \in File : h = loc[p][1] /\ Has(p, h)
      BY Zenon, <1>1, Locals
    <3>2. ref[h] = 1
      BY Zenon, <3>1, InCall
    <3>3. f # h
      BY <2>1, <3>2
    <3>4. PICK d \in Obj \X End : d = <<o, "r">> /\ d # None /\ d \notin live
      BY Zenon, NewEnds
    <3>5. PICK e \in Obj \X End : e = <<o, "w">> /\ e # None /\ e \notin live
      BY Zenon, NewEnds
    <3>6. d # e
      BY <3>4, <3>5
    <3>7. obj[h] = None /\ obj[f] = None
      BY Zenon, <1>1, <2>1, <3>1 DEF IInv, HalfInv, FreeInv
    <3>8. PICK m \in [File -> (Obj \X End) \cup {None}] : m = [obj EXCEPT ![h] = d]
      BY Zenon, Types
    <3>9. m[h] = d /\ m[f] = None /\ \A g \in File : g # h => m[g] = obj[g]
      BY Zenon, <3>3, <3>7, <3>8, Types
    <3>10. obj' = [m EXCEPT ![f] = e] /\ live' = (live \cup {d}) \cup {e}
      <4>1. obj' = [[obj EXCEPT ![h] = d] EXCEPT ![f] = e]
        BY Zenon, <2>4, <3>1, <3>4, <3>5
      <4>q. QED BY Zenon, <2>4, <3>4, <3>5, <3>8, <4>1
    <3>11. /\ obj' \in [File -> (Obj \X End) \cup {None}] /\ obj'[f] = e
           /\ \A g \in File : g # f => obj'[g] = m[g]
      BY Zenon, <3>8, <3>10
    <3>12. Own(m, pend, live \cup {d})
      BY Zenon, <3>4, <3>7, <3>8, OwnNew, Types DEF IInv
    <3>13. Own(obj', pend', live')
      <4>1. e \notin live \cup {d} /\ None \notin live \cup {d}
        BY Zenon, <3>4, <3>5, <3>6, Types
      <4>2. Own([m EXCEPT ![f] = e], pend, (live \cup {d}) \cup {e})
        BY Zenon, <3>5, <3>9, <3>12, <4>1, OwnNew, Types
      <4>q. QED BY Zenon, <1>1, <3>10, <4>2
    <3>14. live' \subseteq Obj \X End
      BY Zenon, <3>10, Types
    <3>15. \A g \in File : g # f /\ g # loc[p][1] => obj'[g] = obj[g]
      BY Zenon, <3>1, <3>9, <3>11
    <3>16. \A g \in File : obj[g] # None => obj'[g] = obj[g]
      BY Zenon, <3>1, <3>7, <3>15
    <3>17. obj'[loc[p][1]] # None /\ obj'[f] # None
      BY Zenon, <3>1, <3>3, <3>4, <3>5, <3>9, <3>11
    <3>18. "pipefd" \in {"pipefd", "undo"}
      OBVIOUS
    <3>19. pc' = [pc EXCEPT ![p] = "pipefd"] /\ obj' \in [File -> (Obj \X End) \cup {None}]
      BY Zenon, <2>4, <3>11
    <3>20. ref[f] = 0
      BY Zenon, <2>1
    <3> HIDE <2>4
    <3>q. QED
      BY Zenon, <1>1, <2>2, <3>13, <3>14, <3>15, <3>16, <3>17, <3>18, <3>19, <3>20, SecondFile
  <2>q. QED BY Zenon, <1>3, <2>1, <2>3, <2>4 DEF pipealloc
<1>q. QED BY Zenon, <1>2, <1>3

\* The descriptors of a file, after a step.
LEMMA HeldOne ==
  ASSUME NEW f, NEW p \in Proc, NEW r \in Fd,
         \A q \in Proc, d \in Fd : ofile'[q][d] = f <=> q = p /\ d = r
  PROVE  Held(f)' = {<<p, r>>}
<1>1. Held(f)' \subseteq Proc \X Fd /\ {<<p, r>>} \subseteq Proc \X Fd
  BY Zenon, HeldAt
<1>2. \A q \in Proc, d \in Fd : <<q, d>> \in Held(f)' <=> q = p /\ d = r
  BY Zenon, HeldAt
<1>3. \A q \in Proc, d \in Fd : <<q, d>> \in {<<p, r>>} <=> q = p /\ d = r
  OBVIOUS
<1>q. QED BY <1>1, <1>2, <1>3, PairSets

\* A file whose descriptors stay.
LEMMA HeldSame ==
  ASSUME NEW f, \A q \in Proc, d \in Fd : ofile'[q][d] = f <=> ofile[q][d] = f
  PROVE  Held(f)' = Held(f)
<1>1. Held(f)' \subseteq Proc \X Fd /\ Held(f) \subseteq Proc \X Fd
  BY Zenon, HeldAt
<1>2. ASSUME NEW q \in Proc, NEW d \in Fd
      PROVE  <<q, d>> \in Held(f)' <=> <<q, d>> \in Held(f)
  BY HeldAt
<1>q. QED BY Zenon, <1>1, <1>2, PairSets

\* The two fdalloc() of sys_pipe(), or their failure, preserve IInv.
LEMMA pipefdStep ==
  ASSUME IInv, NEW p \in Proc, pipefd(p)
  PROVE  IInv'
<1>1. pc[p] = "pipefd" /\ UNCHANGED <<ref, obj, pend, live>>
  BY Zenon DEF pipefd, At
<1>2. CASE pc' = [pc EXCEPT ![p] = "undo"] /\ UNCHANGED <<ofile, loc>>
  <2>1. pc[p] \in {"open", "pipe", "pipefd"}
    BY <1>1
  <2>q. QED BY Zenon, <1>1, <1>2, <2>1, ToUndo
<1>3. ASSUME NEW r \in FreeFd(p), NEW w \in FreeFd(p), r < w,
             ofile' = [ofile EXCEPT ![p] = [@ EXCEPT ![r] = loc[p][1], ![w] = loc[p][2]]],
             loc' = [loc EXCEPT ![p] = <<>>], pc' = [pc EXCEPT ![p] = "run"]
      PROVE  IInv'
  <2>1. PICK f \in File, g \in File :
          f = loc[p][1] /\ g = loc[p][2] /\ f # g /\ \A h : Has(p, h) <=> h = f \/ h = g
    BY Zenon, <1>1, Locals
  <2>2. r \in Fd /\ w \in Fd /\ ofile[p][r] = None /\ ofile[p][w] = None
    BY Zenon DEF FreeFd
  <2>3. r # w
    BY <1>3, <2>2 DEF Fd
  <2>4. obj[f] # None /\ obj[g] # None
    BY Zenon, <1>1, <2>1 DEF IInv, FullInv
  <2>5. /\ pc'[p] = "run" /\ \A q \in Proc \ {p} : pc'[q] = pc[q]
        /\ pc' \in [Proc -> {"unused", "run", "open", "pipe", "pipefd", "undo", "exit"}]
    BY Zenon, <1>3, Types
  <2>6. <<>> \in Seq(File) /\ Len(<<>>) = 0 /\ 1..Len(<<>>) = {}
    OBVIOUS
  <2>7. loc' \in [Proc -> Seq(File)] /\ loc'[p] = <<>> /\ \A q \in Proc \ {p} : loc'[q] = loc[q]
    BY Zenon, <1>3, <2>6, Types
  <2>8. \A h : ~Has(p, h)'
    BY Zenon, <2>6, <2>7 DEF Has
  <2>9. ofile' \in [Proc -> [Fd -> File \cup {None}]]
    BY <1>3, <2>1, <2>2, Types
  <2>10. ofile'[p][r] = f /\ ofile'[p][w] = g
    BY <1>3, <2>1, <2>2, <2>3, Types
  <2>11. /\ \A d \in Fd : d # r /\ d # w => ofile'[p][d] = ofile[p][d]
         /\ \A q \in Proc : q # p => ofile'[q] = ofile[q]
    BY <1>3, Types
  <2>12. Held(f) = {} /\ Held(g) = {}
    BY Zenon, <2>1, InCall
  <2> HIDE <1>3
  <2>13. /\ Held(f)' = {<<p, r>>} /\ Held(g)' = {<<p, w>>}
         /\ \A h \in File : h # f /\ h # g => Held(h)' = Held(h)
    <3>1. ASSUME NEW q \in Proc, NEW d \in Fd
          PROVE  ofile[q][d] # f /\ ofile[q][d] # g
      BY Zenon, <2>12, HeldAt
    <3>2. Held(f)' = {<<p, r>>}
      <4>1. \A q \in Proc, d \in Fd : ofile'[q][d] = f <=> q = p /\ d = r
        BY <2>1, <2>10, <2>11, <3>1
      <4>q. QED BY Zenon, <2>2, <4>1, HeldOne
    <3>3. Held(g)' = {<<p, w>>}
      <4>1. \A q \in Proc, d \in Fd : ofile'[q][d] = g <=> q = p /\ d = w
        BY <2>1, <2>10, <2>11, <3>1
      <4>q. QED BY Zenon, <2>2, <4>1, HeldOne
    <3>4. ASSUME NEW h \in File, h # f, h # g
          PROVE  Held(h)' = Held(h)
      <4>1. \A q \in Proc, d \in Fd : ofile'[q][d] = h <=> ofile[q][d] = h
        <5>1. h # None
          BY Zenon, Types
        <5>q. QED BY <2>2, <2>10, <2>11, <3>4, <5>1
      <4>q. QED BY Zenon, <4>1, HeldSame
    <3>q. QED BY Zenon, <3>2, <3>3, <3>4
  <2>14. AloneInv' /\ CountInv'
    <3>1. /\ \A h \in File : Has(p, h) => \E x : Held(h)' = {x}
          /\ \A h \in File : ~Has(p, h) => Held(h)' = Held(h)
      BY Zenon, <2>1, <2>13
    <3>q. QED BY Zenon, <1>1, <2>7, <2>8, <3>1, GiveFiles
  <2>15. TypeOK'
    BY Zenon, <1>1, <2>5, <2>9, Types DEF TypeOK
  <2>16. LocOf(p)'
    <3>1. Len(loc'[p]) = 0
      BY Zenon, <2>6, <2>7
    <3>q. QED BY <2>5, <3>1 DEF LocOf
  <2>17. FreeInv' /\ Own(obj', pend', live')
    BY Zenon, <1>1 DEF IInv, FreeInv
  <2>18. FdReady'
    <3>1. ASSUME NEW q \in Proc, NEW d \in Fd, ofile'[q][d] # None
          PROVE  obj[ofile'[q][d]] # None
      <4>1. CASE q = p /\ d = r
        BY Zenon, <2>4, <2>10, <4>1
      <4>2. CASE q = p /\ d = w
        BY Zenon, <2>4, <2>10, <4>2
      <4>3. CASE ~(q = p /\ d = r) /\ ~(q = p /\ d = w)
        <5>1. ofile'[q][d] = ofile[q][d]
          BY Zenon, <2>11, <4>3
        <5>q. QED BY Zenon, <3>1, <5>1 DEF IInv, FdReady
      <4>q. QED BY Zenon, <4>1, <4>2, <4>3
    <3>q. QED BY Zenon, <1>1, <3>1 DEF FdReady
  <2>19. \A q \in Proc \ {p}, h \in File : Has(q, h) => obj'[h] = obj[h]
    BY Zenon, <1>1
  <2>20. pc'[p] # "unused" /\ pc'[p] # "pipefd" /\ pc'[p] \notin {"open", "pipe"}
    BY <2>5
  <2>21. \A q \in Proc \ {p} : pc'[q] = pc[q] /\ loc'[q] = loc[q] /\ ofile'[q] = ofile[q]
    BY Zenon, <2>5, <2>7, <2>11
  <2>q. QED
    BY Zenon, <2>7, <2>14, <2>15, <2>16, <2>17, <2>18, <2>19, <2>20, <2>21, CallStep
<1>q. QED BY Zenon, <1>1, <1>2, <1>3 DEF pipefd

\* fileclose() under ftable.lock, with a file in use.
LEMMA CloseFile ==
  ASSUME IInv, NEW p \in Proc, pend[p] = None, NEW f \in File, ref[f] > 0, fileclose(p, f), live' = live
  PROVE  /\ ref' \in [File -> Nat] /\ ref'[f] = ref[f] - 1 /\ \A g \in File : g # f => ref'[g] = ref[g]
         /\ obj' \in [File -> (Obj \X End) \cup {None}]
         /\ pend' \in [Proc -> (Obj \X End) \cup {None}]
         /\ \A g \in File : g # f => obj'[g] = obj[g]
         /\ ref[f] > 1 => obj'[f] = obj[f]
         /\ ref[f] = 1 => obj'[f] = None
         /\ Own(obj', pend', live')
<1>1. ref' \in [File -> Nat] /\ ref'[f] = ref[f] - 1 /\ \A g \in File : g # f => ref'[g] = ref[g]
  BY Types DEF fileclose
<1>2. CASE ref[f] > 1
  <2>1. obj' = obj /\ pend' = pend
    BY Zenon, <1>2 DEF fileclose
  <2>2. ref[f] # 1
    BY <1>2
  <2>q. QED BY Zenon, <1>1, <2>1, <2>2, Types DEF IInv
<1>3. CASE ~(ref[f] > 1)
  <2>1. pend' = [pend EXCEPT ![p] = obj[f]] /\ obj' = [obj EXCEPT ![f] = None]
    BY Zenon, <1>3 DEF fileclose, Closed
  <2>2. /\ obj' \in [File -> (Obj \X End) \cup {None}] /\ obj'[f] = None
        /\ pend' \in [Proc -> (Obj \X End) \cup {None}]
        /\ \A g \in File : g # f => obj'[g] = obj[g]
    BY Zenon, <2>1, Types
  <2>3. None \notin live /\ Own(obj, pend, live)
    BY Zenon, Types DEF IInv
  <2>4. Own([obj EXCEPT ![f] = None], [pend EXCEPT ![p] = obj[f]], live)
    BY Zenon, <2>3, OwnMove, Types
  <2>q. QED BY Zenon, <1>1, <1>3, <2>1, <2>2, <2>4
<1>q. QED BY Zenon, <1>2, <1>3

\* Tail, by its elements.
LEMMA TailAt ==
  ASSUME NEW F, NEW s \in Seq(F), s # <<>>, NEW k \in 1..Len(s) - 1
  PROVE  Tail(s)[k] = s[k + 1]
OBVIOUS

\* What is in a sequence of one or two files after its first.
LEMMA Rest ==
  ASSUME NEW s \in Seq(File), Len(s) = 1 \/ (Len(s) = 2 /\ s[1] # s[2])
  PROVE  /\ Tail(s) \in Seq(File) /\ Len(Tail(s)) = Len(s) - 1
         /\ \A f : (\E k \in 1..Len(Tail(s)) : Tail(s)[k] = f)
                   <=> (\E k \in 1..Len(s) : s[k] = f) /\ f # s[1]
<1>1. Tail(s) \in Seq(File) /\ Len(Tail(s)) = Len(s) - 1
  OBVIOUS
<1>2. CASE Len(s) = 1
  <2>1. Len(Tail(s)) = 0 /\ 1..0 = {} /\ 1..1 = {1}
    BY <1>1, <1>2
  <2>q. QED BY Zenon, <1>1, <1>2, <2>1
<1>3. CASE Len(s) = 2 /\ s[1] # s[2]
  <2>1. Len(Tail(s)) = 1 /\ 1..1 = {1} /\ 1..2 = {1, 2}
    BY <1>1, <1>3
  <2>2. s # <<>> /\ 1 \in 1..Len(s) - 1 /\ 1 + 1 = 2
    BY <1>3
  <2>3. Tail(s)[1] = s[2]
    BY Zenon, <2>2, TailAt
  <2>q. QED BY Zenon, <1>1, <1>3, <2>1, <2>3
<1>q. QED BY Zenon, <1>2, <1>3

\* fileclose() of the files of a call that failed preserves IInv.
LEMMA undoStep ==
  ASSUME IInv, NEW p \in Proc, undo(p)
  PROVE  IInv'
<1>1. /\ pc[p] = "undo" /\ pend[p] = None /\ fileclose(p, loc[p][1])
      /\ loc' = [loc EXCEPT ![p] = Tail(@)]
      /\ pc' = [pc EXCEPT ![p] = IF Len(loc[p]) = 1 THEN "run" ELSE "undo"]
      /\ UNCHANGED <<ofile, live>>
  BY Zenon DEF undo, At
<1>2. PICK f \in File : f = loc[p][1] /\ Has(p, f)
  BY Zenon, <1>1, Locals
<1>3. ref[f] = 1 /\ Held(f) = {}
  BY Zenon, <1>2, InCall
<1>4. Len(loc[p]) = 1 \/ (Len(loc[p]) = 2 /\ loc[p][1] # loc[p][2])
  <2>1. pc[p] = "undo"
    BY Zenon, <1>1
  <2>2. /\ Len(loc[p]) \in 0..2
        /\ Len(loc[p]) = 0 <=> pc[p] \in {"unused", "run", "exit"}
        /\ Len(loc[p]) = 2 => loc[p][1] # loc[p][2]
    BY Zenon DEF IInv, LocInv, LocOf
  <2>3. Len(loc[p]) # 0
    BY <2>1, <2>2
  <2>4. Len(loc[p]) = 1 \/ Len(loc[p]) = 2
    BY <2>2, <2>3
  <2>q. QED BY <2>2, <2>4
<1>5. /\ Tail(loc[p]) \in Seq(File) /\ Len(Tail(loc[p])) = Len(loc[p]) - 1
      /\ \A g : (\E k \in 1..Len(Tail(loc[p])) : Tail(loc[p])[k] = g)
                <=> (\E k \in 1..Len(loc[p]) : loc[p][k] = g) /\ g # loc[p][1]
  <2>1. loc[p] \in Seq(File)
    BY Zenon, Types
  <2>q. QED BY Zenon, <1>4, <2>1, Rest
<1>6. loc' \in [Proc -> Seq(File)] /\ loc'[p] = Tail(loc[p]) /\ \A q \in Proc \ {p} : loc'[q] = loc[q]
  BY Zenon, <1>1, <1>5, Types
<1>7. \A g : Has(p, g)' <=> Has(p, g) /\ g # f
  <2>1. \A g : Has(p, g)' <=> \E k \in 1..Len(Tail(loc[p])) : Tail(loc[p])[k] = g
    BY Zenon, <1>6 DEF Has
  <2>2. \A g : Has(p, g) <=> \E k \in 1..Len(loc[p]) : loc[p][k] = g
    BY Zenon DEF Has
  <2>q. QED BY Zenon, <1>2, <1>5, <2>1, <2>2
<1>8. /\ pc'[p] = (IF Len(loc[p]) = 1 THEN "run" ELSE "undo") /\ \A q \in Proc \ {p} : pc'[q] = pc[q]
      /\ pc' \in [Proc -> {"unused", "run", "open", "pipe", "pipefd", "undo", "exit"}]
  BY Zenon, <1>1, Types
<1>9. LocOf(p)'
  <2>1. \/ Len(loc'[p]) = 0 /\ pc'[p] = "run"
        \/ Len(loc'[p]) = 1 /\ pc'[p] = "undo"
    BY <1>4, <1>5, <1>6, <1>8
  <2>q. QED BY <2>1 DEF LocOf
<1>10. /\ ref' \in [File -> Nat] /\ ref'[f] = 0 /\ \A g \in File : g # f => ref'[g] = ref[g]
       /\ obj' \in [File -> (Obj \X End) \cup {None}]
       /\ pend' \in [Proc -> (Obj \X End) \cup {None}]
       /\ \A g \in File : g # f => obj'[g] = obj[g]
       /\ obj'[f] = None /\ Own(obj', pend', live')
  <2>1. ref[f] > 0 /\ ref[f] - 1 = 0
    BY <1>3
  <2>2. fileclose(p, f) /\ live' = live
    BY Zenon, <1>1, <1>2
  <2>q. QED BY Zenon, <1>1, <1>3, <2>1, <2>2, CloseFile
<1>11. \A q \in Proc \ {p}, g \in File : (Has(q, g)' <=> Has(q, g)) /\ (Has(q, g) => g # f)
  <2>1. ASSUME NEW q \in Proc, q # p, NEW g \in File
        PROVE  (Has(q, g)' <=> Has(q, g)) /\ (Has(q, g) => g # f)
    <3>1. Has(q, g)' <=> Has(q, g)
      BY Zenon, <1>6, <2>1 DEF Has
    <3>2. Has(q, g) => g # f
      BY Zenon, <1>2, <2>1 DEF IInv, AloneInv
    <3>q. QED BY Zenon, <3>1, <3>2
  <2>q. QED BY Zenon, <2>1
<1>12. AloneInv'
  BY Zenon, <1>7, <1>11 DEF IInv, AloneInv
<1>13. CountInv'
  <2>1. ASSUME NEW g \in File
        PROVE  IF InLoc(g)' THEN ref'[g] = 1 /\ Held(g)' = {} ELSE ref'[g] = Cardinality(Held(g)')
    <3>1. Held(g)' = Held(g)
      BY Zenon, <1>1 DEF Held
    <3>2. CASE g = f
      <4>1. ~InLoc(f)'
        BY Zenon, <1>7, <1>11 DEF InLoc
      <4>2. Cardinality({}) = 0
        BY Zenon, FS_EmptySet
      <4>q. QED BY Zenon, <1>3, <1>10, <3>1, <3>2, <4>1, <4>2
    <3>3. CASE g # f
      <4>1. InLoc(g)' <=> InLoc(g)
        BY Zenon, <1>7, <1>11, <3>3 DEF InLoc
      <4>2. IF InLoc(g) THEN ref[g] = 1 /\ Held(g) = {} ELSE ref[g] = Cardinality(Held(g))
        BY Zenon DEF IInv, CountInv
      <4>q. QED BY Zenon, <1>10, <3>1, <3>3, <4>1, <4>2
    <3>q. QED BY Zenon, <3>2, <3>3
  <2>q. QED BY Zenon, <2>1 DEF CountInv
<1>14. TypeOK'
  BY Zenon, <1>1, <1>8, <1>10, Types DEF TypeOK
<1>15. FreeInv'
  BY Zenon, <1>10 DEF IInv, FreeInv
<1>16. FdReady'
  <2>1. ASSUME NEW q \in Proc, NEW d \in Fd, ofile[q][d] # None
        PROVE  obj'[ofile[q][d]] # None
    <3>1. ofile[q][d] \in File
      BY <2>1, Types
    <3>2. obj[ofile[q][d]] # None
      BY Zenon, <2>1 DEF IInv, FdReady
    <3>3. ofile[q][d] # f
      BY Zenon, <1>3, HeldAt
    <3>q. QED BY Zenon, <1>10, <3>1, <3>2, <3>3
  <2>q. QED BY Zenon, <1>1, <2>1 DEF FdReady
<1>17. \A q \in Proc \ {p}, g \in File : Has(q, g) => obj'[g] = obj[g]
  BY Zenon, <1>10, <1>11
<1>18. pc'[p] # "unused" /\ pc'[p] # "pipefd" /\ pc'[p] \notin {"open", "pipe"}
  BY <1>8
<1>19. \A q \in Proc \ {p} : pc'[q] = pc[q] /\ loc'[q] = loc[q] /\ ofile'[q] = ofile[q]
  BY Zenon, <1>1, <1>6, <1>8
<1>20. Own(obj', pend', live')
  BY Zenon, <1>10
<1>q. QED
  BY Zenon, <1>6, <1>9, <1>12, <1>13, <1>14, <1>15, <1>16, <1>17, <1>18, <1>19, <1>20, CallStep

\* The end of fileclose(), pipeclose() or iput() of its copy, preserves IInv.
LEMMA releaseStep ==
  ASSUME IInv, NEW p \in Proc, release(p)
  PROVE  IInv'
<1>1. /\ pend[p] # None /\ live' = live \ {pend[p]} /\ pend' = [pend EXCEPT ![p] = None]
      /\ UNCHANGED <<ref, obj, ofile, loc, pc>>
  BY Zenon DEF release
<1>2. Own(obj', pend', live')
  <2>1. None \notin live /\ Own(obj, pend, live)
    BY Zenon, Types DEF IInv
  <2>2. Own(obj, [pend EXCEPT ![p] = None], live \ {pend[p]})
    BY Zenon, <1>1, <2>1, OwnRelease, Types
  <2>q. QED BY Zenon, <1>1, <2>2
<1>3. TypeOK'
  BY Zenon, <1>1, Types DEF TypeOK
<1>4. AloneInv' /\ CountInv'
  BY Zenon, <1>1, SameUses
<1>5. LocInv' /\ UnusedInv' /\ FreeInv' /\ HalfInv' /\ FullInv' /\ FdReady'
  BY Zenon, <1>1 DEF IInv, LocInv, LocOf, UnusedInv, FreeInv, HalfInv, FullInv, FdReady
<1>6. FileTableAssumption' /\ Own(obj, pend, live)'
  BY Zenon, <1>2, Types DEF FileTableAssumption, Own
<1>q. QED BY Zenon, <1>3, <1>4, <1>5, <1>6 DEF IInv

\* close() or exit() gives a descriptor up.
LEMMA CloseFd ==
  ASSUME IInv, NEW p \in Proc, pend[p] = None, NEW fd \in Fd, NEW f \in File, ofile[p][fd] = f,
         ofile' = [ofile EXCEPT ![p][fd] = None], fileclose(p, f), UNCHANGED <<loc, live>>,
         pc[p] \in {"run", "exit"}, pc'[p] \in {"run", "exit"},
         pc' \in [Proc -> {"unused", "run", "open", "pipe", "pipefd", "undo", "exit"}],
         \A q \in Proc \ {p} : pc'[q] = pc[q]
  PROVE  IInv'
<1>1. ~InLoc(f) /\ ref[f] = Cardinality(Held(f)) /\ ref[f] > 0 /\ <<p, fd>> \in Held(f)
  BY Zenon, Uses
<1>2. /\ ofile' \in [Proc -> [Fd -> File \cup {None}]]
      /\ ofile'[p][fd] = None /\ \A d \in Fd \ {fd} : ofile'[p][d] = ofile[p][d]
      /\ \A q \in Proc \ {p} : ofile'[q] = ofile[q]
  BY Types
<1>3. Held(f)' = Held(f) \ {<<p, fd>>}
  BY Zenon, <1>2, ClearFd
<1>4. ASSUME NEW g \in File, g # f
      PROVE  Held(g)' = Held(g)
  <2>1. \A q \in Proc, d \in Fd : ofile'[q][d] = g <=> ofile[q][d] = g
    BY <1>2, <1>4, Types
  <2>q. QED BY Zenon, <2>1, HeldSame
<1>5. /\ ref' \in [File -> Nat] /\ ref'[f] = ref[f] - 1 /\ \A g \in File : g # f => ref'[g] = ref[g]
      /\ obj' \in [File -> (Obj \X End) \cup {None}]
      /\ pend' \in [Proc -> (Obj \X End) \cup {None}]
      /\ \A g \in File : g # f => obj'[g] = obj[g]
      /\ ref[f] > 1 => obj'[f] = obj[f]
      /\ ref[f] = 1 => obj'[f] = None
      /\ Own(obj', pend', live')
  <2>1. live' = live
    OBVIOUS
  <2>q. QED BY Zenon, <1>1, <2>1, CloseFile
<1>6. Cardinality(Held(f)') = ref'[f]
  <2>1. Held(f) \subseteq Proc \X Fd
    BY Zenon, HeldAt
  <2>2. Cardinality(Held(f) \ {<<p, fd>>}) = Cardinality(Held(f)) - 1
    BY Zenon, <1>1, <2>1, HeldSets, Types
  <2>q. QED BY Zenon, <1>1, <1>3, <1>5, <2>2
<1>7. \A q \in Proc, g \in File : Has(q, g)' <=> Has(q, g)
  BY Zenon DEF Has
<1>8. \A g \in File : InLoc(g)' <=> InLoc(g)
  BY Zenon, <1>7 DEF InLoc
<1>9. AloneInv'
  BY Zenon, <1>7 DEF IInv, AloneInv
<1>10. CountInv'
  <2>1. ASSUME NEW g \in File
        PROVE  IF InLoc(g)' THEN ref'[g] = 1 /\ Held(g)' = {} ELSE ref'[g] = Cardinality(Held(g)')
    <3>1. CASE g = f
      BY Zenon, <1>1, <1>6, <1>8, <3>1
    <3>2. CASE g # f
      <4>1. IF InLoc(g) THEN ref[g] = 1 /\ Held(g) = {} ELSE ref[g] = Cardinality(Held(g))
        BY Zenon DEF IInv, CountInv
      <4>q. QED BY Zenon, <1>4, <1>5, <1>8, <3>2, <4>1
    <3>q. QED BY Zenon, <3>1, <3>2
  <2>q. QED BY Zenon, <2>1 DEF CountInv
<1>11. ref[f] \in Nat
  BY Zenon, Types
<1>12. FreeInv'
  <2>1. ASSUME NEW g \in File, ref'[g] = 0
        PROVE  obj'[g] = None
    <3>1. CASE g = f
      <4>1. ref[f] = 1
        BY <1>5, <1>11, <2>1, <3>1
      <4>q. QED BY Zenon, <1>5, <3>1, <4>1
    <3>2. CASE g # f
      BY Zenon, <1>5, <2>1, <3>2 DEF IInv, FreeInv
    <3>q. QED BY Zenon, <3>1, <3>2
  <2>q. QED BY Zenon, <2>1 DEF FreeInv
<1>13. FdReady'
  <2>1. ASSUME NEW q \in Proc, NEW d \in Fd, ofile'[q][d] # None
        PROVE  obj'[ofile'[q][d]] # None
    <3>1. PICK g \in File : g = ofile'[q][d]
      BY <1>2, <2>1
    <3>2. ofile[q][d] = g
      BY <1>2, <2>1, <3>1
    <3>3. g # None /\ obj[g] # None
      BY Zenon, <2>1, <3>1, <3>2 DEF IInv, FdReady
    <3>4. CASE g = f
      <4>1. <<q, d>> \in Held(f)'
        BY Zenon, <3>1, <3>4, HeldAt
      <4>2. Held(f)' \subseteq Proc \X Fd
        BY Zenon, HeldAt
      <4>3. Cardinality(Held(f)') # 0
        BY Zenon, <4>1, <4>2, HeldSets, Types
      <4>4. ref[f] > 1
        BY <1>1, <1>5, <1>6, <1>11, <4>3
      <4>q. QED BY Zenon, <1>5, <3>1, <3>3, <3>4, <4>4
    <3>5. CASE g # f
      BY Zenon, <1>5, <3>1, <3>3, <3>5
    <3>q. QED BY Zenon, <3>4, <3>5
  <2>q. QED BY Zenon, <2>1 DEF FdReady
<1>14. TypeOK'
  <2>1. live' \subseteq Obj \X End
    BY Zenon, Types
  <2>q. QED BY Zenon, <1>2, <1>5, <2>1 DEF TypeOK
<1>15. LocOf(p)' /\ loc' \in [Proc -> Seq(File)]
  <2>1. LocOf(p) /\ loc' \in [Proc -> Seq(File)]
    BY Zenon DEF IInv, LocInv
  <2>q. QED BY <2>1 DEF LocOf
<1>16. \A q \in Proc \ {p}, g \in File : Has(q, g) => obj'[g] = obj[g]
  BY Zenon, <1>1, <1>5 DEF InLoc
<1>17. pc'[p] # "unused" /\ pc'[p] # "pipefd" /\ pc'[p] \notin {"open", "pipe"}
  OBVIOUS
<1>18. \A q \in Proc \ {p} : pc'[q] = pc[q] /\ loc'[q] = loc[q] /\ ofile'[q] = ofile[q]
  BY Zenon, <1>2
<1>19. Own(obj', pend', live')
  BY Zenon, <1>5
<1>q. QED
  BY Zenon, <1>9, <1>10, <1>12, <1>13, <1>14, <1>15, <1>16, <1>17, <1>18, <1>19, CallStep

\* sys_close() preserves IInv.
LEMMA closeStep ==
  ASSUME IInv, NEW p \in Proc, close(p)
  PROVE  IInv'
<1>1. PICK fd \in Fd \ FreeFd(p) : ofile' = [ofile EXCEPT ![p][fd] = None] /\ fileclose(p, ofile[p][fd])
  BY Zenon DEF close
<1>2. pc[p] = "run" /\ pend[p] = None /\ UNCHANGED <<loc, pc, live>>
  BY Zenon DEF close, At
<1>3. PICK f \in File : f = ofile[p][fd]
  <2>1. ofile[p][fd] # None
    BY Zenon DEF FreeFd
  <2>q. QED BY <2>1, Types
<1>4. fileclose(p, f) /\ ofile[p][fd] = f /\ fd \in Fd
  BY Zenon, <1>1, <1>3
<1>5. pc[p] \in {"run", "exit"} /\ pc'[p] \in {"run", "exit"}
  BY <1>2
<1>6. /\ pc' \in [Proc -> {"unused", "run", "open", "pipe", "pipefd", "undo", "exit"}]
      /\ \A q \in Proc \ {p} : pc'[q] = pc[q]
  BY Zenon, <1>2, Types
<1>7. ofile' = [ofile EXCEPT ![p][fd] = None]
  BY Zenon, <1>1
<1>q. QED BY Zenon, <1>2, <1>4, <1>5, <1>6, <1>7, CloseFd

\* A process that is gone has no descriptors.
LEMMA Leave ==
  ASSUME IInv, NEW p \in Proc, pc[p] \in {"run", "exit"}, FreeFd(p) = Fd,
         pc' = [pc EXCEPT ![p] = "unused"], UNCHANGED <<ref, obj, ofile, loc, pend, live>>
  PROVE  IInv'
<1>1. /\ pc'[p] = "unused" /\ \A q \in Proc \ {p} : pc'[q] = pc[q]
      /\ pc' \in [Proc -> {"unused", "run", "open", "pipe", "pipefd", "undo", "exit"}]
  BY Zenon, Types
<1>2. LocOf(p)'
  BY <1>1 DEF IInv, LocInv, LocOf
<1>3. TypeOK'
  BY Zenon, <1>1, Types DEF TypeOK
<1>4. FreeInv' /\ FdReady'
  BY Zenon DEF IInv, FreeInv, FdReady
<1>5. Own(obj', pend', live') /\ loc' \in [Proc -> Seq(File)]
  BY Zenon, Types DEF IInv
<1>6. AloneInv' /\ CountInv'
  BY Zenon, SameUses
<1>7. pc'[p] # "pipefd" /\ pc'[p] \notin {"open", "pipe"}
  BY <1>1
<1>8. \A fd \in Fd : ofile'[p][fd] = None
  BY Zenon DEF FreeFd
<1>9. \A q \in Proc \ {p} : pc'[q] = pc[q] /\ loc'[q] = loc[q] /\ ofile'[q] = ofile[q]
  BY Zenon, <1>1
<1>10. \A q \in Proc \ {p}, f \in File : Has(q, f) => obj'[f] = obj[f]
  OBVIOUS
<1>q. QED BY Zenon, <1>2, <1>3, <1>4, <1>5, <1>6, <1>7, <1>8, <1>9, <1>10, CallStep

\* exit(), which closes one descriptor after the other, preserves IInv.
LEMMA exitStep ==
  ASSUME IInv, NEW p \in Proc, exit(p)
  PROVE  IInv'
<1>1. (pc[p] = "run" \/ pc[p] = "exit") /\ pend[p] = None /\ UNCHANGED <<loc, live>>
  BY Zenon DEF exit, At
<1>2. pc[p] \in {"run", "exit"}
  BY <1>1
<1>3. CASE FreeFd(p) = Fd
  <2>1. pc' = [pc EXCEPT ![p] = "unused"] /\ UNCHANGED <<ref, obj, ofile, loc, pend, live>>
    BY Zenon, <1>1, <1>3 DEF exit
  <2>q. QED BY Zenon, <1>2, <1>3, <2>1, Leave
<1>4. CASE FreeFd(p) # Fd
  <2>1. PICK fd \in Fd, f \in File : fd = Min(Fd \ FreeFd(p)) /\ ofile[p][fd] = f
    BY Zenon, <1>4, FirstFree
  <2>2. /\ fileclose(p, f) /\ ofile' = [ofile EXCEPT ![p][fd] = None]
        /\ pc' = [pc EXCEPT ![p] = "exit"]
    BY Zenon, <1>4, <2>1 DEF exit
  <2>3. /\ pc' \in [Proc -> {"unused", "run", "open", "pipe", "pipefd", "undo", "exit"}]
        /\ pc'[p] = "exit" /\ \A q \in Proc \ {p} : pc'[q] = pc[q]
    BY Zenon, <2>2, Types
  <2>4. pc'[p] \in {"run", "exit"} /\ ofile[p][fd] = f
    BY <2>1, <2>3
  <2>5. ofile' = [ofile EXCEPT ![p][fd] = None] /\ fileclose(p, f)
    BY Zenon, <2>2
  <2>q. QED BY Zenon, <1>1, <1>2, <2>3, <2>4, <2>5, CloseFd
<1>q. QED BY Zenon, <1>3, <1>4


\* filedup() of one descriptor adds one.
LEMMA MoreOne ==
  ASSUME IInv, NEW p \in Proc, NEW fd \in Fd, NEW f \in File, ofile[p][fd] = f, ref' = More({<<p, fd>>})
  PROVE  ref' \in [File -> Nat] /\ ref'[f] = ref[f] + 1 /\ \A g \in File : g # f => ref'[g] = ref[g]
<1>1. /\ {s \in {<<p, fd>>} : ofile[s[1]][s[2]] = f} = {<<p, fd>>}
      /\ \A g : g # f => {s \in {<<p, fd>>} : ofile[s[1]][s[2]] = g} = {}
  OBVIOUS
<1>2. Cardinality({<<p, fd>>}) = 1 /\ Cardinality({}) = 0
  BY Zenon, FS_Singleton, FS_EmptySet
<1>3. ASSUME NEW g \in File
      PROVE  Cardinality({s \in {<<p, fd>>} : ofile[s[1]][s[2]] = g}) = (IF g = f THEN 1 ELSE 0)
  BY Zenon, <1>1, <1>2
<1>4. ASSUME NEW g \in File
      PROVE  ref'[g] = ref[g] + (IF g = f THEN 1 ELSE 0) /\ ref'[g] \in Nat
  <2>1. ref'[g] = ref[g] + (IF g = f THEN 1 ELSE 0)
    BY Zenon, <1>3 DEF More
  <2>2. ref[g] \in Nat
    BY Zenon, Types
  <2>q. QED BY <2>1, <2>2
<1>5. ref' \in [File -> Nat]
  BY Zenon, <1>4 DEF More
<1>6. ref'[f] = ref[f] + 1
  BY Zenon, <1>4
<1>7. ASSUME NEW g \in File, g # f
      PROVE  ref'[g] = ref[g]
  <2>1. ref[g] \in Nat
    BY Zenon, Types
  <2>q. QED BY <1>4, <1>7, <2>1
<1>q. QED BY Zenon, <1>5, <1>6, <1>7

\* sys_dup() preserves IInv.
LEMMA dupStep ==
  ASSUME IInv, NEW p \in Proc, dup(p)
  PROVE  IInv'
<1>1. pc[p] = "run" /\ FreeFd(p) # {} /\ UNCHANGED <<obj, loc, pc, pend, live>>
  BY Zenon DEF dup, At
<1>2. PICK m \in Fd : m = Min(FreeFd(p)) /\ ofile[p][m] = None
  BY Zenon, <1>1, FirstFree
<1>3. PICK fd \in Fd \ FreeFd(p) : /\ ofile' = [ofile EXCEPT ![p][m] = ofile[p][fd]]
                                   /\ ref' = More({<<p, fd>>})
  BY Zenon, <1>2 DEF dup
<1>4. PICK f \in File : f = ofile[p][fd]
  <2>1. ofile[p][fd] # None
    BY Zenon DEF FreeFd
  <2>q. QED BY <2>1, Types
<1>5. /\ ofile' \in [Proc -> [Fd -> File \cup {None}]]
      /\ ofile'[p][m] = f /\ \A d \in Fd \ {m} : ofile'[p][d] = ofile[p][d]
      /\ \A q \in Proc \ {p} : ofile'[q] = ofile[q]
  BY <1>3, <1>4, Types
<1>6. ref' \in [File -> Nat] /\ ref'[f] = ref[f] + 1 /\ \A g \in File : g # f => ref'[g] = ref[g]
  BY Zenon, <1>3, <1>4, MoreOne
<1>7. ~InLoc(f) /\ ref[f] = Cardinality(Held(f)) /\ ref[f] > 0
  BY Zenon, <1>4, Uses
<1> HIDE <1>3
<1>8. <<p, m>> \notin Held(f) /\ Held(f)' = Held(f) \cup {<<p, m>>}
  BY Zenon, <1>2, <1>5, SetFd
<1>9. ASSUME NEW g \in File, g # f
      PROVE  Held(g)' = Held(g)
  <2>1. \A q \in Proc, d \in Fd : ofile'[q][d] = g <=> ofile[q][d] = g
    BY Zenon, <1>2, <1>5, <1>9, Types
  <2>q. QED BY Zenon, <2>1, HeldSame
<1>10. Cardinality(Held(f)') = ref'[f]
  <2>1. Held(f) \subseteq Proc \X Fd
    BY Zenon, HeldAt
  <2>2. Cardinality(Held(f) \cup {<<p, m>>}) = Cardinality(Held(f)) + 1
    BY Zenon, <1>8, <2>1, HeldSets, Types
  <2>q. QED BY Zenon, <1>6, <1>7, <1>8, <2>2
<1>22. \A q \in Proc, g \in File : Has(q, g)' <=> Has(q, g)
  BY Zenon, <1>1 DEF Has
<1>11. \A g \in File : InLoc(g)' <=> InLoc(g)
  BY Zenon, <1>22 DEF InLoc
<1>12. AloneInv'
  BY Zenon, <1>22 DEF IInv, AloneInv
<1>13. CountInv'
  <2>1. ASSUME NEW g \in File
        PROVE  IF InLoc(g)' THEN ref'[g] = 1 /\ Held(g)' = {} ELSE ref'[g] = Cardinality(Held(g)')
    <3>1. CASE g = f
      BY Zenon, <1>7, <1>10, <1>11, <3>1
    <3>2. CASE g # f
      <4>1. IF InLoc(g) THEN ref[g] = 1 /\ Held(g) = {} ELSE ref[g] = Cardinality(Held(g))
        BY Zenon DEF IInv, CountInv
      <4>q. QED BY Zenon, <1>6, <1>9, <1>11, <3>2, <4>1
    <3>q. QED BY Zenon, <3>1, <3>2
  <2>q. QED BY Zenon, <2>1 DEF CountInv
<1>14. TypeOK'
  BY Zenon, <1>1, <1>5, <1>6, Types DEF TypeOK
<1>15. LocOf(p)' /\ loc' \in [Proc -> Seq(File)]
  BY Zenon, <1>1 DEF IInv, LocInv, LocOf
<1>16. FreeInv'
  <2>1. \A g \in File : ref'[g] = 0 => ref[g] = 0
    BY <1>6, Types
  <2>q. QED BY Zenon, <1>1, <2>1 DEF IInv, FreeInv
<1>17. FdReady'
  <2>1. ASSUME NEW q \in Proc, NEW d \in Fd, ofile'[q][d] # None
        PROVE  obj[ofile'[q][d]] # None
    <3>1. CASE q = p /\ d = m
      <4>1. f # None /\ ofile'[q][d] = f
        BY Zenon, <1>5, <3>1, Types
      <4>q. QED BY Zenon, <1>4, <4>1 DEF IInv, FdReady
    <3>2. CASE ~(q = p /\ d = m)
      <4>1. ofile'[q][d] = ofile[q][d]
        BY Zenon, <1>5, <3>2
      <4>q. QED BY Zenon, <2>1, <4>1 DEF IInv, FdReady
    <3>q. QED BY Zenon, <3>1, <3>2
  <2>q. QED BY Zenon, <1>1, <2>1 DEF FdReady
<1>18. Own(obj', pend', live')
  BY Zenon, <1>1 DEF IInv
<1>19. pc'[p] # "unused" /\ pc'[p] # "pipefd" /\ pc'[p] \notin {"open", "pipe"}
  BY <1>1
<1>20. \A q \in Proc \ {p} : pc'[q] = pc[q] /\ loc'[q] = loc[q] /\ ofile'[q] = ofile[q]
  BY Zenon, <1>1, <1>5
<1>21. \A q \in Proc \ {p}, g \in File : Has(q, g) => obj'[g] = obj[g]
  BY Zenon, <1>1
<1>q. QED
  BY Zenon, <1>12, <1>13, <1>14, <1>15, <1>16, <1>17, <1>18, <1>19, <1>20, <1>21, CallStep

\* The descriptors of p that are of f, and the same ones of a child.
Mine(p, f) == {s \in {p} \X Fd : ofile[s[1]][s[2]] = f}
Theirs(p, q, f) == {s \in {q} \X Fd : ofile[p][s[2]] = f}

\* The child has as many descriptors of a file as the parent.
LEMMA CopyFds ==
  ASSUME IInv, NEW p \in Proc, NEW q \in Proc, NEW f
  PROVE  /\ IsFiniteSet(Mine(p, f)) /\ IsFiniteSet(Theirs(p, q, f))
         /\ Cardinality(Theirs(p, q, f)) = Cardinality(Mine(p, f))
<1> DEFINE M == Mine(p, f)
           T == Theirs(p, q, f)
           b == [s \in M |-> <<q, s[2]>>]
<1>1. IsFiniteSet(M)
  <2>1. M \subseteq Proc \X Fd
    BY DEF Mine
  <2>q. QED BY Zenon, <2>1, HeldSets, Types
<1>2. \A s \in M : s = <<p, s[2]>> /\ s[2] \in Fd /\ ofile[p][s[2]] = f
  BY DEF Mine
<1>3. \A s : s \in T <=> \E d \in Fd : s = <<q, d>> /\ ofile[p][d] = f
  BY DEF Theirs
<1>4. b \in [M -> T]
  <2>1. \A s \in M : <<q, s[2]>> \in T
    BY Zenon, <1>2, <1>3
  <2>q. QED BY Zenon, <2>1
<1>5. \A s, t \in M : b[s] = b[t] => s = t
  <2>1. ASSUME NEW s \in M, NEW t \in M, b[s] = b[t]
        PROVE  s = t
    <3>1. <<q, s[2]>> = <<q, t[2]>>
      BY Zenon, <2>1
    <3>2. s[2] = t[2]
      BY Zenon, <3>1
    <3>q. QED BY Zenon, <1>2, <3>2
  <2>q. QED BY Zenon, <2>1
<1>6. \A t \in T : \E s \in M : b[s] = t
  <2>1. ASSUME NEW t \in T
        PROVE  \E s \in M : b[s] = t
    <3>1. PICK d \in Fd : t = <<q, d>> /\ ofile[p][d] = f
      BY Zenon, <1>3
    <3>2. <<p, d>> \in M /\ <<p, d>>[2] = d
      BY <3>1 DEF Mine
    <3>3. b[<<p, d>>] = t
      BY Zenon, <3>1, <3>2
    <3>q. QED BY Zenon, <3>2, <3>3
  <2>q. QED BY Zenon, <2>1
<1> HIDE DEF b, M, T
<1>7. ExistsBijection(M, T)
  <2>1. DOMAIN b = M
    BY Zenon, <1>4
  <2>q. QED BY Zenon, <1>4, <1>5, <1>6, <2>1 DEF ExistsBijection, Bijection, Injection, Surjection, IsInjective
<1>8. IsFiniteSet(T) /\ Cardinality(T) = Cardinality(M)
  BY Zenon, <1>1, <1>7, FS_Bijection
<1>q. QED BY Zenon, <1>1, <1>8 DEF M, T

\* fork() preserves IInv: the parent's descriptors are counted twice.
LEMMA forkStep ==
  ASSUME IInv, NEW p \in Proc, fork(p)
  PROVE  IInv'
<1>1. pc[p] = "run" /\ ref' = More({p} \X Fd) /\ UNCHANGED <<obj, loc, pend, live>>
  BY Zenon DEF fork, At
<1>2. PICK q \in Proc : /\ pc[q] = "unused" /\ ofile' = [ofile EXCEPT ![q] = ofile[p]]
                        /\ pc' = [pc EXCEPT ![q] = "run"]
  BY Zenon DEF fork
<1>3. /\ ofile' \in [Proc -> [Fd -> File \cup {None}]] /\ ofile'[q] = ofile[p]
      /\ \A r \in Proc \ {q} : ofile'[r] = ofile[r]
  BY Zenon, <1>2, Types
<1>4. /\ pc'[q] = "run" /\ \A r \in Proc \ {q} : pc'[r] = pc[r]
      /\ pc' \in [Proc -> {"unused", "run", "open", "pipe", "pipefd", "undo", "exit"}]
  BY Zenon, <1>2, Types
<1>5. \A d \in Fd : ofile[q][d] = None
  BY Zenon, <1>2 DEF IInv, UnusedInv
<1>6. ASSUME NEW f \in File
      PROVE  ref'[f] = ref[f] + Cardinality(Mine(p, f)) /\ Cardinality(Mine(p, f)) \in Nat /\ ref'[f] \in Nat
  <2>1. ref'[f] = ref[f] + Cardinality(Mine(p, f))
    BY Zenon, <1>1 DEF More, Mine
  <2>2. Cardinality(Mine(p, f)) \in Nat /\ ref[f] \in Nat
    BY Zenon, CopyFds, FS_CardinalityType, Types
  <2>q. QED BY <2>1, <2>2
<1>7. ref' \in [File -> Nat]
  BY Zenon, <1>1, <1>6 DEF More
<1>8. ASSUME NEW f \in File
      PROVE  Held(f)' = Held(f) \cup Theirs(p, q, f) /\ Held(f) \cap Theirs(p, q, f) = {}
  <2>1. /\ Held(f)' \subseteq Proc \X Fd
        /\ Held(f) \cup Theirs(p, q, f) \subseteq Proc \X Fd
    BY HeldAt DEF Theirs
  <2>2. \A r \in Proc, d \in Fd : <<r, d>> \in Theirs(p, q, f) <=> r = q /\ ofile[p][d] = f
    BY DEF Theirs
  <2>3. f # None
    BY Zenon, Types
  <2>4. \A d \in Fd : <<q, d>> \notin Held(f)
    BY <1>5, <2>3, HeldAt
  <2>5. ASSUME NEW r \in Proc, NEW d \in Fd
        PROVE  <<r, d>> \in Held(f)' <=> <<r, d>> \in Held(f) \cup Theirs(p, q, f)
    <3>1. CASE r = q
      <4>1. <<q, d>> \in Held(f)' <=> ofile[p][d] = f
        <5>1. ofile'[q][d] = ofile[p][d]
          BY Zenon, <1>3
        <5>2. <<q, d>> \in Held(f)' <=> ofile'[q][d] = f
          BY Zenon, HeldAt
        <5>q. QED BY Zenon, <5>1, <5>2
      <4>q. QED BY Zenon, <2>2, <2>4, <3>1, <4>1
    <3>2. CASE r # q
      <4>1. ofile'[r][d] = ofile[r][d]
        BY Zenon, <1>3, <3>2
      <4>q. QED BY <2>2, <3>2, <4>1, HeldAt
    <3>q. QED BY Zenon, <3>1, <3>2
  <2>6. Held(f)' = Held(f) \cup Theirs(p, q, f)
    BY <2>1, <2>5, PairSets
  <2>7. ASSUME NEW x \in Held(f), x \in Theirs(p, q, f)
        PROVE  FALSE
    <3>1. PICK d \in Fd : x = <<q, d>>
      BY <2>7 DEF Theirs
    <3>q. QED BY Zenon, <2>4, <2>7, <3>1
  <2>q. QED BY Zenon, <2>6, <2>7
<1>9. \A r \in Proc, g \in File : Has(r, g)' <=> Has(r, g)
  BY Zenon, <1>1 DEF Has
<1>10. \A g \in File : InLoc(g)' <=> InLoc(g)
  BY Zenon, <1>9 DEF InLoc
<1>11. AloneInv'
  BY Zenon, <1>9 DEF IInv, AloneInv
<1>12. CountInv'
  <2>1. ASSUME NEW g \in File
        PROVE  IF InLoc(g)' THEN ref'[g] = 1 /\ Held(g)' = {} ELSE ref'[g] = Cardinality(Held(g)')
    <3>1. /\ IsFiniteSet(Theirs(p, q, g))
          /\ Cardinality(Theirs(p, q, g)) = Cardinality(Mine(p, g))
      BY Zenon, CopyFds
    <3>2. CASE InLoc(g)
      <4>1. ref[g] = 1 /\ Held(g) = {}
        BY Zenon, <3>2 DEF IInv, CountInv
      <4>2. Mine(p, g) = {} /\ Theirs(p, q, g) = {}
        <5>1. \A d \in Fd : ofile[p][d] # g
          BY Zenon, <4>1, HeldAt
        <5>q. QED BY <5>1 DEF Mine, Theirs
      <4>3. Cardinality({}) = 0
        BY Zenon, FS_EmptySet
      <4>4. ref'[g] = 1
        <5>1. ref'[g] = 1 + 0
          BY Zenon, <1>6, <4>1, <4>2, <4>3
        <5>q. QED BY <5>1
      <4>q. QED BY Zenon, <1>8, <1>10, <3>2, <4>1, <4>2, <4>4
    <3>3. CASE ~InLoc(g)
      <4>1. ref[g] = Cardinality(Held(g))
        BY Zenon, <3>3 DEF IInv, CountInv
      <4>2. IsFiniteSet(Held(g)) /\ Cardinality(Held(g)) \in Nat
        BY Zenon, HeldAt, HeldSets, Types
      <4>3. Cardinality(Held(g) \cup Theirs(p, q, g)) =
              Cardinality(Held(g)) + Cardinality(Theirs(p, q, g)) - Cardinality({})
        <5>1. Held(g) \cap Theirs(p, q, g) = {}
          BY Zenon, <1>8
        <5>2. Cardinality(Held(g) \cup Theirs(p, q, g)) =
                Cardinality(Held(g)) + Cardinality(Theirs(p, q, g)) - Cardinality(Held(g) \cap Theirs(p, q, g))
          BY Zenon, <3>1, <4>2, FS_Union
        <5>q. QED BY Zenon, <5>1, <5>2
      <4>4. Cardinality({}) = 0
        BY Zenon, FS_EmptySet
      <4>5. ref'[g] = Cardinality(Held(g) \cup Theirs(p, q, g))
        BY <1>6, <3>1, <4>1, <4>2, <4>3, <4>4
      <4>q. QED BY Zenon, <1>8, <1>10, <3>3, <4>5
    <3>q. QED BY Zenon, <3>2, <3>3
  <2>q. QED BY Zenon, <2>1 DEF CountInv
<1>13. TypeOK'
  BY Zenon, <1>1, <1>3, <1>4, <1>7, Types DEF TypeOK
<1>14. LocOf(q)' /\ loc' \in [Proc -> Seq(File)]
  <2>1. Len(loc[q]) = 0 /\ loc' = loc /\ loc \in [Proc -> Seq(File)]
    BY <1>1, <1>2 DEF IInv, LocInv, LocOf
  <2>q. QED BY <1>4, <2>1 DEF LocOf
<1>15. FreeInv'
  <2>1. \A g \in File : ref'[g] = 0 => ref[g] = 0
    BY <1>6, Types
  <2>q. QED BY Zenon, <1>1, <2>1 DEF IInv, FreeInv
<1>16. FdReady'
  <2>1. ASSUME NEW r \in Proc, NEW d \in Fd, ofile'[r][d] # None
        PROVE  obj[ofile'[r][d]] # None
    <3>1. PICK t \in Proc : ofile'[r] = ofile[t]
      BY Zenon, <1>3
    <3>q. QED BY Zenon, <2>1, <3>1 DEF IInv, FdReady
  <2>q. QED BY Zenon, <1>1, <2>1 DEF FdReady
<1>17. Own(obj', pend', live')
  BY Zenon, <1>1 DEF IInv
<1>18. pc'[q] # "unused" /\ pc'[q] # "pipefd" /\ pc'[q] \notin {"open", "pipe"}
  BY <1>4
<1>19. \A r \in Proc \ {q} : pc'[r] = pc[r] /\ loc'[r] = loc[r] /\ ofile'[r] = ofile[r]
  BY Zenon, <1>1, <1>3, <1>4
<1>20. \A r \in Proc \ {q}, g \in File : Has(r, g) => obj'[g] = obj[g]
  BY Zenon, <1>1
<1>q. QED
  BY Zenon, <1>11, <1>12, <1>13, <1>14, <1>15, <1>16, <1>17, <1>18, <1>19, <1>20, CallStep

-----------------------------------------------------------------------------
(* The theorems                                                            *)

\* A step that changes nothing preserves IInv.
LEMMA Stutter ==
  ASSUME IInv, UNCHANGED vars
  PROVE  IInv'
<1>1. UNCHANGED <<ref, obj, ofile, loc, pc, pend, live>>
  BY Zenon DEF vars
<1>2. AloneInv' /\ CountInv'
  BY Zenon, <1>1, SameUses
<1>3. TypeOK' /\ LocInv' /\ UnusedInv' /\ FreeInv' /\ HalfInv' /\ FullInv' /\ FdReady'
  <2>1. TypeOK'
    BY Zenon, <1>1 DEF IInv, TypeOK
  <2>2. LocInv'
    BY Zenon, <1>1 DEF IInv, LocInv, LocOf
  <2>3. UnusedInv' /\ FreeInv' /\ FdReady'
    BY Zenon, <1>1 DEF IInv, UnusedInv, FreeInv, FdReady
  <2>4. HalfInv' /\ FullInv'
    BY Zenon, <1>1 DEF IInv, HalfInv, FullInv
  <2>q. QED BY Zenon, <2>1, <2>2, <2>3, <2>4
<1>4. FileTableAssumption' /\ Own(obj, pend, live)'
  BY Zenon, <1>1 DEF IInv, FileTableAssumption, Own
<1>q. QED BY Zenon, <1>2, <1>3, <1>4 DEF IInv

\* IInv holds when no file is open.
LEMMA InitIInv ==
  ASSUME FileTableAssumption, Init
  PROVE  IInv
<1>1. TypeOK
  BY DEF Init, TypeOK, NoFiles
<1>2. <<>> \in Seq(File) /\ Len(<<>>) = 0 /\ 1..Len(<<>>) = {}
  OBVIOUS
<1>3. loc \in [Proc -> Seq(File)] /\ \A p \in Proc : loc[p] = <<>>
  BY Zenon, <1>2 DEF Init
<1>4. \A p \in Proc : pc[p] \in {"unused", "run"}
  BY Zenon DEF Init
<1>5. LocInv
  <2>1. ASSUME NEW p \in Proc
        PROVE  LocOf(p)
    <3>1. Len(loc[p]) = 0
      BY Zenon, <1>2, <1>3
    <3>q. QED BY <1>4, <3>1 DEF LocOf
  <2>q. QED BY Zenon, <1>3, <2>1 DEF LocInv
<1>6. \A p \in Proc : \A f : ~Has(p, f)
  BY Zenon, <1>2, <1>3 DEF Has
<1>7. \A p \in Proc, d \in Fd : ofile[p][d] = None
  BY DEF Init, NoFiles
<1>8. \A f \in File : Held(f) = {}
  BY <1>7 DEF Held, FileTableAssumption
<1>9. CountInv
  <2>1. Cardinality({}) = 0
    BY Zenon, FS_EmptySet
  <2>2. \A f \in File : ref[f] = 0
    BY Zenon DEF Init
  <2>q. QED BY Zenon, <1>6, <1>8, <2>1, <2>2 DEF CountInv, InLoc
<1>10. AloneInv /\ UnusedInv /\ FdReady
  BY Zenon, <1>6, <1>7 DEF AloneInv, UnusedInv, FdReady
<1>11. FreeInv /\ HalfInv /\ FullInv
  <2>1. \A f \in File : obj[f] = None
    BY Zenon DEF Init
  <2>q. QED BY <1>4, <2>1 DEF FreeInv, HalfInv, FullInv
<1>12. Own(obj, pend, live)
  BY Zenon DEF Init, Own
<1>q. QED BY Zenon, <1>1, <1>5, <1>9, <1>10, <1>11, <1>12 DEF IInv

\* Every step of a process preserves IInv.
LEMMA NextIInv ==
  ASSUME IInv, [Next]_vars
  PROVE  IInv'
<1>1. CASE Next
  BY Zenon, <1>1, fileallocStep, openStep, pipeallocStep, pipefdStep, undoStep, releaseStep,
     closeStep, dupStep, forkStep, exitStep DEF Next, Step
<1>q. QED BY Zenon, <1>1, Stutter

\* A call's file is in one of its variables.
LEMMA Places ==
  ASSUME IInv, NEW f \in File
  PROVE  /\ InLoc(f) => \E x : {y \in Proc \X {1, 2} : y[2] <= Len(loc[y[1]]) /\ loc[y[1]][y[2]] = f} = {x}
         /\ ~InLoc(f) => {y \in Proc \X {1, 2} : y[2] <= Len(loc[y[1]]) /\ loc[y[1]][y[2]] = f} = {}
<1> DEFINE P == {y \in Proc \X {1, 2} : y[2] <= Len(loc[y[1]]) /\ loc[y[1]][y[2]] = f}
<1>1. ASSUME NEW p \in Proc
      PROVE  Len(loc[p]) \in 0..2 /\ (Len(loc[p]) = 2 => loc[p][1] # loc[p][2])
  BY Zenon DEF IInv, LocInv, LocOf
<1>2. \A y : y \in P <=> \E p \in Proc : \E k \in 1..Len(loc[p]) : y = <<p, k>> /\ loc[p][k] = f
  <2>1. ASSUME NEW p \in Proc, NEW k
        PROVE  k \in {1, 2} /\ k <= Len(loc[p]) <=> k \in 1..Len(loc[p])
    <3>1. PICK m \in 0..2 : m = Len(loc[p])
      BY Zenon, <1>1
    <3>2. k \in {1, 2} /\ k <= m <=> k \in 1..m
      OBVIOUS
    <3>q. QED BY Zenon, <3>1, <3>2
  <2>2. \A y : y \in P <=> \E p \in Proc : \E k \in {1, 2} : y = <<p, k>> /\ k <= Len(loc[p]) /\ loc[p][k] = f
    OBVIOUS
  <2> HIDE DEF P
  <2>3. ASSUME NEW y
        PROVE  y \in P <=> \E p \in Proc : \E k \in 1..Len(loc[p]) : y = <<p, k>> /\ loc[p][k] = f
    <3>1. ASSUME y \in P
          PROVE  \E p \in Proc : \E k \in 1..Len(loc[p]) : y = <<p, k>> /\ loc[p][k] = f
      <4>1. PICK p \in Proc : \E k \in {1, 2} : y = <<p, k>> /\ k <= Len(loc[p]) /\ loc[p][k] = f
        BY Zenon, <2>2, <3>1
      <4>2. PICK k \in {1, 2} : y = <<p, k>> /\ k <= Len(loc[p]) /\ loc[p][k] = f
        BY Zenon, <4>1
      <4>3. k \in 1..Len(loc[p])
        BY Zenon, <2>1, <4>2
      <4>q. QED BY Zenon, <4>2, <4>3
    <3>2. ASSUME NEW p \in Proc, NEW k \in 1..Len(loc[p]), y = <<p, k>>, loc[p][k] = f
          PROVE  y \in P
      BY Zenon, <2>1, <2>2, <3>2
    <3>q. QED BY Zenon, <3>1, <3>2
  <2>q. QED BY Zenon, <2>3
<1> HIDE DEF P
<1>3. CASE ~InLoc(f)
  BY Zenon, <1>2, <1>3 DEF InLoc, Has, P
<1>4. CASE InLoc(f)
  <2>1. PICK p \in Proc : Has(p, f)
    BY Zenon, <1>4 DEF InLoc
  <2>2. PICK k \in 1..Len(loc[p]) : loc[p][k] = f
    BY Zenon, <2>1 DEF Has
  <2>3. ASSUME NEW y \in P
        PROVE  y = <<p, k>>
    <3>0. PICK q \in Proc : \E j \in 1..Len(loc[q]) : y = <<q, j>> /\ loc[q][j] = f
      BY Zenon, <1>2
    <3>1. PICK j \in 1..Len(loc[q]) : y = <<q, j>> /\ loc[q][j] = f
      BY Zenon, <3>0
    <3>2. q = p
      BY Zenon, <2>1, <3>1 DEF Has, IInv, AloneInv
    <3>3. j = k
      <4>1. j \in 1..Len(loc[p]) /\ loc[p][j] = f
        BY Zenon, <3>1, <3>2
      <4>q. QED BY <1>1, <2>2, <4>1
    <3>q. QED BY Zenon, <3>1, <3>2, <3>3
  <2>4. <<p, k>> \in P
    BY Zenon, <1>2, <2>2
  <2>5. P = {<<p, k>>}
    BY Zenon, <2>3, <2>4
  <2>q. QED BY Zenon, <1>4, <2>5 DEF P
<1>q. QED BY Zenon, <1>3, <1>4

\* ref, as the sum of descriptors and local variables.
LEMMA Exact ==
  ASSUME IInv
  PROVE  RefExact
<1>1. ASSUME NEW f \in File
      PROVE  ref[f] = Cardinality(Held(f))
                      + Cardinality({x \in Proc \X {1, 2} : x[2] <= Len(loc[x[1]]) /\ loc[x[1]][x[2]] = f})
  <2> DEFINE P == {x \in Proc \X {1, 2} : x[2] <= Len(loc[x[1]]) /\ loc[x[1]][x[2]] = f}
  <2>1. (InLoc(f) => \E x : P = {x}) /\ (~InLoc(f) => P = {})
    BY Zenon, Places
  <2> HIDE DEF P
  <2>2. Cardinality({}) = 0
    BY Zenon, FS_EmptySet
  <2>3. IF InLoc(f) THEN ref[f] = 1 /\ Held(f) = {} ELSE ref[f] = Cardinality(Held(f))
    BY Zenon DEF IInv, CountInv
  <2>4. CASE InLoc(f)
    <3>1. Cardinality(P) = 1
      BY Zenon, <2>1, <2>4, FS_Singleton
    <3>2. ref[f] = 1 /\ Cardinality(Held(f)) = 0
      BY Zenon, <2>2, <2>3, <2>4
    <3>3. ref[f] = Cardinality(Held(f)) + Cardinality(P)
      BY <3>1, <3>2
    <3>q. QED BY Zenon, <3>3 DEF P
  <2>5. CASE ~InLoc(f)
    <3>1. Cardinality(P) = 0 /\ ref[f] = Cardinality(Held(f))
      BY Zenon, <2>1, <2>2, <2>3, <2>5
    <3>2. ref[f] \in Nat
      BY Zenon, Types
    <3>3. ref[f] = Cardinality(Held(f)) + Cardinality(P)
      BY <3>1, <3>2
    <3>q. QED BY Zenon, <3>3 DEF P
  <2>q. QED BY Zenon, <2>4, <2>5
<1>q. QED BY Zenon, <1>1 DEF RefExact, Held

\* Every open object has exactly one place.
LEMMA Owned ==
  ASSUME IInv
  PROVE  OwnedOnce
<1>1. Own(obj, pend, live)
  BY Zenon DEF IInv
<1>2. ASSUME NEW e \in live
      PROVE  Cardinality({f \in File : obj[f] = e}) + Cardinality({p \in Proc : pend[p] = e}) = 1
  <2>1. e # None
    BY Zenon, Types
  <2>2. Cardinality({}) = 0
    BY Zenon, FS_EmptySet
  <2>3. CASE \E f \in File : obj[f] = e
    <3>1. PICK f \in File : obj[f] = e
      BY Zenon, <2>3
    <3>2. {g \in File : obj[g] = e} = {f}
      BY Zenon, <1>1, <2>1, <3>1 DEF Own
    <3>3. {p \in Proc : pend[p] = e} = {}
      BY Zenon, <1>1, <2>1, <3>1 DEF Own
    <3>4. Cardinality({f}) = 1
      BY Zenon, FS_Singleton
    <3>q. QED BY <2>2, <3>2, <3>3, <3>4
  <2>4. CASE \E p \in Proc : pend[p] = e
    <3>1. PICK p \in Proc : pend[p] = e
      BY Zenon, <2>4
    <3>2. {q \in Proc : pend[q] = e} = {p}
      BY Zenon, <1>1, <2>1, <3>1 DEF Own
    <3>3. {f \in File : obj[f] = e} = {}
      <4>1. \A f \in File : obj[f] # e
        BY Zenon, <1>1, <2>1, <3>1 DEF Own
      <4>q. QED BY Zenon, <4>1
    <3>4. Cardinality({p}) = 1
      BY Zenon, FS_Singleton
    <3>q. QED BY <2>2, <3>2, <3>3, <3>4
  <2>q. QED BY Zenon, <1>1, <2>3, <2>4 DEF Own
<1>q. QED BY Zenon, <1>1, <1>2 DEF Own, OwnedOnce

\* IInv holds in every reachable state of filealloc(), filedup(), fileclose() and
\* the system calls that use them.
THEOREM Invariance == FileTableAssumption /\ Spec => []IInv
<1>1. FileTableAssumption /\ Init => IInv
  BY Zenon, InitIInv
<1>2. IInv /\ [Next]_vars => IInv'
  BY Zenon, NextIInv
<1>q. QED BY <1>1, <1>2, PTL DEF Spec

\* A file's ref is the number of its descriptors and of the calls that hold it, so
\* filedup() and fileclose() never panic and filealloc() gives out no file in use.
THEOREM RefExactHolds == FileTableAssumption /\ Spec => []RefExact
<1>1. IInv => RefExact
  BY Zenon, Exact
<1>q. QED BY <1>1, Invariance, PTL

\* fileclose() releases an inode or an end of a pipe when its last descriptor goes,
\* once: an object that is open is in one file or in one pending release.
THEOREM OwnedOnceHolds == FileTableAssumption /\ Spec => []OwnedOnce
<1>1. IInv => OwnedOnce
  BY Zenon, Owned
<1>q. QED BY <1>1, Invariance, PTL

\* No descriptor, dup()ed or inherited from fork(), is of a file whose type is not
\* set yet: fileread() and filewrite() never panic.
THEOREM FdReadyHolds == FileTableAssumption /\ Spec => []FdReady
<1>1. IInv => FdReady
  BY Zenon DEF IInv
<1>q. QED BY <1>1, Invariance, PTL

=============================================================================
