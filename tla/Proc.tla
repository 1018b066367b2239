-------------------------------- MODULE Proc --------------------------------
(***************************************************************************)
(* The process table of kernel/proc.c and the per-CPU scheduler, at the    *)
(* granularity of spinlock critical sections: a step of a thread of        *)
(* control is one acquire .. release section, or the part of a section     *)
(* up to the next point where another lock is taken or given up.           *)
(*                                                                         *)
(* A CPU runs either its scheduler thread or the kernel thread of the      *)
(* process in c->proc.  A spinlock belongs to a CPU (lk->cpu), not to a    *)
(* thread: p->lock passes from a process to the scheduler, and back,       *)
(* across swtch().                                                         *)
(***************************************************************************)
EXTENDS Integers

CONSTANTS
  NPROC,     \* size of the process table
  CPU,       \* the harts running the kernel
  NoCpu,     \* owner of a free spinlock
  PidArgs,   \* pids that user programs pass to kill and set_type
  TypeArgs,  \* types that user programs pass to set_type
  MaxPid     \* bound: no fork starts once nextpid is beyond it

Slot == 1..NPROC
Cursor == 0..NPROC + 1
NULL == 0
initproc == 1
\* The types the scheduler knows (fcntl.h); set_type stores any int.
Type == {"DEFAULT", "CPU_BOUND", "IO_BOUND"}
AnyType == Type \cup {"OTHER"}

\* Killing init panics the kernel ("init exiting"), which ends the run, so
\* programs are assumed not to name its pid, 1.
ASSUME ConstAssumption ==
  /\ NPROC \in Nat \ {0}
  /\ NoCpu \notin CPU
  /\ PidArgs \subseteq Nat \ {1}
  /\ TypeArgs \subseteq AnyType
  /\ MaxPid \in Nat

VARIABLES
  \* struct proc
  state, pid, parent, chan, killed, type,
  nextpid,
  \* spinlocks: the CPU holding each one
  lock, wait_lock,
  \* struct cpu and the locals of scheduler()
  cpuproc,   \* c->proc
  spc,       \* where the scheduler thread is; "run" while a process has the CPU
  si,        \* the slot its scan is at
  found,     \* the first RUNNABLE slot of each type seen by the scan
  run,       \* run_proc
  \* kernel thread of each process
  pc,        \* where it is, below any timer trap
  trap,      \* yield() of a timer trap on top of it: "none", "sched" or "ret"
  i, w,      \* loop cursors over the table (w is wakeup's)
  kids,      \* havekids of wait()
  arg        \* pid argument of kill and set_type

procVars == <<state, pid, parent, chan, killed, type, nextpid>>
lockVars == <<lock, wait_lock>>
cpuVars == <<cpuproc, spc, si, found, run>>
threadVars == <<pc, trap, i, w, kids, arg>>
vars == <<procVars, lockVars, cpuVars, threadVars>>

\* The state main() leaves behind: userinit() has made slot 1 RUNNABLE and
\* every CPU enters scheduler().
Init ==
  /\ state = [p \in Slot |-> IF p = initproc THEN "RUNNABLE" ELSE "UNUSED"]
  /\ pid = [p \in Slot |-> IF p = initproc THEN 1 ELSE 0]
  /\ parent = [p \in Slot |-> NULL]
  /\ chan = [p \in Slot |-> NULL]
  /\ killed = [p \in Slot |-> FALSE]
  /\ type = [p \in Slot |-> IF p = initproc THEN "DEFAULT" ELSE "OTHER"]
  /\ nextpid = 2
  /\ lock = [p \in Slot |-> NoCpu]
  /\ wait_lock = NoCpu
  /\ cpuproc = [c \in CPU |-> NULL]
  /\ spc = [c \in CPU |-> "scan"]
  /\ si = [c \in CPU |-> 1]
  /\ found = [c \in CPU |-> [t \in Type |-> NULL]]
  /\ run = [c \in CPU |-> NULL]
  /\ pc = [p \in Slot |-> IF p = initproc THEN "forkret" ELSE "none"]
  /\ trap = [p \in Slot |-> "none"]
  /\ i = [p \in Slot |-> 0]
  /\ w = [p \in Slot |-> 0]
  /\ kids = [p \in Slot |-> FALSE]
  /\ arg = [p \in Slot |-> 0]

\* The kernel thread of p has CPU c.
On(p, c) == cpuproc[c] = p /\ spc[c] = "run"

\* The kernel thread of p has CPU c, is at l and no timer trap is in progress.
At(p, c, l) == On(p, c) /\ trap[p] = "none" /\ pc[p] = l

Goto(p, l) == pc' = [pc EXCEPT ![p] = l]

Free(p) == lock[p] = NoCpu
Acquire(p, c) == Free(p) /\ lock' = [lock EXCEPT ![p] = c]
Release(p) == lock' = [lock EXCEPT ![p] = NoCpu]

\* freeproc(): the slot is UNUSED again; type is left as it was.
freeproc(p) ==
  /\ pid' = [pid EXCEPT ![p] = 0]
  /\ parent' = [parent EXCEPT ![p] = NULL]
  /\ chan' = [chan EXCEPT ![p] = NULL]
  /\ killed' = [killed EXCEPT ![p] = FALSE]
  /\ state' = [state EXCEPT ![p] = "UNUSED"]

-----------------------------------------------------------------------------
(* usertrap(): system calls, faults and timer interrupts.                  *)

\* usertrap's first killed() check, then the dispatch of syscall().
usertrap(p, c) ==
  /\ At(p, c, "user")
  /\ Free(p)
  /\ \/ /\ killed[p]
        /\ Goto(p, "exit")
        /\ UNCHANGED <<i, arg>>
     \/ /\ ~killed[p]
        /\ nextpid <= MaxPid
        /\ Goto(p, "alloc")
        /\ i' = [i EXCEPT ![p] = 1]
        /\ UNCHANGED arg
     \/ /\ ~killed[p]
        /\ \E l \in {"wait"} \cup (IF p = initproc THEN {} ELSE {"exit"}) : Goto(p, l)
        /\ UNCHANGED <<i, arg>>
     \/ /\ ~killed[p]
        /\ \E l \in {"kill"} \cup (IF TypeArgs = {} THEN {} ELSE {"settype"}) : Goto(p, l)
        /\ i' = [i EXCEPT ![p] = 1]
        /\ \E a \in PidArgs : arg' = [arg EXCEPT ![p] = a]
  /\ UNCHANGED <<procVars, lockVars, cpuVars, trap, w, kids>>

\* An unexpected scause: setkilled(p).  init's program does not fault.
fault(p, c) ==
  /\ At(p, c, "user")
  /\ p # initproc
  /\ Free(p)
  /\ killed' = [killed EXCEPT ![p] = TRUE]
  /\ Goto(p, "ret")
  /\ UNCHANGED <<state, pid, parent, chan, type, nextpid, lockVars, cpuVars,
                 trap, i, w, kids, arg>>

\* usertrap's second killed() check, on the way back to user space.
trapret(p, c) ==
  /\ At(p, c, "ret")
  /\ Free(p)
  /\ Goto(p, IF killed[p] THEN "exit" ELSE "user")
  /\ UNCHANGED <<procVars, lockVars, cpuVars, trap, i, w, kids, arg>>

\* Where a kernel thread runs with interrupts on: it holds no spinlock.
Interruptible ==
  {"user", "ret", "alloc", "forkparent", "forkrun", "exit", "wait", "kill",
   "settype", "setwrite"}

\* Mutant: usertrap gives up the CPU without the check of killed.
yieldUnchecked(p, c) ==
  /\ On(p, c)
  /\ trap[p] = "none"
  /\ pc[p] \in Interruptible
  /\ Acquire(p, c)
  /\ state' = [state EXCEPT ![p] = "RUNNABLE"]
  /\ trap' = [trap EXCEPT ![p] = "sched"]
  /\ UNCHANGED <<pid, parent, chan, killed, type, nextpid, wait_lock, cpuVars,
                 pc, i, w, kids, arg>>

\* A timer interrupt: yield() up to its call of sched().  From user space
\* usertrap looks at killed first.
yield(p, c) ==
  /\ On(p, c)
  /\ trap[p] = "none"
  /\ pc[p] \in Interruptible
  /\ pc[p] = "user" => ~killed[p]
  /\ Acquire(p, c)
  /\ state' = [state EXCEPT ![p] = "RUNNABLE"]
  /\ trap' = [trap EXCEPT ![p] = "sched"]
  /\ UNCHANGED <<pid, parent, chan, killed, type, nextpid, wait_lock, cpuVars,
                 pc, i, w, kids, arg>>

yieldret(p, c) ==
  /\ On(p, c)
  /\ trap[p] = "ret"
  /\ Release(p)
  /\ trap' = [trap EXCEPT ![p] = "none"]
  /\ UNCHANGED <<procVars, wait_lock, cpuVars, pc, i, w, kids, arg>>

-----------------------------------------------------------------------------
(* fork()                                                                  *)

\* Mutant: allocpid() does not advance nextpid.
allocprocSamePid(p, c) ==
  LET np == i[p] IN
  /\ At(p, c, "alloc")
  /\ np <= NPROC
  /\ Free(np)
  /\ IF state[np] = "UNUSED"
     THEN /\ Acquire(np, c)
          /\ pid' = [pid EXCEPT ![np] = nextpid]
          /\ state' = [state EXCEPT ![np] = "USED"]
          /\ type' = [type EXCEPT ![np] = "DEFAULT"]
          /\ Goto(p, "forkcopy")
          /\ UNCHANGED i
     ELSE /\ i' = [i EXCEPT ![p] = np + 1]
          /\ UNCHANGED <<state, pid, type, lock, pc>>
  /\ UNCHANGED <<parent, chan, killed, nextpid, wait_lock, cpuVars, trap, w, kids, arg>>

\* One iteration of allocproc's search; np is i[p] once it is found, and its
\* lock stays held.
allocproc(p, c) ==
  LET np == i[p] IN
  /\ At(p, c, "alloc")
  /\ IF np > NPROC
     THEN /\ Goto(p, "ret")
          /\ i' = [i EXCEPT ![p] = 0]
          /\ UNCHANGED <<state, pid, type, nextpid, lock>>
     ELSE /\ Free(np)
          /\ IF state[np] = "UNUSED"
             THEN /\ Acquire(np, c)
                  /\ pid' = [pid EXCEPT ![np] = nextpid]
                  /\ nextpid' = nextpid + 1
                  /\ state' = [state EXCEPT ![np] = "USED"]
                  /\ type' = [type EXCEPT ![np] = "DEFAULT"]
                  /\ Goto(p, "forkcopy")
                  /\ UNCHANGED i
             ELSE /\ i' = [i EXCEPT ![p] = np + 1]
                  /\ UNCHANGED <<state, pid, type, nextpid, lock, pc>>
  /\ UNCHANGED <<parent, chan, killed, wait_lock, cpuVars, trap, w, kids, arg>>

\* kalloc, proc_pagetable or uvmcopy failed: the slot goes back.
forkfail(p, c) ==
  /\ At(p, c, "forkcopy")
  /\ freeproc(i[p])
  /\ Release(i[p])
  /\ Goto(p, "ret")
  /\ i' = [i EXCEPT ![p] = 0]
  /\ UNCHANGED <<type, nextpid, wait_lock, cpuVars, trap, w, kids, arg>>

\* Mutant: fork() does not release np->lock.
forkcopyLocked(p, c) ==
  /\ At(p, c, "forkcopy")
  /\ pc' = [pc EXCEPT ![i[p]] = "forkret", ![p] = "forkparent"]
  /\ UNCHANGED <<procVars, lockVars, cpuVars, trap, i, w, kids, arg>>

\* The child's memory, files and context (ra = forkret) are set up.
forkcopy(p, c) ==
  /\ At(p, c, "forkcopy")
  /\ Release(i[p])
  /\ pc' = [pc EXCEPT ![i[p]] = "forkret", ![p] = "forkparent"]
  /\ UNCHANGED <<procVars, wait_lock, cpuVars, trap, i, w, kids, arg>>

forkparent(p, c) ==
  /\ At(p, c, "forkparent")
  /\ wait_lock = NoCpu
  /\ parent' = [parent EXCEPT ![i[p]] = p]
  /\ Goto(p, "forkrun")
  /\ UNCHANGED <<state, pid, chan, killed, type, nextpid, lockVars, cpuVars,
                 trap, i, w, kids, arg>>

forkrun(p, c) ==
  /\ At(p, c, "forkrun")
  /\ Free(i[p])
  /\ state' = [state EXCEPT ![i[p]] = "RUNNABLE"]
  /\ Goto(p, "ret")
  /\ i' = [i EXCEPT ![p] = 0]
  /\ UNCHANGED <<pid, parent, chan, killed, type, nextpid, lockVars, cpuVars,
                 trap, w, kids, arg>>

\* A child's first time on a CPU: it lets go of the lock scheduler() took.
forkret(p, c) ==
  /\ At(p, c, "forkret")
  /\ Release(p)
  /\ Goto(p, "user")
  /\ UNCHANGED <<procVars, wait_lock, cpuVars, trap, i, w, kids, arg>>

-----------------------------------------------------------------------------
(* exit()                                                                  *)

exitlock(p, c) ==
  /\ At(p, c, "exit")
  /\ p # initproc
  /\ wait_lock = NoCpu
  /\ wait_lock' = c
  /\ Goto(p, "reparent")
  /\ i' = [i EXCEPT ![p] = 1]
  /\ UNCHANGED <<procVars, lock, cpuVars, trap, w, kids, arg>>

\* Mutant: reparent() stops one slot short of the end of the table.
reparentShort(p, c) ==
  /\ At(p, c, "reparent")
  /\ IF i[p] >= NPROC
     THEN /\ Goto(p, "wakeparent")
          /\ w' = [w EXCEPT ![p] = 1]
          /\ i' = [i EXCEPT ![p] = 0]
          /\ UNCHANGED parent
     ELSE IF parent[i[p]] = p
     THEN /\ parent' = [parent EXCEPT ![i[p]] = initproc]
          /\ Goto(p, "wakeinit")
          /\ w' = [w EXCEPT ![p] = 1]
          /\ UNCHANGED i
     ELSE /\ i' = [i EXCEPT ![p] = i[p] + 1]
          /\ UNCHANGED <<parent, pc, w>>
  /\ UNCHANGED <<state, pid, chan, killed, type, nextpid, lockVars, cpuVars,
                 trap, kids, arg>>

\* Mutant: exit() goes on without wakeup(p->parent).
reparentNoWakeup(p, c) ==
  /\ At(p, c, "reparent")
  /\ i[p] <= NPROC => parent[i[p]] # p
  /\ IF i[p] > NPROC
     THEN Goto(p, "zombie") /\ i' = [i EXCEPT ![p] = 0]
     ELSE UNCHANGED pc /\ i' = [i EXCEPT ![p] = i[p] + 1]
  /\ UNCHANGED <<procVars, lockVars, cpuVars, trap, w, kids, arg>>

\* One iteration of reparent(); a child handed over calls wakeup(initproc).
reparent(p, c) ==
  /\ At(p, c, "reparent")
  /\ IF i[p] > NPROC
     THEN /\ Goto(p, "wakeparent")
          /\ w' = [w EXCEPT ![p] = 1]
          /\ i' = [i EXCEPT ![p] = 0]
          /\ UNCHANGED parent
     ELSE IF parent[i[p]] = p
     THEN /\ parent' = [parent EXCEPT ![i[p]] = initproc]
          /\ Goto(p, "wakeinit")
          /\ w' = [w EXCEPT ![p] = 1]
          /\ UNCHANGED i
     ELSE /\ i' = [i EXCEPT ![p] = i[p] + 1]
          /\ UNCHANGED <<parent, pc, w>>
  /\ UNCHANGED <<state, pid, chan, killed, type, nextpid, lockVars, cpuVars,
                 trap, kids, arg>>

\* One iteration of wakeup(ch) by p, at slot w[p].
wakeup(p, ch) ==
  LET q == w[p] IN
  /\ q <= NPROC
  /\ q # p => Free(q)
  /\ state' = IF q # p /\ state[q] = "SLEEPING" /\ chan[q] = ch
              THEN [state EXCEPT ![q] = "RUNNABLE"] ELSE state
  /\ w' = [w EXCEPT ![p] = q + 1]

wakeinit(p, c) ==
  /\ At(p, c, "wakeinit")
  /\ \/ /\ wakeup(p, initproc)
        /\ UNCHANGED <<pc, i>>
     \/ /\ w[p] > NPROC
        /\ w' = [w EXCEPT ![p] = 0]
        /\ i' = [i EXCEPT ![p] = i[p] + 1]
        /\ Goto(p, "reparent")
        /\ UNCHANGED state
  /\ UNCHANGED <<pid, parent, chan, killed, type, nextpid, lockVars, cpuVars,
                 trap, kids, arg>>

wakeparent(p, c) ==
  /\ At(p, c, "wakeparent")
  /\ \/ /\ wakeup(p, parent[p])
        /\ UNCHANGED pc
     \/ /\ w[p] > NPROC
        /\ w' = [w EXCEPT ![p] = 0]
        /\ Goto(p, "zombie")
        /\ UNCHANGED state
  /\ UNCHANGED <<pid, parent, chan, killed, type, nextpid, lockVars, cpuVars,
                 trap, i, kids, arg>>

\* exit() takes p->lock, becomes a ZOMBIE and gives up wait_lock; p->lock is
\* kept for sched().
zombie(p, c) ==
  /\ At(p, c, "zombie")
  /\ Acquire(p, c)
  /\ state' = [state EXCEPT ![p] = "ZOMBIE"]
  /\ wait_lock' = NoCpu
  /\ Goto(p, "exitsched")
  /\ UNCHANGED <<pid, parent, chan, killed, type, nextpid, cpuVars,
                 trap, i, w, kids, arg>>

-----------------------------------------------------------------------------
(* wait()                                                                  *)

waitlock(p, c) ==
  /\ At(p, c, "wait")
  /\ wait_lock = NoCpu
  /\ wait_lock' = c
  /\ Goto(p, "waitscan")
  /\ i' = [i EXCEPT ![p] = 1]
  /\ UNCHANGED <<procVars, lock, cpuVars, trap, w, kids, arg>>

\* Mutant: wait() looks at a child's state without its lock.
reapUnlocked(p, c) ==
  /\ At(p, c, "waitscan")
  /\ i[p] <= NPROC
  /\ parent[i[p]] = p
  /\ state[i[p]] = "ZOMBIE"
  /\ freeproc(i[p])
  /\ pc' = [pc EXCEPT ![i[p]] = "none", ![p] = "ret"]
  /\ wait_lock' = NoCpu
  /\ i' = [i EXCEPT ![p] = 0]
  /\ kids' = [kids EXCEPT ![p] = FALSE]
  /\ UNCHANGED <<type, nextpid, lock, cpuVars, trap, w, arg>>

\* The child wait() looks at has exited; copyout of its status may fail, except
\* for init, which passes wait() a null address.
reap(p, c) ==
  /\ At(p, c, "waitscan")
  /\ i[p] <= NPROC
  /\ parent[i[p]] = p
  /\ Free(i[p])
  /\ state[i[p]] = "ZOMBIE"
  /\ \/ /\ freeproc(i[p])
        /\ pc' = [pc EXCEPT ![i[p]] = "none", ![p] = "ret"]
     \/ /\ p # initproc
        /\ Goto(p, "ret")
        /\ UNCHANGED <<state, pid, parent, chan, killed>>
  /\ wait_lock' = NoCpu
  /\ i' = [i EXCEPT ![p] = 0]
  /\ kids' = [kids EXCEPT ![p] = FALSE]
  /\ UNCHANGED <<type, nextpid, lock, cpuVars, trap, w, arg>>

\* wait()'s scan passes a slot that is not an exited child.
waitscan(p, c) ==
  /\ At(p, c, "waitscan")
  /\ i[p] <= NPROC
  /\ parent[i[p]] = p => Free(i[p]) /\ state[i[p]] # "ZOMBIE"
  /\ kids' = [kids EXCEPT ![p] = @ \/ parent[i[p]] = p]
  /\ i' = [i EXCEPT ![p] = i[p] + 1]
  /\ UNCHANGED <<procVars, lockVars, cpuVars, pc, trap, w, arg>>

\* Mutant: wait() gives up wait_lock before it calls sleep().
waitendUnlocks(p, c) ==
  /\ At(p, c, "waitscan")
  /\ i[p] > NPROC
  /\ kids[p] => Free(p)
  /\ Goto(p, IF ~kids[p] \/ killed[p] THEN "ret" ELSE "sleep")
  /\ wait_lock' = NoCpu
  /\ i' = [i EXCEPT ![p] = 0]
  /\ kids' = [kids EXCEPT ![p] = FALSE]
  /\ UNCHANGED <<procVars, lock, cpuVars, trap, w, arg>>

\* The end of the scan: return -1, or go on to sleep(p, &wait_lock).
waitend(p, c) ==
  /\ At(p, c, "waitscan")
  /\ i[p] > NPROC
  /\ kids[p] => Free(p)
  /\ IF ~kids[p] \/ killed[p]
     THEN Goto(p, "ret") /\ wait_lock' = NoCpu
     ELSE Goto(p, "sleep") /\ UNCHANGED wait_lock
  /\ i' = [i EXCEPT ![p] = 0]
  /\ kids' = [kids EXCEPT ![p] = FALSE]
  /\ UNCHANGED <<procVars, lock, cpuVars, trap, w, arg>>

\* Mutant: sleep() does not release the lock it is given.
sleepKeepsLock(p, c) ==
  /\ At(p, c, "sleep")
  /\ Acquire(p, c)
  /\ chan' = [chan EXCEPT ![p] = p]
  /\ state' = [state EXCEPT ![p] = "SLEEPING"]
  /\ Goto(p, "sleepsched")
  /\ UNCHANGED <<pid, parent, killed, type, nextpid, wait_lock, cpuVars,
                 trap, i, w, kids, arg>>

\* sleep(p, &wait_lock) up to its call of sched().
sleep(p, c) ==
  /\ At(p, c, "sleep")
  /\ Acquire(p, c)
  /\ wait_lock' = NoCpu
  /\ chan' = [chan EXCEPT ![p] = p]
  /\ state' = [state EXCEPT ![p] = "SLEEPING"]
  /\ Goto(p, "sleepsched")
  /\ UNCHANGED <<pid, parent, killed, type, nextpid, cpuVars, trap, i, w, kids, arg>>

\* sleep() after sched(); what is left is to take wait_lock again.
sleepret(p, c) ==
  /\ At(p, c, "sleepret")
  /\ chan' = [chan EXCEPT ![p] = NULL]
  /\ Release(p)
  /\ Goto(p, "wait")
  /\ UNCHANGED <<state, pid, parent, killed, type, nextpid, wait_lock, cpuVars,
                 trap, i, w, kids, arg>>

-----------------------------------------------------------------------------
(* kill() and set_type()                                                   *)

\* Mutant: kill() makes its victim RUNNABLE in any state but RUNNING.
killWakesAll(p, c) ==
  LET q == i[p] IN
  /\ At(p, c, "kill")
  /\ q <= NPROC
  /\ Free(q)
  /\ IF pid[q] = arg[p]
     THEN /\ killed' = [killed EXCEPT ![q] = TRUE]
          /\ state' = [state EXCEPT ![q] = IF @ = "RUNNING" THEN @ ELSE "RUNNABLE"]
          /\ Goto(p, "ret")
     ELSE UNCHANGED <<state, killed, pc>>
  /\ i' = [i EXCEPT ![p] = IF pc'[p] = "ret" THEN 0 ELSE q + 1]
  /\ UNCHANGED <<pid, parent, chan, type, nextpid, lockVars, cpuVars, trap, w, kids, arg>>

\* One iteration of kill's loop.
kill(p, c) ==
  LET q == i[p] IN
  /\ At(p, c, "kill")
  /\ IF q > NPROC
     THEN Goto(p, "ret") /\ UNCHANGED <<state, killed>>
     ELSE /\ Free(q)
          /\ IF pid[q] = arg[p]
             THEN /\ killed' = [killed EXCEPT ![q] = TRUE]
                  /\ state' = IF state[q] = "SLEEPING"
                              THEN [state EXCEPT ![q] = "RUNNABLE"] ELSE state
                  /\ Goto(p, "ret")
             ELSE UNCHANGED <<state, killed, pc>>
  /\ i' = [i EXCEPT ![p] = IF pc'[p] = "ret" THEN 0 ELSE q + 1]
  /\ arg' = [arg EXCEPT ![p] = IF pc'[p] = "ret" THEN 0 ELSE @]
  /\ UNCHANGED <<pid, parent, chan, type, nextpid, lockVars, cpuVars, trap, w, kids>>

\* One iteration of set_type's loop, which takes no lock.
settype(p, c) ==
  LET q == i[p] IN
  /\ At(p, c, "settype")
  /\ IF q > NPROC
     THEN Goto(p, "ret") /\ i' = [i EXCEPT ![p] = 0] /\ arg' = [arg EXCEPT ![p] = 0]
     ELSE IF pid[q] = arg[p]
     THEN Goto(p, "setwrite") /\ UNCHANGED <<i, arg>>
     ELSE i' = [i EXCEPT ![p] = q + 1] /\ UNCHANGED <<pc, arg>>
  /\ UNCHANGED <<procVars, lockVars, cpuVars, trap, w, kids>>

\* set_type's store: the slot it matched may have changed hands since.
setwrite(p, c) ==
  /\ At(p, c, "setwrite")
  /\ \E t \in TypeArgs : type' = [type EXCEPT ![i[p]] = t]
  /\ Goto(p, "ret")
  /\ i' = [i EXCEPT ![p] = 0]
  /\ arg' = [arg EXCEPT ![p] = 0]
  /\ UNCHANGED <<state, pid, parent, chan, killed, nextpid, lockVars, cpuVars,
                 trap, w, kids>>

-----------------------------------------------------------------------------
(* scheduler() and sched()                                                 *)

\* About to call swtch() in sched().
Switching(p) ==
  trap[p] = "sched" \/ (trap[p] = "none" /\ pc[p] \in {"sleepsched", "exitsched"})

\* sched(): swtch back to the scheduler, which clears c->proc.  p->lock stays
\* with the CPU.
sched(p, c) ==
  /\ On(p, c)
  /\ Switching(p)
  /\ IF trap[p] = "sched"
     THEN trap' = [trap EXCEPT ![p] = "ret"] /\ UNCHANGED pc
     ELSE /\ Goto(p, IF pc[p] = "sleepsched" THEN "sleepret" ELSE "dead")
          /\ UNCHANGED trap
  /\ cpuproc' = [cpuproc EXCEPT ![c] = NULL]
  /\ spc' = [spc EXCEPT ![c] = "back"]
  /\ UNCHANGED <<procVars, lockVars, si, found, run, i, w, kids, arg>>

\* One iteration of the scan; the first RUNNABLE slot of each type is kept.
scan(c) ==
  LET q == si[c] IN
  /\ spc[c] = "scan"
  /\ q <= NPROC
  /\ Free(q)
  /\ found' = IF state[q] = "RUNNABLE" /\ type[q] \in Type /\ found[c][type[q]] = NULL
              THEN [found EXCEPT ![c][type[q]] = q] ELSE found
  /\ si' = [si EXCEPT ![c] = q + 1]
  /\ UNCHANGED <<procVars, lockVars, cpuproc, spc, run, threadVars>>


\* IO_BOUND before CPU_BOUND before DEFAULT.
Choice(f) ==
  IF f["IO_BOUND"] # NULL THEN f["IO_BOUND"]
  ELSE IF f["CPU_BOUND"] # NULL THEN f["CPU_BOUND"]
  ELSE f["DEFAULT"]

\* The end of the scan: choose run_proc, or wait for an interrupt.
pick(c) ==
  /\ spc[c] = "scan"
  /\ si[c] > NPROC
  /\ run' = [run EXCEPT ![c] = Choice(found[c])]
  /\ spc' = [spc EXCEPT ![c] = IF Choice(found[c]) = NULL THEN "scan" ELSE "acquire"]
  /\ si' = [si EXCEPT ![c] = 1]
  /\ found' = [found EXCEPT ![c] = [t \in Type |-> NULL]]
  /\ UNCHANGED <<procVars, lockVars, cpuproc, threadVars>>

takelock(c) ==
  /\ spc[c] = "acquire"
  /\ Acquire(run[c], c)
  /\ spc' = [spc EXCEPT ![c] = "loop"]
  /\ UNCHANGED <<procVars, wait_lock, cpuproc, si, found, run, threadVars>>

\* Mutant: run_proc is dispatched without looking at its state again.
loopUnchecked(c) ==
  /\ spc[c] \in {"loop", "back"}
  /\ IF spc[c] = "loop" \/ state[run[c]] = "RUNNABLE"
     THEN /\ state' = [state EXCEPT ![run[c]] = "RUNNING"]
          /\ cpuproc' = [cpuproc EXCEPT ![c] = run[c]]
          /\ spc' = [spc EXCEPT ![c] = "run"]
          /\ UNCHANGED <<lock, run>>
     ELSE /\ Release(run[c])
          /\ spc' = [spc EXCEPT ![c] = "scan"]
          /\ run' = [run EXCEPT ![c] = NULL]
          /\ UNCHANGED <<state, cpuproc>>
  /\ UNCHANGED <<pid, parent, chan, killed, type, nextpid, wait_lock, si, found,
                 threadVars>>

\* while(run_proc->state == RUNNABLE): dispatch it, or release and rescan.
\* The test comes after acquire ("loop") and after each swtch back ("back").
loop(c) ==
  /\ spc[c] \in {"loop", "back"}
  /\ IF state[run[c]] = "RUNNABLE"
     THEN /\ state' = [state EXCEPT ![run[c]] = "RUNNING"]
          /\ cpuproc' = [cpuproc EXCEPT ![c] = run[c]]
          /\ spc' = [spc EXCEPT ![c] = "run"]
          /\ UNCHANGED <<lock, run>>
     ELSE /\ Release(run[c])
          /\ spc' = [spc EXCEPT ![c] = "scan"]
          /\ run' = [run EXCEPT ![c] = NULL]
          /\ UNCHANGED <<state, cpuproc>>
  /\ UNCHANGED <<pid, parent, chan, killed, type, nextpid, wait_lock, si, found,
                 threadVars>>

-----------------------------------------------------------------------------
Sched(c) == scan(c) \/ pick(c) \/ takelock(c) \/ loop(c)

\* Leaving and coming back to the CPU.
Switch(p, c) == sched(p, c) \/ yieldret(p, c)

\* Steps a kernel thread takes by itself once it is in the kernel.
Kernel(p, c) ==
  \/ trapret(p, c)
  \/ allocproc(p, c) \/ forkfail(p, c) \/ forkcopy(p, c) \/ forkparent(p, c)
  \/ forkrun(p, c) \/ forkret(p, c)
  \/ exitlock(p, c) \/ reparent(p, c) \/ wakeinit(p, c) \/ wakeparent(p, c)
  \/ zombie(p, c)
  \/ waitlock(p, c) \/ reap(p, c) \/ waitscan(p, c) \/ waitend(p, c)
  \/ sleep(p, c) \/ sleepret(p, c)
  \/ kill(p, c) \/ settype(p, c) \/ setwrite(p, c)

\* Traps: what user programs and the timer do.
Trap(p, c) == usertrap(p, c) \/ fault(p, c) \/ yield(p, c)

Next ==
  \/ \E c \in CPU : Sched(c)
  \/ \E p \in Slot, c \in CPU : Switch(p, c) \/ Kernel(p, c) \/ Trap(p, c)

Spec == Init /\ [][Next]_vars

\* A CPU keeps executing the thread it is on, and one that spins on a lock
\* which is free again and again gets it.  The timer keeps interrupting user
\* programs, but its period is longer than any spin, so that a thread it keeps
\* interrupting in the kernel also moves on.  init's program calls wait()
\* again and again.
Fairness ==
  /\ \A c \in CPU : WF_vars(Sched(c))
  /\ \A p \in Slot :
       /\ WF_vars(\E c \in CPU : Switch(p, c))
       /\ SF_vars(\E c \in CPU : Kernel(p, c))
       /\ WF_vars(\E c \in CPU : Trap(p, c))
       /\ []<><<\E c \in CPU : yield(p, c)>>_vars =>
            []<>(pc[p] = "user") \/ []<><<\E c \in CPU : Kernel(p, c)>>_vars
  /\ SF_vars(\E c \in CPU : usertrap(initproc, c) /\ pc'[initproc] = "wait")

FairSpec == Spec /\ Fairness

-----------------------------------------------------------------------------
(* Properties                                                              *)

Location ==
  {"none", "forkret", "user", "ret", "alloc", "forkcopy", "forkparent", "forkrun",
   "exit", "reparent", "wakeinit", "wakeparent", "zombie", "exitsched", "dead",
   "wait", "waitscan", "sleep", "sleepsched", "sleepret", "kill", "settype", "setwrite"}

\* Every variable has its type.
TypeOK ==
  /\ state \in [Slot -> {"UNUSED", "USED", "SLEEPING", "RUNNABLE", "RUNNING", "ZOMBIE"}]
  /\ pid \in [Slot -> Nat]
  /\ parent \in [Slot -> Slot \cup {NULL}]
  /\ chan \in [Slot -> Slot \cup {NULL}]
  /\ killed \in [Slot -> BOOLEAN]
  /\ type \in [Slot -> AnyType]
  /\ nextpid \in Nat
  /\ lock \in [Slot -> CPU \cup {NoCpu}]
  /\ wait_lock \in CPU \cup {NoCpu}
  /\ cpuproc \in [CPU -> Slot \cup {NULL}]
  /\ spc \in [CPU -> {"scan", "acquire", "loop", "back", "run"}]
  /\ si \in [CPU -> Cursor \ {0}]
  /\ found \in [CPU -> [Type -> Slot \cup {NULL}]]
  /\ run \in [CPU -> Slot \cup {NULL}]
  /\ pc \in [Slot -> Location]
  /\ trap \in [Slot -> {"none", "sched", "ret"}]
  /\ i \in [Slot -> Cursor]
  /\ w \in [Slot -> Cursor]
  /\ kids \in [Slot -> BOOLEAN]
  /\ arg \in [Slot -> Nat]

\* A process is on at most one CPU, although several schedulers can have
\* picked it, and a RUNNING one is on a CPU: two CPUs never share a kernel
\* stack (scheduler() rechecks state under p->lock; the lock is held to swtch).
OneCpu ==
  /\ \A c, d \in CPU : cpuproc[c] = cpuproc[d] /\ cpuproc[c] # NULL => c = d
  /\ \A p \in Slot : state[p] = "RUNNING" => \E c \in CPU : On(p, c)

\* A slot is not freed, let alone given to a new process, while a CPU is still
\* on its kernel stack: wait() takes pp->lock to "make sure the child isn't
\* still in exit() or swtch()".
NoFreeOnCpu ==
  \A c \in CPU : cpuproc[c] # NULL => state[cpuproc[c]] \notin {"UNUSED", "USED"}

\* Where a thread takes some p->lock next, and where it takes wait_lock next.
TakesProcLock ==
  {"user", "ret", "alloc", "forkrun", "wakeinit", "wakeparent", "zombie",
   "waitscan", "sleep", "kill"}
TakesWaitLock == {"forkparent", "exit", "wait"}

\* A thread that left the CPU with its own p->lock held, and will find the
\* lock held again when it is resumed.
Resuming(p) ==
  trap[p] = "ret" \/ (trap[p] = "none" /\ pc[p] \in {"forkret", "sleepret"})

\* Where wait_lock is held.
WaitLocked ==
  {"reparent", "wakeinit", "wakeparent", "zombie", "waitscan", "sleep"}

\* No panic of spinlock.c or sched() is reached: sched() is called with
\* p->lock as the only lock held and state changed, and no CPU acquires a
\* lock it holds, releases one it does not hold, or waits for wait_lock with
\* a p->lock in hand.
NoPanic ==
  \A p \in Slot, c \in CPU : On(p, c) =>
    /\ Switching(p) => /\ lock[p] = c
                       /\ wait_lock # c
                       /\ \A q \in Slot \ {p} : lock[q] # c
                       /\ state[p] # "RUNNING"
    /\ trap[p] = "none" /\ pc[p] \in TakesProcLock => \A q \in Slot : lock[q] # c
    /\ trap[p] = "none" /\ pc[p] \in TakesWaitLock =>
         wait_lock # c /\ \A q \in Slot : lock[q] # c
    /\ Resuming(p) => lock[p] = c
    /\ pc[p] = "forkcopy" => lock[i[p]] = c
    /\ pc[p] \in WaitLocked => wait_lock = c

\* Every process but init has a parent that has not exited, so that some
\* process can wait() for it: exit() hands its children to init before it is
\* a ZOMBIE, and fork() sets parent before the child can run.
ParentAlive ==
  \A p \in Slot :
    /\ parent[p] # NULL => state[parent[p]] \in {"SLEEPING", "RUNNABLE", "RUNNING"}
    /\ p # initproc /\ state[p] \notin {"UNUSED", "USED"} => parent[p] # NULL

\* A process asleep in wait() with an exited child is about to be woken: only
\* reparent() gives a sleeping init a ZOMBIE, and its wakeup(initproc) has
\* still to come to init's slot.
NoLostWakeup ==
  \A p, z \in Slot :
    state[p] = "SLEEPING" /\ parent[z] = p /\ state[z] = "ZOMBIE" =>
      /\ p = initproc
      /\ \E q \in Slot : pc[q] = "wakeinit" /\ w[q] <= p

\* No two processes share a pid, however forks, failed forks and reaping mix.
UniquePids ==
  \A p, q \in Slot : p # q /\ pid[p] = pid[q] => pid[p] = 0

\* The states of a slot follow the life cycle fork, run, exit, wait; a process
\* that has exited never runs again, whatever wakeups and kills reach it.
LifeCycle ==
  [][\A p \in Slot : state'[p] # state[p] =>
       <<state[p], state'[p]>> \in
         {<<"UNUSED", "USED">>, <<"USED", "UNUSED">>, <<"USED", "RUNNABLE">>,
          <<"RUNNABLE", "RUNNING">>, <<"RUNNING", "RUNNABLE">>,
          <<"RUNNING", "SLEEPING">>, <<"SLEEPING", "RUNNABLE">>,
          <<"RUNNING", "ZOMBIE">>, <<"ZOMBIE", "UNUSED">>}]_vars

\* An exited child of init is reaped: wakeup(p->parent) reaches init, or finds
\* it awake and on its way to the scan.  (Other parents need not call wait().)
ZombieReaped ==
  \A p \in Slot : state[p] = "ZOMBIE" /\ parent[p] = initproc ~> state[p] = "UNUSED"

\* A type that scheduler() looks for; set_type() stores any int, and a process
\* with another one is passed over for as long as it keeps it.
Known(p) == type[p] \in Type

\* A killed process exits: it reaches one of usertrap's checks of killed,
\* unless set_type() took it from the scheduler's sight.  This needs a process
\* without children: one with a child that never exits may go to sleep in
\* wait() just after the kill, which then wakes nobody.
KilledExits ==
  \A p \in Slot \ {initproc} :
    killed[p] /\ state[p] # "UNUSED" ~> state[p] \in {"ZOMBIE", "UNUSED"} \/ ~Known(p)


\* What yield() says of itself, "Give up the CPU for one scheduling round": a
\* CPU that a process gave up while another one is RUNNABLE goes through a
\* round before it is on a process again.  scheduler()'s while loop dispatches
\* the process that yielded at once.
YieldGivesUpCpu ==
  [][\A c \in CPU :
       /\ spc[c] = "back"
       /\ \E q \in Slot \ {run[c]} : state[q] = "RUNNABLE" /\ Free(q)
       => cpuproc'[c] = NULL]_vars

\* What kill() says of itself, "Kill the process with the given pid": the slot
\* it marks killed holds a process.  kill(0) matches a free slot.
KillHitsProcess ==
  [][\A q \in Slot : killed'[q] /\ ~killed[q] => state[q] # "UNUSED"]_vars

-----------------------------------------------------------------------------
(* The inductive invariant behind OneCpu, NoFreeOnCpu and NoPanic.         *)

\* A fork() that has a slot in hand.
Forking(p) == pc[p] \in {"forkcopy", "forkparent", "forkrun"}

\* The p->locks CPU c holds, by what its current thread is doing.
Holds(c, q) ==
  \/ spc[c] \in {"loop", "back"} /\ run[c] = q
  \/ spc[c] = "run" /\ run[c] = q /\ (Switching(q) \/ Resuming(q))
  \/ spc[c] = "run" /\ pc[run[c]] = "forkcopy" /\ i[run[c]] = q

\* c->proc is run_proc between the two swtch() of scheduler()'s loop.
CpuInv ==
  \A c \in CPU :
    /\ spc[c] # "scan" => run[c] \in Slot
    /\ cpuproc[c] = IF spc[c] = "run" THEN run[c] ELSE NULL

\* Each p->lock is held just where the code of some thread holds it.
LockInv == \A c \in CPU, q \in Slot : lock[q] = c <=> Holds(c, q)

\* wait_lock is held just inside exit() and wait().
WaitLockInv ==
  \A c \in CPU : wait_lock = c <=> spc[c] = "run" /\ pc[run[c]] \in WaitLocked

\* The state of a slot, and where its kernel thread can be.
StateOf(p) ==
  /\ trap[p] # "none" => pc[p] \in Interruptible
  /\ state[p] \in {"UNUSED", "USED"} => trap[p] = "none" /\ pc[p] \in {"none", "forkret"}
  /\ state[p] = "UNUSED" => pc[p] = "none"
  /\ state[p] = "RUNNABLE" => trap[p] = "sched" \/ Resuming(p)
  /\ state[p] = "RUNNING" => ~Switching(p) /\ pc[p] \notin {"none", "dead"}
  /\ state[p] = "SLEEPING" => trap[p] = "none" /\ pc[p] \in {"sleepsched", "sleepret"}
  /\ state[p] = "ZOMBIE" => trap[p] = "none" /\ pc[p] \in {"exitsched", "dead"}

StateInv == \A p \in Slot : StateOf(p)

\* A RUNNING process and one about to switch away are on a CPU, and only they.
OnCpuInv ==
  \A p \in Slot :
    (\E c \in CPU : On(p, c)) <=> state[p] = "RUNNING" \/ Switching(p)

\* The slot a fork() has in hand is USED and no other fork() has it.
ForkInv ==
  \A p, q \in Slot :
    Forking(p) =>
      /\ i[p] \in Slot
      /\ state[i[p]] = "USED"
      /\ pc[i[p]] = IF pc[p] = "forkcopy" THEN "none" ELSE "forkret"
      /\ Forking(q) /\ q # p => i[q] # i[p]

\* A loop's cursor has left 0, and is in the table inside the loop's body.
CursorOf(p) ==
  /\ pc[p] \in {"alloc", "reparent", "waitscan", "kill", "settype"} => i[p] # 0
  /\ pc[p] \in {"wakeinit", "setwrite"} => i[p] \in Slot
  /\ pc[p] \in {"wakeinit", "wakeparent"} => w[p] # 0

CursorInv == \A p \in Slot : CursorOf(p)

\* Two CPUs are never on one process.
UniqueCpu ==
  \A c, d \in CPU : cpuproc[c] = cpuproc[d] /\ cpuproc[c] # NULL => c = d

\* Who is on which CPU, who holds which lock and where each kernel thread is
\* agree in every state: scheduler(), sched(), sleep(), fork(), exit() and
\* wait() pass p->lock and wait_lock along without losing track of either.
IInv ==
  /\ TypeOK /\ CpuInv /\ UniqueCpu /\ LockInv /\ WaitLockInv
  /\ StateInv /\ OnCpuInv /\ ForkInv /\ CursorInv

-----------------------------------------------------------------------------
(* The inductive invariant behind UniquePids, ParentAlive and NoLostWakeup. *)

\* pids are given out in order.
PidInv == \A p \in Slot : pid[p] < nextpid

\* init is alive, does not exit and is the root of the tree of processes.
InitInv ==
  /\ parent[initproc] = NULL
  /\ state[initproc] \in {"SLEEPING", "RUNNABLE", "RUNNING"}
  /\ pc[initproc] \notin {"reparent", "wakeinit", "wakeparent", "zombie"}

\* A process is not its own parent, and sleeps in wait() on its own channel.
SelfInv ==
  \A p \in Slot : parent[p] # p /\ (state[p] = "SLEEPING" => chan[p] = p)

\* exit() has handed over the children that reparent() has passed, all of them
\* from wakeup(p->parent) on.
HandedOver(p, q) ==
  /\ pc[p] = "reparent" /\ q < i[p] => parent[q] # p
  /\ pc[p] = "wakeinit" /\ q <= i[p] => parent[q] # p
  /\ pc[p] \in {"wakeparent", "zombie"} => parent[q] # p

\* wait() has seen no exited child so far, and none at all when it sleeps.
Scanned(p, q) ==
  (pc[p] = "waitscan" /\ q < i[p]) \/ pc[p] = "sleep" =>
    ~(parent[q] = p /\ state[q] = "ZOMBIE")

\* The parent q of an exiting process p is awake once wakeup() has passed it.
Woken(p, q) ==
  (pc[p] = "wakeparent" /\ q < w[p]) \/ pc[p] = "zombie" =>
    ~(parent[p] = q /\ state[q] = "SLEEPING")

\* What a kernel thread knows of its family at each place of fork(), exit() and
\* wait(): wait_lock keeps it true.
ThreadInv ==
  \A p \in Slot :
    /\ pc[p] = "forkrun" => parent[i[p]] # NULL
    /\ \A q \in Slot : HandedOver(p, q) /\ Scanned(p, q) /\ Woken(p, q)

\* The tree of processes is sound in every state: pids are unique, parents are
\* alive, and no parent sleeps in wait() past the exit of a child.
FamilyInv ==
  /\ PidInv /\ InitInv /\ SelfInv /\ ThreadInv
  /\ UniquePids /\ ParentAlive /\ NoLostWakeup

=============================================================================
