-------------------------------- MODULE Pipe --------------------------------
(***************************************************************************)
(* A pipe of kernel/pipe.c and the processes at its two ends.  A step is   *)
(* one iteration of the loops of pipewrite() and piperead(), under         *)
(* pi->lock; kill() needs no pi->lock and comes between any two, and       *)
(* between the test of killed and sleep().                                 *)
(***************************************************************************)
EXTENDS Integers, Sequences, FiniteSets

CONSTANTS
  Writer, Reader,  \* processes with the write end, with the read end
  None,
  Byte,
  PIPESIZE,
  UINT,            \* number of values of a uint; a multiple of PIPESIZE
  MaxN             \* bound on the n of a call

Proc == Writer \cup Reader

ASSUME PipeAssumption ==
  /\ Writer \cap Reader = {} /\ None \notin Proc
  /\ PIPESIZE \in Nat \ {0} /\ UINT \in Nat /\ UINT > PIPESIZE
  /\ UINT % PIPESIZE = 0
  /\ MaxN \in Nat \ {0}

VARIABLES
  data, nread, nwrite, readopen, writeopen,
  lock,            \* holder of pi->lock, or None
  users,           \* processes with their end still open
  pc,              \* where it is; "out" of the pipe's code
  i, n,            \* locals of pipewrite() and piperead()
  killed

ring == <<data, nread, nwrite>>
ends == <<readopen, writeopen, users>>
vars == <<ring, ends, lock, pc, i, n, killed>>

Full == nwrite = (nread + PIPESIZE) % UINT
Empty == nread = nwrite

Init ==
  /\ data \in [0..PIPESIZE - 1 -> Byte]
  /\ nread = 0 /\ nwrite = 0
  /\ readopen = FALSE /\ writeopen = FALSE
  /\ lock = None
  /\ users = {}
  /\ pc = [p \in Proc |-> "out"]
  /\ i = [p \in Proc |-> 0]
  /\ n = [p \in Proc |-> 0]
  /\ killed = [p \in Proc |-> FALSE]

\* wakeup() of the processes of s asleep on the pipe, after change f of pc.
wakeup(f, s) == [p \in Proc |-> IF p \in s /\ f[p] = "asleep" THEN "acquire" ELSE f[p]]

\* The end of a call by p: wake the processes of s, release pi->lock.
return(p, s) ==
  /\ pc' = wakeup([pc EXCEPT ![p] = "out"], s)
  /\ lock' = None
  /\ i' = [i EXCEPT ![p] = 0]
  /\ n' = [n EXCEPT ![p] = 0]

\* Mutant: the counters of the page's last use are kept.
pipeallocStale ==
  /\ ~readopen /\ ~writeopen
  /\ users = {}
  /\ lock = None
  /\ readopen' = TRUE /\ writeopen' = TRUE
  /\ users' = Proc
  /\ killed' = [p \in Proc |-> FALSE]
  /\ UNCHANGED <<ring, lock, pc, i, n>>

\* pipealloc() for new processes; kalloc() leaves the old bytes in data.
pipealloc ==
  /\ ~readopen /\ ~writeopen
  /\ users = {}
  /\ lock = None
  /\ readopen' = TRUE /\ writeopen' = TRUE
  /\ nread' = 0 /\ nwrite' = 0
  /\ users' = Proc
  /\ killed' = [p \in Proc |-> FALSE]
  /\ UNCHANGED <<data, lock, pc, i, n>>

\* read() or write() of n bytes on an open end.
syscall(p) ==
  /\ p \in users
  /\ pc[p] = "out"
  /\ ~killed[p]
  /\ pc' = [pc EXCEPT ![p] = "acquire"]
  /\ \E k \in 0..MaxN : n' = [n EXCEPT ![p] = k]
  /\ UNCHANGED <<ring, ends, lock, i, killed>>

\* acquire(&pi->lock), at the start or in sleep() after a wakeup.
acquire(p) ==
  /\ pc[p] = "acquire"
  /\ lock = None
  /\ lock' = p
  /\ pc' = [pc EXCEPT ![p] = IF p \in Writer THEN "write" ELSE "wait"]
  /\ UNCHANGED <<ring, ends, i, n, killed>>

\* One iteration of pipewrite()'s loop, or its end.
pipewrite(p) ==
  /\ pc[p] = "write"
  /\ \/ \* all is written
        i[p] = n[p] /\ return(p, Reader) /\ UNCHANGED <<data, nwrite>>
     \/ /\ i[p] < n[p] /\ (~readopen \/ killed[p])
        /\ return(p, {})
        /\ UNCHANGED <<data, nwrite>>
     \/ \* pipewrite-full
        /\ i[p] < n[p] /\ readopen /\ ~killed[p] /\ Full
        /\ pc' = wakeup([pc EXCEPT ![p] = "sleep"], Reader)
        /\ UNCHANGED <<data, nwrite, lock, i, n>>
     \/ \* copyin() of one byte
        /\ i[p] < n[p] /\ readopen /\ ~killed[p] /\ ~Full
        /\ \E b \in Byte : data' = [data EXCEPT ![nwrite % PIPESIZE] = b]
        /\ nwrite' = (nwrite + 1) % UINT
        /\ i' = [i EXCEPT ![p] = @ + 1]
        /\ UNCHANGED <<lock, pc, n>>
     \/ \* copyin() failed
        /\ i[p] < n[p] /\ readopen /\ ~killed[p] /\ ~Full
        /\ return(p, Reader)
        /\ UNCHANGED <<data, nwrite>>
  /\ UNCHANGED <<nread, ends, killed>>

\* One iteration of piperead()'s wait for data.
readwait(p) ==
  /\ pc[p] = "wait"
  /\ IF Empty /\ writeopen
     THEN IF killed[p]
          THEN return(p, {})
          ELSE pc' = [pc EXCEPT ![p] = "sleep"] /\ UNCHANGED <<lock, i, n>>
     ELSE pc' = [pc EXCEPT ![p] = "copy"] /\ UNCHANGED <<lock, i, n>>
  /\ UNCHANGED <<ring, ends, killed>>

\* sleep(), of a writer on &pi->nwrite and of a reader on &pi->nread.
sleep(p) ==
  /\ pc[p] = "sleep"
  /\ pc' = [pc EXCEPT ![p] = "asleep"]
  /\ lock' = None
  /\ UNCHANGED <<ring, ends, i, n, killed>>

\* Mutant: piperead() does not wake the writers.
readcopyNoWakeup(p) ==
  /\ pc[p] = "copy"
  /\ IF i[p] = n[p] \/ Empty
     THEN return(p, {}) /\ UNCHANGED nread
     ELSE /\ nread' = (nread + 1) % UINT
          /\ i' = [i EXCEPT ![p] = @ + 1]
          /\ UNCHANGED <<lock, pc, n>>
  /\ UNCHANGED <<data, nwrite, ends, killed>>

\* One iteration of piperead()'s copy, or its end.  The byte is taken out of
\* the pipe before copyout(), which may fail.
readcopy(p) ==
  /\ pc[p] = "copy"
  /\ \/ (i[p] = n[p] \/ Empty) /\ return(p, Writer) /\ UNCHANGED nread
     \/ /\ i[p] < n[p] /\ ~Empty
        /\ nread' = (nread + 1) % UINT
        /\ \/ i' = [i EXCEPT ![p] = @ + 1] /\ UNCHANGED <<lock, pc, n>>
           \/ return(p, Writer)
  /\ UNCHANGED <<data, nwrite, ends, killed>>

\* Mutant: the end is closed as soon as one of the processes closes it.
pipecloseEarly(p) ==
  /\ p \in users
  /\ pc[p] = "out"
  /\ lock = None
  /\ users' = users \ {p}
  /\ IF p \in Writer
     THEN writeopen' = FALSE /\ pc' = wakeup(pc, Reader) /\ UNCHANGED readopen
     ELSE readopen' = FALSE /\ pc' = wakeup(pc, Writer) /\ UNCHANGED writeopen
  /\ UNCHANGED <<ring, lock, i, n, killed>>

\* Mutant: closing the last write end wakes nobody.
pipecloseNoWakeup(p) ==
  /\ p \in users
  /\ pc[p] = "out"
  /\ lock = None
  /\ users' = users \ {p}
  /\ writeopen' = (writeopen /\ users \cap Writer # {p})
  /\ readopen' = (readopen /\ users \cap Reader # {p})
  /\ UNCHANGED <<ring, lock, pc, i, n, killed>>

\* close() or exit() of p; pipeclose() when p is the last one at its end.
\* With both ends closed the pipe is freed.
pipeclose(p) ==
  /\ p \in users
  /\ pc[p] = "out"
  /\ users' = users \ {p}
  /\ \/ /\ users \cap Writer = {p} /\ lock = None
        /\ writeopen' = FALSE
        /\ pc' = wakeup(pc, Reader)
        /\ UNCHANGED readopen
     \/ /\ users \cap Reader = {p} /\ lock = None
        /\ readopen' = FALSE
        /\ pc' = wakeup(pc, Writer)
        /\ UNCHANGED writeopen
     \/ /\ users \cap Writer # {p} /\ users \cap Reader # {p}
        /\ UNCHANGED <<readopen, writeopen, pc>>
  /\ UNCHANGED <<ring, lock, i, n, killed>>

\* kill(), from any other process.
kill(p) ==
  /\ p \in users
  /\ ~killed[p]
  /\ killed' = [killed EXCEPT ![p] = TRUE]
  /\ pc' = wakeup(pc, {p})
  /\ UNCHANGED <<ring, ends, lock, i, n>>

-----------------------------------------------------------------------------
\* What a process does by itself inside a call.
Inside(p) == acquire(p) \/ pipewrite(p) \/ readwait(p) \/ readcopy(p) \/ sleep(p)

Next ==
  \/ pipealloc
  \/ \E p \in Proc : syscall(p) \/ Inside(p) \/ pipeclose(p) \/ kill(p)

Spec == Init /\ [][Next]_vars

\* A process inside a call keeps running and gets a lock that is free again
\* and again; a killed process exits and so closes its end.
Fairness ==
  \A p \in Proc : SF_vars(Inside(p)) /\ SF_vars(pipeclose(p) /\ killed[p])

FairSpec == Spec /\ Fairness

-----------------------------------------------------------------------------
(* Properties                                                              *)

\* Every variable has its type; the counters may wrap around.
TypeOK ==
  /\ data \in [0..PIPESIZE - 1 -> Byte]
  /\ nread \in 0..UINT - 1 /\ nwrite \in 0..UINT - 1
  /\ (nwrite - nread + UINT) % UINT <= PIPESIZE
  /\ readopen \in BOOLEAN /\ writeopen \in BOOLEAN
  /\ lock \in Proc \cup {None}
  /\ users \subseteq Proc
  /\ pc \in [Proc -> {"out", "acquire", "write", "wait", "copy", "sleep", "asleep"}]
  /\ i \in [Proc -> 0..MaxN] /\ n \in [Proc -> 0..MaxN]
  /\ killed \in [Proc -> BOOLEAN]

\* The bytes in the ring, oldest first.
Contents ==
  [k \in 1..((nwrite - nread + UINT) % UINT) |-> data[(nread + k - 1) % PIPESIZE]]

\* The ring is a bounded first-in first-out channel, across any number of
\* wrap-arounds of nread and nwrite and with several readers and writers.
C == INSTANCE Channel WITH q <- Contents
ChannelSpec == C!Spec

\* pi->lock is held just by a process between acquire and release, and a pipe
\* that is freed (both ends closed) has no process in its code.
NoUseAfterFree ==
  /\ \A p \in Proc : lock = p <=> pc[p] \in {"write", "wait", "copy", "sleep"}
  /\ ~readopen /\ ~writeopen => \A p \in Proc : pc[p] = "out"

\* A process asleep has a reason to: a writer sleeps only on a full pipe with
\* readers, a reader only on an empty pipe with writers.  The one exception is
\* a writer killed in the middle of its loop, which leaves without wakeup().
NoLostWakeup ==
  lock = None =>
    /\ \A p \in Writer : pc[p] = "asleep" => Full /\ readopen
    /\ \A p \in Reader : pc[p] = "asleep" =>
         writeopen /\ (Empty \/ \E r \in Writer : killed[r])

\* Closing one end lets every call at the other end return.
CloseEndsCalls ==
  /\ \A p \in Reader : readopen /\ ~writeopen ~> pc[p] = "out"
  /\ \A p \in Writer : writeopen /\ ~readopen ~> pc[p] = "out"

\* piperead() sleeps on "pipe-empty" (its comment): no reader is asleep while
\* the pipe has bytes and pi->lock is free.
ReaderSleepsOnEmpty ==
  \A p \in Reader : pc[p] = "asleep" /\ lock = None => Empty

=============================================================================
