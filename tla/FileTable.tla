----------------------------- MODULE FileTable ------------------------------
(***************************************************************************)
(* Open files: the table of kernel/file.c and the descriptors of processes *)
(* (kernel/sysfile.c, fork() and exit() in kernel/proc.c).  A step is a    *)
(* section under ftable.lock with the process's own work around it.  An    *)
(* object is what a file stands for: an inode reference <<o, "i">>, or an  *)
(* end <<o, "r">>, <<o, "w">> of a pipe.                                   *)
(***************************************************************************)
EXTENDS Process, Integers, Sequences, FiniteSets, FiniteSetsExt

CONSTANTS
  initproc,
  NFILE, NOFILE,
  Obj              \* inodes and pipes

File == 1..NFILE
Fd == 0..NOFILE - 1
End == {"i", "r", "w"}

\* What is assumed of the constants.
FileTableAssumption ==
  /\ NFILE \in Nat \ {0} /\ NOFILE \in Nat \ {0} /\ IsFiniteSet(Proc) /\ initproc \in Proc
  /\ None \notin File \cup (Obj \X End)

VARIABLES
  ref, obj,        \* of each file; obj is None when type is FD_NONE
  ofile,           \* descriptors of each process
  loc,             \* files that a call holds in local variables
  pc,
  pend,            \* fileclose()'s copy of the object it is about to release
  live             \* objects opened and not yet released

vars == <<ref, obj, ofile, loc, pc, pend, live>>

NoFiles == [fd \in Fd |-> None]

Init ==
  /\ ref = [f \in File |-> 0] /\ obj = [f \in File |-> None]
  /\ ofile = [p \in Proc |-> NoFiles]
  /\ loc = [p \in Proc |-> <<>>]
  /\ pc = [p \in Proc |-> IF p = initproc THEN "run" ELSE "unused"]
  /\ pend = [p \in Proc |-> None]
  /\ live = {}

Free == {f \in File : ref[f] = 0}
FreeFd(p) == {fd \in Fd : ofile[p][fd] = None}
New == {o \in Obj : \A e \in live : e[1] # o}
At(p, s) == pc[p] = s /\ pend[p] = None

\* sys_open() or pipealloc() take a file with filealloc().
filealloc(p) ==
  /\ At(p, "run") /\ Free # {} /\ New # {}
  /\ ref' = [ref EXCEPT ![Min(Free)] = 1]
  /\ loc' = [loc EXCEPT ![p] = <<Min(Free)>>]
  /\ \E call \in {"open", "pipe"} : pc' = [pc EXCEPT ![p] = call]
  /\ UNCHANGED <<obj, ofile, pend, live>>

\* sys_open() with a file: fdalloc(), then the file is filled in; or it is closed.
open(p) ==
  /\ At(p, "open")
  /\ IF FreeFd(p) # {} /\ New # {}
     THEN \E o \in New :
            /\ ofile' = [ofile EXCEPT ![p][Min(FreeFd(p))] = loc[p][1]]
            /\ obj' = [obj EXCEPT ![loc[p][1]] = <<o, "i">>]
            /\ live' = live \cup {<<o, "i">>}
            /\ loc' = [loc EXCEPT ![p] = <<>>]
            /\ pc' = [pc EXCEPT ![p] = "run"]
     ELSE pc' = [pc EXCEPT ![p] = "undo"] /\ UNCHANGED <<obj, ofile, live, loc>>
  /\ UNCHANGED <<ref, pend>>

\* pipealloc(): the second file and the pipe; either may not be had.
pipealloc(p) ==
  LET f == Min(Free)
  IN  /\ At(p, "pipe")
      /\ \/ /\ Free # {} /\ \E o \in New :
                 /\ obj' = [obj EXCEPT ![loc[p][1]] = <<o, "r">>, ![f] = <<o, "w">>]
                 /\ live' = live \cup {<<o, "r">>, <<o, "w">>}
            /\ pc' = [pc EXCEPT ![p] = "pipefd"]
         \/ pc' = [pc EXCEPT ![p] = "undo"] /\ UNCHANGED <<obj, live>>
      /\ IF Free = {} THEN UNCHANGED <<ref, loc>>
         ELSE ref' = [ref EXCEPT ![f] = 1] /\ loc' = [loc EXCEPT ![p] = Append(@, f)]
      /\ UNCHANGED <<ofile, pend>>

\* sys_pipe(): two descriptors, told to the caller; or both files are closed.
pipefd(p) ==
  /\ At(p, "pipefd")
  /\ \/ /\ \E r, w \in FreeFd(p) :
             /\ r < w /\ \A fd \in FreeFd(p) : fd < w => fd = r
             /\ ofile' = [ofile EXCEPT ![p] = [@ EXCEPT ![r] = loc[p][1], ![w] = loc[p][2]]]
        /\ loc' = [loc EXCEPT ![p] = <<>>]
        /\ pc' = [pc EXCEPT ![p] = "run"]
     \/ pc' = [pc EXCEPT ![p] = "undo"] /\ UNCHANGED <<ofile, loc>>
  /\ UNCHANGED <<ref, obj, pend, live>>

\* Mutant: the type of a closed file is left as it was.
ClosedKeep(f) == obj

\* f->type = FD_NONE
Closed(f) == [obj EXCEPT ![f] = None]

\* fileclose() under ftable.lock.
fileclose(p, f) ==
  /\ ref' = [ref EXCEPT ![f] = @ - 1]
  /\ IF ref[f] > 1 THEN UNCHANGED <<obj, pend>>
     ELSE pend' = [pend EXCEPT ![p] = obj[f]] /\ obj' = Closed(f)

\* fileclose() without the lock: pipeclose() or iput().
release(p) ==
  /\ pend[p] # None
  /\ live' = live \ {pend[p]}
  /\ pend' = [pend EXCEPT ![p] = None]
  /\ UNCHANGED <<ref, obj, ofile, loc, pc>>

\* The fileclose()s of a call that failed.
undo(p) ==
  /\ At(p, "undo")
  /\ fileclose(p, loc[p][1])
  /\ loc' = [loc EXCEPT ![p] = Tail(@)]
  /\ pc' = [pc EXCEPT ![p] = IF Len(loc[p]) = 1 THEN "run" ELSE "undo"]
  /\ UNCHANGED <<ofile, live>>

close(p) ==
  /\ At(p, "run")
  /\ \E fd \in Fd \ FreeFd(p) :
       /\ ofile' = [ofile EXCEPT ![p][fd] = None]
       /\ fileclose(p, ofile[p][fd])
  /\ UNCHANGED <<loc, pc, live>>

\* Mutant: filedup() is forgotten.
MoreNone(S) == ref

\* filedup() of the files in the descriptors S, pairs of a process and a descriptor.
More(S) == [f \in File |-> ref[f] + Cardinality({s \in S : ofile[s[1]][s[2]] = f})]

dup(p) ==
  /\ At(p, "run") /\ FreeFd(p) # {}
  /\ \E fd \in Fd \ FreeFd(p) :
       /\ ofile' = [ofile EXCEPT ![p][Min(FreeFd(p))] = ofile[p][fd]]
       /\ ref' = More({<<p, fd>>})
  /\ UNCHANGED <<obj, loc, pc, pend, live>>

\* fork() gives the child every descriptor.
fork(p) ==
  /\ At(p, "run")
  /\ \E q \in Proc :
       /\ pc[q] = "unused"
       /\ ofile' = [ofile EXCEPT ![q] = ofile[p]]
       /\ pc' = [pc EXCEPT ![q] = "run"]
  /\ ref' = More({p} \X Fd)
  /\ UNCHANGED <<obj, loc, pend, live>>

\* exit() closes one descriptor after the other.
exit(p) ==
  /\ p # initproc /\ (At(p, "run") \/ At(p, "exit"))
  /\ IF FreeFd(p) = Fd
     THEN pc' = [pc EXCEPT ![p] = "unused"] /\ UNCHANGED <<ref, obj, ofile, pend>>
     ELSE /\ LET fd == Min(Fd \ FreeFd(p))
             IN  fileclose(p, ofile[p][fd]) /\ ofile' = [ofile EXCEPT ![p][fd] = None]
          /\ pc' = [pc EXCEPT ![p] = "exit"]
  /\ UNCHANGED <<loc, live>>

Step(p) ==
  \/ filealloc(p) \/ open(p) \/ pipealloc(p) \/ pipefd(p) \/ undo(p) \/ release(p)
  \/ close(p) \/ dup(p) \/ fork(p) \/ exit(p)

Next == \E p \in Proc : Step(p)

Spec == Init /\ [][Next]_vars

-----------------------------------------------------------------------------
\* Every variable has its type: no ref falls below zero, and descriptors are
\* of files in the table.
TypeOK ==
  /\ ref \in [File -> Nat] /\ obj \in [File -> (Obj \X End) \cup {None}]
  /\ ofile \in [Proc -> [Fd -> File \cup {None}]]
  /\ pc \in [Proc -> {"unused", "run", "open", "pipe", "pipefd", "undo", "exit"}]
  /\ pend \in [Proc -> (Obj \X End) \cup {None}] /\ live \subseteq Obj \X End

\* ref counts the descriptors of all processes and the calls in progress: filedup()
\* and fileclose() never panic, and no file in use is given out again.
RefExact ==
  \A f \in File : ref[f] = Cardinality({x \in Proc \X Fd : ofile[x[1]][x[2]] = f})
                           + Cardinality({x \in Proc \X {1, 2} : x[2] <= Len(loc[x[1]]) /\ loc[x[1]][x[2]] = f})

\* Every object is released exactly once, when its last descriptor goes: one that
\* is open is in one file or about to be released by one process, and no other.
OwnedOnce ==
  /\ \A e \in live : Cardinality({f \in File : obj[f] = e}) + Cardinality({p \in Proc : pend[p] = e}) = 1
  /\ \A f \in File : obj[f] # None => obj[f] \in live
  /\ \A p \in Proc : pend[p] # None => pend[p] \in live

\* A descriptor is never of a half-made file: fileread() and filewrite() never panic.
FdReady == \A p \in Proc, fd \in Fd : ofile[p][fd] # None => obj[ofile[p][fd]] # None
=============================================================================
