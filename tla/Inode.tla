------------------------------- MODULE Inode --------------------------------
(***************************************************************************)
(* The inode table of kernel/fs.c: reference counts, the inodes' locks,    *)
(* the copies of on-disk inodes and their freeing, under concurrent        *)
(* lookups, creations, links, unlinks and closes.  A step is a section     *)
(* under itable.lock, under the buffer of an inode block, or what a call   *)
(* does to an inode while it has it locked.  A process has one inode at a  *)
(* time.                                                                   *)
(***************************************************************************)
EXTENDS Integers, FiniteSets

CONSTANTS
  Proc, Inum,
  None,
  NINODE,
  MaxLink          \* bound on the links of an inode

Entry == 1..NINODE

\* What is assumed of the constants.
InodeAssumption ==
  /\ NINODE \in Nat \ {0} /\ MaxLink \in Nat \ {0}
  /\ IsFiniteSet(Proc) /\ None \notin Proc \cup Inum

VARIABLES
  alloc, dlink,    \* on disk: type is not 0; nlink
  names,           \* directory entries of each inode
  inum, ref, valid, nlink,  \* fields of each table entry
  lock,            \* holder of ip->lock, or None
  pc, ip,          \* where a process is, and its table entry
  new              \* the inode ialloc() took and iget() has not found yet

disk == <<alloc, dlink, names>>
vars == <<disk, inum, ref, valid, nlink, lock, pc, ip, new>>

\* A disk with some files of one name, and iinit().
Init ==
  /\ alloc \in [Inum -> BOOLEAN]
  /\ names = [i \in Inum |-> IF alloc[i] THEN 1 ELSE 0]
  /\ dlink = names
  /\ inum = [e \in Entry |-> None]
  /\ ref = [e \in Entry |-> 0]
  /\ valid = [e \in Entry |-> FALSE]
  /\ nlink = [e \in Entry |-> 0]
  /\ lock = [e \in Entry |-> None]
  /\ pc = [p \in Proc |-> "out"]
  /\ ip = [p \in Proc |-> 1]
  /\ new = [p \in Proc |-> None]

\* Mutant: a table entry counts as the inode's only once it has been read.
FoundValid(i) == {e \in Entry : ref[e] > 0 /\ inum[e] = i /\ valid[e]}

\* The entries iget(i) finds.
Found(i) == {e \in Entry : ref[e] > 0 /\ inum[e] = i}

\* Mutant: a reference to an entry in use is not counted.
MoreOne(e) == [ref EXCEPT ![e] = 1]

\* ip->ref++ of iget() and idup()
More(e) == [ref EXCEPT ![e] = @ + 1]

\* iget(): one more reference to the inode's entry, or the first empty one; with
\* none empty it panics, and the caller takes no step.
iget(p, i) ==
  /\ \E e \in Entry :
       \/ /\ e \in Found(i)
          /\ ref' = More(e)
          /\ ip' = [ip EXCEPT ![p] = e]
          /\ UNCHANGED <<inum, valid>>
       \/ /\ Found(i) = {} /\ ref[e] = 0 /\ \A d \in Entry : ref[d] = 0 => e <= d
          /\ inum' = [inum EXCEPT ![e] = i]
          /\ ref' = [ref EXCEPT ![e] = 1]
          /\ valid' = [valid EXCEPT ![e] = FALSE]
          /\ ip' = [ip EXCEPT ![p] = e]
  /\ UNCHANGED <<disk, nlink, lock>>

\* dirlookup(): iget() of a name's inode, with the directory locked.
dirlookup(p) ==
  /\ pc[p] = "out"
  /\ \E i \in Inum : names[i] > 0 /\ iget(p, i)
  /\ pc' = [pc EXCEPT ![p] = "ref"]
  /\ UNCHANGED new

\* ialloc(): a free inode becomes allocated, then iget().
ialloc(p) ==
  /\ pc[p] = "out"
  /\ \E i \in Inum :
       /\ ~alloc[i]
       /\ alloc' = [alloc EXCEPT ![i] = TRUE]
       /\ dlink' = [dlink EXCEPT ![i] = 0]
       /\ new' = [new EXCEPT ![p] = i]
  /\ pc' = [pc EXCEPT ![p] = "ialloc"]
  /\ UNCHANGED <<names, inum, ref, valid, nlink, lock, ip>>

\* ialloc(): all inodes are in use; create() gives up.
iallocfail(p) ==
  /\ pc[p] = "out" /\ \A i \in Inum : alloc[i]
  /\ UNCHANGED vars

iallocget(p) ==
  /\ pc[p] = "ialloc"
  /\ iget(p, new[p])
  /\ pc' = [pc EXCEPT ![p] = "newref"]
  /\ new' = [new EXCEPT ![p] = None]

\* idup() for a process q that begins to share the inode.
idup(p, q) ==
  /\ pc[p] \in {"ref", "locked"} /\ pc[q] = "out"
  /\ ref' = More(ip[p])
  /\ ip' = [ip EXCEPT ![q] = ip[p]]
  /\ pc' = [pc EXCEPT ![q] = "ref"]
  /\ UNCHANGED <<disk, inum, valid, nlink, lock, new>>

\* Mutant: ilock() trusts the nlink left in the entry by an earlier inode.
NeedReadNever(e) == FALSE

NeedRead(e) == ~valid[e]

\* ilock(): lock the entry and read the inode if necessary.
ilock(p) ==
  /\ pc[p] \in {"ref", "newref", "relock"}
  /\ lock[ip[p]] = None
  /\ lock' = [lock EXCEPT ![ip[p]] = p]
  /\ valid' = [valid EXCEPT ![ip[p]] = TRUE]
  /\ nlink' = [nlink EXCEPT ![ip[p]] = IF NeedRead(ip[p]) THEN dlink[inum[ip[p]]] ELSE @]
  /\ pc' = [pc EXCEPT ![p] = CASE pc[p] = "ref" -> "locked" [] pc[p] = "newref" -> "new" [] OTHER -> "unlink"]
  /\ UNCHANGED <<disk, inum, ref, ip, new>>

\* Mutant: the lock is not given back.
UnlockNot(e) == lock

Unlock(e) == [lock EXCEPT ![e] = None]

\* Mutant: the new link count is not written to disk.
setlinkMemory(p, n) == nlink' = [nlink EXCEPT ![ip[p]] = n] /\ UNCHANGED dlink

\* ip->nlink = n; iupdate(ip)
setlink(p, n) ==
  /\ nlink' = [nlink EXCEPT ![ip[p]] = n]
  /\ dlink' = [dlink EXCEPT ![inum[ip[p]]] = n]

\* create(): the new inode gets its link and its name, or is given up.
create(p) ==
  /\ pc[p] = "new"
  /\ \/ /\ setlink(p, 1)
        /\ names' = [names EXCEPT ![inum[ip[p]]] = 1]
        /\ pc' = [pc EXCEPT ![p] = "locked"]
     \/ setlink(p, 0) /\ pc' = [pc EXCEPT ![p] = "unlock"] /\ UNCHANGED names
  /\ UNCHANGED <<alloc, inum, ref, valid, lock, ip, new>>

\* sys_link(): nlink first, with ip locked, and the name later, with dp locked.
link(p) ==
  /\ pc[p] = "locked" /\ nlink[ip[p]] < MaxLink
  /\ setlink(p, nlink[ip[p]] + 1)
  /\ lock' = Unlock(ip[p])
  /\ pc' = [pc EXCEPT ![p] = "dirlink"]
  /\ UNCHANGED <<alloc, names, inum, ref, valid, ip, new>>

dirlink(p) ==
  /\ pc[p] = "dirlink"
  /\ \/ /\ names' = [names EXCEPT ![inum[ip[p]]] = @ + 1]
        /\ pc' = [pc EXCEPT ![p] = "iput"]
     \/ pc' = [pc EXCEPT ![p] = "relock"] /\ UNCHANGED names
  /\ UNCHANGED <<alloc, dlink, inum, ref, valid, nlink, lock, ip, new>>

\* sys_link()'s "bad:", which takes the link back.
linkbad(p) ==
  /\ pc[p] = "unlink"
  /\ setlink(p, nlink[ip[p]] - 1)
  /\ pc' = [pc EXCEPT ![p] = "unlock"]
  /\ UNCHANGED <<alloc, names, inum, ref, valid, lock, ip, new>>

\* sys_unlink(): remove a name, with the directory and the inode locked.
unlink(p) ==
  /\ pc[p] = "locked" /\ names[inum[ip[p]]] > 0
  /\ names' = [names EXCEPT ![inum[ip[p]]] = @ - 1]
  /\ setlink(p, nlink[ip[p]] - 1)
  /\ pc' = [pc EXCEPT ![p] = "unlock"]
  /\ UNCHANGED <<alloc, inum, ref, valid, lock, ip, new>>

\* iunlock(), with the inode kept or on the way to iput().
iunlock(p) ==
  /\ pc[p] \in {"locked", "unlock"}
  /\ lock' = Unlock(ip[p])
  /\ pc' = [pc EXCEPT ![p] = IF pc[p] = "unlock" THEN "iput" ELSE "ref"]
  /\ UNCHANGED <<disk, inum, ref, valid, nlink, ip, new>>

\* fileclose() and other callers of iput() with an unlocked inode.
close(p) ==
  /\ pc[p] = "ref"
  /\ pc' = [pc EXCEPT ![p] = "iput"]
  /\ UNCHANGED <<disk, inum, ref, valid, nlink, lock, ip, new>>

\* Mutant: the test forgets the other references.
LastAny(e) == valid[e] /\ nlink[e] = 0

\* iput()'s test for the last reference to an inode without links.
Last(e) == ref[e] = 1 /\ valid[e] /\ nlink[e] = 0

\* iput(): lock the entry to free the inode, or go on to ref--.
iput(p) ==
  /\ pc[p] = "iput"
  /\ IF Last(ip[p])
     THEN /\ lock[ip[p]] = None
          /\ lock' = [lock EXCEPT ![ip[p]] = p]
          /\ pc' = [pc EXCEPT ![p] = "trunc"]
          /\ UNCHANGED <<ref, ip>>
     ELSE /\ ref' = [ref EXCEPT ![ip[p]] = @ - 1]
          /\ pc' = [pc EXCEPT ![p] = "out"]
          /\ ip' = [ip EXCEPT ![p] = 1]
          /\ UNCHANGED lock
  /\ UNCHANGED <<disk, inum, valid, nlink, new>>

\* iput(): itrunc(), type = 0, iupdate().
free(p) ==
  /\ pc[p] = "trunc"
  /\ alloc' = [alloc EXCEPT ![inum[ip[p]]] = FALSE]
  /\ pc' = [pc EXCEPT ![p] = "freed"]
  /\ UNCHANGED <<dlink, names, inum, ref, valid, nlink, lock, ip, new>>

\* iput(): valid = 0, releasesleep().
invalidate(p) ==
  /\ pc[p] = "freed"
  /\ valid' = [valid EXCEPT ![ip[p]] = FALSE]
  /\ lock' = Unlock(ip[p])
  /\ pc' = [pc EXCEPT ![p] = "drop"]
  /\ UNCHANGED <<disk, inum, ref, nlink, ip, new>>

\* iput(): ref-- after the inode is freed.
drop(p) ==
  /\ pc[p] = "drop"
  /\ ref' = [ref EXCEPT ![ip[p]] = @ - 1]
  /\ pc' = [pc EXCEPT ![p] = "out"]
  /\ ip' = [ip EXCEPT ![p] = 1]
  /\ UNCHANGED <<disk, inum, valid, nlink, lock, new>>

Step(p) ==
  \/ dirlookup(p) \/ ialloc(p) \/ iallocfail(p) \/ iallocget(p) \/ ilock(p)
  \/ create(p) \/ link(p) \/ dirlink(p) \/ linkbad(p) \/ unlink(p) \/ iunlock(p) \/ close(p)
  \/ iput(p) \/ free(p) \/ invalidate(p) \/ drop(p)

Next == \E p \in Proc : Step(p) \/ \E q \in Proc : idup(p, q)

Spec == Init /\ [][Next]_vars

-----------------------------------------------------------------------------
HasRef(p) == pc[p] \notin {"out", "ialloc"}
HasLock(p) == pc[p] \in {"locked", "new", "unlink", "unlock", "trunc", "freed"}
Freed(p) == pc[p] \in {"freed", "drop"}

\* Every variable has its type: no reference or link count falls below zero.
TypeOK ==
  /\ alloc \in [Inum -> BOOLEAN]
  /\ dlink \in [Inum -> Nat] /\ names \in [Inum -> Nat]
  /\ inum \in [Entry -> Inum \cup {None}]
  /\ ref \in [Entry -> Nat]
  /\ valid \in [Entry -> BOOLEAN]
  /\ nlink \in [Entry -> Nat]
  /\ lock \in [Entry -> Proc \cup {None}]
  /\ pc \in [Proc -> {"out", "ialloc", "ref", "newref", "locked", "new", "dirlink", "relock",
                      "unlink", "unlock", "iput", "trunc", "freed", "drop"}]
  /\ ip \in [Proc -> Entry]
  /\ new \in [Proc -> Inum \cup {None}]

\* An entry's ref is the number of pointers to it, so it is recycled when and
\* only when no process can use it any more.
RefExact == \A e \in Entry : ref[e] = Cardinality({p \in Proc : HasRef(p) /\ ip[p] = e})

\* No inode is in the table twice, hence one lock and one copy for all.
OneEntry == \A d, e \in Entry : ref[d] > 0 /\ ref[e] > 0 /\ inum[d] = inum[e] => d = e

\* A lock is held by just the process that is between ilock() and iunlock().
LockExact == \A e \in Entry, p \in Proc : lock[e] = p <=> HasLock(p) /\ ip[p] = e

\* An inode that a process refers to stays allocated until that process itself
\* frees it, even if its number is given out again before iput() is done: ilock()
\* never panics with "no type".
RefAllocated == \A p \in Proc : HasRef(p) /\ ~Freed(p) => alloc[inum[ip[p]]]

\* iput() holds itable.lock in acquiresleep(); with ref 1 nobody can have the inode locked.
IputNoBlock == \A p \in Proc : pc[p] = "iput" /\ Last(ip[p]) => lock[ip[p]] = None

\* A copy in the table agrees with the disk when it may be used.
CopyFresh ==
  \A e \in Entry : ref[e] > 0 /\ valid[e] /\ alloc[inum[e]]
                   /\ (\A p \in Proc : HasRef(p) /\ ip[p] = e => pc[p] # "freed")
                   => nlink[e] = dlink[inum[e]]

\* A link count covers the names, and a name leads to an allocated inode.
LinksCover == \A i \in Inum : names[i] > 0 => alloc[i] /\ dlink[i] >= names[i]

\* iput()'s comment (fs.c:331): the last reference to an inode without links frees
\* it.  So one without links is free, or some process has it and will free it.
NoLeak ==
  \A i \in Inum : alloc[i] /\ dlink[i] = 0 =>
    \E p \in Proc : new[p] = i \/ (HasRef(p) /\ ~Freed(p) /\ inum[ip[p]] = i)
=============================================================================
