--------------------------------- MODULE Fs ---------------------------------
(***************************************************************************)
(* The name space of the file system: path lookup (kernel/fs.c) and the    *)
(* calls that use it (kernel/sysfile.c), by concurrent processes.  A step  *)
(* is what a call does between an ilock() and the matching iunlock(); only *)
(* sys_unlink() waits for a lock with another held.  iput() is one step    *)
(* here: see Inode for its parts.                                          *)
(***************************************************************************)
EXTENDS Integers, Sequences, FiniteSets, SequencesExt

CONSTANTS
  Proc, Inum, Root, None,
  Name,
  Calls,           \* the system calls that processes make
  Dots,            \* which of "." and ".." occur in paths
  MaxPath,         \* bound on the elements of a path
  MaxLink          \* bound on the links of a file

\* What is assumed of the constants.
FsAssumption ==
  /\ Calls \subseteq {"open", "chdir", "link", "create", "mkdir", "unlink"}
  /\ Root \in Inum /\ None \notin Inum
  /\ Dots \subseteq {".", ".."} /\ Dots \cap Name = {} /\ {MaxPath, MaxLink} \subseteq Nat

VARIABLES
  type, nlink,     \* of each inode; type "free" is 0
  ent, up,         \* a directory's entries for names, and its ".."
  c                \* of each process: its call, what it refers to, its directory

vars == <<type, nlink, ent, up, c>>

Path == SeqOf(Name \cup Dots, MaxPath)
Parent == {"create", "mkdir", "unlink", "dirlink"}     \* those that use nameiparent()
Empty == [n \in Name |-> None]

Init ==
  /\ type = [i \in Inum |-> IF i = Root THEN "dir" ELSE "free"]
  /\ nlink = [i \in Inum |-> IF i = Root THEN 1 ELSE 0]
  /\ ent = [i \in Inum |-> Empty]
  /\ up = [i \in Inum |-> Root]
  /\ c = [p \in Proc |-> [pc |-> "out", op |-> "open", path |-> <<>>, ip |-> None, aux |-> None,
                          cwd |-> Root, fd |-> None]]

Locked(i) == \E p \in Proc : c[p].pc = "victim" /\ c[p].ip = i
Refers(r) == {r.cwd, r.fd, r.ip, r.aux}

\* Mutant: iput() forgets that a file is still open.
UnusedDir(i, d) == \A q \in Proc : i \notin {d[q].cwd, d[q].ip, d[q].aux}

\* Mutant: iput() forgets the calls in progress.
UnusedOpen(i, d) == \A q \in Proc : i \notin {d[q].cwd, d[q].fd}

\* Nobody refers to i any more.
Unused(i, d) == \A q \in Proc : i \notin Refers(d[q])

\* The iput()s of a step: p's state becomes r, the directories have entries e, inodes
\* have types t, links n and parents u, and inodes without links or references are freed.
put(p, r, t, n, e, u) ==
  LET d == [c EXCEPT ![p] = r]
      gone == {i \in Inum : t[i] # "free" /\ n[i] = 0 /\ i \in Refers(c[p]) /\ Unused(i, d)}
  IN  /\ c' = d /\ nlink' = n
      /\ type' = [i \in Inum |-> IF i \in gone THEN "free" ELSE t[i]]
      /\ ent' = [i \in Inum |-> IF i \in gone THEN Empty ELSE e[i]]
      /\ up' = [i \in Inum |-> IF i \in gone THEN Root ELSE u[i]]

\* The call goes on, returns, or fails: sys_link() has a link to take back.
go(p, r) == put(p, r, type, nlink, ent, up)
Out(r) == [r EXCEPT !.pc = "out", !.op = "open", !.path = <<>>, !.ip = None, !.aux = None]
finish(p, r) == go(p, Out(r))
fail(p, r) == IF r.op = "dirlink" THEN go(p, [r EXCEPT !.pc = "bad", !.ip = None, !.path = <<>>]) ELSE finish(p, r)

\* ilock(), which panics when the inode is not allocated: see NoPanic.
ilock(i) == ~Locked(i) /\ type[i] # "free"

\* A call begins: its path starts at the root or at the current directory.
call(p) ==
  /\ c[p].pc = "out"
  /\ \E op \in Calls, path \in Path, start \in {Root, c[p].cwd} :
       /\ op \in {"open", "create"} => c[p].fd = None
       /\ go(p, [c[p] EXCEPT !.pc = "walk", !.op = op, !.path = path, !.ip = start])

\* Mutant: create() does not count a directory's "..".
UpLinkNone(dir) == 0

\* The link that a new directory's ".." is to its parent.
UpLink(dir) == IF dir THEN 1 ELSE 0

dirlookup(d, n) == CASE n = "." -> d [] n = ".." -> up[d] [] OTHER -> ent[d][n]

\* Mutant: skipelem() stays at the element.
skipelemNot(path) == path

\* skipelem(): what follows the first element.
skipelem(path) == Tail(path)

\* An iteration of namex()'s loop, or its end.
namex(p) ==
  LET r == c[p]
      next == dirlookup(r.ip, Head(r.path))
  IN  /\ r.pc = "walk"
      /\ IF r.path = <<>>
         THEN IF r.op \in Parent THEN fail(p, r) ELSE go(p, [r EXCEPT !.pc = "found"])
         ELSE /\ ilock(r.ip)
              /\ CASE type[r.ip] # "dir" -> fail(p, r)
                   [] r.op \in Parent /\ Len(r.path) = 1 -> go(p, [r EXCEPT !.pc = "parent"])
                   [] next = None -> fail(p, r)
                   [] OTHER -> go(p, [r EXCEPT !.ip = next, !.path = skipelem(@)])

\* sys_open() without O_CREATE
open(p) ==
  /\ c[p].pc = "found" /\ c[p].op = "open" /\ ilock(c[p].ip)
  /\ finish(p, [c[p] EXCEPT !.fd = c[p].ip])

\* sys_chdir()
chdir(p) ==
  /\ c[p].pc = "found" /\ c[p].op = "chdir" /\ ilock(c[p].ip)
  /\ finish(p, IF type[c[p].ip] = "dir" THEN [c[p] EXCEPT !.cwd = c[p].ip] ELSE c[p])

\* sys_link(): the link is counted before the new name is looked up.
link(p) ==
  LET i == c[p].ip
  IN  /\ c[p].pc = "found" /\ c[p].op = "link" /\ ilock(i)
      /\ IF type[i] = "dir" \/ nlink[i] >= MaxLink THEN finish(p, c[p])
         ELSE /\ \E path \in Path, start \in {Root, c[p].cwd} :
                   c' = [c EXCEPT ![p] = [@ EXCEPT !.pc = "walk", !.op = "dirlink", !.path = path,
                                                   !.ip = start, !.aux = i]]
              /\ nlink' = [nlink EXCEPT ![i] = @ + 1]
              /\ UNCHANGED <<type, ent, up>>

\* sys_link(): the name is added, unless there is one already or the disk is full.
dirlink(p) ==
  LET r == c[p]
      n == Head(r.path)
  IN  /\ r.pc = "parent" /\ r.op = "dirlink" /\ ilock(r.ip)
      /\ \/ /\ dirlookup(r.ip, n) = None
            /\ put(p, Out(r), type, nlink, [ent EXCEPT ![r.ip][n] = r.aux], up)
         \/ fail(p, r)

\* sys_link()'s "bad:": the link is taken back.
linkbad(p) ==
  LET i == c[p].aux
  IN  /\ c[p].pc = "bad" /\ ~Locked(i)
      /\ put(p, Out(c[p]), type, [nlink EXCEPT ![i] = @ - 1], ent, up)

\* Mutant: ".." is always the root.
DotDotRoot(d) == Root

\* What a new directory's ".." is, in directory d.
DotDot(d) == d

\* create() under the directory's lock: find the name, or allocate an inode, fill it
\* in and add its name; the disk or the inodes may run out on the way.
create(p) ==
  LET r == c[p]
      n == Head(r.path)
      dir == r.op = "mkdir"
  IN  /\ r.pc = "parent" /\ r.op \in {"create", "mkdir"} /\ ilock(r.ip)
      /\ IF dirlookup(r.ip, n) # None
         THEN go(p, [r EXCEPT !.pc = "exists", !.ip = dirlookup(r.ip, n)])
         ELSE \/ finish(p, r)
              \/ \E i \in Inum :
                   /\ type[i] = "free"
                   /\ put(p, Out(IF dir THEN r ELSE [r EXCEPT !.fd = i]),
                          [type EXCEPT ![i] = IF dir THEN "dir" ELSE "file"],
                          [nlink EXCEPT ![i] = 1, ![r.ip] = @ + UpLink(dir)],
                          [ent EXCEPT ![r.ip][n] = i],
                          [up EXCEPT ![i] = IF dir THEN DotDot(r.ip) ELSE @])

\* create() of a name that there is: good for open() of a file only.
exists(p) ==
  LET r == c[p]
  IN  /\ r.pc = "exists" /\ ilock(r.ip)
      /\ finish(p, IF r.op = "create" /\ type[r.ip] = "file" THEN [r EXCEPT !.fd = r.ip] ELSE r)

\* sys_unlink() up to the second ilock(), for which it waits with the first held.
unlink(p) ==
  LET r == c[p]
      n == Head(r.path)
  IN  /\ r.pc = "parent" /\ r.op = "unlink" /\ ilock(r.ip)
      /\ IF n \in {".", ".."} \/ dirlookup(r.ip, n) = None THEN finish(p, r)
         ELSE go(p, [r EXCEPT !.pc = "victim", !.aux = dirlookup(r.ip, n)])

\* isdirempty()
Removable(i) == type[i] = "dir" => ent[i] = Empty

\* sys_unlink() with both locked.
victim(p) ==
  LET r == c[p]
      i == r.aux
  IN  /\ r.pc = "victim" /\ ilock(i)
      /\ IF ~Removable(i) THEN finish(p, r)
         ELSE put(p, Out(r), type, [nlink EXCEPT ![i] = @ - 1, ![r.ip] = @ - (IF type[i] = "dir" THEN 1 ELSE 0)],
                  [ent EXCEPT ![r.ip][Head(r.path)] = None], up)

\* sys_close()
close(p) ==
  /\ c[p].pc = "out" /\ c[p].fd # None
  /\ finish(p, [c[p] EXCEPT !.fd = None])

Step(p) ==
  \/ namex(p) \/ open(p) \/ chdir(p) \/ link(p) \/ dirlink(p) \/ linkbad(p)
  \/ create(p) \/ exists(p) \/ unlink(p) \/ victim(p)

Next == \E p \in Proc : call(p) \/ close(p) \/ Step(p)

Spec == Init /\ [][Next]_vars

\* A process in a call goes on; a sleep lock that is free again and again is had.
FairSpec == Spec /\ \A p \in Proc : SF_vars(Step(p))

-----------------------------------------------------------------------------
\* Every variable has its type: entries and what a call refers to are inodes,
\* and what is left of its path is a path.
TypeOK ==
  /\ type \in [Inum -> {"free", "dir", "file"}]
  /\ nlink \in [Inum -> Nat]
  /\ ent \in [Inum -> [Name -> Inum \cup {None}]]
  /\ up \in [Inum -> Inum]
  /\ \A p \in Proc : Refers(c[p]) \subseteq Inum \cup {None} /\ c[p].path \in Path

Entries(i) == {<<d, n>> \in Inum \X Name : ent[d][n] = i}

\* A name never leads to a freed inode, and an inode's links cover its names, so it
\* cannot be freed while it has one.
NoDangling == \A i \in Inum : Entries(i) # {} => type[i] # "free" /\ nlink[i] >= Cardinality(Entries(i))

\* Directories form a tree: one that is linked is named once, in the directory that
\* its ".." leads to.
Tree ==
  \A i \in Inum \ {Root} : type[i] = "dir" =>
    \A e \in Entries(i) : e[1] = up[i] /\ Cardinality(Entries(i)) = 1

\* Whatever a process has open, or has as current directory, stays allocated.
InUse == \A p \in Proc : type[c[p].cwd] = "dir" /\ (c[p].fd # None => type[c[p].fd] # "free")

\* ilock()'s assertion (fs.c:315): an inode that is about to be locked is allocated.
NoPanic ==
  \A p \in Proc : c[p].pc \in {"found", "exists", "parent", "victim"} \/ (c[p].pc = "walk" /\ c[p].path # <<>>)
                   => type[c[p].ip] # "free"

\* sys_unlink()'s assertion (sysfile.c:216): an inode found by name has a link.
NlinkOne == \A p \in Proc : c[p].pc = "victim" => nlink[c[p].aux] >= 1

\* fs.c:111: nlink is "the number of links referring to it": of a file, its names
\* and the name a sys_link() is about to add.
LinksExact ==
  \A i \in Inum : type[i] = "file" =>
    nlink[i] = Cardinality(Entries(i)) + Cardinality({p \in Proc : c[p].aux = i /\ c[p].op = "dirlink"})

\* No call waits for ever: sys_unlink() locks downwards in the tree.
CallEnds == \A p \in Proc : c[p].pc # "out" ~> c[p].pc = "out"
=============================================================================
