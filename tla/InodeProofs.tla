---------------------------- MODULE InodeProofs -----------------------------
(***************************************************************************)
(* The inode table of kernel/fs.c counts its references exactly, keeps one *)
(* entry, one lock and one copy per inode, and no referenced inode is      *)
(* freed, for every number of processes, inodes and table entries.         *)
(***************************************************************************)
EXTENDS Inode, FiniteSetTheorems, TLAPS

\* The processes with a pointer to entry e; those that added a link to the inode i, in
\* sys_link(), and have not given it its name; those whose inode has just been allocated.
Refs(e) == {p \in Proc : HasRef(p) /\ ip[p] = e}
Pending(p) == pc[p] \in {"dirlink", "relock", "unlink"}
Links(i) == {p \in Proc : Pending(p) /\ inum[ip[p]] = i}
Fresh(p) == pc[p] \in {"newref", "new"}

EntryInv == \A e \in Entry : ref[e] > 0 => inum[e] \in Inum

\* The inode between ialloc()'s write and its iget() is one process's, has no links, and
\* whoever still refers to it is done with the inode that had its number before.
NewInv ==
  \A p \in Proc :
    /\ new[p] \in Inum <=> pc[p] = "ialloc"
    /\ pc[p] = "ialloc" =>
         /\ alloc[new[p]] /\ dlink[new[p]] = 0
         /\ \A q \in Proc : q # p => new[q] # new[p]
         /\ \A q \in Proc : HasRef(q) /\ inum[ip[q]] = new[p] => Freed(q)

\* The same once it is in the table and until create() gives it a link.
FreshInv ==
  \A p \in Proc :
    Fresh(p) => /\ dlink[inum[ip[p]]] = 0
                /\ \A q \in Proc : q # p /\ HasRef(q) /\ ip[q] = ip[p] => Freed(q)

\* Nobody finds an inode that iput() frees.
TruncInv == \A p \in Proc : pc[p] = "trunc" => ref[ip[p]] = 1 /\ dlink[inum[ip[p]]] = 0

LockValid == \A p \in Proc : HasLock(p) => valid[ip[p]]

\* What is in the table has not been freed, and is what is on disk.
CopyInv ==
  \A e \in Entry :
    ref[e] > 0 /\ valid[e] /\ (\A p \in Proc : HasRef(p) /\ ip[p] = e => pc[p] # "freed")
      => alloc[inum[e]] /\ nlink[e] = dlink[inum[e]]

\* A link is a name, or a call of sys_link() that has not come to the name.
LinkInv ==
  \A i \in Inum : dlink[i] = names[i] + Cardinality(Links(i)) /\ (~alloc[i] => dlink[i] = 0)

IInv ==
  /\ InodeAssumption
  /\ TypeOK /\ RefExact /\ OneEntry /\ LockExact /\ EntryInv /\ RefAllocated
  /\ NewInv /\ FreshInv /\ TruncInv /\ LockValid /\ CopyInv /\ LinkInv

-----------------------------------------------------------------------------
(* Processes, and the references they have                                 *)

\* Sets of processes, counted.
LEMMA ProcSets ==
  ASSUME InodeAssumption, NEW S, S \subseteq Proc
  PROVE  /\ Cardinality(S) \in Nat
         /\ Cardinality(S) = 0 <=> S = {}
         /\ \A p \in S : Cardinality(S \ {p}) = Cardinality(S) - 1
         /\ \A p \in Proc \ S : Cardinality(S \cup {p}) = Cardinality(S) + 1
<1>1. IsFiniteSet(S)
  BY FS_Subset DEF InodeAssumption
<1>2. Cardinality(S) \in Nat
  BY <1>1, FS_CardinalityType
<1>3. Cardinality(S) = 0 <=> S = {}
  BY <1>1, FS_EmptySet
<1>4. \A p \in S : Cardinality(S \ {p}) = Cardinality(S) - 1
  BY <1>1, FS_RemoveElement
<1>5. \A p \in Proc \ S : Cardinality(S \cup {p}) = Cardinality(S) + 1
  BY <1>1, FS_AddElement
<1>q. QED BY Zenon, <1>2, <1>3, <1>4, <1>5

\* Two processes count as two.
LEMMA Single ==
  ASSUME InodeAssumption, NEW S, S \subseteq Proc, Cardinality(S) = 1,
         NEW p \in S, NEW q \in S
  PROVE  p = q
<1>1. Cardinality(S \ {p}) = 0
  BY ProcSets
<1>2. S \ {p} = {}
  BY <1>1, ProcSets
<1>q. QED BY Zenon, <1>2

\* Where a process is says what it has.
LEMMA Places ==
  ASSUME NEW p \in Proc
  PROVE  /\ HasLock(p) => HasRef(p)
         /\ Fresh(p) \/ Pending(p) \/ pc[p] = "trunc" => HasRef(p) /\ ~Freed(p)
         /\ Freed(p) => HasRef(p) /\ ~Fresh(p) /\ ~Pending(p)
         /\ pc[p] = "freed" <=> Freed(p) /\ HasLock(p)
         /\ pc[p] = "ialloc" => ~HasRef(p)
BY DEF HasLock, HasRef, Fresh, Pending, Freed

\* Who stays where it is keeps what it has.
LEMMA SamePlace ==
  ASSUME NEW p \in Proc, pc'[p] = pc[p]
  PROVE  /\ HasRef(p)' <=> HasRef(p)
         /\ HasLock(p)' <=> HasLock(p)
         /\ Freed(p)' <=> Freed(p)
         /\ Fresh(p)' <=> Fresh(p)
         /\ Pending(p)' <=> Pending(p)
BY Zenon DEF HasLock, HasRef, Fresh, Pending, Freed

\* References, seen from the processes.
RefFacts ==
  /\ \A p \in Proc : HasRef(p) => ip[p] \in Entry /\ ref[ip[p]] > 0 /\ inum[ip[p]] \in Inum
  /\ \A p \in Proc, e \in Entry :
       HasRef(p) /\ ref[e] > 0 /\ inum[e] = inum[ip[p]] => e = ip[p]
  /\ \A p, q \in Proc : HasRef(p) /\ HasRef(q) /\ inum[ip[p]] = inum[ip[q]] => ip[p] = ip[q]
  /\ \A p, q \in Proc :
       HasRef(p) /\ HasRef(q) /\ ip[p] = ip[q] /\ ref[ip[p]] = 1 => p = q
  /\ \A e \in Entry : ref[e] > 0 <=> \E p \in Proc : HasRef(p) /\ ip[p] = e

\* What the exactness of ref says of the processes.
LEMMA RefsKnown ==
  ASSUME IInv
  PROVE  RefFacts
<1>0. /\ InodeAssumption /\ ip \in [Proc -> Entry] /\ ref \in [Entry -> Nat]
      /\ \A e \in Entry : ref[e] = Cardinality(Refs(e)) /\ Refs(e) \subseteq Proc
      /\ EntryInv /\ OneEntry
  BY Zenon DEF IInv, TypeOK, RefExact, Refs
<1>1. \A e \in Entry : ref[e] > 0 <=> Refs(e) # {}
  <2>1. SUFFICES ASSUME NEW e \in Entry
                 PROVE  ref[e] > 0 <=> Refs(e) # {}
    BY Zenon
  <2>2. ref[e] = 0 <=> Refs(e) = {}
    BY Zenon, <1>0, ProcSets
  <2>3. ref[e] \in Nat
    BY Zenon, <1>0
  <2>q. QED BY <2>2, <2>3
<1>2. \A e \in Entry : ref[e] > 0 <=> \E p \in Proc : HasRef(p) /\ ip[p] = e
  BY Zenon, <1>1 DEF Refs
<1>3. \A p \in Proc : HasRef(p) => ip[p] \in Entry /\ ref[ip[p]] > 0 /\ inum[ip[p]] \in Inum
  BY Zenon, <1>0, <1>2 DEF EntryInv
<1>4. \A p \in Proc, e \in Entry :
        HasRef(p) /\ ref[e] > 0 /\ inum[e] = inum[ip[p]] => e = ip[p]
  BY Zenon, <1>0, <1>3 DEF OneEntry
<1>5. \A p, q \in Proc : HasRef(p) /\ HasRef(q) /\ inum[ip[p]] = inum[ip[q]] => ip[p] = ip[q]
  BY Zenon, <1>3, <1>4
<1>6. ASSUME NEW p \in Proc, NEW q \in Proc, HasRef(p), HasRef(q), ip[p] = ip[q],
             ref[ip[p]] = 1
      PROVE  p = q
  <2>1. p \in Refs(ip[p]) /\ q \in Refs(ip[p]) /\ ip[p] \in Entry
    BY Zenon, <1>0, <1>6 DEF Refs
  <2>2. InodeAssumption /\ Cardinality(Refs(ip[p])) = 1 /\ Refs(ip[p]) \subseteq Proc
    BY Zenon, <1>0, <1>6, <2>1
  <2>q. QED BY Zenon, <2>1, <2>2, Single
<1>q. QED BY Zenon, <1>2, <1>3, <1>4, <1>5, <1>6 DEF RefFacts

\* A step that leaves every pointer where it is.
LEMMA SameRefs ==
  ASSUME IInv, UNCHANGED <<inum, ref, ip>>, \A q \in Proc : HasRef(q)' <=> HasRef(q)
  PROVE  RefExact' /\ OneEntry' /\ EntryInv'
<1>1. \A e \in Entry : Refs(e)' = Refs(e)
  BY Zenon DEF Refs
<1>2. RefExact'
  <2>1. \A e \in Entry : ref[e] = Cardinality(Refs(e))
    BY Zenon DEF IInv, RefExact, Refs
  <2>2. \A e \in Entry : ref'[e] = Cardinality(Refs(e)')
    BY Zenon, <1>1, <2>1
  <2>q. QED BY Zenon, <2>2 DEF RefExact, Refs
<1>q. QED BY Zenon, <1>2 DEF IInv, OneEntry, EntryInv

\* Locking and unlocking one's own entry.
LEMMA LockMove ==
  ASSUME IInv, NEW p \in Proc, ip' = ip, \A q \in Proc \ {p} : pc'[q] = pc[q],
         \/ lock' = lock /\ (HasLock(p)' <=> HasLock(p))
         \/ /\ lock[ip[p]] = None /\ HasLock(p)' /\ lock' = [lock EXCEPT ![ip[p]] = p]
         \/ /\ HasLock(p) /\ ~HasLock(p)' /\ lock' = [lock EXCEPT ![ip[p]] = None]
  PROVE  LockExact'
<1>0. /\ lock \in [Entry -> Proc \cup {None}] /\ ip \in [Proc -> Entry] /\ None \notin Proc
      /\ \A e \in Entry, q \in Proc : lock[e] = q <=> HasLock(q) /\ ip[q] = e
  BY Zenon DEF IInv, TypeOK, LockExact, InodeAssumption
<1>1. \A q \in Proc \ {p} : HasLock(q)' <=> HasLock(q)
  BY Zenon, SamePlace
<1>2. SUFFICES ASSUME NEW e \in Entry, NEW q \in Proc
               PROVE  lock'[e] = q <=> HasLock(q)' /\ ip[q] = e
  BY Zenon DEF LockExact
<1>3. /\ lock[e] = q <=> HasLock(q) /\ ip[q] = e
      /\ lock[ip[p]] = q <=> HasLock(q) /\ ip[q] = ip[p]
      /\ lock[ip[p]] = p <=> HasLock(p)
      /\ ip[p] \in Entry
  BY Zenon, <1>0
<1>4. HasLock(q)' <=> IF q = p THEN HasLock(p)' ELSE HasLock(q)
  BY Zenon, <1>1
<1>5. CASE lock' = lock /\ (HasLock(p)' <=> HasLock(p))
  BY Zenon, <1>3, <1>4, <1>5
<1>6. CASE lock[ip[p]] = None /\ HasLock(p)' /\ lock' = [lock EXCEPT ![ip[p]] = p]
  <2>1. lock'[e] = IF e = ip[p] THEN p ELSE lock[e]
    BY Zenon, <1>0, <1>6
  <2>q. QED BY <1>0, <1>3, <1>4, <1>6, <2>1
<1>7. CASE HasLock(p) /\ ~HasLock(p)' /\ lock' = [lock EXCEPT ![ip[p]] = None]
  <2>1. lock'[e] = IF e = ip[p] THEN None ELSE lock[e]
    BY Zenon, <1>0, <1>7
  <2>q. QED BY <1>0, <1>3, <1>4, <1>7, <2>1
<1>q. QED BY Zenon, <1>5, <1>6, <1>7

-----------------------------------------------------------------------------
(* A process that keeps its reference                                      *)

\* The links of the inode i, and the names and calls they are for, change together.
Counted(p) ==
  LET i == inum[ip[p]] IN
  \/ /\ Pending(p)' <=> Pending(p)
     /\ dlink'[i] = dlink[i] /\ names'[i] = names[i]
  \/ /\ Pending(p)' <=> Pending(p)
     /\ dlink'[i] = dlink[i] + 1 /\ names'[i] = names[i] + 1
  \/ /\ Pending(p)' <=> Pending(p)
     /\ dlink'[i] = dlink[i] - 1 /\ names'[i] = names[i] - 1
  \/ /\ ~Pending(p) /\ Pending(p)'
     /\ dlink'[i] = dlink[i] + 1 /\ names'[i] = names[i]
  \/ /\ Pending(p) /\ ~Pending(p)'
     /\ dlink'[i] = dlink[i] - 1 /\ names'[i] = names[i]
  \/ /\ Pending(p) /\ ~Pending(p)'
     /\ dlink'[i] = dlink[i] /\ names'[i] = names[i] + 1

\* What such a step of p may do to its entry and its inode.
Local(p) ==
  /\ HasRef(p) /\ HasRef(p)' /\ (Freed(p)' <=> Freed(p))
  /\ UNCHANGED <<alloc, inum, ref, ip, new>>
  /\ \A q \in Proc \ {p} : pc'[q] = pc[q]
  /\ \A i \in Inum \ {inum[ip[p]]} : dlink'[i] = dlink[i] /\ names'[i] = names[i]
  /\ \A e \in Entry \ {ip[p]} : valid'[e] = valid[e] /\ nlink'[e] = nlink[e]
  /\ Freed(p) => dlink' = dlink
  /\ Fresh(p)' => Fresh(p) /\ dlink' = dlink
  /\ pc'[p] = "trunc" => ref[ip[p]] = 1 /\ dlink'[inum[ip[p]]] = 0
  /\ HasLock(p)' => valid'[ip[p]]
  /\ valid'[ip[p]] \/ valid'[ip[p]] = valid[ip[p]] \/ HasLock(p)
  /\ valid'[ip[p]] /\ (\A q \in Proc : HasRef(q) /\ ip[q] = ip[p] => pc'[q] # "freed")
       => alloc[inum[ip[p]]] /\ nlink'[ip[p]] = dlink'[inum[ip[p]]]
  /\ Counted(p)

\* A step of a process with its own entry keeps the count of links.
LEMMA LinkStep ==
  ASSUME IInv, TypeOK', NEW p \in Proc, Local(p)
  PROVE  LinkInv'
<1>0. /\ InodeAssumption /\ HasRef(p) /\ UNCHANGED <<alloc, inum, ip>> /\ RefFacts
      /\ dlink \in [Inum -> Nat] /\ names \in [Inum -> Nat]
      /\ dlink' \in [Inum -> Nat] /\ names' \in [Inum -> Nat]
  BY Zenon, RefsKnown DEF IInv, Local, TypeOK
<1>1. PICK i \in Inum : i = inum[ip[p]]
  BY Zenon, <1>0 DEF RefFacts
<1>2. \A q \in Proc \ {p} : Pending(q)' <=> Pending(q)
  BY Zenon, SamePlace DEF Local
<1>3. \A j \in Inum \ {i} : /\ Links(j)' = Links(j)
                            /\ dlink'[j] = dlink[j] /\ names'[j] = names[j]
  <2>1. ASSUME NEW j \in Inum \ {i}
        PROVE  Links(j)' = Links(j)
    BY Zenon, <1>0, <1>1, <1>2, <2>1 DEF Links
  <2>q. QED BY Zenon, <1>1, <2>1 DEF Local
<1>4. ~alloc[i] => dlink'[i] = 0
  <2>1. ~alloc[i] => Freed(p)
    BY Zenon, <1>0, <1>1 DEF IInv, RefAllocated
  <2>2. Freed(p) => dlink' = dlink
    BY Zenon DEF Local
  <2>3. ~alloc[i] => dlink[i] = 0
    BY Zenon DEF IInv, LinkInv
  <2>q. QED BY Zenon, <2>1, <2>2, <2>3
<1>5. dlink'[i] = names'[i] + Cardinality(Links(i)')
  <2>1. dlink[i] = names[i] + Cardinality(Links(i)) /\ Links(i) \subseteq Proc
    BY Zenon DEF IInv, LinkInv, Links
  <2>2. p \in Links(i) <=> Pending(p)
    BY Zenon, <1>1 DEF Links
  <2>3. /\ Cardinality(Links(i)) \in Nat
        /\ p \in Links(i) => Cardinality(Links(i) \ {p}) = Cardinality(Links(i)) - 1
        /\ p \notin Links(i) => Cardinality(Links(i) \cup {p}) = Cardinality(Links(i)) + 1
    BY Zenon, <1>0, <2>1, ProcSets
  <2>4. Links(i)' = IF Pending(p)' THEN Links(i) \cup {p} ELSE Links(i) \ {p}
    <3>1. ASSUME NEW q \in Proc
          PROVE  q \in Links(i)' <=> IF q = p THEN Pending(p)' ELSE q \in Links(i)
      BY Zenon, <1>0, <1>1, <1>2 DEF Links
    <3>2. Links(i) \subseteq Proc /\ Links(i)' \subseteq Proc
      BY Zenon DEF Links
    <3>q. QED BY <3>1, <3>2
  <2>5. Counted(p)
    BY Zenon DEF Local
  <2>6. CASE Pending(p) <=> Pending(p)'
    <3>1. Links(i)' = Links(i)
      BY Zenon, <2>2, <2>4, <2>6
    <3>2. \/ dlink'[i] = dlink[i] /\ names'[i] = names[i]
          \/ dlink'[i] = dlink[i] + 1 /\ names'[i] = names[i] + 1
          \/ dlink'[i] = dlink[i] - 1 /\ names'[i] = names[i] - 1
      BY Zenon, <1>1, <2>5, <2>6 DEF Counted
    <3>q. QED BY <1>0, <2>1, <2>3, <3>1, <3>2
  <2>7. CASE ~Pending(p) /\ Pending(p)'
    <3>1. Cardinality(Links(i)') = Cardinality(Links(i)) + 1
      BY Zenon, <2>2, <2>3, <2>4, <2>7
    <3>2. dlink'[i] = dlink[i] + 1 /\ names'[i] = names[i]
      BY Zenon, <1>1, <2>5, <2>7 DEF Counted
    <3>q. QED BY <1>0, <2>1, <2>3, <3>1, <3>2
  <2>8. CASE Pending(p) /\ ~Pending(p)'
    <3>1. Cardinality(Links(i)') = Cardinality(Links(i)) - 1
      BY Zenon, <2>2, <2>3, <2>4, <2>8
    <3>2. \/ dlink'[i] = dlink[i] - 1 /\ names'[i] = names[i]
          \/ dlink'[i] = dlink[i] /\ names'[i] = names[i] + 1
      BY Zenon, <1>1, <2>5, <2>8 DEF Counted
    <3>q. QED BY <1>0, <2>1, <2>3, <3>1, <3>2
  <2>q. QED BY Zenon, <2>6, <2>7, <2>8
<1>q. QED BY Zenon, <1>0, <1>3, <1>4, <1>5 DEF IInv, LinkInv

\* A step of a process with its own entry preserves IInv.
LEMMA LocalStep ==
  ASSUME IInv, NEW p \in Proc, TypeOK', LockExact', Local(p)
  PROVE  IInv'
<1>0. RefFacts /\ HasRef(p) /\ UNCHANGED <<alloc, inum, ref, ip, new>>
  BY Zenon, RefsKnown DEF Local
<1>1. PICK e \in Entry, i \in Inum : e = ip[p] /\ i = inum[e] /\ ref[e] > 0
  BY Zenon, <1>0 DEF RefFacts
<1>2. \A q \in Proc \ {p} : /\ pc'[q] = pc[q]
                            /\ HasRef(q)' <=> HasRef(q)
                            /\ HasLock(q)' <=> HasLock(q)
                            /\ Fresh(q)' <=> Fresh(q)
  BY Zenon, SamePlace DEF Local
<1>3. \A q \in Proc : /\ HasRef(q)' <=> HasRef(q)
                      /\ Freed(q)' <=> Freed(q)
                      /\ pc'[q] = "ialloc" <=> pc[q] = "ialloc"
  <2>1. pc'[p] # "ialloc" /\ pc[p] # "ialloc" /\ HasRef(p)' /\ (Freed(p)' <=> Freed(p))
    BY Zenon DEF Local, HasRef
  <2>q. QED BY Zenon, <1>0, <1>2, <2>1, SamePlace
<1>4. /\ \A j \in Inum \ {i} : dlink'[j] = dlink[j]
      /\ \A d \in Entry \ {e} : valid'[d] = valid[d] /\ nlink'[d] = nlink[d]
      /\ Freed(p) => dlink' = dlink
  BY Zenon, <1>1 DEF Local
<1>5. RefExact' /\ OneEntry' /\ EntryInv'
  BY Zenon, <1>0, <1>3, SameRefs
<1>6. RefAllocated'
  BY Zenon, <1>0, <1>3 DEF IInv, RefAllocated
<1>7. NewInv'
  <2>1. ASSUME NEW q \in Proc, pc[q] = "ialloc"
        PROVE  dlink'[new[q]] = 0
    <3>1. /\ new[q] \in Inum /\ dlink[new[q]] = 0
          /\ inum[ip[p]] = new[q] => Freed(p)
      BY Zenon, <1>0, <2>1 DEF IInv, NewInv
    <3>2. CASE new[q] = i
      BY Zenon, <1>1, <1>4, <3>1, <3>2
    <3>3. CASE new[q] # i
      BY Zenon, <1>4, <3>1, <3>3
    <3>q. QED BY Zenon, <3>2, <3>3
  <2>q. QED BY Zenon, <1>0, <1>3, <2>1 DEF IInv, NewInv
<1>8. FreshInv'
  <2>1. ASSUME NEW q \in Proc, Fresh(q)'
        PROVE  Fresh(q) /\ dlink'[inum[ip[q]]] = 0
    <3>1. CASE q = p
      BY Zenon, <2>1, <3>1 DEF Local, IInv, FreshInv
    <3>2. CASE q # p
      <4>1. /\ Fresh(q) /\ HasRef(q) /\ dlink[inum[ip[q]]] = 0 /\ inum[ip[q]] \in Inum
            /\ ip[p] = ip[q] => Freed(p)
        BY Zenon, <1>0, <1>2, <2>1, <3>2, Places DEF IInv, FreshInv, RefFacts
      <4>2. inum[ip[q]] = i => Freed(p)
        BY Zenon, <1>0, <1>1, <4>1 DEF RefFacts
      <4>q. QED BY Zenon, <1>4, <4>1, <4>2
    <3>q. QED BY Zenon, <3>1, <3>2
  <2>q. QED BY Zenon, <1>0, <1>3, <2>1 DEF IInv, FreshInv
<1>9. TruncInv'
  <2>1. ASSUME NEW q \in Proc, pc'[q] = "trunc"
        PROVE  ref[ip[q]] = 1 /\ dlink'[inum[ip[q]]] = 0
    <3>1. CASE q = p
      BY Zenon, <2>1, <3>1 DEF Local
    <3>2. CASE q # p
      <4>1. /\ pc[q] = "trunc" /\ HasRef(q) /\ ref[ip[q]] = 1
            /\ dlink[inum[ip[q]]] = 0 /\ inum[ip[q]] \in Inum
        BY Zenon, <1>0, <1>2, <2>1, <3>2, Places DEF IInv, TruncInv, RefFacts
      <4>2. inum[ip[q]] # i
        BY Zenon, <1>0, <1>1, <3>2, <4>1 DEF RefFacts
      <4>q. QED BY Zenon, <1>4, <4>1, <4>2
    <3>q. QED BY Zenon, <3>1, <3>2
  <2>q. QED BY Zenon, <1>0, <2>1 DEF TruncInv
<1>10. LockValid'
  <2>1. ASSUME NEW q \in Proc, HasLock(q)'
        PROVE  valid'[ip[q]]
    <3>1. CASE q = p
      BY Zenon, <2>1, <3>1 DEF Local
    <3>2. CASE q # p
      <4>1. HasLock(q) /\ valid[ip[q]] /\ ip[q] \in Entry
        BY Zenon, <1>2, <2>1, <3>2 DEF IInv, LockValid, TypeOK
      <4>2. ip[q] = e => ~HasLock(p)
        <5>1. \A r \in Proc : lock[e] = r <=> HasLock(r) /\ ip[r] = e
          BY Zenon DEF IInv, LockExact
        <5>q. QED BY <1>1, <3>2, <4>1, <5>1
      <4>3. valid'[e] \/ valid'[e] = valid[e] \/ HasLock(p)
        BY Zenon, <1>1 DEF Local
      <4>q. QED BY Zenon, <1>4, <4>1, <4>2, <4>3
    <3>q. QED BY Zenon, <3>1, <3>2
  <2>q. QED BY Zenon, <1>0, <2>1 DEF LockValid
<1>11. CopyInv'
  <2>1. ASSUME NEW d \in Entry, ref[d] > 0, valid'[d],
               \A q \in Proc : HasRef(q) /\ ip[q] = d => pc'[q] # "freed"
        PROVE  alloc[inum[d]] /\ nlink'[d] = dlink'[inum[d]]
    <3>1. CASE d = e
      BY Zenon, <1>1, <2>1, <3>1 DEF Local
    <3>2. CASE d # e
      <4>1. \A q \in Proc : HasRef(q) /\ ip[q] = d => pc[q] # "freed"
        BY Zenon, <1>1, <1>2, <2>1, <3>2
      <4>2. valid[d] /\ nlink'[d] = nlink[d]
        BY Zenon, <1>4, <2>1, <3>2
      <4>3. alloc[inum[d]] /\ nlink[d] = dlink[inum[d]]
        BY Zenon, <2>1, <4>1, <4>2 DEF IInv, CopyInv
      <4>4. inum[d] \in Inum /\ inum[d] # i
        BY Zenon, <1>1, <2>1, <3>2 DEF IInv, EntryInv, OneEntry
      <4>q. QED BY Zenon, <1>4, <4>2, <4>3, <4>4
    <3>q. QED BY Zenon, <3>1, <3>2
  <2>q. QED BY Zenon, <1>0, <1>3, <2>1 DEF CopyInv
<1>12. LinkInv'
  BY Zenon, LinkStep
<1>13. InodeAssumption'
  BY Zenon DEF IInv, InodeAssumption, Entry
<1>q. QED BY Zenon, <1>5, <1>6, <1>7, <1>8, <1>9, <1>10, <1>11, <1>12, <1>13 DEF IInv

\* A process that has the entry locked can use its copy, unless it has just freed it.
LEMMA LockedFacts ==
  ASSUME IInv, NEW p \in Proc, HasLock(p), pc[p] # "freed"
  PROVE  /\ ip[p] \in Entry /\ inum[ip[p]] \in Inum /\ valid[ip[p]] /\ alloc[inum[ip[p]]]
         /\ nlink[ip[p]] = dlink[inum[ip[p]]] /\ nlink[ip[p]] \in Nat
         /\ \A q \in Proc : HasRef(q) /\ ip[q] = ip[p] => pc[q] # "freed"
<1>1. RefFacts /\ HasRef(p)
  BY Zenon, RefsKnown, Places
<1>2. ip[p] \in Entry /\ inum[ip[p]] \in Inum /\ ref[ip[p]] > 0
  BY Zenon, <1>1 DEF RefFacts
<1>3. \A q \in Proc : HasRef(q) /\ ip[q] = ip[p] => pc[q] # "freed"
  <2>1. \A q \in Proc : lock[ip[p]] = q <=> HasLock(q) /\ ip[q] = ip[p]
    BY Zenon, <1>2 DEF IInv, LockExact
  <2>2. \A q \in Proc : HasLock(q) /\ ip[q] = ip[p] => q = p
    BY <2>1
  <2>q. QED BY Zenon, <2>2, Places
<1>4. valid[ip[p]]
  BY Zenon DEF IInv, LockValid
<1>5. alloc[inum[ip[p]]] /\ nlink[ip[p]] = dlink[inum[ip[p]]]
  BY Zenon, <1>2, <1>3, <1>4 DEF IInv, CopyInv
<1>6. nlink[ip[p]] \in Nat
  BY Zenon, <1>2 DEF IInv, TypeOK
<1>q. QED BY Zenon, <1>2, <1>3, <1>4, <1>5, <1>6

\* The copy of p's entry is as good as before when neither it nor the inode changes.
LEMMA SameCopy ==
  ASSUME IInv, NEW p \in Proc, HasRef(p), pc[p] # "freed",
         UNCHANGED <<alloc, inum, ref, ip, dlink, nlink, valid>>,
         \A q \in Proc \ {p} : pc'[q] = pc[q]
  PROVE  /\ valid'[ip[p]] /\ (\A q \in Proc : HasRef(q) /\ ip[q] = ip[p] => pc'[q] # "freed")
              => alloc[inum[ip[p]]] /\ nlink'[ip[p]] = dlink'[inum[ip[p]]]
<1>1. ip[p] \in Entry /\ ref[ip[p]] > 0
  BY Zenon, RefsKnown DEF RefFacts
<1>2. SUFFICES ASSUME valid[ip[p]],
                      \A q \in Proc : HasRef(q) /\ ip[q] = ip[p] => pc'[q] # "freed"
               PROVE  alloc[inum[ip[p]]] /\ nlink[ip[p]] = dlink[inum[ip[p]]]
  BY Zenon
<1>3. \A q \in Proc : HasRef(q) /\ ip[q] = ip[p] => pc[q] # "freed"
  BY Zenon, <1>2
<1>q. QED BY Zenon, <1>1, <1>2, <1>3 DEF IInv, CopyInv

\* Where a process can be.
Where ==
  {"out", "ialloc", "ref", "newref", "locked", "new", "dirlink", "relock", "unlink",
   "unlock", "iput", "trunc", "freed", "drop"}

\* The types of the variables.
LEMMA Types ==
  ASSUME IInv
  PROVE  /\ alloc \in [Inum -> BOOLEAN] /\ dlink \in [Inum -> Nat] /\ names \in [Inum -> Nat]
         /\ inum \in [Entry -> Inum \cup {None}] /\ ref \in [Entry -> Nat]
         /\ valid \in [Entry -> BOOLEAN] /\ nlink \in [Entry -> Nat]
         /\ lock \in [Entry -> Proc \cup {None}]
         /\ pc \in [Proc -> Where] /\ ip \in [Proc -> Entry]
         /\ new \in [Proc -> Inum \cup {None}]
         /\ None \notin Proc /\ None \notin Inum
BY Zenon DEF IInv, TypeOK, Where, InodeAssumption

\* The call of iput() on an unlocked inode preserves IInv.
LEMMA closeStep ==
  ASSUME IInv, NEW p \in Proc, close(p)
  PROVE  IInv'
<1>1. /\ pc[p] = "ref" /\ pc'[p] = "iput" /\ \A q \in Proc \ {p} : pc'[q] = pc[q]
      /\ pc' \in [Proc -> Where]
      /\ UNCHANGED <<disk, inum, ref, valid, nlink, lock, ip, new>>
  BY Zenon, Types DEF close, Where
<1>2. TypeOK'
  BY Zenon, <1>1, Types DEF TypeOK, disk, Where
<1>3. /\ HasRef(p) /\ HasRef(p)' /\ ~HasLock(p) /\ ~HasLock(p)' /\ ~Freed(p) /\ ~Freed(p)'
      /\ ~Pending(p) /\ ~Pending(p)' /\ ~Fresh(p)'
  BY Zenon, <1>1 DEF HasRef, HasLock, Freed, Pending, Fresh
<1>4. LockExact'
  BY Zenon, <1>1, <1>3, LockMove
<1>5. Local(p)
  BY Zenon, <1>1, <1>3, SameCopy DEF Local, Counted, disk
<1>q. QED BY Zenon, <1>2, <1>4, <1>5, LocalStep

\* iunlock() preserves IInv.
LEMMA iunlockStep ==
  ASSUME IInv, NEW p \in Proc, iunlock(p)
  PROVE  IInv'
<1>1. /\ pc[p] \in {"locked", "unlock"} /\ pc'[p] \in {"ref", "iput"}
      /\ \A q \in Proc \ {p} : pc'[q] = pc[q]
      /\ pc' \in [Proc -> Where]
      /\ lock' = [lock EXCEPT ![ip[p]] = None]
      /\ UNCHANGED <<disk, inum, ref, valid, nlink, ip, new>>
  BY Zenon, Types DEF iunlock, Where, Unlock
<1>2. TypeOK'
  BY Zenon, <1>1, Types DEF TypeOK, disk, Where
<1>3. /\ HasRef(p) /\ HasRef(p)' /\ HasLock(p) /\ ~HasLock(p)' /\ ~Freed(p) /\ ~Freed(p)'
      /\ ~Pending(p) /\ ~Pending(p)' /\ ~Fresh(p)' /\ pc'[p] # "trunc" /\ pc[p] # "freed"
  BY Zenon, <1>1 DEF HasRef, HasLock, Freed, Pending, Fresh
<1>4. LockExact'
  BY Zenon, <1>1, <1>3, LockMove
<1>5. Local(p)
  BY Zenon, <1>1, <1>3, SameCopy DEF Local, Counted, disk
<1>q. QED BY Zenon, <1>2, <1>4, <1>5, LocalStep

\* iput() of the last reference to an inode without links.
LEMMA truncStep ==
  ASSUME IInv, NEW p \in Proc, iput(p), Last(ip[p])
  PROVE  IInv'
<1>1. /\ pc[p] = "iput" /\ pc'[p] = "trunc"
      /\ \A q \in Proc \ {p} : pc'[q] = pc[q]
      /\ pc' \in [Proc -> Where]
      /\ lock[ip[p]] = None /\ lock' = [lock EXCEPT ![ip[p]] = p]
      /\ UNCHANGED <<disk, inum, ref, valid, nlink, ip, new>>
  BY Zenon, Types DEF iput, Where
<1>2. TypeOK'
  BY Zenon, <1>1, Types DEF TypeOK, disk, Where
<1>3. /\ HasRef(p) /\ HasRef(p)' /\ HasLock(p)' /\ ~Freed(p) /\ ~Freed(p)'
      /\ ~Pending(p) /\ ~Pending(p)' /\ ~Fresh(p)' /\ pc[p] # "freed"
  BY Zenon, <1>1 DEF HasRef, HasLock, Freed, Pending, Fresh
<1>4. LockExact'
  BY Zenon, <1>1, <1>3, LockMove
<1>5. ref[ip[p]] = 1 /\ valid[ip[p]] /\ nlink[ip[p]] = 0
  BY Zenon DEF Last
<1>6. dlink[inum[ip[p]]] = 0
  <2>1. RefFacts /\ ip[p] \in Entry /\ ref[ip[p]] > 0
    BY Zenon, <1>3, RefsKnown DEF RefFacts
  <2>2. \A q \in Proc : HasRef(q) /\ ip[q] = ip[p] => q = p
    BY Zenon, <1>3, <1>5, <2>1 DEF RefFacts
  <2>3. \A q \in Proc : HasRef(q) /\ ip[q] = ip[p] => pc[q] # "freed"
    BY Zenon, <1>3, <2>2
  <2>4. nlink[ip[p]] = dlink[inum[ip[p]]]
    BY Zenon, <1>5, <2>1, <2>3 DEF IInv, CopyInv
  <2>q. QED BY Zenon, <1>5, <2>4
<1>7. Local(p)
  BY Zenon, <1>1, <1>3, <1>5, <1>6, SameCopy DEF Local, Counted, disk
<1>q. QED BY Zenon, <1>2, <1>4, <1>7, LocalStep

\* valid = 0 and releasesleep() in iput() preserve IInv.
LEMMA invalidateStep ==
  ASSUME IInv, NEW p \in Proc, invalidate(p)
  PROVE  IInv'
<1>1. /\ pc[p] = "freed" /\ pc'[p] = "drop"
      /\ \A q \in Proc \ {p} : pc'[q] = pc[q]
      /\ pc' \in [Proc -> Where] /\ ip[p] \in Entry
      /\ lock' = [lock EXCEPT ![ip[p]] = None] /\ valid' = [valid EXCEPT ![ip[p]] = FALSE]
      /\ UNCHANGED <<disk, inum, ref, nlink, ip, new>>
  BY Zenon, Types DEF invalidate, Where, Unlock
<1>2. /\ valid' \in [Entry -> BOOLEAN] /\ ~valid'[ip[p]]
      /\ \A e \in Entry \ {ip[p]} : valid'[e] = valid[e]
  BY Zenon, <1>1, Types
<1>3. TypeOK'
  BY Zenon, <1>1, <1>2, Types DEF TypeOK, disk, Where
<1>4. /\ HasRef(p) /\ HasRef(p)' /\ HasLock(p) /\ ~HasLock(p)' /\ Freed(p) /\ Freed(p)'
      /\ ~Pending(p) /\ ~Pending(p)' /\ ~Fresh(p)'
  BY Zenon, <1>1 DEF HasRef, HasLock, Freed, Pending, Fresh
<1>5. LockExact'
  BY Zenon, <1>1, <1>4, LockMove
<1>6. Local(p)
  BY Zenon, <1>1, <1>2, <1>4 DEF Local, Counted, disk
<1>q. QED BY Zenon, <1>3, <1>5, <1>6, LocalStep

\* ilock(), which fills the copy in from disk, preserves IInv.
LEMMA ilockStep ==
  ASSUME IInv, NEW p \in Proc, ilock(p)
  PROVE  IInv'
<1>1. /\ pc[p] \in {"ref", "newref", "relock"} /\ pc' \in [Proc -> Where]
      /\ pc'[p] = CASE pc[p] = "ref" -> "locked" [] pc[p] = "newref" -> "new" [] OTHER -> "unlink"
      /\ \A q \in Proc \ {p} : pc'[q] = pc[q]
      /\ lock[ip[p]] = None /\ lock' = [lock EXCEPT ![ip[p]] = p]
      /\ UNCHANGED <<disk, inum, ref, ip, new>>
  BY Types DEF ilock, Where
<1>2. /\ HasRef(p) /\ HasRef(p)' /\ HasLock(p)' /\ ~Freed(p) /\ ~Freed(p)'
      /\ Pending(p)' <=> Pending(p)
      /\ Fresh(p)' => Fresh(p)
      /\ pc'[p] # "trunc"
  BY <1>1 DEF HasRef, HasLock, Freed, Pending, Fresh
<1>3. ip[p] \in Entry /\ inum[ip[p]] \in Inum /\ ref[ip[p]] > 0 /\ alloc[inum[ip[p]]]
  BY Zenon, <1>2, RefsKnown DEF RefFacts, IInv, RefAllocated
<1>4. /\ valid' \in [Entry -> BOOLEAN] /\ valid'[ip[p]]
      /\ \A e \in Entry \ {ip[p]} : valid'[e] = valid[e]
  BY Zenon, <1>3, Types DEF ilock
<1>5. /\ nlink' \in [Entry -> Nat] /\ \A e \in Entry \ {ip[p]} : nlink'[e] = nlink[e]
      /\ nlink'[ip[p]] = IF ~valid[ip[p]] THEN dlink[inum[ip[p]]] ELSE nlink[ip[p]]
  <2>1. dlink[inum[ip[p]]] \in Nat /\ nlink[ip[p]] \in Nat
    BY Zenon, <1>3, Types
  <2>q. QED BY Zenon, <1>3, <2>1, Types DEF ilock, NeedRead
<1>6. nlink'[ip[p]] = dlink[inum[ip[p]]]
  <2>1. \A q \in Proc : lock[ip[p]] = q <=> HasLock(q) /\ ip[q] = ip[p]
    BY Zenon, <1>3 DEF IInv, LockExact
  <2>2. \A q \in Proc : ip[q] = ip[p] => ~HasLock(q)
    BY <1>1, <2>1, Types
  <2>3. \A q \in Proc : HasRef(q) /\ ip[q] = ip[p] => pc[q] # "freed"
    BY Zenon, <2>2, Places
  <2>4. valid[ip[p]] => nlink[ip[p]] = dlink[inum[ip[p]]]
    BY Zenon, <1>3, <2>3 DEF IInv, CopyInv
  <2>q. QED BY Zenon, <1>5, <2>4
<1>7. TypeOK'
  BY Zenon, <1>1, <1>3, <1>4, <1>5, Types DEF TypeOK, disk, Where
<1>8. LockExact'
  BY Zenon, <1>1, <1>2, LockMove
<1>9. Local(p)
  BY Zenon, <1>1, <1>2, <1>3, <1>4, <1>5, <1>6 DEF Local, Counted, disk
<1>q. QED BY Zenon, <1>7, <1>8, <1>9, LocalStep

\* ip->nlink = n and iupdate() by the process that has the inode locked.
LEMMA SetLink ==
  ASSUME IInv, NEW p \in Proc, HasLock(p), pc[p] # "freed", NEW k \in Nat, setlink(p, k)
  PROVE  /\ nlink' \in [Entry -> Nat] /\ dlink' \in [Inum -> Nat]
         /\ nlink'[ip[p]] = k /\ dlink'[inum[ip[p]]] = k
         /\ \A e \in Entry \ {ip[p]} : nlink'[e] = nlink[e]
         /\ \A i \in Inum \ {inum[ip[p]]} : dlink'[i] = dlink[i]
<1>1. ip[p] \in Entry /\ inum[ip[p]] \in Inum
  BY Zenon, LockedFacts
<1>q. QED BY Zenon, <1>1, Types DEF setlink

\* The names of an inode, counted with its links.
LEMMA NamesBelow ==
  ASSUME IInv, NEW i \in Inum
  PROVE  /\ dlink[i] \in Nat /\ names[i] \in Nat /\ names[i] <= dlink[i]
         /\ \A p \in Proc : Pending(p) /\ inum[ip[p]] = i => names[i] < dlink[i]
<1>1. /\ dlink[i] \in Nat /\ names[i] \in Nat /\ InodeAssumption
      /\ Links(i) \subseteq Proc /\ dlink[i] = names[i] + Cardinality(Links(i))
  BY Zenon, Types DEF IInv, LinkInv, Links
<1>2. /\ Cardinality(Links(i)) \in Nat
      /\ Cardinality(Links(i)) = 0 <=> Links(i) = {}
  BY Zenon, <1>1, ProcSets
<1>3. ASSUME NEW p \in Proc, Pending(p), inum[ip[p]] = i
      PROVE  names[i] < dlink[i]
  <2>1. Links(i) # {}
    BY Zenon, <1>3 DEF Links
  <2>q. QED BY <1>1, <1>2, <2>1
<1>4. names[i] <= dlink[i]
  BY <1>1, <1>2
<1>q. QED BY Zenon, <1>1, <1>3, <1>4

\* create()'s link and name, or their failure, preserve IInv.
LEMMA createStep ==
  ASSUME IInv, NEW p \in Proc, create(p)
  PROVE  IInv'
<1>1. /\ pc[p] = "new" /\ \A q \in Proc \ {p} : pc'[q] = pc[q]
      /\ pc' \in [Proc -> Where] /\ pc'[p] \in {"locked", "unlock"}
      /\ UNCHANGED <<alloc, inum, ref, valid, lock, ip, new>>
  BY Zenon, Types DEF create, Where
<1>2. /\ HasRef(p) /\ HasRef(p)' /\ HasLock(p) /\ HasLock(p)' /\ ~Freed(p) /\ ~Freed(p)'
      /\ ~Pending(p) /\ ~Pending(p)' /\ ~Fresh(p)' /\ Fresh(p) /\ pc[p] # "freed"
      /\ pc'[p] # "trunc"
  BY Zenon, <1>1 DEF HasRef, HasLock, Freed, Pending, Fresh
<1>3. /\ ip[p] \in Entry /\ inum[ip[p]] \in Inum /\ valid[ip[p]] /\ alloc[inum[ip[p]]]
  BY Zenon, <1>2, LockedFacts
<1>4. dlink[inum[ip[p]]] = 0 /\ names[inum[ip[p]]] = 0
  <2>1. dlink[inum[ip[p]]] = 0
    BY Zenon, <1>2 DEF IInv, FreshInv
  <2>2. names[inum[ip[p]]] \in Nat /\ names[inum[ip[p]]] <= dlink[inum[ip[p]]]
    BY Zenon, <1>3, NamesBelow
  <2>q. QED BY <2>1, <2>2
<1>5. LockExact'
  BY Zenon, <1>1, <1>2, LockMove
<1>6. CASE setlink(p, 1) /\ names' = [names EXCEPT ![inum[ip[p]]] = 1]
  <2>1. /\ nlink' \in [Entry -> Nat] /\ dlink' \in [Inum -> Nat]
        /\ nlink'[ip[p]] = 1 /\ dlink'[inum[ip[p]]] = 1
        /\ \A e \in Entry \ {ip[p]} : nlink'[e] = nlink[e]
        /\ \A i \in Inum \ {inum[ip[p]]} : dlink'[i] = dlink[i]
    BY <1>2, <1>6, SetLink
  <2>2. /\ names' \in [Inum -> Nat] /\ names'[inum[ip[p]]] = 1
        /\ \A i \in Inum \ {inum[ip[p]]} : names'[i] = names[i]
    BY <1>3, <1>6, Types
  <2>3. TypeOK'
    BY Zenon, <1>1, <2>1, <2>2, Types DEF TypeOK, Where
  <2>4. Counted(p)
    <3>1. dlink'[inum[ip[p]]] = dlink[inum[ip[p]]] + 1
      BY <1>4, <2>1
    <3>2. names'[inum[ip[p]]] = names[inum[ip[p]]] + 1
      BY <1>4, <2>2
    <3>q. QED BY Zenon, <1>2, <3>1, <3>2 DEF Counted
  <2>5. Local(p)
    BY Zenon, <1>1, <1>2, <1>3, <2>1, <2>2, <2>4 DEF Local
  <2>q. QED BY Zenon, <1>5, <2>3, <2>5, LocalStep
<1>7. CASE setlink(p, 0) /\ UNCHANGED names
  <2>1. /\ nlink' \in [Entry -> Nat] /\ dlink' \in [Inum -> Nat]
        /\ nlink'[ip[p]] = 0 /\ dlink'[inum[ip[p]]] = 0
        /\ \A e \in Entry \ {ip[p]} : nlink'[e] = nlink[e]
        /\ \A i \in Inum \ {inum[ip[p]]} : dlink'[i] = dlink[i]
    BY <1>2, <1>7, SetLink
  <2>2. TypeOK'
    BY Zenon, <1>1, <1>7, <2>1, Types DEF TypeOK, Where
  <2>3. Counted(p)
    BY Zenon, <1>2, <1>4, <1>7, <2>1 DEF Counted
  <2>4. Local(p)
    BY Zenon, <1>1, <1>2, <1>3, <1>7, <2>1, <2>3 DEF Local
  <2>q. QED BY Zenon, <1>5, <2>2, <2>4, LocalStep
<1>q. QED BY Zenon, <1>6, <1>7 DEF create

\* sys_link()'s nlink++ preserves IInv.
LEMMA linkStep ==
  ASSUME IInv, NEW p \in Proc, link(p)
  PROVE  IInv'
<1>1. /\ pc[p] = "locked" /\ \A q \in Proc \ {p} : pc'[q] = pc[q]
      /\ pc' \in [Proc -> Where] /\ pc'[p] = "dirlink"
      /\ setlink(p, nlink[ip[p]] + 1) /\ lock' = [lock EXCEPT ![ip[p]] = None]
      /\ UNCHANGED <<alloc, names, inum, ref, valid, ip, new>>
  BY Zenon, Types DEF link, Where, Unlock
<1>2. /\ HasRef(p) /\ HasRef(p)' /\ HasLock(p) /\ ~HasLock(p)' /\ ~Freed(p) /\ ~Freed(p)'
      /\ ~Pending(p) /\ Pending(p)' /\ ~Fresh(p)' /\ pc[p] # "freed" /\ pc'[p] # "trunc"
  BY Zenon, <1>1 DEF HasRef, HasLock, Freed, Pending, Fresh
<1>3. /\ ip[p] \in Entry /\ inum[ip[p]] \in Inum /\ valid[ip[p]] /\ alloc[inum[ip[p]]]
      /\ nlink[ip[p]] = dlink[inum[ip[p]]] /\ nlink[ip[p]] \in Nat
  BY Zenon, <1>2, LockedFacts
<1>4. /\ nlink' \in [Entry -> Nat] /\ dlink' \in [Inum -> Nat]
      /\ nlink'[ip[p]] = nlink[ip[p]] + 1 /\ dlink'[inum[ip[p]]] = nlink[ip[p]] + 1
      /\ \A e \in Entry \ {ip[p]} : nlink'[e] = nlink[e]
      /\ \A i \in Inum \ {inum[ip[p]]} : dlink'[i] = dlink[i]
  <2>1. nlink[ip[p]] + 1 \in Nat
    BY <1>3
  <2>q. QED BY Zenon, <1>1, <1>2, <2>1, SetLink
<1>5. TypeOK'
  BY Zenon, <1>1, <1>3, <1>4, Types DEF TypeOK, Where
<1>6. LockExact'
  BY Zenon, <1>1, <1>2, LockMove
<1>7. Local(p)
  BY Zenon, <1>1, <1>2, <1>3, <1>4 DEF Local, Counted
<1>q. QED BY Zenon, <1>5, <1>6, <1>7, LocalStep

\* The "bad:" of sys_link(), which takes the link back, preserves IInv.
LEMMA linkbadStep ==
  ASSUME IInv, NEW p \in Proc, linkbad(p)
  PROVE  IInv'
<1>1. /\ pc[p] = "unlink" /\ \A q \in Proc \ {p} : pc'[q] = pc[q]
      /\ pc' \in [Proc -> Where] /\ pc'[p] = "unlock"
      /\ setlink(p, nlink[ip[p]] - 1)
      /\ UNCHANGED <<alloc, names, inum, ref, valid, lock, ip, new>>
  BY Zenon, Types DEF linkbad, Where
<1>2. /\ HasRef(p) /\ HasRef(p)' /\ HasLock(p) /\ HasLock(p)' /\ ~Freed(p) /\ ~Freed(p)'
      /\ Pending(p) /\ ~Pending(p)' /\ ~Fresh(p)' /\ pc[p] # "freed" /\ pc'[p] # "trunc"
  BY Zenon, <1>1 DEF HasRef, HasLock, Freed, Pending, Fresh
<1>3. /\ ip[p] \in Entry /\ inum[ip[p]] \in Inum /\ valid[ip[p]] /\ alloc[inum[ip[p]]]
      /\ nlink[ip[p]] = dlink[inum[ip[p]]] /\ nlink[ip[p]] \in Nat
  BY Zenon, <1>2, LockedFacts
<1>4. nlink[ip[p]] - 1 \in Nat
  <2>1. names[inum[ip[p]]] \in Nat /\ names[inum[ip[p]]] < dlink[inum[ip[p]]]
    BY Zenon, <1>2, <1>3, NamesBelow
  <2>q. QED BY <1>3, <2>1
<1>5. /\ nlink' \in [Entry -> Nat] /\ dlink' \in [Inum -> Nat]
      /\ nlink'[ip[p]] = nlink[ip[p]] - 1 /\ dlink'[inum[ip[p]]] = nlink[ip[p]] - 1
      /\ \A e \in Entry \ {ip[p]} : nlink'[e] = nlink[e]
      /\ \A i \in Inum \ {inum[ip[p]]} : dlink'[i] = dlink[i]
  BY Zenon, <1>1, <1>2, <1>4, SetLink
<1>6. TypeOK'
  BY Zenon, <1>1, <1>5, Types DEF TypeOK, Where
<1>7. LockExact'
  BY Zenon, <1>1, <1>2, LockMove
<1>8. Local(p)
  BY Zenon, <1>1, <1>2, <1>3, <1>5 DEF Local, Counted
<1>q. QED BY Zenon, <1>6, <1>7, <1>8, LocalStep

\* sys_unlink() preserves IInv.
LEMMA unlinkStep ==
  ASSUME IInv, NEW p \in Proc, unlink(p)
  PROVE  IInv'
<1>1. /\ pc[p] = "locked" /\ \A q \in Proc \ {p} : pc'[q] = pc[q]
      /\ pc' \in [Proc -> Where] /\ pc'[p] = "unlock"
      /\ setlink(p, nlink[ip[p]] - 1) /\ names[inum[ip[p]]] > 0
      /\ names' = [names EXCEPT ![inum[ip[p]]] = @ - 1]
      /\ UNCHANGED <<alloc, inum, ref, valid, lock, ip, new>>
  BY Zenon, Types DEF unlink, Where
<1>2. /\ HasRef(p) /\ HasRef(p)' /\ HasLock(p) /\ HasLock(p)' /\ ~Freed(p) /\ ~Freed(p)'
      /\ ~Pending(p) /\ ~Pending(p)' /\ ~Fresh(p)' /\ pc[p] # "freed" /\ pc'[p] # "trunc"
  BY Zenon, <1>1 DEF HasRef, HasLock, Freed, Pending, Fresh
<1>3. /\ ip[p] \in Entry /\ inum[ip[p]] \in Inum /\ valid[ip[p]] /\ alloc[inum[ip[p]]]
      /\ nlink[ip[p]] = dlink[inum[ip[p]]] /\ nlink[ip[p]] \in Nat
  BY Zenon, <1>2, LockedFacts
<1>4. nlink[ip[p]] - 1 \in Nat /\ names[inum[ip[p]]] - 1 \in Nat
  <2>1. names[inum[ip[p]]] \in Nat /\ names[inum[ip[p]]] <= dlink[inum[ip[p]]]
    BY Zenon, <1>3, NamesBelow
  <2>q. QED BY <1>1, <1>3, <2>1
<1>5. /\ nlink' \in [Entry -> Nat] /\ dlink' \in [Inum -> Nat]
      /\ nlink'[ip[p]] = nlink[ip[p]] - 1 /\ dlink'[inum[ip[p]]] = nlink[ip[p]] - 1
      /\ \A e \in Entry \ {ip[p]} : nlink'[e] = nlink[e]
      /\ \A i \in Inum \ {inum[ip[p]]} : dlink'[i] = dlink[i]
  BY Zenon, <1>1, <1>2, <1>4, SetLink
<1>6. /\ names' \in [Inum -> Nat] /\ names'[inum[ip[p]]] = names[inum[ip[p]]] - 1
      /\ \A i \in Inum \ {inum[ip[p]]} : names'[i] = names[i]
  BY Zenon, <1>1, <1>3, <1>4, Types
<1>7. TypeOK'
  BY Zenon, <1>1, <1>5, <1>6, Types DEF TypeOK, Where
<1>8. LockExact'
  BY Zenon, <1>1, <1>2, LockMove
<1>9. Local(p)
  BY Zenon, <1>1, <1>2, <1>3, <1>5, <1>6 DEF Local, Counted
<1>q. QED BY Zenon, <1>7, <1>8, <1>9, LocalStep

\* dirlink() in sys_link(), or its failure, preserves IInv.
LEMMA dirlinkStep ==
  ASSUME IInv, NEW p \in Proc, dirlink(p)
  PROVE  IInv'
<1>1. /\ pc[p] = "dirlink" /\ \A q \in Proc \ {p} : pc'[q] = pc[q]
      /\ pc' \in [Proc -> Where]
      /\ UNCHANGED <<alloc, dlink, inum, ref, valid, nlink, lock, ip, new>>
      /\ \/ pc'[p] = "iput" /\ names' = [names EXCEPT ![inum[ip[p]]] = @ + 1]
         \/ pc'[p] = "relock" /\ names' = names
  BY Zenon, Types DEF dirlink, Where
<1>2. /\ HasRef(p) /\ HasRef(p)' /\ ~HasLock(p) /\ ~HasLock(p)' /\ ~Freed(p) /\ ~Freed(p)'
      /\ Pending(p) /\ ~Fresh(p)' /\ pc[p] # "freed" /\ pc'[p] # "trunc"
      /\ pc'[p] = "iput" => ~Pending(p)'
      /\ pc'[p] = "relock" => Pending(p)'
  BY Zenon, <1>1 DEF HasRef, HasLock, Freed, Pending, Fresh
<1>3. inum[ip[p]] \in Inum
  BY Zenon, <1>2, RefsKnown DEF RefFacts
<1>4. /\ names' \in [Inum -> Nat] /\ \A i \in Inum \ {inum[ip[p]]} : names'[i] = names[i]
      /\ Counted(p)
  <2>1. CASE pc'[p] = "iput" /\ names' = [names EXCEPT ![inum[ip[p]]] = @ + 1]
    <3>1. names[inum[ip[p]]] + 1 \in Nat
      BY <1>3, Types
    <3>2. /\ names' \in [Inum -> Nat] /\ names'[inum[ip[p]]] = names[inum[ip[p]]] + 1
          /\ \A i \in Inum \ {inum[ip[p]]} : names'[i] = names[i]
      BY Zenon, <1>3, <2>1, <3>1, Types
    <3>q. QED BY Zenon, <1>1, <1>2, <2>1, <3>2 DEF Counted
  <2>2. CASE pc'[p] = "relock" /\ names' = names
    BY Zenon, <1>1, <1>2, <2>2, Types DEF Counted
  <2>q. QED BY Zenon, <1>1, <2>1, <2>2
<1>5. TypeOK'
  BY Zenon, <1>1, <1>4, Types DEF TypeOK, Where
<1>6. LockExact'
  BY Zenon, <1>1, <1>2, LockMove
<1>7. Local(p)
  BY Zenon, <1>1, <1>2, <1>4, SameCopy DEF Local
<1>q. QED BY Zenon, <1>5, <1>6, <1>7, LocalStep

-----------------------------------------------------------------------------
(* Inodes that are allocated and freed                                     *)

\* ialloc()'s choice of a free inode preserves IInv.
LEMMA iallocStep ==
  ASSUME IInv, NEW p \in Proc, ialloc(p)
  PROVE  IInv'
<1>1. /\ pc[p] = "out" /\ pc'[p] = "ialloc" /\ pc' \in [Proc -> Where]
      /\ \A q \in Proc \ {p} : pc'[q] = pc[q]
      /\ UNCHANGED <<names, inum, ref, valid, nlink, lock, ip>>
  BY Zenon, Types DEF ialloc, Where
<1>2. PICK i \in Inum :
        /\ ~alloc[i] /\ alloc' = [alloc EXCEPT ![i] = TRUE]
        /\ dlink' = [dlink EXCEPT ![i] = 0] /\ new' = [new EXCEPT ![p] = i]
  BY Zenon DEF ialloc
<1>3. dlink[i] = 0 /\ dlink' = dlink
  <2>1. dlink[i] = 0
    BY Zenon, <1>2 DEF IInv, LinkInv
  <2>q. QED BY <1>2, <2>1, Types
<1>4. /\ alloc' \in [Inum -> BOOLEAN] /\ alloc'[i]
      /\ \A j \in Inum : alloc[j] => alloc'[j]
      /\ new' \in [Proc -> Inum \cup {None}] /\ new'[p] = i
      /\ \A q \in Proc \ {p} : new'[q] = new[q]
  BY Zenon, <1>2, Types
<1>5. TypeOK'
  BY Zenon, <1>1, <1>3, <1>4, Types DEF TypeOK, Where
<1>6. \A q \in Proc : /\ HasRef(q)' <=> HasRef(q)
                      /\ HasLock(q)' <=> HasLock(q)
                      /\ Freed(q)' <=> Freed(q)
                      /\ Fresh(q)' <=> Fresh(q)
                      /\ Pending(q)' <=> Pending(q)
                      /\ pc'[q] = "trunc" <=> pc[q] = "trunc"
                      /\ pc'[q] = "freed" <=> pc[q] = "freed"
  <2>1. ASSUME NEW q \in Proc \ {p}
        PROVE  pc'[q] = pc[q]
    BY Zenon, <1>1
  <2>2. /\ ~HasRef(p) /\ ~HasRef(p)' /\ ~HasLock(p) /\ ~HasLock(p)' /\ ~Freed(p) /\ ~Freed(p)'
        /\ ~Fresh(p) /\ ~Fresh(p)' /\ ~Pending(p) /\ ~Pending(p)'
        /\ pc'[p] # "trunc" /\ pc[p] # "trunc" /\ pc'[p] # "freed" /\ pc[p] # "freed"
    BY Zenon, <1>1 DEF HasRef, HasLock, Freed, Pending, Fresh
  <2>q. QED BY Zenon, <2>1, <2>2, SamePlace
<1>7. RefExact' /\ OneEntry' /\ EntryInv'
  BY Zenon, <1>1, <1>6, SameRefs
<1>8. LockExact' /\ LockValid'
  BY Zenon, <1>1, <1>6 DEF IInv, LockExact, LockValid
<1>9. RefFacts
  BY Zenon, RefsKnown
<1>10. RefAllocated'
  <2>1. ASSUME NEW q \in Proc, HasRef(q)', ~Freed(q)'
        PROVE  alloc'[inum[ip[q]]]
    <3>1. HasRef(q) /\ ~Freed(q)
      BY Zenon, <1>6, <2>1
    <3>2. inum[ip[q]] \in Inum /\ alloc[inum[ip[q]]]
      BY Zenon, <1>9, <3>1 DEF IInv, RefAllocated, RefFacts
    <3>q. QED BY Zenon, <1>4, <3>2
  <2>q. QED BY Zenon, <1>1, <2>1 DEF RefAllocated
<1>11. NewInv'
  <2>1. ASSUME NEW q \in Proc \ {p}, pc[q] = "ialloc"
        PROVE  /\ new[q] \in Inum /\ alloc[new[q]] /\ dlink[new[q]] = 0 /\ new[q] # i
               /\ \A r \in Proc : r # q => new[r] # new[q]
               /\ \A r \in Proc : HasRef(r) /\ inum[ip[r]] = new[q] => Freed(r)
    BY Zenon, <1>2, <2>1 DEF IInv, NewInv
  <2>2. \A q \in Proc \ {p} : new[q] \in Inum <=> pc[q] = "ialloc"
    BY Zenon DEF IInv, NewInv
  <2>3. \A q \in Proc \ {p} : new[q] # i
    BY Zenon, <2>1, <2>2
  <2>4. \A r \in Proc : HasRef(r) /\ inum[ip[r]] = i => Freed(r)
    BY Zenon, <1>2 DEF IInv, RefAllocated
  <2>5. ASSUME NEW q \in Proc
        PROVE  (/\ new[q] \in Inum <=> pc[q] = "ialloc"
                /\ pc[q] = "ialloc" =>
                     /\ alloc[new[q]] /\ dlink[new[q]] = 0
                     /\ \A r \in Proc : r # q => new[r] # new[q]
                     /\ \A r \in Proc : HasRef(r) /\ inum[ip[r]] = new[q] => Freed(r))'
    <3>1. \A r \in Proc : (HasRef(r)' => HasRef(r)) /\ (Freed(r) => Freed(r)')
      BY Zenon, <1>6
    <3>2. CASE q = p
      <4>1. \A r \in Proc : r # p => new'[r] # i
        BY Zenon, <1>4, <2>3
      <4>2. \A r \in Proc : HasRef(r)' /\ inum[ip[r]] = i => Freed(r)'
        BY Zenon, <2>4, <3>1
      <4>q. QED BY Zenon, <1>1, <1>3, <1>4, <3>2, <4>1, <4>2
    <3>3. CASE q # p
      <4>1. pc'[q] = pc[q] /\ new'[q] = new[q]
        BY Zenon, <1>1, <1>4, <3>3
      <4>2. ASSUME pc[q] = "ialloc"
            PROVE  /\ alloc'[new[q]] /\ dlink[new[q]] = 0
                   /\ \A r \in Proc : r # q => new'[r] # new[q]
                   /\ \A r \in Proc : HasRef(r)' /\ inum[ip[r]] = new[q] => Freed(r)'
        <5>1. /\ new[q] \in Inum /\ alloc[new[q]] /\ dlink[new[q]] = 0 /\ new[q] # i
              /\ \A r \in Proc : r # q => new[r] # new[q]
              /\ \A r \in Proc : HasRef(r) /\ inum[ip[r]] = new[q] => Freed(r)
          BY Zenon, <2>1, <3>3, <4>2
        <5>2. \A r \in Proc : r # q => new'[r] # new[q]
          BY Zenon, <1>4, <5>1
        <5>3. \A r \in Proc : HasRef(r)' /\ inum[ip[r]] = new[q] => Freed(r)'
          BY Zenon, <3>1, <5>1
        <5>q. QED BY Zenon, <1>4, <5>1, <5>2, <5>3
      <4>q. QED BY Zenon, <1>1, <1>3, <2>2, <3>3, <4>1, <4>2
    <3>q. QED BY Zenon, <3>2, <3>3
  <2>q. QED BY Zenon, <2>5 DEF NewInv
<1>12. FreshInv' /\ TruncInv'
  BY Zenon, <1>1, <1>3, <1>6 DEF IInv, FreshInv, TruncInv
<1>13. CopyInv'
  <2>1. ASSUME NEW e \in Entry, ref[e] > 0, valid[e],
               \A q \in Proc : HasRef(q)' /\ ip[q] = e => pc'[q] # "freed"
        PROVE  alloc'[inum[e]] /\ nlink[e] = dlink[inum[e]]
    <3>1. \A q \in Proc : HasRef(q) /\ ip[q] = e => pc[q] # "freed"
      BY Zenon, <1>6, <2>1
    <3>2. inum[e] \in Inum /\ alloc[inum[e]] /\ nlink[e] = dlink[inum[e]]
      BY Zenon, <2>1, <3>1 DEF IInv, CopyInv, EntryInv
    <3>q. QED BY Zenon, <1>4, <3>2
  <2>q. QED BY Zenon, <1>1, <1>3, <2>1 DEF CopyInv
<1>14. LinkInv'
  <2>1. \A j \in Inum : Links(j)' = Links(j)
    BY Zenon, <1>1, <1>6 DEF Links
  <2>q. QED BY Zenon, <1>1, <1>3, <1>4, <2>1 DEF IInv, LinkInv
<1>15. InodeAssumption'
  BY Zenon DEF IInv, InodeAssumption, Entry
<1>q. QED BY Zenon, <1>5, <1>7, <1>8, <1>10, <1>11, <1>12, <1>13, <1>14, <1>15 DEF IInv

\* Freeing an inode: nobody else refers to it.
LEMMA freeStep ==
  ASSUME IInv, NEW p \in Proc, free(p)
  PROVE  IInv'
<1>1. /\ pc[p] = "trunc" /\ pc'[p] = "freed" /\ pc' \in [Proc -> Where]
      /\ \A q \in Proc \ {p} : pc'[q] = pc[q]
      /\ alloc' = [alloc EXCEPT ![inum[ip[p]]] = FALSE]
      /\ UNCHANGED <<dlink, names, inum, ref, valid, nlink, lock, ip, new>>
  BY Zenon, Types DEF free, Where
<1>2. /\ HasRef(p) /\ HasRef(p)' /\ HasLock(p) /\ HasLock(p)' /\ ~Freed(p) /\ Freed(p)'
      /\ ~Fresh(p) /\ ~Fresh(p)' /\ ~Pending(p) /\ ~Pending(p)' /\ pc'[p] # "trunc"
  BY Zenon, <1>1 DEF HasRef, HasLock, Freed, Pending, Fresh
<1>3. RefFacts
  BY Zenon, RefsKnown
<1>4. PICK e \in Entry, i \in Inum :
        /\ e = ip[p] /\ i = inum[e] /\ ref[e] = 1 /\ ref[e] > 0 /\ dlink[i] = 0
  <2>1. ip[p] \in Entry /\ inum[ip[p]] \in Inum /\ ref[ip[p]] > 0
    BY Zenon, <1>2, <1>3 DEF RefFacts
  <2>2. ref[ip[p]] = 1 /\ dlink[inum[ip[p]]] = 0
    BY Zenon, <1>1 DEF IInv, TruncInv
  <2>q. QED BY Zenon, <2>1, <2>2
<1>5. /\ alloc' \in [Inum -> BOOLEAN] /\ \A j \in Inum \ {i} : alloc'[j] = alloc[j]
  BY Zenon, <1>1, <1>4, Types
<1>6. TypeOK'
  BY Zenon, <1>1, <1>5, Types DEF TypeOK, Where
<1>7. \A q \in Proc \ {p} : HasRef(q) => inum[ip[q]] # i
  BY Zenon, <1>2, <1>3, <1>4 DEF RefFacts
<1>8. /\ \A q \in Proc : HasRef(q)' <=> HasRef(q)
      /\ \A q \in Proc : HasLock(q)' <=> HasLock(q)
      /\ \A q \in Proc : Fresh(q)' <=> Fresh(q)
      /\ \A q \in Proc : Pending(q)' <=> Pending(q)
      /\ \A q \in Proc : Freed(q) => Freed(q)'
      /\ \A q \in Proc : pc'[q] = "ialloc" <=> pc[q] = "ialloc"
  BY Zenon, <1>1, <1>2, SamePlace
<1>9. RefExact' /\ OneEntry' /\ EntryInv'
  BY Zenon, <1>1, <1>8, SameRefs
<1>10. LockExact' /\ LockValid'
  <2>1. LockExact'
    BY Zenon, <1>1, <1>2, LockMove
  <2>2. \A q \in Proc : HasLock(q)' => HasLock(q)
    BY Zenon, <1>8
  <2>q. QED BY Zenon, <1>1, <2>1, <2>2 DEF IInv, LockValid
<1>11. RefAllocated'
  <2>1. ASSUME NEW q \in Proc, HasRef(q)', ~Freed(q)'
        PROVE  alloc'[inum[ip[q]]]
    <3>1. HasRef(q) /\ ~Freed(q) /\ q # p
      BY Zenon, <1>2, <1>8, <2>1
    <3>2. inum[ip[q]] \in Inum \ {i} /\ alloc[inum[ip[q]]]
      BY Zenon, <1>3, <1>7, <3>1 DEF IInv, RefAllocated, RefFacts
    <3>q. QED BY Zenon, <1>5, <3>2
  <2>q. QED BY Zenon, <1>1, <2>1 DEF RefAllocated
<1>12. NewInv'
  <2>1. ASSUME NEW q \in Proc, pc[q] = "ialloc"
        PROVE  alloc'[new[q]]
    <3>1. new[q] \in Inum /\ alloc[new[q]] /\ new[q] # i
      BY Zenon, <1>2, <1>4, <2>1 DEF IInv, NewInv
    <3>q. QED BY Zenon, <1>5, <3>1
  <2>q. QED BY Zenon, <1>1, <1>8, <2>1 DEF IInv, NewInv
<1>13. FreshInv' /\ TruncInv'
  <2>1. FreshInv'
    BY Zenon, <1>1, <1>8 DEF IInv, FreshInv
  <2>2. TruncInv'
    BY Zenon, <1>1, <1>2 DEF IInv, TruncInv
  <2>q. QED BY Zenon, <2>1, <2>2
<1>14. CopyInv'
  <2>1. ASSUME NEW d \in Entry, ref[d] > 0, valid[d],
               \A q \in Proc : HasRef(q)' /\ ip[q] = d => pc'[q] # "freed"
        PROVE  alloc'[inum[d]] /\ nlink[d] = dlink[inum[d]]
    <3>1. d # e
      BY Zenon, <1>1, <1>2, <1>4, <2>1
    <3>2. inum[d] \in Inum \ {i}
      BY Zenon, <1>4, <2>1, <3>1 DEF IInv, EntryInv, OneEntry
    <3>3. \A q \in Proc : HasRef(q) /\ ip[q] = d => pc[q] # "freed"
      BY Zenon, <1>1, <1>2, <1>4, <1>8, <2>1, <3>1
    <3>4. alloc[inum[d]] /\ nlink[d] = dlink[inum[d]]
      BY Zenon, <2>1, <3>3 DEF IInv, CopyInv
    <3>q. QED BY Zenon, <1>5, <3>2, <3>4
  <2>q. QED BY Zenon, <1>1, <2>1 DEF CopyInv
<1>15. LinkInv'
  <2>1. \A j \in Inum : Links(j)' = Links(j)
    BY Zenon, <1>1, <1>8 DEF Links
  <2>2. \A j \in Inum : ~alloc'[j] => dlink[j] = 0
    BY Zenon, <1>4, <1>5 DEF IInv, LinkInv
  <2>q. QED BY Zenon, <1>1, <2>1, <2>2 DEF IInv, LinkInv
<1>16. InodeAssumption'
  BY Zenon DEF IInv, InodeAssumption, Entry
<1>q. QED BY Zenon, <1>6, <1>9, <1>10, <1>11, <1>12, <1>13, <1>14, <1>15, <1>16 DEF IInv

-----------------------------------------------------------------------------
(* References that go and come                                             *)

\* ip->ref-- of iput(), by a process whose inode is not locked by it.
LEMMA LeaveStep ==
  ASSUME IInv, NEW p \in Proc, pc[p] \in {"iput", "drop"},
         pc' = [pc EXCEPT ![p] = "out"], ref' = [ref EXCEPT ![ip[p]] = @ - 1],
         ip' = [ip EXCEPT ![p] = 1], 1 \in Entry,
         UNCHANGED <<disk, inum, valid, nlink, lock, new>>
  PROVE  IInv'
<1>1. /\ pc'[p] = "out" /\ pc' \in [Proc -> Where] /\ ip' \in [Proc -> Entry]
      /\ \A q \in Proc \ {p} : pc'[q] = pc[q] /\ ip'[q] = ip[q]
      /\ UNCHANGED <<alloc, dlink, names, inum, valid, nlink, lock, new>>
  BY Zenon, Types DEF Where, disk
<1>2. /\ HasRef(p) /\ ~HasRef(p)' /\ ~HasLock(p) /\ ~HasLock(p)' /\ ~Freed(p)'
      /\ ~Fresh(p)' /\ ~Pending(p) /\ ~Pending(p)' /\ pc[p] # "freed"
      /\ pc'[p] # "trunc" /\ pc'[p] # "ialloc" /\ pc[p] # "ialloc"
  BY Zenon, <1>1 DEF HasRef, HasLock, Freed, Pending, Fresh
<1>3. RefFacts
  BY Zenon, RefsKnown
<1>4. PICK e \in Entry : e = ip[p] /\ ref[e] > 0 /\ ref[e] \in Nat
  BY Zenon, <1>2, <1>3, Types DEF RefFacts
<1>5. /\ ref' \in [Entry -> Nat] /\ ref'[e] = ref[e] - 1
      /\ \A d \in Entry \ {e} : ref'[d] = ref[d]
      /\ \A d \in Entry : ref'[d] > 0 => ref[d] > 0
  <2>1. ref[e] - 1 \in Nat
    BY <1>4
  <2>q. QED BY Zenon, <1>4, <2>1, Types
<1>6. TypeOK'
  BY Zenon, <1>1, <1>5, Types DEF TypeOK, Where
<1>7. \A q \in Proc \ {p} : /\ HasRef(q)' <=> HasRef(q)
                            /\ HasLock(q)' <=> HasLock(q)
                            /\ Freed(q)' <=> Freed(q)
                            /\ Fresh(q)' <=> Fresh(q)
                            /\ Pending(q)' <=> Pending(q)
  BY Zenon, <1>1, SamePlace
<1>8. RefExact'
  <2>1. /\ InodeAssumption /\ \A d \in Entry : Refs(d) \subseteq Proc
        /\ \A d \in Entry : ref[d] = Cardinality(Refs(d))
    BY Zenon DEF IInv, RefExact, Refs
  <2>2. Refs(e)' = Refs(e) \ {p} /\ p \in Refs(e)
    BY Zenon, <1>1, <1>2, <1>4, <1>7 DEF Refs
  <2>3. \A d \in Entry \ {e} : Refs(d)' = Refs(d)
    BY Zenon, <1>1, <1>2, <1>4, <1>7 DEF Refs
  <2>4. Cardinality(Refs(e)') = Cardinality(Refs(e)) - 1
    BY Zenon, <2>1, <2>2, ProcSets
  <2>5. \A d \in Entry : ref'[d] = Cardinality(Refs(d)')
    BY Zenon, <1>5, <2>1, <2>3, <2>4
  <2>q. QED BY Zenon, <2>5 DEF RefExact, Refs
<1>9. OneEntry' /\ EntryInv'
  BY Zenon, <1>1, <1>5 DEF IInv, OneEntry, EntryInv
<1>10. LockExact' /\ LockValid'
  <2>1. \A q \in Proc : HasLock(q)' <=> HasLock(q)
    BY Zenon, <1>2, <1>7
  <2>2. \A q \in Proc : HasLock(q) => ip'[q] = ip[q]
    BY Zenon, <1>1, <1>2
  <2>3. \A d \in Entry, q \in Proc : lock[d] = q <=> HasLock(q) /\ ip[q] = d
    BY Zenon DEF IInv, LockExact
  <2>4. \A d \in Entry, q \in Proc : lock'[d] = q <=> HasLock(q)' /\ ip'[q] = d
    BY <1>1, <2>1, <2>2, <2>3
  <2>5. \A q \in Proc : HasLock(q)' => valid'[ip'[q]]
    <3>1. valid' = valid
      BY Zenon, <1>1
    <3>q. QED BY Zenon, <2>1, <2>2, <3>1 DEF IInv, LockValid
  <2>q. QED BY Zenon, <2>4, <2>5 DEF LockExact, LockValid
<1>11. RefAllocated'
  BY Zenon, <1>1, <1>2, <1>7 DEF IInv, RefAllocated
<1>12. NewInv'
  <2>1. \A q \in Proc : pc'[q] = "ialloc" <=> pc[q] = "ialloc"
    BY Zenon, <1>1, <1>2
  <2>2. ASSUME NEW q \in Proc, HasRef(q)'
        PROVE  HasRef(q) /\ ip'[q] = ip[q] /\ (Freed(q) => Freed(q)')
    BY Zenon, <1>1, <1>2, <1>7, <2>2
  <2>3. ASSUME NEW q \in Proc, pc[q] = "ialloc"
        PROVE  \A r \in Proc : HasRef(r)' /\ inum[ip'[r]] = new[q] => Freed(r)'
    <3>1. \A r \in Proc : HasRef(r) /\ inum[ip[r]] = new[q] => Freed(r)
      BY Zenon, <2>3 DEF IInv, NewInv
    <3>q. QED BY Zenon, <2>2, <3>1
  <2>4. \A q \in Proc : new'[q] \in Inum <=> pc'[q] = "ialloc"
    BY Zenon, <1>1, <2>1 DEF IInv, NewInv
  <2>5. \A q \in Proc : pc[q] = "ialloc" =>
          alloc[new[q]] /\ dlink[new[q]] = 0 /\ \A r \in Proc : r # q => new[r] # new[q]
    BY Zenon DEF IInv, NewInv
  <2>6. ASSUME NEW q \in Proc, pc'[q] = "ialloc"
        PROVE  /\ alloc'[new'[q]] /\ dlink'[new'[q]] = 0
               /\ \A r \in Proc : r # q => new'[r] # new'[q]
               /\ \A r \in Proc : HasRef(r)' /\ inum'[ip'[r]] = new'[q] => Freed(r)'
    <3>1. UNCHANGED <<alloc, dlink, inum, new>>
      BY Zenon, <1>1
    <3>2. /\ alloc[new[q]] /\ dlink[new[q]] = 0
          /\ \A r \in Proc : r # q => new[r] # new[q]
      BY Zenon, <2>1, <2>5, <2>6
    <3>3. \A r \in Proc : HasRef(r)' /\ inum[ip'[r]] = new[q] => Freed(r)'
      BY Zenon, <2>1, <2>3, <2>6
    <3>q. QED BY <3>1, <3>2, <3>3
  <2>q. QED BY Zenon, <2>4, <2>6 DEF NewInv
<1>13. FreshInv'
  <2>1. ASSUME NEW q \in Proc, Fresh(q)'
        PROVE  /\ dlink[inum[ip'[q]]] = 0
               /\ \A r \in Proc : r # q /\ HasRef(r)' /\ ip'[r] = ip'[q] => Freed(r)'
    <3>1. q # p /\ Fresh(q) /\ ip'[q] = ip[q]
      BY Zenon, <1>1, <1>2, <1>7, <2>1
    <3>2. /\ dlink[inum[ip[q]]] = 0
          /\ \A r \in Proc : r # q /\ HasRef(r) /\ ip[r] = ip[q] => Freed(r)
      BY Zenon, <3>1 DEF IInv, FreshInv
    <3>q. QED BY Zenon, <1>1, <1>2, <1>7, <3>1, <3>2
  <2>q. QED BY Zenon, <1>1, <2>1 DEF FreshInv
<1>14. TruncInv'
  <2>1. ASSUME NEW q \in Proc, pc'[q] = "trunc"
        PROVE  ref'[ip'[q]] = 1 /\ dlink[inum[ip'[q]]] = 0
    <3>1. q # p /\ pc[q] = "trunc" /\ ip'[q] = ip[q]
      BY Zenon, <1>1, <1>2, <2>1
    <3>2. HasRef(q) /\ ref[ip[q]] = 1 /\ dlink[inum[ip[q]]] = 0
      BY Zenon, <3>1, Places DEF IInv, TruncInv
    <3>3. ip[q] \in Entry \ {e}
      BY Zenon, <1>2, <1>3, <1>4, <3>1, <3>2 DEF RefFacts
    <3>q. QED BY Zenon, <1>5, <3>1, <3>2, <3>3
  <2>q. QED BY Zenon, <1>1, <2>1 DEF TruncInv
<1>15. CopyInv'
  <2>1. ASSUME NEW d \in Entry, ref'[d] > 0, valid[d],
               \A q \in Proc : HasRef(q)' /\ ip'[q] = d => pc'[q] # "freed"
        PROVE  alloc[inum[d]] /\ nlink[d] = dlink[inum[d]]
    <3>1. \A q \in Proc : HasRef(q) /\ ip[q] = d => pc[q] # "freed"
      BY Zenon, <1>1, <1>2, <1>7, <2>1
    <3>q. QED BY Zenon, <1>5, <2>1, <3>1 DEF IInv, CopyInv
  <2>2. UNCHANGED <<alloc, dlink, inum, valid, nlink>>
    BY Zenon, <1>1
  <2>q. QED BY Zenon, <2>1, <2>2 DEF CopyInv
<1>16. LinkInv'
  <2>1. \A j \in Inum : Links(j)' = Links(j)
    BY Zenon, <1>1, <1>2, <1>7 DEF Links
  <2>q. QED BY Zenon, <1>1, <2>1 DEF IInv, LinkInv
<1>17. InodeAssumption'
  BY Zenon DEF IInv, InodeAssumption, Entry
<1>q. QED BY Zenon, <1>6, <1>8, <1>9, <1>10, <1>11, <1>12, <1>13, <1>14, <1>15, <1>16, <1>17
     DEF IInv

\* One more pointer, p's, to the entry e of the inode i.
Got(p, e, i) ==
  /\ ~HasRef(p) /\ HasRef(p)' /\ ~HasLock(p)' /\ ~Freed(p)' /\ ~Pending(p) /\ ~Pending(p)'
  /\ pc'[p] \in {"ref", "newref"} /\ pc' \in [Proc -> Where]
  /\ \A q \in Proc \ {p} : pc'[q] = pc[q] /\ ip'[q] = ip[q] /\ new'[q] = new[q]
  /\ ip' \in [Proc -> Entry] /\ ip'[p] = e
  /\ new' \in [Proc -> Inum \cup {None}] /\ new'[p] = None
  /\ ref' \in [Entry -> Nat] /\ ref'[e] = ref[e] + 1
  /\ \A d \in Entry \ {e} : ref'[d] = ref[d] /\ inum'[d] = inum[d] /\ valid'[d] = valid[d]
  /\ inum' \in [Entry -> Inum \cup {None}] /\ inum'[e] = i
  /\ valid' \in [Entry -> BOOLEAN]
  /\ ref[e] > 0 => inum[e] = i /\ valid'[e] = valid[e]
  /\ ~(ref[e] > 0) => ~valid'[e]
  /\ \A d \in Entry : ref[d] > 0 /\ inum[d] = i => d = e
  /\ UNCHANGED <<alloc, dlink, names, nlink, lock>>

\* Nobody is about to find, to use for the first time or to free the inode.
LEMMA GetStep ==
  ASSUME IInv, NEW p \in Proc, NEW e \in Entry, NEW i \in Inum, Got(p, e, i), alloc[i],
         \A q \in Proc \ {p} : new[q] # i,
         \A q \in Proc : HasRef(q) /\ inum[ip[q]] = i => ~Fresh(q) /\ pc[q] # "trunc",
         pc'[p] = "newref" =>
           /\ dlink[i] = 0
           /\ \A q \in Proc : HasRef(q) /\ inum[ip[q]] = i => Freed(q)
  PROVE  IInv'
<1>1. /\ ~HasRef(p) /\ HasRef(p)' /\ ~HasLock(p)' /\ ~Freed(p)' /\ ~Pending(p) /\ ~Pending(p)'
      /\ pc'[p] \in {"ref", "newref"}
      /\ \A q \in Proc \ {p} : pc'[q] = pc[q] /\ ip'[q] = ip[q] /\ new'[q] = new[q]
      /\ ip'[p] = e /\ new'[p] = None
  BY Zenon DEF Got
<1>2. /\ ref'[e] = ref[e] + 1 /\ inum'[e] = i
      /\ \A d \in Entry \ {e} : ref'[d] = ref[d] /\ inum'[d] = inum[d] /\ valid'[d] = valid[d]
      /\ ref[e] > 0 => inum[e] = i /\ valid'[e] = valid[e]
      /\ ~(ref[e] > 0) => ~valid'[e]
      /\ \A d \in Entry : ref[d] > 0 /\ inum[d] = i => d = e
      /\ UNCHANGED <<alloc, dlink, names, nlink, lock>>
  BY Zenon DEF Got
<1>3. RefFacts
  BY Zenon, RefsKnown
<1>4. TypeOK'
  BY Zenon, <1>2, Types DEF TypeOK, Where, Got
<1>5. \A q \in Proc \ {p} : /\ HasRef(q)' <=> HasRef(q)
                            /\ HasLock(q)' <=> HasLock(q)
                            /\ Freed(q)' <=> Freed(q)
                            /\ Fresh(q)' <=> Fresh(q)
                            /\ Pending(q)' <=> Pending(q)
  BY Zenon, <1>1, SamePlace
<1>6. \A q \in Proc \ {p} : HasRef(q) =>
        /\ ip'[q] = ip[q] /\ ip[q] \in Entry
        /\ inum'[ip[q]] = inum[ip[q]] /\ inum[ip[q]] \in Inum /\ valid'[ip[q]] = valid[ip[q]]
  <2>1. \A q \in Proc : HasRef(q) => ip[q] \in Entry /\ ref[ip[q]] > 0 /\ inum[ip[q]] \in Inum
    BY Zenon, <1>3 DEF RefFacts
  <2>2. \A d \in Entry : ref[d] > 0 => inum'[d] = inum[d] /\ valid'[d] = valid[d]
    BY Zenon, <1>2
  <2>q. QED BY Zenon, <1>1, <2>1, <2>2
<1>7. RefExact'
  <2>1. /\ InodeAssumption /\ \A d \in Entry : Refs(d) \subseteq Proc
        /\ \A d \in Entry : ref[d] = Cardinality(Refs(d))
    BY Zenon DEF IInv, RefExact, Refs
  <2>2. Refs(e)' = Refs(e) \cup {p} /\ p \in Proc \ Refs(e)
    BY Zenon, <1>1, <1>5 DEF Refs
  <2>3. \A d \in Entry \ {e} : Refs(d)' = Refs(d)
    BY Zenon, <1>1, <1>5 DEF Refs
  <2>4. Cardinality(Refs(e)') = Cardinality(Refs(e)) + 1
    <3>1. InodeAssumption /\ Refs(e) \subseteq Proc
      BY Zenon, <2>1
    <3>2. Cardinality(Refs(e) \cup {p}) = Cardinality(Refs(e)) + 1
      BY Zenon, <2>2, <3>1, ProcSets
    <3>q. QED BY Zenon, <2>2, <3>2
  <2>5. ASSUME NEW d \in Entry
        PROVE  ref'[d] = Cardinality(Refs(d)')
    <3>1. CASE d = e
      BY Zenon, <1>2, <2>1, <2>4, <3>1
    <3>2. CASE d # e
      <4>1. ref'[d] = ref[d]
        BY Zenon, <1>2, <3>2
      <4>q. QED BY Zenon, <2>1, <2>3, <3>2, <4>1
    <3>q. QED BY Zenon, <3>1, <3>2
  <2>q. QED BY Zenon, <2>5 DEF RefExact, Refs
<1>8. OneEntry' /\ EntryInv'
  <2>1. \A d \in Entry : d # e /\ ref'[d] > 0 => ref[d] > 0 /\ inum'[d] = inum[d]
    BY Zenon, <1>2
  <2>2. OneEntry'
    <3>1. ASSUME NEW c \in Entry, NEW d \in Entry, ref'[c] > 0, ref'[d] > 0,
                 inum'[c] = inum'[d]
          PROVE  c = d
      <4>1. CASE c # e /\ d # e
        BY Zenon, <2>1, <3>1, <4>1 DEF IInv, OneEntry
      <4>2. CASE c = e \/ d = e
        <5>1. \A x \in Entry : ref'[x] > 0 /\ inum'[x] = i => x = e
          BY Zenon, <1>2, <2>1
        <5>q. QED BY Zenon, <1>2, <3>1, <4>2, <5>1
      <4>q. QED BY Zenon, <4>1, <4>2
    <3>q. QED BY Zenon, <3>1 DEF OneEntry
  <2>3. EntryInv'
    BY Zenon, <1>2, <2>1 DEF IInv, EntryInv
  <2>q. QED BY Zenon, <2>2, <2>3
<1>9. LockExact' /\ LockValid'
  <2>1. ~HasLock(p)
    BY Zenon, <1>1, Places
  <2>2. \A q \in Proc : HasLock(q)' <=> HasLock(q)
    BY Zenon, <1>1, <1>5, <2>1
  <2>3. \A q \in Proc : HasLock(q) => ip'[q] = ip[q] /\ valid'[ip[q]] = valid[ip[q]]
    BY Zenon, <1>6, <2>1, Places
  <2>4. \A d \in Entry, q \in Proc : lock[d] = q <=> HasLock(q) /\ ip[q] = d
    BY Zenon DEF IInv, LockExact
  <2>5. \A d \in Entry, q \in Proc : lock'[d] = q <=> HasLock(q)' /\ ip'[q] = d
    BY <1>2, <2>2, <2>3, <2>4
  <2>6. \A q \in Proc : HasLock(q)' => valid'[ip'[q]]
    BY Zenon, <2>2, <2>3 DEF IInv, LockValid
  <2>q. QED BY Zenon, <2>5, <2>6 DEF LockExact, LockValid
<1>10. RefAllocated'
  <2>1. ASSUME NEW q \in Proc, HasRef(q)', ~Freed(q)'
        PROVE  alloc[inum'[ip'[q]]]
    <3>1. CASE q = p
      BY Zenon, <1>1, <1>2, <3>1
    <3>2. CASE q # p
      <4>1. HasRef(q) /\ ~Freed(q)
        BY Zenon, <1>5, <2>1, <3>2
      <4>2. alloc[inum[ip[q]]]
        BY Zenon, <4>1 DEF IInv, RefAllocated
      <4>q. QED BY Zenon, <1>6, <3>2, <4>1, <4>2
    <3>q. QED BY Zenon, <3>1, <3>2
  <2>q. QED BY Zenon, <1>2, <2>1 DEF RefAllocated
<1>11. NewInv'
  <2>1. \A q \in Proc : new'[q] \in Inum <=> pc'[q] = "ialloc"
    <3>1. pc'[p] # "ialloc" /\ None \notin Inum
      BY Zenon, <1>1, Types
    <3>q. QED BY Zenon, <1>1, <3>1 DEF IInv, NewInv
  <2>2. ASSUME NEW q \in Proc, pc'[q] = "ialloc"
        PROVE  /\ alloc[new'[q]] /\ dlink[new'[q]] = 0
               /\ \A r \in Proc : r # q => new'[r] # new'[q]
               /\ \A r \in Proc : HasRef(r)' /\ inum'[ip'[r]] = new'[q] => Freed(r)'
    <3>1. q # p /\ pc[q] = "ialloc" /\ new'[q] = new[q]
      BY Zenon, <1>1, <2>2
    <3>2. /\ new[q] \in Inum /\ new[q] # i /\ alloc[new[q]] /\ dlink[new[q]] = 0
          /\ \A r \in Proc : r # q => new[r] # new[q]
          /\ \A r \in Proc : HasRef(r) /\ inum[ip[r]] = new[q] => Freed(r)
      BY Zenon, <3>1 DEF IInv, NewInv
    <3>3. \A r \in Proc : r # q => new'[r] # new[q]
      BY Zenon, <1>1, <3>2, Types
    <3>4. \A r \in Proc : HasRef(r)' /\ inum'[ip'[r]] = new[q] => Freed(r)'
      <4>1. ASSUME NEW r \in Proc, HasRef(r)', inum'[ip'[r]] = new[q]
            PROVE  Freed(r)'
        <5>1. r # p
          BY Zenon, <1>1, <1>2, <3>2, <4>1
        <5>2. HasRef(r) /\ inum[ip[r]] = new[q]
          BY Zenon, <1>5, <1>6, <4>1, <5>1
        <5>3. Freed(r)
          BY Zenon, <3>2, <5>2
        <5>q. QED BY Zenon, <1>5, <5>1, <5>3
      <4>q. QED BY Zenon, <4>1
    <3>q. QED BY Zenon, <3>1, <3>2, <3>3, <3>4
  <2>q. QED BY Zenon, <1>2, <2>1, <2>2 DEF NewInv
<1>12. FreshInv'
  <2>1. ASSUME NEW q \in Proc, Fresh(q)'
        PROVE  /\ dlink[inum'[ip'[q]]] = 0
               /\ \A r \in Proc : r # q /\ HasRef(r)' /\ ip'[r] = ip'[q] => Freed(r)'
    <3>1. CASE q = p
      <4>1. /\ dlink[i] = 0
            /\ \A r \in Proc : HasRef(r) /\ inum[ip[r]] = i => Freed(r)
        BY Zenon, <1>1, <2>1, <3>1 DEF Fresh
      <4>2. \A r \in Proc : r # p /\ HasRef(r)' /\ ip'[r] = e => Freed(r)'
        <5>1. ASSUME NEW r \in Proc, r # p, HasRef(r)', ip'[r] = e
              PROVE  Freed(r)'
          <6>1. HasRef(r)
            BY Zenon, <1>5, <5>1
          <6>2. inum[ip[r]] = i
            BY Zenon, <1>2, <1>6, <5>1, <6>1
          <6>3. Freed(r)
            BY Zenon, <4>1, <6>1, <6>2
          <6>q. QED BY Zenon, <1>5, <5>1, <6>3
        <5>q. QED BY Zenon, <5>1
      <4>q. QED BY Zenon, <1>1, <1>2, <3>1, <4>1, <4>2
    <3>2. CASE q # p
      <4>1. /\ Fresh(q) /\ HasRef(q) /\ ip'[q] = ip[q] /\ inum'[ip[q]] = inum[ip[q]]
        BY Zenon, <1>5, <1>6, <2>1, <3>2, Places
      <4>2. /\ dlink[inum[ip[q]]] = 0
            /\ \A r \in Proc : r # q /\ HasRef(r) /\ ip[r] = ip[q] => Freed(r)
        BY Zenon, <4>1 DEF IInv, FreshInv
      <4>3. ip[q] # e
        BY Zenon, <1>2, <4>1
      <4>q. QED BY Zenon, <1>1, <1>5, <4>1, <4>2, <4>3
    <3>q. QED BY Zenon, <3>1, <3>2
  <2>q. QED BY Zenon, <1>2, <2>1 DEF FreshInv
<1>13. TruncInv'
  <2>1. ASSUME NEW q \in Proc, pc'[q] = "trunc"
        PROVE  ref'[ip'[q]] = 1 /\ dlink[inum'[ip'[q]]] = 0
    <3>1. q # p /\ pc[q] = "trunc"
      BY Zenon, <1>1, <2>1
    <3>2. HasRef(q) /\ ref[ip[q]] = 1 /\ dlink[inum[ip[q]]] = 0
      BY Zenon, <3>1, Places DEF IInv, TruncInv
    <3>3. ip'[q] = ip[q] /\ ip[q] \in Entry /\ inum'[ip[q]] = inum[ip[q]]
      BY Zenon, <1>6, <3>1, <3>2
    <3>4. ip[q] # e
      BY Zenon, <1>2, <3>1, <3>2, <3>3
    <3>5. ref'[ip[q]] = ref[ip[q]]
      BY Zenon, <1>2, <3>3, <3>4
    <3>q. QED BY Zenon, <3>2, <3>3, <3>5
  <2>q. QED BY Zenon, <1>2, <2>1 DEF TruncInv
<1>14. CopyInv'
  <2>1. ASSUME NEW d \in Entry, ref'[d] > 0, valid'[d],
               \A q \in Proc : HasRef(q)' /\ ip'[q] = d => pc'[q] # "freed"
        PROVE  alloc[inum'[d]] /\ nlink[d] = dlink[inum'[d]]
    <3>1. ref[d] > 0 /\ valid[d] /\ inum'[d] = inum[d]
      BY Zenon, <1>2, <2>1
    <3>2. \A q \in Proc : HasRef(q) /\ ip[q] = d => pc[q] # "freed"
      BY Zenon, <1>1, <1>5, <2>1
    <3>q. QED BY Zenon, <3>1, <3>2 DEF IInv, CopyInv
  <2>q. QED BY Zenon, <1>2, <2>1 DEF CopyInv
<1>15. LinkInv'
  <2>1. ASSUME NEW q \in Proc
        PROVE  /\ Pending(q)' <=> Pending(q)
               /\ Pending(q) => ip'[q] = ip[q] /\ inum'[ip[q]] = inum[ip[q]]
    BY Zenon, <1>1, <1>5, <1>6, Places
  <2>2. ASSUME NEW j \in Inum
        PROVE  Links(j)' = Links(j)
    <3>1. ASSUME NEW q \in Proc
          PROVE  (Pending(q) /\ inum[ip[q]] = j)' <=> Pending(q) /\ inum[ip[q]] = j
      BY Zenon, <2>1
    <3>q. QED BY Zenon, <3>1 DEF Links
  <2>3. UNCHANGED <<alloc, dlink, names>>
    BY Zenon, <1>2
  <2>q. QED BY Zenon, <2>2, <2>3 DEF IInv, LinkInv
<1>16. InodeAssumption'
  BY Zenon DEF IInv, InodeAssumption, Entry
<1>q. QED BY Zenon, <1>4, <1>7, <1>8, <1>9, <1>10, <1>11, <1>12, <1>13, <1>14, <1>15, <1>16
     DEF IInv

\* iget() finds the inode's entry or takes an empty one.
LEMMA GetEntry ==
  ASSUME IInv, NEW p \in Proc, NEW i \in Inum, iget(p, i), pc[p] \in {"out", "ialloc"},
         NEW x \in {"ref", "newref"}, pc' = [pc EXCEPT ![p] = x],
         new' \in [Proc -> Inum \cup {None}], new'[p] = None,
         \A q \in Proc \ {p} : new'[q] = new[q]
  PROVE  \E e \in Entry : Got(p, e, i)
<1>1. /\ pc' \in [Proc -> Where] /\ pc'[p] = x /\ \A q \in Proc \ {p} : pc'[q] = pc[q]
  BY Zenon, Types DEF Where
<1>2. /\ ~HasRef(p) /\ HasRef(p)' /\ ~HasLock(p)' /\ ~Freed(p)' /\ ~Pending(p) /\ ~Pending(p)'
  BY Zenon, <1>1 DEF HasRef, HasLock, Freed, Pending
<1>3. UNCHANGED <<alloc, dlink, names, nlink, lock>>
  BY Zenon DEF iget, disk
<1>4. PICK e \in Entry :
        /\ ip' = [ip EXCEPT ![p] = e]
        /\ \/ /\ e \in Found(i) /\ ref' = More(e) /\ UNCHANGED <<inum, valid>>
           \/ /\ Found(i) = {} /\ ref[e] = 0
              /\ inum' = [inum EXCEPT ![e] = i]
              /\ ref' = [ref EXCEPT ![e] = 1]
              /\ valid' = [valid EXCEPT ![e] = FALSE]
  BY Zenon DEF iget
<1>5. ip' \in [Proc -> Entry] /\ ip'[p] = e /\ \A q \in Proc \ {p} : ip'[q] = ip[q]
  BY Zenon, <1>4, Types
<1>6. ref[e] \in Nat
  BY Zenon, Types
<1>7. CASE e \in Found(i) /\ ref' = More(e) /\ UNCHANGED <<inum, valid>>
  <2>1. ref[e] > 0 /\ inum[e] = i /\ ref' = [ref EXCEPT ![e] = ref[e] + 1]
    BY Zenon, <1>7 DEF Found, More
  <2>2. ref[e] + 1 \in Nat
    BY <1>6
  <2>3. /\ ref' \in [Entry -> Nat] /\ ref'[e] = ref[e] + 1
        /\ \A d \in Entry \ {e} : ref'[d] = ref[d]
    BY Zenon, <2>1, <2>2, Types
  <2>4. \A d \in Entry : ref[d] > 0 /\ inum[d] = i => d = e
    BY Zenon, <2>1 DEF IInv, OneEntry
  <2>q. QED BY Zenon, <1>1, <1>2, <1>3, <1>5, <1>7, <2>1, <2>3, <2>4, Types DEF Got
<1>8. CASE /\ Found(i) = {} /\ ref[e] = 0
           /\ inum' = [inum EXCEPT ![e] = i]
           /\ ref' = [ref EXCEPT ![e] = 1]
           /\ valid' = [valid EXCEPT ![e] = FALSE]
  <2>1. ~(ref[e] > 0) /\ 1 = ref[e] + 1 /\ 1 \in Nat
    BY <1>8
  <2>2. /\ ref' \in [Entry -> Nat] /\ ref'[e] = ref[e] + 1
        /\ \A d \in Entry \ {e} : ref'[d] = ref[d]
    BY Zenon, <1>8, <2>1, Types
  <2>3. /\ inum' \in [Entry -> Inum \cup {None}] /\ inum'[e] = i
        /\ \A d \in Entry \ {e} : inum'[d] = inum[d]
    BY Zenon, <1>8, Types
  <2>4. /\ valid' \in [Entry -> BOOLEAN] /\ ~valid'[e]
        /\ \A d \in Entry \ {e} : valid'[d] = valid[d]
    BY Zenon, <1>8, Types
  <2>5. \A d \in Entry : ~(ref[d] > 0 /\ inum[d] = i)
    BY Zenon, <1>8 DEF Found
  <2>q. QED BY Zenon, <1>1, <1>2, <1>3, <1>5, <2>1, <2>2, <2>3, <2>4, <2>5 DEF Got
<1>q. QED BY Zenon, <1>4, <1>7, <1>8

\* dirlookup() with its iget() preserves IInv.
LEMMA dirlookupStep ==
  ASSUME IInv, NEW p \in Proc, dirlookup(p)
  PROVE  IInv'
<1>1. pc[p] = "out" /\ pc' = [pc EXCEPT ![p] = "ref"] /\ new' = new
  BY Zenon DEF dirlookup
<1>2. PICK i \in Inum : names[i] > 0 /\ iget(p, i)
  BY Zenon DEF dirlookup
<1>3. new[p] = None
  BY <1>1, Types DEF IInv, NewInv
<1>4. PICK e \in Entry : Got(p, e, i)
  BY Zenon, <1>1, <1>2, <1>3, GetEntry, Types
<1>5. dlink[i] # 0 /\ alloc[i]
  <2>1. names[i] \in Nat /\ names[i] <= dlink[i] /\ dlink[i] \in Nat
    BY Zenon, NamesBelow
  <2>2. dlink[i] # 0
    BY <1>2, <2>1
  <2>q. QED BY Zenon, <2>2 DEF IInv, LinkInv
<1>6. \A q \in Proc : new[q] # i
  BY Zenon, <1>5 DEF IInv, NewInv
<1>7. \A q \in Proc : HasRef(q) /\ inum[ip[q]] = i => ~Fresh(q) /\ pc[q] # "trunc"
  BY Zenon, <1>5 DEF IInv, FreshInv, TruncInv
<1>8. pc'[p] # "newref"
  BY <1>1, Types
<1>q. QED BY Zenon, <1>4, <1>5, <1>6, <1>7, <1>8, GetStep

\* The iget() at the end of ialloc() preserves IInv.
LEMMA iallocgetStep ==
  ASSUME IInv, NEW p \in Proc, iallocget(p)
  PROVE  IInv'
<1>1. /\ pc[p] = "ialloc" /\ pc' = [pc EXCEPT ![p] = "newref"] /\ iget(p, new[p])
      /\ new' = [new EXCEPT ![p] = None]
  BY Zenon DEF iallocget
<1>2. PICK i \in Inum :
        /\ i = new[p] /\ alloc[i] /\ dlink[i] = 0
        /\ \A q \in Proc : q # p => new[q] # i
        /\ \A q \in Proc : HasRef(q) /\ inum[ip[q]] = i => Freed(q)
  BY Zenon, <1>1 DEF IInv, NewInv
<1>3. /\ new' \in [Proc -> Inum \cup {None}] /\ new'[p] = None
      /\ \A q \in Proc \ {p} : new'[q] = new[q]
  BY Zenon, <1>1, Types
<1>4. PICK e \in Entry : Got(p, e, i)
  BY Zenon, <1>1, <1>2, <1>3, GetEntry
<1>5. \A q \in Proc : HasRef(q) /\ inum[ip[q]] = i => ~Fresh(q) /\ pc[q] # "trunc"
  BY Zenon, <1>2, Places
<1>q. QED BY Zenon, <1>2, <1>4, <1>5, GetStep

\* idup() preserves IInv.
LEMMA idupStep ==
  ASSUME IInv, NEW p \in Proc, NEW q \in Proc, idup(p, q)
  PROVE  IInv'
<1>1. /\ pc[p] \in {"ref", "locked"} /\ pc[q] = "out" /\ pc' = [pc EXCEPT ![q] = "ref"]
      /\ ref' = [ref EXCEPT ![ip[p]] = ref[ip[p]] + 1] /\ ip' = [ip EXCEPT ![q] = ip[p]]
      /\ UNCHANGED <<alloc, dlink, names, inum, valid, nlink, lock, new>>
  BY Zenon DEF idup, More, disk
<1>2. /\ pc' \in [Proc -> Where] /\ pc'[q] = "ref" /\ \A r \in Proc \ {q} : pc'[r] = pc[r]
  BY Zenon, <1>1, Types DEF Where
<1>3. /\ ~HasRef(q) /\ HasRef(q)' /\ ~HasLock(q)' /\ ~Freed(q)' /\ ~Pending(q) /\ ~Pending(q)'
      /\ HasRef(p) /\ ~Freed(p) /\ ~Fresh(p) /\ pc[p] # "trunc"
  BY Zenon, <1>1, <1>2 DEF HasRef, HasLock, Freed, Pending, Fresh
<1>4. RefFacts
  BY Zenon, RefsKnown
<1>5. PICK e \in Entry, i \in Inum : e = ip[p] /\ i = inum[e] /\ ref[e] > 0
  BY Zenon, <1>3, <1>4 DEF RefFacts
<1>6. ip' \in [Proc -> Entry] /\ ip'[q] = e /\ \A r \in Proc \ {q} : ip'[r] = ip[r]
  BY Zenon, <1>1, <1>5, Types
<1>7. /\ ref' \in [Entry -> Nat] /\ ref'[e] = ref[e] + 1
      /\ \A d \in Entry \ {e} : ref'[d] = ref[d]
  <2>1. ref[e] + 1 \in Nat
    BY Types
  <2>q. QED BY Zenon, <1>1, <1>5, <2>1, Types
<1>8. new[q] = None
  BY <1>1, Types DEF IInv, NewInv
<1>9. \A d \in Entry : ref[d] > 0 /\ inum[d] = i => d = e
  BY Zenon, <1>5 DEF IInv, OneEntry
<1>10. Got(q, e, i)
  BY Zenon, <1>1, <1>2, <1>3, <1>5, <1>6, <1>7, <1>8, <1>9, Types DEF Got
<1>11. alloc[i] /\ \A r \in Proc \ {q} : new[r] # i
  <2>1. alloc[i]
    BY Zenon, <1>3, <1>5 DEF IInv, RefAllocated
  <2>q. QED BY Zenon, <1>3, <1>5, <2>1 DEF IInv, NewInv
<1>12. \A r \in Proc : HasRef(r) /\ inum[ip[r]] = i => ~Fresh(r) /\ pc[r] # "trunc"
  <2>1. ASSUME NEW r \in Proc, HasRef(r), inum[ip[r]] = i
        PROVE  ~Fresh(r) /\ pc[r] # "trunc"
    <3>1. ip[r] = ip[p]
      <4>1. HasRef(p) /\ HasRef(r) /\ inum[ip[p]] = inum[ip[r]]
        BY Zenon, <1>3, <1>5, <2>1
      <4>q. QED BY Zenon, <1>4, <4>1 DEF RefFacts
    <3>2. ~Fresh(r)
      BY Zenon, <1>3, <3>1 DEF IInv, FreshInv
    <3>3. pc[r] # "trunc"
      BY Zenon, <1>3, <1>4, <2>1, <3>1 DEF IInv, TruncInv, RefFacts
    <3>q. QED BY Zenon, <3>2, <3>3
  <2>q. QED BY Zenon, <2>1
<1>13. pc'[q] # "newref"
  BY <1>2
<1>q. QED BY Zenon, <1>10, <1>11, <1>12, <1>13, GetStep

\* The table has a first entry.
LEMMA SomeEntry ==
  ASSUME InodeAssumption
  PROVE  1 \in Entry
BY DEF InodeAssumption, Entry

\* iput() up to the decision to free the inode preserves IInv.
LEMMA iputStep ==
  ASSUME IInv, NEW p \in Proc, iput(p)
  PROVE  IInv'
<1>1. CASE Last(ip[p])
  BY Zenon, <1>1, truncStep
<1>2. CASE ~Last(ip[p])
  <2>1. 1 \in Entry
    BY Zenon, SomeEntry DEF IInv
  <2>2. /\ pc[p] = "iput" /\ ref' = [ref EXCEPT ![ip[p]] = ref[ip[p]] - 1]
        /\ pc' = [pc EXCEPT ![p] = "out"] /\ ip' = [ip EXCEPT ![p] = 1]
        /\ UNCHANGED <<disk, inum, valid, nlink, lock, new>>
    BY Zenon, <1>2 DEF iput
  <2>q. QED BY Zenon, <2>1, <2>2, LeaveStep
<1>q. QED BY Zenon, <1>1, <1>2

\* The ref-- of iput() after the freeing preserves IInv.
LEMMA dropStep ==
  ASSUME IInv, NEW p \in Proc, drop(p)
  PROVE  IInv'
<1>1. 1 \in Entry
  BY Zenon, SomeEntry DEF IInv
<1>2. /\ pc[p] = "drop" /\ ref' = [ref EXCEPT ![ip[p]] = ref[ip[p]] - 1]
      /\ pc' = [pc EXCEPT ![p] = "out"] /\ ip' = [ip EXCEPT ![p] = 1]
      /\ UNCHANGED <<disk, inum, valid, nlink, lock, new>>
  BY Zenon DEF drop
<1>q. QED BY Zenon, <1>1, <1>2, LeaveStep

\* A step that changes nothing preserves IInv.
LEMMA Stutter ==
  ASSUME IInv, UNCHANGED vars
  PROVE  IInv'
<1>1. UNCHANGED <<alloc, dlink, names, inum, ref, valid, nlink, lock, pc, ip, new>>
  BY Zenon DEF vars, disk
<1>2. TypeOK' /\ OneEntry' /\ EntryInv'
  BY Zenon, <1>1 DEF IInv, TypeOK, OneEntry, EntryInv
<1>3. RefExact' /\ LockExact' /\ RefAllocated'
  <2>1. RefExact'
    BY Zenon, <1>1 DEF IInv, RefExact, HasRef
  <2>2. LockExact'
    BY Zenon, <1>1 DEF IInv, LockExact, HasLock
  <2>3. RefAllocated'
    BY Zenon, <1>1 DEF IInv, RefAllocated, HasRef, Freed
  <2>q. QED BY Zenon, <2>1, <2>2, <2>3
<1>4. NewInv' /\ FreshInv' /\ TruncInv' /\ LockValid'
  BY Zenon, <1>1 DEF IInv, NewInv, FreshInv, TruncInv, LockValid, HasRef, HasLock, Freed, Fresh
<1>5. CopyInv' /\ LinkInv'
  BY Zenon, <1>1 DEF IInv, CopyInv, LinkInv, HasRef, Links, Pending
<1>q. QED BY Zenon, <1>2, <1>3, <1>4, <1>5 DEF IInv

\* IInv holds when the table is empty.
LEMMA InitIInv ==
  ASSUME InodeAssumption, Init
  PROVE  IInv
<1>1. /\ alloc \in [Inum -> BOOLEAN] /\ dlink = names
      /\ names = [i \in Inum |-> IF alloc[i] THEN 1 ELSE 0]
      /\ inum = [e \in Entry |-> None] /\ ref = [e \in Entry |-> 0]
      /\ valid = [e \in Entry |-> FALSE] /\ nlink = [e \in Entry |-> 0]
      /\ lock = [e \in Entry |-> None] /\ pc = [p \in Proc |-> "out"]
      /\ ip = [p \in Proc |-> 1] /\ new = [p \in Proc |-> None]
  BY Zenon DEF Init
<1>2. \A p \in Proc : ~HasRef(p) /\ ~HasLock(p) /\ ~Freed(p) /\ ~Fresh(p) /\ ~Pending(p)
  BY <1>1 DEF HasRef, HasLock, Freed, Fresh, Pending
<1>3. \A e \in Entry : ref[e] = 0 /\ ~(ref[e] > 0)
  BY <1>1
<1>4. TypeOK
  <2>1. ip \in [Proc -> Entry]
    BY Zenon, <1>1, SomeEntry
  <2>2. names \in [Inum -> Nat]
    BY <1>1
  <2>q. QED BY <1>1, <2>1, <2>2 DEF TypeOK
<1>5. RefExact /\ OneEntry /\ EntryInv /\ RefAllocated
  <2>1. \A e \in Entry : Refs(e) = {}
    BY Zenon, <1>2 DEF Refs
  <2>2. Cardinality({}) = 0
    BY FS_EmptySet
  <2>3. RefExact
    BY Zenon, <1>3, <2>1, <2>2 DEF RefExact, Refs
  <2>q. QED BY Zenon, <1>2, <1>3, <2>3 DEF OneEntry, EntryInv, RefAllocated
<1>6. LockExact
  <2>1. \A e \in Entry, p \in Proc : lock[e] # p
    BY <1>1 DEF InodeAssumption
  <2>q. QED BY Zenon, <1>2, <2>1 DEF LockExact
<1>7. NewInv
  <2>1. \A p \in Proc : new[p] \notin Inum /\ pc[p] # "ialloc"
    BY <1>1 DEF InodeAssumption
  <2>q. QED BY Zenon, <2>1 DEF NewInv
<1>8. FreshInv /\ TruncInv /\ LockValid /\ CopyInv
  <2>1. \A p \in Proc : pc[p] # "trunc"
    BY <1>1
  <2>q. QED BY Zenon, <1>2, <1>3, <2>1 DEF FreshInv, TruncInv, LockValid, CopyInv
<1>9. LinkInv
  <2>1. \A i \in Inum : Links(i) = {}
    BY Zenon, <1>2 DEF Links
  <2>2. Cardinality({}) = 0
    BY FS_EmptySet
  <2>3. \A i \in Inum : dlink[i] = names[i] + 0 /\ (~alloc[i] => dlink[i] = 0)
    BY <1>1
  <2>q. QED BY Zenon, <2>1, <2>2, <2>3 DEF LinkInv
<1>q. QED BY Zenon, <1>4, <1>5, <1>6, <1>7, <1>8, <1>9 DEF IInv

\* Every step of every process preserves the invariant.
LEMMA NextIInv ==
  ASSUME IInv, [Next]_vars
  PROVE  IInv'
<1>1. ASSUME NEW p \in Proc, Step(p)
      PROVE  IInv'
  <2>1. CASE iallocfail(p)
    BY Zenon, <2>1, Stutter DEF iallocfail
  <2>q. QED
    BY Zenon, <1>1, <2>1, dirlookupStep, iallocStep, iallocgetStep, ilockStep, createStep,
       linkStep, dirlinkStep, linkbadStep, unlinkStep, iunlockStep, closeStep, iputStep,
       freeStep, invalidateStep, dropStep DEF Step
<1>2. ASSUME NEW p \in Proc, NEW q \in Proc, idup(p, q)
      PROVE  IInv'
  BY Zenon, <1>2, idupStep
<1>3. CASE UNCHANGED vars
  BY Zenon, <1>3, Stutter
<1>q. QED BY Zenon, <1>1, <1>2, <1>3 DEF Next

-----------------------------------------------------------------------------
(* What holds of the inode table at every moment                           *)

\* The inductive invariant: types, counts, locks and copies, and whose an inode is that
\* ialloc() has just taken or iput() is about to free.
THEOREM Invariance == InodeAssumption /\ Spec => []IInv
<1>1. InodeAssumption /\ Init => IInv
  BY Zenon, InitIInv
<1>2. IInv /\ [Next]_vars => IInv'
  BY Zenon, NextIInv
<1>q. QED BY <1>1, <1>2, PTL DEF Spec

\* iget() never has one inode in two entries and recycles an entry just when nobody points
\* to it: ip->ref is the number of pointers.
THEOREM ReferencesHold == InodeAssumption /\ Spec => [](RefExact /\ OneEntry)
<1>1. IInv => RefExact /\ OneEntry
  BY Zenon DEF IInv
<1>q. QED BY <1>1, Invariance, PTL

\* Between ilock() and iunlock() a process has the inode for itself, and iput(), which sleeps
\* for that lock while it holds itable.lock, never finds it taken.
THEOREM LocksHold == InodeAssumption /\ Spec => [](LockExact /\ IputNoBlock)
<1>1. ASSUME IInv
      PROVE  IputNoBlock
  <2>1. SUFFICES ASSUME NEW p \in Proc, pc[p] = "iput", Last(ip[p]), lock[ip[p]] # None
                 PROVE  FALSE
    BY Zenon DEF IputNoBlock
  <2>2. HasRef(p) /\ ~HasLock(p)
    BY <2>1 DEF HasRef, HasLock
  <2>3. RefFacts
    BY Zenon, <1>1, RefsKnown
  <2>4. ip[p] \in Entry /\ ref[ip[p]] = 1
    BY Zenon, <2>1, <2>2, <2>3 DEF RefFacts, Last
  <2>5. PICK q \in Proc : lock[ip[p]] = q
    BY Zenon, <1>1, <2>1, <2>4, Types
  <2>6. HasLock(q) /\ ip[q] = ip[p]
    BY Zenon, <1>1, <2>4, <2>5 DEF IInv, LockExact
  <2>7. HasRef(q)
    BY Zenon, <2>6, Places
  <2>8. q = p
    BY Zenon, <2>2, <2>3, <2>4, <2>6, <2>7 DEF RefFacts
  <2>q. QED BY Zenon, <2>2, <2>6, <2>8
<1>2. IInv => LockExact /\ IputNoBlock
  BY Zenon, <1>1 DEF IInv
<1>q. QED BY <1>2, Invariance, PTL

\* An inode is not freed under a process that refers to it, and what ialloc() hands out
\* again is nobody else's: ilock() never finds an inode without a type.
THEOREM RefAllocatedHolds == InodeAssumption /\ Spec => []RefAllocated
<1>1. IInv => RefAllocated
  BY Zenon DEF IInv
<1>q. QED BY <1>1, Invariance, PTL

\* A copy that ilock() finds valid has the link count of the disk, and a link count covers the
\* names, through the two halves of sys_link() and its undoing, sys_unlink() and create().
THEOREM LinksHold == InodeAssumption /\ Spec => [](CopyFresh /\ LinksCover)
<1>1. ASSUME IInv
      PROVE  LinksCover
  <2>1. SUFFICES ASSUME NEW i \in Inum, names[i] > 0
                 PROVE  alloc[i] /\ dlink[i] >= names[i]
    BY Zenon DEF LinksCover
  <2>2. names[i] \in Nat /\ names[i] <= dlink[i] /\ dlink[i] \in Nat
    BY Zenon, <1>1, NamesBelow
  <2>3. dlink[i] # 0 /\ dlink[i] >= names[i]
    BY <2>1, <2>2
  <2>q. QED BY Zenon, <1>1, <2>3 DEF IInv, LinkInv
<1>2. IInv => CopyFresh
  BY Zenon DEF IInv, CopyInv, CopyFresh
<1>3. IInv => CopyFresh /\ LinksCover
  BY Zenon, <1>1, <1>2
<1>q. QED BY <1>3, Invariance, PTL
=============================================================================
