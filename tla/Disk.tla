-------------------------------- MODULE Disk --------------------------------
(***************************************************************************)
(* The disk driver of kernel/virtio_disk.c, the device behind its rings    *)
(* and the processes in virtio_disk_rw().  A step is a section under       *)
(* vdisk_lock up to a sleep(), one iteration of the interrupt handler, or  *)
(* a step of the device, which may come between any two of the others.     *)
(* A process transfers a buffer of its own, locked, so no two processes    *)
(* use one block at a time.                                                *)
(***************************************************************************)
EXTENDS Integers, FiniteSets

CONSTANTS
  Proc, Block, Val,
  None,
  NUM,             \* descriptors
  RING,            \* entries of each ring; NUM too in the code
  UINT16           \* number of values of a ring's index; a multiple of RING

Desc == 0..NUM - 1

Request == [write : BOOLEAN, block : Block, data : Val]

\* There are as many ring entries as chains of three at least, and the indices
\* tell a full ring from an empty one.
ASSUME DiskAssumption ==
  /\ NUM \in Nat \ {0} /\ RING \in Nat \ {0} /\ NUM < 3 * (RING + 1)
  /\ UINT16 \in Nat /\ UINT16 > RING /\ UINT16 % RING = 0
  /\ None \notin Proc \cup Desc \cup Request

VARIABLES
  free,            \* free descriptors
  next,            \* desc[i].next, or None where VRING_DESC_F_NEXT is not set
  info,            \* info[i].b, the process that has the buffer, or None
  avail, availidx, used, usedidx,  \* the rings and their idx
  seen,            \* disk.used_idx
  intr,            \* virtio_disk_intr() runs, with vdisk_lock
  irq, taken, busy,  \* device: interrupt, position in avail, chains at work
  platter,         \* contents of the blocks
  pc, op, idx      \* a process: place, request with the buffer's data, head of its chain

rings == <<avail, availidx, used, usedidx, seen>>
dev == <<irq, taken, busy, platter>>
vars == <<free, next, info, rings, intr, dev, pc, op, idx>>

Init ==
  /\ free = Desc
  /\ next = [i \in Desc |-> None]
  /\ info = [i \in Desc |-> None]
  /\ avail = [i \in 0..RING - 1 |-> 0] /\ availidx = 0
  /\ used = [i \in 0..RING - 1 |-> 0] /\ usedidx = 0 /\ seen = 0
  /\ intr = FALSE
  /\ irq = FALSE /\ taken = 0 /\ busy = {}
  /\ platter \in [Block -> Val]
  /\ pc = [p \in Proc |-> "out"]
  /\ op = [p \in Proc |-> None]
  /\ idx = [p \in Proc |-> None]

\* wakeup(&disk.free[0]), after change f of pc.
wakefree(f) == [p \in Proc |-> IF f[p] = "nodesc" THEN "alloc" ELSE f[p]]

\* bread() or bwrite() of a buffer that p has locked.
rw(p) ==
  /\ pc[p] = "out"
  /\ \E w \in BOOLEAN, n \in Block, v \in Val :
       /\ \A q \in Proc : op[q] # None => op[q].block # n
       /\ op' = [op EXCEPT ![p] = [write |-> w, block |-> n, data |-> v]]
  /\ pc' = [pc EXCEPT ![p] = "alloc"]
  /\ UNCHANGED <<free, next, info, rings, intr, dev, idx>>

\* The descriptors alloc_desc() finds, in three calls.
Lowest(s) == CHOOSE i \in s : \A j \in s : i <= j
First == Lowest(free)
Second == Lowest(free \ {First})
Third == Lowest(free \ {First, Second})

\* alloc3_desc() fails: free_desc() of a part of the three wakes the others.
allocfail(p) ==
  /\ pc[p] = "alloc" /\ ~intr
  /\ Cardinality(free) < 3
  /\ pc' = IF free = {} THEN [pc EXCEPT ![p] = "nodesc"]
           ELSE [wakefree(pc) EXCEPT ![p] = "nodesc"]
  /\ UNCHANGED <<free, next, info, rings, intr, dev, op, idx>>

AvailSlot == availidx % RING

\* virtio_disk_rw(): three descriptors, their chain, and its entry in avail.
submit(p) ==
  /\ pc[p] = "alloc" /\ ~intr
  /\ Cardinality(free) >= 3
  /\ free' = free \ {First, Second, Third}
  /\ next' = [next EXCEPT ![First] = Second, ![Second] = Third, ![Third] = None]
  /\ info' = [info EXCEPT ![First] = p]
  /\ idx' = [idx EXCEPT ![p] = First]
  /\ avail' = [avail EXCEPT ![AvailSlot] = First]
  /\ availidx' = (availidx + 1) % UINT16
  /\ pc' = [pc EXCEPT ![p] = "wait"]
  /\ UNCHANGED <<used, usedidx, seen, intr, dev, op>>

\* The device takes the next chain, and finishes chains in any order: it
\* moves the data, writes the status and the used entry, and interrupts.
devtake ==
  /\ taken # availidx
  /\ busy' = busy \cup {avail[taken % RING]}
  /\ taken' = (taken + 1) % UINT16
  /\ UNCHANGED <<free, next, info, rings, intr, irq, platter, pc, op, idx>>

devdone(i) ==
  /\ i \in busy
  /\ LET p == info[i] IN
       IF op[p].write
       THEN platter' = [platter EXCEPT ![op[p].block] = op[p].data] /\ UNCHANGED op
       ELSE op' = [op EXCEPT ![p].data = platter[op[p].block]] /\ UNCHANGED platter
  /\ busy' = busy \ {i}
  /\ used' = [used EXCEPT ![usedidx % RING] = i]
  /\ usedidx' = (usedidx + 1) % UINT16
  /\ irq' = TRUE
  /\ UNCHANGED <<free, next, info, avail, availidx, seen, intr, taken, pc, idx>>

\* virtio_disk_intr(): acknowledge, then look at the used ring.
intrack ==
  /\ irq /\ ~intr
  /\ irq' = FALSE
  /\ intr' = TRUE
  /\ UNCHANGED <<free, next, info, rings, taken, busy, platter, pc, op, idx>>

\* Mutant: used entries are taken to arrive in the order of submission.
DoneInOrder == avail[seen % RING]

\* The chain of the used entry the handler looks at.
Done == used[seen % RING]

intrloop ==
  /\ intr /\ seen # usedidx
  /\ seen' = (seen + 1) % UINT16
  /\ pc' = [pc EXCEPT ![info[Done]] = "done"]
  /\ UNCHANGED <<free, next, info, avail, availidx, used, usedidx, intr, dev, op, idx>>

\* Mutant: the handler takes one entry for each interrupt.
intrleaveEarly ==
  /\ intr /\ intr' = FALSE
  /\ UNCHANGED <<free, next, info, rings, dev, pc, op, idx>>

\* The handler has seen usedidx; an entry added before it leaves interrupts again.
intrleave ==
  /\ intr /\ seen = usedidx
  /\ intr' = FALSE
  /\ UNCHANGED <<free, next, info, rings, dev, pc, op, idx>>

\* Mutants: the chain ends at its second descriptor, or the flag is ignored.
ChainShort(i) == {i, next[i]}
ChainLong(i) == {i, next[i], next[next[i]], next[next[next[i]]]}

\* The descriptors free_chain(i) follows.
Chain(i) == {i, next[i], next[next[i]]}

\* Mutant: free_desc() does not wake the processes that wait for descriptors.
finishSilent(p) == [pc EXCEPT ![p] = "out"]

\* Who runs after free_chain().
finished(p) == wakefree([pc EXCEPT ![p] = "out"])

\* The rest of virtio_disk_rw(), once b->disk is 0.
finish(p) ==
  /\ pc[p] = "done" /\ ~intr
  /\ info' = [info EXCEPT ![idx[p]] = None]
  /\ free' = free \cup Chain(idx[p])
  /\ next' = [i \in Desc |-> IF i \in Chain(idx[p]) THEN None ELSE next[i]]
  /\ pc' = finished(p)
  /\ op' = [op EXCEPT ![p] = None]
  /\ idx' = [idx EXCEPT ![p] = None]
  /\ UNCHANGED <<rings, intr, dev>>

Step(p) == rw(p) \/ allocfail(p) \/ submit(p) \/ finish(p)
Device == devtake \/ \E i \in Desc : devdone(i)
Handler == intrack \/ intrloop \/ intrleave

Next == Device \/ Handler \/ \E p \in Proc : Step(p)

Spec == Init /\ [][Next]_vars

\* The device finishes what it took, interrupts are served, processes run; a
\* process that finds free descriptors again and again gets three of them.
FairSpec ==
  /\ Spec /\ WF_vars(devtake) /\ WF_vars(Handler)
  /\ \A i \in Desc : WF_vars(devdone(i))
  /\ \A p \in Proc : SF_vars(submit(p)) /\ SF_vars(finish(p))

-----------------------------------------------------------------------------
\* Every variable has its type: rings and chains hold descriptors, and the
\* ring indices stay in 16 bits.
TypeOK ==
  /\ free \subseteq Desc
  /\ next \in [Desc -> Desc \cup {None}]
  /\ info \in [Desc -> Proc \cup {None}]
  /\ {avail, used} \subseteq [0..RING - 1 -> Desc]
  /\ {availidx, usedidx, seen, taken} \subseteq 0..UINT16 - 1
  /\ intr \in BOOLEAN /\ irq \in BOOLEAN /\ busy \subseteq Desc
  /\ platter \in [Block -> Val]
  /\ pc \in [Proc -> {"out", "alloc", "nodesc", "wait", "done"}]
  /\ op \in [Proc -> Request \cup {None}]
  /\ idx \in [Proc -> Desc \cup {None}]

InFlight == {p \in Proc : pc[p] \in {"wait", "done"}}

\* Every descriptor is free or in the chain of one request, so alloc3_desc()
\* never takes a descriptor the device may still use, and free_desc() never
\* meets a free one (its panic).
DescExact ==
  /\ \A p, q \in InFlight : p # q => Chain(idx[p]) \cap Chain(idx[q]) = {}
  /\ \A p \in InFlight : Cardinality(Chain(idx[p])) = 3 /\ info[idx[p]] = p
  /\ free = Desc \ UNION {Chain(idx[p]) : p \in InFlight}

\* virtio_disk_rw() returns only when the device has moved the data of this
\* request, whatever the order in which requests complete.
Transferred == \A p \in Proc : pc[p] = "done" => op[p].data = platter[op[p].block]

\* The entries of a ring from one index to another.
Ahead(ring, from, to) == {ring[(from + k) % RING] : k \in 0..((to - from) % UINT16) - 1}

\* No completion is missed: while a request waits, the device still has it, or
\* its used entry is ahead of the handler, which runs or will be called.
NoLostInterrupt ==
  /\ \A p \in Proc : pc[p] = "wait" => idx[p] \in Ahead(avail, taken, availidx) \cup busy \cup Ahead(used, seen, usedidx)
  /\ seen # usedidx => irq \/ intr

\* Every transfer ends, also when more processes want descriptors than there are.
RequestEnds == \A p \in Proc : pc[p] # "out" ~> pc[p] = "out"
=============================================================================
