----------------------------- MODULE LogProofs ------------------------------
(***************************************************************************)
(* The redo log keeps its inductive invariant and implements AtomicLog:    *)
(* whatever is interrupted by a crash, a reboot finds what the calls saw   *)
(* at a moment when none was half done.  This holds for every number of    *)
(* processes, blocks, contents and crashes, and for every LOGSIZE,         *)
(* MAXOPBLOCKS and size of the log on disk.                                *)
(***************************************************************************)
EXTENDS Log, FiniteSetTheorems, TLAPS

\* The calls can be counted.
LEMMA OpsFinite ==
  IsFiniteSet(Ops) /\ Cardinality(Ops) \in Nat /\ Cardinality(Ops) <= Cardinality(Proc)
<1>1. Ops \in SUBSET Proc
  BY Zenon DEF Ops
<1>q. QED BY Zenon, <1>1, LogAssumption, FS_Subset, FS_CardinalityType

\* So can the blocks they may still write.
LEMMA ReservedFinite ==
  /\ IsFiniteSet(Reserved) /\ Cardinality(Reserved) \in Nat
  /\ Cardinality(Reserved) <= Cardinality(Ops) * MAXOPBLOCKS
<1>1. IsFiniteSet(1..MAXOPBLOCKS) /\ Cardinality(1..MAXOPBLOCKS) = MAXOPBLOCKS
  BY LogAssumption, FS_Interval
<1>2. /\ IsFiniteSet(Ops \X (1..MAXOPBLOCKS))
      /\ Cardinality(Ops \X (1..MAXOPBLOCKS)) = Cardinality(Ops) * MAXOPBLOCKS
  BY Zenon, <1>1, OpsFinite, FS_Product
<1>3. Reserved \in SUBSET (Ops \X (1..MAXOPBLOCKS))
  BY Zenon DEF Reserved
<1>q. QED BY Zenon, <1>2, <1>3, FS_Subset, FS_CardinalityType

\* Without a call in its transaction no space is reserved.
LEMMA QuietSpace ==
  Ops = {} /\ lh \in Seq(Block) /\ OneEntry(lh) => SpaceReserved
<1> SUFFICES ASSUME Ops = {}, lh \in Seq(Block), OneEntry(lh)
             PROVE  SpaceReserved
  OBVIOUS
<1>1. Reserved = {}
  BY Zenon DEF Reserved
<1>2. Cardinality(Reserved) = 0
  BY Zenon, <1>1, FS_EmptySet
<1>q. QED BY <1>2, LogAssumption DEF SpaceReserved, OneEntry

\* The pin counts, block by block.
Pinned(b) == \E k \in Pending : lh[k] = b
Pins == \A b \in Block : pins[b] = IF Pinned(b) THEN 1 ELSE 0

\* A block is pending at one place at most, so PinsExact says just that.
LEMMA PinsOne ==
  lh \in Seq(Block) /\ OneEntry(lh) => (PinsExact <=> Pins)
<1> SUFFICES ASSUME lh \in Seq(Block), OneEntry(lh)
             PROVE  PinsExact <=> Pins
  OBVIOUS
<1>1. \A b \in Block : Cardinality({k \in Pending : lh[k] = b})
                         = IF Pinned(b) THEN 1 ELSE 0
  <2> SUFFICES ASSUME NEW b \in Block
               PROVE  Cardinality({k \in Pending : lh[k] = b})
                        = IF Pinned(b) THEN 1 ELSE 0
    OBVIOUS
  <2>1. CASE Pinned(b)
    <3>1. PICK k \in Pending : lh[k] = b
      BY Zenon, <2>1 DEF Pinned
    <3>2. {j \in Pending : lh[j] = b} = {k}
      BY Zenon, <3>1 DEF OneEntry, Pending, Recovering
    <3>q. QED BY Zenon, <2>1, <3>2, FS_Singleton
  <2>2. CASE ~Pinned(b)
    <3>1. {k \in Pending : lh[k] = b} = {}
      BY Zenon, <2>2 DEF Pinned
    <3>q. QED BY Zenon, <2>2, <3>1, FS_EmptySet
  <2>q. QED BY Zenon, <2>1, <2>2
<1>q. QED BY Zenon, <1>1 DEF PinsExact, Pins

\* What a reboot finds in each block.
LEMMA DurableFacts ==
  TypeOK /\ OneEntry(head) =>
    /\ Durable \in [Block -> Value]
    /\ \A k \in 1..Len(head) : Durable[head[k]] = logblock[k]
    /\ \A b \in Block : (\A k \in 1..Len(head) : head[k] # b) => Durable[b] = home[b]
<1> SUFFICES ASSUME TypeOK, OneEntry(head)
             PROVE  /\ Durable \in [Block -> Value]
                    /\ \A k \in 1..Len(head) : Durable[head[k]] = logblock[k]
                    /\ \A b \in Block : (\A k \in 1..Len(head) : head[k] # b) =>
                                          Durable[b] = home[b]
  OBVIOUS
<1>1. /\ home \in [Block -> Value] /\ logblock \in [Slots -> Value]
      /\ head \in Seq(Block)
  BY Zenon DEF TypeOK
<1>2. \A k \in 1..Len(head) : Durable[head[k]] = logblock[k]
  <2> SUFFICES ASSUME NEW k \in 1..Len(head)
               PROVE  Durable[head[k]] = logblock[k]
    OBVIOUS
  <2>1. At(head, head[k]) = {k}
    BY Zenon, <1>1 DEF OneEntry, At
  <2>2. Latest({k}) = k
    BY <1>1 DEF Latest
  <2>3. head[k] \in Block /\ At(head, head[k]) # {}
    BY <1>1, <2>1
  <2>q. QED BY Zenon, <2>1, <2>2, <2>3 DEF Durable
<1>3. \A b \in Block : (\A k \in 1..Len(head) : head[k] # b) => Durable[b] = home[b]
  BY Zenon DEF Durable, At
<1>4. \A b \in Block : Durable[b] \in Value
  <2> SUFFICES ASSUME NEW b \in Block
               PROVE  Durable[b] \in Value
    OBVIOUS
  <2>1. CASE \E k \in 1..Len(head) : head[k] = b
    BY <1>1, <1>2, <2>1 DEF OneEntry
  <2>q. QED BY Zenon, <1>1, <1>3, <2>1
<1>q. QED BY Zenon, <1>2, <1>3, <1>4 DEF Durable

\* The kernel boots with an empty log.
LEMMA InitIInv == Init => IInv
<1> SUFFICES ASSUME Init
             PROVE  IInv
  OBVIOUS
<1>1. Ops = {} /\ Cardinality(Ops) = 0
  <2>1. Ops = {}
    BY Zenon DEF Init, Ops
  <2>q. QED BY Zenon, <2>1, FS_EmptySet
<1>2. TypeOK
  <2>1. 0 \in 0..Cardinality(Proc)
    BY LogAssumption, FS_CardinalityType
  <2>2. head \in Seq(Block) /\ lh \in Seq(Block) /\ crashes \in 0..MaxCrash
    BY LogAssumption DEF Init
  <2>3. tail \in Nat \ {0} /\ pins \in [Block -> Nat]
    BY DEF Init
  <2>q. QED BY Zenon, <2>1, <2>2, <2>3, LogAssumption DEF Init, TypeOK
<1>3. OneEntry(lh) /\ lh \in Seq(Block)
  BY LogAssumption DEF Init, OneEntry
<1>4. CallInv
  BY Zenon, <1>1 DEF Init, CallInv, Committing
<1>5. LogInv
  BY Zenon, <1>3 DEF Init, LogInv
<1>6. TailInv
  BY Zenon DEF Init, TailInv
<1>7. CacheInv
  BY Zenon DEF Init, CacheInv, Pending, Recovering, Copied, Installed
<1>8. WroteInv
  BY Zenon, FS_EmptySet DEF Init, WroteInv
<1>9. PinsExact
  <2>1. Pins
    BY Zenon DEF Init, Pins, Pinned, Pending, Recovering
  <2>q. QED BY Zenon, <1>3, <2>1, PinsOne
<1>q. QED BY Zenon, <1>1, <1>2, <1>3, <1>4, <1>5, <1>6, <1>7, <1>8, <1>9, QuietSpace
   DEF IInv

\* A step that leaves the log, its stage and the disk alone, and the calls
\* inside their transactions too.
Aside == UNCHANGED <<disk, lh, outstanding, committing, stage, tail, wrote, panicked, crashes>>

\* Such a step keeps all but what is about the cache.
LEMMA AsideStep ==
  ASSUME IInv, Aside, Ops' = Ops, TypeOK',
         stage \in Recovering => \A p \in Proc : pc'[p] = "idle",
         \A p \in Proc : pc'[p] = "op" <=> pc[p] = "op"
  PROVE  CallInv' /\ LogInv' /\ TailInv' /\ WroteInv' /\ SpaceReserved'
<1>1. CallInv'
  BY Zenon DEF IInv, Aside, CallInv
<1>2. LogInv' /\ TailInv'
  BY DEF IInv, Aside, LogInv, TailInv, OneEntry, disk
<1>3. WroteInv'
  BY Zenon DEF IInv, Aside, WroteInv, At
<1>4. Reserved' = Reserved
  BY Zenon DEF Reserved, Aside
<1>5. SpaceReserved'
  BY Zenon, <1>4 DEF IInv, SpaceReserved, Aside
<1>q. QED BY Zenon, <1>1, <1>2, <1>3, <1>5

\* A call enters the kernel.
LEMMA syscallStep ==
  ASSUME IInv, NEW p \in Proc, syscall(p)
  PROVE  IInv'
<1>1. TypeOK /\ TypeOK' /\ Ops' = Ops
  BY Zenon DEF IInv, syscall, TypeOK, Ops, disk, buffers
<1>2. Aside /\ UNCHANGED buffers
  BY Zenon DEF syscall, Aside
<1>3. CallInv' /\ LogInv' /\ TailInv' /\ WroteInv' /\ SpaceReserved'
  BY Zenon, <1>1, <1>2, AsideStep DEF syscall, Up, Recovering, TypeOK
<1>4. CacheInv' /\ PinsExact'
  BY <1>2
     DEF Aside, IInv, CacheInv, PinsExact, Pending, Recovering, Copied, Installed, buffers, disk
<1>q. QED BY Zenon, <1>1, <1>3, <1>4 DEF IInv

\* begin_op() admits a call only with space for all it may write.
LEMMA begin_opStep ==
  ASSUME IInv, NEW p \in Proc, begin_op(p)
  PROVE  IInv'
<1>1. TypeOK /\ pc[p] = "begin" /\ Up
  BY Zenon DEF IInv, begin_op
<1>2. CASE committing \/ Len(lh) + (outstanding + 1) * MAXOPBLOCKS > LOGSIZE
  <2>1. Aside /\ UNCHANGED buffers /\ pc' = [pc EXCEPT ![p] = "asleep"]
    BY Zenon, <1>2 DEF begin_op, Aside
  <2>2. TypeOK' /\ Ops' = Ops
    BY Zenon, <1>1, <2>1 DEF Aside, TypeOK, Ops, disk, buffers
  <2>3. CallInv' /\ LogInv' /\ TailInv' /\ WroteInv' /\ SpaceReserved'
    BY Zenon, <1>1, <2>1, <2>2, AsideStep DEF Up, Recovering, TypeOK
  <2>4. CacheInv' /\ PinsExact'
    BY <2>1
       DEF Aside, IInv, CacheInv, PinsExact, Pending, Recovering, Copied, Installed, buffers, disk
  <2>q. QED BY Zenon, <2>2, <2>3, <2>4 DEF IInv
<1>3. CASE ~(committing \/ Len(lh) + (outstanding + 1) * MAXOPBLOCKS > LOGSIZE)
  <2>1. /\ pc' = [pc EXCEPT ![p] = "op"] /\ outstanding' = outstanding + 1
        /\ UNCHANGED <<disk, buffers, lh, committing, stage, tail, wrote, panicked, crashes>>
    BY Zenon, <1>3 DEF begin_op
  <2>2. p \notin Ops /\ Ops' = Ops \cup {p}
    BY Zenon, <1>1, <2>1 DEF Ops, TypeOK
  <2>3. Cardinality(Ops)' = Cardinality(Ops) + 1
    BY Zenon, <2>2, OpsFinite, FS_AddElement
  <2>4. outstanding = Cardinality(Ops) /\ stage = "none"
    BY Zenon, <1>1, <1>3 DEF IInv, CallInv, Up, Recovering, Committing, TypeOK
  <2>5. TypeOK'
    <3>1. (Cardinality(Ops) \in Nat /\ Cardinality(Ops) <= Cardinality(Proc))'
      BY OpsFinite, PTL
    <3>2. Cardinality(Proc) \in Nat
      BY Zenon, LogAssumption, FS_CardinalityType
    <3>3. outstanding' \in 0..Cardinality(Proc)
      BY <2>1, <2>3, <2>4, <3>1, <3>2
    <3>q. QED BY Zenon, <1>1, <2>1, <3>3 DEF TypeOK, disk, buffers
  <2>6. CallInv'
    BY Zenon, <1>1, <2>1, <2>2, <2>3, <2>4 DEF IInv, CallInv, Recovering
  <2>7. LogInv' /\ TailInv'
    BY <2>1, <2>2, <2>4 DEF IInv, LogInv, TailInv, OneEntry, disk
  <2>8. CacheInv' /\ PinsExact'
    BY <2>1
       DEF IInv, CacheInv, PinsExact, Pending, Recovering, Copied, Installed, buffers, disk
  <2>9. WroteInv'
    BY <1>1, <2>1 DEF IInv, WroteInv, At, TypeOK
  <2>10. SpaceReserved'
    <3>1. (/\ Cardinality(Reserved) \in Nat
           /\ Cardinality(Reserved) <= Cardinality(Ops) * MAXOPBLOCKS)'
      BY ReservedFinite, PTL
    <3>2. Cardinality(Reserved)' <= (outstanding + 1) * MAXOPBLOCKS
      BY Zenon, <2>3, <2>4, <3>1
    <3>3. lh' = lh /\ Len(lh) \in Nat /\ (outstanding + 1) * MAXOPBLOCKS \in Nat
      BY <1>1, <2>1, <2>4, OpsFinite, LogAssumption DEF TypeOK
    <3>q. QED BY <1>3, <3>1, <3>2, <3>3, LogAssumption DEF SpaceReserved
  <2>q. QED BY Zenon, <2>5, <2>6, <2>7, <2>8, <2>9, <2>10 DEF IInv
<1>q. QED BY Zenon, <1>2, <1>3

\* A call never ends during a commit; the last of its group starts one.
LEMMA end_opStep ==
  ASSUME IInv, NEW p \in Proc, end_op(p)
  PROVE  IInv'
<1>1. TypeOK /\ p \in Ops /\ pc[p] = "op" /\ ~panicked
  BY Zenon DEF IInv, end_op, Ops, Up, Recovering
<1>2. stage = "none" /\ ~committing /\ outstanding = Cardinality(Ops) /\ outstanding \in Nat
  BY Zenon, <1>1, OpsFinite DEF IInv, CallInv, Committing
<1>3. /\ outstanding' = outstanding - 1
      /\ wrote' = [wrote EXCEPT ![p] = {}]
      /\ UNCHANGED <<disk, buffers, lh, panicked, crashes>>
  BY Zenon, <1>2 DEF end_op
<1>4. /\ outstanding = 1 => /\ committing' = TRUE /\ tail' = 1
                            /\ stage' = IF lh = <<>> THEN "finish" ELSE "write_log"
                            /\ pc' = [pc EXCEPT ![p] = "commit"]
      /\ outstanding # 1 => /\ pc' = wakeup([pc EXCEPT ![p] = "idle"])
                            /\ UNCHANGED <<committing, stage, tail>>
  BY Zenon, <1>2 DEF end_op
<1>5. pc' \in [Proc -> {"idle", "begin", "asleep", "op", "commit"}]
  BY Zenon, <1>1, <1>4 DEF wakeup, TypeOK
<1>6. \A q \in Proc : pc'[q] = "op" <=> pc[q] = "op" /\ q # p
  BY Zenon, <1>1, <1>4 DEF wakeup, TypeOK
<1>7. Ops' = Ops \ {p}
  BY Zenon, <1>6 DEF Ops
<1>8. Cardinality(Ops)' = outstanding - 1 /\ outstanding >= 1
  <2>1. outstanding # 0
    BY Zenon, <1>1, <1>2, OpsFinite, FS_EmptySet
  <2>2. Cardinality(Ops \ {p}) = Cardinality(Ops) - 1
    BY Zenon, <1>1, OpsFinite, FS_RemoveElement
  <2>q. QED BY <1>2, <1>7, <2>1, <2>2
<1>9. outstanding = 1 <=> Ops' = {}
  <2>1. IsFiniteSet(Ops')
    BY Zenon, <1>7, OpsFinite, FS_RemoveElement
  <2>2. Cardinality(Ops') = 0 <=> Ops' = {}
    BY Zenon, <2>1, FS_EmptySet
  <2>q. QED BY <1>2, <1>8, <2>2
<1>10. TypeOK'
  <2>1. outstanding' \in 0..Cardinality(Proc)
    BY <1>2, <1>3, <1>8, OpsFinite, LogAssumption, FS_CardinalityType
  <2>2. committing' \in BOOLEAN
    BY Zenon, <1>1, <1>4 DEF TypeOK
  <2>3. stage' \in {"none", "finish", "write_log"} /\ tail' \in Nat \ {0}
    BY <1>1, <1>2, <1>4 DEF TypeOK
  <2>4. wrote' \in [Proc -> SUBSET Block]
    BY Zenon, <1>1, <1>3 DEF TypeOK
  <2>q. QED BY Zenon, <1>1, <1>3, <1>5, <2>1, <2>2, <2>3, <2>4 DEF TypeOK, disk, buffers
<1>11. CallInv'
  <2>1. CASE outstanding = 1
    BY Zenon, <1>1, <1>3, <1>4, <1>8, <1>9, <2>1 DEF CallInv, Committing, Recovering
  <2>2. CASE outstanding # 1
    BY <1>1, <1>2, <1>3, <1>4, <1>8, <1>9, <2>2 DEF CallInv, Committing, Recovering
  <2>q. QED BY Zenon, <2>1, <2>2
<1>12. LogInv'
  <2>1. OneEntry(lh)' /\ OneEntry(head)' /\ head' = <<>> /\ lh' = lh
    BY <1>2, <1>3 DEF IInv, LogInv, OneEntry, disk
  <2>2. CASE outstanding = 1
    BY Zenon, <1>4, <2>1, <2>2 DEF LogInv
  <2>3. CASE outstanding # 1
    BY Zenon, <1>2, <1>4, <1>9, <2>1, <2>3 DEF LogInv
  <2>q. QED BY Zenon, <2>2, <2>3
<1>13. TailInv'
  <2>1. lh # <<>> => 1 \in 1..Len(lh)
    BY <1>1 DEF TypeOK
  <2>q. QED BY Zenon, <1>2, <1>3, <1>4, <2>1 DEF TailInv
<1>14. Pending' = Pending /\ Copied' = {} /\ Installed' = {}
  <2>1. Pending = 1..Len(lh) /\ Pending' = 1..Len(lh)
    BY Zenon, <1>2, <1>3, <1>4 DEF Pending, Recovering
  <2>2. Copied' = {} /\ Installed' = {}
    BY <1>1, <1>2, <1>3, <1>4 DEF Copied, Installed
  <2>q. QED BY Zenon, <2>1, <2>2
<1>15. CacheInv'
  BY Zenon, <1>3, <1>14 DEF IInv, CacheInv, disk, buffers
<1>16. PinsExact'
  BY Zenon, <1>3, <1>14 DEF IInv, PinsExact, buffers
<1>17. WroteInv'
  BY <1>1, <1>3, <1>6, FS_EmptySet DEF IInv, WroteInv, At, TypeOK
<1>18. SpaceReserved'
  <2>1. Reserved' \in SUBSET Reserved
    BY Zenon, <1>1, <1>3, <1>7 DEF Reserved, TypeOK, Ops
  <2>2. Cardinality(Reserved') <= Cardinality(Reserved) /\ Cardinality(Reserved') \in Nat
    BY Zenon, <2>1, ReservedFinite, FS_Subset, FS_CardinalityType
  <2>q. QED BY <1>1, <1>3, <2>2, ReservedFinite, LogAssumption
           DEF IInv, SpaceReserved, TypeOK
<1>q. QED BY Zenon, <1>10, <1>11, <1>12, <1>13, <1>15, <1>16, <1>17, <1>18 DEF IInv

\* commit() is over: the log is empty.
LEMMA finishStep ==
  ASSUME IInv, NEW p \in Proc, finish(p)
  PROVE  IInv'
<1>1. TypeOK /\ stage = "finish" /\ Ops = {} /\ ~panicked /\ lh = <<>> /\ head = <<>>
  BY Zenon DEF IInv, finish, CallInv, LogInv
<1>2. /\ committing' = FALSE /\ stage' = "none" /\ pc' = wakeup([pc EXCEPT ![p] = "idle"])
      /\ UNCHANGED <<disk, buffers, lh, outstanding, tail, wrote, panicked, crashes>>
  BY Zenon DEF finish
<1>3. pc' \in [Proc -> {"idle", "begin", "asleep", "op", "commit"}]
  BY Zenon, <1>1, <1>2 DEF wakeup, TypeOK
<1>4. \A q \in Proc : pc[q] # "op" /\ pc'[q] # "op"
  BY Zenon, <1>1, <1>2 DEF wakeup, TypeOK, Ops
<1>5. Ops' = {}
  BY Zenon, <1>4 DEF Ops
<1>6. TypeOK'
  BY Zenon, <1>1, <1>2, <1>3 DEF TypeOK, disk, buffers
<1>7. CallInv'
  BY Zenon, <1>1, <1>2, <1>5 DEF IInv, CallInv, Committing, Recovering
<1>8. LogInv' /\ TailInv'
  BY <1>1, <1>2 DEF IInv, LogInv, TailInv, OneEntry, disk
<1>9. Pending' = {} /\ Copied' = {} /\ Installed' = {} /\ Pending = {}
  BY <1>1, <1>2 DEF Pending, Recovering, Copied, Installed
<1>10. CacheInv' /\ PinsExact'
  BY Zenon, <1>1, <1>2, <1>9 DEF IInv, CacheInv, PinsExact, disk, buffers
<1>11. WroteInv'
  BY Zenon, <1>2, <1>4 DEF IInv, WroteInv
<1>12. SpaceReserved'
  <2>1. (Ops = {} /\ lh \in Seq(Block) /\ OneEntry(lh) => SpaceReserved)'
    BY QuietSpace, PTL
  <2>q. QED BY Zenon, <1>5, <1>6, <1>8, <2>1 DEF TypeOK, LogInv
<1>q. QED BY Zenon, <1>6, <1>7, <1>8, <1>10, <1>11, <1>12 DEF IInv

\* Reading or recycling a buffer whose block is not pending keeps CacheInv.
LEMMA CacheStep ==
  ASSUME CacheInv, Pending' = Pending, Copied' = Copied, Installed' = Installed, lh' = lh,
         UNCHANGED <<home, logblock, panicked>>,
         \A k \in Pending : cache'[lh[k]] = cache[lh[k]],
         \A x \in Block : cache'[x] = cache[x] \/ cache'[x] \in {NoBuf, home[x]}
  PROVE  CacheInv'
BY DEF CacheInv

\* A buffer is filled from the disk.
LEMMA readStep ==
  ASSUME IInv, NEW b \in Block, read(b)
  PROVE  IInv'
<1>1. TypeOK /\ cache' = [cache EXCEPT ![b] = home[b]] /\ Aside /\ UNCHANGED <<pins, pc>>
  BY Zenon DEF IInv, read, Aside, calls
<1>2. TypeOK' /\ Ops' = Ops
  BY Zenon, <1>1 DEF Aside, TypeOK, Ops, disk
<1>3. CallInv' /\ LogInv' /\ TailInv' /\ WroteInv' /\ SpaceReserved'
  BY Zenon, <1>1, <1>2, AsideStep DEF read, Up, Recovering
<1>4. Pending' = Pending /\ Copied' = Copied /\ Installed' = Installed /\ lh' = lh
  BY Zenon, <1>1 DEF Aside, Pending, Recovering, Copied, Installed
<1>5. CacheInv'
  <2>1. \A k \in Pending : lh[k] \in Block
    BY <1>1 DEF TypeOK, Pending
  <2>2. \A k \in Pending : lh[k] # b
    BY Zenon DEF IInv, CacheInv, read
  <2>3. \A x \in Block : cache'[x] = IF x = b THEN home[b] ELSE cache[x]
    BY Zenon, <1>1 DEF TypeOK
  <2>4. UNCHANGED <<home, logblock, panicked>>
    BY Zenon, <1>1 DEF Aside, disk
  <2>5. \A k \in Pending : cache'[lh[k]] = cache[lh[k]]
    BY Zenon, <2>1, <2>2, <2>3
  <2>6. \A x \in Block : cache'[x] = cache[x] \/ cache'[x] \in {NoBuf, home[x]}
    BY Zenon, <2>3
  <2>q. QED BY Zenon, <1>4, <2>4, <2>5, <2>6, CacheStep DEF IInv
<1>6. PinsExact'
  BY Zenon, <1>1, <1>4 DEF IInv, PinsExact
<1>q. QED BY Zenon, <1>2, <1>3, <1>5, <1>6 DEF IInv

\* A buffer is recycled only when its block is not in the log.
LEMMA recycleStep ==
  ASSUME IInv, NEW b \in Block, recycle(b)
  PROVE  IInv'
<1>1. TypeOK /\ cache' = [cache EXCEPT ![b] = NoBuf] /\ Aside /\ UNCHANGED <<pins, pc>>
  BY Zenon DEF IInv, recycle, Aside, calls
<1>2. TypeOK' /\ Ops' = Ops
  BY Zenon, <1>1 DEF Aside, TypeOK, Ops, disk
<1>3. CallInv' /\ LogInv' /\ TailInv' /\ WroteInv' /\ SpaceReserved'
  BY Zenon, <1>1, <1>2, AsideStep DEF recycle, Up, Recovering
<1>4. Pending' = Pending /\ Copied' = Copied /\ Installed' = Installed /\ lh' = lh
  BY Zenon, <1>1 DEF Aside, Pending, Recovering, Copied, Installed
<1>5. \A k \in Pending : lh[k] # b
  <2>1. Pins /\ pins[b] = 0
    BY Zenon, <1>1, PinsOne DEF IInv, LogInv, TypeOK, recycle
  <2>q. QED BY <2>1 DEF Pins, Pinned
<1>6. CacheInv'
  <2>1. \A k \in Pending : lh[k] \in Block
    BY <1>1 DEF TypeOK, Pending
  <2>2. \A x \in Block : cache'[x] = IF x = b THEN NoBuf ELSE cache[x]
    BY Zenon, <1>1 DEF TypeOK
  <2>3. UNCHANGED <<home, logblock, panicked>>
    BY Zenon, <1>1 DEF Aside, disk
  <2>4. \A k \in Pending : cache'[lh[k]] = cache[lh[k]]
    BY Zenon, <2>1, <1>5, <2>2
  <2>5. \A x \in Block : cache'[x] = cache[x] \/ cache'[x] \in {NoBuf, home[x]}
    BY Zenon, <2>2
  <2>q. QED BY Zenon, <1>4, <2>3, <2>4, <2>5, CacheStep DEF IInv
<1>7. PinsExact'
  BY Zenon, <1>1, <1>4 DEF IInv, PinsExact
<1>q. QED BY Zenon, <1>2, <1>3, <1>6, <1>7 DEF IInv

\* log_write() appends a block or absorbs it, or panics when the log is full.
LEMMA log_writeStep ==
  ASSUME IInv, NEW p \in Proc, NEW b \in Block, NEW v \in Value, log_write(p, b, v)
  PROVE  IInv'
<1>1. TypeOK /\ p \in Ops /\ pc[p] = "op" /\ ~panicked /\ stage = "none"
  BY Zenon DEF IInv, log_write, Ops, Up, Recovering, CallInv
<1>2. /\ b \in wrote[p] \/ Cardinality(wrote[p]) < MAXOPBLOCKS
      /\ wrote' = [wrote EXCEPT ![p] = @ \cup {b}]
      /\ cache' = [cache EXCEPT ![b] = v]
      /\ UNCHANGED <<disk, outstanding, committing, stage, tail, pc, crashes>>
  BY Zenon DEF log_write
<1>3. \/ panicked' = TRUE /\ UNCHANGED <<lh, pins>>
      \/ panicked' = panicked /\ At(lh, b) # {} /\ UNCHANGED <<lh, pins>>
      \/ /\ panicked' = panicked /\ At(lh, b) = {}
         /\ lh' = Append(lh, b) /\ pins' = [pins EXCEPT ![b] = @ + 1]
         /\ Len(lh) < LOGSIZE /\ Len(lh) < size - 1
  <2>1. Len(lh) \in Nat /\ size - 1 \in Int /\ LOGSIZE \in Nat
    BY <1>1, LogAssumption DEF TypeOK
  <2>2. At(lh, b) # {} <=> \E k \in 1..Len(lh) : lh[k] = b
    BY Zenon DEF At
  <2>q. QED BY <2>1, <2>2 DEF log_write
<1>4. lh \in Seq(Block) /\ Len(lh) \in Nat /\ lh' \in Seq(Block) /\ OneEntry(lh)
  <2>1. lh \in Seq(Block) /\ Len(lh) \in Nat /\ OneEntry(lh)
    BY <1>1 DEF TypeOK, IInv, LogInv
  <2>2. lh' = lh \/ lh' = Append(lh, b)
    BY Zenon, <1>3
  <2>3. Append(lh, b) \in Seq(Block)
    BY <2>1, <1>1
  <2>q. QED BY Zenon, <2>1, <2>2, <2>3
<1>5. ASSUME lh' = lh
      PROVE  OneEntry(lh)' /\ OneEntry(head)' /\ CacheInv' /\ PinsExact'
  <2>1. pins' = pins
    BY <1>3, <1>4, <1>5
  <2>2. Pending' = Pending /\ Copied' = {} /\ Installed' = {} /\ Pending = 1..Len(lh)
    BY Zenon, <1>1, <1>2, <1>5 DEF Pending, Recovering, Copied, Installed
  <2>3. OneEntry(lh)' /\ OneEntry(head)'
    BY <1>2, <1>5 DEF IInv, LogInv, OneEntry, disk
  <2>4. CacheInv'
    <3>1. ~panicked' => At(lh, b) # {}
      BY <1>1, <1>3, <1>4, <1>5
    <3>2. ~panicked' => \E k \in Pending : lh[k] = b
      BY Zenon, <2>2, <3>1 DEF At
    <3>3. \A x \in Block : cache'[x] = IF x = b THEN v ELSE cache[x]
      BY Zenon, <1>1, <1>2 DEF TypeOK
    <3>4. \A k \in Pending : lh[k] \in Block
      BY <1>4, <2>2
    <3>5. v # NoBuf /\ UNCHANGED <<home, logblock>>
      BY Zenon, <1>2, LogAssumption DEF disk
    <3>q. QED BY Zenon, <1>1, <1>5, <2>2, <3>2, <3>3, <3>4, <3>5 DEF IInv, CacheInv
  <2>5. PinsExact'
    BY Zenon, <1>5, <2>1, <2>2 DEF IInv, PinsExact
  <2>q. QED BY Zenon, <2>3, <2>4, <2>5
<1>6. ASSUME panicked' = panicked, At(lh, b) = {},
             lh' = Append(lh, b), pins' = [pins EXCEPT ![b] = @ + 1],
             Len(lh) < LOGSIZE, Len(lh) < size - 1
      PROVE  OneEntry(lh)' /\ OneEntry(head)' /\ CacheInv' /\ PinsExact'
  <2>1. /\ Len(lh') = Len(lh) + 1 /\ lh'[Len(lh) + 1] = b
        /\ \A k \in 1..Len(lh) : lh'[k] = lh[k] /\ lh[k] # b /\ lh[k] \in Block
    BY <1>4, <1>6 DEF At
  <2>2. Pending = 1..Len(lh) /\ Pending' = 1..(Len(lh) + 1) /\ Copied' = {} /\ Installed' = {}
    BY Zenon, <1>1, <1>2, <2>1 DEF Pending, Recovering, Copied, Installed
  <2>3. OneEntry(lh)' /\ OneEntry(head)'
    <3>1. OneEntry(head)'
      BY <1>2 DEF IInv, LogInv, OneEntry, disk
    <3>2. Len(lh') <= LOGSIZE /\ \A k \in 1..Len(lh') : k \in Slots
      BY <1>4, <1>6, <2>1, LogAssumption DEF OneEntry, Slots
    <3>3. \A j, k \in 1..Len(lh') : lh'[j] = lh'[k] => j = k
      BY <1>4, <2>1 DEF OneEntry
    <3>q. QED BY Zenon, <3>1, <3>2, <3>3 DEF OneEntry
  <2>4. CacheInv'
    <3>1. \A x \in Block : cache'[x] = IF x = b THEN v ELSE cache[x]
      BY Zenon, <1>1, <1>2 DEF TypeOK
    <3>2. \A k \in Pending' : cache'[lh'[k]] # NoBuf
      BY <1>4, <2>1, <2>2, <3>1, LogAssumption DEF IInv, CacheInv
    <3>3. \A x \in Block : (\A k \in Pending' : lh'[k] # x) => cache'[x] \in {NoBuf, home'[x]}
      <4> SUFFICES ASSUME NEW x \in Block, \A k \in Pending' : lh'[k] # x
                   PROVE  cache'[x] \in {NoBuf, home'[x]}
        OBVIOUS
      <4>1. Len(lh) + 1 \in Pending' /\ \A k \in Pending : k \in Pending'
        BY <1>4, <2>2
      <4>2. x # b /\ \A k \in Pending : lh[k] # x
        BY Zenon, <2>1, <2>2, <4>1
      <4>3. cache[x] \in {NoBuf, home[x]}
        BY Zenon, <1>1, <4>2 DEF IInv, CacheInv
      <4>q. QED BY Zenon, <1>2, <3>1, <4>2, <4>3 DEF disk
    <3>q. QED BY Zenon, <2>2, <3>2, <3>3 DEF CacheInv
  <2>5. PinsExact'
    <3>1. \A x \in Block : pins'[x] = IF x = b THEN pins[b] + 1 ELSE pins[x]
      BY Zenon, <1>1, <1>6 DEF TypeOK
    <3>2. Pins
      BY Zenon, <1>4, PinsOne DEF IInv
    <3>3. Pins'
      <4>1. \A k \in Pending' : k \in Pending \/ k = Len(lh) + 1
        BY <1>4, <2>2
      <4>2. Len(lh) + 1 \in Pending' /\ \A k \in Pending : k \in Pending'
        BY <1>4, <2>2
      <4>3. \A x \in Block : Pinned(x)' <=> x = b \/ Pinned(x)
        BY Zenon, <2>1, <2>2, <4>1, <4>2 DEF Pinned
      <4>4. ~Pinned(b)
        BY Zenon, <2>1, <2>2 DEF Pinned
      <4>5. pins[b] + 1 = 1
        BY <3>2, <4>4 DEF Pins
      <4>q. QED BY Zenon, <3>1, <3>2, <4>3, <4>5 DEF Pins
    <3>4. (lh \in Seq(Block) /\ OneEntry(lh) => (PinsExact <=> Pins))'
      BY PinsOne, PTL
    <3>q. QED BY Zenon, <1>4, <2>3, <3>3, <3>4
  <2>q. QED BY Zenon, <2>3, <2>4, <2>5
<1>7. OneEntry(lh)' /\ OneEntry(head)' /\ CacheInv' /\ PinsExact'
  BY Zenon, <1>3, <1>5, <1>6
<1>8. Ops' = Ops
  BY Zenon, <1>2 DEF Ops
<1>9. TypeOK'
  <2>1. cache' \in [Block -> Value \cup {NoBuf}] /\ wrote' \in [Proc -> SUBSET Block]
    BY Zenon, <1>1, <1>2 DEF TypeOK
  <2>2. pins' \in [Block -> Nat]
    BY <1>1, <1>3 DEF TypeOK
  <2>3. panicked' \in BOOLEAN
    BY Zenon, <1>1, <1>3 DEF TypeOK
  <2>q. QED BY Zenon, <1>1, <1>2, <1>4, <2>1, <2>2, <2>3 DEF TypeOK, disk
<1>10. CallInv'
  BY Zenon, <1>1, <1>2, <1>8 DEF IInv, CallInv, Committing, Recovering
<1>11. LogInv' /\ TailInv'
  BY Zenon, <1>1, <1>2, <1>7, <1>8 DEF IInv, LogInv, TailInv, disk
<1>12. /\ Len(lh') \in Nat /\ Len(lh) <= Len(lh')
       /\ Len(lh') <= Len(lh) + (IF At(lh, b) = {} THEN 1 ELSE 0)
       /\ \A k \in 1..Len(lh) : lh'[k] = lh[k]
  BY <1>3, <1>4
<1>13. WroteInv'
  <2>1. \A q \in Proc : wrote'[q] = IF q = p THEN wrote[p] \cup {b} ELSE wrote[q]
    BY Zenon, <1>1, <1>2 DEF TypeOK
  <2>2. ~panicked' => At(lh', b) # {}
    <3>1. CASE lh' = Append(lh, b)
      BY <1>4, <3>1 DEF At
    <3>q. QED BY Zenon, <1>3, <3>1
  <2>3. \A x \in Block : At(lh, x) # {} => At(lh', x) # {}
    BY <1>4, <1>12 DEF At
  <2>4. \A q \in Proc : IsFiniteSet(wrote'[q])
    <3>1. \A q \in Proc : IsFiniteSet(wrote[q])
      BY Zenon DEF IInv, WroteInv
    <3>2. IsFiniteSet(wrote[p] \cup {b})
      BY Zenon, <3>1, FS_AddElement
    <3>q. QED BY Zenon, <2>1, <3>1, <3>2
  <2>5. \A q \in Proc : pc'[q] # "op" => wrote'[q] = {}
    BY Zenon, <1>1, <1>2, <2>1 DEF IInv, WroteInv
  <2>6. ASSUME NEW q \in Proc, pc'[q] = "op", ~panicked', NEW x \in wrote'[q]
        PROVE  At(lh', x) # {}
    <3>1. x \in Block /\ (x = b \/ x \in wrote[q])
      BY Zenon, <1>1, <2>1, <2>6 DEF TypeOK
    <3>2. x \in wrote[q] => At(lh, x) # {}
      BY Zenon, <1>1, <1>2, <2>6 DEF IInv, WroteInv
    <3>q. QED BY Zenon, <2>2, <2>3, <2>6, <3>1, <3>2
  <2>q. QED BY Zenon, <2>4, <2>5, <2>6 DEF WroteInv
<1>14. SpaceReserved'
  <2>1. IsFiniteSet(wrote[p]) /\ Cardinality(wrote[p]) \in Nat
    BY Zenon, FS_CardinalityType DEF IInv, WroteInv
  <2>2. Cardinality(Reserved) \in Nat /\ Len(lh) + Cardinality(Reserved) <= LOGSIZE
    BY Zenon, ReservedFinite DEF IInv, SpaceReserved
  <2>3. CASE b \in wrote[p]
    <3>1. wrote' = wrote
      BY Zenon, <1>1, <1>2, <2>3 DEF TypeOK
    <3>2. Reserved' = Reserved
      BY Zenon, <1>8, <3>1 DEF Reserved
    <3>3. At(lh, b) # {}
      BY Zenon, <1>1, <2>3 DEF IInv, WroteInv
    <3>q. QED BY <1>4, <1>12, <2>2, <3>2, <3>3, LogAssumption DEF SpaceReserved
  <2>4. CASE b \notin wrote[p]
    <3> DEFINE c == Cardinality(wrote[p])
    <3>1. Cardinality(wrote[p] \cup {b}) = c + 1 /\ c < MAXOPBLOCKS
      BY Zenon, <1>2, <2>1, <2>4, FS_AddElement
    <3>2. \A q \in Ops : Cardinality(wrote'[q])
                          = IF q = p THEN c + 1 ELSE Cardinality(wrote[q])
      BY Zenon, <1>1, <1>2, <3>1 DEF TypeOK, Ops
    <3>3. <<p, c + 1>> \in Reserved
      BY <1>1, <2>1, <3>1, LogAssumption DEF Reserved
    <3>4. Reserved' = Reserved \ {<<p, c + 1>>}
      <4>1. \A q \in Ops, k \in 1..MAXOPBLOCKS :
              k > Cardinality(wrote'[q])
                <=> k > Cardinality(wrote[q]) /\ ~(q = p /\ k = c + 1)
        BY <2>1, <3>2
      <4>q. QED BY <1>8, <4>1 DEF Reserved
    <3>5. Cardinality(Reserved') = Cardinality(Reserved) - 1
      BY Zenon, <3>3, <3>4, ReservedFinite, FS_RemoveElement
    <3>q. QED BY <1>4, <1>12, <2>2, <3>5, LogAssumption DEF SpaceReserved
  <2>q. QED BY Zenon, <2>3, <2>4
<1>q. QED BY Zenon, <1>7, <1>9, <1>10, <1>11, <1>13, <1>14 DEF IInv

\* A step of commit() or of recovery: no call is in its transaction, so it is
\* enough to look at the log and the cache.
LEMMA QuietStep ==
  ASSUME IInv, stage # "none",
         UNCHANGED <<outstanding, committing, calls, panicked, crashes>>,
         stage' \in Committing <=> stage \in Committing,
         stage' \in Recovering => stage \in Recovering,
         TypeOK', LogInv', TailInv', CacheInv', Pins'
  PROVE  IInv'
<1>1. Ops = {} /\ Ops' = {}
  BY Zenon DEF IInv, CallInv, Ops, calls
<1>2. CallInv'
  BY Zenon, <1>1 DEF IInv, CallInv, calls
<1>3. WroteInv'
  BY Zenon, <1>1 DEF IInv, WroteInv, Ops, calls
<1>4. SpaceReserved'
  <2>1. (Ops = {} /\ lh \in Seq(Block) /\ OneEntry(lh) => SpaceReserved)'
    BY QuietSpace, PTL
  <2>q. QED BY Zenon, <1>1, <2>1 DEF TypeOK, LogInv
<1>5. PinsExact'
  <2>1. (lh \in Seq(Block) /\ OneEntry(lh) => (PinsExact <=> Pins))'
    BY PinsOne, PTL
  <2>q. QED BY Zenon, <2>1 DEF TypeOK, LogInv
<1>q. QED BY Zenon, <1>2, <1>3, <1>4, <1>5 DEF IInv

\* The pins, as a fact about the state.
LEMMA PinsFact ==
  ASSUME IInv
  PROVE  Pins
BY Zenon, PinsOne DEF IInv, TypeOK, LogInv

\* write_log() copies a pinned buffer to the log.
LEMMA write_logStep ==
  ASSUME IInv, write_log
  PROVE  IInv'
<1>1. TypeOK /\ stage = "write_log" /\ lh \in Seq(Block) /\ tail \in 1..Len(lh)
      /\ Len(lh) \in Nat /\ tail \in Slots /\ lh[tail] \in Block /\ OneEntry(lh)
  BY DEF IInv, write_log, TypeOK, LogInv, TailInv, OneEntry
<1>2. Pending = 1..Len(lh) /\ Copied = 1..(tail - 1) /\ Installed = {}
  BY <1>1 DEF Pending, Recovering, Copied, Installed
<1>3. bread(lh[tail]) = cache[lh[tail]] /\ cache[lh[tail]] \in Value
  BY <1>1, <1>2 DEF IInv, CacheInv, TypeOK, bread
<1>4. /\ logblock' = [logblock EXCEPT ![tail] = cache[lh[tail]]]
      /\ cache' = cache
      /\ UNCHANGED <<home, head, pins, lh, outstanding, committing, calls, panicked, crashes>>
  BY Zenon, <1>1, <1>3 DEF write_log, TypeOK
<1>5. /\ stage' \in {"write_log", "write_head"} /\ tail' \in 1..Len(lh)
      /\ stage' = "write_head" => tail' = 1 /\ tail = Len(lh)
      /\ stage' = "write_log" => tail' = tail + 1
  BY <1>1 DEF write_log
<1>6. TypeOK'
  BY <1>1, <1>3, <1>4, <1>5 DEF TypeOK, calls
<1>7. LogInv' /\ TailInv'
  <2>1. lh # <<>>
    BY <1>1
  <2>q. QED BY <1>1, <1>4, <1>5, <2>1 DEF IInv, LogInv, TailInv, OneEntry
<1>8. Pending' = Pending /\ Copied' = Copied \cup {tail} /\ Installed' = {}
  <2>1. Pending' = 1..Len(lh) /\ Installed' = {}
    BY Zenon, <1>1, <1>4, <1>5 DEF Pending, Recovering, Installed
  <2>2. Copied' = 1..tail
    BY <1>1, <1>4, <1>5 DEF Copied
  <2>q. QED BY <1>1, <1>2, <2>1, <2>2
<1>9. CacheInv'
  <2>1. \A k \in Copied : logblock'[k] = logblock[k]
    BY <1>1, <1>2, <1>4 DEF TypeOK
  <2>2. logblock'[tail] = cache[lh[tail]]
    BY Zenon, <1>1, <1>4 DEF TypeOK
  <2>q. QED BY Zenon, <1>4, <1>8, <2>1, <2>2 DEF IInv, CacheInv
<1>10. Pins'
  BY Zenon, <1>4, <1>8, PinsFact DEF Pins, Pinned
<1>q. QED BY Zenon, <1>1, <1>4, <1>5, <1>6, <1>7, <1>9, <1>10, QuietStep
   DEF Committing, Recovering

\* write_head() commits: the whole transaction is in the log.
LEMMA write_headStep ==
  ASSUME IInv, write_head
  PROVE  IInv'
<1>1. TypeOK /\ stage = "write_head" /\ lh \in Seq(Block) /\ lh # <<>> /\ tail = 1
      /\ OneEntry(lh) /\ Len(lh) \in Nat
  BY DEF IInv, write_head, TypeOK, LogInv, TailInv
<1>2. /\ head' = lh /\ stage' = "install"
      /\ UNCHANGED <<home, logblock, buffers, lh, outstanding, committing, tail, calls,
                     panicked, crashes>>
  BY Zenon DEF write_head
<1>3. TypeOK'
  BY Zenon, <1>1, <1>2 DEF TypeOK, buffers, calls
<1>4. LogInv' /\ TailInv'
  BY <1>1, <1>2 DEF IInv, LogInv, TailInv, OneEntry
<1>5. Pending' = Pending /\ Copied' = Copied /\ Installed' = {}
  BY <1>1, <1>2 DEF Pending, Recovering, Copied, Installed
<1>6. CacheInv'
  BY Zenon, <1>2, <1>5 DEF IInv, CacheInv, buffers
<1>7. Pins'
  BY Zenon, <1>2, <1>5, PinsFact DEF Pins, Pinned, buffers
<1>q. QED BY Zenon, <1>1, <1>2, <1>3, <1>4, <1>6, <1>7, QuietStep DEF Committing, Recovering

\* install_trans() copies a block from the log to its home and, in a commit,
\* drops its pin.
LEMMA install_transStep ==
  ASSUME IInv, install_trans
  PROVE  IInv'
<1>1. TypeOK /\ stage \in {"recover", "install"} /\ lh \in Seq(Block) /\ tail \in 1..Len(lh)
      /\ Len(lh) \in Nat /\ tail \in Slots /\ lh[tail] \in Block /\ OneEntry(lh)
      /\ logblock[tail] \in Value /\ lh # <<>> /\ head = lh
  BY DEF IInv, install_trans, TypeOK, LogInv, TailInv, OneEntry
<1>2. /\ home' = [home EXCEPT ![lh[tail]] = logblock[tail]]
      /\ cache' = [cache EXCEPT ![lh[tail]] = logblock[tail]]
      /\ pins' = [pins EXCEPT ![lh[tail]] = IF stage = "install" THEN @ - 1 ELSE @]
      /\ UNCHANGED <<logblock, head, lh, outstanding, committing, calls, panicked, crashes>>
  BY Zenon DEF install_trans
<1>3. /\ tail = Len(lh) => tail' = 1 /\ stage' = IF stage = "recover" THEN "clear" ELSE "erase"
      /\ tail # Len(lh) => tail' = tail + 1 /\ stage' = stage
  BY Zenon DEF install_trans
<1>4. /\ Pending = IF stage = "install" THEN tail..Len(lh) ELSE {}
      /\ Installed = 1..(tail - 1)
  BY <1>1 DEF Pending, Recovering, Installed
<1>5. /\ Pending' = Pending \ {tail}
      /\ Installed' = 1..tail
      /\ Copied' \in SUBSET Copied
  <2>1. CASE tail = Len(lh)
    BY <1>1, <1>2, <1>3, <1>4, <2>1 DEF Pending, Recovering, Installed, Copied
  <2>2. CASE tail # Len(lh)
    BY <1>1, <1>2, <1>3, <1>4, <2>2 DEF Pending, Recovering, Installed, Copied
  <2>q. QED BY Zenon, <2>1, <2>2
<1>6. \A b \in Block : /\ home'[b] = IF b = lh[tail] THEN logblock[tail] ELSE home[b]
                       /\ cache'[b] = IF b = lh[tail] THEN logblock[tail] ELSE cache[b]
                       /\ b # lh[tail] => pins'[b] = pins[b]
  BY Zenon, <1>1, <1>2 DEF TypeOK
<1>7. \A k \in 1..Len(lh) : lh[k] \in Block /\ (lh[k] = lh[tail] => k = tail)
  BY <1>1 DEF OneEntry
<1>8. pins'[lh[tail]] = 0
  <2>1. pins[lh[tail]] = IF stage = "install" THEN 1 ELSE 0
    BY <1>1, <1>4, PinsFact DEF Pins, Pinned
  <2>q. QED BY <1>1, <1>2, <2>1 DEF TypeOK
<1>9. TypeOK'
  <2>1. pins' \in [Block -> Nat]
    BY <1>1, <1>2, <1>6, <1>8 DEF TypeOK
  <2>2. home' \in [Block -> Value] /\ cache' \in [Block -> Value \cup {NoBuf}]
    BY Zenon, <1>1, <1>2 DEF TypeOK
  <2>3. tail' \in Nat \ {0} /\ stage' \in {"recover", "install", "clear", "erase"}
    BY <1>1, <1>3
  <2>q. QED BY Zenon, <1>1, <1>2, <2>1, <2>2, <2>3 DEF TypeOK, calls
<1>10. LogInv' /\ TailInv'
  BY <1>1, <1>2, <1>3 DEF IInv, LogInv, TailInv, OneEntry
<1>11. CacheInv'
  <2>1. \A k \in Pending' : lh[k] # lh[tail] /\ lh[k] \in Block /\ k \in Pending
    BY <1>1, <1>4, <1>5, <1>7
  <2>2. \A k \in Pending' : cache'[lh[k]] # NoBuf
    BY Zenon, <1>6, <2>1 DEF IInv, CacheInv
  <2>3. \A k \in Copied' \cap Pending' : logblock'[k] = cache'[lh[k]]
    BY <1>2, <1>5, <1>6, <2>1 DEF IInv, CacheInv
  <2>4. \A k \in Installed' : home'[lh[k]] = logblock'[k]
    <3>1. \A k \in Installed' : k = tail \/ k \in Installed
      BY <1>1, <1>4, <1>5
    <3>2. \A k \in Installed' : k \in 1..Len(lh)
      BY <1>1, <1>5
    <3>q. QED BY <1>1, <1>2, <1>6, <1>7, <3>1, <3>2 DEF IInv, CacheInv
  <2>5. ASSUME ~panicked', NEW b \in Block, \A k \in Pending' : lh[k] # b
        PROVE  cache'[b] \in {NoBuf, home'[b]}
    BY <1>2, <1>5, <1>6, <2>5 DEF IInv, CacheInv
  <2>q. QED BY <1>2, <2>2, <2>3, <2>4, <2>5 DEF CacheInv
<1>12. Pins'
  BY <1>1, <1>2, <1>4, <1>5, <1>6, <1>7, <1>8, PinsFact DEF Pins, Pinned
<1>q. QED BY Zenon, <1>1, <1>2, <1>3, <1>9, <1>10, <1>11, <1>12, QuietStep
   DEF Committing, Recovering

\* The log is erased, in a commit or at the end of recovery.
LEMMA eraseStep ==
  ASSUME IInv, erase \/ recover_clear
  PROVE  IInv'
<1>1. TypeOK /\ stage \in {"erase", "clear"}
  BY Zenon DEF IInv, erase, recover_clear
<1>2. /\ lh' = <<>> /\ head' = <<>>
      /\ stage' = IF stage = "erase" THEN "finish" ELSE "none"
      /\ UNCHANGED <<home, logblock, buffers, outstanding, committing, tail, calls,
                     panicked, crashes>>
  BY Zenon DEF erase, recover_clear
<1>3. TypeOK'
  BY <1>1, <1>2 DEF TypeOK, buffers, calls
<1>4. LogInv' /\ TailInv'
  BY <1>1, <1>2, LogAssumption DEF LogInv, TailInv, OneEntry
<1>5. Pending = {} /\ Pending' = {} /\ Copied' = {} /\ Installed' = {}
  BY <1>1, <1>2 DEF Pending, Recovering, Copied, Installed
<1>6. CacheInv'
  BY Zenon, <1>2, <1>5 DEF IInv, CacheInv, buffers
<1>7. Pins'
  BY Zenon, <1>2, <1>5, PinsFact DEF Pins, Pinned, buffers
<1>q. QED BY Zenon, <1>1, <1>2, <1>3, <1>4, <1>6, <1>7, QuietStep DEF Committing, Recovering

\* Recovery reads the header.
LEMMA read_headStep ==
  ASSUME IInv, read_head
  PROVE  IInv'
<1>1. TypeOK /\ stage = "read_head" /\ tail = 1 /\ head \in Seq(Block)
  BY Zenon DEF IInv, read_head, TypeOK, TailInv
<1>2. /\ lh' = head /\ head' = head
      /\ stage' = IF head = <<>> THEN "clear" ELSE "recover"
      /\ UNCHANGED <<disk, buffers, outstanding, committing, tail, calls, panicked, crashes>>
  BY Zenon DEF read_head, disk
<1>3. TypeOK'
  BY Zenon, <1>1, <1>2 DEF TypeOK, buffers, calls, disk
<1>4. LogInv' /\ TailInv'
  BY <1>1, <1>2 DEF IInv, LogInv, TailInv, OneEntry
<1>5. Pending = {} /\ Pending' = {} /\ Copied' = {} /\ Installed' = {}
  BY <1>1, <1>2 DEF Pending, Recovering, Copied, Installed
<1>6. CacheInv'
  BY Zenon, <1>2, <1>5 DEF IInv, CacheInv, buffers, disk
<1>7. Pins'
  BY Zenon, <1>2, <1>5, PinsFact DEF Pins, Pinned, buffers
<1>q. QED BY Zenon, <1>1, <1>2, <1>3, <1>4, <1>6, <1>7, QuietStep DEF Committing, Recovering

\* A crash loses the memory and keeps the disk, whatever was going on.
LEMMA crashStep ==
  ASSUME IInv, crash
  PROVE  IInv'
<1>1. TypeOK /\ OneEntry(head)
  BY Zenon DEF IInv, LogInv
<1>2. /\ cache' = [b \in Block |-> NoBuf] /\ pins' = [b \in Block |-> 0]
      /\ lh' = <<>> /\ outstanding' = 0 /\ committing' = FALSE /\ stage' = "read_head"
      /\ tail' = 1 /\ panicked' = FALSE /\ UNCHANGED disk
  BY Zenon DEF crash
<1>3. \A p \in Proc : pc'[p] = "idle" /\ wrote'[p] = {}
  BY Zenon DEF crash
<1>4. Ops' = {} /\ Cardinality(Ops') = 0
  <2>1. Ops' = {}
    BY Zenon, <1>3 DEF Ops
  <2>q. QED BY Zenon, <2>1, FS_EmptySet
<1>5. TypeOK'
  <2>1. outstanding' \in 0..Cardinality(Proc) /\ crashes' \in 0..MaxCrash
    BY <1>1, <1>2, LogAssumption, FS_CardinalityType DEF TypeOK, crash
  <2>2. pc' \in [Proc -> {"idle", "begin", "asleep", "op", "commit"}]
        /\ wrote' \in [Proc -> SUBSET Block]
    BY Zenon DEF crash
  <2>3. committing' \in BOOLEAN /\ panicked' \in BOOLEAN
    BY Zenon, <1>2
  <2>q. QED BY <1>1, <1>2, <2>1, <2>2, <2>3 DEF TypeOK, disk
<1>6. CallInv'
  BY Zenon, <1>2, <1>3, <1>4 DEF CallInv, Committing, Recovering
<1>7. LogInv' /\ TailInv'
  BY <1>1, <1>2, LogAssumption DEF LogInv, TailInv, OneEntry, disk
<1>8. Pending' = {} /\ Copied' = {} /\ Installed' = {}
  BY Zenon, <1>2 DEF Pending, Recovering, Copied, Installed
<1>9. CacheInv'
  BY Zenon, <1>2, <1>8 DEF CacheInv
<1>10. WroteInv'
  BY Zenon, <1>3, FS_EmptySet DEF WroteInv
<1>11. PinsExact'
  <2>1. Pins'
    BY Zenon, <1>2, <1>8 DEF Pins, Pinned
  <2>2. (lh \in Seq(Block) /\ OneEntry(lh) => (PinsExact <=> Pins))'
    BY PinsOne, PTL
  <2>q. QED BY Zenon, <1>5, <1>7, <2>1, <2>2 DEF TypeOK, LogInv
<1>12. SpaceReserved'
  <2>1. (Ops = {} /\ lh \in Seq(Block) /\ OneEntry(lh) => SpaceReserved)'
    BY QuietSpace, PTL
  <2>q. QED BY Zenon, <1>4, <1>5, <1>7, <2>1 DEF TypeOK, LogInv
<1>q. QED BY Zenon, <1>5, <1>6, <1>7, <1>9, <1>10, <1>11, <1>12 DEF IInv

\* Every step keeps the invariant.
LEMMA NextIInv == IInv /\ [Next]_vars => IInv'
<1> SUFFICES ASSUME IInv, [Next]_vars
             PROVE  IInv'
  OBVIOUS
<1>1. CASE UNCHANGED vars
  <2>1. UNCHANGED <<Ops, Pending, Copied, Installed>>
    BY Zenon, <1>1 DEF vars, calls, Ops, Pending, Recovering, Copied, Installed
  <2>2. UNCHANGED Reserved
    BY Zenon, <1>1, <2>1 DEF Reserved, vars, calls
  <2>3. TypeOK' /\ CallInv' /\ TailInv'
    BY Zenon, <1>1, <2>1 DEF IInv, TypeOK, CallInv, TailInv, vars, disk, buffers, calls
  <2>4. WroteInv'
    BY Zenon, <1>1 DEF IInv, WroteInv, At, vars, calls
  <2>5. LogInv'
    <3>1. lh' = lh /\ head' = head /\ stage' = stage
      BY Zenon, <1>1 DEF vars, disk
    <3>2. OneEntry(lh)' /\ OneEntry(head)'
      <4>1. OneEntry(lh) /\ OneEntry(head)
        BY Zenon DEF IInv, LogInv
      <4>q. QED BY <3>1, <4>1 DEF OneEntry
    <3>q. QED BY Zenon, <2>1, <3>1, <3>2 DEF IInv, LogInv
  <2>6. CacheInv'
    BY Zenon, <1>1, <2>1 DEF IInv, CacheInv, vars, disk, buffers
  <2>7. PinsExact' /\ SpaceReserved'
    BY Zenon, <1>1, <2>1, <2>2 DEF IInv, PinsExact, SpaceReserved, vars, buffers
  <2>q. QED BY Zenon, <2>3, <2>4, <2>5, <2>6, <2>7 DEF IInv
<1>2. CASE Next
  <2>1. ASSUME NEW p \in Proc, syscall(p) \/ Call(p)
        PROVE  IInv'
    BY Zenon, <2>1, syscallStep, begin_opStep, end_opStep, finishStep DEF Call
  <2>2. ASSUME NEW p \in Proc, NEW b \in Block, NEW v \in Value, log_write(p, b, v)
        PROVE  IInv'
    BY Zenon, <2>2, log_writeStep
  <2>3. CASE Commit \/ Recover
    BY Zenon, <2>3, write_logStep, write_headStep, install_transStep, eraseStep, read_headStep
       DEF Commit, Recover
  <2>4. ASSUME NEW b \in Block, read(b) \/ recycle(b)
        PROVE  IInv'
    BY Zenon, <2>4, readStep, recycleStep
  <2>q. QED BY Zenon, <1>2, <2>1, <2>2, <2>3, <2>4, crashStep DEF Next
<1>q. QED BY Zenon, <1>1, <1>2

\* The invariant holds in every reachable state.
THEOREM Invariance == Spec => []IInv
<1>q. QED BY InitIInv, NextIInv, PTL DEF Spec

\* Type correctness.
THEOREM TypeCorrect == Spec => []TypeOK
<1>1. IInv => TypeOK
  BY Zenon DEF IInv
<1>q. QED BY <1>1, Invariance, PTL

\* begin_op() reserves enough: the log never outgrows LOGSIZE, whichever calls
\* run together and however often they write a block again.
THEOREM SpaceReservedHolds == Spec => []SpaceReserved
<1>1. IInv => SpaceReserved
  BY Zenon DEF IInv
<1>q. QED BY <1>1, Invariance, PTL

\* Every bpin() of log_write() is undone by install_trans(), once.
THEOREM PinsExactHolds == Spec => []PinsExact
<1>1. IInv => PinsExact
  BY Zenon DEF IInv
<1>q. QED BY <1>1, Invariance, PTL

\* What calls see, block by block.
LEMMA ViewFacts ==
  IInv => /\ View \in [Block -> Value] /\ Durable \in [Block -> Value]
          /\ stage \notin Recovering => \A b \in Block : View[b] = bread(b)
          /\ stage \in Recovering => View = Durable
<1> SUFFICES ASSUME IInv
             PROVE  /\ View \in [Block -> Value] /\ Durable \in [Block -> Value]
                    /\ stage \notin Recovering => \A b \in Block : View[b] = bread(b)
                    /\ stage \in Recovering => View = Durable
  OBVIOUS
<1>1. Durable \in [Block -> Value]
  BY Zenon, DurableFacts DEF IInv, LogInv
<1>2. \A b \in Block : bread(b) \in Value
  BY Zenon DEF IInv, TypeOK, bread
<1>q. QED BY Zenon, <1>1, <1>2 DEF View

\* An empty header leaves the home blocks.
LEMMA DurableHome ==
  IInv /\ head = <<>> => Durable = home
<1> SUFFICES ASSUME IInv, head = <<>>
             PROVE  Durable = home
  OBVIOUS
<1>1. home \in [Block -> Value] /\ Durable \in [Block -> Value]
  BY Zenon, ViewFacts DEF IInv, TypeOK
<1>2. \A b \in Block : Durable[b] = home[b]
  BY DurableFacts DEF IInv, LogInv
<1>q. QED BY <1>1, <1>2

\* When everything in the log is installed the home blocks are all there is.
LEMMA InstalledHome ==
  IInv /\ stage \in {"erase", "clear"} => Durable = home
<1> SUFFICES ASSUME IInv, stage \in {"erase", "clear"}
             PROVE  Durable = home
  OBVIOUS
<1>1. home \in [Block -> Value] /\ Durable \in [Block -> Value] /\ head = lh
  BY Zenon, ViewFacts DEF IInv, TypeOK, LogInv
<1>2. \A k \in 1..Len(head) : Durable[head[k]] = home[head[k]]
  BY <1>1, DurableFacts DEF IInv, LogInv, CacheInv, Installed
<1>3. \A b \in Block : Durable[b] = home[b]
  BY Zenon, <1>2, DurableFacts DEF IInv, LogInv
<1>q. QED BY <1>1, <1>3

\* A call sees the home block of what the log does not hold.
LEMMA CleanRead ==
  ASSUME IInv, ~panicked, NEW b \in Block, \A k \in Pending : lh[k] # b
  PROVE  bread(b) = home[b]
BY Zenon DEF IInv, CacheInv, bread

\* When no call runs and no commit is in progress nothing is left to lose.
THEOREM QuiescentDurableHolds == Spec => []QuiescentDurable
<1>1. IInv => QuiescentDurable
  <2> SUFFICES ASSUME IInv, stage = "none", outstanding = 0
               PROVE  View = Durable /\ View = home
    BY Zenon DEF QuiescentDurable
  <2>1. Ops = {}
    BY Zenon, OpsFinite, FS_EmptySet DEF IInv, CallInv
  <2>2. lh = <<>> /\ head = <<>> /\ ~panicked
    BY Zenon, <2>1 DEF IInv, LogInv, CallInv
  <2>3. \A b \in Block : bread(b) = home[b]
    BY <2>2, CleanRead DEF Pending
  <2>4. View = home
    <3>1. View \in [Block -> Value] /\ home \in [Block -> Value]
      BY Zenon, ViewFacts DEF IInv, TypeOK
    <3>2. \A b \in Block : View[b] = home[b]
      BY Zenon, <2>3, ViewFacts DEF Recovering
    <3>q. QED BY <3>1, <3>2
  <2>q. QED BY Zenon, <2>2, <2>4, DurableHome
<1>q. QED BY <1>1, Invariance, PTL

\* A step that touches neither the disk nor what is cached.
LEMMA SameView ==
  ASSUME UNCHANGED <<disk, cache>>, stage' \in Recovering <=> stage \in Recovering
  PROVE  View' = View /\ Durable' = Durable
BY Zenon DEF View, Durable, bread, disk

\* A step that reads or recycles a buffer.
LEMMA CacheView ==
  ASSUME IInv, IInv', NEW b \in Block, read(b) \/ recycle(b)
  PROVE  View' = View /\ Durable' = Durable
<1>1. TypeOK /\ UNCHANGED <<disk, stage>> /\ stage \notin Recovering /\ ~panicked
  BY Zenon DEF IInv, read, recycle, Up
<1>2. Durable' = Durable
  BY Zenon, <1>1 DEF Durable, disk
<1>3. cache[b] # NoBuf => bread(b) = home[b] \/ read(b)
  <2>1. CASE recycle(b)
    <3>1. \A k \in Pending : lh[k] # b
      BY <2>1, PinsFact DEF Pins, Pinned, recycle
    <3>q. QED BY Zenon, <1>1, <3>1, CleanRead
  <2>q. QED BY Zenon, <2>1
<1>4. \A x \in Block : bread(x)' = bread(x)
  BY Zenon, <1>1, <1>3 DEF read, recycle, bread, TypeOK, disk
<1>5. View' = View
  BY Zenon, <1>1, <1>4 DEF View
<1>q. QED BY Zenon, <1>2, <1>5

\* write_log() changes nothing a call or a reboot can see.
LEMMA write_logView ==
  ASSUME IInv, IInv', write_log
  PROVE  View' = View /\ Durable' = Durable
<1>1. TypeOK /\ stage = "write_log" /\ lh[tail] \in Block /\ head = <<>> /\ head' = <<>>
      /\ home' = home /\ stage' \in {"write_log", "write_head"}
  BY DEF IInv, write_log, TypeOK, LogInv, TailInv
<1>2. Durable' = Durable
  <2>1. (IInv /\ head = <<>> => Durable = home)'
    BY DurableHome, PTL
  <2>q. QED BY Zenon, <1>1, <2>1, DurableHome
<1>3. \A x \in Block : bread(x)' = bread(x)
  BY Zenon, <1>1 DEF write_log, bread, TypeOK
<1>4. View' = View
  BY Zenon, <1>1, <1>3 DEF View, Recovering
<1>q. QED BY Zenon, <1>2, <1>4

\* write_head() makes durable what calls see.
LEMMA write_headView ==
  ASSUME IInv, IInv', write_head
  PROVE  View' = View /\ Durable' = View
<1>1. TypeOK /\ stage = "write_head" /\ ~panicked /\ Pending = 1..Len(lh) /\ Copied = Pending
      /\ lh \in Seq(Block)
  BY Zenon DEF IInv, TypeOK, CallInv, write_head, Pending, Copied, Recovering
<1>2. UNCHANGED <<home, logblock, cache, lh>> /\ head' = lh /\ stage' = "install"
  BY Zenon DEF write_head, buffers
<1>3. View' = View
  BY Zenon, <1>1, <1>2 DEF View, bread, Recovering
<1>4. Durable' \in [Block -> Value] /\ View \in [Block -> Value]
  <2>1. (IInv => Durable \in [Block -> Value])'
    BY ViewFacts, PTL
  <2>q. QED BY Zenon, <2>1, ViewFacts
<1>5. \A b \in Block : View[b] = bread(b)
  BY Zenon, <1>1, ViewFacts DEF Recovering
<1>6. (/\ \A k \in 1..Len(head) : Durable[head[k]] = logblock[k]
       /\ \A b \in Block : (\A k \in 1..Len(head) : head[k] # b) => Durable[b] = home[b])'
  <2>1. (TypeOK /\ OneEntry(head) =>
           /\ \A k \in 1..Len(head) : Durable[head[k]] = logblock[k]
           /\ \A b \in Block : (\A k \in 1..Len(head) : head[k] # b) =>
                                 Durable[b] = home[b])'
    BY DurableFacts, PTL
  <2>q. QED BY Zenon, <2>1 DEF IInv, LogInv
<1>7. \A k \in 1..Len(lh) : Durable'[lh[k]] = View[lh[k]]
  <2>1. \A k \in 1..Len(lh) : Durable'[lh[k]] = logblock[k] /\ lh[k] \in Block
    BY <1>1, <1>2, <1>6
  <2>2. \A k \in 1..Len(lh) : logblock[k] = bread(lh[k])
    BY Zenon, <1>1 DEF IInv, CacheInv, bread
  <2>q. QED BY <1>5, <2>1, <2>2
<1>8. \A b \in Block : (\A k \in 1..Len(lh) : lh[k] # b) => Durable'[b] = View[b]
  BY Zenon, <1>1, <1>2, <1>5, <1>6, CleanRead
<1>9. \A b \in Block : Durable'[b] = View[b]
  BY Zenon, <1>7, <1>8
<1>q. QED BY <1>3, <1>4, <1>9

\* install_trans() writes home what the log already holds.
LEMMA install_transView ==
  ASSUME IInv, IInv', install_trans
  PROVE  View' = View /\ Durable' = Durable
<1>1. TypeOK /\ stage \in {"recover", "install"} /\ lh \in Seq(Block) /\ tail \in 1..Len(lh)
      /\ lh[tail] \in Block /\ head = lh /\ ~panicked
  BY DEF IInv, install_trans, TypeOK, LogInv, TailInv
<1>2. /\ home' = [home EXCEPT ![lh[tail]] = logblock[tail]]
      /\ cache' = [cache EXCEPT ![lh[tail]] = logblock[tail]]
      /\ UNCHANGED <<logblock, head, lh>>
      /\ stage' \in Recovering <=> stage \in Recovering
  BY Zenon DEF install_trans, Recovering
<1>3. Durable' = Durable
  <2>1. \A b \in Block : At(head, b) = {} => home'[b] = home[b]
    BY Zenon, <1>1, <1>2 DEF At, TypeOK
  <2>q. QED BY Zenon, <1>2, <2>1 DEF Durable
<1>4. stage = "install" => bread(lh[tail]) = logblock[tail]
  <2>1. stage = "install" => tail \in Copied \cap Pending
    BY <1>1 DEF Copied, Pending, Recovering, TypeOK
  <2>q. QED BY Zenon, <1>1, <2>1 DEF IInv, CacheInv, bread
<1>5. stage = "install" => \A b \in Block : bread(b)' = bread(b)
  <2>1. logblock[tail] # NoBuf
    BY <1>1, LogAssumption DEF IInv, LogInv, OneEntry, TypeOK
  <2>q. QED BY Zenon, <1>1, <1>2, <1>4, <2>1 DEF bread, TypeOK
<1>6. View' = View
  BY Zenon, <1>1, <1>2, <1>3, <1>5 DEF View, Recovering
<1>q. QED BY Zenon, <1>3, <1>6

\* Erasing an installed log changes nothing a call or a reboot can see.
LEMMA eraseView ==
  ASSUME IInv, IInv', erase \/ recover_clear
  PROVE  View' = View /\ Durable' = Durable
<1>1. TypeOK /\ stage \in {"erase", "clear"} /\ ~panicked /\ Pending = {}
  BY Zenon DEF IInv, erase, recover_clear, CallInv, Pending, Recovering
<1>2. head' = <<>> /\ home' = home /\ cache' = cache
      /\ stage' = IF stage = "erase" THEN "finish" ELSE "none"
  BY Zenon DEF erase, recover_clear, buffers
<1>3. Durable' = Durable
  <2>1. (IInv /\ head = <<>> => Durable = home)'
    BY DurableHome, PTL
  <2>q. QED BY Zenon, <1>1, <1>2, <2>1, InstalledHome
<1>4. \A b \in Block : bread(b) = home[b] /\ bread(b)' = home[b]
  <2>1. \A b \in Block : bread(b) = home[b]
    BY Zenon, <1>1, CleanRead
  <2>q. QED BY Zenon, <1>2, <2>1 DEF bread
<1>5. View' = View
  <2>1. CASE stage = "erase"
    BY Zenon, <1>2, <1>4, <2>1 DEF View, Recovering
  <2>2. CASE stage = "clear"
    <3>1. View = home
      BY Zenon, <1>1, <2>2, InstalledHome DEF View, Recovering
    <3>2. View' = [b \in Block |-> home[b]]
      BY Zenon, <1>2, <1>4, <2>2 DEF View, Recovering
    <3>q. QED BY Zenon, <1>1, <3>1, <3>2 DEF TypeOK
  <2>q. QED BY Zenon, <1>1, <2>1, <2>2
<1>q. QED BY Zenon, <1>3, <1>5

\* Each step is a step of AtomicLog or changes nothing it sees.
LEMMA AtomicStep == IInv /\ IInv' /\ [Next]_vars => [A!Next]_(A!vars)
<1> SUFFICES ASSUME IInv, IInv', [Next]_vars
             PROVE  A!Next \/ UNCHANGED <<View, Durable, Ops>>
  BY Zenon DEF A!vars
<1>1. TypeOK
  BY Zenon DEF IInv
<1>2. CASE UNCHANGED vars
  <2>1. Ops' = Ops
    BY Zenon, <1>2 DEF vars, calls, Ops
  <2>q. QED BY Zenon, <1>2, <2>1, SameView DEF vars, buffers
<1>3. ASSUME NEW p \in Proc, syscall(p)
      PROVE  UNCHANGED <<View, Durable, Ops>>
  <2>1. Ops' = Ops
    BY Zenon, <1>1, <1>3 DEF syscall, Ops, TypeOK
  <2>q. QED BY Zenon, <1>3, <2>1, SameView DEF syscall, buffers
<1>4. ASSUME NEW p \in Proc, begin_op(p)
      PROVE  A!Next \/ UNCHANGED <<View, Durable, Ops>>
  <2>1. View' = View /\ Durable' = Durable
    BY Zenon, <1>4, SameView DEF begin_op, buffers
  <2>2. CASE pc' = [pc EXCEPT ![p] = "asleep"]
    <3>1. Ops' = Ops
      BY Zenon, <1>1, <1>4, <2>2 DEF begin_op, Ops, TypeOK
    <3>q. QED BY Zenon, <2>1, <3>1
  <2>3. CASE pc' = [pc EXCEPT ![p] = "op"]
    <3>1. p \notin Ops /\ Ops' = Ops \cup {p}
      BY Zenon, <1>1, <1>4, <2>3 DEF begin_op, Ops, TypeOK
    <3>2. A!Begin(p)
      BY Zenon, <2>1, <3>1 DEF A!Begin
    <3>q. QED BY Zenon, <3>2 DEF A!Next
  <2>q. QED BY Zenon, <1>4, <2>2, <2>3 DEF begin_op
<1>5. ASSUME NEW p \in Proc, end_op(p)
      PROVE  A!Next
  <2>1. p \in Ops /\ stage = "none" /\ ~committing
    BY Zenon, <1>5 DEF IInv, CallInv, end_op, Ops, Committing
  <2>2. UNCHANGED <<disk, cache>> /\ stage' \notin Recovering
    BY Zenon, <1>5, <2>1 DEF end_op, buffers, Recovering
  <2>3. \/ pc' = [pc EXCEPT ![p] = "commit"]
        \/ pc' = wakeup([pc EXCEPT ![p] = "idle"])
    BY Zenon, <1>5, <2>1 DEF end_op
  <2>4. Ops' = Ops \ {p}
    <3>1. \A q \in Proc : pc'[q] = "op" <=> pc[q] = "op" /\ q # p
      BY Zenon, <1>1, <2>3 DEF wakeup, TypeOK
    <3>q. QED BY Zenon, <3>1 DEF Ops
  <2>5. A!End(p)
    BY Zenon, <2>1, <2>2, <2>4, SameView DEF A!End, Recovering
  <2>q. QED BY Zenon, <2>5 DEF A!Next
<1>6. ASSUME NEW p \in Proc, finish(p)
      PROVE  UNCHANGED <<View, Durable, Ops>>
  <2>1. \A q \in Proc : pc'[q] = "op" <=> pc[q] = "op"
    BY Zenon, <1>1, <1>6 DEF finish, wakeup, TypeOK
  <2>2. Ops' = Ops
    BY Zenon, <2>1 DEF Ops
  <2>q. QED BY Zenon, <1>6, <2>2, SameView DEF finish, buffers, Recovering
<1>7. ASSUME NEW p \in Proc, NEW b \in Block, NEW v \in Value, log_write(p, b, v)
      PROVE  A!Next
  <2>1. p \in Ops /\ Ops' = Ops /\ stage \notin Recovering /\ stage' = stage
    BY Zenon, <1>7 DEF log_write, Ops, Up
  <2>2. Durable' = Durable
    BY Zenon, <1>7 DEF log_write, Durable, disk
  <2>3. \A x \in Block : bread(x)' = IF x = b THEN v ELSE bread(x)
    BY Zenon, <1>1, <1>7, LogAssumption DEF log_write, bread, TypeOK, disk
  <2>4. View' = [View EXCEPT ![b] = v]
    BY Zenon, <2>1, <2>3 DEF View
  <2>5. A!Write(p, b, v)
    BY Zenon, <2>1, <2>2, <2>4 DEF A!Write
  <2>q. QED BY Zenon, <2>5 DEF A!Next
<1>8. ASSUME Commit \/ Recover
      PROVE  A!Next \/ UNCHANGED <<View, Durable, Ops>>
  <2>1. Ops' = Ops
    BY Zenon, <1>8
       DEF Commit, Recover, write_log, write_head, install_trans, erase, read_head,
                recover_clear, calls, Ops
  <2>2. CASE write_head
    <3>1. Ops = {}
      BY Zenon, <2>2 DEF IInv, CallInv, write_head
    <3>2. A!Commit
      BY Zenon, <2>1, <2>2, <3>1, write_headView DEF A!Commit
    <3>q. QED BY Zenon, <3>2 DEF A!Next
  <2>3. CASE read_head
    BY Zenon, <2>1, <2>3, SameView DEF read_head, buffers, Recovering
  <2>q. QED BY Zenon, <1>8, <2>1, <2>2, <2>3, write_logView, install_transView, eraseView
           DEF Commit, Recover
<1>9. ASSUME NEW b \in Block, read(b) \/ recycle(b)
      PROVE  UNCHANGED <<View, Durable, Ops>>
  <2>1. Ops' = Ops
    BY Zenon, <1>9 DEF read, recycle, calls, Ops
  <2>q. QED BY Zenon, <1>9, <2>1, CacheView
<1>10. ASSUME crash
       PROVE  A!Next
  <2>1. Durable' = Durable
    BY Zenon, <1>10 DEF crash, Durable, disk
  <2>2. View' = Durable'
    BY Zenon, <1>10 DEF crash, View, Recovering
  <2>3. Ops' = {}
    BY Zenon, <1>10 DEF crash, Ops
  <2>q. QED BY Zenon, <2>1, <2>2, <2>3 DEF A!Next, A!Crash
<1>q. QED BY Zenon, <1>2, <1>3, <1>4, <1>5, <1>6, <1>7, <1>8, <1>9, <1>10 DEF Next, Call

\* Crash atomicity: the log implements AtomicLog.
THEOREM AtomicHolds == Spec => AtomicSpec
<1>1. Init => A!Init
  <2> SUFFICES ASSUME Init
               PROVE  A!Init
    OBVIOUS
  <2>1. Ops = {} /\ home = [b \in Block |-> Blank]
    BY Zenon DEF Init, Ops
  <2>2. Durable = home /\ View = Durable
    BY Zenon, InitIInv, DurableHome DEF Init, View, Recovering
  <2>q. QED BY Zenon, <2>1, <2>2 DEF A!Init
<1>2. IInv /\ IInv' /\ [Next]_vars => [A!Next]_(A!vars)
  BY Zenon, AtomicStep
<1>q. QED BY <1>1, <1>2, Invariance, PTL DEF Spec, AtomicSpec, A!Spec
=============================================================================
