---------------------------- MODULE BcacheProofs ----------------------------
(***************************************************************************)
(* The buffer cache keeps its inductive invariant, runs out of buffers     *)
(* only when all are needed, and implements BlockStore, for every number   *)
(* of users, blocks, contents and buffers.                                 *)
(***************************************************************************)
EXTENDS Bcache, FiniteSetTheorems, WellFoundedInduction, TLAPS

\* The users of a buffer can be counted.
LEMMA UsersFinite ==
  ASSUME NEW i
  PROVE  IsFiniteSet(Users(i)) /\ Cardinality(Users(i)) \in Nat
<1>1. Users(i) \in SUBSET User
  BY Zenon DEF Users
<1>2. IsFiniteSet(Users(i))
  BY Zenon, <1>1, BcacheAssumption, FS_Subset
<1>q. QED BY Zenon, <1>2, FS_CardinalityType

\* A buffer without references has no user and no pin.
LEMMA UnusedFree ==
  ASSUME IInv, NEW i \in Buf, refcnt[i] = 0
  PROVE  Users(i) = {} /\ i \notin pinned
<1>1. Cardinality(Users(i)) = 0 /\ i \notin pinned
  BY UsersFinite DEF IInv, RefExact
<1>q. QED BY Zenon, <1>1, UsersFinite, FS_EmptySet

\* A user's reference is counted.
LEMMA UserCounted ==
  ASSUME IInv, NEW p \in User, InUse(p)
  PROVE  refcnt[b[p]] >= 1 + (IF b[p] \in pinned THEN 1 ELSE 0)
<1>1. b[p] \in Buf /\ p \in Users(b[p])
  BY Zenon DEF IInv, TypeOK, Users
<1>2. Cardinality(Users(b[p])) # 0
  BY Zenon, <1>1, UsersFinite, FS_EmptySet
<1>q. QED BY <1>1, <1>2, UsersFinite DEF IInv, RefExact

\* bget() walks the list from its end: it recycles an unused buffer.
LEMMA LeastRecentUnused ==
  ASSUME IInv, Listed # {}
  PROVE  LeastRecent \in Unused
<1> DEFINE T == {m \in Nat : \E k \in Listed : m = NBUF - k}
<1>1. T # {}
  <2>1. PICK k \in Listed : TRUE
    BY Zenon
  <2>2. NBUF - k \in T
    BY <2>1, BcacheAssumption DEF Listed, Buf
  <2>q. QED BY Zenon, <2>2
<1>2. PICK m \in T : \A n \in T : ~(<<n, m>> \in OpToRel(<, Nat))
  BY Zenon, <1>1, NatLessThanWellFounded, WFMin
<1>3. \A n \in T : m <= n
  <2>1. OpToRel(<, Nat) = {ss \in Nat \X Nat : ss[1] < ss[2]}
    BY Zenon DEF OpToRel
  <2>2. \A n \in T : ~(n < m)
    BY Zenon, <1>2, <2>1
  <2>q. QED BY <2>2
<1>4. PICK k \in Listed : m = NBUF - k
  OBVIOUS
<1>5. \A j \in Listed : j <= k
  <2> SUFFICES ASSUME NEW j \in Listed
               PROVE  j <= k
    OBVIOUS
  <2>1. NBUF - j \in T
    BY BcacheAssumption DEF Listed, Buf
  <2>q. QED BY <1>3, <1>4, <2>1, BcacheAssumption DEF Listed, Buf
<1>6. PICK j : j = CHOOSE l \in Listed : \A h \in Listed : h <= l
  OBVIOUS
<1>7. j \in Listed
  BY Zenon, <1>4, <1>5, <1>6
<1>q. QED BY Zenon, <1>6, <1>7 DEF LeastRecent, Listed

\* A step that neither counts nor uses differently keeps the count exact.
LEMMA SameUse ==
  ASSUME RefExact, UNCHANGED <<refcnt, pinned, b>>,
         \A q \in User : InUse(q)' <=> InUse(q)
  PROVE  RefExact'
<1>1. \A i \in Buf : Users(i)' = Users(i)
  BY Zenon DEF Users
<1>q. QED BY Zenon, <1>1 DEF RefExact

\* binit() establishes the invariant.
LEMMA InitIInv == Init => IInv
<1> SUFFICES ASSUME Init
             PROVE  IInv
  OBVIOUS
<1> USE BcacheAssumption
<1>1. TypeOK
  <2>1. (CHOOSE v \in Val : TRUE) \in Val
    OBVIOUS
  <2>2. data \in [Buf -> Val]
    BY Zenon, <2>1 DEF Init
  <2>3. lru \in [Buf -> Buf] /\ b \in [User -> Buf]
    BY DEF Init, Buf
  <2>q. QED BY Zenon, <2>2, <2>3 DEF Init, TypeOK
<1>2. RefExact
  <2>1. \A i \in Buf : Users(i) = {}
    BY Zenon DEF Init, Users, InUse
  <2>2. \A i \in Buf : Cardinality(Users(i)) = 0
    BY Zenon, <2>1, FS_EmptySet
  <2>q. QED BY <2>2 DEF Init, RefExact
<1>3. ListWhole
  <2> SUFFICES ASSUME NEW i \in Buf
               PROVE  \E k \in Buf : lru[k] = i
    BY Zenon DEF ListWhole
  <2>1. NBUF + 1 - i \in Buf /\ lru[NBUF + 1 - i] = i
    BY DEF Init, Buf
  <2>q. QED BY Zenon, <2>1
<1>4. PinBound
  BY FS_EmptySet DEF Init, PinBound
<1>5. OneBuffer /\ RightBlock /\ NoLostWakeup /\ LockHeld /\ Granted /\ Clean
  BY Zenon DEF Init, OneBuffer, RightBlock, NoLostWakeup, LockHeld, Granted, Clean, InUse
<1>q. QED BY Zenon, <1>1, <1>2, <1>3, <1>4, <1>5 DEF IInv

\* bget() takes a reference to the buffer that has the block.
LEMMA bgethitInv ==
  ASSUME IInv, NEW p \in User, bgethit(p)
  PROVE  IInv'
<1> USE DEF IInv
<1>1. PICK n \in Block, i \in Buf :
        /\ blockno[i] = n
        /\ refcnt' = [refcnt EXCEPT ![i] = @ + 1]
        /\ b' = [b EXCEPT ![p] = i]
        /\ want' = [want EXCEPT ![p] = n]
  BY Zenon DEF bgethit, Cached
<1>2. /\ pc[p] = "out" /\ pc' = [pc EXCEPT ![p] = "lock"]
      /\ UNCHANGED <<blockno, lru, valid, data, lock, disk, pinned>>
  BY Zenon DEF bgethit
<1>3. \A q \in User \ {p} : pc'[q] = pc[q] /\ b'[q] = b[q] /\ want'[q] = want[q]
  BY Zenon, <1>1, <1>2 DEF TypeOK
<1>4. pc'[p] = "lock" /\ b'[p] = i /\ want'[p] = n
  BY Zenon, <1>1, <1>2 DEF TypeOK
<1>5. TypeOK'
  BY <1>1, <1>2 DEF TypeOK
<1>6. OneBuffer' /\ ListWhole' /\ PinBound'
  BY Zenon, <1>2 DEF OneBuffer, ListWhole, PinBound
<1>7. RefExact'
  <2>1. p \notin Users(i) /\ Users(i)' = Users(i) \cup {p}
    BY Zenon, <1>2, <1>3, <1>4 DEF Users, InUse
  <2>2. \A j \in Buf \ {i} : Users(j)' = Users(j)
    BY Zenon, <1>2, <1>3, <1>4 DEF Users, InUse
  <2>3. Cardinality(Users(i)') = Cardinality(Users(i)) + 1
    BY Zenon, <2>1, UsersFinite, FS_AddElement
  <2>q. QED BY <1>1, <1>2, <2>2, <2>3, UsersFinite DEF RefExact, TypeOK
<1>8. RightBlock'
  <2>1. lock[i] # p
    BY Zenon, <1>2, BcacheAssumption DEF LockHeld, Holds
  <2>q. QED BY <1>1, <1>2, <1>3, <1>4, <2>1 DEF RightBlock, InUse, Holds
<1>9. NoLostWakeup' /\ Granted'
  BY <1>2, <1>3, <1>4, BcacheAssumption DEF NoLostWakeup, Granted, InUse
<1>10. LockHeld'
  BY <1>2, <1>3, BcacheAssumption DEF LockHeld, Holds, TypeOK
<1>11. Clean'
  BY <1>2, <1>3, <1>4 DEF Clean, Users, InUse
<1>q. QED BY Zenon, <1>5, <1>6, <1>7, <1>8, <1>9, <1>10, <1>11

\* bget() recycles a buffer that nobody uses and the log has not pinned.
LEMMA bgetmissInv ==
  ASSUME IInv, NEW p \in User, bgetmiss(p)
  PROVE  IInv'
<1> USE DEF IInv
<1>0. PICK i : i = LeastRecent
  OBVIOUS
<1>1. PICK n \in Block :
        /\ Cached(n) = {} /\ Listed # {}
        /\ blockno' = [blockno EXCEPT ![i] = n]
        /\ valid' = [valid EXCEPT ![i] = FALSE]
        /\ refcnt' = [refcnt EXCEPT ![i] = 1]
        /\ b' = [b EXCEPT ![p] = i]
        /\ want' = [want EXCEPT ![p] = n]
  BY Zenon, <1>0 DEF bgetmiss
<1>2. /\ pc[p] = "out" /\ pc' = [pc EXCEPT ![p] = "lock"]
      /\ UNCHANGED <<lru, data, lock, disk, pinned>>
  BY Zenon DEF bgetmiss
<1>i. i \in Buf /\ Users(i) = {} /\ i \notin pinned
  BY Zenon, <1>0, <1>1, LeastRecentUnused, UnusedFree DEF Unused
<1>3. \A q \in User \ {p} : pc'[q] = pc[q] /\ b'[q] = b[q] /\ want'[q] = want[q]
  BY Zenon, <1>1, <1>2 DEF TypeOK
<1>4. pc'[p] = "lock" /\ b'[p] = i /\ want'[p] = n
  BY Zenon, <1>1, <1>2 DEF TypeOK
<1>m. /\ blockno'[i] = n /\ ~valid'[i] /\ refcnt'[i] = 1
      /\ \A j \in Buf \ {i} : blockno'[j] = blockno[j] /\ valid'[j] = valid[j] /\ refcnt'[j] = refcnt[j]
  BY Zenon, <1>1, <1>i DEF TypeOK
<1>n. \A q \in User : InUse(q) => b[q] # i
  BY Zenon, <1>i DEF Users
<1>5. TypeOK'
  BY Zenon, <1>1, <1>2, <1>i DEF TypeOK
<1>6. OneBuffer' /\ ListWhole' /\ PinBound'
  BY <1>1, <1>2, <1>m DEF OneBuffer, ListWhole, PinBound, Cached
<1>7. RefExact'
  <2>1. Users(i)' = {p}
    BY Zenon, <1>2, <1>3, <1>4, <1>n DEF Users, InUse
  <2>2. \A j \in Buf \ {i} : Users(j)' = Users(j)
    BY Zenon, <1>2, <1>3, <1>4 DEF Users, InUse
  <2>3. Cardinality(Users(i)') = 1
    BY Zenon, <2>1, FS_Singleton
  <2>q. QED BY <1>2, <1>i, <1>m, <2>2, <2>3 DEF RefExact
<1>8. RightBlock'
  <2>1. lock[i] # p
    BY Zenon, <1>2, <1>i, BcacheAssumption DEF LockHeld, Holds
  <2>2. \A q \in User : InUse(q) => b[q] \in Buf \ {i}
    BY Zenon, <1>n DEF TypeOK
  <2>q. QED BY <1>2, <1>3, <1>4, <1>m, <2>1, <2>2 DEF RightBlock, InUse, Holds
<1>9. NoLostWakeup' /\ Granted'
  <2>1. \A q \in User : InUse(q) => b[q] \in Buf \ {i}
    BY Zenon, <1>n DEF TypeOK
  <2>q. QED BY <1>2, <1>3, <1>4, <1>m, <2>1, BcacheAssumption
     DEF NoLostWakeup, Granted, InUse
<1>10. LockHeld'
  BY <1>2, <1>3, BcacheAssumption DEF LockHeld, Holds, TypeOK
<1>11. Clean'
  BY <1>2, <1>3, <1>4, <1>m DEF Clean, Users, InUse
<1>q. QED BY Zenon, <1>5, <1>6, <1>7, <1>8, <1>9, <1>10, <1>11

\* acquiresleep() takes a free lock, or sleeps because somebody holds it.
LEMMA acquiresleepInv ==
  ASSUME IInv, NEW p \in User, acquiresleep(p)
  PROVE  IInv'
<1> USE DEF IInv
<1>1. /\ pc[p] = "lock" /\ b[p] \in Buf
      /\ UNCHANGED <<blockno, refcnt, lru, valid, data, disk, pinned, b, want>>
  BY Zenon DEF acquiresleep, meta, TypeOK
<1>2. pc'[p] \in {"asleep", "read", "hold"} /\ \A q \in User \ {p} : pc'[q] = pc[q]
  BY Zenon DEF acquiresleep, TypeOK
<1>3. \/ /\ lock[b[p]] = None /\ lock' = [lock EXCEPT ![b[p]] = p]
         /\ (pc'[p] = "read" /\ ~valid[b[p]]) \/ (pc'[p] = "hold" /\ valid[b[p]])
      \/ lock[b[p]] # None /\ lock' = lock /\ pc'[p] = "asleep"
  BY Zenon DEF acquiresleep, TypeOK
<1>4. TypeOK'
  BY Zenon, <1>1 DEF acquiresleep, TypeOK
<1>5. OneBuffer' /\ ListWhole' /\ PinBound'
  BY Zenon, <1>1 DEF OneBuffer, ListWhole, PinBound
<1>6. RefExact'
  BY Zenon, <1>1, <1>2, SameUse DEF InUse
<1>7. RightBlock' /\ NoLostWakeup' /\ Granted'
  <2>1. \A q \in User : InUse(q)' <=> InUse(q)
    BY Zenon, <1>1, <1>2 DEF InUse
  <2>2. \A q \in User \ {p} : (Holds(q)' <=> Holds(q)) /\ (lock'[b[q]] = q <=> lock[b[q]] = q)
    BY <1>1, <1>2, <1>3, BcacheAssumption DEF Holds, TypeOK
  <2>3. Holds(p)' <=> lock'[b[p]] = p
    <3>1. lock[b[p]] # p
      BY Zenon, <1>1 DEF RightBlock, InUse, Holds
    <3>q. QED BY Zenon, <1>1, <1>3, <3>1 DEF Holds, TypeOK
  <2>4. RightBlock'
    BY Zenon, <1>1, <2>1, <2>2, <2>3 DEF RightBlock
  <2>5. \A q \in User : lock[b[q]] # None => lock'[b[q]] # None
    BY Zenon, <1>1, <1>3, BcacheAssumption DEF TypeOK
  <2>6. NoLostWakeup'
    BY Zenon, <1>1, <1>2, <1>3, <2>5 DEF NoLostWakeup
  <2>7. Granted'
    BY Zenon, <1>1, <1>2, <1>3, <2>1 DEF Granted
  <2>q. QED BY Zenon, <2>4, <2>6, <2>7
<1>8. LockHeld'
  <2>1. \A j \in Buf : lock[j] # p
    BY Zenon, <1>1, BcacheAssumption DEF LockHeld, Holds
  <2>2. \A j \in Buf : \/ lock'[j] = lock[j]
                       \/ j = b[p] /\ lock'[j] = p /\ Holds(p)'
    BY Zenon, <1>3 DEF Holds, TypeOK
  <2>3. \A q \in User \ {p} : Holds(q)' <=> Holds(q)
    BY Zenon, <1>2 DEF Holds
  <2>q. QED BY <1>1, <2>1, <2>2, <2>3 DEF LockHeld, TypeOK
<1>9. Clean'
  BY <1>1, <1>2 DEF Clean, Users, InUse
<1>q. QED BY Zenon, <1>4, <1>5, <1>6, <1>7, <1>8, <1>9

\* bread() fills the buffer it holds from the disk.
LEMMA readInv ==
  ASSUME IInv, NEW p \in User, read(p)
  PROVE  IInv'
<1> USE DEF IInv
<1>1. /\ pc[p] = "read" /\ b[p] \in Buf /\ blockno[b[p]] \in Block
      /\ UNCHANGED <<blockno, refcnt, lru, lock, disk, pinned, b, want>>
  BY DEF read, meta, TypeOK, RightBlock, Granted, InUse
<1>2. pc'[p] = "hold" /\ \A q \in User \ {p} : pc'[q] = pc[q]
  BY Zenon DEF read, TypeOK
<1>3. /\ valid'[b[p]] /\ data'[b[p]] = disk[blockno[b[p]]]
      /\ \A j \in Buf \ {b[p]} : valid'[j] = valid[j] /\ data'[j] = data[j]
  BY Zenon, <1>1 DEF read, TypeOK
<1>4. TypeOK'
  BY Zenon, <1>1 DEF read, TypeOK
<1>5. OneBuffer' /\ ListWhole' /\ PinBound'
  BY Zenon, <1>1 DEF OneBuffer, ListWhole, PinBound
<1>6. RefExact'
  BY Zenon, <1>1, <1>2, SameUse DEF InUse
<1>7. RightBlock' /\ NoLostWakeup' /\ LockHeld'
  <2>1. RightBlock'
    BY <1>1, <1>2 DEF RightBlock, InUse, Holds
  <2>2. NoLostWakeup'
    BY <1>1, <1>2 DEF NoLostWakeup, InUse
  <2>3. LockHeld'
    <3>1. \A q \in User : Holds(q) => Holds(q)'
      BY Zenon, <1>1, <1>2 DEF Holds
    <3>2. \A j \in Buf : lock[j] \in User \cup {None}
      BY Zenon DEF TypeOK
    <3>q. QED BY Zenon, <1>1, <3>1, <3>2 DEF LockHeld
  <2>q. QED BY Zenon, <2>1, <2>2, <2>3
<1>8. Granted'
  <2>1. \A q \in User \ {p} : Holds(q) => b[q] # b[p]
    BY <1>1 DEF RightBlock, InUse, Holds
  <2>q. QED BY <1>1, <1>2, <1>3, <2>1 DEF Granted, InUse, Holds, TypeOK
<1>9. Clean'
  BY <1>1, <1>2, <1>3, BcacheAssumption DEF Clean, Users, InUse
<1>q. QED BY Zenon, <1>4, <1>5, <1>6, <1>7, <1>8, <1>9

\* A caller changes the content of a buffer it holds.
LEMMA changeInv ==
  ASSUME IInv, NEW p \in User, change(p)
  PROVE  IInv'
<1> USE DEF IInv
<1>1. /\ pc[p] = "hold" /\ b[p] \in Buf
      /\ UNCHANGED <<blockno, refcnt, lru, valid, lock, disk, pinned, b, want>>
  BY Zenon DEF change, meta, TypeOK
<1>2. pc'[p] = "dirty" /\ \A q \in User \ {p} : pc'[q] = pc[q]
  BY Zenon DEF change, TypeOK
<1>3. \A j \in Buf \ {b[p]} : data'[j] = data[j]
  BY Zenon, <1>1 DEF change, TypeOK
<1>4. TypeOK'
  BY <1>1 DEF change, TypeOK
<1>5. OneBuffer' /\ ListWhole' /\ PinBound'
  BY Zenon, <1>1 DEF OneBuffer, ListWhole, PinBound
<1>6. RefExact'
  BY Zenon, <1>1, <1>2, SameUse DEF InUse
<1>7. RightBlock' /\ NoLostWakeup' /\ LockHeld' /\ Granted'
  <2>1. RightBlock'
    BY <1>1, <1>2 DEF RightBlock, InUse, Holds
  <2>2. NoLostWakeup' /\ Granted'
    BY <1>1, <1>2 DEF NoLostWakeup, Granted, InUse
  <2>3. LockHeld'
    <3>1. \A q \in User : Holds(q) => Holds(q)'
      BY Zenon, <1>1, <1>2 DEF Holds
    <3>2. \A j \in Buf : lock[j] \in User \cup {None}
      BY Zenon DEF TypeOK
    <3>q. QED BY Zenon, <1>1, <3>1, <3>2 DEF LockHeld
  <2>q. QED BY Zenon, <2>1, <2>2, <2>3
<1>8. Clean'
  BY <1>1, <1>2, <1>3 DEF Clean, Users, InUse
<1>q. QED BY Zenon, <1>4, <1>5, <1>6, <1>7, <1>8

\* log_write() pins a changed buffer once.
LEMMA bpinInv ==
  ASSUME IInv, NEW p \in User, bpin(p)
  PROVE  IInv'
<1> USE DEF IInv
<1>1. /\ pc[p] = "dirty" /\ b[p] \in Buf
      /\ pinned' = pinned \cup {b[p]}
      /\ refcnt' = [refcnt EXCEPT ![b[p]] = @ + Pin(b[p])]
      /\ UNCHANGED <<blockno, lru, valid, data, lock, disk, b, want>>
  BY Zenon DEF bpin, TypeOK
<1>2. pc'[p] = "hold" /\ \A q \in User \ {p} : pc'[q] = pc[q]
  BY Zenon DEF bpin, TypeOK
<1>3. Pin(b[p]) = IF b[p] \in pinned THEN 0 ELSE 1
  BY Zenon DEF Pin
<1>4. TypeOK'
  BY <1>1, <1>3 DEF bpin, TypeOK
<1>5. OneBuffer' /\ ListWhole'
  BY Zenon, <1>1 DEF OneBuffer, ListWhole
<1>6. PinBound'
  <2>1. IsFiniteSet(pinned) /\ Cardinality(pinned) \in Nat
    <3>1. IsFiniteSet(Buf)
      BY BcacheAssumption, FS_Interval DEF Buf
    <3>2. pinned \in SUBSET Buf
      BY Zenon DEF TypeOK
    <3>q. QED BY Zenon, <3>1, <3>2, FS_Subset, FS_CardinalityType
  <2>2. Cardinality(pinned') = IF b[p] \in pinned THEN Cardinality(pinned) ELSE Cardinality(pinned) + 1
    BY Zenon, <1>1, <2>1, FS_AddElement
  <2>3. b[p] \in pinned \/ Cardinality(pinned) < MaxPin
    BY Zenon DEF bpin
  <2>q. QED BY <2>1, <2>2, <2>3, BcacheAssumption DEF PinBound
<1>7. RefExact'
  <2>1. \A j \in Buf : Users(j)' = Users(j)
    BY Zenon, <1>1, <1>2 DEF Users, InUse
  <2>2. \A j \in Buf : refcnt'[j] = refcnt[j] + (IF j = b[p] /\ j \notin pinned THEN 1 ELSE 0)
    BY <1>1, <1>3 DEF TypeOK
  <2>3. \A j \in Buf : j \in pinned' <=> j \in pinned \/ j = b[p]
    BY Zenon, <1>1
  <2>q. QED BY <2>1, <2>2, <2>3, UsersFinite DEF RefExact
<1>8. RightBlock' /\ NoLostWakeup' /\ LockHeld' /\ Granted'
  <2>1. RightBlock'
    BY <1>1, <1>2 DEF RightBlock, InUse, Holds
  <2>2. NoLostWakeup' /\ Granted'
    BY <1>1, <1>2 DEF NoLostWakeup, Granted, InUse
  <2>3. LockHeld'
    <3>1. \A q \in User : Holds(q) => Holds(q)'
      BY Zenon, <1>1, <1>2 DEF Holds
    <3>2. \A j \in Buf : lock[j] \in User \cup {None}
      BY Zenon DEF TypeOK
    <3>q. QED BY Zenon, <1>1, <3>1, <3>2 DEF LockHeld
  <2>q. QED BY Zenon, <2>1, <2>2, <2>3
<1>9. Clean'
  BY <1>1, <1>2 DEF Clean, Users, InUse
<1>q. QED BY Zenon, <1>4, <1>5, <1>6, <1>7, <1>8, <1>9

\* bwrite() makes the disk's copy that of the buffer and undoes a pin.
LEMMA bwriteInv ==
  ASSUME IInv, NEW p \in User, bwrite(p)
  PROVE  IInv'
<1> USE DEF IInv
<1>1. /\ pc[p] \in {"hold", "dirty"} /\ b[p] \in Buf /\ blockno[b[p]] \in Block
      /\ disk' = [disk EXCEPT ![blockno[b[p]]] = data[b[p]]]
      /\ pinned' = pinned \ {b[p]}
      /\ refcnt' = [refcnt EXCEPT ![b[p]] = @ - Unpin(b[p])]
      /\ UNCHANGED <<blockno, lru, valid, data, lock, b, want>>
  BY DEF bwrite, TypeOK, RightBlock, Granted, InUse
<1>2. pc'[p] = "hold" /\ \A q \in User \ {p} : pc'[q] = pc[q]
  BY Zenon DEF bwrite, TypeOK
<1>3. Unpin(b[p]) = IF b[p] \in pinned THEN 1 ELSE 0
  BY Zenon DEF Unpin
<1>4. TypeOK'
  <2>1. refcnt[b[p]] >= 1
    BY <1>1, UserCounted DEF InUse, TypeOK
  <2>2. refcnt' \in [Buf -> Nat]
    BY <1>1, <1>3, <2>1 DEF TypeOK
  <2>q. QED BY <1>1, <2>2 DEF bwrite, TypeOK
<1>5. OneBuffer' /\ ListWhole'
  BY Zenon, <1>1 DEF OneBuffer, ListWhole
<1>6. PinBound'
  <2>1. IsFiniteSet(pinned)
    <3>1. IsFiniteSet(Buf)
      BY BcacheAssumption, FS_Interval DEF Buf
    <3>2. pinned \in SUBSET Buf
      BY Zenon DEF TypeOK
    <3>q. QED BY Zenon, <3>1, <3>2, FS_Subset
  <2>2. Cardinality(pinned') <= Cardinality(pinned)
    BY Zenon, <1>1, <2>1, FS_Subset
  <2>3. Cardinality(pinned) \in Nat /\ Cardinality(pinned') \in Nat
    BY Zenon, <1>1, <2>1, FS_Subset, FS_CardinalityType
  <2>q. QED BY <2>2, <2>3, BcacheAssumption DEF PinBound
<1>7. RefExact'
  <2>1. \A j \in Buf : Users(j)' = Users(j)
    BY Zenon, <1>1, <1>2 DEF Users, InUse
  <2>2. \A j \in Buf : refcnt'[j] = refcnt[j] - (IF j = b[p] /\ j \in pinned THEN 1 ELSE 0)
    BY <1>1, <1>3 DEF TypeOK
  <2>3. \A j \in Buf : j \in pinned' <=> j \in pinned /\ j # b[p]
    BY Zenon, <1>1
  <2>q. QED BY <2>1, <2>2, <2>3, UsersFinite DEF RefExact
<1>8. RightBlock' /\ NoLostWakeup' /\ LockHeld' /\ Granted'
  <2>1. RightBlock'
    BY <1>1, <1>2 DEF RightBlock, InUse, Holds
  <2>2. NoLostWakeup' /\ Granted'
    BY <1>1, <1>2 DEF NoLostWakeup, Granted, InUse
  <2>3. LockHeld'
    <3>1. \A q \in User : Holds(q) => Holds(q)'
      BY Zenon, <1>1, <1>2 DEF Holds
    <3>2. \A j \in Buf : lock[j] \in User \cup {None}
      BY Zenon DEF TypeOK
    <3>q. QED BY Zenon, <1>1, <3>1, <3>2 DEF LockHeld
  <2>q. QED BY Zenon, <2>1, <2>2, <2>3
<1>9. Clean'
  <2>1. data'[b[p]] = disk'[blockno[b[p]]]
    BY Zenon, <1>1 DEF TypeOK
  <2>2. \A j \in Buf \ {b[p]} : valid[j] => disk'[blockno[j]] = disk[blockno[j]]
    BY Zenon, <1>1, BcacheAssumption DEF OneBuffer, Clean, TypeOK
  <2>3. \A j \in Buf \ {b[p]} : \A q \in Users(j) : q \in Users(j)' /\ pc'[q] = pc[q]
    BY Zenon, <1>1, <1>2 DEF Users, InUse
  <2>4. \A j \in Buf \ {b[p]} : j \in pinned' <=> j \in pinned
    BY Zenon, <1>1
  <2>5. /\ UNCHANGED <<valid, blockno, data>>
        /\ valid[b[p]] => blockno[b[p]] # None
    BY Zenon, <1>1 DEF Clean
  <2>q. QED BY <2>1, <2>2, <2>3, <2>4, <2>5 DEF Clean
<1>q. QED BY Zenon, <1>4, <1>5, <1>6, <1>7, <1>8, <1>9

\* releasesleep() frees the lock and wakes every user that waits for it.
LEMMA releasesleepInv ==
  ASSUME IInv, NEW p \in User, releasesleep(p)
  PROVE  IInv'
<1> USE DEF IInv
<1>1. /\ pc[p] = "hold" /\ b[p] \in Buf
      /\ lock' = [lock EXCEPT ![b[p]] = None]
      /\ UNCHANGED <<blockno, refcnt, lru, valid, data, disk, pinned, b, want>>
  BY Zenon DEF releasesleep, meta, TypeOK
<1>2. /\ pc'[p] = "release"
      /\ \A q \in User \ {p} : IF pc[q] = "asleep" /\ b[q] = b[p] THEN pc'[q] = "lock" ELSE pc'[q] = pc[q]
  BY Zenon DEF releasesleep, Woken
<1>3. \A q \in User : InUse(q)' <=> InUse(q)
  BY Zenon, <1>1, <1>2 DEF InUse
<1>4. TypeOK'
  <2>1. pc' \in [User -> {"out", "lock", "asleep", "read", "hold", "dirty", "release"}]
    BY Zenon DEF releasesleep, TypeOK
  <2>q. QED BY Zenon, <1>1, <2>1 DEF TypeOK
<1>5. OneBuffer' /\ ListWhole' /\ PinBound'
  BY Zenon, <1>1 DEF OneBuffer, ListWhole, PinBound
<1>6. RefExact'
  BY Zenon, <1>1, <1>3, SameUse
<1>7. \A q \in User \ {p} : (Holds(q)' <=> Holds(q)) /\ (Holds(q) => b[q] # b[p])
  BY <1>1, <1>2 DEF Holds, RightBlock, InUse
<1>8. RightBlock'
  <2>1. \A q \in User \ {p} : lock'[b[q]] = q <=> lock[b[q]] = q /\ b[q] # b[p]
    BY Zenon, <1>1, BcacheAssumption DEF TypeOK
  <2>2. lock'[b[p]] # p /\ ~Holds(p)'
    BY Zenon, <1>1, <1>2, BcacheAssumption DEF TypeOK, Holds
  <2>q. QED BY Zenon, <1>1, <1>3, <1>7, <2>1, <2>2 DEF RightBlock
<1>9. NoLostWakeup' /\ Granted'
  BY Zenon, <1>1, <1>2, <1>3 DEF NoLostWakeup, Granted, TypeOK
<1>10. LockHeld'
  <2>1. lock[b[p]] = p
    BY Zenon, <1>1 DEF RightBlock, InUse, Holds
  <2>2. \A j \in Buf \ {b[p]} : lock'[j] = lock[j] /\ lock[j] # p
    BY Zenon, <1>1, BcacheAssumption DEF LockHeld, TypeOK
  <2>3. lock'[b[p]] = None
    BY Zenon, <1>1 DEF TypeOK
  <2>q. QED BY <1>1, <1>7, <2>2, <2>3 DEF LockHeld, TypeOK
<1>11. Clean'
  BY <1>1, <1>2, <1>3 DEF Clean, Users
<1>q. QED BY Zenon, <1>4, <1>5, <1>6, <1>8, <1>9, <1>10, <1>11

\* Moving a buffer to the front loses none of the list.
LEMMA MoveFirstWhole ==
  ASSUME IInv, NEW i \in Buf
  PROVE  /\ MoveFirst(i) \in [Buf -> Buf]
         /\ \A j \in Buf : \E k \in Buf : MoveFirst(i)[k] = j
<1> DEFINE place == CHOOSE k \in Buf : lru[k] = i
           new == [k \in Buf |-> IF k = 1 THEN i ELSE IF k <= place THEN lru[k - 1] ELSE lru[k]]
<1>1. place \in Buf /\ lru[place] = i
  BY Zenon DEF IInv, ListWhole
<1>2. MoveFirst(i) = new
  BY Zenon DEF MoveFirst
<1> HIDE DEF place
<1>3. new \in [Buf -> Buf]
  <2>1. \A k \in Buf : k # 1 => k - 1 \in Buf
    BY BcacheAssumption DEF Buf
  <2>2. lru \in [Buf -> Buf]
    BY Zenon DEF IInv, TypeOK
  <2>q. QED BY Zenon, <2>1, <2>2
<1>4. \A j \in Buf : \E k \in Buf : new[k] = j
  <2> SUFFICES ASSUME NEW j \in Buf
               PROVE  \E k \in Buf : new[k] = j
    OBVIOUS
  <2>1. PICK k \in Buf : lru[k] = j
    BY Zenon DEF IInv, ListWhole
  <2>2. CASE j = i
    <3>1. 1 \in Buf /\ new[1] = j
      BY <2>2, BcacheAssumption DEF Buf
    <3>q. QED BY Zenon, <3>1
  <2>3. CASE j # i /\ k < place
    <3>1. k + 1 \in Buf /\ new[k + 1] = lru[k]
      BY <1>1, <2>3, BcacheAssumption DEF Buf
    <3>q. QED BY Zenon, <2>1, <3>1
  <2>4. CASE j # i /\ k > place
    <3>1. new[k] = lru[k]
      BY <1>1, <2>4, BcacheAssumption DEF Buf
    <3>q. QED BY Zenon, <2>1, <3>1
  <2>q. QED BY <1>1, <2>1, <2>2, <2>3, <2>4, BcacheAssumption DEF Buf
<1>q. QED BY Zenon, <1>2, <1>3, <1>4

\* brelse() gives its reference back.
LEMMA brelseInv ==
  ASSUME IInv, NEW p \in User, brelse(p)
  PROVE  IInv'
<1> USE DEF IInv
<1>1. /\ pc[p] = "release" /\ b[p] \in Buf
      /\ refcnt' = [refcnt EXCEPT ![b[p]] = @ - 1]
      /\ UNCHANGED <<blockno, valid, data, lock, disk, pinned>>
  BY Zenon DEF brelse, TypeOK
<1>2. /\ pc'[p] = "out"
      /\ \A q \in User \ {p} : pc'[q] = pc[q] /\ b'[q] = b[q] /\ want'[q] = want[q]
  BY Zenon DEF brelse, TypeOK
<1>l. lru' \in [Buf -> Buf] /\ \A j \in Buf : \E k \in Buf : lru'[k] = j
  <2>1. CASE lru' = lru
    BY Zenon, <2>1 DEF TypeOK, ListWhole
  <2>2. CASE lru' = MoveFirst(b[p])
    <3>1. /\ MoveFirst(b[p]) \in [Buf -> Buf]
          /\ \A j \in Buf : \E k \in Buf : MoveFirst(b[p])[k] = j
      BY <1>1, MoveFirstWhole, Zenon
    <3>q. QED BY <2>2, <3>1, Zenon
  <2>q. QED BY Zenon, <2>1, <2>2 DEF brelse
<1>3. TypeOK'
  <2>1. refcnt[b[p]] >= 1
    BY <1>1, UserCounted DEF InUse, TypeOK
  <2>2. refcnt' \in [Buf -> Nat]
    BY <1>1, <2>1 DEF TypeOK
  <2>3. b' \in [User -> Buf]
    BY BcacheAssumption DEF brelse, TypeOK, Buf
  <2>4. pc' \in [User -> {"out", "lock", "asleep", "read", "hold", "dirty", "release"}]
        /\ want' \in [User -> Block \cup {None}]
    BY Zenon DEF brelse, TypeOK
  <2>q. QED BY Zenon, <1>1, <1>l, <2>2, <2>3, <2>4 DEF TypeOK
<1>4. OneBuffer' /\ PinBound'
  BY Zenon, <1>1 DEF OneBuffer, PinBound
<1>5. ListWhole'
  BY Zenon, <1>l DEF ListWhole
<1>6. RefExact'
  <2>1. p \in Users(b[p]) /\ \A q \in User : InUse(q)' <=> InUse(q) /\ q # p
    BY Zenon, <1>1, <1>2 DEF Users, InUse
  <2>2. \A j \in Buf : Users(j)' = Users(j) \ {p}
    BY Zenon, <1>2, <2>1 DEF Users
  <2>3. \A j \in Buf : Cardinality(Users(j)') = IF j = b[p] THEN Cardinality(Users(j)) - 1
                                                ELSE Cardinality(Users(j))
    <3> SUFFICES ASSUME NEW j \in Buf
                 PROVE  Cardinality(Users(j) \ {p}) = IF j = b[p] THEN Cardinality(Users(j)) - 1
                                                      ELSE Cardinality(Users(j))
      BY Zenon, <2>2
    <3>1. p \in Users(j) <=> j = b[p]
      BY Zenon, <2>1 DEF Users
    <3>q. QED BY Zenon, <3>1, UsersFinite, FS_RemoveElement
  <2>q. QED BY <1>1, <2>3, UsersFinite DEF RefExact, TypeOK
<1>7. RightBlock' /\ NoLostWakeup' /\ Granted'
  BY <1>1, <1>2 DEF RightBlock, NoLostWakeup, Granted, InUse, Holds
<1>8. LockHeld'
  <2>1. ~Holds(p) /\ \A q \in User \ {p} : Holds(q) => Holds(q)'
    BY Zenon, <1>1, <1>2 DEF Holds
  <2>2. \A j \in Buf : lock[j] \in User \cup {None}
    BY Zenon DEF TypeOK
  <2>q. QED BY Zenon, <1>1, <1>2, <2>1, <2>2 DEF LockHeld
<1>9. Clean'
  BY <1>1, <1>2 DEF Clean, Users, InUse
<1>q. QED BY Zenon, <1>3, <1>4, <1>5, <1>6, <1>7, <1>8, <1>9

\* A step that changes nothing preserves IInv.
LEMMA StutterInv ==
  ASSUME IInv, UNCHANGED vars
  PROVE  IInv'
<1>1. \A i : Users(i)' = Users(i)
  BY Zenon DEF vars, meta, Users, InUse
<1>2. TypeOK' /\ OneBuffer' /\ RightBlock' /\ NoLostWakeup'
  BY Zenon DEF vars, meta, IInv, TypeOK, OneBuffer, RightBlock, NoLostWakeup, InUse, Holds
<1>3. RefExact' /\ ListWhole' /\ LockHeld'
  BY Zenon, <1>1 DEF vars, meta, IInv, RefExact, ListWhole, LockHeld, InUse, Holds
<1>4. Granted' /\ Clean' /\ PinBound'
  BY Zenon, <1>1 DEF vars, meta, IInv, Granted, Clean, PinBound, InUse, Holds
<1>q. QED BY Zenon, <1>2, <1>3, <1>4 DEF IInv

\* Every step of the cache preserves IInv.
LEMMA NextIInv == IInv /\ [Next]_vars => IInv'
<1> SUFFICES ASSUME IInv, [Next]_vars
             PROVE  IInv'
  OBVIOUS
<1>1. CASE UNCHANGED vars
  BY Zenon, <1>1, StutterInv
<1>2. ASSUME NEW p \in User, Step(p)
      PROVE  IInv'
  BY Zenon, <1>2, bgethitInv, bgetmissInv, acquiresleepInv, readInv, changeInv, bpinInv, bwriteInv,
     releasesleepInv, brelseInv DEF Step
<1>q. QED BY Zenon, <1>1, <1>2 DEF Next

\* The inductive invariant of bio.c: no block is in two buffers, references count users
\* and pins, a buffer in use stays that of its block and has one holder, nobody sleeps
\* beside a free lock, the list is whole, and only pinned or changing buffers differ
\* from the disk.
THEOREM Invariance == Spec => []IInv
BY InitIInv, NextIInv, PTL DEF Spec

\* Every variable keeps its type, so references never fall below zero.
THEOREM TypeCorrect == Spec => []TypeOK
<1>1. IInv => TypeOK
  BY Zenon DEF IInv
<1>q. QED BY <1>1, Invariance, PTL

\* bget() reaches panic("bget: no buffers") only when each of the NBUF buffers is pinned by
\* the log or in use between bread() and brelse(), in whatever order they are used.
THEOREM BuffersSufficeHolds == Spec => []BuffersSuffice
<1>1. IInv => BuffersSuffice
  <2> DEFINE Needed == pinned \cup {b[p] : p \in {q \in User : InUse(q)}}
  <2> SUFFICES ASSUME IInv, Listed = {}
               PROVE  Buf = Needed
    BY Zenon DEF BuffersSuffice, NoBuffers
  <2>1. ASSUME NEW i \in Buf, i \notin pinned
        PROVE  i \in Needed
    <3>1. PICK k \in Buf : lru[k] = i
      BY Zenon DEF IInv, ListWhole
    <3>2. refcnt[i] # 0
      BY Zenon, <3>1 DEF Listed, Unused
    <3>3. Cardinality(Users(i)) # 0
      BY <2>1, <3>2 DEF IInv, RefExact
    <3>4. PICK q : q \in Users(i)
      BY Zenon, <3>3, UsersFinite, FS_EmptySet
    <3>q. QED BY Zenon, <3>4 DEF Users
  <2>2. Needed \subseteq Buf
    <3>1. pinned \subseteq Buf /\ \A q \in User : b[q] \in Buf
      BY DEF IInv, TypeOK
    <3>q. QED BY Zenon, <3>1
  <2>q. QED BY Zenon, <2>1, <2>2
<1>q. QED BY <1>1, Invariance, PTL

-----------------------------------------------------------------------------
(* The refinement of BlockStore.                                           *)

StoreMap == [n \in Block |-> IF Valid(n) = {} THEN disk[n] ELSE data[CHOOSE i \in Valid(n) : TRUE]]
OwnerMap == [n \in Block |-> IF Owner(n) = {} THEN None ELSE CHOOSE p \in Owner(n) : TRUE]

\* What a valid buffer has is what its block has; other blocks are on the disk.
StoreFact ==
  /\ \A i \in Buf : valid[i] => blockno[i] \in Block /\ StoreMap[blockno[i]] = data[i]
  /\ \A n \in Block : (\A i \in Buf : ~(valid[i] /\ blockno[i] = n)) => StoreMap[n] = disk[n]

\* Whoever holds the buffer of a block owns the block, alone.
Keeps(p) == pc[p] \in {"hold", "dirty"}
OwnerFact ==
  /\ \A p \in User : Keeps(p) => blockno[b[p]] \in Block /\ OwnerMap[blockno[b[p]]] = p
  /\ \A n \in Block : (\A p \in User : ~(Keeps(p) /\ blockno[b[p]] = n)) => OwnerMap[n] = None

\* A block's contents are those of its valid buffer, or else those on disk.
LEMMA StoreAt == IInv => StoreFact
<1> SUFFICES ASSUME IInv
             PROVE  StoreFact
  OBVIOUS
<1>1. ASSUME NEW i \in Buf, valid[i]
      PROVE  blockno[i] \in Block /\ StoreMap[blockno[i]] = data[i]
  <2>1. blockno[i] \in Block
    BY Zenon, <1>1 DEF IInv, Clean, TypeOK
  <2>2. Valid(blockno[i]) = {i}
    BY Zenon, <1>1, <2>1, BcacheAssumption DEF IInv, OneBuffer, Valid, Cached
  <2>3. (CHOOSE j \in Valid(blockno[i]) : TRUE) = i
    BY Zenon, <2>2
  <2>q. QED BY Zenon, <2>1, <2>2, <2>3 DEF StoreMap
<1>2. ASSUME NEW n \in Block, \A i \in Buf : ~(valid[i] /\ blockno[i] = n)
      PROVE  StoreMap[n] = disk[n]
  <2>1. Valid(n) = {}
    BY Zenon, <1>2 DEF Valid, Cached
  <2>q. QED BY Zenon, <2>1 DEF StoreMap
<1>q. QED BY Zenon, <1>1, <1>2 DEF StoreFact

\* The owner of a block is the user that has its buffer locked.
LEMMA OwnerAt == IInv => OwnerFact
<1> USE DEF Keeps
<1> SUFFICES ASSUME IInv
             PROVE  OwnerFact
  OBVIOUS
<1>1. ASSUME NEW p \in User, Keeps(p)
      PROVE  blockno[b[p]] \in Block /\ OwnerMap[blockno[b[p]]] = p
  <2>1. b[p] \in Buf /\ blockno[b[p]] \in Block
    BY <1>1 DEF IInv, TypeOK, RightBlock, Granted, InUse
  <2>2. ASSUME NEW q \in User, Keeps(q), blockno[b[q]] = blockno[b[p]]
        PROVE  q = p
    <3>1. b[q] = b[p]
      BY Zenon, <2>1, <2>2, BcacheAssumption DEF IInv, OneBuffer, TypeOK
    <3>2. lock[b[q]] = q /\ lock[b[p]] = p
      BY Zenon, <1>1, <2>2 DEF IInv, RightBlock, InUse, Holds
    <3>q. QED BY Zenon, <3>1, <3>2
  <2>3. Owner(blockno[b[p]]) = {p}
    BY Zenon, <1>1, <2>2 DEF Owner
  <2>4. (CHOOSE q \in Owner(blockno[b[p]]) : TRUE) = p
    BY Zenon, <2>3
  <2>q. QED BY Zenon, <2>1, <2>3, <2>4 DEF OwnerMap
<1>2. ASSUME NEW n \in Block, \A p \in User : ~(Keeps(p) /\ blockno[b[p]] = n)
      PROVE  OwnerMap[n] = None
  <2>1. Owner(n) = {}
    BY Zenon, <1>2 DEF Owner
  <2>q. QED BY Zenon, <2>1 DEF OwnerMap
<1>q. QED BY Zenon, <1>1, <1>2 DEF OwnerFact

\* The same facts before and after a step.
LEMMA Facts ==
  ASSUME IInv, IInv'
  PROVE  StoreFact /\ StoreFact' /\ OwnerFact /\ OwnerFact'
<1>1. (IInv => StoreFact) /\ (IInv => OwnerFact)
  BY Zenon, StoreAt, OwnerAt
<1>2. (IInv => StoreFact)' /\ (IInv => OwnerFact)'
  BY StoreAt, OwnerAt, PTL
<1>q. QED BY Zenon, <1>1, <1>2

\* Buffers that are dropped or filled with what the disk has, and writes of blocks that
\* are in a valid buffer, do not change the store.
LEMMA StoreSame ==
  ASSUME IInv, IInv',
         \A i \in Buf : valid'[i] =>
            /\ blockno'[i] = blockno[i]
            /\ IF valid[i] THEN data'[i] = data[i] ELSE data'[i] = disk[blockno[i]],
         \A i \in Buf : valid[i] /\ ~valid'[i] => data[i] = disk[blockno[i]],
         \A n \in Block : disk'[n] = disk[n] \/ \E i \in Buf : valid'[i] /\ blockno'[i] = n
  PROVE  StoreMap' = StoreMap
<1> SUFFICES ASSUME NEW n \in Block
             PROVE  StoreMap'[n] = StoreMap[n]
  <2>1. StoreMap = [n \in Block |-> StoreMap[n]] /\ StoreMap' = [n \in Block |-> StoreMap'[n]]
    BY DEF StoreMap
  <2>q. QED BY <2>1, Zenon
<1>1. CASE \E i \in Buf : valid'[i] /\ blockno'[i] = n
  <2>1. PICK i \in Buf : valid'[i] /\ blockno'[i] = n
    BY Zenon, <1>1
  <2>2. StoreMap'[n] = data'[i] /\ blockno[i] = n
    BY Zenon, <2>1, Facts DEF StoreFact
  <2>3. CASE valid[i]
    BY <2>1, <2>2, <2>3, Facts DEF StoreFact
  <2>4. CASE ~valid[i]
    <3>1. \A j \in Buf : blockno[j] = n => j = i
      BY Zenon, <2>2, BcacheAssumption DEF IInv, OneBuffer
    <3>q. QED BY <2>1, <2>2, <2>4, <3>1, Facts DEF StoreFact
  <2>q. QED BY Zenon, <2>3, <2>4
<1>2. CASE ~\E i \in Buf : valid'[i] /\ blockno'[i] = n
  <2>1. StoreMap'[n] = disk[n]
    BY Zenon, <1>2, Facts DEF StoreFact
  <2>2. CASE \E i \in Buf : valid[i] /\ blockno[i] = n
    BY <1>2, <2>1, <2>2, Facts DEF StoreFact
  <2>3. CASE ~\E i \in Buf : valid[i] /\ blockno[i] = n
    BY Zenon, <2>1, <2>3, Facts DEF StoreFact
  <2>q. QED BY Zenon, <2>2, <2>3
<1>q. QED BY Zenon, <1>1, <1>2

\* When the same users keep the same blocks, owners do not change.
LEMMA OwnerSame ==
  ASSUME IInv, IInv',
         \A q \in User : (Keeps(q)' <=> Keeps(q)) /\ (Keeps(q) => blockno'[b'[q]] = blockno[b[q]])
  PROVE  OwnerMap' = OwnerMap
<1> SUFFICES ASSUME NEW n \in Block
             PROVE  OwnerMap'[n] = OwnerMap[n]
  <2>1. OwnerMap = [n \in Block |-> OwnerMap[n]] /\ OwnerMap' = [n \in Block |-> OwnerMap'[n]]
    BY Zenon DEF OwnerMap
  <2>q. QED BY <2>1, Zenon
<1>1. CASE \E q \in User : Keeps(q) /\ blockno[b[q]] = n
  BY <1>1, Facts DEF OwnerFact
<1>2. CASE ~\E q \in User : Keeps(q) /\ blockno[b[q]] = n
  BY Zenon, <1>2, Facts DEF OwnerFact
<1>q. QED BY Zenon, <1>1, <1>2

\* A user that begins, or ends, to keep a block becomes its owner, or leaves it to none.
LEMMA OwnerChange ==
  ASSUME IInv, IInv', NEW p \in User, NEW n, UNCHANGED <<blockno, b>>, n = blockno[b[p]],
         \A q \in User \ {p} : Keeps(q)' <=> Keeps(q)
  PROVE  /\ ~Keeps(p) /\ Keeps(p)' =>
              n \in Block /\ OwnerMap[n] = None /\ OwnerMap' = [OwnerMap EXCEPT ![n] = p]
         /\ Keeps(p) /\ ~Keeps(p)' =>
              n \in Block /\ OwnerMap[n] = p /\ OwnerMap' = [OwnerMap EXCEPT ![n] = None]
<1>1. OwnerMap = [m \in Block |-> OwnerMap[m]] /\ OwnerMap' = [m \in Block |-> OwnerMap'[m]]
  BY DEF OwnerMap
<1>2. \A m \in Block \ {n} : OwnerMap'[m] = OwnerMap[m]
  <2> SUFFICES ASSUME NEW m \in Block \ {n}
               PROVE  OwnerMap'[m] = OwnerMap[m]
    OBVIOUS
  <2>1. CASE \E q \in User : Keeps(q) /\ blockno[b[q]] = m
    BY <2>1, Facts DEF OwnerFact
  <2>2. CASE ~\E q \in User : Keeps(q) /\ blockno[b[q]] = m
    BY Zenon, <2>2, Facts DEF OwnerFact
  <2>q. QED BY Zenon, <2>1, <2>2
<1>3. ASSUME ~Keeps(p), Keeps(p)'
      PROVE  n \in Block /\ OwnerMap[n] = None /\ OwnerMap' = [OwnerMap EXCEPT ![n] = p]
  <2>1. n \in Block /\ OwnerMap'[n] = p
    BY Zenon, <1>3, Facts DEF OwnerFact
  <2>2. \A q \in User : ~(Keeps(q) /\ blockno[b[q]] = n)
    BY <1>3, <2>1, Facts DEF OwnerFact
  <2>3. OwnerMap[n] = None
    BY Zenon, <2>1, <2>2, Facts DEF OwnerFact
  <2>q. QED BY Zenon, <1>1, <1>2, <2>1, <2>3
<1>4. ASSUME Keeps(p), ~Keeps(p)'
      PROVE  n \in Block /\ OwnerMap[n] = p /\ OwnerMap' = [OwnerMap EXCEPT ![n] = None]
  <2>1. n \in Block /\ OwnerMap[n] = p
    BY Zenon, <1>4, Facts DEF OwnerFact
  <2>2. \A q \in User : ~(Keeps(q)' /\ blockno[b[q]] = n)
    BY <1>4, <2>1, Facts DEF OwnerFact
  <2>3. OwnerMap'[n] = None
    BY Zenon, <2>1, <2>2, Facts DEF OwnerFact
  <2>q. QED BY Zenon, <1>1, <1>2, <2>1, <2>3
<1>q. QED BY Zenon, <1>3, <1>4

\* BlockStore's steps in terms of the two maps.
LEMMA StoreActions ==
  ASSUME NEW p \in User, NEW n \in Block
  PROVE  /\ OwnerMap[n] = None /\ OwnerMap' = [OwnerMap EXCEPT ![n] = p] /\ StoreMap' = StoreMap
              => Store!Next
         /\ OwnerMap[n] = p /\ OwnerMap' = [OwnerMap EXCEPT ![n] = None] /\ StoreMap' = StoreMap
              => Store!Next
         /\ OwnerMap[n] = p /\ OwnerMap' = OwnerMap /\ (\E v \in Val : StoreMap' = [StoreMap EXCEPT ![n] = v])
              => Store!Next
<1>1. ASSUME OwnerMap[n] = None, OwnerMap' = [OwnerMap EXCEPT ![n] = p], StoreMap' = StoreMap
      PROVE  Store!Get(p, n)
  BY <1>1, Zenon DEF Store!Get, OwnerMap, StoreMap
<1>2. ASSUME OwnerMap[n] = p, OwnerMap' = [OwnerMap EXCEPT ![n] = None], StoreMap' = StoreMap
      PROVE  Store!Put(p, n)
  BY <1>2, Zenon DEF Store!Put, OwnerMap, StoreMap
<1>3. ASSUME OwnerMap[n] = p, OwnerMap' = OwnerMap, \E v \in Val : StoreMap' = [StoreMap EXCEPT ![n] = v]
      PROVE  Store!Change(p, n)
  BY <1>3, Zenon DEF Store!Change, OwnerMap, StoreMap
<1>q. QED BY Zenon, <1>1, <1>2, <1>3 DEF Store!Next

\* The store stutters when neither contents nor owners change.
LEMMA StoreUnchanged == StoreMap' = StoreMap /\ OwnerMap' = OwnerMap => UNCHANGED Store!vars
BY Zenon DEF Store!vars, OwnerMap, StoreMap

\* Every step of the cache is a step of the store or none.
LEMMA StoreStep ==
  ASSUME IInv, IInv', [Next]_vars
  PROVE  [Store!Next]_(Store!vars)
<1>1. CASE UNCHANGED vars
  <2>1. StoreMap' = StoreMap /\ OwnerMap' = OwnerMap
    BY <1>1 DEF vars, meta, StoreMap, OwnerMap, Valid, Owner, Cached
  <2>q. QED BY Zenon, <2>1, StoreUnchanged
<1>2. ASSUME NEW p \in User, Step(p)
      PROVE  Store!Next \/ UNCHANGED Store!vars
  <2> DEFINE n == blockno[b[p]]
  <2>1. CASE bgethit(p)
    <3>1. StoreMap' = StoreMap
      BY Zenon, <2>1, StoreSame DEF bgethit
    <3>2. OwnerMap' = OwnerMap
      BY <2>1, OwnerSame DEF bgethit, Keeps, IInv, TypeOK
    <3>q. QED BY Zenon, <3>1, <3>2, StoreUnchanged
  <2>2. CASE bgetmiss(p)
    <3>1. PICK i : i = LeastRecent
      OBVIOUS
    <3>2. i \in Buf /\ Users(i) = {} /\ i \notin pinned
      BY Zenon, <2>2, <3>1, LeastRecentUnused, UnusedFree DEF Unused, bgetmiss
    <3>3. /\ \A j \in Buf \ {i} : blockno'[j] = blockno[j] /\ valid'[j] = valid[j]
          /\ ~valid'[i] /\ UNCHANGED <<data, disk>>
      BY <2>2, <3>1, <3>2 DEF bgetmiss, IInv, TypeOK
    <3>4. valid[i] => data[i] = disk[blockno[i]]
      BY Zenon, <3>2 DEF IInv, Clean
    <3>5. StoreMap' = StoreMap
      BY Zenon, <3>2, <3>3, <3>4, StoreSame
    <3>6. pc[p] = "out" /\ pc'[p] = "lock" /\ \A q \in User \ {p} : pc'[q] = pc[q] /\ b'[q] = b[q]
      BY <2>2 DEF bgetmiss, IInv, TypeOK
    <3>7. \A q \in User : Keeps(q) => b[q] \in Buf \ {i}
      BY Zenon, <3>2 DEF Keeps, Users, InUse, IInv, TypeOK
    <3>8. OwnerMap' = OwnerMap
      BY <3>3, <3>6, <3>7, OwnerSame DEF Keeps
    <3>q. QED BY Zenon, <3>5, <3>8, StoreUnchanged
  <2>3. CASE acquiresleep(p)
    <3>1. StoreMap' = StoreMap
      BY Zenon, <2>3, StoreSame DEF acquiresleep, meta
    <3>2. /\ UNCHANGED <<blockno, b>> /\ ~Keeps(p)
          /\ \A q \in User \ {p} : Keeps(q)' <=> Keeps(q)
      BY Zenon, <2>3 DEF acquiresleep, meta, Keeps, IInv, TypeOK
    <3>3. CASE Keeps(p)'
      <4>1. n \in Block /\ OwnerMap[n] = None /\ OwnerMap' = [OwnerMap EXCEPT ![n] = p]
        BY Zenon, <3>2, <3>3, OwnerChange
      <4>q. QED BY Zenon, <3>1, <4>1, StoreActions
    <3>4. CASE ~Keeps(p)'
      <4>1. OwnerMap' = OwnerMap
        BY Zenon, <3>2, <3>4, OwnerSame
      <4>q. QED BY Zenon, <3>1, <4>1, StoreUnchanged
    <3>q. QED BY Zenon, <3>3, <3>4
  <2>4. CASE read(p)
    <3>1. /\ UNCHANGED <<blockno, b, disk>> /\ ~Keeps(p) /\ Keeps(p)' /\ b[p] \in Buf
          /\ \A q \in User \ {p} : Keeps(q)' <=> Keeps(q)
      BY <2>4 DEF read, meta, Keeps, IInv, TypeOK
    <3>2. /\ valid'[b[p]] /\ data'[b[p]] = disk[blockno[b[p]]]
          /\ \A j \in Buf \ {b[p]} : valid'[j] = valid[j] /\ data'[j] = data[j]
      BY Zenon, <2>4, <3>1 DEF read, IInv, TypeOK
    <3>3. ~valid[b[p]]
      BY Zenon, <2>4 DEF read, IInv, Granted
    <3>4. StoreMap' = StoreMap
      BY Zenon, <3>1, <3>2, <3>3, StoreSame
    <3>5. n \in Block /\ OwnerMap[n] = None /\ OwnerMap' = [OwnerMap EXCEPT ![n] = p]
      BY Zenon, <3>1, OwnerChange
    <3>q. QED BY Zenon, <3>4, <3>5, StoreActions
  <2>5. CASE change(p)
    <3>1. /\ UNCHANGED <<blockno, b, disk, valid>> /\ Keeps(p) /\ Keeps(p)' /\ b[p] \in Buf
          /\ \A q \in User \ {p} : Keeps(q)' <=> Keeps(q)
      BY Zenon, <2>5 DEF change, meta, Keeps, IInv, TypeOK
    <3>2. OwnerMap' = OwnerMap
      BY Zenon, <3>1, OwnerSame
    <3>3. n \in Block /\ OwnerMap[n] = p
      BY Zenon, <3>1, Facts DEF OwnerFact
    <3>4. PICK v \in Val : data' = [data EXCEPT ![b[p]] = v]
      BY Zenon, <2>5 DEF change
    <3>5. valid[b[p]] /\ data'[b[p]] = v /\ \A j \in Buf \ {b[p]} : data'[j] = data[j] /\ blockno[j] # n
      <4>1. valid[b[p]]
        BY Zenon, <3>1 DEF IInv, Granted, Keeps
      <4>2. data \in [Buf -> Val]
        BY Zenon DEF IInv, TypeOK
      <4>3. data'[b[p]] = v /\ \A j \in Buf \ {b[p]} : data'[j] = data[j]
        BY Zenon, <3>1, <3>4, <4>2
      <4>4. n # None
        BY Zenon, <3>3, BcacheAssumption
      <4>5. \A j \in Buf \ {b[p]} : blockno[j] # n
        BY Zenon, <3>1, <4>4 DEF IInv, OneBuffer
      <4>q. QED BY Zenon, <4>1, <4>3, <4>5
    <3>6. StoreMap'[n] = v
      BY Zenon, <3>1, <3>5, Facts DEF StoreFact
    <3>7. \A m \in Block \ {n} : StoreMap'[m] = StoreMap[m]
      <4> SUFFICES ASSUME NEW m \in Block \ {n}
                   PROVE  StoreMap'[m] = StoreMap[m]
        BY Zenon
      <4>1. CASE \E j \in Buf : valid[j] /\ blockno[j] = m
        <5>1. PICK j \in Buf \ {b[p]} : valid[j] /\ blockno[j] = m
          BY Zenon, <3>1, <4>1
        <5>2. StoreMap[m] = data[j] /\ StoreMap'[m] = data'[j]
          BY Zenon, <3>1, <5>1, Facts DEF StoreFact
        <5>q. QED BY Zenon, <3>5, <5>1, <5>2
      <4>2. CASE ~\E j \in Buf : valid[j] /\ blockno[j] = m
        BY Zenon, <3>1, <4>2, Facts DEF StoreFact
      <4>q. QED BY Zenon, <4>1, <4>2
    <3>8. StoreMap = [m \in Block |-> StoreMap[m]] /\ StoreMap' = [m \in Block |-> StoreMap'[m]]
      BY DEF StoreMap
    <3>9. StoreMap' = [StoreMap EXCEPT ![n] = v]
      BY Zenon, <3>3, <3>6, <3>7, <3>8
    <3>q. QED BY Zenon, <3>2, <3>3, <3>9, StoreActions
  <2>6. CASE bpin(p)
    <3>1. StoreMap' = StoreMap
      BY Zenon, <2>6, StoreSame DEF bpin
    <3>2. OwnerMap' = OwnerMap
      BY Zenon, <2>6, OwnerSame DEF bpin, Keeps, IInv, TypeOK
    <3>q. QED BY Zenon, <3>1, <3>2, StoreUnchanged
  <2>7. CASE bwrite(p)
    <3>1. UNCHANGED <<blockno, b, data, valid>> /\ b[p] \in Buf /\ valid[b[p]]
      BY Zenon, <2>7 DEF bwrite, IInv, Granted, TypeOK
    <3>2. \A m \in Block : disk'[m] = disk[m] \/ m = n
      BY Zenon, <2>7 DEF bwrite, IInv, TypeOK
    <3>3. StoreMap' = StoreMap
      BY Zenon, <3>1, <3>2, StoreSame
    <3>4. OwnerMap' = OwnerMap
      BY Zenon, <2>7, OwnerSame DEF bwrite, Keeps, IInv, TypeOK
    <3>q. QED BY Zenon, <3>3, <3>4, StoreUnchanged
  <2>8. CASE releasesleep(p)
    <3>1. StoreMap' = StoreMap
      BY Zenon, <2>8, StoreSame DEF releasesleep, meta
    <3>2. /\ UNCHANGED <<blockno, b>> /\ Keeps(p) /\ ~Keeps(p)'
          /\ \A q \in User \ {p} : Keeps(q)' <=> Keeps(q)
      BY Zenon, <2>8 DEF releasesleep, Woken, meta, Keeps, IInv, TypeOK
    <3>3. n \in Block /\ OwnerMap[n] = p /\ OwnerMap' = [OwnerMap EXCEPT ![n] = None]
      BY Zenon, <3>2, OwnerChange
    <3>q. QED BY Zenon, <3>1, <3>3, StoreActions
  <2>9. CASE brelse(p)
    <3>1. StoreMap' = StoreMap
      BY Zenon, <2>9, StoreSame DEF brelse
    <3>2. OwnerMap' = OwnerMap
      BY Zenon, <2>9, OwnerSame DEF brelse, Keeps, IInv, TypeOK
    <3>q. QED BY Zenon, <3>1, <3>2, StoreUnchanged
  <2>q. QED
    BY Zenon, <1>2, <2>1, <2>2, <2>3, <2>4, <2>5, <2>6, <2>7, <2>8, <2>9 DEF Step
<1>q. QED BY Zenon, <1>1, <1>2 DEF Next

\* Buffer cache and disk together implement BlockStore: whatever is recycled, read back,
\* pinned or waited for, each block has one content, which only the user between its
\* bread() and its brelse() sees and changes.
THEOREM StoreHolds == Spec => StoreSpec
<1>1. Init => Store!Init
  <2> SUFFICES ASSUME Init
               PROVE  Store!Init
    OBVIOUS
  <2>1. \A n \in Block : Valid(n) = {} /\ Owner(n) = {}
    BY Zenon DEF Init, Valid, Owner, Cached
  <2>2. disk \in [Block -> Val]
    BY Zenon DEF Init
  <2>q. QED BY Zenon, <2>1, <2>2 DEF Store!Init
<1>2. IInv /\ IInv' /\ [Next]_vars => [Store!Next]_(Store!vars)
  BY Zenon, StoreStep
<1>q. QED BY <1>1, <1>2, Invariance, PTL DEF Spec, StoreSpec, Store!Spec
=============================================================================
