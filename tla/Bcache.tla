------------------------------- MODULE Bcache -------------------------------
(***************************************************************************)
(* The buffer cache of kernel/bio.c with the sleep locks of                *)
(* kernel/sleeplock.c.  A step is a section under bcache.lock, one under   *)
(* the lock of a sleep lock, or a transfer by the disk.  A user is one use *)
(* of a buffer, from bread() to brelse(), as the file system makes it: it  *)
(* reads the buffer, may change it, and then writes it or logs it, which   *)
(* pins it, before it releases it.  A process that asks for a second       *)
(* buffer while it has one is two users: bmap() and balloc(), itrunc() and *)
(* bfree(), write_log() and install_trans() do.                            *)
(***************************************************************************)
EXTENDS Integers, FiniteSets

CONSTANTS
  User, Block, Val,
  None,
  NBUF,
  MaxPin           \* bound on the pinned buffers, what the log can hold

Buf == 1..NBUF

ASSUME BcacheAssumption ==
  /\ NBUF \in Nat \ {0} /\ MaxPin \in Nat
  /\ Val # {}
  /\ None \notin User \cup Block
  /\ IsFiniteSet(User)

VARIABLES
  blockno, refcnt, valid, data,  \* fields of each buffer
  lock,            \* holder of b->lock, or None
  lru,             \* the list from bcache.head.next to bcache.head.prev
  disk,
  pinned,          \* buffers pinned by the log and not yet unpinned
  pc, b,           \* where a user is, and its buffer
  want             \* the block it asked for

meta == <<blockno, refcnt, lru>>
vars == <<meta, valid, data, lock, disk, pinned, pc, b, want>>

\* binit(): no buffer has a block of a device.
Init ==
  /\ blockno = [i \in Buf |-> None]
  /\ refcnt = [i \in Buf |-> 0]
  /\ valid = [i \in Buf |-> FALSE]
  /\ data \in [Buf -> {CHOOSE v \in Val : TRUE}]
  /\ lock = [i \in Buf |-> None]
  /\ lru = [k \in Buf |-> NBUF + 1 - k]
  /\ disk \in [Block -> Val]
  /\ pinned = {}
  /\ pc = [p \in User |-> "out"]
  /\ b = [p \in User |-> 1]
  /\ want = [p \in User |-> None]

\* Mutant: bget() looks among the buffers in use only.
CachedInUse(n) == {i \in Buf : blockno[i] = n /\ refcnt[i] > 0}

\* The buffers bget() finds for block n.
Cached(n) == {i \in Buf : blockno[i] = n}

\* Mutants: a buffer counts as unused when it is not locked, or not in use.
UnusedUnlocked == {i \in Buf : lock[i] = None /\ i \notin pinned}
UnusedPinned == {i \in Buf : \A p \in User : pc[p] = "out" \/ b[p] # i}

\* The buffers that bget() may recycle.
Unused == {i \in Buf : refcnt[i] = 0}

\* Those of them that are in the list, where bget() looks.
Listed == {k \in Buf : lru[k] \in Unused}

\* The unused buffer nearest to bcache.head.prev.
LeastRecent == lru[CHOOSE k \in Listed : \A j \in Listed : j <= k]

\* bget(): the cached buffer of the block.
bgethit(p) ==
  /\ pc[p] = "out"
  /\ \E n \in Block, i \in Buf :
       /\ i \in Cached(n)
       /\ refcnt' = [refcnt EXCEPT ![i] = @ + 1]
       /\ b' = [b EXCEPT ![p] = i]
       /\ want' = [want EXCEPT ![p] = n]
  /\ pc' = [pc EXCEPT ![p] = "lock"]
  /\ UNCHANGED <<blockno, lru, valid, data, lock, disk, pinned>>

\* bget(): recycle the least recently used buffer with refcnt 0.
bgetmiss(p) ==
  /\ pc[p] = "out"
  /\ \E n \in Block :
       /\ Cached(n) = {} /\ Listed # {}
       /\ blockno' = [blockno EXCEPT ![LeastRecent] = n]
       /\ valid' = [valid EXCEPT ![LeastRecent] = FALSE]
       /\ refcnt' = [refcnt EXCEPT ![LeastRecent] = 1]
       /\ b' = [b EXCEPT ![p] = LeastRecent]
       /\ want' = [want EXCEPT ![p] = n]
  /\ pc' = [pc EXCEPT ![p] = "lock"]
  /\ UNCHANGED <<lru, data, lock, disk, pinned>>

\* panic("bget: no buffers")
NoBuffers == Listed = {} /\ \E n \in Block : Cached(n) = {}

\* acquiresleep(&b->lock): take the lock or sleep on it.
acquiresleep(p) ==
  /\ pc[p] = "lock"
  /\ IF lock[b[p]] = None
     THEN /\ lock' = [lock EXCEPT ![b[p]] = p]
          /\ pc' = [pc EXCEPT ![p] = IF valid[b[p]] THEN "hold" ELSE "read"]
     ELSE pc' = [pc EXCEPT ![p] = "asleep"] /\ UNCHANGED lock
  /\ UNCHANGED <<meta, valid, data, disk, pinned, b, want>>

\* bread(): virtio_disk_rw(b, 0), then valid.
read(p) ==
  /\ pc[p] = "read"
  /\ data' = [data EXCEPT ![b[p]] = disk[blockno[b[p]]]]
  /\ valid' = [valid EXCEPT ![b[p]] = TRUE]
  /\ pc' = [pc EXCEPT ![p] = "hold"]
  /\ UNCHANGED <<meta, lock, disk, pinned, b, want>>

\* The caller changes b->data.
change(p) ==
  /\ pc[p] = "hold"
  /\ \E v \in Val : data' = [data EXCEPT ![b[p]] = v]
  /\ pc' = [pc EXCEPT ![p] = "dirty"]
  /\ UNCHANGED <<meta, valid, lock, disk, pinned, b, want>>

\* Mutant: a block is pinned each time it is logged.
PinAlways(i) == 1

\* What log_write() adds to the references of a buffer.
Pin(i) == IF i \in pinned THEN 0 ELSE 1

\* log_write(): bpin() if the block is not in the log yet.
bpin(p) ==
  /\ pc[p] = "dirty"
  /\ b[p] \in pinned \/ Cardinality(pinned) < MaxPin
  /\ refcnt' = [refcnt EXCEPT ![b[p]] = @ + Pin(b[p])]
  /\ pinned' = pinned \cup {b[p]}
  /\ pc' = [pc EXCEPT ![p] = "hold"]
  /\ UNCHANGED <<blockno, lru, valid, data, lock, disk, b, want>>

\* Mutant: every write unpins.
UnpinAlways(i) == 1

\* What bwrite() and the bunpin() after it take from them.
Unpin(i) == IF i \in pinned THEN 1 ELSE 0

\* bwrite(), and the bunpin() of install_trans() when the log pinned it.
bwrite(p) ==
  /\ pc[p] \in {"hold", "dirty"}
  /\ disk' = [disk EXCEPT ![blockno[b[p]]] = data[b[p]]]
  /\ refcnt' = [refcnt EXCEPT ![b[p]] = @ - Unpin(b[p])]
  /\ pinned' = pinned \ {b[p]}
  /\ pc' = [pc EXCEPT ![p] = "hold"]
  /\ UNCHANGED <<blockno, lru, valid, data, lock, b, want>>

\* Mutant: nobody is woken.
WokenNone(q, i) == FALSE

\* wakeup() of the users that sleep on a buffer's lock.
Woken(q, i) == pc[q] = "asleep" /\ b[q] = i

\* brelse(): releasesleep(), which wakes whoever waits for the buffer.
releasesleep(p) ==
  /\ pc[p] = "hold"
  /\ lock' = [lock EXCEPT ![b[p]] = None]
  /\ pc' = [q \in User |-> IF q = p THEN "release"
                           ELSE IF Woken(q, b[p]) THEN "lock" ELSE pc[q]]
  /\ UNCHANGED <<meta, valid, data, disk, pinned, b, want>>

\* Mutant: the buffer is linked in at the front and not unlinked from its place.
LinkFirst(i) == [k \in Buf |-> IF k = 1 THEN i ELSE lru[k - 1]]

\* The list with buffer i unlinked from its place and linked in at the front.
MoveFirst(i) ==
  LET place == CHOOSE k \in Buf : lru[k] = i
  IN  [k \in Buf |-> IF k = 1 THEN i ELSE IF k <= place THEN lru[k - 1] ELSE lru[k]]

\* brelse(): drop the reference; an unused buffer moves to the list's front.
brelse(p) ==
  /\ pc[p] = "release"
  /\ refcnt' = [refcnt EXCEPT ![b[p]] = @ - 1]
  /\ lru' = IF refcnt[b[p]] = 1 THEN MoveFirst(b[p]) ELSE lru
  /\ pc' = [pc EXCEPT ![p] = "out"]
  /\ b' = [b EXCEPT ![p] = 1]
  /\ want' = [want EXCEPT ![p] = None]
  /\ UNCHANGED <<blockno, valid, data, lock, disk, pinned>>

Step(p) ==
  \/ bgethit(p) \/ bgetmiss(p) \/ acquiresleep(p) \/ read(p)
  \/ change(p) \/ bpin(p) \/ bwrite(p) \/ releasesleep(p) \/ brelse(p)

Next == \E p \in User : Step(p)

Spec == Init /\ [][Next]_vars

\* Callers do not keep a buffer; a lock that is free again and again is got.
FairSpec ==
  /\ Spec
  /\ \A p \in User : /\ WF_vars(read(p)) /\ WF_vars(bwrite(p)) /\ WF_vars(brelse(p))
                     /\ SF_vars(releasesleep(p)) /\ SF_vars(acquiresleep(p) /\ lock' # lock)

-----------------------------------------------------------------------------
InUse(p) == pc[p] # "out"
Holds(p) == pc[p] \in {"read", "hold", "dirty"}
Users(i) == {p \in User : InUse(p) /\ b[p] = i}

\* Every variable has its type: bcache.head's list links buffers only, and a
\* buffer's references never fall below zero.
TypeOK ==
  /\ blockno \in [Buf -> Block \cup {None}]
  /\ refcnt \in [Buf -> Nat]
  /\ valid \in [Buf -> BOOLEAN]
  /\ data \in [Buf -> Val]
  /\ lock \in [Buf -> User \cup {None}]
  /\ lru \in [Buf -> Buf]
  /\ disk \in [Block -> Val]
  /\ pinned \subseteq Buf
  /\ pc \in [User -> {"out", "lock", "asleep", "read", "hold", "dirty", "release"}]
  /\ b \in [User -> Buf]
  /\ want \in [User -> Block \cup {None}]

\* No block is in two buffers: bget() looks for it and recycles a buffer in
\* one section under bcache.lock, although it locks the buffer only later.
OneBuffer == \A i, j \in Buf : blockno[i] = blockno[j] /\ blockno[i] # None => i = j

\* The references of a buffer are its users and its pin, so brelse() and
\* bunpin() free it for recycling when and only when nobody needs it.
RefExact ==
  \A i \in Buf : refcnt[i] = Cardinality(Users(i)) + (IF i \in pinned THEN 1 ELSE 0)

\* A buffer in use, waited for or held, still is the one of the block that was
\* asked for, and one user at a time has its content.
RightBlock ==
  \A p \in User : InUse(p) => /\ blockno[b[p]] = want[p]
                              /\ Holds(p) <=> lock[b[p]] = p

\* A user asleep in acquiresleep() waits for a holder, whose
\* releasesleep() will wake it.
NoLostWakeup == \A p \in User : pc[p] = "asleep" => lock[b[p]] # None

\* bget() panics only when all of the NBUF buffers are needed: each is pinned by
\* the log or in use between bread() and brelse().  No reference is left behind
\* by pinning, installing or releasing, and no buffer drops out of the list.
BuffersSuffice == NoBuffers => Buf = pinned \cup {b[p] : p \in {q \in User : InUse(q)}}

\* bcache.head's list keeps every buffer, whatever brelse() moves, so that
\* bget() finds an unused one if there is one.
ListWhole == \A i \in Buf : \E k \in Buf : lru[k] = i

\* A lock has a holder that has its buffer.
LockHeld == \A i \in Buf : lock[i] # None => Holds(lock[i]) /\ b[lock[i]] = i

\* Whoever uses a buffer asked for a block, and sees the block's content, which is
\* read from the disk only once.
Granted ==
  \A p \in User : /\ InUse(p) => want[p] # None
                  /\ pc[p] \in {"hold", "dirty"} => valid[b[p]]
                  /\ pc[p] = "read" => ~valid[b[p]]

\* A valid buffer that is neither pinned nor being changed has what the disk
\* has, so that bget() may drop its content when it recycles the buffer.
Clean ==
  \A i \in Buf : valid[i] =>
    /\ blockno[i] # None
    /\ \/ data[i] = disk[blockno[i]]
       \/ i \in pinned
       \/ \E p \in Users(i) : pc[p] = "dirty"

PinBound == Cardinality(pinned) <= MaxPin

\* The inductive invariant.
IInv ==
  /\ TypeOK /\ OneBuffer /\ RefExact /\ RightBlock /\ NoLostWakeup
  /\ ListWhole /\ LockHeld /\ Granted /\ Clean /\ PinBound

\* What a user has while it holds a buffer, and the blocks' contents: in a
\* valid buffer, or else on the disk.
Owner(n) == {p \in User : pc[p] \in {"hold", "dirty"} /\ blockno[b[p]] = n}
Valid(n) == {i \in Cached(n) : valid[i]}
Store == INSTANCE BlockStore WITH
  store <- [n \in Block |-> IF Valid(n) = {} THEN disk[n] ELSE data[CHOOSE i \in Valid(n) : TRUE]],
  owner <- [n \in Block |-> IF Owner(n) = {} THEN None ELSE CHOOSE p \in Owner(n) : TRUE]

\* Cache and disk together are one store of blocks with exclusive access:
\* recycling, reading back, pinning and waiting are invisible.
StoreSpec == Store!Spec

\* Whoever asks for a buffer gets it, however many others use its block.
BufferGranted == \A p \in User : pc[p] = "lock" ~> pc[p] = "hold"
=============================================================================
