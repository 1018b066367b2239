--------------------------------- MODULE Log ---------------------------------
(***************************************************************************)
(* The redo log of kernel/log.c over the buffer cache and the disk.  A     *)
(* step is a log.lock section or one disk write, and the machine may crash *)
(* between any two of them, during recovery too.  A disk write of a block  *)
(* is atomic (virtio_disk_rw waits for its completion).                    *)
(***************************************************************************)
EXTENDS Integers, Sequences, FiniteSets

CONSTANTS
  Proc,         \* processes that make file system calls
  Block,        \* home blocks
  Value,        \* block contents
  Blank,        \* the contents mkfs leaves
  NoBuf,        \* a block that is not in the buffer cache
  MAXOPBLOCKS, LOGSIZE,
  size,         \* log.size: blocks of the on-disk log, its header included
  MaxCrash      \* bound on crashes

ASSUME LogAssumption ==
  /\ IsFiniteSet(Proc)
  /\ Blank \in Value /\ NoBuf \notin Value
  /\ MAXOPBLOCKS \in Nat \ {0} /\ LOGSIZE \in Nat /\ size \in Nat
  /\ MAXOPBLOCKS <= LOGSIZE
  /\ MaxCrash \in Nat

VARIABLES
  \* disk
  home,         \* home blocks
  logblock,     \* data blocks of the log
  head,         \* block numbers in the header block; its n is their number
  \* memory
  cache,        \* contents of a block in the buffer cache, or NoBuf
  pins,         \* bpin()s of a block's buffer
  lh,           \* log.lh: block numbers
  outstanding, committing,
  stage, tail,  \* where commit() or recover_from_log() is, and its loop index
  pc,           \* each process: "idle", "begin", "asleep", "op" or "commit"
  wrote,        \* blocks each process's current call has written
  panicked,     \* panic() was called
  crashes

disk == <<home, logblock, head>>
buffers == <<cache, pins>>
calls == <<pc, wrote>>
vars == <<disk, buffers, lh, outstanding, committing, stage, tail, calls,
          panicked, crashes>>

Slots == 1..size - 1

Init ==
  /\ home = [b \in Block |-> Blank]
  /\ logblock = [k \in Slots |-> Blank]
  /\ head = <<>>
  /\ cache = [b \in Block |-> NoBuf]
  /\ pins = [b \in Block |-> 0]
  /\ lh = <<>>
  /\ outstanding = 0
  /\ committing = FALSE
  /\ stage = "read_head"
  /\ tail = 1
  /\ pc = [p \in Proc |-> "idle"]
  /\ wrote = [p \in Proc |-> {}]
  /\ panicked = FALSE
  /\ crashes = 0

\* The stages of recover_from_log().
Recovering == {"read_head", "recover", "clear"}

\* The kernel is up: recovery is over and it has not panicked.
Up == ~panicked /\ stage \notin Recovering

\* bread(): the buffer's contents, from the disk when it is not cached.
bread(b) == IF cache[b] = NoBuf THEN home[b] ELSE cache[b]

\* wakeup(&log)
wakeup(f) == [p \in Proc |-> IF f[p] = "asleep" THEN "begin" ELSE f[p]]

-----------------------------------------------------------------------------
(* System calls                                                            *)

\* A process enters a file system call and calls begin_op().
syscall(p) ==
  /\ Up
  /\ pc[p] = "idle"
  /\ pc' = [pc EXCEPT ![p] = "begin"]
  /\ UNCHANGED <<disk, buffers, lh, outstanding, committing, stage, tail, wrote,
                 panicked, crashes>>

\* Mutant: the space that running calls may still need is not counted.
begin_opUnreserved(p) ==
  /\ Up
  /\ pc[p] = "begin"
  /\ ~committing
  /\ Len(lh) + MAXOPBLOCKS <= LOGSIZE
  /\ pc' = [pc EXCEPT ![p] = "op"]
  /\ outstanding' = outstanding + 1
  /\ UNCHANGED <<disk, buffers, lh, committing, stage, tail, wrote, panicked, crashes>>

\* begin_op(): one round of its loop.
begin_op(p) ==
  /\ Up
  /\ pc[p] = "begin"
  /\ IF committing \/ Len(lh) + (outstanding + 1) * MAXOPBLOCKS > LOGSIZE
     THEN /\ pc' = [pc EXCEPT ![p] = "asleep"]
          /\ UNCHANGED outstanding
     ELSE /\ pc' = [pc EXCEPT ![p] = "op"]
          /\ outstanding' = outstanding + 1
  /\ UNCHANGED <<disk, buffers, lh, committing, stage, tail, wrote, panicked, crashes>>

\* bread(), a change of the data, log_write() and brelse(); a call writes at
\* most MAXOPBLOCKS blocks.
log_write(p, b, v) ==
  /\ Up
  /\ pc[p] = "op"
  /\ b \in wrote[p] \/ Cardinality(wrote[p]) < MAXOPBLOCKS
  /\ wrote' = [wrote EXCEPT ![p] = @ \cup {b}]
  /\ cache' = [cache EXCEPT ![b] = v]
  /\ IF Len(lh) >= LOGSIZE \/ Len(lh) >= size - 1 \/ outstanding < 1
     THEN panicked' = TRUE /\ UNCHANGED <<lh, pins>>
     ELSE /\ IF \E k \in 1..Len(lh) : lh[k] = b
             THEN UNCHANGED <<lh, pins>>
             ELSE lh' = Append(lh, b) /\ pins' = [pins EXCEPT ![b] = @ + 1]
          /\ UNCHANGED panicked
  /\ UNCHANGED <<disk, outstanding, committing, stage, tail, pc, crashes>>

\* Mutant: end_op() wakes nobody while other calls go on.
end_opNoWakeup(p) ==
  /\ Up
  /\ pc[p] = "op"
  /\ ~committing
  /\ outstanding' = outstanding - 1
  /\ IF outstanding = 1
     THEN /\ committing' = TRUE
          /\ stage' = IF lh = <<>> THEN "finish" ELSE "write_log"
          /\ tail' = 1
          /\ pc' = [pc EXCEPT ![p] = "commit"]
     ELSE /\ pc' = [pc EXCEPT ![p] = "idle"]
          /\ UNCHANGED <<committing, stage, tail>>
  /\ wrote' = [wrote EXCEPT ![p] = {}]
  /\ UNCHANGED <<disk, buffers, lh, panicked, crashes>>

\* end_op() up to its call of commit(), which has work if the log has blocks.
end_op(p) ==
  /\ Up
  /\ pc[p] = "op"
  /\ outstanding' = outstanding - 1
  /\ wrote' = [wrote EXCEPT ![p] = {}]
  /\ IF committing
     THEN panicked' = TRUE /\ UNCHANGED <<committing, stage, tail, pc>>
     ELSE /\ UNCHANGED panicked
          /\ IF outstanding = 1
             THEN /\ committing' = TRUE
                  /\ stage' = IF lh = <<>> THEN "finish" ELSE "write_log"
                  /\ tail' = 1
                  /\ pc' = [pc EXCEPT ![p] = "commit"]
             ELSE /\ pc' = wakeup([pc EXCEPT ![p] = "idle"])
                  /\ UNCHANGED <<committing, stage, tail>>
  /\ UNCHANGED <<disk, buffers, lh, crashes>>

-----------------------------------------------------------------------------
(* commit()                                                                *)

\* One iteration of write_log(): a cached block is written to the log.
write_log ==
  /\ Up
  /\ stage = "write_log"
  /\ logblock' = [logblock EXCEPT ![tail] = bread(lh[tail])]
  /\ cache' = [cache EXCEPT ![lh[tail]] = bread(lh[tail])]
  /\ IF tail = Len(lh) THEN stage' = "write_head" /\ tail' = 1
                       ELSE tail' = tail + 1 /\ UNCHANGED stage
  /\ UNCHANGED <<home, head, pins, lh, outstanding, committing, calls, panicked, crashes>>

\* Mutant: commit() does not install the transaction.
write_headNoInstall ==
  /\ Up
  /\ stage = "write_head"
  /\ head' = lh
  /\ stage' = "erase"
  /\ UNCHANGED <<home, logblock, buffers, lh, outstanding, committing, tail, calls,
                 panicked, crashes>>

\* write_head(): "the true point at which the current transaction commits".
write_head ==
  /\ Up
  /\ stage = "write_head"
  /\ head' = lh
  /\ stage' = "install"
  /\ UNCHANGED <<home, logblock, buffers, lh, outstanding, committing, tail, calls,
                 panicked, crashes>>

\* Mutant: install_trans() never drops the pins.
install_transPinned ==
  /\ ~panicked
  /\ stage \in {"recover", "install"}
  /\ home' = [home EXCEPT ![lh[tail]] = logblock[tail]]
  /\ cache' = [cache EXCEPT ![lh[tail]] = logblock[tail]]
  /\ IF tail = Len(lh)
     THEN tail' = 1 /\ stage' = IF stage = "recover" THEN "clear" ELSE "erase"
     ELSE tail' = tail + 1 /\ UNCHANGED stage
  /\ UNCHANGED <<logblock, head, pins, lh, outstanding, committing, calls, panicked, crashes>>

\* One iteration of install_trans(): a log block is copied to its home.  The
\* log block's buffer holds what is on disk.
install_trans ==
  /\ ~panicked
  /\ stage \in {"recover", "install"}
  /\ home' = [home EXCEPT ![lh[tail]] = logblock[tail]]
  /\ cache' = [cache EXCEPT ![lh[tail]] = logblock[tail]]
  /\ pins' = [pins EXCEPT ![lh[tail]] = IF stage = "install" THEN @ - 1 ELSE @]
  /\ IF tail = Len(lh)
     THEN tail' = 1 /\ stage' = IF stage = "recover" THEN "clear" ELSE "erase"
     ELSE tail' = tail + 1 /\ UNCHANGED stage
  /\ UNCHANGED <<logblock, head, lh, outstanding, committing, calls, panicked, crashes>>

\* lh.n = 0 and write_head(): the transaction is erased from the log.
erase ==
  /\ Up
  /\ stage = "erase"
  /\ lh' = <<>>
  /\ head' = <<>>
  /\ stage' = "finish"
  /\ UNCHANGED <<home, logblock, buffers, outstanding, committing, tail, calls,
                 panicked, crashes>>

\* The end of end_op() after commit().
finish(p) ==
  /\ Up
  /\ stage = "finish"
  /\ pc[p] = "commit"
  /\ committing' = FALSE
  /\ stage' = "none"
  /\ pc' = wakeup([pc EXCEPT ![p] = "idle"])
  /\ UNCHANGED <<disk, buffers, lh, outstanding, tail, wrote, panicked, crashes>>

-----------------------------------------------------------------------------
(* The buffer cache, crashes and recovery                                  *)

\* A call that reads, inside a transaction or not, brings a block in.
read(b) ==
  /\ Up
  /\ cache[b] = NoBuf
  /\ cache' = [cache EXCEPT ![b] = home[b]]
  /\ UNCHANGED <<disk, pins, lh, outstanding, committing, stage, tail, calls,
                 panicked, crashes>>

\* bget() recycles a buffer nobody refers to.
recycle(b) ==
  /\ Up
  /\ cache[b] # NoBuf
  /\ pins[b] = 0
  /\ cache' = [cache EXCEPT ![b] = NoBuf]
  /\ UNCHANGED <<disk, pins, lh, outstanding, committing, stage, tail, calls,
                 panicked, crashes>>

\* The machine stops and boots again; what is on disk stays.
crash ==
  /\ crashes < MaxCrash
  /\ crashes' = crashes + 1
  /\ cache' = [b \in Block |-> NoBuf]
  /\ pins' = [b \in Block |-> 0]
  /\ lh' = <<>>
  /\ outstanding' = 0
  /\ committing' = FALSE
  /\ stage' = "read_head"
  /\ tail' = 1
  /\ pc' = [p \in Proc |-> "idle"]
  /\ wrote' = [p \in Proc |-> {}]
  /\ panicked' = FALSE
  /\ UNCHANGED disk

\* recover_from_log(): read_head().
read_head ==
  /\ stage = "read_head"
  /\ lh' = head
  /\ stage' = IF head = <<>> THEN "clear" ELSE "recover"
  /\ UNCHANGED <<disk, buffers, outstanding, committing, tail, calls, panicked, crashes>>

\* Mutant: recovery clears the log in memory only.
recover_clearNoWrite ==
  /\ stage = "clear"
  /\ lh' = <<>>
  /\ stage' = "none"
  /\ UNCHANGED <<disk, buffers, outstanding, committing, tail, calls, panicked, crashes>>

\* recover_from_log(): lh.n = 0 and write_head().
recover_clear ==
  /\ stage = "clear"
  /\ lh' = <<>>
  /\ head' = <<>>
  /\ stage' = "none"
  /\ UNCHANGED <<home, logblock, buffers, outstanding, committing, tail, calls,
                 panicked, crashes>>

-----------------------------------------------------------------------------
Call(p) == begin_op(p) \/ end_op(p) \/ finish(p)

Commit == write_log \/ write_head \/ install_trans \/ erase

Recover == read_head \/ recover_clear

Next ==
  \/ \E p \in Proc : \/ syscall(p)
                     \/ Call(p)
                     \/ \E b \in Block, v \in Value : log_write(p, b, v)
  \/ Commit
  \/ Recover
  \/ \E b \in Block : read(b) \/ recycle(b)
  \/ crash

Spec == Init /\ [][Next]_vars

\* A call that is running ends, a commit goes on, and a process that was
\* woken runs; nothing makes processes start calls or makes the machine crash.
Fairness ==
  /\ WF_vars(Commit \/ Recover)
  /\ \A p \in Proc : WF_vars(begin_op(p)) /\ WF_vars(end_op(p) \/ finish(p))

FairSpec == Spec /\ Fairness

-----------------------------------------------------------------------------
(* Properties                                                              *)

\* Every variable has its type.
TypeOK ==
  /\ home \in [Block -> Value]
  /\ logblock \in [Slots -> Value]
  /\ head \in Seq(Block)
  /\ cache \in [Block -> Value \cup {NoBuf}]
  /\ pins \in [Block -> Nat]
  /\ lh \in Seq(Block)
  /\ outstanding \in 0..Cardinality(Proc)
  /\ committing \in BOOLEAN
  /\ stage \in {"read_head", "recover", "clear", "none", "write_log", "write_head",
                "install", "erase", "finish"}
  /\ tail \in Nat \ {0}
  /\ pc \in [Proc -> {"idle", "begin", "asleep", "op", "commit"}]
  /\ wrote \in [Proc -> SUBSET Block]
  /\ panicked \in BOOLEAN
  /\ crashes \in 0..MaxCrash

\* The processes between begin_op() and end_op().
Ops == {p \in Proc : pc[p] = "op"}

\* The places of b in the log l, and the last of some places.
At(l, b) == {k \in 1..Len(l) : l[k] = b}
Latest(ks) == CHOOSE k \in ks : \A j \in ks : j <= k

\* What a reboot would make of the disk: the log in the header, if any, over
\* the home blocks.
Durable ==
  [b \in Block |-> IF At(head, b) = {} THEN home[b] ELSE logblock[Latest(At(head, b))]]

\* What system calls see.
View == IF stage \in Recovering THEN Durable ELSE [b \in Block |-> bread(b)]

\* Crash atomicity: what a reboot finds only ever changes to what the calls
\* saw at a moment when none was half done, and recovery restores just that.
A == INSTANCE AtomicLog WITH fs <- View, dur <- Durable,
                             active <- Ops
AtomicSpec == A!Spec

\* When no call is running and no commit is in progress nothing is left to
\* lose: the last end_op() returns only once all its group wrote is durable.
QuiescentDurable ==
  stage = "none" /\ outstanding = 0 => View = Durable /\ View = home

\* The blocks that the calls inside their transactions may still write.
Reserved == {r \in Ops \X (1..MAXOPBLOCKS) : r[2] > Cardinality(wrote[r[1]])}

\* begin_op() reserves log space: the blocks logged and those that running
\* calls may still add fit in LOGSIZE, so absorption and admission together
\* never let the log overflow.
SpaceReserved ==
  Len(lh) + Cardinality(Reserved) <= LOGSIZE

\* The places of the log whose blocks are not yet installed.
Pending ==
  {k \in 1..Len(lh) : /\ stage \notin Recovering \cup {"erase"}
                      /\ stage = "install" => k >= tail}

\* A buffer is pinned once while its block is in the log and not installed,
\* and not at all otherwise: nothing keeps a pin after its transaction.
PinsExact ==
  \A b \in Block : pins[b] = Cardinality({k \in Pending : lh[k] = b})

\* A process asleep in begin_op() is woken.
SleeperWoken ==
  \A p \in Proc : pc[p] = "asleep" ~> pc[p] # "asleep"

\* param.h says that LOGSIZE is the "max data blocks in on-disk log" and
\* MAXOPBLOCKS the "max # of blocks any FS op writes", and begin_op() admits
\* calls by them: calls that keep to MAXOPBLOCKS never panic.  mkfs makes the
\* log LOGSIZE blocks with its header, one data block less.
NoPanic == ~panicked

-----------------------------------------------------------------------------
(* The inductive invariant                                                 *)

\* The stages of end_op()'s commit.
Committing == {"write_log", "write_head", "install", "erase", "finish"}

\* Who runs when: outstanding counts the calls, which run neither during a
\* commit nor during recovery, and only a call inside its transaction panics.
CallInv ==
  /\ outstanding = Cardinality(Ops)
  /\ committing <=> stage \in Committing
  /\ stage # "none" => Ops = {} /\ ~panicked
  /\ panicked => Ops # {}
  /\ stage \in Recovering => \A p \in Proc : pc[p] = "idle"

\* A block is at most once in a log (absorption), and the log on disk has
\* room for it.
OneEntry(l) ==
  /\ Len(l) <= LOGSIZE
  /\ \A k \in 1..Len(l) : k \in Slots
  /\ \A j, k \in 1..Len(l) : l[j] = l[k] => j = k

\* The header on disk and in memory, by stage.
LogInv ==
  /\ OneEntry(lh) /\ OneEntry(head)
  /\ stage \in {"none", "write_log", "write_head", "finish"} => head = <<>>
  /\ stage \in {"install", "erase", "recover", "clear"} => head = lh
  /\ stage \in {"read_head", "finish"} => lh = <<>>
  /\ stage \in {"write_log", "write_head", "install", "recover"} => lh # <<>>
  /\ stage = "none" /\ Ops = {} => lh = <<>>

\* The index of the loops of commit() and recovery.
TailInv ==
  /\ stage \in {"write_log", "install", "recover"} => tail \in 1..Len(lh)
  /\ stage \in {"read_head", "write_head"} => tail = 1

\* The places of the log that are on disk in the log, and at home.
Copied ==
  {k \in 1..Len(lh) : \/ stage = "write_log" /\ k < tail
                      \/ stage \in {"write_head", "install"}}
Installed ==
  {k \in 1..Len(lh) : \/ stage \in {"install", "recover"} /\ k < tail
                      \/ stage \in {"erase", "clear"}}

\* A block not pending is as at home if it is cached, a pending one is cached.
CacheInv ==
  /\ ~panicked => \A b \in Block : (\A k \in Pending : lh[k] # b) =>
                                     cache[b] \in {NoBuf, home[b]}
  /\ \A k \in Pending : cache[lh[k]] # NoBuf
  /\ \A k \in Copied \cap Pending : logblock[k] = cache[lh[k]]
  /\ \A k \in Installed : home[lh[k]] = logblock[k]

\* A call has logged what it has written.
WroteInv ==
  \A p \in Proc :
    /\ IsFiniteSet(wrote[p])
    /\ pc[p] # "op" => wrote[p] = {}
    /\ pc[p] = "op" /\ ~panicked => \A b \in wrote[p] : At(lh, b) # {}

IInv ==
  /\ TypeOK /\ CallInv /\ LogInv /\ TailInv /\ CacheInv /\ WroteInv
  /\ PinsExact /\ SpaceReserved
=============================================================================
