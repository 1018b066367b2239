------------------------------ MODULE Content -------------------------------
(***************************************************************************)
(* The contents of files (kernel/fs.c): the bitmap, direct and indirect    *)
(* blocks, readi(), writei() and itrunc(), and the loops of fileread() and *)
(* filewrite() over an offset that processes share.  A step is one         *)
(* iteration of a loop; ip->lock is held from ilock() to iunlock().  The   *)
(* disk may fill up, and a writer's memory may turn out unreadable.        *)
(***************************************************************************)
EXTENDS Integers, Sequences, FiniteSets, FiniteSetsExt

CONSTANTS
  Proc, File, None,
  NBLOCK,          \* data blocks
  BSIZE,           \* bytes, and block numbers, in a block
  NDIRECT,
  BPB,             \* blocks in a bitmap block
  MAXOPBLOCKS,
  MaxN,            \* bound on the bytes of one write()
  Partial          \* whether readable memory may end inside a block's bytes

DataBlock == 1..NBLOCK
MAXFILE == NDIRECT + BSIZE

\* What is assumed of the constants.
ContentAssumption ==
  {NBLOCK, BSIZE, NDIRECT, BPB, MAXOPBLOCKS, MaxN} \subseteq Nat \ {0} /\ Partial \in BOOLEAN

VARIABLES
  free,            \* blocks whose bitmap bit is 0
  data,            \* blocks as the buffer cache has them
  disk,            \* blocks as the log will have them on disk
  addrs, size,     \* of each inode
  off,             \* of the open file of each inode
  lock,            \* ip->lock
  w,               \* of each process: the state of its filewrite()
  log              \* blocks of its transaction so far

fsvars == <<free, data, disk, addrs>>
vars == <<fsvars, size, off, lock, w, log>>

Zero == [k \in 0..BSIZE - 1 |-> 0]
Junk == [k \in 0..BSIZE - 1 |-> None]     \* whatever a free block holds
Idle == [pc |-> "out", f |-> None, left |-> 0, good |-> 0, n1 |-> 0, tot |-> 0]

Init ==
  /\ free = DataBlock
  /\ data = [b \in DataBlock |-> Junk] /\ disk = data
  /\ addrs = [f \in File |-> [k \in 0..NDIRECT |-> 0]]
  /\ size = [f \in File |-> 0] /\ off = [f \in File |-> 0]
  /\ lock = [f \in File |-> None]
  /\ w = [p \in Proc |-> Idle] /\ log = [p \in Proc |-> {}]

\* Mutant: balloc() does not mark the block in the bitmap.
TakenNot(b) == {}

Taken(b) == {b}

\* balloc(): the first free block, zeroed; 0 when there is none.
balloc(s) ==
  IF s.free = {} THEN [s EXCEPT !.got = 0]
  ELSE LET b == Min(s.free)
       IN  [s EXCEPT !.free = @ \ Taken(b), !.data[b] = Zero, !.disk[b] = Zero, !.got = b,
                     !.log = @ \cup {<<"bitmap", (b - 1) \div BPB>>, <<"data", b>>}]

\* An entry of addrs[], allocated if necessary.
slot(s, f, k) ==
  IF s.addrs[f][k] # 0 THEN [s EXCEPT !.got = s.addrs[f][k]]
  ELSE LET t == balloc(s) IN [t EXCEPT !.addrs[f][k] = t.got]

\* bmap(): the address of block bn, allocated if necessary, through the
\* indirect block beyond the direct ones.
bmap(s, f, bn) ==
  IF bn < NDIRECT THEN slot(s, f, bn)
  ELSE LET t == slot(s, f, NDIRECT)
           a == t.data[t.got][bn - NDIRECT]
           u == balloc(t)
       IN  IF t.got = 0 THEN t
           ELSE IF a # 0 THEN [t EXCEPT !.got = a]
           ELSE IF u.got = 0 THEN u
           ELSE [u EXCEPT !.data[t.got][bn - NDIRECT] = u.got, !.disk[t.got][bn - NDIRECT] = u.got,
                          !.log = @ \cup {<<"data", t.got>>}]

fs(p) == [free |-> free, data |-> data, disk |-> disk, addrs |-> addrs, got |-> 0, log |-> log[p]]

\* Mutant: chunks as large as a transaction.
maxAll == MAXOPBLOCKS * BSIZE

max == ((MAXOPBLOCKS - 1 - 1 - 2) \div 2) * BSIZE

\* write(): n bytes, of which the first `good` can be read.
filewrite(p) ==
  /\ w[p].pc = "out"
  /\ \E f \in File, n \in 1..MaxN, g \in 0..MaxN :
       g <= n /\ w' = [w EXCEPT ![p] = [Idle EXCEPT !.pc = "chunk", !.f = f, !.left = n, !.good = g]]
  /\ UNCHANGED <<fsvars, size, off, lock, log>>

TooLong(o, n) == o + n > MAXFILE * BSIZE

\* filewrite(): begin_op(), ilock() and the tests of writei().
chunk(p) ==
  LET f == w[p].f
      n == IF w[p].left > max THEN max ELSE w[p].left
  IN  /\ w[p].pc = "chunk" /\ lock[f] = None
      /\ IF off[f] > size[f] \/ TooLong(off[f], n)
         THEN w' = [w EXCEPT ![p] = Idle] /\ UNCHANGED <<lock, log>>
         ELSE /\ w' = [w EXCEPT ![p].pc = "loop", ![p].n1 = n]
              /\ lock' = [lock EXCEPT ![f] = p]
              /\ log' = [log EXCEPT ![p] = {<<"inode", f>>}]
      /\ UNCHANGED <<fsvars, size, off>>

\* min(n - tot, BSIZE - off%BSIZE)
Piece(o, n) == IF n < BSIZE - (o % BSIZE) THEN n ELSE BSIZE - (o % BSIZE)

\* Mutant: a write begins at the beginning of a block.
PlaceAligned(f, tot) == off[f] - (off[f] % BSIZE) + tot

\* Where writei() is once it has written tot bytes.
Place(f, tot) == off[f] + tot

\* An iteration of writei()'s loop.  either_copyin() may copy what it can read and
\* then fail; the buffer is released all the same.
piece(p) ==
  LET f == w[p].f
      o == Place(f, w[p].tot)
      s == bmap(fs(p), f, o \div BSIZE)
      m == Piece(o, w[p].n1 - w[p].tot)
      c == IF m <= w[p].good THEN m ELSE IF Partial THEN w[p].good ELSE 0
      Put(d) == [k \in 0..BSIZE - 1 |-> IF k >= o % BSIZE /\ k < (o % BSIZE) + c THEN p ELSE d[k]]
  IN  /\ w[p].pc = "loop" /\ w[p].tot < w[p].n1
      /\ free' = s.free /\ addrs' = s.addrs
      /\ IF s.got = 0
         THEN /\ data' = s.data /\ disk' = s.disk
              /\ w' = [w EXCEPT ![p].pc = "end"] /\ log' = [log EXCEPT ![p] = s.log]
         ELSE /\ data' = [s.data EXCEPT ![s.got] = Put(@)]
              /\ IF c < m
                 THEN /\ w' = [w EXCEPT ![p].pc = "end"]
                      /\ disk' = [s.disk EXCEPT ![s.got] = IF <<"data", s.got>> \in s.log THEN data'[s.got] ELSE @]
                      /\ log' = [log EXCEPT ![p] = s.log]
                 ELSE /\ w' = [w EXCEPT ![p].tot = @ + m, ![p].good = @ - m]
                      /\ disk' = [s.disk EXCEPT ![s.got] = data'[s.got]]
                      /\ log' = [log EXCEPT ![p] = s.log \cup {<<"data", s.got>>}]
      /\ UNCHANGED <<size, off, lock>>

Grown(f, o) == [size EXCEPT ![f] = IF o > @ THEN o ELSE @]

\* The end of writei() and of filewrite()'s iteration: size, offset, unlock.
chunkend(p) ==
  LET f == w[p].f
      r == w[p].tot
  IN  /\ w[p].pc = "end" \/ (w[p].pc = "loop" /\ r = w[p].n1)
      /\ size' = Grown(f, off[f] + r)
      /\ off' = [off EXCEPT ![f] = @ + r]
      /\ lock' = [lock EXCEPT ![f] = None]
      /\ log' = [log EXCEPT ![p] = {}]
      /\ w' = [w EXCEPT ![p] = IF r = w[p].n1 /\ r < w[p].left
                               THEN [@ EXCEPT !.pc = "chunk", !.left = @ - r, !.n1 = 0, !.tot = 0]
                               ELSE Idle]
      /\ UNCHANGED fsvars

\* readi(): how many of n bytes there are at the offset.
readi(f, n) == IF off[f] > size[f] THEN 0 ELSE IF off[f] + n > size[f] THEN size[f] - off[f] ELSE n

\* fileread(): the offset moves past the bytes read.
fileread(f) ==
  /\ lock[f] = None
  /\ \E n \in 1..MaxN : off' = [off EXCEPT ![f] = @ + readi(f, n)]
  /\ UNCHANGED <<fsvars, size, lock, w, log>>

\* The blocks itrunc() frees.
Blocks(f) ==
  ({addrs[f][k] : k \in 0..NDIRECT} \cup
   (IF addrs[f][NDIRECT] = 0 THEN {} ELSE {data[addrs[f][NDIRECT]][k] : k \in 0..BSIZE - 1})) \ {0}

\* sys_open() with O_TRUNC through another descriptor: itrunc().
itrunc(f) ==
  /\ lock[f] = None /\ Blocks(f) # {}
  /\ free' = free \cup Blocks(f)
  /\ addrs' = [addrs EXCEPT ![f] = [k \in 0..NDIRECT |-> 0]]
  /\ size' = [size EXCEPT ![f] = 0]
  /\ data' = [b \in DataBlock |-> IF b \in Blocks(f) THEN Junk ELSE data[b]]
  /\ disk' = [b \in DataBlock |-> IF b \in Blocks(f) THEN Junk ELSE disk[b]]
  /\ UNCHANGED <<off, lock, w, log>>

\* sys_open(): another open file, at offset 0, takes the first one's place.
open(f) ==
  /\ lock[f] = None /\ off[f] > 0
  /\ off' = [off EXCEPT ![f] = 0]
  /\ UNCHANGED <<fsvars, size, lock, w, log>>

Next ==
  \/ \E p \in Proc : filewrite(p) \/ chunk(p) \/ piece(p) \/ chunkend(p)
  \/ \E f \in File : fileread(f) \/ itrunc(f) \/ open(f)

Spec == Init /\ [][Next]_vars

-----------------------------------------------------------------------------
\* Every variable has its type: blocks and indirect blocks hold bytes and
\* block numbers, and no size or shared offset passes the largest file.
TypeOK ==
  /\ free \subseteq DataBlock
  /\ data \in [DataBlock -> [0..BSIZE - 1 -> Proc \cup DataBlock \cup {0, None}]]
  /\ disk \in [DataBlock -> [0..BSIZE - 1 -> Proc \cup DataBlock \cup {0, None}]]
  /\ addrs \in [File -> [0..NDIRECT -> DataBlock \cup {0}]]
  /\ size \in [File -> 0..MAXFILE * BSIZE] /\ off \in [File -> 0..MAXFILE * BSIZE]
  /\ lock \in [File -> Proc \cup {None}]

\* The bitmap is exact whatever failed on the way: no block has two owners, none
\* in use is free (bfree() never panics), and none is lost.
BitmapExact ==
  /\ \A f \in File : Blocks(f) \cap free = {}
  /\ \A f, g \in File : f # g => Blocks(f) \cap Blocks(g) = {}
  /\ UNION {Blocks(f) : f \in File} = DataBlock \ free

\* The chunks of filewrite() leave room for the inode, the indirect block, the
\* bitmap and an unaligned end in the largest transaction.
WriteFits == \A p \in Proc : Cardinality(log[p]) <= MAXOPBLOCKS

Addr(f, bn) == IF bn < NDIRECT THEN addrs[f][bn] ELSE data[addrs[f][NDIRECT]][bn - NDIRECT]

Bytes(f) == [k \in 1..size[f] |-> data[Addr(f, (k - 1) \div BSIZE)][(k - 1) % BSIZE]]

Files == INSTANCE FileBytes WITH
  bytes <- [f \in File |-> Bytes(f)], Value <- Proc, MaxLen <- MAXFILE * BSIZE,
  writer <- lock, put <- [f \in File |-> IF lock[f] = None THEN 0 ELSE w[lock[f]].tot]

\* Through the blocks, files are sequences of bytes: a write puts its writer's
\* bytes one after the other at the shared offset and nowhere else, whoever else
\* wants to write, and no other file or byte changes.
FileSpec == Files!Spec

\* bio.c's interface (bio.c:10: "After changing buffer data, call bwrite to write it
\* to disk."): between calls the cache has nothing that the disk will not have, so
\* recycling a buffer changes no file.
NothingUnlogged == (\A f \in File : lock[f] = None) => data = disk
=============================================================================
