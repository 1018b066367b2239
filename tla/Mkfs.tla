-------------------------------- MODULE Mkfs --------------------------------
(***************************************************************************)
(* The program that makes the file system image (mkfs/mkfs.c): it lays out *)
(* the disk, makes the root directory, copies files and writes the bitmap. *)
(***************************************************************************)
EXTENDS Integers, Sequences, FiniteSets

CONSTANTS
  BSIZE, DESIZE,        \* bytes of a block and of a directory entry
  IPB, BPB,             \* inodes and bits of a block
  NINODES, LOGSIZE, FSSIZE,
  NDIRECT, NINDIRECT,
  MaxFiles              \* bound on the files copied

\* What is assumed of the constants.
MkfsAssumption ==
  /\ {BSIZE, DESIZE, IPB, BPB, NINODES, LOGSIZE, FSSIZE, NDIRECT, NINDIRECT} \subseteq Nat \ {0}
  /\ BSIZE % DESIZE = 0 /\ MaxFiles \in 1..NINODES - 2

VARIABLES
  pc,
  freeinode, freeblock,
  inode,         \* inodes made so far: [size, addrs, indirect]
  block,         \* contents of the data blocks: byte number -> byte
  written,       \* history: bytes appended to each inode
  bitmap         \* blocks marked as used

vars == <<pc, freeinode, freeblock, inode, block, written, bitmap>>

nbitmap == FSSIZE \div BPB + 1
ninodeblocks == NINODES \div IPB + 1
nmeta == 2 + LOGSIZE + ninodeblocks + nbitmap
MAXFILE == NDIRECT + NINDIRECT
ROOTINO == 1

Empty == [b \in 0..BSIZE - 1 |-> 0]

\* The image under construction, as the functions below pass it on.
Image == [inode |-> inode, block |-> block, freeblock |-> freeblock, freeinode |-> freeinode]

\* din.addrs has an entry for each block and one for the indirect block; 0 is none.
NewInode == [size |-> 0, addrs |-> [b \in 0..NDIRECT |-> 0], indirect |-> [b \in 0..NINDIRECT - 1 |-> 0]]

\* ialloc()
ialloc(m) == [m EXCEPT !.freeinode = @ + 1, !.inode = Append(@, NewInode)]

\* A new block for the slot f of inode i, if it has none; f = -1 is the indirect block.
Slot(m, i, f) ==
  IF f = -1 THEN m.inode[i].addrs[NDIRECT]
  ELSE IF f < NDIRECT THEN m.inode[i].addrs[f] ELSE m.inode[i].indirect[f - NDIRECT]

Filled(m, i, f) ==
  IF Slot(m, i, f) # 0 THEN m
  ELSE [m EXCEPT !.freeblock = @ + 1,
                 !.inode[i] = IF f = -1 THEN [@ EXCEPT !.addrs[NDIRECT] = m.freeblock]
                              ELSE IF f < NDIRECT THEN [@ EXCEPT !.addrs[f] = m.freeblock]
                              ELSE [@ EXCEPT !.indirect[f - NDIRECT] = m.freeblock]]

\* Mutant: a piece may go past the end of its block.
PieceWhole(off, n) == n

\* n1, the bytes of n that go into the block of offset off.
Piece(off, n) == IF n < BSIZE - (off % BSIZE) THEN n ELSE BSIZE - (off % BSIZE)

\* The loop of iappend(): the bytes are v.
RECURSIVE iappend(_, _, _)
iappend(m, i, v) ==
  IF v = <<>> THEN m
  ELSE LET off == m.inode[i].size
           fbn == off \div BSIZE
           m1 == Filled(IF fbn < NDIRECT THEN m ELSE Filled(m, i, -1), i, fbn)
           x == Slot(m1, i, fbn)
           n1 == Piece(off, Len(v))
           at == off - fbn * BSIZE
       IN  iappend([m1 EXCEPT !.inode[i].size = @ + n1,
                              !.block[x] = [b \in 0..BSIZE - 1 |-> IF b \in at..at + n1 - 1 THEN v[b - at + 1] ELSE @[b]]],
                   i, SubSeq(v, n1 + 1, Len(v)))

\* assert(fbn < MAXFILE) holds for every byte.
Room(i, n) == inode[i].size + n <= MAXFILE * BSIZE

Becomes(m) == inode' = m.inode /\ block' = m.block /\ freeblock' = m.freeblock /\ freeinode' = m.freeinode

Bytes(i, n) == [k \in 1..n |-> 1000 * i + Len(written[i]) + k]
Wrote(w, i, v) == [w EXCEPT ![i] = @ \o v]

\* The layout, and the root directory with its first two entries.
Init ==
  LET v == [k \in 1..2 * DESIZE |-> 1000 * ROOTINO + k]
      m == iappend(ialloc([inode |-> <<>>, block |-> [b \in 0..FSSIZE - 1 |-> Empty],
                           freeblock |-> nmeta, freeinode |-> 1]), ROOTINO, v)
  IN  /\ pc = "files" /\ inode = m.inode /\ block = m.block
      /\ freeblock = m.freeblock /\ freeinode = m.freeinode
      /\ written = <<v>> /\ bitmap = {}

Newest == freeinode - 1

\* What iappend() may be called for next: a part of the file being copied, or the entry of
\* the next one.
Appends ==
  (IF Newest - 1 < MaxFiles THEN {<<ROOTINO, DESIZE>>} ELSE {})
    \cup (IF Newest # ROOTINO THEN {Newest} \X (1..BSIZE) ELSE {})

\* The next file: its inode, and its entry in the root directory.
file ==
  LET v == Bytes(ROOTINO, DESIZE)
  IN  /\ pc = "files" /\ <<ROOTINO, DESIZE>> \in Appends /\ Room(ROOTINO, DESIZE)
      /\ Becomes(iappend(ialloc(Image), ROOTINO, v))
      /\ written' = Append(Wrote(written, ROOTINO, v), <<>>)
      /\ UNCHANGED <<pc, bitmap>>

\* read() of part of the file, and iappend().
copy ==
  /\ pc = "files" /\ Newest # ROOTINO
  /\ \E n \in 1..BSIZE :
       /\ Room(Newest, n) /\ Becomes(iappend(Image, Newest, Bytes(Newest, n)))
       /\ written' = Wrote(written, Newest, Bytes(Newest, n))
  /\ UNCHANGED <<pc, bitmap>>

\* The assertion of iappend() fails: the file or the directory is too large.
toolarge ==
  /\ pc = "files" /\ \E a \in Appends : ~Room(a[1], a[2])
  /\ pc' = "abort" /\ UNCHANGED <<freeinode, freeblock, inode, block, written, bitmap>>

\* Mutant: the last block is not marked.
MarkedShort == 0..freeblock - 2

\* balloc(freeblock): the blocks whose bits are set.
Marked == 0..freeblock - 1

\* The size of the root directory is brought to whole blocks.
Fixed == [inode EXCEPT ![ROOTINO].size = (@ \div BSIZE + 1) * BSIZE]

\* The end of main(): the root's size, and the bitmap unless balloc()'s assertion fails.
finish ==
  /\ pc = "files" /\ inode' = Fixed
  /\ \/ freeblock < BPB /\ bitmap' = Marked /\ pc' = "done"
     \/ freeblock >= BPB /\ pc' = "abort" /\ UNCHANGED bitmap
  /\ UNCHANGED <<freeinode, freeblock, block, written>>

Next == file \/ copy \/ toolarge \/ finish

Spec == Init /\ [][Next]_vars

-----------------------------------------------------------------------------
Pos(S) == S \ {0}
Refs(i) == [f \in -1..MAXFILE - 1 |-> Slot(Image, i, f)]
Mapped(i) == Pos({Refs(i)[f] : f \in -1..MAXFILE - 1})

\* When the image is done the blocks marked in the bitmap are exactly those before the data
\* and those of some inode, data and indirect, and no block has two uses: the kernel's
\* balloc() will neither give away a block of a file nor miss a free one.
BlocksExact ==
  pc = "done" =>
    /\ bitmap = (0..nmeta - 1) \cup UNION {Mapped(i) : i \in 1..Len(inode)}
    /\ \A i \in 1..Len(inode) : Mapped(i) \cap (0..nmeta - 1) = {}
    /\ \A i, k \in 1..Len(inode) : \A f, g \in -1..MAXFILE - 1 :
         <<i, f>> # <<k, g>> /\ Refs(i)[f] # 0 => Refs(i)[f] # Refs(k)[g]

\* What iappend() was given, in pieces that end anywhere in a block, is what the kernel's
\* bmap() and readi() will find at the same offsets, through the indirect block too, and
\* the size counts it (the root's counts whole blocks in the end).
Contents ==
  \A i \in 1..Len(inode) :
    /\ inode[i].size >= Len(written[i]) /\ (i # ROOTINO => inode[i].size = Len(written[i]))
    /\ \A k \in 1..Len(written[i]) :
         block[Slot(Image, i, (k - 1) \div BSIZE)][(k - 1) % BSIZE] = written[i][k]

\* Every block that the root's size counts is there, so that fileread(), which is in no
\* transaction, has none to allocate.
RootCovered ==
  pc = "done" => \A f \in 0..(inode[ROOTINO].size \div BSIZE) - 1 : f < MAXFILE /\ Slot(Image, ROOTINO, f) # 0
=============================================================================
