----------------------------- MODULE PipeProofs -----------------------------
(***************************************************************************)
(* The pipe, for every number of readers and writers, every size of the    *)
(* ring and every width of its counters: sleepers have a reason to sleep,  *)
(* nobody uses a freed pipe, and the ring is a first-in first-out channel. *)
(***************************************************************************)
EXTENDS Pipe, TLAPS

\* d entries, and counters below m, a larger multiple of d, reduced modulo d where an entry is used.
IsRing(d, m) == d \in Nat /\ d > 0 /\ m \in Nat /\ m > d /\ m % d = 0

-----------------------------------------------------------------------------
(* Remainders                                                              *)

\* A multiple of d that lies between -d and d is 0.
LEMMA SmallMultiple ==
  ASSUME NEW d \in Nat, d > 0, NEW z \in Int, d * z < d, -d < d * z
  PROVE  z = 0
<1>1. CASE z >= 1
  <2>1. PICK y \in Nat : z = y + 1
    <3>1. z - 1 \in Nat /\ z = (z - 1) + 1
      BY <1>1
    <3>q. QED BY Zenon, <3>1
  <2>2. d * (y + 1) = d * y + d /\ d * y >= 0
    OBVIOUS
  <2>q. QED BY <2>1, <2>2
<1>2. CASE z <= -1
  <2>1. PICK y \in Nat : z = -(y + 1)
    <3>1. (-z) - 1 \in Nat /\ z = -(((-z) - 1) + 1)
      BY <1>2
    <3>q. QED BY Zenon, <3>1
  <2>2. d * (-(y + 1)) = -(d * y) - d /\ d * y >= 0
    OBVIOUS
  <2>q. QED BY <2>1, <2>2
<1>q. QED BY <1>1, <1>2

\* Quotient and remainder.
LEMMA Division ==
  ASSUME NEW d \in Nat, d > 0, NEW a \in Int
  PROVE  a \div d \in Int /\ a % d \in 0..d - 1 /\ a = d * (a \div d) + (a % d)
OBVIOUS

\* Products of integers, as the provers use them.
LEMMA Products ==
  ASSUME NEW a \in Int, NEW b \in Int, NEW c \in Int
  PROVE  a * b \in Int /\ a * (b + c) = a * b + a * c /\ a * (b - c) = a * b - a * c
OBVIOUS

\* Quotient and remainder are unique.
LEMMA Remainder ==
  ASSUME NEW d \in Nat, d > 0, NEW k \in Int, NEW r \in 0..d - 1
  PROVE  (d * k + r) % d = r
<1>1. PICK a \in Int : a = d * k + r
  <2>1. d * k + r \in Int
    BY Products
  <2>q. QED BY Zenon, <2>1
<1>2. PICK z \in Int, m \in 0..d - 1 : z = a \div d /\ m = a % d /\ a = d * z + m
  BY Zenon, Division
<1>3. d * (z - k) = r - m
  <2>1. d * (z - k) = d * z - d * k /\ d * z \in Int /\ d * k \in Int
    BY Products
  <2>q. QED BY <1>1, <1>2, <2>1
<1>4. z - k = 0
  <2>1. d * (z - k) < d /\ -d < d * (z - k)
    BY <1>3
  <2>q. QED BY <2>1, SmallMultiple
<1>5. d * (z - k) = 0
  BY <1>4
<1>q. QED BY <1>1, <1>2, <1>3, <1>5

\* Going around the counters does not move a place in the ring.
LEMMA Around ==
  ASSUME NEW d, NEW m, IsRing(d, m), NEW x \in Int
  PROVE  (x + m) % d = x % d
<1>1. PICK z \in Int : m = d * z
  <2>1. m \div d \in Int /\ m = d * (m \div d) + (m % d) /\ m % d = 0
    BY Division DEF IsRing
  <2>2. d * (m \div d) \in Int
    BY <2>1, Products DEF IsRing
  <2>3. m = d * (m \div d)
    BY <2>1, <2>2
  <2>q. QED BY Zenon, <2>1, <2>3
<1>2. PICK k \in Int, r \in 0..d - 1 : r = x % d /\ x = d * k + r
  <2>1. d \in Nat /\ d > 0
    BY DEF IsRing
  <2>q. QED BY Zenon, <2>1, Division
<1>3. x + m = d * (k + z) + r
  <2>1. d * (k + z) = d * k + d * z /\ d * k \in Int /\ d * z \in Int
    BY Products DEF IsRing
  <2>q. QED BY <1>1, <1>2, <2>1
<1>4. (d * (k + z) + r) % d = r
  BY Remainder DEF IsRing
<1>q. QED BY Zenon, <1>2, <1>3, <1>4

\* Places less than d apart are different.
LEMMA Apart ==
  ASSUME NEW d \in Nat, d > 0, NEW x \in Int, NEW e \in 1..d - 1
  PROVE  (x + e) % d # x % d
<1>1. PICK k \in Int, r \in 0..d - 1 : r = x % d /\ x = d * k + r
  BY Division
<1>2. CASE r + e < d
  <2>1. (d * k + (r + e)) % d = r + e
    BY <1>2, Remainder
  <2>2. x + e = d * k + (r + e)
    <3>1. d * k \in Int
      BY Products
    <3>q. QED BY <1>1, <3>1
  <2>q. QED BY <1>1, <2>1, <2>2
<1>3. CASE r + e >= d
  <2>1. (d * (k + 1) + (r + e - d)) % d = r + e - d
    <3>1. r + e - d \in 0..d - 1 /\ k + 1 \in Int
      BY <1>3
    <3>q. QED BY <3>1, Remainder, Zenon
  <2>2. x + e = d * (k + 1) + (r + e - d)
    <3>1. d * k \in Int /\ d * (k + 1) = d * k + d * 1 /\ d * 1 = d
      BY Products
    <3>q. QED BY <1>1, <3>1
  <2>q. QED BY <1>1, <2>1, <2>2
<1>q. QED BY <1>1, <1>2, <1>3

-----------------------------------------------------------------------------
(* Counters                                                                *)

\* The next value of a counter: it goes on, or from its last value to 0.
LEMMA NextCount ==
  ASSUME NEW m \in Nat, m > 0, NEW x \in 0..m - 1
  PROVE  /\ (x + 1) % m \in 0..m - 1
         /\ (x + 1) % m = x + 1 \/ (x + 1) % m = x + 1 - m
<1>1. CASE x + 1 < m
  <2>1. (x + 1) % m = x + 1
    BY <1>1
  <2>q. QED BY <1>1, <2>1
<1>2. CASE x + 1 = m
  <2>1. m % m = 0
    OBVIOUS
  <2>q. QED BY <1>2, <2>1
<1>q. QED BY <1>1, <1>2

-----------------------------------------------------------------------------
(* The pipe                                                                *)

\* The constants, as the provers use them.
LEMMA Sizes ==
  /\ PIPESIZE \in Nat /\ PIPESIZE > 0 /\ UINT \in Nat /\ UINT > PIPESIZE /\ UINT % PIPESIZE = 0
  /\ MaxN \in Nat /\ Writer \cap Reader = {} /\ None \notin Proc
  /\ Writer \subseteq Proc /\ Reader \subseteq Proc
BY PipeAssumption DEF Proc

-----------------------------------------------------------------------------
(* The pipe's counters                                                     *)

\* The number of bytes from counter r to counter w.
Bytes(r, w) == (w - r + UINT) % UINT

\* The pipe's counters and its ring are of that kind.
LEMMA PipeRing ==
  /\ IsRing(PIPESIZE, UINT) /\ UINT > 0
  /\ \A x \in 0..UINT - 1 : /\ (x + 1) % UINT \in 0..UINT - 1
                            /\ (x + 1) % UINT = x + 1 \/ (x + 1) % UINT = x + 1 - UINT
<1>1. IsRing(PIPESIZE, UINT) /\ UINT > 0
  BY Sizes DEF IsRing
<1>q. QED BY Zenon, <1>1, Sizes, NextCount

\* Two counters and the bytes between them, around the end or not.
LEMMA BytesExact ==
  ASSUME NEW r \in 0..UINT - 1, NEW w \in 0..UINT - 1, NEW c \in 0..UINT - 1
  PROVE  Bytes(r, w) = c <=> (w = r + c \/ w = r + c - UINT)
<1>1. CASE w >= r
  <2>1. (w - r + UINT) % UINT = w - r
    <3>1. (UINT * 1 + (w - r)) % UINT = w - r
      BY <1>1, Remainder, Sizes
    <3>2. UINT * 1 + (w - r) = w - r + UINT
      BY Sizes
    <3>q. QED BY Zenon, <3>1, <3>2
  <2>q. QED BY <1>1, <2>1, Sizes DEF Bytes
<1>2. CASE w < r
  <2>1. (w - r + UINT) % UINT = w - r + UINT
    BY <1>2, Sizes
  <2>q. QED BY <1>2, <2>1, Sizes DEF Bytes
<1>q. QED BY <1>1, <1>2, Sizes

\* The number of bytes is a count.
LEMMA BytesType ==
  ASSUME NEW r \in 0..UINT - 1, NEW w \in 0..UINT - 1
  PROVE  /\ Bytes(r, w) \in 0..UINT - 1
         /\ w = r + Bytes(r, w) \/ w = r + Bytes(r, w) - UINT
<1>1. Bytes(r, w) \in 0..UINT - 1
  BY Sizes DEF Bytes
<1>q. QED BY <1>1, BytesExact

\* A counter that goes on changes the number of bytes by one.
LEMMA BytesStep ==
  ASSUME NEW r \in 0..UINT - 1, NEW w \in 0..UINT - 1
  PROVE  /\ Bytes(r, w) < PIPESIZE => Bytes(r, (w + 1) % UINT) = Bytes(r, w) + 1
         /\ r # w => Bytes((r + 1) % UINT, w) = Bytes(r, w) - 1
<1>1. PICK c \in 0..UINT - 1 : c = Bytes(r, w) /\ (w = r + c \/ w = r + c - UINT)
  BY BytesType, Zenon
<1>2. PICK w1 \in 0..UINT - 1 : w1 = (w + 1) % UINT /\ (w1 = w + 1 \/ w1 = w + 1 - UINT)
  BY Zenon, PipeRing
<1>3. PICK r1 \in 0..UINT - 1 : r1 = (r + 1) % UINT /\ (r1 = r + 1 \/ r1 = r + 1 - UINT)
  BY Zenon, PipeRing
<1>4. c < PIPESIZE => Bytes(r, w1) = c + 1
  <2>1. SUFFICES ASSUME c < PIPESIZE PROVE Bytes(r, w1) = c + 1
    OBVIOUS
  <2>2. c + 1 \in 0..UINT - 1 /\ (w1 = r + (c + 1) \/ w1 = r + (c + 1) - UINT)
    BY <1>1, <1>2, <2>1, Sizes
  <2>q. QED BY <2>2, BytesExact
<1>5. r # w => Bytes(r1, w) = c - 1
  <2>1. SUFFICES ASSUME r # w PROVE Bytes(r1, w) = c - 1
    OBVIOUS
  <2>2. c - 1 \in 0..UINT - 1 /\ (w = r1 + (c - 1) \/ w = r1 + (c - 1) - UINT)
    BY <1>1, <1>3, <2>1, Sizes
  <2>q. QED BY <2>2, BytesExact
<1>q. QED BY Zenon, <1>1, <1>2, <1>3, <1>4, <1>5

\* The tests of pipe.c for a full and for an empty ring count its bytes.
LEMMA FullEmpty ==
  ASSUME nread \in 0..UINT - 1, nwrite \in 0..UINT - 1
  PROVE  /\ Full <=> Bytes(nread, nwrite) = PIPESIZE
         /\ Empty <=> Bytes(nread, nwrite) = 0
<1>1. Empty <=> Bytes(nread, nwrite) = 0
  BY BytesExact, Sizes DEF Empty
<1>2. PICK x \in 0..UINT - 1 : /\ x = (nread + PIPESIZE) % UINT
                               /\ x = nread + PIPESIZE \/ x = nread + PIPESIZE - UINT
  <2>1. CASE nread + PIPESIZE < UINT
    <3>1. (nread + PIPESIZE) % UINT = nread + PIPESIZE
      BY <2>1, Sizes
    <3>q. QED BY <2>1, <3>1, Sizes
  <2>2. CASE nread + PIPESIZE >= UINT
    <3>1. (UINT * 1 + (nread + PIPESIZE - UINT)) % UINT = nread + PIPESIZE - UINT
      <4>1. nread + PIPESIZE - UINT \in 0..UINT - 1
        BY <2>2, Sizes
      <4>q. QED BY <4>1, Remainder, Sizes
    <3>2. UINT * 1 + (nread + PIPESIZE - UINT) = nread + PIPESIZE
      BY Sizes
    <3>q. QED BY <2>2, <3>1, <3>2, Sizes
  <2>q. QED BY <2>1, <2>2, Sizes
<1>3. Bytes(nread, nwrite) = PIPESIZE <=> (nwrite = nread + PIPESIZE \/ nwrite = nread + PIPESIZE - UINT)
  BY BytesExact, Sizes
<1>4. Full <=> nwrite = x
  BY Zenon, <1>2 DEF Full
<1>q. QED BY <1>1, <1>2, <1>3, <1>4, Sizes

-----------------------------------------------------------------------------
(* The inductive invariant                                                 *)

Location == {"out", "acquire", "write", "wait", "copy", "sleep", "asleep"}
Locked == {"write", "wait", "copy", "sleep"}

\* A process in the pipe's code has its end open, and a process that has its end open
\* keeps the pipe's flag for that end up.
OpenInv ==
  \A p \in Proc : /\ pc[p] # "out" => p \in users
                  /\ p \in users \cap Writer => writeopen
                  /\ p \in users \cap Reader => readopen

LockInv == \A p \in Proc : lock = p <=> pc[p] \in Locked

RoleInv ==
  \A p \in Proc : /\ pc[p] = "write" => p \in Writer
                  /\ pc[p] \in {"wait", "copy"} => p \in Reader
                  /\ i[p] <= n[p] /\ (pc[p] = "out" => i[p] = 0)

\* A writer that sleeps found the ring full, and it is full unless a reader is taking
\* bytes out, which will wake it.
WriterInv ==
  \A p \in Writer :
    /\ pc[p] = "sleep" => Full /\ readopen
    /\ pc[p] = "asleep" => readopen /\ (Full \/ \E r \in Reader : pc[r] = "copy")

\* A reader that sleeps found the ring empty, and it is empty unless a writer is putting
\* bytes in, which will wake it, or was killed when it did.
ReaderInv ==
  \A p \in Reader :
    /\ pc[p] = "sleep" => Empty /\ writeopen
    /\ pc[p] = "asleep" => writeopen /\ (Empty \/ \E w \in Writer : killed[w] \/ pc[w] = "write")

IInv == TypeOK /\ OpenInv /\ LockInv /\ RoleInv /\ WriterInv /\ ReaderInv

\* What wakeup() makes of the places of processes.
LEMMA Woken ==
  ASSUME NEW f \in [Proc -> Location], NEW s
  PROVE  /\ wakeup(f, s) \in [Proc -> Location]
         /\ \A q \in Proc : wakeup(f, s)[q] = IF q \in s /\ f[q] = "asleep" THEN "acquire" ELSE f[q]
BY Zenon DEF wakeup, Location

\* What the end of a call changes.
LEMMA Returned ==
  ASSUME TypeOK, NEW p \in Proc, NEW s, return(p, s)
  PROVE  /\ lock' = None /\ pc' \in [Proc -> Location] /\ pc'[p] = "out"
         /\ \A q \in Proc \ {p} : pc'[q] = IF q \in s /\ pc[q] = "asleep" THEN "acquire" ELSE pc[q]
         /\ i' \in [Proc -> 0..MaxN] /\ n' \in [Proc -> 0..MaxN] /\ i'[p] = 0 /\ n'[p] = 0
         /\ \A q \in Proc \ {p} : i'[q] = i[q] /\ n'[q] = n[q]
<1> DEFINE f == [pc EXCEPT ![p] = "out"]
<1>1. f \in [Proc -> Location] /\ f[p] = "out" /\ \A q \in Proc \ {p} : f[q] = pc[q]
  BY Zenon DEF TypeOK, Location
<1>2. /\ wakeup(f, s) \in [Proc -> Location]
      /\ \A q \in Proc : wakeup(f, s)[q] = IF q \in s /\ f[q] = "asleep" THEN "acquire" ELSE f[q]
  BY <1>1, Woken, Zenon
<1>3. pc' = wakeup(f, s) /\ lock' = None /\ i' = [i EXCEPT ![p] = 0] /\ n' = [n EXCEPT ![p] = 0]
  BY Zenon DEF return
<1>4. i' \in [Proc -> 0..MaxN] /\ n' \in [Proc -> 0..MaxN] /\ i'[p] = 0 /\ n'[p] = 0
  BY <1>3, Sizes DEF TypeOK
<1>5. \A q \in Proc \ {p} : i'[q] = i[q] /\ n'[q] = n[q]
  BY Zenon, <1>3 DEF TypeOK
<1>q. QED BY <1>1, <1>2, <1>3, <1>4, <1>5, Zenon

\* With the lock at p, no other process is in the code that needs it.
LEMMA OnlyHolder ==
  ASSUME IInv, NEW p \in Proc, lock = p
  PROVE  \A q \in Proc \ {p} : pc[q] \notin Locked
BY Zenon DEF IInv, LockInv

\* With the lock free, no process is.
LEMMA NoHolder ==
  ASSUME IInv, lock = None
  PROVE  \A q \in Proc : pc[q] \notin Locked
BY Zenon, Sizes DEF IInv, LockInv

\* The end of a call by the holder of pi->lock preserves what is said of ends and lock.
LEMMA ReturnStep ==
  ASSUME IInv, NEW p \in Proc, NEW s, lock = p, return(p, s), UNCHANGED ends
  PROVE  OpenInv' /\ LockInv' /\ RoleInv'
<1>1. TypeOK
  BY Zenon DEF IInv
<1>2. /\ lock' = None /\ pc'[p] = "out"
      /\ \A q \in Proc \ {p} : pc'[q] = IF q \in s /\ pc[q] = "asleep" THEN "acquire" ELSE pc[q]
      /\ i'[p] = 0 /\ n'[p] = 0
      /\ \A q \in Proc \ {p} : i'[q] = i[q] /\ n'[q] = n[q]
  BY Zenon, <1>1, Returned
<1>3. \A q \in Proc \ {p} : pc[q] \notin Locked
  BY Zenon, OnlyHolder
<1>4. OpenInv'
  BY Zenon, <1>2 DEF IInv, OpenInv, ends
<1>5. LockInv'
  BY Zenon, <1>2, <1>3, Sizes DEF LockInv, Locked
<1>6. RoleInv'
  BY <1>2 DEF IInv, RoleInv
<1>q. QED BY Zenon, <1>4, <1>5, <1>6

\* pipealloc() preserves IInv: no process is in the code of a pipe that is free.
LEMMA pipeallocStep ==
  ASSUME IInv, pipealloc
  PROVE  IInv'
<1>1. TypeOK /\ users = {} /\ \A p \in Proc : pc[p] = "out"
  BY Zenon DEF IInv, OpenInv, pipealloc
<1>2. /\ readopen' = TRUE /\ writeopen' = TRUE /\ nread' = 0 /\ nwrite' = 0 /\ users' = Proc
      /\ killed' = [p \in Proc |-> FALSE] /\ UNCHANGED <<data, lock, pc, i, n>>
  BY Zenon DEF pipealloc
<1>3. Bytes(0, 0) = 0
  BY BytesExact, Sizes
<1>4. TypeOK'
  BY <1>1, <1>2, <1>3, Sizes DEF TypeOK, Bytes
<1>5. OpenInv' /\ LockInv' /\ RoleInv'
  BY Zenon, <1>1, <1>2 DEF IInv, OpenInv, LockInv, RoleInv
<1>6. WriterInv' /\ ReaderInv'
  BY Zenon, <1>1, <1>2, Sizes DEF WriterInv, ReaderInv
<1>q. QED BY Zenon, <1>4, <1>5, <1>6 DEF IInv

\* The entry into read() or write() preserves IInv.
LEMMA syscallStep ==
  ASSUME IInv, NEW p \in Proc, syscall(p)
  PROVE  IInv'
<1>1. TypeOK /\ p \in users /\ pc[p] = "out"
  BY Zenon DEF IInv, syscall
<1>2. PICK k \in 0..MaxN : n' = [n EXCEPT ![p] = k]
  BY Zenon DEF syscall
<1>3. pc' = [pc EXCEPT ![p] = "acquire"] /\ UNCHANGED <<data, nread, nwrite, readopen, writeopen, users, lock, i, killed>>
  BY Zenon DEF syscall, ring, ends
<1>4. TypeOK'
  BY Zenon, <1>1, <1>2, <1>3 DEF TypeOK
<1>5. OpenInv' /\ LockInv'
  BY Zenon, <1>1, <1>3 DEF IInv, OpenInv, LockInv, TypeOK, Locked
<1>6. RoleInv'
  <2>1. i[p] = 0
    BY Zenon, <1>1 DEF IInv, RoleInv
  <2>q. QED BY <1>1, <1>2, <1>3, <2>1 DEF IInv, RoleInv, TypeOK
<1>7. WriterInv'
  BY Zenon, <1>1, <1>3, Sizes DEF IInv, WriterInv, Full, TypeOK
<1>8. ReaderInv'
  BY Zenon, <1>1, <1>3, Sizes DEF IInv, ReaderInv, Empty, TypeOK
<1>q. QED BY Zenon, <1>4, <1>5, <1>6, <1>7, <1>8 DEF IInv

\* acquire(&pi->lock) preserves IInv.
LEMMA acquireStep ==
  ASSUME IInv, NEW p \in Proc, acquire(p)
  PROVE  IInv'
<1>1. TypeOK /\ pc[p] = "acquire" /\ lock = None /\ \A q \in Proc : pc[q] \notin Locked
  BY Zenon, NoHolder DEF IInv, acquire
<1>2. /\ lock' = p /\ UNCHANGED <<data, nread, nwrite, readopen, writeopen, users, i, n, killed>>
      /\ pc' = [pc EXCEPT ![p] = IF p \in Writer THEN "write" ELSE "wait"]
  BY Zenon DEF acquire, ring, ends
<1>3. TypeOK'
  BY Zenon, <1>1, <1>2 DEF TypeOK
<1>4. OpenInv'
  BY Zenon, <1>1, <1>2 DEF IInv, OpenInv, TypeOK
<1>5. LockInv'
  BY Zenon, <1>1, <1>2 DEF LockInv, Locked, TypeOK
<1>6. RoleInv'
  BY Zenon, <1>1, <1>2 DEF IInv, RoleInv, TypeOK, Proc
<1>7. WriterInv'
  BY Zenon, <1>1, <1>2, Sizes DEF IInv, WriterInv, Full, TypeOK, Locked
<1>8. ReaderInv'
  BY Zenon, <1>1, <1>2, Sizes DEF IInv, ReaderInv, Empty, TypeOK, Locked
<1>q. QED BY Zenon, <1>3, <1>4, <1>5, <1>6, <1>7, <1>8 DEF IInv

\* sleep() preserves IInv: what was found before it still holds.
LEMMA sleepStep ==
  ASSUME IInv, NEW p \in Proc, sleep(p)
  PROVE  IInv'
<1>1. TypeOK /\ pc[p] = "sleep" /\ lock = p /\ \A q \in Proc \ {p} : pc[q] \notin Locked
  <2>1. TypeOK /\ pc[p] = "sleep" /\ lock = p
    BY Zenon DEF IInv, LockInv, Locked, sleep
  <2>q. QED BY Zenon, <2>1, OnlyHolder
<1>2. /\ lock' = None /\ pc' = [pc EXCEPT ![p] = "asleep"]
      /\ UNCHANGED <<data, nread, nwrite, readopen, writeopen, users, i, n, killed>>
  BY Zenon DEF sleep, ring, ends
<1>3. TypeOK'
  BY Zenon, <1>1, <1>2 DEF TypeOK
<1>4. OpenInv'
  BY Zenon, <1>1, <1>2 DEF IInv, OpenInv, TypeOK
<1>5. LockInv'
  BY Zenon, <1>1, <1>2, Sizes DEF LockInv, Locked, TypeOK
<1>6. RoleInv'
  BY Zenon, <1>1, <1>2 DEF IInv, RoleInv, TypeOK
<1>7. WriterInv'
  BY Zenon, <1>1, <1>2, Sizes DEF IInv, WriterInv, Full, TypeOK, Locked
<1>8. ReaderInv'
  BY Zenon, <1>1, <1>2, Sizes DEF IInv, ReaderInv, Empty, TypeOK, Locked
<1>q. QED BY Zenon, <1>3, <1>4, <1>5, <1>6, <1>7, <1>8 DEF IInv

\* kill() preserves IInv: it wakes its target.
LEMMA killStep ==
  ASSUME IInv, NEW p \in Proc, kill(p)
  PROVE  IInv'
<1>1. TypeOK /\ pc \in [Proc -> Location]
  BY Zenon DEF IInv, TypeOK, Location
<1>2. /\ pc' = wakeup(pc, {p}) /\ killed' = [killed EXCEPT ![p] = TRUE]
      /\ UNCHANGED <<data, nread, nwrite, readopen, writeopen, users, lock, i, n>>
  BY Zenon DEF kill, ring, ends
<1>3. /\ pc' \in [Proc -> Location]
      /\ \A q \in Proc : pc'[q] = IF q = p /\ pc[q] = "asleep" THEN "acquire" ELSE pc[q]
  <2>1. /\ wakeup(pc, {p}) \in [Proc -> Location]
        /\ \A q \in Proc : wakeup(pc, {p})[q] = IF q \in {p} /\ pc[q] = "asleep" THEN "acquire" ELSE pc[q]
    BY Zenon, <1>1, Woken
  <2>q. QED BY Zenon, <1>2, <2>1
<1>4. TypeOK'
  BY <1>1, <1>2, <1>3, Zenon DEF TypeOK, Location
<1>5. OpenInv' /\ LockInv' /\ RoleInv'
  BY Zenon, <1>2, <1>3 DEF IInv, OpenInv, LockInv, RoleInv, Locked
<1>6. WriterInv'
  BY <1>2, <1>3, Sizes, Zenon DEF IInv, WriterInv, Full
<1>7. ReaderInv'
  <2>1. \A w \in Writer : killed[w] => killed'[w]
    BY Zenon, <1>1, <1>2, Sizes DEF TypeOK
  <2>q. QED BY Zenon, <1>2, <1>3, <2>1, Sizes DEF IInv, ReaderInv, Empty
<1>q. QED BY Zenon, <1>4, <1>5, <1>6, <1>7 DEF IInv

\* A call that ends with a wakeup of the other side, and has not touched the ring unless it
\* is a reader's, preserves IInv.
LEMMA WakingReturn ==
  ASSUME IInv, NEW p \in Proc, lock = p, UNCHANGED <<data, nwrite, ends, killed>>, TypeOK',
         \/ p \in Writer /\ return(p, Reader) /\ UNCHANGED nread
         \/ p \in Reader /\ return(p, Writer) /\ (Empty => UNCHANGED nread)
  PROVE  IInv'
<1>1. PICK s : return(p, s) /\ (\/ p \in Writer /\ s = Reader /\ UNCHANGED nread
                                \/ p \in Reader /\ s = Writer /\ (Empty => UNCHANGED nread))
  OBVIOUS
<1>2. /\ lock' = None /\ pc'[p] = "out"
      /\ \A q \in Proc \ {p} : pc'[q] = IF q \in s /\ pc[q] = "asleep" THEN "acquire" ELSE pc[q]
  BY Zenon, <1>1, Returned DEF IInv
<1>3. OpenInv' /\ LockInv' /\ RoleInv'
  BY Zenon, <1>1, ReturnStep
<1>4. \A q \in Proc \ {p} : pc[q] \notin Locked
  BY Zenon, OnlyHolder
<1>5. CASE p \in Writer /\ s = Reader /\ UNCHANGED nread
  <2>1. WriterInv'
    BY Zenon, <1>2, <1>4, <1>5, Sizes DEF IInv, WriterInv, Full, Locked, ends
  <2>2. ReaderInv'
    BY Zenon, <1>2, <1>4, <1>5, Sizes DEF ReaderInv, Locked
  <2>q. QED BY Zenon, <1>3, <2>1, <2>2 DEF IInv
<1>6. CASE p \in Reader /\ s = Writer /\ (Empty => UNCHANGED nread)
  <2>1. WriterInv'
    BY Zenon, <1>2, <1>4, <1>6, Sizes DEF WriterInv, Locked
  <2>2. ReaderInv'
    BY Zenon, <1>2, <1>4, <1>6, Sizes DEF IInv, ReaderInv, Empty, Locked, ends
  <2>q. QED BY Zenon, <1>3, <2>1, <2>2 DEF IInv
<1>q. QED BY Zenon, <1>1, <1>5, <1>6

\* A call that ends with no wakeup preserves IInv, since it is killed, or the end of those
\* that could sleep is closed.
LEMMA SilentReturn ==
  ASSUME IInv, NEW p \in Proc, lock = p, return(p, {}), UNCHANGED <<ring, ends, killed>>, TypeOK',
         \/ pc[p] = "write" /\ (~readopen \/ killed[p])
         \/ pc[p] = "wait"
  PROVE  IInv'
<1>1. /\ lock' = None /\ pc'[p] = "out" /\ \A q \in Proc \ {p} : pc'[q] = pc[q]
  <2>1. \A q \in Proc \ {p} : pc'[q] = IF q \in {} /\ pc[q] = "asleep" THEN "acquire" ELSE pc[q]
    BY Returned DEF IInv
  <2>q. QED BY Zenon, <2>1, Returned DEF IInv
<1>2. OpenInv' /\ LockInv' /\ RoleInv'
  BY Zenon, ReturnStep
<1>3. \A q \in Proc \ {p} : pc[q] \notin Locked
  BY Zenon, OnlyHolder
<1>4. WriterInv'
  BY Zenon, <1>1, <1>3, Sizes DEF IInv, WriterInv, Full, Locked, ring, ends
<1>5. ReaderInv'
  <2>1. SUFFICES ASSUME NEW r \in Reader, pc'[r] = "asleep"
                 PROVE  writeopen' /\ (Empty' \/ \E w \in Writer : killed'[w] \/ pc'[w] = "write")
    BY Zenon, <1>1, <1>3, Sizes DEF ReaderInv, Locked
  <2>2. r \in Proc \ {p} /\ pc[r] = "asleep" /\ readopen
    BY Zenon, <1>1, <2>1, Sizes DEF IInv, OpenInv
  <2>3. writeopen /\ (Empty \/ \E w \in Writer : killed[w] \/ pc[w] = "write")
    BY Zenon, <2>1, <2>2 DEF IInv, ReaderInv
  <2>4. \A w \in Writer : pc[w] = "write" => w = p /\ killed[p]
    BY Zenon, <1>3, <2>2, Sizes DEF Locked
  <2>q. QED BY Zenon, <2>3, <2>4 DEF Empty, ring, ends
<1>q. QED BY Zenon, <1>2, <1>4, <1>5 DEF IInv

\* An iteration of pipewrite() preserves IInv.
LEMMA pipewriteStep ==
  ASSUME IInv, NEW p \in Proc, pipewrite(p)
  PROVE  IInv'
<1>1. /\ TypeOK /\ pc[p] = "write" /\ lock = p /\ p \in Writer
      /\ \A q \in Proc \ {p} : pc[q] \notin Locked
  <2>1. TypeOK /\ pc[p] = "write" /\ lock = p /\ p \in Writer
    BY Zenon DEF IInv, LockInv, RoleInv, Locked, pipewrite
  <2>q. QED BY Zenon, <2>1, OnlyHolder
<1>2. UNCHANGED <<nread, readopen, writeopen, users, killed, ends>>
  BY Zenon DEF pipewrite, ends
<1>3. ASSUME NEW s, return(p, s), UNCHANGED <<data, nwrite>>
      PROVE  TypeOK'
  <2>1. lock' = None /\ pc' \in [Proc -> Location] /\ i' \in [Proc -> 0..MaxN] /\ n' \in [Proc -> 0..MaxN]
    BY Zenon, <1>1, <1>3, Returned
  <2>q. QED BY Zenon, <1>1, <1>2, <1>3, <2>1 DEF TypeOK, Location
<1>4. CASE return(p, Reader) /\ UNCHANGED <<data, nwrite>>
  BY Zenon, <1>1, <1>2, <1>3, <1>4, WakingReturn
<1>5. CASE (~readopen \/ killed[p]) /\ return(p, {}) /\ UNCHANGED <<data, nwrite>>
  BY Zenon, <1>1, <1>2, <1>3, <1>5, SilentReturn DEF ring
<1>6. CASE readopen /\ Full /\ pc' = wakeup([pc EXCEPT ![p] = "sleep"], Reader) /\ UNCHANGED <<data, nwrite, lock, i, n>>
  <2> DEFINE f == [pc EXCEPT ![p] = "sleep"]
  <2>1. f \in [Proc -> Location] /\ f[p] = "sleep" /\ \A q \in Proc \ {p} : f[q] = pc[q]
    BY Zenon, <1>1 DEF TypeOK, Location
  <2>2. /\ wakeup(f, Reader) \in [Proc -> Location]
        /\ \A q \in Proc : wakeup(f, Reader)[q] = IF q \in Reader /\ f[q] = "asleep" THEN "acquire" ELSE f[q]
    BY <2>1, Woken, Zenon
  <2>3. /\ pc' \in [Proc -> Location] /\ pc'[p] = "sleep"
        /\ \A q \in Proc \ {p} : pc'[q] = IF q \in Reader /\ pc[q] = "asleep" THEN "acquire" ELSE pc[q]
    BY <1>6, <2>1, <2>2, Zenon
  <2>4. TypeOK'
    BY <1>1, <1>2, <1>6, <2>3, Zenon DEF TypeOK, Location
  <2>5. OpenInv'
    BY Zenon, <1>1, <1>2, <2>3 DEF IInv, OpenInv
  <2>6. LockInv'
    BY <1>1, <1>6, <2>3, Zenon DEF LockInv, Locked
  <2>7. RoleInv'
    BY <1>1, <1>6, <2>3, Zenon DEF IInv, RoleInv
  <2>8. WriterInv'
    BY Zenon, <1>1, <1>2, <1>6, <2>3, Sizes DEF IInv, WriterInv, Full, Locked
  <2>9. ReaderInv'
    BY Zenon, <1>1, <2>3, Sizes DEF ReaderInv, Locked
  <2>q. QED BY Zenon, <2>4, <2>5, <2>6, <2>7, <2>8, <2>9 DEF IInv
<1>7. CASE /\ i[p] < n[p] /\ ~Full
           /\ \E b \in Byte : data' = [data EXCEPT ![nwrite % PIPESIZE] = b]
           /\ nwrite' = (nwrite + 1) % UINT /\ i' = [i EXCEPT ![p] = @ + 1] /\ UNCHANGED <<lock, pc, n>>
  <2>1. TypeOK'
    <3>1. data' \in [0..PIPESIZE - 1 -> Byte]
      BY <1>1, <1>7, Zenon DEF TypeOK
    <3>2. nwrite' \in 0..UINT - 1
      BY Zenon, <1>1, <1>7, PipeRing DEF TypeOK
    <3>3. Bytes(nread, nwrite) < PIPESIZE
      <4>1. Bytes(nread, nwrite) <= PIPESIZE /\ Bytes(nread, nwrite) # PIPESIZE /\ Bytes(nread, nwrite) \in Int
        BY <1>1, <1>7, FullEmpty, BytesType DEF TypeOK, Bytes
      <4>q. QED BY <4>1, Sizes
    <3>4. Bytes(nread, nwrite') <= PIPESIZE
      <4>1. Bytes(nread, nwrite') = Bytes(nread, nwrite) + 1 /\ Bytes(nread, nwrite) \in Int
        BY <1>1, <1>7, <3>3, BytesStep, BytesType DEF TypeOK
      <4>q. QED BY <3>3, <4>1, Sizes
    <3>5. i' \in [Proc -> 0..MaxN]
      BY <1>1, <1>7, Sizes DEF TypeOK
    <3>q. QED BY Zenon, <1>1, <1>2, <1>7, <3>1, <3>2, <3>4, <3>5 DEF TypeOK, Bytes
  <2>2. OpenInv' /\ LockInv'
    BY Zenon, <1>2, <1>7 DEF IInv, OpenInv, LockInv
  <2>3. RoleInv'
    BY <1>1, <1>7 DEF IInv, RoleInv, TypeOK
  <2>4. WriterInv'
    BY Zenon, <1>1, <1>7, Sizes DEF IInv, WriterInv, Locked
  <2>5. ReaderInv'
    BY Zenon, <1>1, <1>2, <1>7, Sizes DEF IInv, ReaderInv, Locked
  <2>q. QED BY Zenon, <2>1, <2>2, <2>3, <2>4, <2>5 DEF IInv
<1>q. QED BY Zenon, <1>4, <1>5, <1>6, <1>7 DEF pipewrite

\* An iteration of piperead()'s wait preserves IInv.
LEMMA readwaitStep ==
  ASSUME IInv, NEW p \in Proc, readwait(p)
  PROVE  IInv'
<1>1. /\ TypeOK /\ pc[p] = "wait" /\ lock = p /\ p \in Reader
      /\ \A q \in Proc \ {p} : pc[q] \notin Locked
  <2>1. TypeOK /\ pc[p] = "wait" /\ lock = p /\ p \in Reader
    BY Zenon DEF IInv, LockInv, RoleInv, Locked, readwait
  <2>q. QED BY Zenon, <2>1, OnlyHolder
<1>2. UNCHANGED <<data, nread, nwrite, readopen, writeopen, users, killed, ring, ends>>
  BY Zenon DEF readwait, ring, ends
<1>3. CASE return(p, {})
  <2>1. lock' = None /\ pc' \in [Proc -> Location] /\ i' \in [Proc -> 0..MaxN] /\ n' \in [Proc -> 0..MaxN]
    BY Zenon, <1>1, <1>3, Returned
  <2>2. TypeOK'
    BY Zenon, <1>1, <1>2, <2>1 DEF TypeOK, Location
  <2>q. QED BY Zenon, <1>1, <1>2, <1>3, <2>2, SilentReturn
<1>4. ASSUME NEW l \in {"sleep", "copy"}, pc' = [pc EXCEPT ![p] = l], UNCHANGED <<lock, i, n>>,
             l = "sleep" => Empty /\ writeopen
      PROVE  IInv'
  <2>1. pc'[p] = l /\ \A q \in Proc \ {p} : pc'[q] = pc[q]
    BY Zenon, <1>1, <1>4 DEF TypeOK
  <2>2. TypeOK'
    BY Zenon, <1>1, <1>2, <1>4 DEF TypeOK
  <2>3. OpenInv' /\ RoleInv'
    BY Zenon, <1>1, <1>2, <1>4, <2>1 DEF IInv, OpenInv, RoleInv
  <2>4. LockInv'
    BY Zenon, <1>1, <1>4, <2>1 DEF LockInv, Locked
  <2>5. WriterInv'
    BY Zenon, <1>1, <1>2, <2>1, Sizes DEF IInv, WriterInv, Full, Locked
  <2>6. ReaderInv'
    BY Zenon, <1>1, <1>2, <1>4, <2>1, Sizes DEF IInv, ReaderInv, Empty, Locked
  <2>q. QED BY Zenon, <2>2, <2>3, <2>4, <2>5, <2>6 DEF IInv
<1>q. QED BY Zenon, <1>3, <1>4 DEF readwait

\* An iteration of piperead()'s copy preserves IInv.
LEMMA readcopyStep ==
  ASSUME IInv, NEW p \in Proc, readcopy(p)
  PROVE  IInv'
<1>1. /\ TypeOK /\ pc[p] = "copy" /\ lock = p /\ p \in Reader
      /\ \A q \in Proc \ {p} : pc[q] \notin Locked
  <2>1. TypeOK /\ pc[p] = "copy" /\ lock = p /\ p \in Reader
    BY Zenon DEF IInv, LockInv, RoleInv, Locked, readcopy
  <2>q. QED BY Zenon, <2>1, OnlyHolder
<1>2. UNCHANGED <<data, nwrite, readopen, writeopen, users, killed, ends>>
  BY Zenon DEF readcopy, ends
<1>3. nread' = nread \/ (~Empty /\ nread' = (nread + 1) % UINT)
  BY Zenon DEF readcopy
<1>4. nread' \in 0..UINT - 1 /\ Bytes(nread', nwrite) <= PIPESIZE
  <2>1. CASE nread' = nread
    BY Zenon, <1>1, <2>1 DEF TypeOK, Bytes
  <2>2. CASE ~Empty /\ nread' = (nread + 1) % UINT
    <3>1. nread' \in 0..UINT - 1
      BY Zenon, <1>1, <2>2, PipeRing DEF TypeOK
    <3>2. Bytes(nread', nwrite) = Bytes(nread, nwrite) - 1 /\ Bytes(nread, nwrite) \in Int
      BY <1>1, <2>2, BytesStep, BytesType DEF TypeOK, Empty
    <3>3. Bytes(nread, nwrite) <= PIPESIZE
      BY Zenon, <1>1 DEF TypeOK, Bytes
    <3>q. QED BY <3>1, <3>2, <3>3, Sizes
  <2>q. QED BY Zenon, <1>3, <2>1, <2>2
<1>5. CASE return(p, Writer)
  <2>1. lock' = None /\ pc' \in [Proc -> Location] /\ i' \in [Proc -> 0..MaxN] /\ n' \in [Proc -> 0..MaxN]
    BY Zenon, <1>1, <1>5, Returned
  <2>2. TypeOK'
    BY Zenon, <1>1, <1>2, <1>4, <2>1 DEF TypeOK, Location, Bytes
  <2>q. QED BY Zenon, <1>1, <1>2, <1>3, <1>5, <2>2, WakingReturn
<1>6. CASE i[p] < n[p] /\ ~Empty /\ i' = [i EXCEPT ![p] = @ + 1] /\ UNCHANGED <<lock, pc, n>>
  <2>1. TypeOK'
    <3>1. i' \in [Proc -> 0..MaxN]
      BY <1>1, <1>6, Sizes DEF TypeOK
    <3>q. QED BY Zenon, <1>1, <1>2, <1>4, <1>6, <3>1 DEF TypeOK, Bytes
  <2>2. OpenInv' /\ LockInv'
    BY Zenon, <1>2, <1>6 DEF IInv, OpenInv, LockInv
  <2>3. RoleInv'
    BY <1>1, <1>6 DEF IInv, RoleInv, TypeOK
  <2>4. WriterInv'
    BY Zenon, <1>1, <1>2, <1>6, Sizes DEF IInv, WriterInv, Locked
  <2>5. ReaderInv'
    BY Zenon, <1>1, <1>2, <1>6, Sizes DEF IInv, ReaderInv, Locked
  <2>q. QED BY Zenon, <2>1, <2>2, <2>3, <2>4, <2>5 DEF IInv
<1>q. QED BY Zenon, <1>5, <1>6 DEF readcopy

\* close() preserves IInv: the last one at an end wakes those at the other.
LEMMA pipecloseStep ==
  ASSUME IInv, NEW p \in Proc, pipeclose(p)
  PROVE  IInv'
<1>1. /\ TypeOK /\ p \in users /\ pc[p] = "out" /\ users' = users \ {p} /\ pc \in [Proc -> Location]
      /\ UNCHANGED <<data, nread, nwrite, lock, i, n, killed>>
  BY Zenon DEF IInv, pipeclose, ring, TypeOK, Location
<1>2. PICK s \in {Reader, Writer, {}} :
        /\ pc' = wakeup(pc, s)
        /\ \/ s = Reader /\ users \cap Writer = {p} /\ lock = None /\ writeopen' = FALSE /\ UNCHANGED readopen
           \/ s = Writer /\ users \cap Reader = {p} /\ lock = None /\ readopen' = FALSE /\ UNCHANGED writeopen
           \/ s = {} /\ users \cap Writer # {p} /\ users \cap Reader # {p} /\ UNCHANGED <<readopen, writeopen>>
  <2>1. pc = wakeup(pc, {})
    BY Zenon, <1>1 DEF wakeup
  <2>q. QED BY Zenon, <2>1 DEF pipeclose
<1>3. /\ pc' \in [Proc -> Location]
      /\ \A q \in Proc : pc'[q] = IF q \in s /\ pc[q] = "asleep" THEN "acquire" ELSE pc[q]
  BY Zenon, <1>1, <1>2, Woken
<1>4. TypeOK'
  <2>1. readopen' \in BOOLEAN /\ writeopen' \in BOOLEAN
    BY <1>1, <1>2, Zenon DEF TypeOK
  <2>q. QED BY Zenon, <1>1, <1>3, <2>1 DEF TypeOK, Location
<1>5. OpenInv'
  BY <1>1, <1>2, <1>3, Sizes DEF IInv, OpenInv
<1>6. LockInv' /\ RoleInv'
  BY Zenon, <1>1, <1>3 DEF IInv, LockInv, RoleInv, Locked
<1>7. \A q \in Proc : lock = None => pc[q] \notin Locked
  BY Zenon, NoHolder
<1>8. WriterInv'
  <2>1. CASE s = Reader /\ UNCHANGED readopen
    BY Zenon, <1>1, <1>3, <2>1, Sizes DEF IInv, WriterInv, Full
  <2>2. CASE s = Writer /\ lock = None
    BY Zenon, <1>3, <1>7, <2>2, Sizes DEF WriterInv, Locked
  <2>3. CASE s = {} /\ UNCHANGED <<readopen, writeopen>>
    BY Zenon, <1>1, <1>3, <2>3, Sizes DEF IInv, WriterInv, Full
  <2>q. QED BY Zenon, <1>2, <2>1, <2>2, <2>3
<1>9. ReaderInv'
  <2>1. CASE s = Writer /\ UNCHANGED writeopen
    BY Zenon, <1>1, <1>3, <2>1, Sizes DEF IInv, ReaderInv, Empty
  <2>2. CASE s = Reader /\ lock = None
    BY Zenon, <1>3, <1>7, <2>2, Sizes DEF ReaderInv, Locked
  <2>3. CASE s = {} /\ UNCHANGED <<readopen, writeopen>>
    BY Zenon, <1>1, <1>3, <2>3, Sizes DEF IInv, ReaderInv, Empty
  <2>q. QED BY Zenon, <1>2, <2>1, <2>2, <2>3
<1>q. QED BY Zenon, <1>4, <1>5, <1>6, <1>8, <1>9 DEF IInv

-----------------------------------------------------------------------------
(* Safety                                                                  *)

\* IInv holds of every reachable state of pipe.c.
THEOREM Invariance == Spec => []IInv
<1>1. Init => IInv
  <2>1. SUFFICES ASSUME Init PROVE IInv
    OBVIOUS
  <2>2. Bytes(0, 0) = 0
    BY BytesExact, Sizes
  <2>3. TypeOK
    <3>1. /\ nread \in 0..UINT - 1 /\ nwrite \in 0..UINT - 1 /\ lock \in Proc \cup {None} /\ users \subseteq Proc
          /\ i \in [Proc -> 0..MaxN] /\ n \in [Proc -> 0..MaxN]
      BY <2>1, Sizes DEF Init
    <3>2. Bytes(nread, nwrite) <= PIPESIZE
      BY <2>1, <2>2, Sizes DEF Init
    <3>3. readopen \in BOOLEAN /\ writeopen \in BOOLEAN /\ killed \in [Proc -> BOOLEAN]
      BY <2>1, Zenon DEF Init
    <3>4. pc \in [Proc -> Location] /\ data \in [0..PIPESIZE - 1 -> Byte]
      BY Zenon, <2>1 DEF Init, Location
    <3>q. QED BY Zenon, <3>1, <3>2, <3>3, <3>4 DEF TypeOK, Bytes, Location
  <2>4. OpenInv /\ LockInv /\ RoleInv
    BY <2>1, Sizes DEF Init, OpenInv, LockInv, RoleInv, Locked
  <2>5. WriterInv /\ ReaderInv
    BY Zenon, <2>1, Sizes DEF Init, WriterInv, ReaderInv
  <2>q. QED BY Zenon, <2>3, <2>4, <2>5 DEF IInv
<1>2. IInv /\ [Next]_vars => IInv'
  <2>1. SUFFICES ASSUME IInv, [Next]_vars PROVE IInv'
    OBVIOUS
  <2>2. CASE UNCHANGED vars
    BY Zenon, <2>1, <2>2
       DEF vars, ring, ends, IInv, TypeOK, OpenInv, LockInv, RoleInv, WriterInv, ReaderInv, Full, Empty
  <2>3. CASE pipealloc
    BY Zenon, <2>1, <2>3, pipeallocStep
  <2>4. CASE \E p \in Proc : syscall(p) \/ Inside(p) \/ pipeclose(p) \/ kill(p)
    <3>1. PICK p \in Proc : syscall(p) \/ Inside(p) \/ pipeclose(p) \/ kill(p)
      BY Zenon, <2>4
    <3>2. CASE syscall(p) \/ pipeclose(p) \/ kill(p)
      BY Zenon, <2>1, <3>2, syscallStep, pipecloseStep, killStep
    <3>3. CASE Inside(p)
      BY Zenon, <2>1, <3>3, acquireStep, pipewriteStep, readwaitStep, readcopyStep, sleepStep
         DEF Inside
    <3>q. QED BY Zenon, <3>1, <3>2, <3>3
  <2>q. QED BY Zenon, <2>1, <2>2, <2>3, <2>4 DEF Next
<1>q. QED BY <1>1, <1>2, PTL DEF Spec

\* Every variable of the pipe keeps its type, and the ring never holds more than PIPESIZE
\* bytes, across any number of wrap-arounds of nread and nwrite.
THEOREM TypeCorrect == Spec => []TypeOK
<1>1. IInv => TypeOK
  BY Zenon DEF IInv
<1>q. QED BY <1>1, Invariance, PTL

\* No process is in the code of a pipe that pipeclose() has freed, and pi->lock is held
\* exactly where pipe.c says.
THEOREM NoUseAfterFreeHolds == Spec => []NoUseAfterFree
<1>1. IInv => NoUseAfterFree
  <2>1. SUFFICES ASSUME IInv PROVE NoUseAfterFree
    OBVIOUS
  <2>2. \A p \in Proc : lock = p <=> pc[p] \in {"write", "wait", "copy", "sleep"}
    BY Zenon, <2>1 DEF IInv, LockInv, Locked
  <2>3. ~readopen /\ ~writeopen => \A p \in Proc : pc[p] = "out"
    BY Zenon, <2>1 DEF IInv, OpenInv, Proc
  <2>q. QED BY Zenon, <2>2, <2>3 DEF NoUseAfterFree
<1>q. QED BY <1>1, Invariance, PTL

\* No wakeup of pipewrite(), piperead() or pipeclose() is lost: with pi->lock free, a
\* process asleep has a reason to sleep (but for the reader that a killed writer left).
THEOREM NoLostWakeupHolds == Spec => []NoLostWakeup
<1>1. IInv => NoLostWakeup
  <2>1. SUFFICES ASSUME IInv, lock = None
                 PROVE  /\ \A p \in Writer : pc[p] = "asleep" => Full /\ readopen
                        /\ \A p \in Reader : pc[p] = "asleep" =>
                             writeopen /\ (Empty \/ \E r \in Writer : killed[r])
    BY Zenon DEF NoLostWakeup
  <2>2. \A q \in Proc : pc[q] \notin Locked
    BY Zenon, <2>1, NoHolder
  <2>q. QED BY Zenon, <2>1, <2>2, Sizes DEF IInv, WriterInv, ReaderInv, Locked
<1>q. QED BY <1>1, Invariance, PTL

-----------------------------------------------------------------------------
(* The ring is a channel                                                   *)

\* The place in the ring of the byte k after counter r.
Spot(r, k) == (r + k - 1) % PIPESIZE

\* The counter c bytes on from r is at the place of the byte after those.
LEMMA SpotOfWrite ==
  ASSUME NEW r \in 0..UINT - 1, NEW w \in 0..UINT - 1
  PROVE  w % PIPESIZE = Spot(r, Bytes(r, w) + 1)
<1>1. PICK c \in 0..UINT - 1 : c = Bytes(r, w) /\ (w = r + c \/ w = r + c - UINT)
  BY BytesType, Zenon
<1>2. CASE w = r + c
  <2>1. w = r + (c + 1) - 1
    BY <1>2, Sizes
  <2>q. QED BY Zenon, <1>1, <2>1 DEF Spot
<1>3. CASE w = r + c - UINT
  <2>1. w + UINT = r + (c + 1) - 1 /\ w \in Int
    BY <1>3, Sizes
  <2>2. (w + UINT) % PIPESIZE = w % PIPESIZE
    BY Zenon, <2>1, PipeRing, Around
  <2>q. QED BY Zenon, <1>1, <2>1, <2>2 DEF Spot
<1>q. QED BY Zenon, <1>1, <1>2, <1>3

\* A byte within the ring is not where the next one is written.
LEMMA SpotsDiffer ==
  ASSUME NEW r \in 0..UINT - 1, NEW c \in 0..PIPESIZE - 1, NEW k \in 1..c
  PROVE  Spot(r, k) # Spot(r, c + 1)
<1>1. r + k - 1 \in Int /\ c + 1 - k \in 1..PIPESIZE - 1
  BY Sizes
<1>2. ((r + k - 1) + (c + 1 - k)) % PIPESIZE # (r + k - 1) % PIPESIZE
  BY Zenon, <1>1, Apart, Sizes
<1>3. (r + k - 1) + (c + 1 - k) = r + (c + 1) - 1
  BY Sizes
<1>q. QED BY Zenon, <1>2, <1>3 DEF Spot

\* When the read counter goes on, every byte comes one nearer.
LEMMA SpotOfNext ==
  ASSUME NEW r \in 0..UINT - 1, NEW k \in Nat, k >= 1
  PROVE  Spot((r + 1) % UINT, k) = Spot(r, k + 1)
<1>1. PICK r1 \in 0..UINT - 1 : r1 = (r + 1) % UINT /\ (r1 = r + 1 \/ r1 = r + 1 - UINT)
  BY Zenon, PipeRing
<1>2. CASE r1 = r + 1
  <2>1. r1 + k - 1 = r + (k + 1) - 1
    BY <1>2, Sizes
  <2>q. QED BY Zenon, <1>1, <2>1 DEF Spot
<1>3. CASE r1 = r + 1 - UINT
  <2>1. r1 + k - 1 \in Int /\ (r1 + k - 1) + UINT = r + (k + 1) - 1
    BY <1>3, Sizes
  <2>2. ((r1 + k - 1) + UINT) % PIPESIZE = (r1 + k - 1) % PIPESIZE
    BY Zenon, <2>1, PipeRing, Around
  <2>q. QED BY Zenon, <1>1, <2>1, <2>2 DEF Spot
<1>q. QED BY Zenon, <1>1, <1>2, <1>3

\* A place in the ring.
LEMMA SpotType ==
  ASSUME NEW r \in 0..UINT - 1, NEW k \in Nat, k >= 1
  PROVE  Spot(r, k) \in 0..PIPESIZE - 1
<1>1. r + k - 1 \in Nat
  BY Sizes
<1>q. QED BY <1>1, Sizes DEF Spot

\* The bytes in the ring are a sequence.
LEMMA ContentsType ==
  ASSUME TypeOK
  PROVE  /\ Contents = [k \in 1..Bytes(nread, nwrite) |-> data[Spot(nread, k)]]
         /\ Bytes(nread, nwrite) \in 0..PIPESIZE
         /\ Contents \in Seq(Byte) /\ Len(Contents) = Bytes(nread, nwrite)
<1>1. Contents = [k \in 1..Bytes(nread, nwrite) |-> data[Spot(nread, k)]]
  BY Zenon DEF Contents, Bytes, Spot
<1>2. Bytes(nread, nwrite) \in 0..PIPESIZE
  <2>1. Bytes(nread, nwrite) \in 0..UINT - 1 /\ Bytes(nread, nwrite) <= PIPESIZE
    BY Zenon, BytesType DEF TypeOK, Bytes
  <2>q. QED BY <2>1, Sizes
<1>3. \A k \in 1..Bytes(nread, nwrite) : data[Spot(nread, k)] \in Byte
  BY <1>2, SpotType, Sizes DEF TypeOK
<1>q. QED BY <1>1, <1>2, <1>3, Sizes

\* A byte written into a ring that is not full comes after those in it.
LEMMA PutByte ==
  ASSUME TypeOK, ~Full, NEW b \in Byte, data' = [data EXCEPT ![nwrite % PIPESIZE] = b],
         nwrite' = (nwrite + 1) % UINT, UNCHANGED nread
  PROVE  Len(Contents) < PIPESIZE /\ Contents' = Append(Contents, b)
<1>1. PICK c \in 0..PIPESIZE - 1 : c = Bytes(nread, nwrite)
  <2>1. Bytes(nread, nwrite) \in 0..PIPESIZE /\ Bytes(nread, nwrite) # PIPESIZE
    BY Zenon, ContentsType, FullEmpty DEF TypeOK
  <2>q. QED BY <2>1, Sizes
<1>2. nread \in 0..UINT - 1 /\ nwrite \in 0..UINT - 1 /\ data \in [0..PIPESIZE - 1 -> Byte]
  BY Zenon DEF TypeOK
<1>3. Bytes(nread, nwrite') = c + 1
  BY <1>1, <1>2, BytesStep, Sizes
<1>4. nwrite % PIPESIZE = Spot(nread, c + 1) /\ Spot(nread, c + 1) \in 0..PIPESIZE - 1
  BY <1>1, <1>2, SpotOfWrite, SpotType, Sizes
<1>5. Contents' = [k \in 1..c + 1 |-> data'[Spot(nread, k)]]
  BY <1>3 DEF Contents, Bytes, Spot
<1>6. data'[Spot(nread, c + 1)] = b
  BY Zenon, <1>2, <1>4
<1>7. \A k \in 1..c : data'[Spot(nread, k)] = data[Spot(nread, k)]
  <2>1. SUFFICES ASSUME NEW k \in 1..c PROVE data'[Spot(nread, k)] = data[Spot(nread, k)]
    OBVIOUS
  <2>2. Spot(nread, k) # Spot(nread, c + 1) /\ Spot(nread, k) \in 0..PIPESIZE - 1
    BY <1>2, SpotsDiffer, SpotType, Sizes
  <2>q. QED BY Zenon, <1>2, <1>4, <2>2
<1>8. /\ Contents = [k \in 1..c |-> data[Spot(nread, k)]]
      /\ Contents \in Seq(Byte) /\ Len(Contents) = c
  BY Zenon, <1>1, ContentsType
<1>9. Append(Contents, b) = [k \in 1..c + 1 |-> IF k = c + 1 THEN b ELSE Contents[k]]
  BY <1>8
<1>10. \A k \in 1..c + 1 : data'[Spot(nread, k)] = IF k = c + 1 THEN b ELSE Contents[k]
  BY <1>6, <1>7, <1>8
<1>11. Contents' = Append(Contents, b)
  BY Zenon, <1>5, <1>9, <1>10
<1>12. Len(Contents) < PIPESIZE
  BY <1>8, Sizes
<1>q. QED BY Zenon, <1>11, <1>12

\* The byte read from a ring that is not empty is the oldest.
LEMMA GetByte ==
  ASSUME TypeOK, ~Empty, nread' = (nread + 1) % UINT, UNCHANGED <<data, nwrite>>
  PROVE  Contents # <<>> /\ Contents' = Tail(Contents)
<1>1. PICK c \in 1..PIPESIZE : c = Bytes(nread, nwrite)
  <2>1. Bytes(nread, nwrite) \in 0..PIPESIZE /\ Bytes(nread, nwrite) # 0
    BY Zenon, ContentsType, FullEmpty DEF TypeOK
  <2>q. QED BY <2>1, Sizes
<1>2. nread \in 0..UINT - 1 /\ nwrite \in 0..UINT - 1 /\ nread # nwrite
  BY Zenon DEF TypeOK, Empty
<1>3. Bytes(nread', nwrite) = c - 1
  BY Zenon, <1>1, <1>2, BytesStep
<1>4. Contents' = [k \in 1..c - 1 |-> data[Spot(nread', k)]]
  BY Zenon, <1>3 DEF Contents, Bytes, Spot
<1>5. \A k \in 1..c - 1 : Spot(nread', k) = Spot(nread, k + 1)
  BY <1>2, SpotOfNext
<1>6. /\ Contents = [k \in 1..c |-> data[Spot(nread, k)]]
      /\ Contents \in Seq(Byte) /\ Len(Contents) = c
  BY Zenon, <1>1, ContentsType
<1>7. Contents # <<>> /\ Tail(Contents) = [k \in 1..c - 1 |-> Contents[k + 1]]
  BY <1>6
<1>8. \A k \in 1..c - 1 : data[Spot(nread', k)] = Contents[k + 1]
  BY <1>5, <1>6
<1>q. QED BY Zenon, <1>4, <1>7, <1>8

\* Every step of the pipe is a step of the channel or leaves it alone.
LEMMA ChannelStep ==
  ASSUME IInv, [Next]_vars
  PROVE  [C!Next]_(C!vars)
<1>1. TypeOK
  BY Zenon DEF IInv
<1>2. ASSUME UNCHANGED <<data, nread, nwrite, readopen, writeopen>>
      PROVE  UNCHANGED C!vars
  BY Zenon, <1>2 DEF C!vars, Contents
<1>3. CASE UNCHANGED vars
  BY Zenon, <1>2, <1>3 DEF vars, ring, ends
<1>4. CASE pipealloc
  <2>1. Bytes(0, 0) = 0
    BY BytesExact, Sizes
  <2>2. Contents' = <<>>
    <3>1. nread' = 0 /\ nwrite' = 0
      BY Zenon, <1>4 DEF pipealloc
    <3>2. Contents' = [k \in 1..0 |-> data'[Spot(0, k)]]
      BY Zenon, <2>1, <3>1 DEF Contents, Bytes, Spot
    <3>q. QED BY <3>2
  <2>q. QED BY Zenon, <1>4, <2>2 DEF pipealloc, C!Next, C!Open
<1>5. ASSUME NEW p \in Proc, syscall(p) \/ Inside(p) \/ pipeclose(p) \/ kill(p)
      PROVE  [C!Next]_(C!vars)
  <2>1. CASE syscall(p) \/ kill(p) \/ acquire(p) \/ readwait(p) \/ sleep(p)
    BY Zenon, <1>2, <2>1 DEF syscall, kill, acquire, readwait, sleep, ring, ends
  <2>2. CASE pipewrite(p)
    <3>1. UNCHANGED <<nread, readopen, writeopen>>
      BY Zenon, <2>2 DEF pipewrite, ends
    <3>2. CASE UNCHANGED <<data, nwrite>>
      BY Zenon, <1>2, <3>1, <3>2
    <3>3. CASE ~Full /\ readopen /\ (\E b \in Byte : data' = [data EXCEPT ![nwrite % PIPESIZE] = b])
               /\ nwrite' = (nwrite + 1) % UINT
      <4>1. PICK b \in Byte : data' = [data EXCEPT ![nwrite % PIPESIZE] = b]
        BY <3>3, Zenon
      <4>2. Len(Contents) < PIPESIZE /\ Contents' = Append(Contents, b)
        BY <1>1, <3>1, <3>3, <4>1, PutByte, Zenon
      <4>3. writeopen
        BY Zenon, <2>2 DEF pipewrite, IInv, OpenInv, RoleInv
      <4>4. C!Put(b)
        BY Zenon, <3>1, <3>3, <4>2, <4>3 DEF C!Put
      <4>q. QED BY Zenon, <4>4 DEF C!Next
    <3>q. QED BY Zenon, <2>2, <3>2, <3>3 DEF pipewrite
  <2>3. CASE readcopy(p)
    <3>1. UNCHANGED <<data, nwrite, readopen, writeopen>>
      BY Zenon, <2>3 DEF readcopy, ends
    <3>2. CASE UNCHANGED nread
      BY Zenon, <1>2, <3>1, <3>2
    <3>3. CASE ~Empty /\ nread' = (nread + 1) % UINT
      <4>1. Contents # <<>> /\ Contents' = Tail(Contents)
        BY Zenon, <1>1, <3>1, <3>3, GetByte
      <4>2. readopen
        BY Zenon, <2>3 DEF readcopy, IInv, OpenInv, RoleInv
      <4>q. QED BY Zenon, <3>1, <4>1, <4>2 DEF C!Next, C!Get
    <3>q. QED BY Zenon, <2>3, <3>2, <3>3 DEF readcopy
  <2>4. CASE pipeclose(p)
    <3>1. UNCHANGED <<data, nread, nwrite>> /\ Contents' = Contents
      BY Zenon, <2>4 DEF pipeclose, ring, Contents
    <3>2. CASE UNCHANGED <<readopen, writeopen>>
      BY Zenon, <1>2, <3>1, <3>2
    <3>3. CASE users \cap Writer = {p} /\ writeopen' = FALSE /\ UNCHANGED readopen
      <4>1. writeopen
        BY Zenon, <3>3 DEF IInv, OpenInv
      <4>q. QED BY Zenon, <3>1, <3>3, <4>1 DEF C!Next, C!CloseWrite
    <3>4. CASE users \cap Reader = {p} /\ readopen' = FALSE /\ UNCHANGED writeopen
      <4>1. readopen
        BY Zenon, <3>4 DEF IInv, OpenInv
      <4>q. QED BY Zenon, <3>1, <3>4, <4>1 DEF C!Next, C!CloseRead
    <3>q. QED BY <2>4, <3>2, <3>3, <3>4, Zenon DEF pipeclose
  <2>q. QED BY Zenon, <1>5, <2>1, <2>2, <2>3, <2>4 DEF Inside
<1>q. QED BY Zenon, <1>3, <1>4, <1>5 DEF Next

\* The pipe implements the channel: what pipewrite() puts into the ring comes out of
\* piperead() once and in order, wherever the counters wrap around.
THEOREM ChannelHolds == Spec => ChannelSpec
<1>1. Init => C!Init
  <2>1. SUFFICES ASSUME Init PROVE C!Init
    OBVIOUS
  <2>2. Bytes(0, 0) = 0
    BY BytesExact, Sizes
  <2>3. Contents = [k \in 1..0 |-> data[Spot(0, k)]]
    BY Zenon, <2>1, <2>2 DEF Init, Contents, Bytes, Spot
  <2>4. Contents = <<>>
    BY <2>3
  <2>q. QED BY Zenon, <2>1, <2>4 DEF Init, C!Init
<1>2. IInv /\ [Next]_vars => [C!Next]_(C!vars)
  BY Zenon, ChannelStep
<1>q. QED BY <1>1, <1>2, Invariance, PTL DEF Spec, ChannelSpec, C!Spec

=============================================================================
