----------------------------- MODULE DiskProofs -----------------------------
(***************************************************************************)
(* The disk driver, for every number of processes, blocks and descriptors, *)
(* every size of the rings and every width of their indices: descriptors   *)
(* have one use, no ring is overrun, no completion is missed, and a        *)
(* request returns with its data moved.                                    *)
(***************************************************************************)
EXTENDS Disk, FiniteSetTheorems, WellFoundedInduction, TLAPS

\* d entries, and counters below m, a larger multiple of d, reduced modulo d where an entry is used.
IsRing(d, m) == d \in Nat /\ d > 0 /\ m \in Nat /\ m > d /\ m % d = 0

\* The entries from counter r to counter w, and the place of entry k after r.
Gap(m, r, w) == (w - r) % m
Place(d, r, k) == (r + k) % d

\* The requests that the device has not reported to the driver yet, and where they are.
Wait == {p \in Proc : pc[p] = "wait"}
Queued == Ahead(avail, taken, availidx)
Completed == Ahead(used, seen, usedidx)

\* No entry is twice in a ring.
Distinct(ring, from, to) ==
  \A j, k \in 0..Gap(UINT16, from, to) - 1 :
    ring[Place(RING, from, j)] = ring[Place(RING, from, k)] => j = k

\* A request in flight has a chain of three descriptors.
ChainOf(h) ==
  /\ h \in Desc /\ next[h] \in Desc /\ next[next[h]] \in Desc
  /\ h # next[h] /\ h # next[next[h]] /\ next[h] # next[next[h]]
ChainInv == \A p \in InFlight : ChainOf(idx[p])

\* What is not free is in use three by three, which bounds the requests in flight.
SpaceInv == IsFiniteSet(InFlight) /\ Cardinality(free) + 3 * Cardinality(InFlight) = NUM

\* The device and the rings have just the requests that wait, each in one place.
RingInv ==
  /\ Distinct(avail, taken, availidx) /\ Distinct(used, seen, usedidx)
  /\ Queued \cap busy = {} /\ Queued \cap Completed = {} /\ busy \cap Completed = {}
  /\ Queued \cup busy \cup Completed = {idx[p] : p \in Wait}
CountInv ==
  Gap(UINT16, taken, availidx) + Cardinality(busy) + Gap(UINT16, seen, usedidx) = Cardinality(Wait)

\* Processes in the driver have a buffer each, and the data of the completed
\* requests have been moved.
Moved(p) == op[p].data = platter[op[p].block]
OwnBlock ==
  /\ \A p \in Proc : pc[p] # "out" => op[p] # None
  /\ \A p, q \in Proc : p # q /\ pc[p] # "out" /\ pc[q] # "out" => op[p].block # op[q].block
DataInv ==
  \A p \in Proc : pc[p] = "done" \/ (pc[p] = "wait" /\ idx[p] \in Completed) => Moved(p)

\* The handler runs or is called while a used entry is ahead of it.
WakeInv == seen # usedidx => irq \/ intr

IInv ==
  /\ TypeOK /\ ChainInv /\ DescExact /\ SpaceInv /\ RingInv /\ CountInv
  /\ OwnBlock /\ DataInv /\ WakeInv

\* The constants, as the provers use them.
LEMMA Sizes ==
  /\ NUM \in Nat /\ NUM > 0 /\ NUM < 3 * (RING + 1)
  /\ RING \in Nat /\ RING > 0 /\ UINT16 \in Nat /\ UINT16 > RING /\ UINT16 > 0
  /\ None \notin Proc /\ None \notin Desc /\ None \notin Request
BY DiskAssumption

\* The driver's rings and indices have the sizes that the lemmas on rings ask for.
LEMMA DiskRing == IsRing(RING, UINT16)
BY DiskAssumption DEF IsRing

-----------------------------------------------------------------------------
(* Remainders                                                              *)

\* A multiple of d that lies between -d and d is 0.
LEMMA SmallMultiple ==
  ASSUME NEW d \in Nat, d > 0, NEW z \in Int, d * z < d, -d < d * z
  PROVE  z = 0
<1>1. CASE z >= 1
  <2>1. PICK y \in Nat : z = y + 1
    <3>1. z - 1 \in Nat /\ z = (z - 1) + 1
      BY <1>1
    <3>q. QED BY Zenon, <3>1
  <2>2. d * (y + 1) = d * y + d /\ d * y >= 0
    OBVIOUS
  <2>q. QED BY <2>1, <2>2
<1>2. CASE z <= -1
  <2>1. PICK y \in Nat : z = -(y + 1)
    <3>1. (-z) - 1 \in Nat /\ z = -(((-z) - 1) + 1)
      BY <1>2
    <3>q. QED BY Zenon, <3>1
  <2>2. d * (-(y + 1)) = -(d * y) - d /\ d * y >= 0
    OBVIOUS
  <2>q. QED BY <2>1, <2>2
<1>q. QED BY <1>1, <1>2

\* Quotient and remainder.
LEMMA Division ==
  ASSUME NEW d \in Nat, d > 0, NEW a \in Int
  PROVE  a \div d \in Int /\ a % d \in 0..d - 1 /\ a = d * (a \div d) + (a % d)
OBVIOUS

\* Products of integers, as the provers use them.
LEMMA Products ==
  ASSUME NEW a \in Int, NEW b \in Int, NEW c \in Int
  PROVE  a * b \in Int /\ a * (b + c) = a * b + a * c /\ a * (b - c) = a * b - a * c
OBVIOUS

\* Quotient and remainder are unique.
LEMMA Remainder ==
  ASSUME NEW d \in Nat, d > 0, NEW k \in Int, NEW r \in 0..d - 1
  PROVE  (d * k + r) % d = r
<1>1. PICK a \in Int : a = d * k + r
  <2>1. d * k + r \in Int
    BY Products
  <2>q. QED BY Zenon, <2>1
<1>2. PICK z \in Int, m \in 0..d - 1 : z = a \div d /\ m = a % d /\ a = d * z + m
  BY Zenon, Division
<1>3. d * (z - k) = r - m
  <2>1. d * (z - k) = d * z - d * k /\ d * z \in Int /\ d * k \in Int
    BY Products
  <2>q. QED BY <1>1, <1>2, <2>1
<1>4. z - k = 0
  <2>1. d * (z - k) < d /\ -d < d * (z - k)
    BY <1>3
  <2>q. QED BY <2>1, SmallMultiple
<1>5. d * (z - k) = 0
  BY <1>4
<1>q. QED BY <1>1, <1>2, <1>3, <1>5

\* Going around the counters does not move a place in the ring.
LEMMA Around ==
  ASSUME NEW d, NEW m, IsRing(d, m), NEW x \in Int
  PROVE  (x + m) % d = x % d
<1>1. PICK z \in Int : m = d * z
  <2>1. m \div d \in Int /\ m = d * (m \div d) + (m % d) /\ m % d = 0
    BY Division DEF IsRing
  <2>2. d * (m \div d) \in Int
    BY <2>1, Products DEF IsRing
  <2>3. m = d * (m \div d)
    BY <2>1, <2>2
  <2>q. QED BY Zenon, <2>1, <2>3
<1>2. PICK k \in Int, r \in 0..d - 1 : r = x % d /\ x = d * k + r
  <2>1. d \in Nat /\ d > 0
    BY DEF IsRing
  <2>q. QED BY Zenon, <2>1, Division
<1>3. x + m = d * (k + z) + r
  <2>1. d * (k + z) = d * k + d * z /\ d * k \in Int /\ d * z \in Int
    BY Products DEF IsRing
  <2>q. QED BY <1>1, <1>2, <2>1
<1>4. (d * (k + z) + r) % d = r
  BY Remainder DEF IsRing
<1>q. QED BY Zenon, <1>2, <1>3, <1>4

\* Places less than d apart are different.
LEMMA Apart ==
  ASSUME NEW d \in Nat, d > 0, NEW x \in Int, NEW e \in 1..d - 1
  PROVE  (x + e) % d # x % d
<1>1. PICK k \in Int, r \in 0..d - 1 : r = x % d /\ x = d * k + r
  BY Division
<1>2. CASE r + e < d
  <2>1. (d * k + (r + e)) % d = r + e
    BY <1>2, Remainder
  <2>2. x + e = d * k + (r + e)
    <3>1. d * k \in Int
      BY Products
    <3>q. QED BY <1>1, <3>1
  <2>q. QED BY <1>1, <2>1, <2>2
<1>3. CASE r + e >= d
  <2>1. (d * (k + 1) + (r + e - d)) % d = r + e - d
    <3>1. r + e - d \in 0..d - 1 /\ k + 1 \in Int
      BY <1>3
    <3>q. QED BY <3>1, Remainder, Zenon
  <2>2. x + e = d * (k + 1) + (r + e - d)
    <3>1. d * k \in Int /\ d * (k + 1) = d * k + d * 1 /\ d * 1 = d
      BY Products
    <3>q. QED BY <1>1, <3>1
  <2>q. QED BY <1>1, <2>1, <2>2
<1>q. QED BY <1>1, <1>2, <1>3

-----------------------------------------------------------------------------
(* Counters                                                                *)

\* The next value of a counter: it goes on, or from its last value to 0.
LEMMA NextCount ==
  ASSUME NEW m \in Nat, m > 0, NEW x \in 0..m - 1
  PROVE  /\ (x + 1) % m \in 0..m - 1
         /\ (x + 1) % m = x + 1 \/ (x + 1) % m = x + 1 - m
<1>1. CASE x + 1 < m
  <2>1. (x + 1) % m = x + 1
    BY <1>1
  <2>q. QED BY <1>1, <2>1
<1>2. CASE x + 1 = m
  <2>1. m % m = 0
    OBVIOUS
  <2>q. QED BY <1>2, <2>1
<1>q. QED BY <1>1, <1>2

\* Two counters and the gap between them, around the end or not.
LEMMA GapExact ==
  ASSUME NEW m \in Nat, m > 0, NEW r \in 0..m - 1, NEW w \in 0..m - 1, NEW c \in 0..m - 1
  PROVE  Gap(m, r, w) = c <=> (w = r + c \/ w = r + c - m)
<1>1. CASE w >= r
  <2>1. (w - r) % m = w - r
    BY <1>1
  <2>q. QED BY <1>1, <2>1 DEF Gap
<1>2. CASE w < r
  <2>1. (w - r) % m = w - r + m
    <3>1. (m * (-1) + (w - r + m)) % m = w - r + m
      BY <1>2, Remainder
    <3>2. m * (-1) + (w - r + m) = w - r
      OBVIOUS
    <3>q. QED BY Zenon, <3>1, <3>2
  <2>q. QED BY <1>2, <2>1 DEF Gap
<1>q. QED BY <1>1, <1>2

\* A gap is a count.
LEMMA GapType ==
  ASSUME NEW m \in Nat, m > 0, NEW r \in 0..m - 1, NEW w \in 0..m - 1
  PROVE  /\ Gap(m, r, w) \in 0..m - 1
         /\ w = r + Gap(m, r, w) \/ w = r + Gap(m, r, w) - m
<1>1. Gap(m, r, w) \in 0..m - 1
  BY Division DEF Gap
<1>q. QED BY <1>1, GapExact

\* A counter that goes on changes the gap by one.
LEMMA GapStep ==
  ASSUME NEW m \in Nat, m > 0, NEW r \in 0..m - 1, NEW w \in 0..m - 1
  PROVE  /\ Gap(m, r, w) + 1 < m => Gap(m, r, (w + 1) % m) = Gap(m, r, w) + 1
         /\ r # w => Gap(m, (r + 1) % m, w) = Gap(m, r, w) - 1 /\ Gap(m, r, w) > 0
<1>1. PICK c \in 0..m - 1 : c = Gap(m, r, w) /\ (w = r + c \/ w = r + c - m)
  BY GapType, Zenon
<1>2. PICK w1 \in 0..m - 1 : w1 = (w + 1) % m /\ (w1 = w + 1 \/ w1 = w + 1 - m)
  BY Zenon, NextCount
<1>3. PICK r1 \in 0..m - 1 : r1 = (r + 1) % m /\ (r1 = r + 1 \/ r1 = r + 1 - m)
  BY Zenon, NextCount
<1>4. c + 1 < m => Gap(m, r, w1) = c + 1
  <2>1. SUFFICES ASSUME c + 1 < m PROVE Gap(m, r, w1) = c + 1
    OBVIOUS
  <2>2. c + 1 \in 0..m - 1 /\ (w1 = r + (c + 1) \/ w1 = r + (c + 1) - m)
    BY <1>1, <1>2, <2>1
  <2>q. QED BY <2>2, GapExact
<1>5. r # w => Gap(m, r1, w) = c - 1 /\ c > 0
  <2>1. SUFFICES ASSUME r # w PROVE Gap(m, r1, w) = c - 1 /\ c > 0
    OBVIOUS
  <2>2. c > 0 /\ c - 1 \in 0..m - 1 /\ (w = r1 + (c - 1) \/ w = r1 + (c - 1) - m)
    BY <1>1, <1>3, <2>1
  <2>q. QED BY <2>2, GapExact
<1>q. QED BY Zenon, <1>1, <1>2, <1>3, <1>4, <1>5

-----------------------------------------------------------------------------
(* Places                                                                  *)

\* A place in the ring.
LEMMA PlaceType ==
  ASSUME NEW d \in Nat, d > 0, NEW r \in Nat, NEW k \in Nat
  PROVE  Place(d, r, k) \in 0..d - 1
BY Division DEF Place

\* The counter w is at the place after the entries from r to w.
LEMMA PlaceOfEnd ==
  ASSUME NEW d, NEW m, IsRing(d, m), NEW r \in 0..m - 1, NEW w \in 0..m - 1
  PROVE  w % d = Place(d, r, Gap(m, r, w))
<1>0. m \in Nat /\ m > 0
  BY DEF IsRing
<1>1. PICK c \in 0..m - 1 : c = Gap(m, r, w) /\ (w = r + c \/ w = r + c - m)
  BY Zenon, <1>0, GapType
<1>2. CASE w = r + c
  BY Zenon, <1>1, <1>2 DEF Place
<1>3. CASE w = r + c - m
  <2>1. w + m = r + c /\ w \in Int
    BY <1>3 DEF IsRing
  <2>2. (w + m) % d = w % d
    BY Zenon, <2>1, Around
  <2>q. QED BY Zenon, <1>1, <2>1, <2>2 DEF Place
<1>q. QED BY Zenon, <1>1, <1>2, <1>3

\* Entries of a ring that is not overrun are at different places.
LEMMA PlacesDiffer ==
  ASSUME NEW d \in Nat, d > 0, NEW r \in Nat, NEW j \in 0..d - 1, NEW k \in 0..d - 1, j # k
  PROVE  Place(d, r, j) # Place(d, r, k)
<1>1. CASE j < k
  <2>1. ((r + j) + (k - j)) % d # (r + j) % d
    <3>1. r + j \in Int /\ k - j \in 1..d - 1
      BY <1>1
    <3>q. QED BY Zenon, <3>1, Apart
  <2>2. (r + j) + (k - j) = r + k
    OBVIOUS
  <2>q. QED BY Zenon, <2>1, <2>2 DEF Place
<1>2. CASE k < j
  <2>1. ((r + k) + (j - k)) % d # (r + k) % d
    <3>1. r + k \in Int /\ j - k \in 1..d - 1
      BY <1>2
    <3>q. QED BY Zenon, <3>1, Apart
  <2>2. (r + k) + (j - k) = r + j
    OBVIOUS
  <2>q. QED BY Zenon, <2>1, <2>2 DEF Place
<1>q. QED BY <1>1, <1>2

\* When the first counter goes on, every entry comes one nearer.
LEMMA PlaceOfNext ==
  ASSUME NEW d, NEW m, IsRing(d, m), NEW r \in 0..m - 1, NEW k \in Nat
  PROVE  Place(d, (r + 1) % m, k) = Place(d, r, k + 1)
<1>1. PICK r1 \in 0..m - 1 : r1 = (r + 1) % m /\ (r1 = r + 1 \/ r1 = r + 1 - m)
  BY NextCount DEF IsRing
<1>2. CASE r1 = r + 1
  <2>1. r1 + k = r + (k + 1)
    BY <1>2 DEF IsRing
  <2>q. QED BY Zenon, <1>1, <2>1 DEF Place
<1>3. CASE r1 = r + 1 - m
  <2>1. r1 + k \in Int /\ (r1 + k) + m = r + (k + 1)
    BY <1>3 DEF IsRing
  <2>2. ((r1 + k) + m) % d = (r1 + k) % d
    BY Zenon, <2>1, Around
  <2>q. QED BY Zenon, <1>1, <2>1, <2>2 DEF Place
<1>q. QED BY Zenon, <1>1, <1>2, <1>3

-----------------------------------------------------------------------------
(* The rings                                                               *)

\* The entries of a ring, by their places.
Slots(ring, from, n) == {ring[Place(RING, from, k)] : k \in 0..n - 1}

\* The entries ahead of a reader are those at the places before the gap ends.
LEMMA AheadPlaces ==
  ASSUME NEW ring, NEW from, NEW to
  PROVE  Ahead(ring, from, to) = Slots(ring, from, Gap(UINT16, from, to))
BY Zenon DEF Ahead, Gap, Place, Slots

\* Where the next entry goes.
LEMMA EndPlace ==
  ASSUME NEW from \in 0..UINT16 - 1, NEW to \in 0..UINT16 - 1
  PROVE  to % RING = Place(RING, from, Gap(UINT16, from, to))
BY Zenon, PlaceOfEnd, DiskRing

\* Entry x has been added to a ring, and the ring and its end are now s and t.
Pushed(ring, from, to, x, s, t) ==
  /\ s \in [0..RING - 1 -> Desc] /\ t \in 0..UINT16 - 1
  /\ Gap(UINT16, from, t) = Gap(UINT16, from, to) + 1
  /\ Ahead(s, from, t) = Ahead(ring, from, to) \cup {x}
  /\ Distinct(s, from, t)

\* Entry x has been taken from a ring, which now begins at f.
Popped(ring, from, to, x, f) ==
  /\ f \in 0..UINT16 - 1 /\ x \in Ahead(ring, from, to)
  /\ Gap(UINT16, f, to) = Gap(UINT16, from, to) - 1
  /\ Ahead(ring, f, to) = Ahead(ring, from, to) \ {x}
  /\ Distinct(ring, f, to)

\* An entry added to a ring that is not full is there beside the others.
LEMMA Push ==
  ASSUME NEW ring \in [0..RING - 1 -> Desc], NEW x \in Desc,
         NEW from \in 0..UINT16 - 1, NEW to \in 0..UINT16 - 1,
         Gap(UINT16, from, to) < RING,
         Distinct(ring, from, to), x \notin Ahead(ring, from, to),
         NEW s, s = [ring EXCEPT ![to % RING] = x],
         NEW t, t = (to + 1) % UINT16
  PROVE  Pushed(ring, from, to, x, s, t)
<1>0. PICK n \in 0..UINT16 - 1 : n = Gap(UINT16, from, to)
  BY Zenon, GapType, Sizes
<1>1. n \in Nat /\ n < RING /\ n + 1 < UINT16 /\ from \in Nat
  BY <1>0, Sizes
<1>2. t \in 0..UINT16 - 1 /\ Gap(UINT16, from, t) = n + 1
  BY Zenon, <1>0, <1>1, GapStep, NextCount, Sizes
<1>3. to % RING = Place(RING, from, n)
  BY Zenon, <1>0, EndPlace
<1>4. \A k \in 0..n : k \in Nat /\ k \in 0..RING - 1 /\ Place(RING, from, k) \in 0..RING - 1
  <2>1. \A k \in 0..n : k \in Nat /\ k \in 0..RING - 1
    BY <1>1, Sizes
  <2>q. QED BY Zenon, <1>1, <2>1, PlaceType, Sizes
<1>5. \A k \in 0..n - 1 : k \in 0..n /\ k # n /\ Place(RING, from, k) # Place(RING, from, n)
  <2>1. n \in 0..n /\ \A k \in 0..n - 1 : k \in 0..n /\ k # n
    BY <1>1
  <2>q. QED BY Zenon, <1>1, <1>4, <2>1, PlacesDiffer, Sizes
<1>6. s[Place(RING, from, n)] = x
  <2>1. n \in 0..n
    BY <1>1
  <2>q. QED BY Zenon, <1>3, <1>4, <2>1
<1>7. \A k \in 0..n - 1 : s[Place(RING, from, k)] = ring[Place(RING, from, k)]
  BY Zenon, <1>3, <1>4, <1>5
<1>8. \A k : k \in 0..(n + 1) - 1 <=> k \in 0..n - 1 \/ k = n
  BY <1>1
<1>9. Ahead(s, from, t) = Ahead(ring, from, to) \cup {x}
  <2>1. Ahead(s, from, t) = Slots(s, from, n + 1)
    BY Zenon, <1>2, AheadPlaces
  <2>2. Ahead(ring, from, to) = Slots(ring, from, n)
    BY Zenon, <1>0, AheadPlaces
  <2>3. ASSUME NEW y PROVE y \in Ahead(s, from, t) <=> y \in Ahead(ring, from, to) \/ y = x
    <3>1. y \in Ahead(s, from, t) => y \in Ahead(ring, from, to) \/ y = x
      BY Zenon, <1>6, <1>7, <1>8, <2>1, <2>2 DEF Slots
    <3>2. y \in Ahead(ring, from, to) => y \in Ahead(s, from, t)
      BY Zenon, <1>7, <1>8, <2>1, <2>2 DEF Slots
    <3>3. x \in Ahead(s, from, t)
      BY Zenon, <1>6, <1>8, <2>1 DEF Slots
    <3>q. QED BY Zenon, <3>1, <3>2, <3>3
  <2>q. QED BY Zenon, <2>3
<1>10. Distinct(s, from, t)
  <2>1. \A k \in 0..n - 1 : ring[Place(RING, from, k)] # x
    <3>1. Ahead(ring, from, to) = Slots(ring, from, n)
      BY Zenon, <1>0, AheadPlaces
    <3>q. QED BY Zenon, <3>1 DEF Slots
  <2>2. \A j, k \in 0..n - 1 : ring[Place(RING, from, j)] = ring[Place(RING, from, k)] => j = k
    BY Zenon, <1>0 DEF Distinct
  <2>3. \A j, k \in 0..(n + 1) - 1 : s[Place(RING, from, j)] = s[Place(RING, from, k)] => j = k
    <3> SUFFICES ASSUME NEW j \in 0..(n + 1) - 1, NEW k \in 0..(n + 1) - 1,
                        s[Place(RING, from, j)] = s[Place(RING, from, k)]
                 PROVE  j = k
      BY Zenon
    <3>1. (j \in 0..n - 1 \/ j = n) /\ (k \in 0..n - 1 \/ k = n)
      BY Zenon, <1>8
    <3>q. QED BY Zenon, <1>6, <1>7, <2>1, <2>2, <3>1
  <2>q. QED BY Zenon, <1>2, <2>3 DEF Distinct
<1>11. s \in [0..RING - 1 -> Desc]
  BY Zenon
<1>q. QED BY Zenon, <1>0, <1>2, <1>9, <1>10, <1>11 DEF Pushed

\* The first entry of a ring that is not empty is taken from it.
LEMMA Pop ==
  ASSUME NEW ring, NEW from \in 0..UINT16 - 1, NEW to \in 0..UINT16 - 1, from # to,
         Distinct(ring, from, to),
         NEW f, f = (from + 1) % UINT16,
         NEW x, x = ring[from % RING]
  PROVE  Popped(ring, from, to, x, f)
<1>0. PICK n \in 0..UINT16 - 1 : n = Gap(UINT16, from, to)
  BY Zenon, GapType, Sizes
<1>1. n \in Nat /\ n > 0 /\ from \in Nat /\ f \in 0..UINT16 - 1 /\ Gap(UINT16, f, to) = n - 1
  <2>1. n > 0 /\ f \in 0..UINT16 - 1 /\ Gap(UINT16, f, to) = n - 1
    BY Zenon, <1>0, GapStep, NextCount, Sizes
  <2>q. QED BY <2>1, Sizes
<1>2. x = ring[Place(RING, from, 0)] /\ 0 \in 0..n - 1
  <2>1. from + 0 = from /\ 0 \in 0..n - 1
    BY <1>1
  <2>q. QED BY Zenon, <2>1 DEF Place
<1>3. \A k \in 0..(n - 1) - 1 : /\ Place(RING, f, k) = Place(RING, from, k + 1)
                                /\ k + 1 \in 0..n - 1 /\ k + 1 # 0
  <2>1. \A k \in 0..(n - 1) - 1 : k \in Nat /\ k + 1 \in 0..n - 1 /\ k + 1 # 0
    BY <1>1
  <2>q. QED BY Zenon, <2>1, PlaceOfNext, DiskRing
<1>4. \A k \in 0..n - 1 : k # 0 => \E j \in 0..(n - 1) - 1 : k = j + 1
  <2> SUFFICES ASSUME NEW k \in 0..n - 1, k # 0
               PROVE  \E j \in 0..(n - 1) - 1 : k = j + 1
    OBVIOUS
  <2>1. k - 1 \in 0..(n - 1) - 1 /\ k = (k - 1) + 1
    BY <1>1
  <2>q. QED BY Zenon, <2>1
<1>5. x \in Ahead(ring, from, to)
  <2>1. Ahead(ring, from, to) = Slots(ring, from, n)
    BY Zenon, <1>0, AheadPlaces
  <2>q. QED BY Zenon, <1>2, <2>1 DEF Slots
<1>6. ASSUME NEW y
      PROVE  y \in Ahead(ring, f, to) <=> y \in Ahead(ring, from, to) /\ y # x
  <2>a. Ahead(ring, f, to) = Slots(ring, f, n - 1)
    BY Zenon, <1>1, AheadPlaces
  <2>b. Ahead(ring, from, to) = Slots(ring, from, n)
    BY Zenon, <1>0, AheadPlaces
  <2>1. ASSUME NEW k \in 0..(n - 1) - 1, y = ring[Place(RING, f, k)]
        PROVE  y \in Ahead(ring, from, to) /\ y # x
    <3>1. y = ring[Place(RING, from, k + 1)] /\ k + 1 \in 0..n - 1 /\ k + 1 # 0
      BY Zenon, <1>3, <2>1
    <3>q. QED BY Zenon, <1>0, <1>2, <2>b, <3>1 DEF Distinct, Slots
  <2>2. ASSUME NEW k \in 0..n - 1, y = ring[Place(RING, from, k)], y # x
        PROVE  y \in Ahead(ring, f, to)
    <3>1. PICK j \in 0..(n - 1) - 1 : k = j + 1
      BY Zenon, <1>2, <1>4, <2>2
    <3>q. QED BY Zenon, <1>3, <2>a, <2>2, <3>1 DEF Slots
  <2>q. QED BY Zenon, <2>1, <2>2, <2>a, <2>b DEF Slots
<1>7. Distinct(ring, f, to)
  <2> SUFFICES ASSUME NEW j \in 0..(n - 1) - 1, NEW k \in 0..(n - 1) - 1,
                      ring[Place(RING, f, j)] = ring[Place(RING, f, k)]
               PROVE  j = k
    BY Zenon, <1>1 DEF Distinct
  <2>1. j + 1 = k + 1
    BY Zenon, <1>0, <1>3 DEF Distinct
  <2>q. QED BY <1>1, <2>1
<1>8. Ahead(ring, f, to) = Ahead(ring, from, to) \ {x}
  BY Zenon, <1>6
<1>q. QED BY Zenon, <1>0, <1>1, <1>5, <1>7, <1>8 DEF Popped

-----------------------------------------------------------------------------
(* Sets of descriptors                                                     *)

\* alloc_desc() takes a free descriptor if there is one.
LEMMA LowestIn ==
  ASSUME NEW S \in SUBSET Nat, S # {}
  PROVE  Lowest(S) \in S
<1>1. PICK m \in S : \A n \in S : ~(<<n, m>> \in OpToRel(<, Nat))
  BY Zenon, NatLessThanWellFounded, WFMin
<1>2. \A n \in S : m <= n
  <2>1. OpToRel(<, Nat) = {ss \in Nat \X Nat : ss[1] < ss[2]}
    BY Zenon DEF OpToRel
  <2>2. \A n \in S : ~(n < m)
    BY Zenon, <1>1, <2>1
  <2>3. \A n \in S : n \in Nat /\ m \in Nat
    BY Zenon
  <2>q. QED BY <2>2, <2>3
<1>q. QED BY Zenon, <1>2 DEF Lowest

\* DescExactHolds are numbers, finitely many.
LEMMA DescFinite ==
  /\ Desc \subseteq Nat /\ IsFiniteSet(Desc) /\ Cardinality(Desc) = NUM
  /\ \A S \in SUBSET Desc : IsFiniteSet(S) /\ Cardinality(S) \in Nat
<1>1. Desc \subseteq Nat /\ IsFiniteSet(Desc) /\ Cardinality(Desc) = NUM
  BY FS_Interval, Sizes DEF Desc
<1>2. \A S \in SUBSET Desc : IsFiniteSet(S) /\ Cardinality(S) \in Nat
  BY Zenon, <1>1, FS_Subset, FS_CardinalityType
<1>q. QED BY Zenon, <1>1, <1>2

\* A chain has three descriptors, and returns as many to the free ones.
LEMMA AddThree ==
  ASSUME NEW S \in SUBSET Desc, NEW a \in Desc, NEW b \in Desc, NEW c \in Desc,
         a # b, a # c, b # c, a \notin S, b \notin S, c \notin S
  PROVE  Cardinality(S \cup {a, b, c}) = Cardinality(S) + 3
<1>1. Cardinality(S) \in Nat /\ Cardinality(S \cup {a}) = Cardinality(S) + 1
  BY Zenon, DescFinite, FS_AddElement
<1>2. Cardinality((S \cup {a}) \cup {b}) = Cardinality(S \cup {a}) + 1
  <2>1. S \cup {a} \in SUBSET Desc /\ b \notin S \cup {a}
    BY Zenon
  <2>q. QED BY Zenon, <2>1, DescFinite, FS_AddElement
<1>3. Cardinality(((S \cup {a}) \cup {b}) \cup {c}) = Cardinality((S \cup {a}) \cup {b}) + 1
  <2>1. (S \cup {a}) \cup {b} \in SUBSET Desc /\ c \notin (S \cup {a}) \cup {b}
    BY Zenon
  <2>q. QED BY Zenon, <2>1, DescFinite, FS_AddElement
<1>4. ((S \cup {a}) \cup {b}) \cup {c} = S \cup {a, b, c}
  BY Zenon
<1>5. Cardinality(S \cup {a, b, c}) = Cardinality((S \cup {a}) \cup {b}) + 1
  BY Zenon, <1>3, <1>4
<1>q. QED BY <1>1, <1>2, <1>5

\* A request has three descriptors.
LEMMA ChainSize ==
  ASSUME NEW a \in Desc, NEW b \in Desc, NEW c \in Desc, a # b, a # c, b # c
  PROVE  Cardinality({a, b, c}) = 3
<1>1. Cardinality({} \cup {a, b, c}) = Cardinality({}) + 3
  BY Zenon, AddThree
<1>2. {} \cup {a, b, c} = {a, b, c} /\ Cardinality({}) = 0
  BY Zenon, FS_EmptySet
<1>3. Cardinality({a, b, c}) = Cardinality({}) + 3
  BY Zenon, <1>1, <1>2
<1>q. QED BY <1>2, <1>3

\* alloc_desc() finds a descriptor where there is one.
LEMMA TakeOne ==
  ASSUME NEW S \in SUBSET Desc, NEW n \in Nat, Cardinality(S) = n, n > 0
  PROVE  /\ Lowest(S) \in S /\ S \ {Lowest(S)} \in SUBSET Desc
         /\ Cardinality(S \ {Lowest(S)}) = n - 1
<1>1. IsFiniteSet(S) /\ S \in SUBSET Nat
  BY Zenon, DescFinite
<1>2. S # {}
  <2>1. S = {} => Cardinality(S) = 0
    BY Zenon, FS_EmptySet
  <2>q. QED BY <2>1
<1>3. Lowest(S) \in S
  BY Zenon, <1>1, <1>2, LowestIn
<1>q. QED BY Zenon, <1>1, <1>3, FS_RemoveElement

\* alloc3_desc() finds three descriptors where there are three.
LEMMA TakeThree ==
  ASSUME free \in SUBSET Desc, Cardinality(free) >= 3
  PROVE  /\ First \in free /\ Second \in free /\ Third \in free
         /\ First # Second /\ First # Third /\ Second # Third
         /\ Cardinality(free \ {First, Second, Third}) = Cardinality(free) - 3
<1> DEFINE n == Cardinality(free)
<1>0. n \in Nat
  BY Zenon, DescFinite
<1> HIDE DEF n
<1>1. n > 0 /\ n - 1 \in Nat /\ n - 1 > 0 /\ n - 1 - 1 \in Nat /\ n - 1 - 1 > 0 /\ n - 1 - 1 - 1 = n - 3
  BY <1>0 DEF n
<1>2. First \in free /\ free \ {First} \in SUBSET Desc /\ Cardinality(free \ {First}) = n - 1
  BY Zenon, <1>0, <1>1, TakeOne DEF First, n
<1>3. /\ Second \in free \ {First} /\ (free \ {First}) \ {Second} \in SUBSET Desc
      /\ Cardinality((free \ {First}) \ {Second}) = n - 1 - 1
  BY Zenon, <1>1, <1>2, TakeOne DEF Second
<1>4. (free \ {First}) \ {Second} = free \ {First, Second}
  BY Zenon
<1>5. /\ Third \in free \ {First, Second}
      /\ Cardinality((free \ {First, Second}) \ {Third}) = n - 1 - 1 - 1
  BY Zenon, <1>1, <1>3, <1>4, TakeOne DEF Third
<1>6. (free \ {First, Second}) \ {Third} = free \ {First, Second, Third}
  BY Zenon
<1>7. Cardinality(free \ {First, Second, Third}) = Cardinality(free) - 3
  BY Zenon, <1>1, <1>5, <1>6 DEF n
<1>q. QED BY Zenon, <1>2, <1>3, <1>5, <1>7

-----------------------------------------------------------------------------
(* What a step leaves alone                                                *)

Where == {"out", "alloc", "nodesc", "wait", "done"}

\* Waking the processes that want descriptors moves no other process.
LEMMA Woken ==
  ASSUME NEW f \in [Proc -> Where]
  PROVE  /\ wakefree(f) \in [Proc -> Where]
         /\ \A p \in Proc, w \in {"out", "wait", "done"} : wakefree(f)[p] = w <=> f[p] = w
<1>1. \A p \in Proc : wakefree(f)[p] = IF f[p] = "nodesc" THEN "alloc" ELSE f[p]
  BY Zenon DEF wakefree
<1>2. wakefree(f) \in [Proc -> Where]
  BY Zenon DEF wakefree, Where
<1>q. QED BY <1>1, <1>2

\* A step that moves no descriptor and no request preserves what is known of chains.
LEMMA SameChains ==
  ASSUME ChainInv, DescExact, SpaceInv, UNCHANGED <<free, next, info, idx>>, InFlight' = InFlight
  PROVE  ChainInv' /\ DescExact' /\ SpaceInv'
<1>1. ChainInv'
  BY Zenon DEF ChainInv, ChainOf
<1>2. DescExact'
  <2>1. next' = next /\ idx' = idx /\ info' = info /\ free' = free
    BY Zenon
  <2>2. UNION {Chain(idx[p]) : p \in InFlight}' = UNION {Chain(idx[p]) : p \in InFlight}
    BY Zenon, <2>1 DEF Chain
  <2>3. \A p, q \in InFlight : p # q => (Chain(idx[p]) \cap Chain(idx[q]) = {})'
    BY Zenon, <2>1 DEF DescExact, Chain
  <2>4. \A p \in InFlight : (Cardinality(Chain(idx[p])) = 3 /\ info[idx[p]] = p)'
    BY Zenon, <2>1 DEF DescExact, Chain
  <2>q. QED BY Zenon, <2>1, <2>2, <2>3, <2>4 DEF DescExact
<1>3. SpaceInv'
  BY Zenon DEF SpaceInv
<1>q. QED BY Zenon, <1>1, <1>2, <1>3

\* A step that leaves rings, device and requests alone preserves what is known of them.
LEMMA SameQueues ==
  ASSUME RingInv, CountInv, UNCHANGED <<rings, taken, busy, idx>>, Wait' = Wait
  PROVE  RingInv' /\ CountInv' /\ Completed' = Completed
<1>1. avail' = avail /\ availidx' = availidx /\ used' = used /\ usedidx' = usedidx /\ seen' = seen
  BY Zenon DEF rings
<1>2. Queued' = Queued /\ Completed' = Completed
  BY Zenon, <1>1 DEF Queued, Completed
<1>3. {idx[p] : p \in Wait}' = {idx[p] : p \in Wait}
  BY Zenon
<1>4. RingInv'
  BY Zenon, <1>1, <1>2, <1>3 DEF RingInv
<1>5. CountInv'
  BY Zenon, <1>1 DEF CountInv
<1>q. QED BY Zenon, <1>2, <1>4, <1>5

\* The processes of the driver, by their places.
LEMMA SamePlaces ==
  ASSUME \A q \in Proc, w \in {"wait", "done"} : pc'[q] = w <=> pc[q] = w
  PROVE  InFlight' = InFlight /\ Wait' = Wait
<1>1. \A q \in Proc : (pc'[q] = "wait" <=> pc[q] = "wait") /\ (pc'[q] = "done" <=> pc[q] = "done")
  BY Zenon
<1>2. InFlight' = InFlight
  BY Zenon, <1>1 DEF InFlight
<1>3. Wait' = Wait
  BY Zenon, <1>1 DEF Wait
<1>q. QED BY Zenon, <1>2, <1>3

-----------------------------------------------------------------------------
(* Each step keeps the invariant                                           *)

\* After virtio_disk_init() no request is in flight.
LEMMA InitIInv == Init => IInv
<1> SUFFICES ASSUME Init PROVE IInv
  BY Zenon
<1>1. TypeOK
  <2>1. 0 \in 0..UINT16 - 1 /\ 0 \in Desc
    BY Sizes DEF Desc
  <2>q. QED BY Zenon, <2>1 DEF Init, TypeOK
<1>2. InFlight = {} /\ Wait = {}
  BY DEF Init, InFlight, Wait
<1>3. Gap(UINT16, 0, 0) = 0
  <2>1. 0 \in 0..UINT16 - 1
    BY Sizes
  <2>q. QED BY GapExact, <2>1, Sizes
<1>4. Queued = {} /\ Completed = {}
  <2>1. 0..0 - 1 = {}
    OBVIOUS
  <2>2. Ahead(avail, 0, 0) = Slots(avail, 0, 0) /\ Ahead(used, 0, 0) = Slots(used, 0, 0)
    BY Zenon, <1>3, AheadPlaces
  <2>3. Slots(avail, 0, 0) = {} /\ Slots(used, 0, 0) = {}
    BY Zenon, <2>1 DEF Slots
  <2>q. QED BY Zenon, <2>2, <2>3 DEF Init, Queued, Completed
<1>5. Distinct(avail, taken, availidx) /\ Distinct(used, seen, usedidx)
  <2>1. 0..0 - 1 = {}
    OBVIOUS
  <2>q. QED BY Zenon, <1>3, <2>1 DEF Init, Distinct
<1>6. RingInv
  BY Zenon, <1>2, <1>4, <1>5 DEF Init, RingInv
<1>7. CountInv
  <2>1. Cardinality({}) = 0
    BY Zenon, FS_EmptySet
  <2>q. QED BY <1>2, <1>3, <2>1 DEF Init, CountInv
<1>8. ChainInv
  BY Zenon, <1>2 DEF ChainInv
<1>9. DescExact
  BY Zenon, <1>2 DEF Init, DescExact
<1>10. SpaceInv
  <2>1. Cardinality({}) = 0 /\ IsFiniteSet({})
    BY Zenon, FS_EmptySet
  <2>2. Cardinality(free) = NUM /\ NUM \in Nat
    BY Zenon, DescFinite, Sizes DEF Init
  <2>q. QED BY <1>2, <2>1, <2>2 DEF SpaceInv
<1>11. OwnBlock /\ DataInv
  BY DEF Init, OwnBlock, DataInv
<1>12. WakeInv
  BY Zenon DEF Init, WakeInv
<1>q. QED BY Zenon, <1>1, <1>6, <1>7, <1>8, <1>9, <1>10, <1>11, <1>12 DEF IInv

\* bread() and bwrite() begin a request.
LEMMA rwInv ==
  ASSUME IInv, NEW p \in Proc, rw(p)
  PROVE  IInv'
<1>0. /\ pc \in [Proc -> Where] /\ op \in [Proc -> Request \cup {None}] /\ pc[p] = "out"
      /\ \A q \in Proc : pc[q] # "out" => op[q] # None
  BY Zenon DEF IInv, TypeOK, OwnBlock, Where, rw
<1>1. PICK w \in BOOLEAN, n \in Block, v \in Val :
        /\ \A q \in Proc : op[q] # None => op[q].block # n
        /\ op' = [op EXCEPT ![p] = [write |-> w, block |-> n, data |-> v]]
  BY Zenon DEF rw
<1>2. /\ pc' = [pc EXCEPT ![p] = "alloc"]
      /\ UNCHANGED <<free, next, info, idx>> /\ UNCHANGED <<rings, taken, busy, idx>>
      /\ UNCHANGED <<seen, usedidx, irq, intr, platter>>
  BY Zenon DEF rw, rings, dev
<1>3. /\ pc'[p] = "alloc" /\ op'[p] \in Request /\ op'[p].block = n
      /\ \A q \in Proc : q # p => pc'[q] = pc[q] /\ op'[q] = op[q]
  BY <1>0, <1>1, <1>2 DEF Request
<1>4. InFlight' = InFlight /\ Wait' = Wait
  <2>1. \A q \in Proc, x \in {"wait", "done"} : pc'[q] = x <=> pc[q] = x
    BY <1>0, <1>3
  <2>q. QED BY Zenon, <2>1, SamePlaces
<1>5. TypeOK'
  <2>1. pc' \in [Proc -> Where] /\ op' \in [Proc -> Request \cup {None}]
    BY <1>0, <1>1, <1>2 DEF Where, Request
  <2>2. TypeOK /\ rings' = rings /\ dev' = dev /\ next' = next /\ info' = info /\ free' = free /\ intr' = intr /\ idx' = idx
    BY Zenon DEF IInv, rw
  <2>q. QED BY Zenon, <2>1, <2>2 DEF TypeOK, rings, dev, Where
<1>6. ChainInv' /\ DescExact' /\ SpaceInv'
  BY Zenon, <1>2, <1>4, SameChains DEF IInv
<1>7. RingInv' /\ CountInv' /\ Completed' = Completed
  BY Zenon, <1>2, <1>4, SameQueues DEF IInv
<1>8. OwnBlock'
  <2>1. op'[p] # None
    BY Zenon, <1>3, Sizes
  <2>2. \A q, r \in Proc : q # r /\ pc[q] # "out" /\ pc[r] # "out" => op[q].block # op[r].block
    BY Zenon DEF IInv, OwnBlock
  <2>3. \A q \in Proc : q # p /\ pc'[q] # "out" => op'[q].block # n /\ op'[q] # None
    BY Zenon, <1>0, <1>1, <1>3
  <2>4. ASSUME NEW q \in Proc, NEW r \in Proc, q # r, pc'[q] # "out", pc'[r] # "out"
        PROVE  op'[q].block # op'[r].block
    <3>1. CASE q = p \/ r = p
      BY Zenon, <1>3, <2>3, <2>4, <3>1
    <3>2. CASE q # p /\ r # p
      <4>1. pc'[q] = pc[q] /\ op'[q] = op[q] /\ pc'[r] = pc[r] /\ op'[r] = op[r]
        BY Zenon, <1>3, <3>2
      <4>q. QED BY Zenon, <2>2, <2>4, <4>1
    <3>q. QED BY Zenon, <3>1, <3>2
  <2>q. QED BY Zenon, <1>3, <2>1, <2>3, <2>4 DEF OwnBlock
<1>9. DataInv'
  <2>1. \A q \in Proc : q # p => (Moved(q)' <=> Moved(q))
    BY Zenon, <1>2, <1>3 DEF Moved
  <2>2. pc'[p] # "wait" /\ pc'[p] # "done"
    BY <1>3
  <2>q. QED BY Zenon, <1>2, <1>3, <1>7, <2>1, <2>2 DEF IInv, DataInv
<1>10. WakeInv'
  BY Zenon, <1>2 DEF IInv, WakeInv
<1>q. QED BY Zenon, <1>5, <1>6, <1>7, <1>8, <1>9, <1>10 DEF IInv

\* A step that only moves processes to wait for descriptors, or back.
LEMMA allocInv ==
  ASSUME IInv, UNCHANGED <<free, next, info, rings, intr, dev, op, idx>>,
         pc' \in [Proc -> Where],
         \A q \in Proc, w \in {"out", "wait", "done"} : pc'[q] = w <=> pc[q] = w
  PROVE  IInv'
<1>1. \A q \in Proc : /\ pc'[q] = "out" <=> pc[q] = "out"
                      /\ pc'[q] = "wait" <=> pc[q] = "wait"
                      /\ pc'[q] = "done" <=> pc[q] = "done"
  BY Zenon
<1>2. InFlight' = InFlight /\ Wait' = Wait
  BY Zenon, <1>1 DEF InFlight, Wait
<1>3. /\ UNCHANGED <<free, next, info, idx>> /\ UNCHANGED <<rings, taken, busy, idx>>
      /\ UNCHANGED <<seen, usedidx, irq, intr, platter, op>>
  BY Zenon DEF rings, dev
<1>4. TypeOK'
  BY Zenon DEF IInv, TypeOK, rings, dev, Where
<1>5. ChainInv' /\ DescExact' /\ SpaceInv'
  BY Zenon, <1>2, <1>3, SameChains DEF IInv
<1>6. RingInv' /\ CountInv' /\ Completed' = Completed
  BY Zenon, <1>2, <1>3, SameQueues DEF IInv
<1>7. OwnBlock'
  BY Zenon, <1>1, <1>3 DEF IInv, OwnBlock
<1>8. DataInv'
  BY Zenon, <1>1, <1>3, <1>6 DEF IInv, DataInv, Moved
<1>9. WakeInv'
  BY <1>3 DEF IInv, WakeInv
<1>q. QED BY Zenon, <1>4, <1>5, <1>6, <1>7, <1>8, <1>9 DEF IInv

\* alloc3_desc() fails and gives back what it took.
LEMMA allocfailInv ==
  ASSUME IInv, NEW p \in Proc, allocfail(p)
  PROVE  IInv'
<1>1. pc \in [Proc -> Where] /\ pc[p] = "alloc" /\ "nodesc" \in Where
  BY Zenon DEF IInv, TypeOK, Where, allocfail
<1>2. PICK f \in [Proc -> Where] : /\ pc' = [f EXCEPT ![p] = "nodesc"]
                                  /\ \A q \in Proc, w \in {"out", "wait", "done"} : f[q] = w <=> pc[q] = w
  <2>1. wakefree(pc) \in [Proc -> Where]
        /\ \A q \in Proc, w \in {"out", "wait", "done"} : wakefree(pc)[q] = w <=> pc[q] = w
    BY Zenon, <1>1, Woken
  <2>2. pc' = [pc EXCEPT ![p] = "nodesc"] \/ pc' = [wakefree(pc) EXCEPT ![p] = "nodesc"]
    BY Zenon DEF allocfail
  <2>q. QED BY Zenon, <1>1, <2>1, <2>2
<1>3. pc' \in [Proc -> Where]
  BY Zenon, <1>1, <1>2
<1>4. \A q \in Proc, w \in {"out", "wait", "done"} : pc'[q] = w <=> pc[q] = w
  BY <1>1, <1>2
<1>5. UNCHANGED <<free, next, info, rings, intr, dev, op, idx>>
  BY Zenon DEF allocfail
<1>q. QED BY Zenon, <1>3, <1>4, <1>5, allocInv

\* The handler starts and leaves: an entry it has not seen calls it again.
LEMMA handlerInv ==
  ASSUME IInv, intrack \/ intrleave \/ UNCHANGED vars
  PROVE  IInv'
<1>1. /\ UNCHANGED <<free, next, info, idx>> /\ UNCHANGED <<rings, taken, busy, idx>>
      /\ UNCHANGED <<free, next, info, avail, availidx, used, usedidx, seen, taken, busy, platter, pc, op, idx>>
  BY Zenon DEF intrack, intrleave, vars, rings, dev
<1>2. irq' \in BOOLEAN /\ intr' \in BOOLEAN
  BY Zenon DEF IInv, TypeOK, intrack, intrleave, vars, rings, dev
<1>3. TypeOK'
  BY Zenon, <1>1, <1>2 DEF IInv, TypeOK
<1>4. InFlight' = InFlight /\ Wait' = Wait
  BY Zenon, <1>1 DEF InFlight, Wait
<1>5. ChainInv' /\ DescExact' /\ SpaceInv'
  BY Zenon, <1>1, <1>4, SameChains DEF IInv
<1>6. RingInv' /\ CountInv' /\ Completed' = Completed
  BY Zenon, <1>1, <1>4, SameQueues DEF IInv
<1>7. OwnBlock'
  BY Zenon, <1>1 DEF IInv, OwnBlock
<1>8. DataInv'
  BY Zenon, <1>1, <1>6 DEF IInv, DataInv, Moved
<1>9. WakeInv'
  BY Zenon, <1>1 DEF IInv, WakeInv, intrack, intrleave, vars, dev
<1>q. QED BY Zenon, <1>3, <1>5, <1>6, <1>7, <1>8, <1>9 DEF IInv

\* The sizes of what is in flight, bounded by the descriptors.
LEMMA Numbers ==
  ASSUME IInv
  PROVE  /\ IsFiniteSet(busy) /\ IsFiniteSet(Wait) /\ IsFiniteSet(InFlight)
         /\ Cardinality(busy) \in Nat /\ Cardinality(Wait) \in Nat /\ Cardinality(InFlight) \in Nat
         /\ Gap(UINT16, taken, availidx) \in Nat /\ Gap(UINT16, seen, usedidx) \in Nat
         /\ Cardinality(Wait) <= RING
         /\ Cardinality(free) >= 3 => Cardinality(Wait) < RING
<1>1. /\ busy \in SUBSET Desc /\ free \in SUBSET Desc
      /\ taken \in 0..UINT16 - 1 /\ availidx \in 0..UINT16 - 1
      /\ seen \in 0..UINT16 - 1 /\ usedidx \in 0..UINT16 - 1
  BY Zenon DEF IInv, TypeOK
<1>2. IsFiniteSet(busy) /\ Cardinality(busy) \in Nat /\ Cardinality(free) \in Nat
  BY Zenon, <1>1, DescFinite
<1>3. IsFiniteSet(InFlight) /\ Cardinality(InFlight) \in Nat
  BY Zenon, FS_CardinalityType DEF IInv, SpaceInv
<1>4. IsFiniteSet(Wait) /\ Cardinality(Wait) \in Nat /\ Cardinality(Wait) <= Cardinality(InFlight)
  <2>1. Wait \in SUBSET InFlight
    BY Zenon DEF Wait, InFlight
  <2>q. QED BY Zenon, <1>3, <2>1, FS_Subset, FS_CardinalityType
<1>5. Gap(UINT16, taken, availidx) \in 0..UINT16 - 1 /\ Gap(UINT16, seen, usedidx) \in 0..UINT16 - 1
  BY Zenon, <1>1, GapType, Sizes
<1>6. Gap(UINT16, taken, availidx) \in Nat /\ Gap(UINT16, seen, usedidx) \in Nat
  BY <1>5, Sizes
<1>7. Cardinality(free) + 3 * Cardinality(InFlight) = NUM
  BY Zenon DEF IInv, SpaceInv
<1>8. Cardinality(Wait) <= RING
  BY <1>2, <1>3, <1>4, <1>7, Sizes
<1>9. Cardinality(free) >= 3 => Cardinality(Wait) < RING
  BY <1>2, <1>3, <1>4, <1>7, Sizes
<1>q. QED BY Zenon, <1>2, <1>3, <1>4, <1>6, <1>8, <1>9

\* A chain in a ring or at work is the one of the process its info names.
LEMMA HeadOf ==
  ASSUME IInv, NEW i \in Queued \cup busy \cup Completed
  PROVE  i \in Desc /\ info[i] \in Wait /\ idx[info[i]] = i
<1>1. PICK p \in Wait : i = idx[p]
  BY Zenon DEF IInv, RingInv
<1>2. p \in InFlight
  BY Zenon DEF Wait, InFlight
<1>3. info[i] = p
  BY Zenon, <1>1, <1>2 DEF IInv, DescExact
<1>4. i \in Desc
  BY Zenon, <1>1, <1>2 DEF IInv, ChainInv, ChainOf
<1>q. QED BY Zenon, <1>1, <1>3, <1>4

\* The device takes the next entry of the available ring.
LEMMA devtakeInv ==
  ASSUME IInv, devtake
  PROVE  IInv'
<1> DEFINE x == avail[taken % RING]
<1>0. /\ taken \in 0..UINT16 - 1 /\ availidx \in 0..UINT16 - 1 /\ taken # availidx
      /\ Distinct(avail, taken, availidx)
  BY Zenon DEF IInv, TypeOK, RingInv, devtake
<1>1. taken' = (taken + 1) % UINT16 /\ busy' = busy \cup {x}
  BY Zenon DEF devtake
<1>2. /\ UNCHANGED <<free, next, info, idx>>
      /\ UNCHANGED <<avail, availidx, used, usedidx, seen, intr, irq, platter, pc, op>>
  BY Zenon DEF devtake, rings
<1>3. /\ taken' \in 0..UINT16 - 1 /\ x \in Queued
      /\ Gap(UINT16, taken', availidx) = Gap(UINT16, taken, availidx) - 1
      /\ Ahead(avail, taken', availidx) = Queued \ {x}
      /\ Distinct(avail, taken', availidx)
  <2>1. Popped(avail, taken, availidx, x, taken')
    BY Zenon, <1>0, <1>1, Pop
  <2>q. QED BY Zenon, <2>1 DEF Queued, Popped
<1> HIDE DEF x
<1>4. Queued' = Queued \ {x} /\ Completed' = Completed
  BY Zenon, <1>2, <1>3 DEF Queued, Completed
<1>5. InFlight' = InFlight /\ Wait' = Wait
  BY Zenon, <1>2 DEF InFlight, Wait
<1>6. x \in Desc /\ x \notin busy
  <2>1. x \in Desc
    BY Zenon, <1>3, HeadOf
  <2>2. Queued \cap busy = {}
    BY Zenon DEF IInv, RingInv
  <2>q. QED BY Zenon, <1>3, <2>1, <2>2
<1>7. TypeOK'
  <2>1. busy' \subseteq Desc
    BY Zenon, <1>1, <1>6 DEF IInv, TypeOK
  <2>q. QED BY Zenon, <1>2, <1>3, <2>1 DEF IInv, TypeOK
<1>8. ChainInv' /\ DescExact' /\ SpaceInv'
  BY Zenon, <1>2, <1>5, SameChains DEF IInv
<1>9. RingInv'
  <2>1. Distinct(avail', taken', availidx') /\ Distinct(used', seen', usedidx')
    BY Zenon, <1>2, <1>3 DEF IInv, RingInv
  <2>2. {idx[p] : p \in Wait}' = {idx[p] : p \in Wait}
    BY Zenon, <1>2, <1>5
  <2>3. /\ Queued \cap busy = {} /\ Queued \cap Completed = {} /\ busy \cap Completed = {}
        /\ Queued \cup busy \cup Completed = {idx[p] : p \in Wait}
    BY Zenon DEF IInv, RingInv
  <2>4. Queued' \cup busy' \cup Completed' = Queued \cup busy \cup Completed
    BY Zenon, <1>1, <1>3, <1>4
  <2>5. Queued' \cap busy' = {} /\ Queued' \cap Completed' = {} /\ busy' \cap Completed' = {}
    BY Zenon, <1>1, <1>3, <1>4, <2>3
  <2>6. Queued' \cup busy' \cup Completed' = {idx[p] : p \in Wait}'
    BY Zenon, <2>2, <2>3, <2>4
  <2>q. QED BY Zenon, <2>1, <2>5, <2>6 DEF RingInv, Queued, Completed
<1>10. CountInv'
  <2>1. Cardinality(busy') = Cardinality(busy) + 1
    BY Zenon, <1>1, <1>6, Numbers, FS_AddElement
  <2>2. Gap(UINT16, taken, availidx) + Cardinality(busy) + Gap(UINT16, seen, usedidx) = Cardinality(Wait)
    BY Zenon DEF IInv, CountInv
  <2>3. /\ Gap(UINT16, taken', availidx') = Gap(UINT16, taken, availidx) - 1
        /\ Gap(UINT16, seen', usedidx') = Gap(UINT16, seen, usedidx)
    BY Zenon, <1>2, <1>3
  <2>4. Gap(UINT16, taken', availidx') + Cardinality(busy') + Gap(UINT16, seen', usedidx') = Cardinality(Wait)
    BY <2>1, <2>2, <2>3, Numbers
  <2>q. QED BY Zenon, <1>5, <2>4 DEF CountInv
<1>11. OwnBlock'
  BY Zenon, <1>2 DEF IInv, OwnBlock
<1>12. DataInv'
  BY Zenon, <1>2, <1>4 DEF IInv, DataInv, Moved
<1>13. WakeInv'
  BY Zenon, <1>2 DEF IInv, WakeInv
<1>q. QED BY Zenon, <1>7, <1>8, <1>9, <1>10, <1>11, <1>12, <1>13 DEF IInv

\* Heads of chains are of one process each.
LEMMA OneHead ==
  ASSUME IInv, NEW p \in InFlight, NEW q \in InFlight, idx[p] = idx[q]
  PROVE  p = q
<1>1. info[idx[p]] = p /\ info[idx[q]] = q
  BY Zenon DEF IInv, DescExact
<1>q. QED BY Zenon, <1>1

\* A turn of the loop in virtio_disk_intr(): a finished request is marked and its process woken.
LEMMA intrloopInv ==
  ASSUME IInv, intrloop
  PROVE  IInv'
<1> DEFINE x == Done
           w == info[x]
<1>0. /\ seen \in 0..UINT16 - 1 /\ usedidx \in 0..UINT16 - 1 /\ seen # usedidx
      /\ Distinct(used, seen, usedidx) /\ x = used[seen % RING]
  BY Zenon DEF IInv, TypeOK, RingInv, intrloop, Done
<1>1. seen' = (seen + 1) % UINT16 /\ pc' = [pc EXCEPT ![w] = "done"] /\ intr
  BY Zenon DEF intrloop
<1>2. /\ UNCHANGED <<free, next, info, idx>>
      /\ UNCHANGED <<avail, availidx, used, usedidx, intr, irq, taken, busy, platter, op>>
  BY Zenon DEF intrloop, dev
<1> HIDE DEF x
<1>3. /\ seen' \in 0..UINT16 - 1 /\ x \in Completed
      /\ Gap(UINT16, seen', usedidx) = Gap(UINT16, seen, usedidx) - 1
      /\ Ahead(used, seen', usedidx) = Completed \ {x}
      /\ Distinct(used, seen', usedidx)
  <2>1. Popped(used, seen, usedidx, x, seen')
    BY Zenon, <1>0, <1>1, Pop
  <2>q. QED BY Zenon, <2>1 DEF Completed, Popped
<1>4. w \in Wait /\ w \in Proc /\ idx[w] = x /\ pc[w] = "wait" /\ w \in InFlight
  <2>1. w \in Wait /\ idx[w] = x
    BY Zenon, <1>3, HeadOf
  <2>q. QED BY Zenon, <2>1 DEF Wait, InFlight
<1> HIDE DEF w
<1>5. Queued' = Queued /\ Completed' = Completed \ {x}
  BY Zenon, <1>2, <1>3 DEF Queued, Completed
<1>6. pc \in [Proc -> Where] /\ pc' \in [Proc -> Where]
  <2>1. pc \in [Proc -> Where]
    BY Zenon DEF IInv, TypeOK, Where
  <2>q. QED BY Zenon, <1>1, <2>1 DEF Where
<1>7. pc'[w] = "done" /\ \A q \in Proc : q # w => pc'[q] = pc[q]
  BY Zenon, <1>1, <1>4, <1>6
<1>8. InFlight' = InFlight /\ Wait' = Wait \ {w}
  <2>1. InFlight' = InFlight
    BY Zenon, <1>4, <1>7 DEF InFlight
  <2>2. pc'[w] # "wait"
    BY <1>7
  <2>q. QED BY Zenon, <1>7, <2>1, <2>2 DEF Wait
<1>9. TypeOK'
  BY Zenon, <1>2, <1>3, <1>6 DEF IInv, TypeOK, Where
<1>10. ChainInv' /\ DescExact' /\ SpaceInv'
  BY Zenon, <1>2, <1>8, SameChains DEF IInv
<1>11. RingInv'
  <2>1. Distinct(avail', taken', availidx') /\ Distinct(used', seen', usedidx')
    BY Zenon, <1>2, <1>3 DEF IInv, RingInv
  <2>2. {idx[p] : p \in Wait}' = {idx[p] : p \in Wait} \ {x}
    <3>1. \A p \in Wait : idx[p] = x <=> p = w
      BY Zenon, <1>4, OneHead DEF Wait, InFlight
    <3>2. {idx[p] : p \in Wait}' = {idx[p] : p \in Wait \ {w}}
      BY Zenon, <1>2, <1>8
    <3>3. {idx[p] : p \in Wait \ {w}} = {idx[p] : p \in Wait} \ {x}
      BY Zenon, <3>1
    <3>q. QED BY Zenon, <3>2, <3>3
  <2>3. /\ Queued \cap busy = {} /\ Queued \cap Completed = {} /\ busy \cap Completed = {}
        /\ Queued \cup busy \cup Completed = {idx[p] : p \in Wait}
    BY Zenon DEF IInv, RingInv
  <2>4. Queued' \cup busy' \cup Completed' = (Queued \cup busy \cup Completed) \ {x}
    BY Zenon, <1>2, <1>3, <1>5, <2>3
  <2>5. Queued' \cap busy' = {} /\ Queued' \cap Completed' = {} /\ busy' \cap Completed' = {}
    BY Zenon, <1>2, <1>5, <2>3
  <2>6. Queued' \cup busy' \cup Completed' = {idx[p] : p \in Wait}'
    BY Zenon, <2>2, <2>3, <2>4
  <2>q. QED BY Zenon, <2>1, <2>5, <2>6 DEF RingInv, Queued, Completed
<1>12. CountInv'
  <2>1. Cardinality(Wait') = Cardinality(Wait) - 1
    BY Zenon, <1>4, <1>8, Numbers, FS_RemoveElement
  <2>2. Gap(UINT16, taken, availidx) + Cardinality(busy) + Gap(UINT16, seen, usedidx) = Cardinality(Wait)
    BY Zenon DEF IInv, CountInv
  <2>3. /\ Gap(UINT16, taken', availidx') = Gap(UINT16, taken, availidx) /\ busy' = busy
        /\ Gap(UINT16, seen', usedidx') = Gap(UINT16, seen, usedidx) - 1
    BY Zenon, <1>2, <1>3
  <2>4. Gap(UINT16, taken', availidx') + Cardinality(busy') + Gap(UINT16, seen', usedidx') = Cardinality(Wait')
    BY <2>1, <2>2, <2>3, Numbers
  <2>q. QED BY Zenon, <2>4 DEF CountInv
<1>13. OwnBlock'
  <2>1. \A q \in Proc : pc'[q] # "out" => pc[q] # "out"
    BY <1>4, <1>7
  <2>q. QED BY Zenon, <1>2, <2>1 DEF IInv, OwnBlock
<1>14. DataInv'
  <2>1. \A q \in Proc : Moved(q)' <=> Moved(q)
    BY Zenon, <1>2 DEF Moved
  <2>2. Moved(w)
    BY Zenon, <1>3, <1>4 DEF IInv, DataInv
  <2>3. \A q \in Proc : q # w /\ (pc'[q] = "done" \/ (pc'[q] = "wait" /\ idx'[q] \in Completed')) => Moved(q)
    BY Zenon, <1>2, <1>5, <1>7 DEF IInv, DataInv
  <2>q. QED BY Zenon, <2>1, <2>2, <2>3 DEF DataInv
<1>15. WakeInv'
  BY Zenon, <1>1, <1>2 DEF WakeInv
<1>q. QED BY Zenon, <1>9, <1>10, <1>11, <1>12, <1>13, <1>14, <1>15 DEF IInv

\* The data the device moves for the request of w, and the data it leaves alone.
LEMMA MovesData ==
  ASSUME IInv, NEW i \in busy, devdone(i), NEW w \in Wait, w = info[i]
  PROVE  /\ op' \in [Proc -> Request \cup {None}] /\ platter' \in [Block -> Val]
         /\ op'[w] # None /\ op'[w].block = op[w].block /\ op'[w].data = platter'[op'[w].block]
         /\ \A q \in Proc : q # w => op'[q] = op[q]
         /\ \A q \in Proc : q # w /\ pc[q] # "out" => platter'[op[q].block] = platter[op[q].block]
<1>1. /\ op \in [Proc -> Request \cup {None}] /\ platter \in [Block -> Val]
      /\ w \in Proc /\ pc[w] = "wait" /\ op[w] # None
  <2>1. w \in Proc /\ pc[w] = "wait"
    BY Zenon DEF Wait
  <2>2. pc[w] # "out"
    BY <2>1
  <2>q. QED BY Zenon, <2>1, <2>2 DEF IInv, TypeOK, OwnBlock
<1>2. /\ op[w] \in Request /\ op[w].block \in Block /\ op[w].data \in Val
      /\ op[w] = [write |-> op[w].write, block |-> op[w].block, data |-> op[w].data]
  BY <1>1 DEF Request
<1>3. \A q \in Proc : q # w /\ pc[q] # "out" => op[q].block # op[w].block
  <2>1. pc[w] # "out"
    BY <1>1
  <2>q. QED BY Zenon, <1>1, <2>1 DEF IInv, OwnBlock
<1>4. CASE op[w].write
  <2>1. op' = op /\ platter' = [platter EXCEPT ![op[w].block] = op[w].data]
    BY Zenon, <1>4 DEF devdone
  <2>2. platter' \in [Block -> Val] /\ platter'[op[w].block] = op[w].data
    BY Zenon, <1>1, <1>2, <2>1
  <2>3. \A q \in Proc : q # w /\ pc[q] # "out" => op[q].block \in Block
    <3>1. \A q \in Proc : pc[q] # "out" => op[q] \in Request
      BY Zenon DEF IInv, TypeOK, OwnBlock
    <3>q. QED BY <3>1 DEF Request
  <2>4. \A q \in Proc : q # w /\ pc[q] # "out" => platter'[op[q].block] = platter[op[q].block]
    BY Zenon, <1>1, <1>3, <2>1, <2>3
  <2>q. QED BY Zenon, <1>1, <2>1, <2>2, <2>4
<1>5. CASE ~op[w].write
  <2>1. platter' = platter /\ op' = [op EXCEPT ![w].data = platter[op[w].block]]
    BY Zenon, <1>5 DEF devdone
  <2>2. op'[w] = [op[w] EXCEPT !.data = platter[op[w].block]]
    BY Zenon, <1>1, <2>1
  <2>3. op'[w] \in Request /\ op'[w].block = op[w].block /\ op'[w].data = platter[op[w].block]
    BY <1>1, <1>2, <2>2 DEF Request
  <2>4. \A q \in Proc : q # w => op'[q] = op[q]
    BY Zenon, <1>1, <2>1
  <2>5. op' \in [Proc -> Request \cup {None}]
    BY <1>1, <2>1, <2>3, <2>4
  <2>6. op'[w] # None
    BY Zenon, <2>3, Sizes
  <2>q. QED BY Zenon, <1>1, <2>1, <2>3, <2>4, <2>5, <2>6
<1>q. QED BY Zenon, <1>4, <1>5

\* The device finishes a request: data, status, an entry of the used ring, an interrupt.
LEMMA devdoneInv ==
  ASSUME IInv, NEW i \in Desc, devdone(i)
  PROVE  IInv'
<1>0. /\ seen \in 0..UINT16 - 1 /\ usedidx \in 0..UINT16 - 1 /\ used \in [0..RING - 1 -> Desc]
      /\ Distinct(used, seen, usedidx) /\ i \in busy
  BY Zenon DEF IInv, TypeOK, RingInv, devdone
<1>1. /\ busy' = busy \ {i} /\ used' = [used EXCEPT ![usedidx % RING] = i]
      /\ usedidx' = (usedidx + 1) % UINT16 /\ irq' = TRUE
  BY Zenon DEF devdone
<1>2. /\ UNCHANGED <<free, next, info, idx>>
      /\ UNCHANGED <<avail, availidx, seen, intr, taken, pc>>
  BY Zenon DEF devdone
<1>3. PICK w \in Proc : w = info[i] /\ w \in Wait /\ idx[w] = i /\ pc[w] = "wait" /\ w \in InFlight
  <2>1. info[i] \in Wait /\ idx[info[i]] = i
    BY Zenon, <1>0, HeadOf
  <2>q. QED BY Zenon, <2>1 DEF Wait, InFlight
<1>4. /\ op' \in [Proc -> Request \cup {None}] /\ platter' \in [Block -> Val]
      /\ op'[w] # None /\ op'[w].block = op[w].block /\ op'[w].data = platter'[op'[w].block]
      /\ \A q \in Proc : q # w => op'[q] = op[q]
      /\ \A q \in Proc : q # w /\ pc[q] # "out" => platter'[op[q].block] = platter[op[q].block]
  BY Zenon, <1>0, <1>3, MovesData
<1>5. /\ Gap(UINT16, taken, availidx) + Cardinality(busy) + Gap(UINT16, seen, usedidx) = Cardinality(Wait)
      /\ Cardinality(busy') = Cardinality(busy) - 1 /\ Cardinality(busy) # 0
  <2>1. Cardinality(busy) # 0
    BY Zenon, <1>0, Numbers, FS_EmptySet
  <2>2. Cardinality(busy') = Cardinality(busy) - 1
    BY Zenon, <1>0, <1>1, Numbers, FS_RemoveElement
  <2>q. QED BY Zenon, <2>1, <2>2 DEF IInv, CountInv
<1>6. /\ Queued \cap busy = {} /\ Queued \cap Completed = {} /\ busy \cap Completed = {}
      /\ Queued \cup busy \cup Completed = {idx[p] : p \in Wait}
  BY Zenon DEF IInv, RingInv
<1>7. /\ used' \in [0..RING - 1 -> Desc] /\ usedidx' \in 0..UINT16 - 1
      /\ Gap(UINT16, seen, usedidx') = Gap(UINT16, seen, usedidx) + 1
      /\ Ahead(used', seen, usedidx') = Completed \cup {i}
      /\ Distinct(used', seen, usedidx')
  <2>1. Gap(UINT16, seen, usedidx) < RING
    BY <1>5, Numbers, Sizes
  <2>2. i \notin Ahead(used, seen, usedidx)
    BY Zenon, <1>0, <1>6 DEF Completed
  <2>3. Pushed(used, seen, usedidx, i, used', usedidx')
    BY Zenon, <1>0, <1>1, <2>1, <2>2, Push
  <2>q. QED BY Zenon, <2>3 DEF Completed, Pushed
<1>8. Queued' = Queued /\ Completed' = Completed \cup {i}
  BY Zenon, <1>2, <1>7 DEF Queued, Completed
<1>9. InFlight' = InFlight /\ Wait' = Wait
  BY Zenon, <1>2 DEF InFlight, Wait
<1>10. TypeOK'
  <2>1. busy' \subseteq Desc
    BY Zenon, <1>1 DEF IInv, TypeOK
  <2>2. /\ avail' \in [0..RING - 1 -> Desc] /\ availidx' \in 0..UINT16 - 1 /\ seen' \in 0..UINT16 - 1
        /\ taken' \in 0..UINT16 - 1 /\ irq' \in BOOLEAN
    BY Zenon, <1>1, <1>2 DEF IInv, TypeOK
  <2>3. /\ free' \subseteq Desc /\ next' \in [Desc -> Desc \cup {None}] /\ info' \in [Desc -> Proc \cup {None}]
        /\ intr' \in BOOLEAN /\ idx' \in [Proc -> Desc \cup {None}]
        /\ pc' \in [Proc -> {"out", "alloc", "nodesc", "wait", "done"}]
    BY Zenon, <1>2 DEF IInv, TypeOK
  <2>q. QED BY Zenon, <1>4, <1>7, <2>1, <2>2, <2>3 DEF TypeOK
<1>11. ChainInv' /\ DescExact' /\ SpaceInv'
  BY Zenon, <1>2, <1>9, SameChains DEF IInv
<1>12. RingInv'
  <2>1. Distinct(avail', taken', availidx') /\ Distinct(used', seen', usedidx')
    BY Zenon, <1>2, <1>7 DEF IInv, RingInv
  <2>2. {idx[p] : p \in Wait}' = {idx[p] : p \in Wait}
    BY Zenon, <1>2, <1>9
  <2>4. Queued' \cup busy' \cup Completed' = Queued \cup busy \cup Completed
    BY Zenon, <1>0, <1>1, <1>8
  <2>5. Queued' \cap busy' = {} /\ Queued' \cap Completed' = {} /\ busy' \cap Completed' = {}
    BY Zenon, <1>0, <1>1, <1>6, <1>8
  <2>6. Queued' \cup busy' \cup Completed' = {idx[p] : p \in Wait}'
    BY Zenon, <1>6, <2>2, <2>4
  <2>q. QED BY Zenon, <2>1, <2>5, <2>6 DEF RingInv, Queued, Completed
<1>13. CountInv'
  <2>1. /\ Gap(UINT16, taken', availidx') = Gap(UINT16, taken, availidx)
        /\ Gap(UINT16, seen', usedidx') = Gap(UINT16, seen, usedidx) + 1
    BY Zenon, <1>2, <1>7
  <2>2. Gap(UINT16, taken', availidx') + Cardinality(busy') + Gap(UINT16, seen', usedidx') = Cardinality(Wait)
    BY <1>5, <2>1, Numbers
  <2>q. QED BY Zenon, <1>9, <2>2 DEF CountInv
<1>14. OwnBlock'
  <2>1. \A q \in Proc : pc[q] # "out" => op'[q] # None /\ op'[q].block = op[q].block
    BY Zenon, <1>4 DEF IInv, OwnBlock
  <2>q. QED BY Zenon, <1>2, <2>1 DEF IInv, OwnBlock
<1>15. DataInv'
  <2>1. Moved(w)'
    BY Zenon, <1>2, <1>4 DEF Moved
  <2>2. ASSUME NEW q \in Proc, q # w, pc'[q] = "done" \/ (pc'[q] = "wait" /\ idx'[q] \in Completed')
        PROVE  Moved(q)'
    <3>1. pc[q] = "done" \/ (pc[q] = "wait" /\ idx[q] \in Completed)
      <4>1. pc[q] = "wait" => idx[q] # i
        BY Zenon, <1>3, <2>2, OneHead DEF InFlight
      <4>q. QED BY Zenon, <1>2, <1>8, <2>2, <4>1
    <3>2. Moved(q)
      BY Zenon, <3>1 DEF IInv, DataInv
    <3>3. pc[q] # "out"
      BY <3>1
    <3>q. QED BY Zenon, <1>4, <2>2, <3>2, <3>3 DEF Moved
  <2>q. QED BY Zenon, <2>1, <2>2 DEF DataInv
<1>16. WakeInv'
  BY Zenon, <1>1 DEF WakeInv
<1>q. QED BY Zenon, <1>10, <1>11, <1>12, <1>13, <1>14, <1>15, <1>16 DEF IInv

-----------------------------------------------------------------------------
(* Chains                                                                  *)

\* A chain whose descriptors keep their links is the same chain.
LEMMA KeptChain ==
  ASSUME NEW h, ChainOf(h), \A d \in Chain(h) : next'[d] = next[d]
  PROVE  Chain(h)' = Chain(h) /\ ChainOf(h)'
<1>1. next'[h] = next[h] /\ next'[next[h]] = next[next[h]]
  BY Zenon DEF Chain
<1>2. Chain(h)' = Chain(h)
  BY Zenon, <1>1 DEF Chain
<1>3. ChainOf(h)'
  BY Zenon, <1>1 DEF ChainOf
<1>q. QED BY Zenon, <1>2, <1>3

\* The chain of a request, its descriptors and its process.
LEMMA ChainFacts ==
  ASSUME IInv, NEW p \in InFlight
  PROVE  /\ p \in Proc /\ ChainOf(idx[p]) /\ info[idx[p]] = p
         /\ Chain(idx[p]) \subseteq Desc /\ Chain(idx[p]) \cap free = {} /\ idx[p] \in Chain(idx[p])
         /\ \A q \in InFlight : q # p => Chain(idx[p]) \cap Chain(idx[q]) = {}
<1>1. p \in Proc /\ ChainOf(idx[p]) /\ info[idx[p]] = p
  BY Zenon DEF IInv, ChainInv, DescExact, InFlight
<1>2. Chain(idx[p]) \subseteq Desc
  BY Zenon, <1>1 DEF Chain, ChainOf
<1>3. Chain(idx[p]) \subseteq UNION {Chain(idx[q]) : q \in InFlight}
  BY Zenon
<1>4. free = Desc \ UNION {Chain(idx[q]) : q \in InFlight}
  BY Zenon DEF IInv, DescExact
<1>5. Chain(idx[p]) \cap free = {}
  BY Zenon, <1>3, <1>4
<1>6. idx[p] \in Chain(idx[p])
  BY Zenon DEF Chain
<1>7. \A q \in InFlight : q # p => Chain(idx[p]) \cap Chain(idx[q]) = {}
  BY Zenon DEF IInv, DescExact
<1>q. QED BY Zenon, <1>1, <1>2, <1>5, <1>6, <1>7

\* submit() makes a chain of descriptors that were free, for a process that had none.
LEMMA submitChains ==
  ASSUME IInv, NEW p \in Proc, submit(p)
  PROVE  /\ ChainInv' /\ DescExact' /\ SpaceInv'
         /\ p \notin InFlight /\ InFlight' = InFlight \cup {p}
<1>1. PICK a \in free, b \in free, c \in free :
        /\ a = First /\ b = Second /\ c = Third
        /\ a # b /\ a # c /\ b # c
        /\ Cardinality(free \ {a, b, c}) = Cardinality(free) - 3
  <2>1. free \in SUBSET Desc /\ Cardinality(free) >= 3
    BY Zenon DEF IInv, TypeOK, submit
  <2>q. QED BY Zenon, <2>1, TakeThree
<1>2. /\ a \in Desc /\ b \in Desc /\ c \in Desc
      /\ pc \in [Proc -> Where] /\ next \in [Desc -> Desc \cup {None}]
      /\ info \in [Desc -> Proc \cup {None}] /\ idx \in [Proc -> Desc \cup {None}]
  BY Zenon DEF IInv, TypeOK, Where
<1>d. a \in Desc /\ b \in Desc /\ c \in Desc /\ a # b /\ a # c /\ b # c
  BY Zenon, <1>1, <1>2
<1>3. /\ free' = free \ {a, b, c} /\ next' = [next EXCEPT ![a] = b, ![b] = c, ![c] = None]
      /\ info' = [info EXCEPT ![a] = p] /\ idx' = [idx EXCEPT ![p] = a]
      /\ pc[p] = "alloc" /\ pc' = [pc EXCEPT ![p] = "wait"]
  BY Zenon, <1>1 DEF submit
<1>4. p \notin InFlight /\ InFlight' = InFlight \cup {p}
  <2>1. pc'[p] = "wait" /\ \A q \in Proc : q # p => pc'[q] = pc[q]
    BY Zenon, <1>2, <1>3
  <2>2. p \notin InFlight
    BY <1>3 DEF InFlight
  <2>3. InFlight' = InFlight \cup {p}
    BY Zenon, <2>1 DEF InFlight
  <2>q. QED BY Zenon, <2>2, <2>3
<1>5. next'[a] = b /\ next'[b] = c /\ \A d \in Desc : d \notin {a, b, c} => next'[d] = next[d]
  BY <1>1, <1>2, <1>3
<1>6. idx'[p] = a /\ info'[a] = p
  BY Zenon, <1>2, <1>3
<1>7. Chain(idx[p])' = {a, b, c} /\ ChainOf(idx[p])'
  <2>1. Chain(idx[p])' = {a, b, c}
    BY Zenon, <1>5, <1>6 DEF Chain
  <2>2. next'[idx'[p]] = b /\ next'[next'[idx'[p]]] = c
    BY Zenon, <1>5, <1>6
  <2>3. ChainOf(idx[p])'
    BY Zenon, <1>6, <1>d, <2>2 DEF ChainOf
  <2>q. QED BY Zenon, <2>1, <2>3
<1>8. ASSUME NEW q \in InFlight
      PROVE  /\ idx'[q] = idx[q] /\ info'[idx[q]] = q
             /\ Chain(idx[q])' = Chain(idx[q]) /\ ChainOf(idx[q])'
  <2>1. /\ q \in Proc /\ ChainOf(idx[q]) /\ info[idx[q]] = q /\ idx[q] \in Chain(idx[q])
        /\ Chain(idx[q]) \subseteq Desc /\ Chain(idx[q]) \cap free = {}
    BY Zenon, ChainFacts
  <2>2. idx'[q] = idx[q]
    BY Zenon, <1>2, <1>3, <1>4, <2>1
  <2>3. \A d \in Chain(idx[q]) : next'[d] = next[d]
    BY Zenon, <1>5, <2>1
  <2>4. PICK h : h = idx[q]
    BY Zenon
  <2>5. Chain(h)' = Chain(h) /\ ChainOf(h)'
    BY Zenon, <2>1, <2>3, <2>4, KeptChain
  <2>6. info'[idx[q]] = q
    BY Zenon, <1>2, <1>3, <2>1
  <2>q. QED BY Zenon, <2>2, <2>4, <2>5, <2>6 DEF Chain, ChainOf
<1>9. ChainInv'
  BY Zenon, <1>4, <1>7, <1>8 DEF ChainInv
<1>10. DescExact'
  <2>1. \A q, r \in InFlight' : q # r => Chain(idx[q])' \cap Chain(idx[r])' = {}
    <3>1. \A q, r \in InFlight : q # r => Chain(idx[q])' \cap Chain(idx[r])' = {}
      BY Zenon, <1>8 DEF IInv, DescExact
    <3>2. \A q \in InFlight : Chain(idx[q])' \cap {a, b, c} = {}
      <4>1. \A q \in InFlight : Chain(idx[q]) \cap free = {}
        BY Zenon, ChainFacts
      <4>q. QED BY Zenon, <1>8, <4>1
    <3>q. QED BY Zenon, <1>4, <1>7, <3>1, <3>2
  <2>2. \A q \in InFlight' : (Cardinality(Chain(idx[q])) = 3 /\ info[idx[q]] = q)'
    <3>1. \A q \in InFlight : Cardinality(Chain(idx[q])') = 3
      BY Zenon, <1>8 DEF IInv, DescExact
    <3>2. Cardinality(Chain(idx[p])') = 3
      <4>1. Cardinality({a, b, c}) = 3
        BY Zenon, <1>d, ChainSize
      <4>q. QED BY Zenon, <1>7, <4>1
    <3>q. QED BY Zenon, <1>4, <1>6, <1>8, <3>1, <3>2
  <2>3. UNION {Chain(idx[q]) : q \in InFlight}' = (UNION {Chain(idx[q]) : q \in InFlight}) \cup {a, b, c}
    <3>1. {Chain(idx[q]) : q \in InFlight}' = {Chain(idx[q]) : q \in InFlight} \cup {{a, b, c}}
      <4>1. ASSUME NEW X
            PROVE  X \in {Chain(idx[q]) : q \in InFlight}' <=> X \in {Chain(idx[q]) : q \in InFlight} \/ X = {a, b, c}
        <5>1. X \in {Chain(idx[q]) : q \in InFlight}' <=> \E q \in InFlight' : X = Chain(idx[q])'
          BY Zenon
        <5>2. X \in {Chain(idx[q]) : q \in InFlight} <=> \E q \in InFlight : X = Chain(idx[q])
          BY Zenon
        <5>q. QED BY Zenon, <1>4, <1>7, <1>8, <5>1, <5>2
      <4>q. QED BY Zenon, <4>1
    <3>q. QED BY Zenon, <3>1
  <2>4. free' = Desc \ UNION {Chain(idx[q]) : q \in InFlight}'
    <3>1. free = Desc \ UNION {Chain(idx[q]) : q \in InFlight}
      BY Zenon DEF IInv, DescExact
    <3>q. QED BY Zenon, <1>3, <2>3, <3>1
  <2>q. QED BY Zenon, <2>1, <2>2, <2>4 DEF DescExact
<1>11. SpaceInv'
  <2>1. IsFiniteSet(InFlight') /\ Cardinality(InFlight') = Cardinality(InFlight) + 1
    BY Zenon, <1>4, Numbers, FS_AddElement
  <2>2. Cardinality(free') = Cardinality(free) - 3
    BY Zenon, <1>1, <1>3
  <2>3. Cardinality(free) + 3 * Cardinality(InFlight) = NUM
    BY Zenon DEF IInv, SpaceInv
  <2>4. Cardinality(free) \in Nat
    BY Zenon, DescFinite DEF IInv, TypeOK
  <2>5. Cardinality(free') + 3 * Cardinality(InFlight') = NUM
    BY <2>1, <2>2, <2>3, <2>4, Numbers
  <2>q. QED BY Zenon, <2>1, <2>5 DEF SpaceInv
<1>q. QED BY Zenon, <1>4, <1>9, <1>10, <1>11

\* virtio_disk_rw() takes three descriptors and puts their chain into the available ring.
LEMMA submitInv ==
  ASSUME IInv, NEW p \in Proc, submit(p)
  PROVE  IInv'
<1>0. PICK x \in free : x = First
  <2>1. free \in SUBSET Desc /\ Cardinality(free) >= 3
    BY Zenon DEF IInv, TypeOK, submit
  <2>q. QED BY Zenon, <2>1, TakeThree
<1>1. /\ free \subseteq Desc /\ x \in Desc /\ pc \in [Proc -> Where] /\ idx \in [Proc -> Desc \cup {None}]
      /\ avail \in [0..RING - 1 -> Desc] /\ taken \in 0..UINT16 - 1 /\ availidx \in 0..UINT16 - 1
      /\ Distinct(avail, taken, availidx)
  BY Zenon DEF IInv, TypeOK, Where, RingInv
<1>2. /\ idx' = [idx EXCEPT ![p] = x] /\ avail' = [avail EXCEPT ![availidx % RING] = x]
      /\ availidx' = (availidx + 1) % UINT16 /\ pc[p] = "alloc" /\ pc' = [pc EXCEPT ![p] = "wait"]
  BY Zenon, <1>0 DEF submit, AvailSlot
<1>3. UNCHANGED <<used, usedidx, seen, intr, irq, taken, busy, platter, op>>
  BY Zenon DEF submit, dev
<1>4. /\ ChainInv' /\ DescExact' /\ SpaceInv'
      /\ p \notin InFlight /\ InFlight' = InFlight \cup {p}
  BY Zenon, submitChains
<1>5. pc'[p] = "wait" /\ idx'[p] = x /\ \A q \in Proc : q # p => pc'[q] = pc[q] /\ idx'[q] = idx[q]
  BY Zenon, <1>1, <1>2
<1>6. Wait' = Wait \cup {p} /\ p \notin Wait
  <2>1. p \notin Wait
    BY <1>2 DEF Wait
  <2>2. Wait' = Wait \cup {p}
    BY Zenon, <1>5 DEF Wait
  <2>q. QED BY Zenon, <2>1, <2>2
<1>7. x \notin {idx[q] : q \in Wait}
  <2>1. \A q \in Wait : q \in InFlight
    BY Zenon DEF Wait, InFlight
  <2>2. \A q \in InFlight : idx[q] \notin free
    BY Zenon, ChainFacts
  <2>q. QED BY Zenon, <2>1, <2>2
<1>8. /\ Queued \cap busy = {} /\ Queued \cap Completed = {} /\ busy \cap Completed = {}
      /\ Queued \cup busy \cup Completed = {idx[q] : q \in Wait}
  BY Zenon DEF IInv, RingInv
<1>9. Gap(UINT16, taken, availidx) + Cardinality(busy) + Gap(UINT16, seen, usedidx) = Cardinality(Wait)
  BY Zenon DEF IInv, CountInv
<1>10. /\ avail' \in [0..RING - 1 -> Desc] /\ availidx' \in 0..UINT16 - 1
       /\ Gap(UINT16, taken, availidx') = Gap(UINT16, taken, availidx) + 1
       /\ Ahead(avail', taken, availidx') = Queued \cup {x}
       /\ Distinct(avail', taken, availidx')
  <2>1. Cardinality(free) >= 3
    BY Zenon DEF submit
  <2>2. Gap(UINT16, taken, availidx) < RING
    BY <1>9, <2>1, Numbers, Sizes
  <2>3. x \notin Ahead(avail, taken, availidx)
    BY Zenon, <1>7, <1>8 DEF Queued
  <2>4. Pushed(avail, taken, availidx, x, avail', availidx')
    BY Zenon, <1>1, <1>2, <2>2, <2>3, Push
  <2>q. QED BY Zenon, <2>4 DEF Queued, Pushed
<1>11. Queued' = Queued \cup {x} /\ Completed' = Completed
  BY Zenon, <1>3, <1>10 DEF Queued, Completed
<1>12. TypeOK'
  <2>1. free' \subseteq Desc /\ pc' \in [Proc -> Where] /\ idx' \in [Proc -> Desc \cup {None}]
    <3>1. free' \subseteq Desc
      BY Zenon, <1>1 DEF submit
    <3>2. pc' \in [Proc -> Where]
      BY Zenon, <1>1, <1>2 DEF Where
    <3>q. QED BY Zenon, <1>1, <1>2, <3>1, <3>2
  <2>2. info' \in [Desc -> Proc \cup {None}]
    <3>1. info \in [Desc -> Proc \cup {None}] /\ info' = [info EXCEPT ![x] = p]
      BY Zenon, <1>0 DEF IInv, TypeOK, submit
    <3>q. QED BY Zenon, <3>1
  <2>3. next' \in [Desc -> Desc \cup {None}]
    <3>1. PICK b \in Desc, c \in Desc : b = Second /\ c = Third
      <4>1. free \in SUBSET Desc /\ Cardinality(free) >= 3
        BY Zenon, <1>1 DEF submit
      <4>q. QED BY Zenon, <4>1, TakeThree
    <3>2. /\ next \in [Desc -> Desc \cup {None}]
          /\ next' = [next EXCEPT ![x] = b, ![b] = c, ![c] = None]
      BY Zenon, <1>0, <3>1 DEF IInv, TypeOK, submit
    <3>q. QED BY <1>1, <3>2
  <2>4. /\ used' \in [0..RING - 1 -> Desc] /\ usedidx' \in 0..UINT16 - 1 /\ seen' \in 0..UINT16 - 1
        /\ taken' \in 0..UINT16 - 1 /\ busy' \subseteq Desc
        /\ irq' \in BOOLEAN /\ intr' \in BOOLEAN
        /\ platter' \in [Block -> Val] /\ op' \in [Proc -> Request \cup {None}]
    BY Zenon, <1>3 DEF IInv, TypeOK
  <2>q. QED BY Zenon, <1>10, <2>1, <2>2, <2>3, <2>4 DEF TypeOK, Where
<1>13. RingInv'
  <2>1. Distinct(avail', taken', availidx') /\ Distinct(used', seen', usedidx')
    BY Zenon, <1>3, <1>10 DEF IInv, RingInv
  <2>2. {idx[q] : q \in Wait}' = {idx[q] : q \in Wait} \cup {x}
    <3>1. \A q \in Wait : idx'[q] = idx[q]
      BY Zenon, <1>5, <1>6 DEF Wait
    <3>2. {idx[q] : q \in Wait}' = {idx'[q] : q \in Wait \cup {p}}
      BY Zenon, <1>6
    <3>3. {idx'[q] : q \in Wait \cup {p}} = {idx[q] : q \in Wait} \cup {x}
      BY Zenon, <1>5, <3>1
    <3>q. QED BY Zenon, <3>2, <3>3
  <2>3. x \notin busy /\ x \notin Completed
    BY Zenon, <1>7, <1>8
  <2>4. Queued' \cup busy' \cup Completed' = (Queued \cup busy \cup Completed) \cup {x}
    BY Zenon, <1>3, <1>11
  <2>5. Queued' \cap busy' = {} /\ Queued' \cap Completed' = {} /\ busy' \cap Completed' = {}
    BY Zenon, <1>3, <1>8, <1>11, <2>3
  <2>6. Queued' \cup busy' \cup Completed' = {idx[q] : q \in Wait}'
    BY Zenon, <1>8, <2>2, <2>4
  <2>q. QED BY Zenon, <2>1, <2>5, <2>6 DEF RingInv, Queued, Completed
<1>14. CountInv'
  <2>1. Cardinality(Wait') = Cardinality(Wait) + 1
    BY Zenon, <1>6, Numbers, FS_AddElement
  <2>2. /\ Gap(UINT16, taken', availidx') = Gap(UINT16, taken, availidx) + 1 /\ busy' = busy
        /\ Gap(UINT16, seen', usedidx') = Gap(UINT16, seen, usedidx)
    BY Zenon, <1>3, <1>10
  <2>3. Gap(UINT16, taken', availidx') + Cardinality(busy') + Gap(UINT16, seen', usedidx') = Cardinality(Wait')
    BY <1>9, <2>1, <2>2, Numbers
  <2>q. QED BY Zenon, <2>3 DEF CountInv
<1>15. OwnBlock'
  <2>1. \A q \in Proc : pc'[q] # "out" => pc[q] # "out"
    BY <1>2, <1>5
  <2>q. QED BY Zenon, <1>3, <2>1 DEF IInv, OwnBlock
<1>16. DataInv'
  <2>1. \A q \in Proc : Moved(q)' <=> Moved(q)
    BY Zenon, <1>3 DEF Moved
  <2>2. pc'[p] # "done" /\ idx'[p] \notin Completed'
    <3>1. pc'[p] # "done"
      BY <1>5
    <3>q. QED BY Zenon, <1>5, <1>7, <1>8, <1>11, <3>1
  <2>q. QED BY Zenon, <1>5, <1>11, <2>1, <2>2 DEF IInv, DataInv
<1>17. WakeInv'
  BY Zenon, <1>3 DEF IInv, WakeInv
<1>q. QED BY Zenon, <1>4, <1>12, <1>13, <1>14, <1>15, <1>16, <1>17 DEF IInv

\* free_chain() frees the chain of the request that ends, and no other.
LEMMA finishChains ==
  ASSUME IInv, NEW p \in Proc, finish(p), p \in InFlight, InFlight' = InFlight \ {p}
  PROVE  ChainInv' /\ DescExact' /\ SpaceInv'
<1>1. PICK C : C = Chain(idx[p])
  BY Zenon
<1>2. /\ ChainOf(idx[p]) /\ C \subseteq Desc /\ C \cap free = {} /\ idx[p] \in C
      /\ \A q \in InFlight : q # p => C \cap Chain(idx[q]) = {}
  BY Zenon, <1>1, ChainFacts
<1>3. /\ info' = [info EXCEPT ![idx[p]] = None] /\ free' = free \cup C
      /\ next' = [d \in Desc |-> IF d \in C THEN None ELSE next[d]]
      /\ idx' = [idx EXCEPT ![p] = None]
  BY Zenon, <1>1 DEF finish
<1>4. /\ info \in [Desc -> Proc \cup {None}] /\ idx \in [Proc -> Desc \cup {None}]
      /\ free \in SUBSET Desc /\ free = Desc \ UNION {Chain(idx[q]) : q \in InFlight}
  BY Zenon DEF IInv, TypeOK, DescExact
<1>5. ASSUME NEW q \in InFlight'
      PROVE  /\ q \in InFlight /\ q # p /\ idx'[q] = idx[q] /\ info'[idx[q]] = q
             /\ Chain(idx[q])' = Chain(idx[q]) /\ ChainOf(idx[q])'
  <2>1. /\ q \in InFlight /\ q # p /\ q \in Proc /\ ChainOf(idx[q]) /\ info[idx[q]] = q
        /\ idx[q] \in Chain(idx[q]) /\ Chain(idx[q]) \subseteq Desc
    BY Zenon, ChainFacts
  <2>2. idx'[q] = idx[q]
    BY Zenon, <1>3, <1>4, <2>1
  <2>3. C \cap Chain(idx[q]) = {}
    BY Zenon, <1>2, <2>1
  <2>4. \A d \in Chain(idx[q]) : next'[d] = next[d]
    BY Zenon, <1>3, <2>1, <2>3
  <2>5. PICK h : h = idx[q]
    BY Zenon
  <2>6. Chain(h)' = Chain(h) /\ ChainOf(h)'
    BY Zenon, <2>1, <2>4, <2>5, KeptChain
  <2>7. idx[q] # idx[p] /\ idx[q] \in Desc
    BY Zenon, <1>2, <2>1, <2>3
  <2>8. info'[idx[q]] = q
    BY Zenon, <1>3, <1>4, <2>1, <2>7
  <2>9. Chain(idx[q])' = Chain(idx[q]) /\ ChainOf(idx[q])'
    BY Zenon, <2>2, <2>5, <2>6 DEF Chain, ChainOf
  <2>q. QED BY Zenon, <2>1, <2>2, <2>8, <2>9
<1>6. ChainInv'
  BY Zenon, <1>5 DEF ChainInv
<1>7. DescExact'
  <2>1. ASSUME NEW q \in InFlight', NEW r \in InFlight', q # r
        PROVE  Chain(idx[q])' \cap Chain(idx[r])' = {}
    <3>1. Chain(idx[q])' = Chain(idx[q]) /\ Chain(idx[r])' = Chain(idx[r]) /\ q \in InFlight /\ r \in InFlight
      BY Zenon, <1>5
    <3>2. Chain(idx[q]) \cap Chain(idx[r]) = {}
      BY Zenon, <2>1, <3>1 DEF IInv, DescExact
    <3>q. QED BY Zenon, <3>1, <3>2
  <2>2. ASSUME NEW q \in InFlight'
        PROVE  (Cardinality(Chain(idx[q])) = 3 /\ info[idx[q]] = q)'
    <3>1. Chain(idx[q])' = Chain(idx[q]) /\ q \in InFlight /\ idx'[q] = idx[q] /\ info'[idx[q]] = q
      BY Zenon, <1>5
    <3>2. Cardinality(Chain(idx[q])) = 3
      BY Zenon, <3>1 DEF IInv, DescExact
    <3>q. QED BY Zenon, <3>1, <3>2
  <2>3. ASSUME NEW d
        PROVE  d \in UNION {Chain(idx[q]) : q \in InFlight}' <=>
                 d \in UNION {Chain(idx[q]) : q \in InFlight} /\ d \notin C
    <3>1. d \in UNION {Chain(idx[q]) : q \in InFlight}' <=> \E q \in InFlight' : d \in Chain(idx[q])'
      BY Zenon
    <3>2. d \in UNION {Chain(idx[q]) : q \in InFlight} <=> \E q \in InFlight : d \in Chain(idx[q])
      BY Zenon
    <3>3. ASSUME NEW q \in InFlight', d \in Chain(idx[q])'
          PROVE  q \in InFlight /\ d \in Chain(idx[q]) /\ d \notin C
      <4>1. q \in InFlight /\ q # p /\ d \in Chain(idx[q])
        BY Zenon, <1>5, <3>3
      <4>q. QED BY Zenon, <1>2, <4>1
    <3>4. (\E q \in InFlight : d \in Chain(idx[q])) /\ d \notin C => \E q \in InFlight' : d \in Chain(idx[q])'
      BY Zenon, <1>1, <1>5
    <3>q. QED BY Zenon, <3>1, <3>2, <3>3, <3>4
  <2>4. free' = Desc \ UNION {Chain(idx[q]) : q \in InFlight}'
    BY Zenon, <1>2, <1>3, <1>4, <2>3
  <2>q. QED BY Zenon, <2>1, <2>2, <2>4 DEF DescExact
<1>8. SpaceInv'
  <2>1. IsFiniteSet(InFlight') /\ Cardinality(InFlight') = Cardinality(InFlight) - 1
    BY Zenon, Numbers, FS_RemoveElement
  <2>2. Cardinality(free') = Cardinality(free) + 3
    <3>1. PICK a \in Desc, b \in Desc, c \in Desc : C = {a, b, c} /\ a # b /\ a # c /\ b # c
      BY Zenon, <1>1, <1>2 DEF Chain, ChainOf
    <3>2. a \notin free /\ b \notin free /\ c \notin free
      BY Zenon, <1>2, <3>1
    <3>3. Cardinality(free \cup {a, b, c}) = Cardinality(free) + 3
      <4>1. free \in SUBSET Desc /\ a # b /\ a # c /\ b # c
        BY Zenon, <1>4, <3>1
      <4>q. QED BY Zenon, <3>2, <4>1, AddThree
    <3>q. QED BY Zenon, <1>3, <3>1, <3>3
  <2>3. Cardinality(free) + 3 * Cardinality(InFlight) = NUM
    BY Zenon DEF IInv, SpaceInv
  <2>4. Cardinality(free) \in Nat
    BY Zenon, <1>4, DescFinite
  <2>5. Cardinality(free') + 3 * Cardinality(InFlight') = NUM
    BY <2>1, <2>2, <2>3, <2>4, Numbers
  <2>q. QED BY Zenon, <2>1, <2>5 DEF SpaceInv
<1>q. QED BY Zenon, <1>6, <1>7, <1>8

\* virtio_disk_rw() ends: the chain is freed and those who wait for descriptors are woken.
LEMMA finishInv ==
  ASSUME IInv, NEW p \in Proc, finish(p)
  PROVE  IInv'
<1>1. /\ pc \in [Proc -> Where] /\ pc[p] = "done" /\ p \in InFlight /\ p \notin Wait
      /\ "out" \in Where
  <2>1. pc \in [Proc -> Where] /\ pc[p] = "done" /\ p \in InFlight /\ "out" \in Where
    BY Zenon DEF IInv, TypeOK, Where, finish, InFlight
  <2>2. p \notin Wait
    BY <2>1 DEF Wait
  <2>q. QED BY Zenon, <2>1, <2>2
<1>2. /\ op' = [op EXCEPT ![p] = None] /\ idx' = [idx EXCEPT ![p] = None]
      /\ UNCHANGED <<avail, availidx, used, usedidx, seen, intr, irq, taken, busy, platter>>
  BY Zenon DEF finish, rings, dev
<1>3. PICK f \in [Proc -> Where] : f = [pc EXCEPT ![p] = "out"] /\ pc' = wakefree(f)
  BY Zenon, <1>1 DEF finish, finished
<1>4. pc' \in [Proc -> Where] /\ \A q \in Proc, w \in {"out", "wait", "done"} : pc'[q] = w <=> f[q] = w
  <2>1. pc' = wakefree(f)
    BY Zenon, <1>3
  <2>2. wakefree(f) \in [Proc -> Where] /\ \A q \in Proc, w \in {"out", "wait", "done"} : wakefree(f)[q] = w <=> f[q] = w
    BY Zenon, Woken
  <2>q. QED BY Zenon, <2>1, <2>2
<1>5. f[p] = "out" /\ \A q \in Proc : q # p => f[q] = pc[q]
  BY Zenon, <1>1, <1>3
<1>6. /\ pc'[p] = "out"
      /\ \A q \in Proc \ {p} : (pc'[q] = "out" <=> pc[q] = "out")
      /\ \A q \in Proc \ {p} : (pc'[q] = "wait" <=> pc[q] = "wait")
      /\ \A q \in Proc \ {p} : (pc'[q] = "done" <=> pc[q] = "done")
  BY Zenon, <1>4, <1>5
<1>7. pc'[p] # "wait" /\ pc'[p] # "done"
  BY <1>6
<1>8. InFlight' = InFlight \ {p} /\ Wait' = Wait
  <2>1. InFlight' = InFlight \ {p}
    BY Zenon, <1>6, <1>7 DEF InFlight
  <2>2. Wait' = Wait
    BY Zenon, <1>1, <1>6, <1>7 DEF Wait
  <2>q. QED BY Zenon, <2>1, <2>2
<1>9. ChainInv' /\ DescExact' /\ SpaceInv'
  BY Zenon, <1>1, <1>8, finishChains
<1>10. op'[p] = None /\ \A q \in Proc : q # p => op'[q] = op[q] /\ idx'[q] = idx[q]
  BY Zenon, <1>2 DEF IInv, TypeOK
<1>11. Queued' = Queued /\ Completed' = Completed
  BY Zenon, <1>2 DEF Queued, Completed
<1>12. TypeOK'
  <2>1. op' \in [Proc -> Request \cup {None}] /\ idx' \in [Proc -> Desc \cup {None}]
    BY Zenon, <1>2 DEF IInv, TypeOK
  <2>2. info' \in [Desc -> Proc \cup {None}]
    BY Zenon DEF IInv, TypeOK, finish
  <2>3. next' \in [Desc -> Desc \cup {None}]
    <3>1. next \in [Desc -> Desc \cup {None}]
      BY Zenon DEF IInv, TypeOK
    <3>q. QED BY Zenon, <3>1 DEF finish
  <2>4. free' \subseteq Desc
    <3>1. Chain(idx[p]) \subseteq Desc
      BY Zenon, <1>1, ChainFacts
    <3>q. QED BY Zenon, <3>1 DEF IInv, TypeOK, finish
  <2>5. /\ avail' \in [0..RING - 1 -> Desc] /\ availidx' \in 0..UINT16 - 1
        /\ used' \in [0..RING - 1 -> Desc] /\ usedidx' \in 0..UINT16 - 1 /\ seen' \in 0..UINT16 - 1
        /\ taken' \in 0..UINT16 - 1 /\ busy' \subseteq Desc
        /\ irq' \in BOOLEAN /\ intr' \in BOOLEAN /\ platter' \in [Block -> Val]
    BY Zenon, <1>2 DEF IInv, TypeOK
  <2>q. QED BY Zenon, <1>4, <2>1, <2>2, <2>3, <2>4, <2>5 DEF TypeOK, Where
<1>13. RingInv' /\ CountInv'
  <2>1. {idx[q] : q \in Wait}' = {idx[q] : q \in Wait}
    <3>1. \A q \in Wait : idx'[q] = idx[q]
      BY Zenon, <1>1, <1>10 DEF Wait
    <3>q. QED BY Zenon, <1>8, <3>1
  <2>2. RingInv'
    BY Zenon, <1>2, <1>11, <2>1 DEF IInv, RingInv
  <2>3. CountInv'
    BY Zenon, <1>2, <1>8 DEF IInv, CountInv
  <2>q. QED BY Zenon, <2>2, <2>3
<1>14. OwnBlock'
  <2>1. \A q \in Proc : pc'[q] # "out" => q # p /\ pc[q] # "out"
    BY Zenon, <1>6
  <2>2. \A q \in Proc : pc'[q] # "out" => op'[q] = op[q] /\ op[q] # None
    BY Zenon, <1>10, <2>1 DEF IInv, OwnBlock
  <2>3. \A q, r \in Proc : q # r /\ pc[q] # "out" /\ pc[r] # "out" => op[q].block # op[r].block
    BY Zenon DEF IInv, OwnBlock
  <2>q. QED BY Zenon, <2>1, <2>2, <2>3 DEF OwnBlock
<1>15. DataInv'
  <2>1. \A q \in Proc : q # p => (Moved(q)' <=> Moved(q))
    BY Zenon, <1>2, <1>10 DEF Moved
  <2>q. QED BY Zenon, <1>6, <1>7, <1>10, <1>11, <2>1 DEF IInv, DataInv
<1>16. WakeInv'
  BY Zenon, <1>2 DEF IInv, WakeInv
<1>q. QED BY Zenon, <1>9, <1>12, <1>13, <1>14, <1>15, <1>16 DEF IInv

-----------------------------------------------------------------------------
(* The driver                                                              *)

\* Every step of the driver and of the device preserves IInv.
LEMMA NextIInv == IInv /\ [Next]_vars => IInv'
<1> SUFFICES ASSUME IInv, [Next]_vars PROVE IInv'
  BY Zenon
<1>1. ASSUME NEW p \in Proc, Step(p) PROVE IInv'
  BY Zenon, <1>1, rwInv, allocfailInv, submitInv, finishInv DEF Step
<1>2. CASE Device
  BY Zenon, <1>2, devtakeInv, devdoneInv DEF Device
<1>3. CASE Handler
  BY Zenon, <1>3, handlerInv, intrloopInv DEF Handler
<1>4. CASE UNCHANGED vars
  BY Zenon, <1>4, handlerInv
<1>q. QED BY Zenon, <1>1, <1>2, <1>3, <1>4 DEF Next

\* The inductive invariant: requests, chains, rings and data agree.
THEOREM Invariance == Spec => []IInv
<1>1. QED BY InitIInv, NextIInv, PTL DEF Spec

\* virtio_disk_rw() and free_chain(): every descriptor is free or in the chain
\* of one request, so none is freed twice or given to two requests.
THEOREM DescExactHolds == Spec => []DescExact
<1>1. IInv => DescExact
  BY Zenon DEF IInv
<1>q. QED BY Invariance, <1>1, PTL

\* A process leaves virtio_disk_rw() with the data of its own request moved,
\* in whatever order the device completes requests.
THEOREM TransferredHolds == Spec => []Transferred
<1>1. IInv => Transferred
  BY Zenon DEF IInv, DataInv, Moved, Transferred
<1>q. QED BY Invariance, <1>1, PTL

\* virtio_disk_intr(): the acknowledgement before the loop over the used ring
\* loses no completion, with an interrupt at any point of the loop.
THEOREM NoLostInterruptHolds == Spec => []NoLostInterrupt
<1>1. IInv => NoLostInterrupt
  <2> SUFFICES ASSUME IInv PROVE NoLostInterrupt
    BY Zenon
  <2>1. \A p \in Proc : pc[p] = "wait" => idx[p] \in Queued \cup busy \cup Completed
    BY Zenon DEF IInv, RingInv, Wait
  <2>2. seen # usedidx => irq \/ intr
    BY Zenon DEF IInv, WakeInv
  <2>q. QED BY Zenon, <2>1, <2>2 DEF NoLostInterrupt, Queued, Completed
<1>q. QED BY Invariance, <1>1, PTL

\* An entry of a ring is overwritten only after it was read: entries ahead of
\* the reader never fill more than the ring, though the indices go around.
NoOverrun == Gap(UINT16, taken, availidx) <= RING /\ Gap(UINT16, seen, usedidx) <= RING

\* Neither virtio_disk_rw() nor the device ever overwrites an entry that has not been read.
THEOREM NoOverrunHolds == Spec => []NoOverrun
<1>1. IInv => NoOverrun
  <2> SUFFICES ASSUME IInv PROVE NoOverrun
    BY Zenon
  <2>1. Gap(UINT16, taken, availidx) + Cardinality(busy) + Gap(UINT16, seen, usedidx) = Cardinality(Wait)
    BY Zenon DEF IInv, CountInv
  <2>q. QED BY <2>1, Numbers, Sizes DEF NoOverrun
<1>q. QED BY Invariance, <1>1, PTL
=============================================================================
