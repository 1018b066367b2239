------------------------------- MODULE Memory -------------------------------
(***************************************************************************)
(* Physical pages and user address spaces: kernel/kalloc.c, kernel/vm.c,   *)
(* exec() and what fork(), sbrk() and wait() do with them.  Processes      *)
(* share nothing here but the free list, so a call is one step; to cover   *)
(* the others taking and freeing pages meanwhile, its allocations may fail *)
(* from any one on.  A page table has a root and one more level; sizes and *)
(* addresses are in bytes, modulo the width of an address.                 *)
(***************************************************************************)
EXTENDS Integers, Sequences, FiniteSets, FiniteSetsExt, SequencesExt

CONSTANTS
  Proc, None,
  NPAGE,           \* physical pages
  PGSIZE,
  TABLE,           \* entries in a table below the root
  NVA,             \* pages of virtual addresses
  ADDR,            \* 2^64
  MaxSbrk, MaxSz,  \* bounds on the argument of sbrk(), and on the size it leads to
  Program          \* programs: sequences of segments, pairs of vaddr and memsz

\* What is assumed of the constants.
MemoryAssumption ==
  /\ {NPAGE, PGSIZE, TABLE, NVA, ADDR, MaxSbrk, MaxSz} \subseteq Nat \ {0}
  /\ (NVA - 2) \div TABLE = (NVA - 1) \div TABLE /\ ADDR > NPAGE * PGSIZE + MaxSbrk /\ NPAGE <= NVA - 2
  /\ \A segs \in Program : \A j \in DOMAIN segs : segs[j][1] % PGSIZE = 0

Page == 1..NPAGE
TRAMPOLINE == NVA - 1
TRAPFRAME == NVA - 2
USERSTACK == 1

VARIABLES
  free,            \* kmem.freelist
  pt,              \* page table: its pages, its mappings, the pages without PTE_U
  tf, sz,          \* trapframe page and size
  panicked

vars == <<free, pt, tf, sz, panicked>>

NoTable == [root |-> None, tab |-> <<>>, map |-> <<>>, guard |-> {}]

\* A call's state: the free list, allocations left, and the page table it works on.
Call(fr, n, t) == [free |-> fr, n |-> n, t |-> t, ok |-> TRUE, got |-> None, sz |-> 0, panic |-> FALSE]
Put(f, k, x) == [j \in DOMAIN f \cup {k} |-> IF j = k THEN x ELSE f[j]]
UP(a) == (a + PGSIZE - 1) \div PGSIZE
Pages(a, b) == [j \in 1..(IF b > a THEN b - a ELSE 0) |-> a + j - 1]

kalloc(s) ==
  IF s.n = 0 \/ s.free = {} THEN [s EXCEPT !.ok = FALSE]
  ELSE [s EXCEPT !.got = Min(s.free), !.free = @ \ {Min(s.free)}, !.n = @ - 1]

kfree(s, pages) == [s EXCEPT !.free = @ \cup pages, !.panic = @ \/ pages \cap s.free # {}]

\* walk() with alloc, for the page v.
walk(s, v) ==
  LET k == kalloc(s)
  IN  IF v \div TABLE \in DOMAIN s.t.tab THEN s
      ELSE IF k.ok THEN [k EXCEPT !.t.tab = Put(@, v \div TABLE, k.got)] ELSE k

mappages(s, v, page) ==
  LET w == walk(s, v)
  IN  IF w.ok THEN [w EXCEPT !.t.map = Put(@, v, page), !.panic = @ \/ v \in DOMAIN w.t.map] ELSE w

uvmunmap(s, V, dofree) ==
  LET m == s.t.map
      S == V \cap DOMAIN m
      r == IF dofree THEN kfree(s, {m[v] : v \in S}) ELSE s
  IN  [r EXCEPT !.panic = @ \/ S # V, !.t.map = [v \in DOMAIN m \ V |-> m[v]], !.t.guard = @ \ V]

\* Mutant: the first page to go is found by rounding down.
FirstGoneDown(a) == a \div PGSIZE

FirstGone(a) == UP(a)

\* Mutant: uvmdealloc() does not look whether the size wrapped around.
SmallerAny(newsz, oldsz) == TRUE

Smaller(newsz, oldsz) == newsz < oldsz

uvmdealloc(s, oldsz, newsz) ==
  IF Smaller(newsz, oldsz) THEN [uvmunmap(s, FirstGone(newsz)..UP(oldsz) - 1, TRUE) EXCEPT !.sz = newsz]
  ELSE [s EXCEPT !.sz = oldsz]

\* Mutant: the page that could not be mapped is not given back.
UnmappedKept(k) == k

\* kfree(mem), if there is one, when the new page cannot be mapped.
Unmapped(k) == IF k.ok THEN kfree(k, {k.got}) ELSE k

\* uvmalloc(): sz is the new size, or 0 on error.
uvmalloc(s, oldsz, newsz) ==
  LET add(r, v) ==
        LET k == kalloc(r)
            m == mappages(k, v, k.got)
        IN  IF ~r.ok \/ (k.ok /\ m.ok) THEN (IF r.ok THEN m ELSE r)
            ELSE [uvmdealloc(Unmapped([k EXCEPT !.n = 0]), v * PGSIZE, UP(oldsz) * PGSIZE)
                    EXCEPT !.ok = FALSE, !.sz = 0]
      e == FoldLeft(add, s, Pages(UP(oldsz), UP(newsz)))
  IN  IF newsz < oldsz THEN [s EXCEPT !.sz = oldsz]
      ELSE IF e.ok THEN [e EXCEPT !.sz = newsz] ELSE e

\* Mutant: a failed uvmcopy() leaves the pages it has copied.
CopiedNone(v) == {}

\* The pages a failed uvmcopy() unmaps.
Copied(v) == 0..v - 1

\* uvmcopy() of size bytes of the page table old.
uvmcopy(s, old, size) ==
  LET copy(r, v) ==
        LET k == kalloc(r)
            m == mappages(k, v, k.got)
        IN  IF ~r.ok THEN r
            ELSE IF k.ok /\ m.ok THEN [m EXCEPT !.t.guard = @ \cup ({v} \cap old.guard)]
            ELSE [uvmunmap(Unmapped(k), Copied(v), TRUE) EXCEPT !.ok = FALSE]
  IN  [FoldLeft(copy, s, Pages(0, UP(size))) EXCEPT !.panic = @ \/ ~(0..UP(size) - 1 \subseteq DOMAIN old.map)]

\* uvmfree() with freewalk(), which panics when a mapping is left.
uvmfree(s, size) ==
  LET r == uvmunmap(s, 0..UP(size) - 1, TRUE)
      tables == {r.t.root} \cup {r.t.tab[j] : j \in DOMAIN r.t.tab}
  IN  [kfree(r, tables) EXCEPT !.panic = @ \/ DOMAIN r.t.map # {}, !.t = NoTable]

proc_freepagetable(s, size) == uvmfree(uvmunmap(s, {TRAMPOLINE, TRAPFRAME}, FALSE), size)

\* proc_pagetable(): an empty page table, or NoTable.
proc_pagetable(s, trapframe) ==
  LET k == kalloc(s)
      a == mappages([k EXCEPT !.t = [NoTable EXCEPT !.root = k.got]], TRAMPOLINE, None)
      b == mappages(a, TRAPFRAME, trapframe)
  IN  IF ~k.ok \/ (a.ok /\ b.ok) THEN (IF k.ok THEN b ELSE k)
      ELSE [uvmfree(uvmunmap(a, IF a.ok THEN {TRAMPOLINE} ELSE {}, FALSE), 0) EXCEPT !.ok = FALSE]

\* userinit(), uvmfirst() and kinit(): one process with one page.
Init ==
  \E p \in Proc :
    LET k == Call(Page, NPAGE, NoTable)
        f == kalloc(k)
        m == uvmalloc(proc_pagetable(f, f.got), 0, PGSIZE)
    IN  /\ free = m.free
        /\ pt = [q \in Proc |-> IF q = p THEN m.t ELSE NoTable]
        /\ tf = [q \in Proc |-> IF q = p THEN f.got ELSE None]
        /\ sz = [q \in Proc |-> IF q = p THEN PGSIZE ELSE 0]
        /\ panicked = FALSE

Live(p) == tf[p] # None

\* The call ends: process p has r's page table, trapframe f and size n.
end(p, r, f, n) ==
  /\ free' = r.free /\ panicked' = (panicked \/ r.panic)
  /\ pt' = [pt EXCEPT ![p] = r.t]
  /\ tf' = [tf EXCEPT ![p] = f]
  /\ sz' = [sz EXCEPT ![p] = n]

\* growproc(n) for n > 0
grow(p, n) ==
  /\ Live(p) /\ sz[p] + n <= MaxSz
  /\ \E k \in 0..Cardinality(free) :
       \E r \in {uvmalloc(Call(free, k, pt[p]), sz[p], sz[p] + n)} :
         end(p, r, tf[p], IF r.sz = 0 THEN sz[p] ELSE r.sz)

\* growproc(-n); the new size wraps around when n is more than the size.
shrink(p, n) ==
  /\ Live(p)
  /\ \E r \in {uvmdealloc(Call(free, 0, pt[p]), sz[p], (sz[p] - n) % ADDR)} : end(p, r, tf[p], r.sz)

\* fork()'s part: allocproc() and uvmcopy(), with freeproc() when one fails.
fork(p, q) ==
  /\ Live(p) /\ ~Live(q)
  /\ \E k \in 0..Cardinality(free) :
       \E f \in {kalloc(Call(free, k, NoTable))} :
       \E t \in {proc_pagetable(f, f.got)} :
       \E u \in {uvmcopy(t, pt[p], sz[p])} :
         IF ~f.ok THEN UNCHANGED vars
         ELSE IF ~t.ok THEN end(q, kfree(t, {f.got}), None, 0)
         ELSE IF ~u.ok THEN end(q, proc_freepagetable(kfree(u, {f.got}), 0), None, 0)
         ELSE end(q, u, f.got, sz[p])

\* exec()'s loop over segments: uvmalloc() and loadseg(), which panics when a page
\* it has to fill is not there.
segment(s, g) ==
  LET r == uvmalloc(s, s.sz, g[1] + g[2])
      V == g[1] \div PGSIZE..UP(g[1] + g[2]) - 1
  IN  IF ~s.ok THEN s
      ELSE IF r.sz = 0 THEN [r EXCEPT !.ok = FALSE, !.sz = s.sz]
      ELSE [r EXCEPT !.panic = @ \/ ~(V \subseteq DOMAIN r.t.map)]

\* exec()'s stack, with a guard page below it.
stack(s) ==
  LET top == UP(s.sz) + USERSTACK + 1
      r == uvmalloc(s, UP(s.sz) * PGSIZE, top * PGSIZE)
  IN  IF ~s.ok \/ r.sz = 0 THEN [r EXCEPT !.ok = FALSE, !.sz = IF s.ok THEN UP(s.sz) * PGSIZE ELSE s.sz]
      ELSE [r EXCEPT !.t.guard = {UP(s.sz)}]

\* exec(): build a new address space and exchange it for the old one.  It may also
\* fail while it loads the program, after n segments, or when it pushes the
\* arguments, with the stack in place.
exec(p) ==
  /\ Live(p)
  /\ \E k \in 0..Cardinality(free), segs \in Program, bad \in {"none", "load", "push"} :
     \E n \in IF bad = "load" THEN 0..Len(segs) ELSE {Len(segs)} :
       \E t \in {proc_pagetable(Call(free, k, NoTable), tf[p])} :
       \E s \in {FoldLeft(segment, t, SubSeq(segs, 1, n))} :
       \E e \in {IF bad = "load" THEN s ELSE stack(s)} :
         IF ~t.ok THEN end(p, [t EXCEPT !.t = pt[p]], tf[p], sz[p])
         ELSE IF ~e.ok \/ bad # "none" THEN end(p, [proc_freepagetable(e, e.sz) EXCEPT !.t = pt[p]], tf[p], sz[p])
         ELSE end(p, [proc_freepagetable([e EXCEPT !.t = pt[p]], sz[p]) EXCEPT !.t = e.t], tf[p], e.sz)

\* freeproc(), called by wait() for a child
freeproc(p) ==
  /\ Live(p) /\ \E q \in Proc \ {p} : Live(q)
  /\ end(p, proc_freepagetable(kfree(Call(free, 0, pt[p]), {tf[p]}), sz[p]), None, 0)

Next ==
  \E p \in Proc :
    \/ \E n \in 1..MaxSbrk : grow(p, n) \/ shrink(p, n)
    \/ \E q \in Proc : fork(p, q)
    \/ exec(p) \/ freeproc(p)

Spec == Init /\ [][Next]_vars

-----------------------------------------------------------------------------
\* Every variable has its type: sizes stay below the top of user memory, and
\* a process has a page table just while it has a trapframe.
TypeOK ==
  /\ free \subseteq Page
  /\ \A p \in Proc : /\ tf[p] \in Page \cup {None} /\ sz[p] \in 0..NVA * PGSIZE
                     /\ Live(p) <=> pt[p] # NoTable

\* The pages of p's page table and of its memory.
Owned(p) ==
  ({tf[p], pt[p].root} \cup {pt[p].tab[j] : j \in DOMAIN pt[p].tab}
   \cup {pt[p].map[v] : v \in DOMAIN pt[p].map \ {TRAMPOLINE}}) \ {None}

Used(p) == Cardinality(DOMAIN pt[p].tab) + Cardinality(DOMAIN pt[p].map \ {TRAMPOLINE, TRAPFRAME}) + 2

\* Every physical page is free or has exactly one use, wherever a call failed: no
\* process shares memory with another, and none is lost.
PagesExact ==
  /\ \A p \in Proc : Owned(p) \cap free = {} /\ (Live(p) => Cardinality(Owned(p)) = Used(p))
  /\ \A p, q \in Proc : p # q => Owned(p) \cap Owned(q) = {}
  /\ free \cup UNION {Owned(p) : p \in Proc} = Page

\* An address space has the pages below its size, the trampoline and the trapframe.
SizeExact ==
  \A p \in Proc : Live(p) => /\ DOMAIN pt[p].map = 0..UP(sz[p]) - 1 \cup {TRAMPOLINE, TRAPFRAME}
                             /\ pt[p].map[TRAPFRAME] = tf[p]

\* No panic of kfree(), mappages() ("remap"), uvmunmap(), uvmcopy(), freewalk() or
\* loadseg() is reached.
NoPanic == ~panicked

\* growproc()'s comment (proc.c:270): "Grow or shrink user memory by n bytes. Return
\* 0 on success"; shrinking always returns 0.
ShrinkExact ==
  \A p \in Proc, n \in 1..MaxSbrk :
    Live(p) => uvmdealloc(Call(free, 0, pt[p]), sz[p], (sz[p] - n) % ADDR).sz = sz[p] - n
=============================================================================
