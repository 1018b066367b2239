-------------------------------- MODULE Heap --------------------------------
(***************************************************************************)
(* malloc() and free() of user programs (user/umalloc.c): a circular list  *)
(* of free blocks in the order of their addresses.  The unit of addresses  *)
(* and sizes is a header.                                                  *)
(***************************************************************************)
EXTENDS Integers, FiniteSets

CONSTANTS
  MIN,       \* units that morecore() asks for at least, 4096
  MaxUnits,  \* bound on the units of a request
  TOP,       \* bound on the break
  MaxSbrk    \* bound on the units the program takes from sbrk() for itself

\* What is assumed of the constants.
HeapAssumption == {MIN, MaxUnits, TOP} \subseteq Nat \ {0} /\ MaxSbrk \in Nat

VARIABLES
  next, size,  \* s.ptr and s.size of the header at each address
  freep,       \* Nil before the first malloc()
  brk,         \* the break, in units
  used, own    \* history: blocks that the program holds; what it took from sbrk()

vars == <<next, size, freep, brk, used, own>>

Nil == -1
base == 0      \* the program's data comes before its heap
Addr == 0..TOP

Init ==
  /\ next = [a \in Addr |-> 0] /\ size = [a \in Addr |-> 0]
  /\ freep = Nil /\ brk = 1 /\ used = {} /\ own = {}

\* The state of the list, as the functions below pass it on.
List == [next |-> next, size |-> size, freep |-> freep]

\* The loop of free(): the free block after which bp belongs.
RECURSIVE Place(_, _, _)
Place(l, bp, p) ==
  IF bp > p /\ bp < l.next[p] THEN p
  ELSE IF p >= l.next[p] /\ (bp > p \/ bp < l.next[p]) THEN p
  ELSE Place(l, bp, l.next[p])

\* Mutant: a block is not joined with the one after it.
JoinsNextNot(l, bp, p) == FALSE

\* bp ends where the next free block starts.
JoinsNext(l, bp, p) == bp + l.size[bp] = l.next[p]

\* free(): join bp with the block after it, then the block before it with bp.
Freed(l, bp) ==
  LET p == Place(l, bp, l.freep)
      q == l.next[p]
      up == IF JoinsNext(l, bp, p)
            THEN [l EXCEPT !.size[bp] = @ + l.size[q], !.next[bp] = l.next[q]]
            ELSE [l EXCEPT !.next[bp] = q]
      down == IF p + up.size[p] = bp
              THEN [up EXCEPT !.size[p] = @ + up.size[bp], !.next[p] = up.next[bp]]
              ELSE [up EXCEPT !.next[p] = bp]
  IN  [down EXCEPT !.freep = p]

\* Mutant: an allocation from a larger block leaves its size as it was.
RestWhole(s, n) == s

\* What is left of a block of s units after n are taken from its end.
Rest(s, n) == s - n

\* malloc() takes n units from p, whose predecessor is prevp: <<list, block>>
Taken(l, p, prevp, n) ==
  IF l.size[p] = n THEN <<[l EXCEPT !.next[prevp] = l.next[p], !.freep = prevp], p>>
  ELSE LET q == p + (l.size[p] - n)
       IN  <<[l EXCEPT !.size = [@ EXCEPT ![p] = Rest(@, n), ![q] = n], !.freep = prevp], q>>

\* The search of malloc() from p on; Nil when it comes round to freep without success.
RECURSIVE Search(_, _, _, _)
Search(l, p, prevp, n) ==
  IF l.size[p] >= n THEN Taken(l, p, prevp, n)
  ELSE IF p = l.freep THEN <<l, Nil>>
  ELSE Search(l, l.next[p], p, n)

Begun == IF freep = Nil THEN [List EXCEPT !.next[base] = base, !.size[base] = 0, !.freep = base] ELSE List

Found(n) == Search(Begun, Begun.next[Begun.freep], Begun.freep, n)

\* Blocks of a list.
RECURSIVE From(_, _, _)
From(nx, p, seen) == IF p \in seen THEN seen ELSE From(nx, nx[p], seen \cup {p})

\* The list is now l, and the program holds the blocks h; what is no header's field is 0.
Becomes(l, h) ==
  LET listed == From(l.next, l.freep, {})
      headers == listed \cup {b.at : b \in h}
  IN  /\ next' = [a \in Addr |-> IF a \in listed THEN l.next[a] ELSE 0]
      /\ size' = [a \in Addr |-> IF a \in headers THEN l.size[a] ELSE 0]
      /\ freep' = l.freep /\ used' = h

\* malloc() finds a block.
malloc(n) ==
  LET r == Found(n)
  IN  /\ r[2] # Nil /\ Becomes(r[1], used \cup {[at |-> r[2], units |-> n]})
      /\ UNCHANGED <<brk, own>>

Units(n) == IF n < MIN THEN MIN ELSE n

\* malloc() calls morecore(), and goes on from the block that this leaves in freep.
mallocMore(n) ==
  LET l == Freed([Begun EXCEPT !.size[brk] = Units(n)], brk)
      r == Search(l, l.next[l.freep], l.freep, n)
  IN  /\ Found(n)[2] = Nil /\ brk + Units(n) <= TOP
      /\ r[2] # Nil /\ Becomes(r[1], used \cup {[at |-> r[2], units |-> n]})
      /\ brk' = brk + Units(n)
      /\ UNCHANGED own

\* morecore() fails, and malloc() returns 0; the list may just have been set up.
mallocFail(n) ==
  /\ Found(n)[2] = Nil /\ brk + Units(n) > TOP
  /\ Becomes(Begun, used) /\ UNCHANGED <<brk, own>>

free(b) ==
  /\ b \in used
  /\ Becomes(Freed(List, b.at), used \ {b})
  /\ UNCHANGED <<brk, own>>

\* The program calls sbrk() itself.
sbrk ==
  /\ Cardinality(own) < MaxSbrk /\ brk < TOP
  /\ own' = own \cup {brk} /\ brk' = brk + 1
  /\ UNCHANGED <<next, size, freep, used>>

Next ==
  \/ sbrk
  \/ \E n \in 2..MaxUnits : malloc(n) \/ mallocMore(n) \/ mallocFail(n)
  \/ \E b \in used : free(b)

Spec == Init /\ [][Next]_vars

-----------------------------------------------------------------------------
Free == IF freep = Nil THEN {} ELSE From(next, freep, {}) \ {base}

Extent(a, n) == a..a + n - 1

\* Every unit of the heap is in one block, which is free or in use, or was taken by the
\* program itself: no two blocks overlap, and none is lost.
Partition ==
  \A a \in 1..brk - 1 :
    Cardinality({f \in Free : a \in Extent(f, size[f])})
      + Cardinality({b \in used : a \in Extent(b.at, b.units)}) = IF a \in own THEN 0 ELSE 1

\* The list goes through base, and no two of its blocks touch.
Coalesced ==
  /\ freep # Nil => base \in From(next, freep, {})
  /\ \A f \in Free : f + size[f] \notin Free
=============================================================================
