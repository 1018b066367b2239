------------------------------ MODULE CopyUser ------------------------------
(***************************************************************************)
(* copyout(), copyin() and copyinstr() (kernel/vm.c): the kernel's access  *)
(* to user memory, page by page.                                           *)
(***************************************************************************)
EXTENDS Integers, Sequences

CONSTANTS
  PGSIZE, NPAGE,   \* bytes of a page, and pages below MAXVA
  ADDR,            \* addresses are modulo ADDR
  MaxLen           \* bound on the bytes asked for

\* What is assumed of the constants.
CopyAssumption == {PGSIZE, NPAGE, MaxLen} \subseteq Nat \ {0} /\ ADDR > PGSIZE * NPAGE

MAXVA == PGSIZE * NPAGE
Page == 0..NPAGE - 1

VARIABLES
  op, va0, len0, mem0,   \* the call: what to do, where, how much, and user memory before it
  pte,                   \* permissions of the pages: {} is not mapped
  mem, dst,              \* user memory; bytes copied to the kernel
  va, len, got_null, ret

call == <<op, va0, len0, mem0, pte>>
vars == <<call, mem, dst, va, len, got_null, ret>>

Byte == {0, 1}
Src(k) == 10 + k      \* the kernel's k-th byte

\* Contents matter to copyinstr() alone, and PTE_W to copyout().
Init ==
  /\ op \in {"out", "in", "str"}
  /\ va0 \in 0..ADDR - 1 /\ len0 \in 0..MaxLen
  /\ mem0 \in IF op = "str" THEN [0..MAXVA - 1 -> Byte] ELSE {[a \in 0..MAXVA - 1 |-> a]}
  /\ pte \in [Page -> IF op = "out" THEN {{}, {"V"}, {"V", "U"}, {"V", "U", "W"}} ELSE {{}, {"V"}, {"V", "U"}}]
  /\ mem = mem0 /\ dst = <<>> /\ va = va0 /\ len = len0 /\ got_null = FALSE /\ ret = "none"

Down(a) == a - (a % PGSIZE)

\* Mutant: any page that is mapped will do.
AllowedMapped(a, p) == a < MAXVA /\ "V" \in pte[a \div PGSIZE]

\* walkaddr(), or the tests of copyout(): the page at a has the permissions p.
Allowed(a, p) == a < MAXVA /\ p \subseteq pte[a \div PGSIZE]

\* n: the bytes to copy in this page.
InPage == LET n == PGSIZE - (va - Down(va)) IN IF n > len THEN len ELSE n

Fail(p) == ~Allowed(Down(va), p) /\ ret' = "error" /\ UNCHANGED <<mem, dst, va, len, got_null>>

Advance(n) == va' = (Down(va) + PGSIZE) % ADDR /\ len' = len - n

\* Mutant: copyout() only asks for a page of the user's.
OutPermsRead == {"V", "U"}

OutPerms == {"V", "U", "W"}

\* Loop of copyout()
copyout ==
  /\ op = "out" /\ ret = "none" /\ len > 0
  /\ \/ Fail(OutPerms)
     \/ /\ Allowed(Down(va), OutPerms)
        /\ mem' = [a \in DOMAIN mem |-> IF a \in va..va + InPage - 1 THEN Src(len0 - len + (a - va)) ELSE mem[a]]
        /\ Advance(InPage) /\ UNCHANGED <<dst, got_null, ret>>
  /\ UNCHANGED call

\* Loop of copyin()
copyin ==
  /\ op = "in" /\ ret = "none" /\ len > 0
  /\ \/ Fail({"V", "U"})
     \/ /\ Allowed(Down(va), {"V", "U"})
        /\ dst' = dst \o [k \in 1..InPage |-> mem[va + k - 1]]
        /\ Advance(InPage) /\ UNCHANGED <<mem, got_null, ret>>
  /\ UNCHANGED call

\* Mutant: the byte after a full buffer is taken for the end of the string.
NullsMax(n) == {k \in 1..n : mem[va + k - 1] = 0 \/ (k = n /\ n = len)}

\* Where the page's part of a string has its ends.
Nulls(n) == {k \in 1..n : mem[va + k - 1] = 0}

\* Loop of copyinstr(), with the loop in it
copyinstr ==
  /\ op = "str" /\ ret = "none" /\ len > 0 /\ ~got_null
  /\ \/ Fail({"V", "U"})
     \/ /\ Allowed(Down(va), {"V", "U"})
        /\ LET ends == Nulls(InPage)
               k == IF ends = {} THEN InPage ELSE CHOOSE z \in ends : \A y \in ends : z <= y
           IN  /\ dst' = dst \o [x \in 1..k |-> mem[va + x - 1]]
               /\ got_null' = (ends # {})
               /\ Advance(IF ends = {} THEN k ELSE k - 1)
        /\ UNCHANGED <<mem, ret>>
  /\ UNCHANGED call

\* The loops are over.
finish ==
  /\ ret = "none" /\ (len = 0 \/ got_null)
  /\ ret' = IF op = "str" /\ ~got_null THEN "error" ELSE "ok"
  /\ UNCHANGED <<call, mem, dst, va, len, got_null>>

Next == copyout \/ copyin \/ copyinstr \/ finish

Spec == Init /\ [][Next]_vars

-----------------------------------------------------------------------------
\* The reference: the bytes from va0 on that may be accessed, up to the first that may not.
Good(p) ==
  LET usable(x) == \E g \in Page : (va0 + x) % ADDR \in g * PGSIZE..(g + 1) * PGSIZE - 1 /\ p \subseteq pte[g]
  IN  CHOOSE k \in 0..len0 : (\A x \in 0..k - 1 : usable(x)) /\ (k < len0 => ~usable(k))

Returned(o) == op = o /\ ret # "none"

\* copyout() succeeds exactly when all of the range is the user's to write; it has then
\* written all of it, otherwise what comes before the first page that is not, and never
\* anything else.
CopyoutExact ==
  LET k == Good({"V", "U", "W"})
  IN  Returned("out") =>
        /\ ret = IF k = len0 THEN "ok" ELSE "error"
        /\ mem = [a \in DOMAIN mem |-> IF a \in va0..va0 + k - 1 THEN Src(a - va0) ELSE mem0[a]]

\* copyin() succeeds exactly when all of the range is the user's to read, and what it
\* copies is that range.
CopyinExact ==
  LET k == Good({"V", "U"})
  IN  Returned("in") =>
        ret = (IF k = len0 THEN "ok" ELSE "error") /\ dst = [x \in 1..k |-> mem0[va0 + x - 1]]

\* copyinstr() succeeds exactly when the string ends within max bytes that may be read,
\* even if what follows in its page, or the next page, may not; it copies the string with
\* its end, and never more than max bytes.
CopyinstrExact ==
  LET k == Good({"V", "U"})
      ends == {x \in 1..k : mem0[va0 + x - 1] = 0}
      upto == IF ends = {} THEN k ELSE CHOOSE z \in ends : \A y \in ends : z <= y
  IN  Returned("str") =>
        ret = (IF ends # {} THEN "ok" ELSE "error") /\ dst = [x \in 1..upto |-> mem0[va0 + x - 1]]
=============================================================================
