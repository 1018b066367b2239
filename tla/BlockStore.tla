----------------------------- MODULE BlockStore -----------------------------
(* What kernel/bio.c promises: every block has one content and at most one *)
(* user at a time that sees or changes it.                                 *)
CONSTANTS User, Block, Val, None

VARIABLES
  store,  \* content of each block
  owner   \* user that has the block between bread() and brelse(), or None

vars == <<store, owner>>

Init ==
  /\ store \in [Block -> Val]
  /\ owner = [b \in Block |-> None]

Get(p, b) ==
  /\ owner[b] = None
  /\ owner' = [owner EXCEPT ![b] = p]
  /\ UNCHANGED store

Change(p, b) ==
  /\ owner[b] = p
  /\ \E v \in Val : store' = [store EXCEPT ![b] = v]
  /\ UNCHANGED owner

Put(p, b) ==
  /\ owner[b] = p
  /\ owner' = [owner EXCEPT ![b] = None]
  /\ UNCHANGED store

Next == \E p \in User, b \in Block : Get(p, b) \/ Change(p, b) \/ Put(p, b)

Spec == Init /\ [][Next]_vars
=============================================================================
