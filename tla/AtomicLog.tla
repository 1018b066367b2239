------------------------------ MODULE AtomicLog ------------------------------
(***************************************************************************)
(* What kernel/log.c promises the file system: the updates of the system   *)
(* calls that ran together reach the disk all at once, at a moment when    *)
(* none of them is half done, or not at all.                               *)
(***************************************************************************)
EXTENDS FiniteSets

CONSTANTS Proc, Block, Value, Blank

VARIABLES
  fs,      \* the blocks as system calls see them
  dur,     \* the blocks as a reboot would find them
  active   \* processes between begin_op() and end_op()

vars == <<fs, dur, active>>

Init ==
  /\ fs = [b \in Block |-> Blank]
  /\ dur = fs
  /\ active = {}

Begin(p) == p \notin active /\ active' = active \cup {p} /\ UNCHANGED <<fs, dur>>

Write(p, b, v) ==
  p \in active /\ fs' = [fs EXCEPT ![b] = v] /\ UNCHANGED <<dur, active>>

End(p) == p \in active /\ active' = active \ {p} /\ UNCHANGED <<fs, dur>>

Commit == active = {} /\ dur' = fs /\ UNCHANGED <<fs, active>>

Crash == fs' = dur /\ active' = {} /\ UNCHANGED dur

Next ==
  \/ \E p \in Proc : Begin(p) \/ End(p) \/ \E b \in Block, v \in Value : Write(p, b, v)
  \/ Commit
  \/ Crash

Spec == Init /\ [][Next]_vars
=============================================================================
