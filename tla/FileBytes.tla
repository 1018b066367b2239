----------------------------- MODULE FileBytes ------------------------------
(***************************************************************************)
(* What files promise: each is a sequence of bytes with an offset that its *)
(* readers and writers share.  A writer has the file to itself for a while *)
(* and puts its bytes down one after the other, from the offset on; those  *)
(* past the end of the file appear, and the offset moves, when it is done. *)
(***************************************************************************)
EXTENDS Integers, Sequences

CONSTANTS File, Value, None, MaxLen
VARIABLES
  bytes, off,
  writer,  \* who writes to the file now, or None
  put      \* how many bytes that writer has put down

vars == <<bytes, off, writer, put>>

Init ==
  /\ bytes = [f \in File |-> <<>>] /\ off = [f \in File |-> 0]
  /\ writer = [f \in File |-> None] /\ put = [f \in File |-> 0]

Start(f, v) ==
  /\ writer[f] = None /\ off[f] <= Len(bytes[f])
  /\ writer' = [writer EXCEPT ![f] = v]
  /\ UNCHANGED <<bytes, off, put>>

\* The first n bytes of the file, those from a to b by the file's writer.
Written(f, n, a, b) ==
  [bytes EXCEPT ![f] = [k \in 1..n |-> IF k \in a..b THEN writer[f] ELSE @[k]]]

\* The writer's next m bytes replace the ones the file has at their place.  It may
\* be stopped after a copy of m bytes that does not count.
Store(f) ==
  \E m \in 1..MaxLen :
    /\ writer[f] # None
    /\ bytes' = Written(f, Len(bytes[f]), off[f] + put[f] + 1, off[f] + put[f] + m)
    /\ put' = [put EXCEPT ![f] = @ + m] \/ UNCHANGED put
    /\ UNCHANGED <<off, writer>>

Finish(f) ==
  LET end == off[f] + put[f]
  IN  /\ writer[f] # None
      /\ bytes' = Written(f, IF end > Len(bytes[f]) THEN end ELSE Len(bytes[f]), Len(bytes[f]) + 1, end)
      /\ off' = [off EXCEPT ![f] = end]
      /\ writer' = [writer EXCEPT ![f] = None]
      /\ put' = [put EXCEPT ![f] = 0]

Read(f) ==
  /\ writer[f] = None /\ off[f] <= Len(bytes[f])
  /\ \E n \in off[f]..Len(bytes[f]) : off' = [off EXCEPT ![f] = n]
  /\ UNCHANGED <<bytes, writer, put>>

Truncate(f) ==
  /\ writer[f] = None
  /\ bytes' = [bytes EXCEPT ![f] = <<>>]
  /\ UNCHANGED <<off, writer, put>>

Open(f) ==
  /\ writer[f] = None
  /\ off' = [off EXCEPT ![f] = 0]
  /\ UNCHANGED <<bytes, writer, put>>

Next ==
  \E f \in File :
    \/ Read(f) \/ Truncate(f) \/ Open(f) \/ Store(f) \/ Finish(f)
    \/ \E v \in Value : Start(f, v)

Spec == Init /\ [][Next]_vars
=============================================================================
