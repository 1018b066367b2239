------------------------------- MODULE Channel -------------------------------
(***************************************************************************)
(* What a pipe promises: a first-in first-out channel of at most PIPESIZE  *)
(* bytes, written only while both ends are open and read while the read    *)
(* end is.                                                                 *)
(***************************************************************************)
EXTENDS Integers, Sequences

CONSTANTS PIPESIZE, Byte

VARIABLES q, readopen, writeopen

vars == <<q, readopen, writeopen>>

Init == q = <<>> /\ ~readopen /\ ~writeopen

Open == ~readopen /\ ~writeopen /\ q' = <<>> /\ readopen' /\ writeopen'

Put(v) ==
  /\ readopen /\ writeopen
  /\ Len(q) < PIPESIZE
  /\ q' = Append(q, v)
  /\ UNCHANGED <<readopen, writeopen>>

Get == readopen /\ q # <<>> /\ q' = Tail(q) /\ UNCHANGED <<readopen, writeopen>>

CloseRead == readopen /\ ~readopen' /\ UNCHANGED <<q, writeopen>>
CloseWrite == writeopen /\ ~writeopen' /\ UNCHANGED <<q, readopen>>

Next == Open \/ (\E v \in Byte : Put(v)) \/ Get \/ CloseRead \/ CloseWrite

Spec == Init /\ [][Next]_vars
=============================================================================
