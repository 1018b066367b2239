------------------------------- MODULE MCPipe -------------------------------
(* Pipe with two processes at one of its ends; they are interchangeable.   *)
EXTENDS Pipe, TLC

Symmetry == Permutations(Writer) \cup Permutations(Reader)
=============================================================================
