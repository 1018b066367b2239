-------------------------------- MODULE MCLog --------------------------------
(* Log with small sets; processes and blocks are interchangeable.          *)
EXTENDS Log, TLC

Symmetry == Permutations(Proc) \cup Permutations(Block)
=============================================================================
