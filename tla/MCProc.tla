------------------------------- MODULE MCProc -------------------------------
(* Proc with small sets; CPUs are interchangeable.                         *)
EXTENDS Proc, TLC

Symmetry == Permutations(CPU)
=============================================================================
