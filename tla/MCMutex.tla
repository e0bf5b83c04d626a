------------------------------- MODULE MCMutex ------------------------------
(* Mutex with application threads that differ in nothing but their         *)
(* priority, which the initial states choose.                              *)
EXTENDS Mutex

CONSTANTS a, b, c, m1, m2

Symmetry == Permutations({a, b, c})
SymmetryTwo == Permutations({a, b})
=============================================================================
