----------------------------- MODULE MCSemaphore ----------------------------
(* Semaphore with three application threads that differ in nothing but     *)
(* their priority, which the initial states choose.                        *)
EXTENDS Semaphore

CONSTANTS a, b, c

Symmetry == Permutations({a, b, c})
=============================================================================
