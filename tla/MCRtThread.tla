----------------------------- MODULE MCRtThread -----------------------------
(* RtThread with up to three application threads: a is initialised at boot, *)
(* b and c are created by it and differ in nothing.                         *)
EXTENDS RtThread

CONSTANTS a, b, c

Symmetry == Permutations({b, c})
=============================================================================
