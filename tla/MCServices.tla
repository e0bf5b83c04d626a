----------------------------- MODULE MCServices -----------------------------
(* Services for TLC: names for the timers.                                 *)
EXTENDS Services

CONSTANTS t1, t2
=============================================================================
