----------------------------- MODULE MCDrivers ------------------------------
(* Drivers for TLC: names for its sets, the texts and the habits in use.   *)
EXTENDS Drivers

CONSTANTS a, b, x, y, o1, o2, w1, w2, c1, c2

\* The texts of up to three characters
ShortTexts == UNION {[1 .. n -> {"char", "newline"}] : n \in 1 .. 3}

\* Callers that keep to what workqueue.c expects; callers that preempt each other;
\* callers that submit a work anew at any time
NoHabits == {{}}
AllHabits == {{}, {"preempted"}, {"mixed", "reentrant"}}
=============================================================================
