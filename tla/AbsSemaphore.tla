---------------------------- MODULE AbsSemaphore ----------------------------
(***************************************************************************)
(* What a counting semaphore with timeouts promises to its clients.  A     *)
(* unit is available, or has been granted to a client that was waiting;    *)
(* clients wait only while nothing is available; a client that stops       *)
(* waiting without a grant has been given nothing.                         *)
(***************************************************************************)
EXTENDS Naturals, FiniteSets

CONSTANTS
  Clients,  \* who may wait
  Limit,    \* the largest count, in Nat
  Start     \* the count at the start, in 0 .. Limit

VARIABLES
  avail,    \* units nobody holds
  waiting,  \* clients waiting for a unit
  granted   \* clients that were given a unit while waiting, not yet told so

vars == <<avail, waiting, granted>>

Init == avail = Start /\ waiting = {} /\ granted = {}

\* A client takes an available unit.
Acquire ==
  /\ avail > 0
  /\ avail' = avail - 1
  /\ UNCHANGED <<waiting, granted>>

\* A client starts to wait.
Wait(c) ==
  /\ avail = 0
  /\ c \notin waiting \cup granted
  /\ waiting' = waiting \cup {c}
  /\ UNCHANGED <<avail, granted>>

\* A unit comes back: to a waiting client if there is one ...
Grant(c) ==
  /\ c \in waiting
  /\ waiting' = waiting \ {c}
  /\ granted' = granted \cup {c}
  /\ UNCHANGED avail

\* ... and to the pool only if nobody waits.
Post ==
  /\ waiting = {}
  /\ avail < Limit
  /\ avail' = avail + 1
  /\ UNCHANGED <<waiting, granted>>

\* A client gives up: timeout, reset, or the client is deleted.
GiveUp(c) ==
  /\ c \in waiting
  /\ waiting' = waiting \ {c}
  /\ UNCHANGED <<avail, granted>>

\* A client learns of its unit, or is deleted and takes the unit along.
Depart(c) ==
  /\ c \in granted
  /\ granted' = granted \ {c}
  /\ UNCHANGED <<avail, waiting>>

\* The count is set anew, once nobody waits any more.
Preset(v) ==
  /\ waiting = {}
  /\ avail' = v
  /\ UNCHANGED <<waiting, granted>>

Next ==
  \/ Acquire \/ Post
  \/ \E c \in Clients : Wait(c) \/ Grant(c) \/ GiveUp(c) \/ Depart(c)
  \/ \E v \in 0 .. Limit : Preset(v)

Spec == Init /\ [][Next]_vars
=============================================================================
