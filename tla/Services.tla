------------------------------ MODULE Services ------------------------------
(***************************************************************************)
(* Kernel services with data of their own: soft timers, hard timers and    *)
(* the heap.  They share no state (each timer belongs to one of the two    *)
(* lists), so a behaviour exercises one of them, the `part` chosen at      *)
(* first, and leaves the others as they were initialised.                  *)
(***************************************************************************)
EXTENDS SoftTimer, SmallMem

CONSTANTS
  Parts       \* the services to exercise

VARIABLES
  part,
  isr, stopping     \* HardTimer

Hard == INSTANCE HardTimer

hardVars == <<isr, stopping>>
memVars == <<heapVars, users>>
allVars == <<part, timerVars, softVars, hardVars, memVars>>

ASSUME PartsAssumption == Parts \subseteq {"soft", "hard", "heap"} /\ HeapAssumption

ServicesInit ==
  /\ part \in Parts
  /\ SoftInit /\ Hard!HardInit /\ HeapInit

\* The variables of a service that hard timers and soft timers do not share
SoftOnly == <<at, next, stat, wake, busy, slip>>

InSoft(A) == part = "soft" /\ A /\ UNCHANGED <<part, hardVars, memVars>>
InHard(A) == part = "hard" /\ A /\ UNCHANGED <<part, SoftOnly, memVars>>
InHeap(A) == part = "heap" /\ A /\ UNCHANGED <<part, timerVars, softVars, hardVars>>

ServicesNext ==
  \/ InSoft(SoftNext)
  \/ InHard(Hard!HardNext)
  \/ InHeap(HeapNext)

ServicesSpec == ServicesInit /\ [][ServicesNext]_allVars

\* The fairness of SoftTimer and of HardTimer
ServicesFairSpec ==
  /\ ServicesSpec
  /\ WF_allVars(InSoft(Tick)) /\ WF_allVars(InSoft(ThreadStep))
  /\ WF_allVars(InHard(Hard!InTick))

-----------------------------------------------------------------------------
(* Properties, besides those of soft timers and of the timer lists.        *)

TypeOfPart ==
  CASE part = "soft" -> SoftTypeOK
    [] part = "hard" -> Hard!HardTypeOK
    [] OTHER -> TRUE

\* rt_timer_start, rt_timer_stop, rt_timer_check: variables keep their types (ticks
\* wrap around at W), a list is in the order of expiry and, among equals, of start,
\* an active timer is linked or being served, and once the tick interrupt is over no
\* hard timer is due.
TimersSound ==
  /\ TypeOfPart /\ StableOrder /\ ActiveIsLinked
  /\ part = "hard" => Hard!NoneOverdue

\* rt_timer_check, rt_soft_timer_check: no timer fires early, across any wrap-around
\* of the tick, and rt_timer_start does not cut the sleep of a timeout function short.
NothingEarly == NeverEarly /\ Hard!NeverEarly /\ CallbackWaits

\* rt_soft_timer_check: a soft timer that is due is served, stopped or started anew.
\* rt_timer_check ends, whatever timers its timeout functions start and stop, if none
\* of them is given zero ticks.
TimersServed ==
  /\ \A t \in Timers : (part = "soft" /\ Due(t)) ~> ~Due(t)
  /\ Hard!TickEnds
=============================================================================
