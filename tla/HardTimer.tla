----------------------------- MODULE HardTimer ------------------------------
(***************************************************************************)
(* Hard timers: the operations of timer.c called by threads and by timeout *)
(* functions, and rt_timer_check in the tick interrupt.                    *)
(*                                                                         *)
(*   isr       "off"; in rt_timer_check: "check" at the head of its loop,  *)
(*             "call" in the timeout function of cur                       *)
(*   cur       the timer whose timeout function runs                       *)
(*   stopping  the timer a thread found active in rt_timer_stop, before it *)
(*             disables interrupts; at most one thread is there at a time  *)
(***************************************************************************)
EXTENDS TimerList

VARIABLES isr, cur, stopping

hardVars == <<isr, cur, stopping>>

HardInit ==
  /\ TimersInit
  /\ isr = "off"
  /\ cur = NoTimer
  /\ stopping = NoTimer

-----------------------------------------------------------------------------
(* Services, called by a thread or by the timeout function.                *)

InService == isr \in {"off", "call"}

Start(t) ==
  /\ InService /\ tm[t].live
  /\ StartTimer(t)
  /\ UNCHANGED <<tick, hardVars>>

\* rt_timer_stop in a timeout function
StopInCallback(t) ==
  /\ isr = "call" /\ tm[t].active
  /\ StopTimer(t)
  /\ UNCHANGED <<tick, hardVars>>

\* rt_timer_stop in a thread tests the flag with interrupts enabled ...
StopTest(t) ==
  /\ isr = "off" /\ stopping = NoTimer
  /\ tm[t].active
  /\ stopping' = t
  /\ UNCHANGED <<timerVars, isr, cur>>

\* Mutant of StopEnd: the flag is cleared, the timer stays linked.
StopEndLinked ==
  /\ isr = "off" /\ stopping # NoTimer
  /\ tm' = [tm EXCEPT ![stopping].active = FALSE]
  /\ stopping' = NoTimer
  /\ UNCHANGED <<list, temp, tick, left, order, isr, cur>>

\* ... and unlinks the timer, which may have expired or been started since
StopEnd ==
  /\ isr = "off" /\ stopping # NoTimer
  /\ StopTimer(stopping)
  /\ stopping' = NoTimer
  /\ UNCHANGED <<tick, isr, cur>>

\* Not while another thread is about to stop it: that thread would touch a timer
\* that is gone
Detach(t) ==
  /\ InService /\ tm[t].live /\ t # stopping
  /\ DetachTimer(t)
  /\ UNCHANGED <<tick, hardVars>>

InitAgain(t, time, periodic) ==
  /\ InService
  /\ InitTimer(t, time, periodic)
  /\ UNCHANGED <<tick, hardVars>>

Control(t, time, periodic) ==
  /\ InService /\ tm[t].live
  /\ SetTimer(t, time, periodic)
  /\ UNCHANGED <<tick, hardVars>>

-----------------------------------------------------------------------------
(* The tick interrupt: rt_tick_increase and rt_timer_check.                *)

Tick ==
  /\ isr = "off"
  /\ Advance
  /\ isr' = "check"
  /\ UNCHANGED <<tm, list, temp, order, cur, stopping>>

\* Mutant of Fire: the list is not tested for timers that are not due yet.
FireUnconditionally ==
  /\ isr = "check" /\ list # <<>>
  /\ UnlinkTimer(Head(list), ~tm[Head(list)].periodic)
  /\ temp' = Head(list) /\ cur' = Head(list)
  /\ isr' = "call"
  /\ UNCHANGED <<tick, stopping>>

Fire ==
  /\ isr = "check"
  /\ \E t \in Timers : TakeExpired(t) /\ cur' = t
  /\ isr' = "call"
  /\ UNCHANGED <<tick, stopping>>

\* Mutant of CallbackReturn: one timer for each tick.
CallbackReturnOnce ==
  /\ isr = "call"
  /\ Restart(cur)
  /\ isr' = "off" /\ cur' = NoTimer
  /\ UNCHANGED <<tick, stopping>>

CallbackReturn ==
  /\ isr = "call"
  /\ Restart(cur)
  /\ isr' = "check" /\ cur' = NoTimer
  /\ UNCHANGED <<tick, stopping>>

CheckDone ==
  /\ isr = "check"
  /\ NothingExpired
  /\ isr' = "off"
  /\ UNCHANGED <<timerVars, cur, stopping>>

-----------------------------------------------------------------------------
Service ==
  \E t \in Timers :
     \/ Start(t) \/ StopInCallback(t) \/ StopTest(t) \/ Detach(t)
     \/ \E time \in Times, periodic \in BOOLEAN :
           InitAgain(t, time, periodic) \/ Control(t, time, periodic)

InTick == Fire \/ CallbackReturn \/ CheckDone

HardNext == Service \/ StopEnd \/ Tick \/ InTick

HardSpec == HardInit /\ [][HardNext]_<<timerVars, hardVars>>

\* A timeout function returns, and the interrupt goes on.
HardFairSpec == HardSpec /\ WF_<<timerVars, hardVars>>(InTick)

-----------------------------------------------------------------------------
(* Properties.                                                             *)

\* Every variable keeps its type: ticks wrap around at W.
HardTypeOK ==
  /\ TimersTypeOK
  /\ isr \in {"off", "check", "call"}
  /\ cur \in Timers \cup {NoTimer}
  /\ stopping \in Timers \cup {NoTimer}

\* No timer is forgotten: once the tick interrupt is over, no linked timer is due,
\* unless it was started with zero ticks since.
NoneOverdue == isr = "off" => \A t \in ToSet(list) : left[t] > 0 \/ tm[t].init = 0

\* No timer fires early, across any wrap-around of the tick.
NeverEarly ==
  [][\A t \in Timers : isr = "check" /\ isr' = "call" /\ cur' = t => left[t] <= 0
    ]_<<timerVars, hardVars>>

\* The tick interrupt ends, whatever timers its timeout functions start and stop,
\* if none of them is given zero ticks.
TickEnds == isr # "off" ~> isr = "off"
=============================================================================
