----------------------------- MODULE SoftTimer ------------------------------
(***************************************************************************)
(* Soft timers: the timer thread of timer.c (_timer_thread_entry and       *)
(* rt_soft_timer_check), which runs timeout functions with interrupts      *)
(* enabled, and the operations that threads, interrupts and the timeout    *)
(* functions themselves call meanwhile.                                    *)
(*                                                                         *)
(*   at      where the timer thread is:                                    *)
(*     "next"    about to look at the first timer                          *)
(*     "peeked"  it has read next_timeout                                  *)
(*     "park"    it has found no timer and is about to suspend itself      *)
(*     "delay"   it is about to call rt_thread_delay                       *)
(*     "check"   in the loop of rt_soft_timer_check                        *)
(*     "call"    in the timeout function of cur                            *)
(*   next    the local next_timeout: a tick, then a number of ticks        *)
(*   stat    "ready"; "parked" by rt_thread_suspend; "asleep" for `wake`   *)
(*           more ticks                                                    *)
(*   busy    _soft_timer_status = RT_SOFT_TIMER_BUSY                       *)
(*   slip    ticks that went by between the thread's reading of the tick   *)
(*           and its going to sleep (history)                              *)
(***************************************************************************)
EXTENDS TimerList

CONSTANTS
  Preempts,  \* whether timers are started while the timer thread is ready,
             \* by an interrupt or by a thread that is more urgent
  MaxLate,   \* bound on how late timers get before the timer thread runs on
  MaxSlip    \* bound on slip

ASSUME SoftAssumption == Preempts \in BOOLEAN /\ MaxLate \in Nat /\ MaxSlip \in Nat

VARIABLES at, cur, next, stat, wake, busy, slip

softVars == <<at, cur, next, stat, wake, busy, slip>>

SoftInit ==
  /\ TimersInit
  /\ at = "next" /\ cur = NoTimer /\ next = 0
  /\ stat = "ready" /\ wake = 0
  /\ busy = FALSE
  /\ slip = 0

-----------------------------------------------------------------------------
(* The timer thread.  Each step is one section with interrupts disabled;   *)
(* the section from the return of a timeout function to the next call is   *)
(* split in two, which only adds interleavings.                            *)

Runs(label) == stat = "ready" /\ at = label

\* _timer_list_next_timeout
NextTimeout ==
  /\ Runs("next")
  /\ at' = IF list = <<>> THEN "park" ELSE "peeked"
  /\ next' = IF list = <<>> THEN 0 ELSE tm[Head(list)].timeout
  /\ UNCHANGED <<timerVars, cur, stat, wake, busy, slip>>

\* rt_thread_suspend(rt_thread_self()) and rt_schedule
Park ==
  /\ Runs("park")
  /\ stat' = "parked"
  /\ at' = "check"
  /\ UNCHANGED <<timerVars, cur, next, wake, busy, slip>>

\* The tick is read: a timeout that has passed is looked at right away
ReadTick ==
  /\ Runs("peeked")
  /\ LET delta == (next - tick) % W
     IN  IF delta < HALF THEN at' = "delay" /\ next' = delta
                         ELSE at' = "check" /\ next' = 0
  /\ slip' = 0
  /\ UNCHANGED <<timerVars, cur, stat, wake, busy>>

\* rt_thread_delay
Delay ==
  /\ Runs("delay")
  /\ stat' = "asleep" /\ wake' = next
  /\ at' = "check" /\ next' = 0
  /\ UNCHANGED <<timerVars, cur, busy, slip>>

\* rt_soft_timer_check: the timeout function of a timer that is due
Fire ==
  /\ Runs("check")
  /\ \E t \in Timers : TakeExpired(t) /\ cur' = t
  /\ at' = "call" /\ busy' = TRUE /\ slip' = 0
  /\ UNCHANGED <<tick, next, stat, wake>>

OnTime == \A t \in ToSet(list) : left[t] > -MaxLate

\* The timeout function sleeps, or waits for something with a time limit
CallbackBlocks(ticks) ==
  /\ Runs("call") /\ OnTime
  /\ stat' = "asleep" /\ wake' = ticks
  /\ UNCHANGED <<timerVars, at, cur, next, busy, slip>>

CallbackReturn ==
  /\ Runs("call")
  /\ busy' = FALSE
  /\ Restart(cur)
  /\ at' = "check" /\ cur' = NoTimer
  /\ UNCHANGED <<tick, next, stat, wake, slip>>

CheckDone ==
  /\ Runs("check")
  /\ NothingExpired
  /\ at' = "next" /\ slip' = 0
  /\ UNCHANGED <<timerVars, cur, next, stat, wake, busy>>

-----------------------------------------------------------------------------
(* Services, called by threads, interrupts and timeout functions.          *)

\* Mutants of WakeThread: whatever the thread waits for; only a parked thread;
\* only a sleeping one.
WakeThreadAlways ==
  /\ stat' = "ready" /\ wake' = 0
WakeThreadAsleep ==
  IF ~busy /\ stat = "asleep" THEN stat' = "ready" /\ wake' = 0 ELSE UNCHANGED <<stat, wake>>
WakeThreadParked ==
  IF stat = "parked" THEN stat' = "ready" /\ wake' = 0 ELSE UNCHANGED <<stat, wake>>

\* The end of rt_timer_start: a timer thread that sleeps until the next timeout
\* is resumed, one that waits in a timeout function is not
WakeThread ==
  IF ~busy THEN stat' = "ready" /\ wake' = 0 ELSE UNCHANGED <<stat, wake>>

Start(t) ==
  /\ tm[t].live
  /\ Preempts \/ stat # "ready" \/ at = "call"
  /\ StartTimer(t)
  /\ WakeThread
  /\ UNCHANGED <<tick, at, cur, next, busy, slip>>

\* rt_timer_stop: its test of the flag and what follows are one step, because
\* unlinking a timer twice does no harm
Stop(t) ==
  /\ tm[t].active
  /\ StopTimer(t)
  /\ UNCHANGED <<tick, softVars>>

Detach(t) ==
  /\ tm[t].live
  /\ DetachTimer(t)
  /\ UNCHANGED <<tick, softVars>>

InitAgain(t, time, periodic) ==
  /\ t # cur
  /\ InitTimer(t, time, periodic)
  /\ UNCHANGED <<tick, softVars>>

Control(t, time, periodic) ==
  /\ tm[t].live
  /\ SetTimer(t, time, periodic)
  /\ UNCHANGED <<tick, softVars>>

-----------------------------------------------------------------------------
(* The tick interrupt; the thread's own timer is a hard timer.             *)

InWindow == at \in {"delay"} /\ stat = "ready"

Tick ==
  /\ stat = "ready" => OnTime
  /\ InWindow => slip < MaxSlip
  /\ Advance
  /\ slip' = IF InWindow THEN slip + 1 ELSE slip
  /\ IF stat = "asleep" /\ wake <= 1
       THEN stat' = "ready" /\ wake' = 0
       ELSE stat' = stat /\ wake' = IF stat = "asleep" THEN wake - 1 ELSE wake
  /\ UNCHANGED <<tm, list, temp, order, at, cur, next, busy>>

-----------------------------------------------------------------------------
ThreadStep ==
  \/ NextTimeout \/ Park \/ ReadTick \/ Delay
  \/ Fire \/ CallbackReturn \/ CheckDone

Service ==
  \E t \in Timers :
     \/ Start(t) \/ Stop(t) \/ Detach(t)
     \/ \E time \in Times, periodic \in BOOLEAN :
           InitAgain(t, time, periodic) \/ Control(t, time, periodic)

SoftNext ==
  ThreadStep \/ Service \/ Tick \/ \E ticks \in Times : CallbackBlocks(ticks)

SoftSpec == SoftInit /\ [][SoftNext]_<<timerVars, softVars>>

\* The tick interrupt is periodic, and the timer thread gets the CPU: it is among
\* the most urgent threads, and its timeout functions return.
SoftFairSpec ==
  /\ SoftSpec
  /\ WF_<<timerVars, softVars>>(Tick)
  /\ WF_<<timerVars, softVars>>(ThreadStep)

-----------------------------------------------------------------------------
(* Properties.                                                             *)

\* Every variable keeps its type: ticks wrap around at W.
SoftTypeOK ==
  /\ TimersTypeOK
  /\ at \in {"next", "peeked", "park", "delay", "check", "call"}
  /\ cur \in Timers \cup {NoTimer}
  /\ next \in Ticks
  /\ stat \in {"ready", "parked", "asleep"}
  /\ wake \in Nat
  /\ busy \in BOOLEAN
  /\ slip \in 0 .. MaxSlip

\* "no software timer exist, suspend self": the timer thread waits without a time
\* limit only while there is no timer.
ParkedWithoutTimers == stat = "parked" => list = <<>>

\* The timer thread never sleeps past the first timeout, whatever is started,
\* stopped or reset while it sleeps, except for the ticks that went by before
\* it got to sleep.
NoOversleep ==
  stat = "asleep" /\ ~busy /\ list # <<>> => wake <= left[Head(list)] + slip

\* A timeout function that waits is not disturbed by timers that are started.
CallbackWaits ==
  [][busy /\ stat = "asleep" /\ stat' = "ready" => tick' # tick]_<<timerVars, softVars>>

\* No soft timer fires early, across any wrap-around of the tick.
NeverEarly ==
  [][\A t \in Timers : at = "check" /\ at' = "call" /\ cur' = t => left[t] <= 0
    ]_<<timerVars, softVars>>

\* The timer is linked although its time is over.
Due(t) == t \in ToSet(list) /\ left[t] <= 0
=============================================================================
