----------------------------- MODULE TimerList ------------------------------
(***************************************************************************)
(* The ordered timer lists of timer.c and the operations on one timer.     *)
(* Ticks are machine words that wrap around: W is RT_TICK_MAX + 1, and a   *)
(* tick counts as reached when it is less than RT_TICK_MAX / 2 ago.        *)
(* RT_TIMER_SKIP_LIST_LEVEL is 1, so a list has a single row.              *)
(*                                                                         *)
(*   tm[t].live      t is an object (between init/create, detach/delete);  *)
(*                   NoFields is what nobody reads                         *)
(*   tm[t].active    RT_TIMER_FLAG_ACTIVATED                               *)
(*   tm[t].periodic  RT_TIMER_FLAG_PERIODIC                                *)
(*   tm[t].init      init_tick                                             *)
(*   tm[t].timeout   timeout_tick; 0 for a timer that is not active, whose *)
(*                   timeout_tick nothing but GET_REMAIN_TIME reads        *)
(*   list            the timers that are linked, first to expire first     *)
(*   temp            the timer that the check function took off the list   *)
(*                   and linked into its local list, or NoTimer            *)
(*   tick            rt_tick                                               *)
(*   left[t]         how long t has still to run, for a linked timer; less *)
(*                   than 0 if it is overdue (history, and never wraps)    *)
(*   order           the linked timers in the order they were started      *)
(*                   (history)                                             *)
(***************************************************************************)
EXTENDS SequencesExt, Integers

CONSTANTS
  Timers, NoTimer,
  W,          \* RT_TICK_MAX + 1
  Times,      \* initial ticks that timers are given
  SetBusy     \* whether the mode of a timer changes during its timeout function

HALF == (W - 1) \div 2    \* RT_TICK_MAX / 2

\* RT_ASSERT(time < RT_TICK_MAX / 2) of rt_timer_init and RT_TIMER_CTRL_SET_TIME
ASSUME TimerAssumption ==
  /\ W \in Nat \ {0}
  /\ Times \subseteq 0 .. HALF - 1
  /\ NoTimer \notin Timers
  /\ SetBusy \in BOOLEAN

VARIABLES tm, list, temp, tick, left, order

timerVars == <<tm, list, temp, tick, left, order>>

Ticks == 0 .. W - 1

NoFields == [live |-> FALSE, active |-> FALSE, periodic |-> FALSE, init |-> 0, timeout |-> 0]

TimersInit ==
  /\ tm = [t \in Timers |-> NoFields]
  /\ list = <<>>
  /\ temp = NoTimer
  /\ tick = 0
  /\ left = [t \in Timers |-> 0]
  /\ order = <<>>

-----------------------------------------------------------------------------
(* Ticks and the order of the list.                                        *)

\* Mutant of Reached: plain comparison, as if ticks never wrapped.
ReachedPlain(now, timeout) == now >= timeout

\* current_tick - timeout_tick < RT_TICK_MAX / 2, in unsigned arithmetic
Reached(now, timeout) == (now - timeout) % W < HALF

\* Mutant of Later: equal timeouts count as later.
LaterOrEqual(u, v) == (u - v) % W < HALF

\* Timeout u comes after timeout v
Later(u, v) == (u - v) % W # 0 /\ (u - v) % W < HALF

\* The place of a new timer: before the first one with a later timeout
Place(s, timeout) ==
  Min({i \in 1 .. Len(s) : Later(tm[s[i]].timeout, timeout)} \cup {Len(s) + 1})

\* _timer_remove takes a timer out of whatever list it is in.
Without(s, t) == RemoveFirst(s, t)

-----------------------------------------------------------------------------
(* Critical sections.                                                      *)

\* rt_timer_start up to the wakeup of the timer thread
StartTimer(t) ==
  LET rest    == Without(list, t)
      timeout == (tick + tm[t].init) % W
  IN  /\ tm' = [tm EXCEPT ![t].active = TRUE, ![t].timeout = timeout]
      /\ list' = InsertAt(rest, Place(rest, timeout), t)
      /\ temp' = IF temp = t THEN NoTimer ELSE temp
      /\ left' = [left EXCEPT ![t] = tm[t].init]
      /\ order' = Append(Without(order, t), t)

\* t is unlinked, and deactivated if `stop`
UnlinkTimer(t, stop) ==
  /\ tm' = IF stop THEN [tm EXCEPT ![t].active = FALSE, ![t].timeout = 0] ELSE tm
  /\ list' = Without(list, t)
  /\ left' = [left EXCEPT ![t] = 0]
  /\ order' = Without(order, t)

\* rt_timer_stop and the first half of rt_timer_detach and rt_timer_delete
StopTimer(t) ==
  /\ UnlinkTimer(t, TRUE)
  /\ temp' = IF temp = t THEN NoTimer ELSE temp

\* rt_timer_detach, rt_timer_delete
DetachTimer(t) ==
  /\ tm' = [tm EXCEPT ![t] = NoFields]
  /\ list' = Without(list, t)
  /\ temp' = IF temp = t THEN NoTimer ELSE temp
  /\ left' = [left EXCEPT ![t] = 0]
  /\ order' = Without(order, t)

\* rt_timer_init, rt_timer_create
InitTimer(t, time, periodic) ==
  /\ ~tm[t].live
  /\ tm' = [tm EXCEPT ![t] = [live |-> TRUE, active |-> FALSE, periodic |-> periodic,
                              init |-> time, timeout |-> 0]]
  /\ UNCHANGED <<list, temp, left, order>>

\* rt_timer_control(SET_TIME, SET_ONESHOT, SET_PERIODIC): a timer that runs is
\* not linked anew
SetTimer(t, time, periodic) ==
  /\ t = temp /\ periodic # tm[t].periodic => SetBusy
  /\ tm' = [tm EXCEPT ![t].init = time, ![t].periodic = periodic]
  /\ UNCHANGED <<list, temp, left, order>>

\* Mutant of TakeExpired: the timer stays in the list.
TakeExpiredLinked(t) ==
  /\ list # <<>> /\ t = Head(list)
  /\ Reached(tick, tm[t].timeout)
  /\ temp' = t
  /\ UNCHANGED <<tm, list, left, order>>

\* The first timer is due: it goes to the local list, a one-shot timer is
\* deactivated, and its timeout function is called
TakeExpired(t) ==
  /\ list # <<>> /\ t = Head(list)
  /\ Reached(tick, tm[t].timeout)
  /\ UnlinkTimer(t, ~tm[t].periodic)
  /\ temp' = t

NothingExpired == ~(list # <<>> /\ Reached(tick, tm[Head(list)].timeout))

\* The timeout function of t has returned.  If t is still in the local list it
\* was neither detached nor stopped nor started again; a periodic one that is
\* active is started.
Restart(t) ==
  IF temp # NoTimer /\ tm[t].periodic /\ tm[t].active
    THEN StartTimer(t)
    ELSE temp' = NoTimer /\ UNCHANGED <<tm, list, left, order>>

\* Mutant of Advance: the tick does not wrap.
AdvanceUnwrapped ==
  /\ tick' = tick + 1
  /\ left' = [t \in Timers |-> IF t \in ToSet(list) THEN left[t] - 1 ELSE left[t]]

\* One tick goes by.
Advance ==
  /\ tick' = (tick + 1) % W
  /\ left' = [t \in Timers |-> IF t \in ToSet(list) THEN left[t] - 1 ELSE left[t]]

-----------------------------------------------------------------------------
(* Properties of a list.                                                   *)

\* The variables of the timer lists keep their types.
TimersTypeOK ==
  /\ tm \in [Timers -> [live : BOOLEAN, active : BOOLEAN, periodic : BOOLEAN,
                        init : Times \cup {0}, timeout : Ticks]]
  /\ list \in Seq(Timers)
  /\ temp \in Timers \cup {NoTimer}
  /\ tick \in Ticks
  /\ left \in [Timers -> Int]
  /\ order \in Seq(Timers)

Index(s, t) == CHOOSE i \in 1 .. Len(s) : s[i] = t

\* Timers expire in the order of their deadlines, across any wrap-around of the
\* tick, and "if we have two timers that timeout at the same time [...] the timer
\* inserted early get called early".
StableOrder ==
  \A i, j \in 1 .. Len(list) : i < j =>
     \/ left[list[i]] < left[list[j]]
     \/ /\ left[list[i]] = left[list[j]]
        /\ Index(order, list[i]) < Index(order, list[j])

\* RT_TIMER_FLAG_ACTIVATED tells the truth: an active timer is linked, or waits in
\* the local list of the check function to be started again, whatever its own
\* timeout function and others do to it meanwhile.
ActiveIsLinked ==
  /\ IsInjective(list) /\ temp \notin ToSet(list)
  /\ \A t \in ToSet(list) : tm[t].active /\ tm[t].live
  /\ \A t \in Timers : tm[t].active => t \in ToSet(list) \/ t = temp
=============================================================================
