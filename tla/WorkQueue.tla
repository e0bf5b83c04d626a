----------------------------- MODULE WorkQueue ------------------------------
(***************************************************************************)
(* The work queue of components/drivers/ipc/workqueue.c: the worker        *)
(* thread, the timeout handler of delayed work, which the soft timer       *)
(* thread runs, and the services that threads, interrupt handlers and work *)
(* functions call.  A step is one section with interrupts disabled, or     *)
(* what lies between two of them.                                          *)
(*                                                                         *)
(*   ready       work_list                                                 *)
(*   delayed     delayed_list, whose order nothing depends on              *)
(*   current     work_current                                              *)
(*   pending     works with RT_WORK_STATE_PENDING                          *)
(*   submitting  works with RT_WORK_STATE_SUBMITTING                       *)
(*   bound       works whose workqueue is not RT_NULL                      *)
(*   timer[w]    "none" when w's timer is no object, "idle", or "on"       *)
(*   worker      "look" for work, "parked", in a "work" function, "ack"    *)
(*   handler     the timeout handler: "idle"; "read" before it reads       *)
(*               workqueue; "run" after; "stuck" in a failed RT_ASSERT     *)
(*   expired     the work whose timeout handler runs                       *)
(*   pc[c]       caller c is in no service ("run"), before rt_timer_start  *)
(*               ("start"), before rt_sem_take ("take"), waits there       *)
(*               ("sync"), cancels all works, before and after its test of *)
(*               the work list ("drain", "drop") and of the delayed list   *)
(*               ("sweep", "pick"), or is "stuck" in a failed RT_ASSERT or *)
(*               with a list head taken for a work                         *)
(*   arg[c]      the work that c's service is about                        *)
(*   habits      what callers do: submit a work anew without a delay while *)
(*               its delay runs ("mixed") or while it executes             *)
(*               ("reentrant"); get preempted or interrupted between the   *)
(*               sections of a service ("preempted"), as the timer thread  *)
(*               does then in the timeout handler                          *)
(*   due         works that were accepted and have neither started nor     *)
(*               been cancelled since (history)                            *)
(***************************************************************************)
EXTENDS Sequences, SequencesExt, FiniteSets

CONSTANTS
  Works, NoWork,
  Callers,
  Habits   \* the sets of habits that callers may have

WorkAssumption ==
  /\ NoWork \notin Works
  /\ Habits \subseteq SUBSET {"mixed", "reentrant", "preempted"}

VARIABLES ready, delayed, current, pending, submitting, bound, timer,
          worker, handler, expired, pc, arg, due, habits

lists == <<ready, delayed>>
flags == <<pending, submitting, bound, timer>>
threads == <<worker, handler, expired, pc, arg>>
wqVars == <<lists, current, flags, threads, due>>

\* rt_workqueue_create, rt_work_init
WqInit ==
  /\ ready = <<>> /\ delayed = {} /\ current = NoWork
  /\ pending = {} /\ submitting = {} /\ bound = {}
  /\ timer = [w \in Works |-> "none"]
  /\ worker = "look" /\ handler = "idle" /\ expired = NoWork
  /\ pc = [c \in Callers |-> "run"]
  /\ arg = [c \in Callers |-> NoWork]
  /\ due = {}
  /\ habits \in Habits

-----------------------------------------------------------------------------
Draining == {"drain", "drop", "sweep", "pick"}

\* Between two sections of a service, or of the timeout handler, others run only
\* if it can be preempted.
Calm ==
  \/ "preempted" \in habits
  \/ /\ handler \notin {"read", "run"}
     /\ \A c \in Callers : pc[c] \notin {"start", "take"} \cup Draining

\* rt_workqueue_cancel_all_work locks the scheduler: of the others only interrupt
\* handlers run, which neither wait nor cancel all works.  (Which callers are interrupt
\* handlers is left open.)
Unlocked == \A c \in Callers : pc[c] \notin Draining

MaySubmit(w, delay) ==
  /\ "mixed" \in habits \/ delay \/ w \notin submitting
  /\ "reentrant" \in habits \/ w # current

\* rt_list_remove takes w out of whichever list it is in.
Rest(w) == RemoveFirst(ready, w)

\* Mutant of WakeWorker: nobody is woken.
WakeNobody == UNCHANGED worker

\* The worker is resumed if it is suspended and not inside a work function
WakeWorker == worker' = IF current = NoWork /\ worker = "parked" THEN "look" ELSE worker

-----------------------------------------------------------------------------
(* Services.                                                               *)

\* Mutant of Submit: the work is not taken out of its list first.
SubmitAgain(w) ==
  /\ Calm /\ MaySubmit(w, FALSE) /\ current # w
  /\ ready' = Append(ready, w)
  /\ pending' = pending \cup {w} /\ bound' = bound \cup {w}
  /\ due' = due \cup {w}
  /\ WakeWorker
  /\ UNCHANGED <<delayed, current, submitting, timer, handler, expired, pc, arg>>

\* rt_workqueue_dowork, rt_workqueue_submit_work without a delay.  -RT_EBUSY is
\* returned for the work that executes, after it was taken out of its list.
Submit(w) ==
  /\ Calm /\ MaySubmit(w, FALSE)
  /\ delayed' = delayed \ {w}
  /\ IF current # w
       THEN /\ ready' = Append(Rest(w), w)
            /\ pending' = pending \cup {w} /\ bound' = bound \cup {w}
            /\ due' = due \cup {w}
       ELSE /\ ready' = Rest(w)
            /\ pending' = pending \ {w}
            /\ UNCHANGED <<bound, due>>
  /\ WakeWorker
  /\ UNCHANGED <<current, submitting, timer, handler, expired, pc, arg>>

\* rt_workqueue_submit_work with a delay, up to rt_timer_start
SubmitDelayed(c, w) ==
  /\ Calm /\ pc[c] = "run" /\ MaySubmit(w, TRUE)
  /\ ready' = Rest(w) /\ delayed' = delayed \cup {w}
  /\ pending' = pending \ {w} /\ submitting' = submitting \cup {w}
  /\ bound' = bound \cup {w}
  /\ timer' = [timer EXCEPT ![w] = IF w \in submitting /\ @ = "none" THEN @ ELSE "idle"]
  /\ due' = due \cup {w}
  /\ pc' = [pc EXCEPT ![c] = "start"] /\ arg' = [arg EXCEPT ![c] = w]
  /\ UNCHANGED <<current, worker, handler, expired>>

\* rt_timer_start, which asserts that the timer is an object
StartDelay(c) ==
  /\ pc[c] = "start"
  /\ IF timer[arg[c]] = "none"
       THEN pc' = [pc EXCEPT ![c] = "stuck"] /\ UNCHANGED timer
       ELSE pc' = [pc EXCEPT ![c] = "run"] /\ timer' = [timer EXCEPT ![arg[c]] = "on"]
  /\ arg' = [arg EXCEPT ![c] = NoWork]
  /\ UNCHANGED <<lists, current, pending, submitting, bound, worker, handler, expired, due>>

\* rt_workqueue_urgent_work: to the front, and no flag changes
Urgent(w) ==
  /\ Calm /\ MaySubmit(w, FALSE)
  /\ ready' = <<w>> \o Rest(w) /\ delayed' = delayed \ {w}
  /\ due' = due \cup {w}
  /\ WakeWorker
  /\ UNCHANGED <<current, flags, handler, expired, pc, arg>>

\* Mutant of CancelWorks: the timers keep running.
CancelWorksTimersOn(S, rest) ==
  /\ ready' = rest /\ delayed' = delayed \ S
  /\ pending' = pending \ S /\ submitting' = submitting \ S /\ bound' = bound \ S
  /\ due' = due \ S
  /\ UNCHANGED <<current, timer, worker, handler, expired>>

\* _workqueue_cancel_work of each work in S, which leaves `rest` in the work list
CancelWorks(S, rest) ==
  /\ ready' = rest /\ delayed' = delayed \ S
  /\ pending' = pending \ S /\ submitting' = submitting \ S /\ bound' = bound \ S
  /\ timer' = [w \in Works |-> IF w \in S \cap submitting THEN "none" ELSE timer[w]]
  /\ due' = due \ S
  /\ UNCHANGED <<current, worker, handler, expired>>

\* rt_workqueue_cancel_work
Cancel(w) == Calm /\ CancelWorks({w}, Rest(w)) /\ UNCHANGED <<pc, arg>>

\* rt_workqueue_cancel_all_work, up to its first loop
CancelAll(c) ==
  /\ Calm /\ Unlocked /\ pc[c] = "run"
  /\ pc' = [pc EXCEPT ![c] = "drain"]
  /\ UNCHANGED <<lists, current, flags, worker, handler, expired, arg, due>>

\* The lists are tested with interrupts enabled ...
DrainTest(c) ==
  /\ \/ pc[c] = "drain" /\ ready # <<>> /\ pc' = [pc EXCEPT ![c] = "drop"]
     \/ pc[c] = "drain" /\ ready = <<>> /\ pc' = [pc EXCEPT ![c] = "sweep"]
     \/ pc[c] = "sweep" /\ delayed # {} /\ pc' = [pc EXCEPT ![c] = "pick"]
     \/ pc[c] = "sweep" /\ delayed = {} /\ pc' = [pc EXCEPT ![c] = "run"]
  /\ UNCHANGED <<lists, current, flags, worker, handler, expired, arg, due>>

\* ... and the first work is read, and cancelled with interrupts disabled, without
\* another test
DrainDrop(c) ==
  /\ \/ /\ pc[c] = "drop" /\ ready # <<>>
        /\ CancelWorks({Head(ready)}, Tail(ready))
        /\ pc' = [pc EXCEPT ![c] = "drain"]
     \/ /\ pc[c] = "pick"
        /\ \E w \in delayed : CancelWorks({w}, Rest(w))
        /\ pc' = [pc EXCEPT ![c] = "sweep"]
     \/ /\ \/ pc[c] = "drop" /\ ready = <<>>
           \/ pc[c] = "pick" /\ delayed = {}
        /\ pc' = [pc EXCEPT ![c] = "stuck"]
        /\ UNCHANGED <<lists, current, flags, worker, handler, expired, due>>
  /\ UNCHANGED arg

\* rt_workqueue_cancel_work_sync: the work executes, its end is waited for ...
CancelSync(c, w) ==
  /\ Calm /\ Unlocked /\ pc[c] = "run" /\ current = w
  /\ pc' = [pc EXCEPT ![c] = "take"] /\ arg' = [arg EXCEPT ![c] = w]
  /\ UNCHANGED <<lists, current, flags, worker, handler, expired, due>>

\* ... in rt_sem_take, which waits, because the value of the semaphore is 0
TakeSem(c) ==
  /\ Unlocked /\ pc[c] = "take"
  /\ pc' = [pc EXCEPT ![c] = "sync"]
  /\ UNCHANGED <<lists, current, flags, worker, handler, expired, arg, due>>

-----------------------------------------------------------------------------
(* The worker, _workqueue_thread_entry.                                    *)

Look ==
  /\ Calm /\ Unlocked /\ worker = "look"
  /\ IF ready = <<>>
       THEN worker' = "parked" /\ UNCHANGED <<ready, current, pending, bound, due>>
       ELSE LET w == Head(ready)
            IN  /\ ready' = Tail(ready)
                /\ current' = w
                /\ pending' = pending \ {w} /\ bound' = bound \ {w}
                /\ due' = due \ {w}
                /\ worker' = "work"
  /\ UNCHANGED <<delayed, submitting, timer, handler, expired, pc, arg>>

WorkReturns ==
  /\ Calm /\ Unlocked /\ worker = "work"
  /\ current' = NoWork
  /\ worker' = "ack"
  /\ UNCHANGED <<lists, flags, handler, expired, pc, arg, due>>

\* Mutant of Ack: one waiter is woken.
AckOne ==
  /\ Calm /\ Unlocked /\ worker = "ack"
  /\ IF \E c \in Callers : pc[c] = "sync"
       THEN \E c \in Callers : pc[c] = "sync" /\ pc' = [pc EXCEPT ![c] = "run"]
       ELSE UNCHANGED pc
  /\ arg' = [c \in Callers |-> IF pc'[c] = "run" THEN NoWork ELSE arg[c]]
  /\ worker' = "look"
  /\ UNCHANGED <<lists, current, flags, handler, expired, due>>

\* _workqueue_work_completion wakes whoever waits and leaves the semaphore at 0
Ack ==
  /\ Calm /\ Unlocked /\ worker = "ack"
  /\ pc' = [c \in Callers |-> IF pc[c] = "sync" THEN "run" ELSE pc[c]]
  /\ arg' = [c \in Callers |-> IF pc[c] = "sync" THEN NoWork ELSE arg[c]]
  /\ worker' = "look"
  /\ UNCHANGED <<lists, current, flags, handler, expired, due>>

WorkerStep == Look \/ WorkReturns \/ Ack

-----------------------------------------------------------------------------
(* The timeout handler, _delayed_work_timeout_handler.                     *)

\* The soft timer thread finds the timer of w due: a one-shot timer
Expire(w) ==
  /\ Calm /\ Unlocked /\ handler = "idle" /\ timer[w] = "on"
  /\ timer' = [timer EXCEPT ![w] = "idle"]
  /\ handler' = "read" /\ expired' = w
  /\ UNCHANGED <<lists, current, pending, submitting, bound, worker, pc, arg, due>>

\* queue = work->workqueue; RT_ASSERT(queue != RT_NULL)
HandlerRead ==
  /\ Unlocked /\ handler = "read"
  /\ handler' = IF expired \in bound THEN "run" ELSE "stuck"
  /\ UNCHANGED <<lists, current, flags, worker, expired, pc, arg, due>>

\* Mutant of HandlerRun: the work is not queued.
HandlerRunForgets ==
  /\ Unlocked /\ handler = "run" /\ timer[expired] # "none"
  /\ timer' = [timer EXCEPT ![expired] = "none"]
  /\ submitting' = submitting \ {expired}
  /\ delayed' = delayed \ {expired}
  /\ handler' = "idle" /\ expired' = NoWork
  /\ WakeWorker
  /\ UNCHANGED <<ready, pending, current, bound, pc, arg, due>>

\* A work that executes is not queued; rt_timer_detach asserts that the timer is
\* an object
HandlerRun ==
  /\ Unlocked /\ handler = "run"
  /\ IF timer[expired] = "none"
       THEN handler' = "stuck" /\ UNCHANGED <<lists, pending, submitting, timer, worker, expired>>
       ELSE /\ timer' = [timer EXCEPT ![expired] = "none"]
            /\ submitting' = submitting \ {expired}
            /\ delayed' = delayed \ {expired}
            /\ IF current # expired
                 THEN ready' = Append(Rest(expired), expired)
                      /\ pending' = pending \cup {expired}
                 ELSE ready' = Rest(expired) /\ UNCHANGED pending
            /\ WakeWorker
            /\ handler' = "idle" /\ expired' = NoWork
  /\ UNCHANGED <<current, bound, pc, arg, due>>

-----------------------------------------------------------------------------
Proceed(c) == StartDelay(c) \/ TakeSem(c) \/ DrainTest(c) \/ DrainDrop(c)

HandlerStep == HandlerRead \/ HandlerRun

Services ==
  \/ \E w \in Works :
        \/ Submit(w) \/ Urgent(w) \/ Cancel(w)
        \/ \E c \in Callers : SubmitDelayed(c, w) \/ CancelSync(c, w)
  \/ \E c \in Callers : CancelAll(c)

WqNext ==
  /\ \/ Services \/ WorkerStep \/ HandlerStep
     \/ \E w \in Works : Expire(w)
     \/ \E c \in Callers : Proceed(c)
  /\ UNCHANGED habits

WqSpec == WqInit /\ [][WqNext]_<<wqVars, habits>>

\* The worker, the timer thread and callers inside a service get the CPU, work
\* functions return, and the tick goes on.  Fairness is strong where a service
\* that is not preempted holds up the others for a moment.
WqFairSpec ==
  /\ WqSpec
  /\ SF_wqVars(WorkerStep) /\ WF_wqVars(HandlerStep)
  /\ \A c \in Callers : WF_wqVars(Proceed(c))
  /\ \A w \in Works : SF_wqVars(Expire(w))

-----------------------------------------------------------------------------
(* Properties.                                                             *)

\* Every variable keeps its type.
WqTypeOK ==
  /\ ready \in Seq(Works) /\ delayed \subseteq Works
  /\ current \in Works \cup {NoWork}
  /\ pending \subseteq Works /\ submitting \subseteq Works /\ bound \subseteq Works
  /\ timer \in [Works -> {"none", "idle", "on"}]
  /\ worker \in {"look", "parked", "work", "ack"} /\ (worker = "work") = (current # NoWork)
  /\ handler \in {"idle", "read", "run", "stuck"} /\ expired \in Works \cup {NoWork}
  /\ pc \in [Callers -> {"run", "start", "take", "sync", "stuck"} \cup Draining]
  /\ arg \in [Callers -> Works \cup {NoWork}]
  /\ due \subseteq Works

\* A work is in one list at most, once, and what is pending is in the work list.
ListedOnce ==
  /\ IsInjective(ready)
  /\ ToSet(ready) \cap delayed = {}
  /\ pending \subseteq ToSet(ready)

\* The worker is never suspended while there is work for it, whoever submits it
\* and whenever.
WorkIsSeen == worker = "parked" => ready = <<>>

\* "RT_EOK Success": a work that was accepted stays in a list until it starts or is
\* cancelled; in the delayed list it has a timer that runs or is about to.  Not so
\* for one that is submitted while it executes.
AcceptedIsKept ==
  "reentrant" \notin habits => \A w \in due :
     \/ w \in ToSet(ready)
     \/ /\ w \in delayed
        /\ \/ timer[w] = "on" \/ expired = w
           \/ \E c \in Callers : pc[c] = "start" /\ arg[c] = w

\* RT_ASSERT(queue != RT_NULL): the timeout handler finds the work bound to a queue, and
\* its timer an object.
HandlerSound == handler # "stuck"

\* rt_workqueue_cancel_all_work finds a work where it tested that there is one: of the
\* argument of rt_list_first_entry, "that list is expected to be not empty".
FirstEntryExists ==
  \A c \in Callers :
     /\ pc[c] = "drop" => ready # <<>>
     /\ pc[c] = "pick" => delayed # {}

\* No RT_ASSERT of the timer functions stops a caller.
CallersSound == \A c \in Callers : pc[c] # "stuck"

\* Each holds if each work is submitted either with a delay or without, and services
\* are not interleaved with others or with the timeout handler.
NoAssertFails == habits = {} => HandlerSound /\ FirstEntryExists /\ CallersSound

\* rt_workqueue_cancel_work_sync comes back, if its test and its wait are not interrupted:
\* otherwise the work may have ended when it waits, and only the end of another one
\* wakes it.
SyncReturns ==
  \A c \in Callers : (pc[c] = "sync" /\ "preempted" \notin habits) ~> (pc[c] # "sync")

\* Work that is submitted gets the worker going, unless interrupts keep
\* rt_workqueue_cancel_all_work busy for ever, which locks the scheduler.  A delay ends
\* unless it is set anew, if no assertion stops the timer thread (NoAssertFails).
WorkStarts ==
  /\ (ready # <<>> /\ "preempted" \notin habits) ~> (current # NoWork \/ ready = <<>>)
  /\ \A w \in Works : (w \in delayed /\ habits = {}) ~>
        (w \notin delayed \/ \E c \in Callers : pc[c] = "start" /\ arg[c] = w)
=============================================================================
