------------------------------ MODULE RtKernel ------------------------------
(***************************************************************************)
(* The state and the primitive operations of the RT-Thread scheduler core, *)
(* as configured for the STM32F407 image (one CPU, no SMP): thread states, *)
(* the ready table with its priority group, suspend lists, thread timers,  *)
(* the defunct list and the scheduler lock.                                *)
(*                                                                         *)
(* The kernel state is one record k, and every primitive is a function     *)
(* from k to k.  A primitive stands for code that runs with interrupts     *)
(* disabled, so the modules that use this one compose primitives into      *)
(* atomic steps exactly where the code keeps interrupts disabled.          *)
(*                                                                         *)
(*   k.stat    thread->stat & RT_THREAD_STAT_MASK ("none": no such object) *)
(*   k.yield   the threads whose RT_THREAD_STAT_YIELD bit is set           *)
(*   k.prio    thread->current_priority (0 is the most urgent)             *)
(*   k.error   thread->error                                               *)
(*   k.timer   the threads whose thread_timer is active                    *)
(*   k.list    the lists a thread's tlist node can be linked into          *)
(*   k.group   rt_thread_ready_priority_group, as a set of priorities      *)
(*   k.cur     rt_current_thread                                           *)
(*   k.lock    rt_scheduler_lock_nest                                      *)
(***************************************************************************)
EXTENDS SequencesExt, Integers

CONSTANTS
  Threads,       \* thread control blocks
  Idle,          \* the idle thread, tidle0
  NoThread,      \* RT_NULL
  PRIORITY_MAX,  \* RT_THREAD_PRIORITY_MAX
  Queues,        \* heads of the suspend lists of IPC objects
  Defunct        \* head of _rt_thread_defunct

Priorities == 0 .. PRIORITY_MAX - 1

\* Every list head a thread's tlist node can be linked into.
Lists == Priorities \cup Queues \cup {Defunct}

Stats == {"none", "init", "ready", "suspend", "running", "close"}

\* RT_EOK, -RT_ETIMEOUT, -RT_ERROR
Errors == {"ok", "timeout", "error"}

ASSUME KernelAssumption ==
  /\ PRIORITY_MAX \in Nat \ {0}
  /\ Idle \in Threads
  /\ NoThread \notin Threads
  /\ Queues \cap Priorities = {}
  /\ Defunct \notin Queues \cup Priorities

KernelStates ==
  [stat  : [Threads -> Stats],
   yield : SUBSET Threads,
   prio  : [Threads -> Priorities],
   error : [Threads -> Errors],
   timer : SUBSET Threads,
   list  : [Lists -> Seq(Threads)],
   group : SUBSET Priorities,
   cur   : Threads \cup {NoThread},
   lock  : Nat]

\* rt_system_scheduler_init, with the threads in `made` initialised
\* (rt_thread_init or rt_thread_create) but not started yet.
KernelBoot(made, prio) ==
  [stat  |-> [t \in Threads |-> IF t \in made THEN "init" ELSE "none"],
   yield |-> {},
   prio  |-> prio,
   error |-> [t \in Threads |-> "ok"],
   timer |-> {},
   list  |-> [l \in Lists |-> <<>>],
   group |-> {},
   cur   |-> NoThread,
   lock  |-> 0]

-----------------------------------------------------------------------------
(* Lists.  A thread has one list node, so unlinking it is unlinking it     *)
(* from whatever list holds it; linking it does not unlink it first.       *)

On(k, l) == ToSet(k.list[l])

\* rt_list_remove(&thread->tlist)
Unlink(k, t) ==
  [k EXCEPT !.list = [l \in Lists |-> RemoveFirst(k.list[l], t)]]

\* rt_list_insert_before(head, &thread->tlist): at the tail
LinkLast(k, l, t) == [k EXCEPT !.list[l] = Append(@, t)]

\* rt_list_insert_after(head, &thread->tlist): at the front
LinkFirst(k, l, t) == [k EXCEPT !.list[l] = InsertAt(@, 1, t)]

\* Mutant of LinkByPriority: the comparison of priorities turned round.
LinkByPriorityReversed(k, l, t) ==
  LET s == k.list[l]
      later == {i \in 1 .. Len(s) : k.prio[t] > k.prio[s[i]]}
  IN  [k EXCEPT !.list[l] = InsertAt(s, Min(later \cup {Len(s) + 1}), t)]

\* RT_IPC_FLAG_PRIO: before the first waiter that is less urgent
LinkByPriority(k, l, t) ==
  LET s == k.list[l]
      later == {i \in 1 .. Len(s) : k.prio[t] < k.prio[s[i]]}
      at == Min(later \cup {Len(s) + 1})
  IN  [k EXCEPT !.list[l] = InsertAt(s, at, t)]

-----------------------------------------------------------------------------
(* The scheduler.                                                          *)

\* thread->stat = s | (thread->stat & ~RT_THREAD_STAT_MASK): keeps the YIELD bit
SetStat(k, t, s) == [k EXCEPT !.stat[t] = s]

\* thread->stat = s: clears the YIELD bit
AssignStat(k, t, s) == [k EXCEPT !.stat[t] = s, !.yield = @ \ {t}]

StopTimer(k, t) == [k EXCEPT !.timer = @ \ {t}]

\* rt_schedule_insert_thread
ScheduleInsert(k, t) ==
  IF t = k.cur
    THEN SetStat(k, t, "running")
    ELSE [LinkLast(SetStat(k, t, "ready"), k.prio[t], t)
            EXCEPT !.group = @ \cup {k.prio[t]}]

\* Mutant of ScheduleRemove: the bit of an emptied ready list stays set.
ScheduleRemoveStaleBit(k, t) == Unlink(k, t)

\* rt_schedule_remove_thread
ScheduleRemove(k, t) ==
  LET u == Unlink(k, t)
  IN  [u EXCEPT !.group = IF u.list[k.prio[t]] = <<>> THEN @ \ {k.prio[t]}
                                                      ELSE @]

\* Mutant of HighestPriority: the last bit set instead of the first.
LastPriority(k) == Max(k.group)

\* _scheduler_get_highest_priority_thread
HighestPriority(k) == Min(k.group)
HighestThread(k) == Head(k.list[HighestPriority(k)])

\* The part of rt_schedule that makes `to` the running thread.
Dispatch(k, to) == SetStat(ScheduleRemove(k, to), to, "running")

\* Mutant of KeepsCpu: the YIELD bit is not looked at.
KeepsCpuDespiteYield(k) ==
  k.stat[k.cur] = "running" /\ k.prio[k.cur] <= HighestPriority(k)

\* rt_schedule keeps the current thread when it is still running and no ready
\* thread beats it; a thread of equal priority beats it only if it must yield.
KeepsCpu(k) ==
  /\ k.stat[k.cur] = "running"
  /\ \/ k.prio[k.cur] < HighestPriority(k)
     \/ k.prio[k.cur] = HighestPriority(k) /\ k.cur \notin k.yield

\* rt_schedule
RtSchedule(k) ==
  LET from    == k.cur
      running == k.stat[from] = "running"
      to      == IF KeepsCpu(k) THEN from ELSE HighestThread(k)
      cleared == IF running THEN [k EXCEPT !.yield = @ \ {from}] ELSE k
      moved   == [cleared EXCEPT !.cur = to]
  IN  IF k.lock > 0 \/ k.group = {} THEN k
      ELSE Dispatch(IF running /\ to # from THEN ScheduleInsert(moved, from)
                                            ELSE moved, to)

\* rt_system_scheduler_start
SchedulerStart(k) ==
  LET to == HighestThread(k)
  IN  AssignStat(ScheduleRemove([k EXCEPT !.cur = to], to), to, "running")

-----------------------------------------------------------------------------
(* Thread services.                                                        *)

\* rt_thread_suspend; callers ignore its error return
ThreadSuspend(k, t) ==
  IF k.stat[t] \in {"ready", "running"}
    THEN StopTimer(SetStat(ScheduleRemove(k, t), t, "suspend"), t)
    ELSE k

\* The critical section of rt_thread_resume, after its test of the state.
ResumeLinked(k, t) == ScheduleInsert(StopTimer(Unlink(k, t), t), t)

\* rt_thread_resume called with interrupts disabled
ThreadResume(k, t) ==
  IF k.stat[t] = "suspend" THEN ResumeLinked(k, t) ELSE k

\* rt_thread_startup up to its rt_schedule
ThreadStart(k, t) == ThreadResume(AssignStat(k, t, "suspend"), t)

\* rt_timer_check takes the expired one-shot timer off its list and calls
\* _thread_timeout, in the tick interrupt
ThreadTimeout(k, t) ==
  ScheduleInsert(Unlink([StopTimer(k, t) EXCEPT !.error[t] = "timeout"], t), t)

\* Mutant of ChangePriority: a READY thread is not moved to its new list.
ChangePriorityInPlace(k, t, p) == [k EXCEPT !.prio[t] = p]

\* rt_thread_control(RT_THREAD_CTRL_CHANGE_PRIORITY)
ChangePriority(k, t, p) ==
  IF k.stat[t] = "ready"
    THEN ScheduleInsert([ScheduleRemove(k, t) EXCEPT !.prio[t] = p], t)
    ELSE [k EXCEPT !.prio[t] = p]

\* Mutants of ThreadClose: the thread timer is not stopped; the state is left.
ThreadCloseTimerLeft(k, t) == LinkFirst(AssignStat(k, t, "close"), Defunct, t)
ThreadCloseStateLeft(k, t) == LinkFirst(StopTimer(k, t), Defunct, t)

\* The second half of rt_thread_delete and rt_thread_detach: timer, state
\* and defunct list, with interrupts disabled
ThreadClose(k, t) ==
  LinkFirst(AssignStat(StopTimer(k, t), t, "close"), Defunct, t)

\* rt_tick_increase when the current thread's time slice is used up
SliceEnd(k) == RtSchedule([k EXCEPT !.yield = @ \cup {k.cur}])

-----------------------------------------------------------------------------
(* Suspend lists of IPC objects.                                           *)

\* rt_timer_control(SET_TIME) and rt_timer_start on the thread timer
StartTimer(k, t) == [k EXCEPT !.timer = @ \cup {t}]

\* Mutants of ListSuspendFifo and ListSuspendPrio: at the wrong end of the list.
ListSuspendLifo(k, q, t) == LinkFirst(ThreadSuspend(k, t), q, t)
ListSuspendLast(k, q, t) == LinkLast(ThreadSuspend(k, t), q, t)

\* _ipc_list_suspend, for the two queueing policies
ListSuspendFifo(k, q, t) == LinkLast(ThreadSuspend(k, t), q, t)
ListSuspendPrio(k, q, t) == LinkByPriority(ThreadSuspend(k, t), q, t)

\* _ipc_list_resume
ListResume(k, q) == ThreadResume(k, Head(k.list[q]))

\* One iteration of _ipc_list_resume_all: the waiter is told -RT_ERROR
ListResumeFailed(k, q) ==
  ThreadResume([k EXCEPT !.error[Head(k.list[q])] = "error"], Head(k.list[q]))

-----------------------------------------------------------------------------
(* What must hold of the kernel state whenever interrupts are enabled.     *)

\* No list holds a thread twice, and no two lists share a thread.
ListsDisjoint(k) ==
  /\ \A l \in Lists : IsInjective(k.list[l])
  /\ \A l, m \in Lists : l # m => On(k, l) \cap On(k, m) = {}

\* The priority group has a bit set exactly for the non-empty ready lists.
GroupExact(k) == k.group = {p \in Priorities : k.list[p] # <<>>}

\* A thread in a ready list is READY and in the list of its own priority.
ReadyListsSound(k) ==
  \A p \in Priorities : \A t \in On(k, p) : k.stat[t] = "ready" /\ k.prio[t] = p

\* A READY thread, other than those in `limbo`, is in its ready list.
ReadyThreadsQueued(k, limbo) ==
  \A t \in Threads \ limbo : k.stat[t] = "ready" => t \in On(k, k.prio[t])

\* Only suspended threads are in suspend lists, only closed ones in Defunct.
WaitersSuspended(k) == \A q \in Queues : \A t \in On(k, q) : k.stat[t] = "suspend"
DefunctClosed(k) == \A t \in On(k, Defunct) : k.stat[t] = "close"

\* Only the current thread runs, and it is never queued as ready.
OnlyCurrentRuns(k) ==
  /\ \A t \in Threads : k.stat[t] = "running" => t = k.cur
  /\ k.cur # NoThread => k.stat[k.cur] \in {"running", "suspend", "close"}

\* RT_ASSERT of _thread_timeout: an active thread timer is that of a suspended thread.
TimersSuspended(k) == \A t \in k.timer : k.stat[t] = "suspend"

KernelOK(k, limbo) ==
  /\ ListsDisjoint(k)
  /\ GroupExact(k)
  /\ ReadyListsSound(k)
  /\ ReadyThreadsQueued(k, limbo)
  /\ WaitersSuspended(k)
  /\ DefunctClosed(k)
  /\ OnlyCurrentRuns(k)
  /\ TimersSuspended(k)
=============================================================================
