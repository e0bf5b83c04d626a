----------------------------- MODULE Semaphore ------------------------------
(***************************************************************************)
(* The counting semaphore of ipc.c on top of the thread kernel: rt_sem_    *)
(* init/create, take, release (from threads and from interrupts), control  *)
(* RESET and detach/delete, with timeouts and with threads deleted while   *)
(* they wait.                                                              *)
(*                                                                         *)
(*   value   sem->value                                                    *)
(*   obj     "live"; "dying" inside rt_sem_detach or rt_sem_delete; "dead" *)
(*   units   what the return values promise: the initial value, plus one   *)
(*           for each successful release, less one for each successful     *)
(*           take                                                          *)
(*   lost    units handed to a thread that was deleted before its take     *)
(*           returned                                                      *)
(*                                                                         *)
(* More labels of pc: "take" and "taken" in rt_sem_take, before and after  *)
(* rt_schedule; "reset" in RT_IPC_CMD_RESET; "detach" and "wake" in the    *)
(* loop of _ipc_list_resume_all, before and after its test of the list.    *)
(***************************************************************************)
EXTENDS RtThread

CONSTANTS
  Sem,            \* the suspend list of the semaphore
  Flag,           \* RT_IPC_FLAG_FIFO or RT_IPC_FLAG_PRIO
  SEM_VALUE_MAX,  \* RT_SEM_VALUE_MAX
  InitialValue    \* value given to rt_sem_init or rt_sem_create

ASSUME SemaphoreAssumption ==
  /\ Sem \in Queues
  /\ Flag \in {"fifo", "prio"}
  /\ SEM_VALUE_MAX \in Nat
  /\ InitialValue \in 0 .. SEM_VALUE_MAX

VARIABLES value, obj, units, lost

semVars == <<value, obj, units, lost>>

SemPCs == {"run", "sched", "sleep", "woken", "take", "taken", "reset", "detach", "wake", "delete"}

SemInit ==
  /\ Init
  /\ value = InitialValue
  /\ obj = "live"
  /\ units = InitialValue
  /\ lost = 0

\* Threads that rt_sem_release has woken and whose take has not returned yet.
Handed ==
  {t \in Threads : /\ pc[t] \in {"take", "taken"}
                   /\ k.stat[t] \in {"ready", "running"}
                   /\ k.error[t] = "ok"}

-----------------------------------------------------------------------------
Usable == obj = "live"

\* rt_sem_take when a unit is available
TakeAvailable ==
  /\ MayBlock /\ Usable
  /\ value > 0
  /\ value' = value - 1
  /\ units' = units - 1
  /\ UNCHANGED <<vars, obj, lost>>

\* Mutant of ListSuspend: the thread is queued but not suspended.
ListSuspendAwake(s, t) == LinkLast(s, Sem, t)

ListSuspend(s, t) ==
  IF Flag = "fifo" THEN ListSuspendFifo(s, Sem, t) ELSE ListSuspendPrio(s, Sem, t)

\* rt_sem_take when none is: the thread queues up, and a finite time starts its
\* timer.  (With time 0 the call returns -RT_ETIMEOUT and changes nothing.)
TakeBlock(finite) ==
  /\ MayBlock /\ Usable
  /\ value = 0
  /\ LET s == ListSuspend([k EXCEPT !.error[Self] = "ok"], Self)
     IN  k' = IF finite THEN StartTimer(s, Self) ELSE s
  /\ Goto("take")
  /\ UNCHANGED <<arg, lazy, semVars>>

\* Mutant of TakeReturn: success without looking at thread->error.
TakeReturnBlind ==
  /\ At("taken")
  /\ units' = units - 1
  /\ Goto("run")
  /\ UNCHANGED <<k, arg, lazy, value, obj, lost>>

\* The rest of rt_sem_take: thread->error tells who woke the thread
TakeReturn ==
  /\ At("taken")
  /\ units' = IF k.error[Self] = "ok" THEN units - 1 ELSE units
  /\ Goto("run")
  /\ UNCHANGED <<k, arg, lazy, value, obj, lost>>

\* Mutant of ReleaseUnit: the value counts a unit handed over.
ReleaseUnitTwice ==
  /\ Usable
  /\ value < SEM_VALUE_MAX /\ value' = value + 1
  /\ units' = units + 1
  /\ UNCHANGED <<obj, lost>>

\* The critical section of rt_sem_release, except that with the value at its
\* limit it returns -RT_EFULL and changes nothing
ReleaseUnit ==
  /\ Usable
  /\ IF k.list[Sem] # <<>> THEN UNCHANGED value
                           ELSE value < SEM_VALUE_MAX /\ value' = value + 1
  /\ units' = units + 1
  /\ UNCHANGED <<obj, lost>>

\* rt_sem_release called by a thread
Release ==
  /\ InApp
  /\ ReleaseUnit
  /\ IF k.list[Sem] # <<>> THEN k' = ListResume(k, Sem) /\ Goto("sched")
                           ELSE UNCHANGED <<k, pc>>
  /\ UNCHANGED <<arg, lazy>>

\* rt_sem_release called by an interrupt handler
IsrRelease ==
  /\ IrqEnabled
  /\ ReleaseUnit
  /\ IF k.list[Sem] # <<>>
       THEN /\ \E resumed \in {ListResume(k, Sem)} : k' = RtSchedule(resumed)
            /\ Scheduled
       ELSE UNCHANGED <<k, lazy>>
  /\ UNCHANGED <<pc, arg>>

\* rt_sem_control(RT_IPC_CMD_RESET): with interrupts disabled, every waiter is
\* woken with -RT_ERROR ...
Reset ==
  /\ InApp /\ Usable
  /\ Goto("reset")
  /\ UNCHANGED <<k, arg, lazy, semVars>>

ResetWake ==
  /\ At("reset")
  /\ k.list[Sem] # <<>>
  /\ k' = ListResumeFailed(k, Sem)
  /\ UNCHANGED <<pc, arg, lazy, semVars>>

\* Mutant of ResetValue: the value is set before the waiters are woken.
ResetValueEarly(v) ==
  /\ At("reset")
  /\ value' = v
  /\ units' = units + (v - value)
  /\ Goto("sched")
  /\ UNCHANGED <<k, arg, lazy, obj, lost>>

\* ... and the value is set, after which rt_schedule runs
ResetValue(v) ==
  /\ At("reset")
  /\ k.list[Sem] = <<>>
  /\ value' = v
  /\ units' = units + (v - value)
  /\ Goto("sched")
  /\ UNCHANGED <<k, arg, lazy, obj, lost>>

\* rt_sem_detach, rt_sem_delete: _ipc_list_resume_all tests the list with
\* interrupts enabled ...
Detach ==
  /\ InApp /\ Usable
  /\ obj' = "dying"
  /\ Goto("detach")
  /\ UNCHANGED <<k, arg, lazy, value, units, lost>>

DetachTest ==
  /\ At("detach")
  /\ k.list[Sem] # <<>>
  /\ Goto("wake")
  /\ UNCHANGED <<k, arg, lazy, semVars>>

\* ... then disables them and wakes the first waiter, without another test.  Should
\* the last one have timed out in between, the list head is taken for a thread, and
\* the assertion of rt_thread_resume stops the system.
DetachWake ==
  /\ At("wake")
  /\ k.list[Sem] # <<>>
  /\ k' = ListResumeFailed(k, Sem)
  /\ lazy' = TRUE
  /\ Goto("detach")
  /\ UNCHANGED <<arg, semVars>>

\* rt_object_detach or rt_object_delete; no rt_schedule follows
DetachDone ==
  /\ At("detach")
  /\ k.list[Sem] = <<>>
  /\ obj' = "dead"
  /\ Goto("run")
  /\ UNCHANGED <<k, arg, lazy, value, units, lost>>

\* rt_sem_init, rt_sem_create
InitSem(v) ==
  /\ InApp
  /\ obj = "dead"
  /\ obj' = "live"
  /\ value' = v
  /\ units' = units + (v - value)
  /\ UNCHANGED <<vars, lost>>

\* rt_thread_delete of a thread that may be waiting or have been handed a unit:
\* nothing gives the unit back
DeleteThread(t) == Delete(t, "delete") /\ UNCHANGED semVars

DeleteThreadEnd ==
  /\ DeleteEnd
  /\ lost' = IF arg[Self] \in Handed THEN lost + 1 ELSE lost
  /\ UNCHANGED <<value, obj, units>>

-----------------------------------------------------------------------------
SemService ==
  \/ TakeAvailable
  \/ \E finite \in BOOLEAN : TakeBlock(finite)
  \/ Release \/ Reset \/ Detach
  \/ \E v \in 0 .. SEM_VALUE_MAX : InitSem(v)
  \/ \E t \in Workers : DeleteThread(t)
  \/ Sleep /\ UNCHANGED semVars

SemContinue ==
  \/ ScheduleFrom("take", "taken") /\ UNCHANGED semVars
  \/ (Schedule \/ Woken) /\ UNCHANGED semVars
  \/ TakeReturn
  \/ ResetWake \/ \E v \in 0 .. SEM_VALUE_MAX : ResetValue(v)
  \/ DetachTest \/ DetachWake \/ DetachDone
  \/ DeleteThreadEnd

SemNext ==
  \/ Boot /\ UNCHANGED semVars
  \/ SemService
  \/ SemContinue
  \/ IsrRelease
  \/ Tick /\ UNCHANGED semVars

SemSpec == SemInit /\ [][SemNext]_<<vars, semVars>>

\* Threads get to the end of the services they are in, and a pending interrupt is
\* taken once interrupts are enabled: the tick is periodic, and the interrupt that
\* releases the semaphore keeps coming.
SemFairSpec ==
  /\ SemSpec
  /\ SF_<<vars, semVars>>(SliceTick /\ UNCHANGED semVars)
  /\ WF_<<vars, semVars>>((Boot /\ UNCHANGED semVars) \/ SemContinue)
  /\ SF_<<vars, semVars>>(IsrRelease)

-----------------------------------------------------------------------------
(* Properties.                                                             *)

SemTypeOK ==
  /\ k \in KernelStates
  /\ pc \in [Threads -> SemPCs]
  /\ arg \in [Threads -> Threads \cup {NoThread}]
  /\ lazy \in BOOLEAN
  /\ value \in 0 .. SEM_VALUE_MAX
  /\ obj \in {"live", "dying", "dead"}
  /\ units \in Nat
  /\ lost \in Nat

\* No lost wakeup: a thread never waits for a semaphore that has units left.
WaitersOnlyAtZero == k.list[Sem] # <<>> => value = 0

\* No unit is forged, duplicated or dropped, whatever the order of releases,
\* timeouts, resets and deletions: what the callers were promised is in the
\* value, on its way to a woken thread, or gone with a deleted thread.
UnitsConserved == units = value + Cardinality(Handed) + lost

\* rt_sem_detach, rt_sem_delete: the loop of _ipc_list_resume_all finds a thread where
\* it expects one, RT_ASSERT(rt_object_get_type(thread) == RT_Object_Class_Thread).
\* It does not if the last waiter times out between its test and its critical section.
WakesAThread == At("wake") => k.list[Sem] # <<>>

\* rt_sem_take, rt_sem_release, rt_sem_detach: types, the scheduler's structures and no
\* lost wakeup.
SemSound == SemTypeOK /\ KernelSound /\ WaitersOnlyAtZero

\* RT_IPC_FLAG_PRIO: the pending threads queue in order of priority.
PriorityOrder ==
  Flag = "prio" =>
    \A i, j \in DOMAIN k.list[Sem] :
       i < j => k.prio[k.list[Sem][i]] <= k.prio[k.list[Sem][j]]

\* RT_IPC_FLAG_FIFO, "first in, first out": as long as the semaphore is released
\* again and again, no waiter is overtaken for ever.
EveryWaiterServed == \A t \in Workers : t \in On(k, Sem) ~> t \notin On(k, Sem)

\* What a semaphore promises, whoever waits and in whatever order things happen.
Contract ==
  INSTANCE AbsSemaphore WITH
    Clients <- Threads, Limit <- SEM_VALUE_MAX, Start <- InitialValue,
    avail <- value,
    waiting <- On(k, Sem),
    granted <- Handed

ContractSpec == Contract!Spec
=============================================================================
