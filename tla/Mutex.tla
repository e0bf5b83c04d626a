------------------------------- MODULE Mutex --------------------------------
(***************************************************************************)
(* The recursive, priority-inheriting mutex of ipc.c on top of the thread  *)
(* kernel: rt_mutex_init/create, take (with and without a timeout),        *)
(* release and detach/delete, with waiters deleted while they wait.        *)
(*                                                                         *)
(*   mx[m]    the fields of mutex m: owner, hold, value, orig              *)
(*            (original_priority; PRIORITY_MAX stands for 0xFF)            *)
(*   obj[m]   "live"; "dying" inside rt_mutex_detach or delete; "dead"     *)
(*   has[t]   how often the return values told thread t that it took and   *)
(*            released each mutex: takes less releases                     *)
(*   base     the priority each thread was created with                    *)
(*                                                                         *)
(* More labels of pc, with the mutex in arg: "take" and "taken" in         *)
(* rt_mutex_take, before and after rt_schedule; "detach" and "wake" in the *)
(* loop of _ipc_list_resume_all, before and after its test of the list.    *)
(***************************************************************************)
EXTENDS RtThread

CONSTANTS
  Mutexes,         \* the suspend lists of the mutexes
  Detachable,      \* mutexes the application deletes and creates again
  MUTEX_HOLD_MAX   \* RT_MUTEX_HOLD_MAX

ASSUME MutexAssumption ==
  /\ Mutexes = Queues
  /\ Mutexes \cap Threads = {} /\ NoThread \notin Mutexes
  /\ Detachable \subseteq Mutexes
  /\ MUTEX_HOLD_MAX \in Nat \ {0}

VARIABLES mx, obj, has, base

mutexVars == <<mx, obj, has, base>>

MutexPCs == {"run", "sched", "sleep", "woken", "take", "taken", "detach", "wake", "delete"}

Free == [owner |-> NoThread, hold |-> 0, value |-> 1, orig |-> PRIORITY_MAX]

MutexInit ==
  /\ Init
  /\ mx = [m \in Mutexes |-> Free]
  /\ obj = [m \in Mutexes |-> "live"]
  /\ has = [t \in Threads |-> [m \in Mutexes |-> 0]]
  /\ base = k.prio

Usable(m) == obj[m] = "live"
Count(t, m, n) == has' = [has EXCEPT ![t][m] = @ + n]
Owned(m, t, n, p) == [mx[m] EXCEPT !.owner = t, !.hold = n, !.value = 0, !.orig = p]

-----------------------------------------------------------------------------
(* rt_mutex_take.                                                          *)

ClearError == [k EXCEPT !.error[Self] = "ok"]

\* Mutant of TakeAgain: the hold count is not limited.
TakeAgainNoLimit(m) ==
  /\ MayBlock /\ Usable(m)
  /\ mx[m].owner = Self
  /\ k' = ClearError
  /\ mx' = [mx EXCEPT ![m].hold = @ + 1]
  /\ Count(Self, m, 1)
  /\ UNCHANGED <<pc, arg, lazy, obj, base>>

\* The owner takes the mutex again.  (At the limit the call returns -RT_EFULL.)
TakeAgain(m) ==
  /\ MayBlock /\ Usable(m)
  /\ mx[m].owner = Self
  /\ k' = ClearError
  /\ IF mx[m].hold < MUTEX_HOLD_MAX
       THEN mx' = [mx EXCEPT ![m].hold = @ + 1] /\ Count(Self, m, 1)
       ELSE UNCHANGED <<mx, has>>
  /\ UNCHANGED <<pc, arg, lazy, obj, base>>

\* The mutex is free, so its hold count is zero and cannot overflow.
TakeFree(m) ==
  /\ MayBlock /\ Usable(m)
  /\ mx[m].owner # Self /\ mx[m].value > 0
  /\ k' = ClearError
  /\ mx' = [mx EXCEPT ![m] = Owned(m, Self, @.hold + 1, k.prio[Self])]
  /\ Count(Self, m, 1)
  /\ UNCHANGED <<pc, arg, lazy, obj, base>>

\* RT_WAITING_NO and somebody else owns the mutex
TakeBusy(m) ==
  /\ MayBlock /\ Usable(m)
  /\ mx[m].owner # Self /\ mx[m].value = 0
  /\ k' = [k EXCEPT !.error[Self] = "timeout"]
  /\ UNCHANGED <<pc, arg, lazy, mutexVars>>

\* Mutants of Inherit: none at all; only for an owner that is READY.
InheritNothing(s, owner, t) == s
InheritIfReady(s, owner, t) ==
  IF s.stat[owner] = "ready" /\ s.prio[t] < s.prio[owner]
    THEN ChangePriority(s, owner, s.prio[t]) ELSE s

\* Priority inheritance: the owner is raised to the priority of a waiter that
\* is more urgent.
Inherit(s, owner, t) ==
  IF s.prio[t] < s.prio[owner] THEN ChangePriority(s, owner, s.prio[t]) ELSE s

\* Somebody else owns the mutex: raise the owner, queue up, start the timer
TakeBlock(m, finite) ==
  /\ MayBlock /\ Usable(m)
  /\ mx[m].owner # Self /\ mx[m].value = 0
  /\ LET s == ListSuspendPrio(Inherit(ClearError, mx[m].owner, Self), m, Self)
     IN  k' = IF finite THEN StartTimer(s, Self) ELSE s
  /\ Goto("take")
  /\ Target(m)
  /\ UNCHANGED <<lazy, mutexVars>>

\* Mutant of TakeReturn: success without looking at thread->error.
TakeReturnBlind ==
  /\ At("taken")
  /\ Count(Self, arg[Self], 1)
  /\ Goto("run")
  /\ Target(NoThread)
  /\ UNCHANGED <<k, lazy, mx, obj, base>>

\* The rest of rt_mutex_take: thread->error tells who woke the thread
TakeReturn ==
  /\ At("taken")
  /\ IF k.error[Self] = "ok" THEN Count(Self, arg[Self], 1) ELSE UNCHANGED has
  /\ Goto("run")
  /\ Target(NoThread)
  /\ UNCHANGED <<k, lazy, mx, obj, base>>

-----------------------------------------------------------------------------
(* rt_mutex_release.                                                       *)

ReleaseNotOwner(m) ==
  /\ InApp /\ Usable(m)
  /\ mx[m].owner # Self
  /\ k' = [k EXCEPT !.error[Self] = "error"]
  /\ UNCHANGED <<pc, arg, lazy, mutexVars>>

ReleaseNested(m) ==
  /\ InApp /\ Usable(m)
  /\ mx[m].owner = Self /\ mx[m].hold > 1
  /\ mx' = [mx EXCEPT ![m].hold = @ - 1]
  /\ Count(Self, m, -1)
  /\ UNCHANGED <<k, pc, arg, lazy, obj, base>>

\* Mutant of Restored: the owner keeps the inherited priority.
RestoredNot(m) == k

\* The outermost release puts the owner back to the priority it had when it
\* took this mutex.
Restored(m) ==
  IF mx[m].orig # k.prio[Self] THEN ChangePriority(k, Self, mx[m].orig) ELSE k

\* Mutant of ReleaseLast: the waiters are forgotten.
ReleaseLastForgetsWaiters(m) ==
  /\ InApp /\ Usable(m)
  /\ mx[m].owner = Self /\ mx[m].hold = 1
  /\ mx' = [mx EXCEPT ![m] = Free]
  /\ k' = Restored(m)
  /\ Count(Self, m, -1)
  /\ UNCHANGED <<pc, arg, lazy, obj, base>>

\* It hands the mutex to the first waiter, if there is one, and schedules;
\* without a waiter a lowered priority takes effect at the next rt_schedule.
ReleaseLast(m) ==
  /\ InApp /\ Usable(m)
  /\ mx[m].owner = Self /\ mx[m].hold = 1
  /\ LET s == Restored(m)
         w == Head(s.list[m])
     IN  IF s.list[m] # <<>>
           THEN /\ mx' = [mx EXCEPT ![m] = Owned(m, w, 1, s.prio[w])]
                /\ k' = ListResume(s, m)
                /\ Goto("sched")
                /\ UNCHANGED lazy
           ELSE /\ mx' = [mx EXCEPT ![m] = Free]
                /\ k' = s
                /\ lazy' = (lazy \/ s # k)
                /\ UNCHANGED pc
  /\ Count(Self, m, -1)
  /\ UNCHANGED <<arg, obj, base>>

-----------------------------------------------------------------------------
(* rt_mutex_detach, rt_mutex_delete and a later rt_mutex_init or create.   *)

Detach(m) ==
  /\ InApp /\ Usable(m)
  /\ obj' = [obj EXCEPT ![m] = "dying"]
  /\ Goto("detach")
  /\ Target(m)
  /\ UNCHANGED <<k, lazy, mx, has, base>>

DetachTest ==
  /\ At("detach")
  /\ k.list[arg[Self]] # <<>>
  /\ Goto("wake")
  /\ UNCHANGED <<k, arg, lazy, mutexVars>>

\* With no waiter left the system stops at the assertion of rt_thread_resume.
DetachWake ==
  /\ At("wake")
  /\ k.list[arg[Self]] # <<>>
  /\ k' = ListResumeFailed(k, arg[Self])
  /\ lazy' = TRUE
  /\ Goto("detach")
  /\ UNCHANGED <<arg, mutexVars>>

DetachDone ==
  /\ At("detach")
  /\ k.list[arg[Self]] = <<>>
  /\ obj' = [obj EXCEPT ![arg[Self]] = "dead"]
  /\ Goto("run")
  /\ Target(NoThread)
  /\ UNCHANGED <<k, lazy, mx, has, base>>

DetachLoop(m) ==
  /\ Running /\ arg[Self] = m
  /\ DetachTest \/ DetachWake \/ DetachDone

\* Mutant of InitMutex: the fields of the earlier life are kept.
InitMutexStale(m) ==
  /\ InApp
  /\ obj[m] = "dead"
  /\ \A t \in Threads : ~(pc[t] \in {"take", "taken"} /\ arg[t] = m)
  /\ obj' = [obj EXCEPT ![m] = "live"]
  /\ has' = [t \in Threads |-> [has[t] EXCEPT ![m] = 0]]
  /\ UNCHANGED <<vars, mx, base>>

\* The storage is not used again while a thread is still inside a take of it.
InitMutex(m) ==
  /\ InApp
  /\ obj[m] = "dead"
  /\ \A t \in Threads : ~(pc[t] \in {"take", "taken"} /\ arg[t] = m)
  /\ obj' = [obj EXCEPT ![m] = "live"]
  /\ mx' = [mx EXCEPT ![m] = Free]
  /\ has' = [t \in Threads |-> [has[t] EXCEPT ![m] = 0]]
  /\ UNCHANGED <<vars, base>>

\* rt_thread_delete of a thread that owns no mutex but may wait for one
DeleteThread(t) ==
  /\ \A m \in Mutexes : mx[m].owner # t
  /\ Delete(t, "delete")
  /\ UNCHANGED mutexVars

-----------------------------------------------------------------------------
MutexService ==
  \/ \E m \in Mutexes :
        \/ TakeAgain(m) \/ TakeFree(m) \/ TakeBusy(m)
        \/ \E finite \in BOOLEAN : TakeBlock(m, finite)
        \/ ReleaseNotOwner(m) \/ ReleaseNested(m) \/ ReleaseLast(m)
  \/ \E m \in Detachable : Detach(m) \/ InitMutex(m)
  \/ \E t \in Workers : DeleteThread(t)
  \/ Sleep /\ UNCHANGED mutexVars

MutexContinue ==
  \/ ScheduleFrom("take", "taken") /\ UNCHANGED mutexVars
  \/ (Schedule \/ Woken) /\ UNCHANGED mutexVars
  \/ TakeReturn
  \/ \E m \in Detachable : DetachLoop(m)
  \/ DeleteEnd /\ UNCHANGED mutexVars

MutexNext ==
  \/ Boot /\ UNCHANGED mutexVars
  \/ MutexService
  \/ MutexContinue
  \/ Tick /\ UNCHANGED mutexVars

MutexSpec == MutexInit /\ [][MutexNext]_<<vars, mutexVars>>

-----------------------------------------------------------------------------
(* Properties.                                                             *)

MutexTypeOK ==
  /\ k \in KernelStates
  /\ pc \in [Threads -> MutexPCs]
  /\ arg \in [Threads -> Threads \cup Mutexes \cup {NoThread}]
  /\ lazy \in BOOLEAN
  /\ mx \in [Mutexes -> [owner : Threads \cup {NoThread}, hold : 0 .. MUTEX_HOLD_MAX,
                         value : {0, 1}, orig : 0 .. PRIORITY_MAX]]
  /\ obj \in [Mutexes -> {"live", "dying", "dead"}]
  /\ has \in [Threads -> [Mutexes -> Nat]]
  /\ base \in [Threads -> Priorities]

\* A thread that has been made owner and is on its way out of rt_mutex_take.
Handed(t, m) ==
  /\ pc[t] \in {"take", "taken"} /\ arg[t] = m
  /\ k.stat[t] \in {"ready", "running"} /\ k.error[t] = "ok"

\* Mutual exclusion, as the callers see it: only the owner has been told that
\* it took the mutex, exactly hold times counting a take that is about to return.
OnlyOwnerHas ==
  \A m \in Mutexes : obj[m] = "live" =>
    \A t \in Threads :
       has[t][m] + (IF Handed(t, m) THEN 1 ELSE 0)
         = IF mx[m].owner = t THEN mx[m].hold ELSE 0

\* No lost wakeup and no phantom owner: nobody waits for a mutex that is free,
\* and value, owner and hold count agree.
WaitersHaveOwner ==
  \A m \in Mutexes :
    /\ k.list[m] # <<>> => mx[m].owner # NoThread
    /\ mx[m].value = 1 <=> mx[m].owner = NoThread
    /\ mx[m].hold = 0 <=> mx[m].owner = NoThread

\* rt_mutex_take, rt_mutex_release: types, the scheduler's structures, mutual
\* exclusion and hand-over.
MutexSound == MutexTypeOK /\ KernelSound /\ OnlyOwnerHas /\ WaitersHaveOwner

\* Priority inheritance: the owner is as urgent as every thread that waits for
\* the mutex ("FIFO cannot solve the unbounded priority inversion problem").
Inherits ==
  \A m \in Mutexes : \A w \in On(k, m) : k.prio[mx[m].owner] <= k.prio[w]

\* "change the owner thread to original priority": a thread that owns no mutex
\* has the priority it was created with.
PriorityRestored ==
  \A t \in Threads :
     (\A m \in Mutexes : mx[m].owner # t) => k.prio[t] = base[t]

\* The waiters of a mutex queue in order of priority.
WaitersSorted ==
  \A m \in Mutexes : \A i, j \in DOMAIN k.list[m] :
     i < j => k.prio[k.list[m][i]] <= k.prio[k.list[m][j]]

\* rt_mutex_take raises the owner above its waiters and queues them by priority.
PriorityProtocol == Inherits /\ WaitersSorted

\* No unbounded inversion: while a thread waits for a mutex whose owner is
\* READY, the CPU is not with a thread less urgent than the waiter, except until
\* an rt_schedule that is already due.
NoInversion ==
  \A m \in Mutexes : \A w \in On(k, m) :
     Running /\ k.stat[Self] = "running" /\ k.stat[mx[m].owner] = "ready"
       => k.prio[Self] <= k.prio[w] \/ pc[Self] \in {"sched", "take"} \/ lazy
=============================================================================
