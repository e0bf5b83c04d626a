------------------------------ MODULE RtThread ------------------------------
(***************************************************************************)
(* Thread management: the life of threads from creation to reclamation by  *)
(* the idle thread, the services of thread.c that application code calls,  *)
(* the scheduler lock, and the tick interrupt that ends time slices and    *)
(* expires thread timers (thread.c, scheduler.c, idle.c, clock.c).         *)
(*                                                                         *)
(* Only the current thread takes thread steps.  A step is one section of   *)
(* code with interrupts disabled; between two steps of a service the tick  *)
(* interrupt may run, and an interrupt is one step with its rt_schedule.   *)
(*                                                                         *)
(*   pc[t]   where thread t is:                                            *)
(*     "run"     in application code                                       *)
(*     "sched"   about to call rt_schedule, the last thing a service does  *)
(*     "sleep"   in rt_thread_sleep, about to call rt_schedule             *)
(*     "woken"   in rt_thread_sleep, after rt_schedule                     *)
(*     "resume"  in rt_thread_resume, past the test of arg[t]'s state      *)
(*     "delete"  in rt_thread_delete or rt_thread_detach, past             *)
(*               rt_schedule_remove_thread(arg[t])                         *)
(*     "close"   the same, called from RT_THREAD_CTRL_CLOSE                *)
(*     "peek"    idle: head of the defunct list read into arg[t]           *)
(*     "reap"    idle: arg[t] unlinked from the defunct list               *)
(*   lazy    a service that makes a thread ready, or changes a priority,   *)
(*           without calling rt_schedule has run since the last rt_schedule*)
(***************************************************************************)
EXTENDS RtKernel

CONSTANTS
  BootThreads,  \* threads initialised before the scheduler starts
  Prios,        \* priorities given to application threads
  IdlePriority, \* RT_THREAD_PRIORITY_MAX - 1
  MaxLock,      \* bound on rt_scheduler_lock_nest
  Masked        \* services called with interrupts disabled by the caller

ASSUME ThreadAssumption ==
  /\ BootThreads \subseteq Threads
  /\ Idle \in BootThreads
  /\ Prios \subseteq Priorities
  /\ IdlePriority = PRIORITY_MAX - 1
  /\ MaxLock \in Nat
  /\ Masked \subseteq {"resume", "delete", "close"}

VARIABLES k, pc, arg, lazy

vars == <<k, pc, arg, lazy>>

PCs == {"run", "sched", "sleep", "woken", "resume", "delete", "close", "peek", "reap"}

Workers == Threads \ {Idle}

Init ==
  /\ \E prio \in [Workers -> Prios] :
        k = KernelBoot(BootThreads,
                       [t \in Threads |-> IF t = Idle THEN IdlePriority ELSE prio[t]])
  /\ pc = [t \in Threads |-> "run"]
  /\ arg = [t \in Threads |-> NoThread]
  /\ lazy = FALSE

-----------------------------------------------------------------------------
(* Steps of the current thread.                                            *)

Self == k.cur
Running == Self # NoThread
At(label) == Running /\ pc[Self] = label
Goto(label) == pc' = [pc EXCEPT ![Self] = label]
Target(t) == arg' = [arg EXCEPT ![Self] = t]

\* An application service is called from thread context, and idle never calls one.
\* That the scheduler is unlocked when a thread blocks is an obligation of callers:
\* rt_thread_sleep, rt_thread_suspend and rt_thread_exit do not check it, the blocking
\* calls of ipc.c and of the driver objects assert it (RT_DEBUG_SCHEDULER_AVAILABLE).
InApp == At("run") /\ Self # Idle
MayBlock == InApp /\ k.lock = 0

\* An rt_schedule that is not inhibited by the scheduler lock settles what
\* earlier calls have left to their callers.
Scheduled == lazy' = (lazy /\ k.lock > 0)

\* rt_thread_init, rt_thread_create: a fresh control block in state INIT
Create(t, p) ==
  /\ InApp
  /\ k.stat[t] = "none"
  /\ k' = [k EXCEPT !.stat[t] = "init", !.yield = @ \ {t}, !.prio[t] = p,
                    !.error[t] = "ok", !.timer = @ \ {t}]
  /\ pc' = [pc EXCEPT ![t] = "run"]
  /\ UNCHANGED <<arg, lazy>>

\* rt_thread_startup before the scheduler has started: no rt_schedule
BootStart(t) ==
  /\ ~Running
  /\ k.stat[t] = "init"
  /\ k' = ThreadStart(k, t)
  /\ UNCHANGED <<pc, arg, lazy>>

\* rt_system_scheduler_start, after rt_thread_idle_init
BootDone ==
  /\ ~Running
  /\ k.stat[Idle] = "ready"
  /\ k' = SchedulerStart(k)
  /\ UNCHANGED <<pc, arg, lazy>>

\* rt_thread_startup.  Interrupts are enabled up to rt_thread_resume, but until then the
\* thread is in no list and its timer is off: no interrupt sees how far its start is.
Startup(t) ==
  /\ InApp
  /\ k.stat[t] = "init"
  /\ k' = ThreadStart(k, t)
  /\ Goto("sched")
  /\ UNCHANGED <<arg, lazy>>

\* rt_thread_yield: rt_schedule runs inside the critical section
Yield ==
  /\ InApp
  /\ k' = SliceEnd(k)
  /\ Scheduled
  /\ UNCHANGED <<pc, arg>>

\* Mutant of Sleep: no rt_schedule after the thread is suspended.
SleepWithoutSchedule ==
  /\ MayBlock
  /\ k' = StartTimer(ThreadSuspend([k EXCEPT !.error[Self] = "ok"], Self), Self)
  /\ Goto("woken")
  /\ UNCHANGED <<arg, lazy>>

\* rt_thread_sleep, and rt_thread_delay_until when the deadline is ahead
Sleep ==
  /\ MayBlock
  /\ k' = StartTimer(ThreadSuspend([k EXCEPT !.error[Self] = "ok"], Self), Self)
  /\ Goto("sleep")
  /\ UNCHANGED <<arg, lazy>>

\* rt_thread_delay_until when the deadline has passed
DelayPassed ==
  /\ MayBlock
  /\ k' = [k EXCEPT !.error[Self] = "ok"]
  /\ UNCHANGED <<pc, arg, lazy>>

\* The end of rt_thread_sleep: a timeout is what the caller asked for
Woken ==
  /\ At("woken")
  /\ k' = [k EXCEPT !.error[Self] = IF @ = "timeout" THEN "ok" ELSE @]
  /\ Goto("run")
  /\ UNCHANGED <<arg, lazy>>

\* rt_thread_suspend(rt_thread_self()) followed by the caller's rt_schedule
Suspend ==
  /\ MayBlock
  /\ k' = ThreadSuspend(k, Self)
  /\ Goto("sched")
  /\ UNCHANGED <<arg, lazy>>

\* rt_schedule called by the application
AppSchedule ==
  /\ InApp
  /\ k' = RtSchedule(k)
  /\ Scheduled
  /\ UNCHANGED <<pc, arg>>

\* A service at `from` calls rt_schedule and, when it has the CPU again, goes
\* on at `to`
ScheduleFrom(from, to) ==
  /\ At(from)
  /\ k' = RtSchedule(k)
  /\ Goto(to)
  /\ Scheduled
  /\ UNCHANGED arg

Schedule == ScheduleFrom("sched", "run") \/ ScheduleFrom("sleep", "woken")

\* rt_thread_resume: the state is tested with interrupts as the caller left
\* them; any state but SUSPEND is an error return
Resume(t) ==
  /\ InApp
  /\ k.stat[t] = "suspend"
  /\ Goto("resume")
  /\ Target(t)
  /\ UNCHANGED <<k, lazy>>

\* rt_thread_resume: its critical section; rt_schedule is left to the caller
ResumeEnd ==
  /\ At("resume")
  /\ k' = ResumeLinked(k, arg[Self])
  /\ lazy' = TRUE
  /\ Goto("run")
  /\ Target(NoThread)

\* rt_thread_control(RT_THREAD_CTRL_CHANGE_PRIORITY)
SetPriority(t, p) ==
  /\ InApp
  /\ k.stat[t] \notin {"none", "close"}
  /\ k' = ChangePriority(k, t, p)
  /\ lazy' = TRUE
  /\ UNCHANGED <<pc, arg>>

\* rt_thread_delete, rt_thread_detach (label "delete"), or either of them from
\* RT_THREAD_CTRL_CLOSE (label "close"), up to rt_schedule_remove_thread.
\* A thread that is closed already is left alone.
Delete(t, label) ==
  /\ InApp
  /\ label = "delete" => t # Self
  /\ k.lock = 0 \/ t # Self
  /\ k.stat[t] \notin {"none", "close"}
  /\ k' = IF k.stat[t] = "init" THEN k ELSE ScheduleRemove(k, t)
  /\ Goto(label)
  /\ Target(t)
  /\ UNCHANGED lazy

\* The rest of rt_thread_delete or rt_thread_detach, and the rt_schedule that
\* RT_THREAD_CTRL_CLOSE adds
DeleteEnd ==
  /\ At("delete") \/ At("close")
  /\ k' = ThreadClose(k, arg[Self])
  /\ Goto(IF pc[Self] = "close" THEN "sched" ELSE "run")
  /\ Target(NoThread)
  /\ UNCHANGED lazy

\* _thread_exit, when the thread's entry function returns
Exit ==
  /\ MayBlock
  /\ k' = ThreadClose(ScheduleRemove(k, Self), Self)
  /\ Goto("sched")
  /\ UNCHANGED <<arg, lazy>>

\* rt_enter_critical
EnterCritical ==
  /\ InApp
  /\ k.lock < MaxLock
  /\ k' = [k EXCEPT !.lock = @ + 1]
  /\ UNCHANGED <<pc, arg, lazy>>

\* Mutant of ExitCritical: no rt_schedule.
ExitCriticalQuietly ==
  /\ InApp
  /\ k' = [k EXCEPT !.lock = IF @ = 0 THEN 0 ELSE @ - 1]
  /\ UNCHANGED <<pc, arg, lazy>>

\* rt_exit_critical: the outermost exit, and one without a matching
\* rt_enter_critical, call rt_schedule
ExitCritical ==
  /\ InApp
  /\ k' = [k EXCEPT !.lock = IF @ = 0 THEN 0 ELSE @ - 1]
  /\ Goto(IF k.lock <= 1 THEN "sched" ELSE "run")
  /\ UNCHANGED <<arg, lazy>>

-----------------------------------------------------------------------------
(* The idle thread: rt_defunct_execute.                                    *)

\* rt_thread_defunct_dequeue reads the list head with interrupts enabled ...
DefunctPeek ==
  /\ At("run") /\ Self = Idle
  /\ k.list[Defunct] # <<>>
  /\ Goto("peek")
  /\ Target(Head(k.list[Defunct]))
  /\ UNCHANGED <<k, lazy>>

\* Mutant of DefunctRemove: the thread stays in the defunct list.
DefunctRemoveSkipped ==
  /\ At("peek")
  /\ Goto("reap")
  /\ UNCHANGED <<k, arg, lazy>>

\* ... and unlinks the thread it found with interrupts disabled
DefunctRemove ==
  /\ At("peek")
  /\ k' = Unlink(k, arg[Self])
  /\ Goto("reap")
  /\ UNCHANGED <<arg, lazy>>

\* cleanup, release of the stack, rt_object_detach or rt_object_delete
DefunctFree ==
  /\ At("reap")
  /\ k' = SetStat(k, arg[Self], "none")
  /\ Goto("run")
  /\ Target(NoThread)
  /\ UNCHANGED lazy

-----------------------------------------------------------------------------
(* The tick interrupt.                                                     *)

\* Interrupts are disabled throughout a masked service, and throughout the
\* RESET commands of IPC objects, which take several steps here.
IrqEnabled == Running /\ pc[Self] \notin Masked \cup {"reset"}

\* rt_tick_increase finds remaining_tick of the current thread at zero
SliceTick ==
  /\ IrqEnabled
  /\ k' = SliceEnd(k)
  /\ Scheduled
  /\ UNCHANGED <<pc, arg>>

\* rt_timer_check finds the thread timer of t expired; _thread_timeout ends
\* with rt_schedule
TimeoutTick(t) ==
  /\ IrqEnabled
  /\ t \in k.timer
  /\ k' = RtSchedule(ThreadTimeout(k, t))
  /\ Scheduled
  /\ UNCHANGED <<pc, arg>>

-----------------------------------------------------------------------------
Service ==
  \/ \E t \in Workers :
        \/ \E p \in Prios : Create(t, p) \/ SetPriority(t, p)
        \/ Startup(t)
        \/ Resume(t)
        \/ \E label \in {"delete", "close"} : Delete(t, label)
  \/ AppSchedule \/ Yield \/ Sleep \/ DelayPassed \/ Suspend \/ Exit
  \/ EnterCritical
  \/ k.lock = 0 /\ ExitCritical

\* What a thread inside a service, or inside a critical region, does next.
Continue ==
  \/ Schedule \/ Woken \/ ResumeEnd \/ DeleteEnd
  \/ k.lock > 0 /\ ExitCritical

IdleStep == DefunctPeek \/ DefunctRemove \/ DefunctFree

Boot == BootDone \/ \E t \in Threads : BootStart(t)

Tick == SliceTick \/ \E t \in Threads : TimeoutTick(t)

Next == Boot \/ Service \/ Continue \/ IdleStep \/ Tick

Spec == Init /\ [][Next]_vars

\* The tick interrupt is periodic, so the current thread's slice runs out; a
\* thread that has the CPU gets to the end of the service it is in, and to
\* rt_exit_critical when it holds the scheduler lock.
FairSpec ==
  /\ Spec
  /\ WF_vars(Boot)
  /\ WF_vars(SliceTick)
  /\ WF_vars(Continue)

-----------------------------------------------------------------------------
(* Properties.                                                             *)

\* The thread a service is taking apart: off its list, not yet closed.
Limbo == IF At("delete") \/ At("close") THEN {arg[Self]} ELSE {}

\* Every variable keeps its type.
TypeOK ==
  /\ k \in KernelStates
  /\ pc \in [Threads -> PCs]
  /\ arg \in [Threads -> Threads \cup {NoThread}]
  /\ lazy \in BOOLEAN

\* The scheduler's data structures agree with each other whenever the tick
\* interrupt can look at them: one list per thread, a priority group that
\* matches the ready table, READY threads queued under their own priority,
\* suspend lists and timers of suspended threads only.
KernelSound == KernelOK(k, Limbo)

\* A service finds the thread it works on as its last critical section left it:
\* rt_thread_resume still suspended, rt_thread_delete off every list and not
\* closed by anybody else, the idle thread closed and given up by the CPU.
MidService ==
  \A t \in Threads :
     /\ pc[t] \in {"resume", "delete", "close"} => t = Self /\ arg[t] \in Workers
     /\ pc[t] = "resume" => k.stat[arg[t]] = "suspend"
     /\ pc[t] \in {"delete", "close"} =>
          /\ k.stat[arg[t]] \notin {"none", "close"}
          /\ \A l \in Lists : arg[t] \notin On(k, l)
          /\ arg[t] = t => pc[t] = "close" /\ k.lock = 0
     /\ pc[t] \in {"peek", "reap"} =>
          t = Idle /\ arg[t] \in Workers \ {Self} /\ k.stat[arg[t]] = "close"
     /\ pc[t] = "peek" => arg[t] \in On(k, Defunct)
     /\ pc[t] = "reap" => \A l \in Lists : arg[t] \notin On(k, l)

\* The CPU is never left to a thread that cannot run: the current thread is
\* RUNNING, or on its way to an rt_schedule that the scheduler lock does not
\* inhibit, and then the idle thread at least can be switched to.
CpuOccupied ==
  /\ Running /\ k.stat[Self] # "running" => k.lock = 0 /\ pc[Self] \in {"sched", "sleep"}
  /\ Running => k.stat[Idle] \in {"ready", "running"}

\* What threads and ticks may rely on whenever interrupts are enabled: types and the
\* scheduler's data structures.
SchedulerSound == TypeOK /\ KernelSound

\* What a service may rely on between its critical sections: the thread it works on
\* is as it was left, and the CPU belongs to a thread that runs or is about to call
\* rt_schedule.
ServiceSound == MidService /\ CpuOccupied

\* rt_schedule is never forgotten: a READY thread more urgent than the running
\* one is waiting for the scheduler lock to be released, for an rt_schedule the
\* current service has still to make, or for one that the kernel leaves to the
\* caller (rt_thread_resume, RT_THREAD_CTRL_CHANGE_PRIORITY).
NoLostPreemption ==
  \A t \in Threads :
     Running /\ k.stat[t] = "ready" /\ k.stat[Self] = "running"
        /\ k.prio[t] < k.prio[Self]
        => k.lock > 0 \/ pc[Self] \in {"sched", "sleep"} \/ lazy

\* The idle thread frees only what nothing refers to: a control block that is
\* gone is not current, not linked and has no active timer.
NothingDangles ==
  \A t \in Threads : k.stat[t] = "none" =>
     /\ t # k.cur
     /\ t \notin k.timer
     /\ \A l \in Lists : t \notin On(k, l)

\* Whenever rt_schedule switches threads, the thread it switches to is at
\* least as urgent as every thread left READY.
DispatchesHighest ==
  [][k'.cur # k.cur =>
       \A t \in Threads : k'.stat[t] = "ready" => k'.prio[k'.cur] <= k'.prio[t]]_vars

\* A closed thread stays closed until the idle thread frees it: nothing puts it
\* back into a ready list or dispatches it.
ClosedStaysClosed ==
  [][\A t \in Threads : k.stat[t] = "close" => k'.stat[t] \in {"close", "none"}]_vars

\* "The thread object will be removed from thread queue": no ready list holds
\* a thread that rt_thread_delete has closed.
DeletedLeavesQueues ==
  \A t \in Threads : \A p \in Priorities : k.stat[t] = "close" => t \notin On(k, p)

\* Round robin: a thread that is READY and among the most urgent gets the CPU,
\* unless it stops being READY or something more urgent appears.
MostUrgent(t) ==
  k.stat[t] = "ready" /\ \A u \in Threads :
     k.stat[u] \in {"ready", "running"} => k.prio[t] <= k.prio[u]

RoundRobin == \A t \in Threads : MostUrgent(t) ~> ~MostUrgent(t)
=============================================================================
