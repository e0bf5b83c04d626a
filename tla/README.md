# TLA+ models and proofs for the RT-Thread kernel of test-aio

The repository is a collection of experiments. The one with a concurrent core is
`rt-thread-test/rt-thread-test`, a firmware image for an STM32F407 board: the
RT-Thread kernel (`rt-thread/src`), its device framework and shell
(`rt-thread/components`), a CPU port and board support. This directory models the
kernel of that image as it is configured in `rtconfig.h` (one CPU, no `RT_USING_SMP`; 32
priorities; preemptive scheduling with time slices), its timers and memory, the objects
of `ipc.c`, and the parts of the device framework that block, wake or run in interrupts.

Paths below are relative to `src/rt-thread-test/rt-thread-test/rt-thread/`.

## 1. Inventory

| Component | Code | State | Operations | Modelled by |
|---|---|---|---|---|
| Scheduler | `src/scheduler.c` | ready table (a list per priority), priority group bitmap, current thread, scheduler lock | init, start, `rt_schedule`, insert, remove, enter/exit critical | `RtKernel`, `RtThread` |
| Threads | `src/thread.c` | per thread: state, YIELD bit, current priority, error, list node, timer | init/create, startup, yield, sleep, delay_until, suspend, resume, control, detach/delete, exit, timeout | `RtKernel`, `RtThread` |
| Idle thread | `src/idle.c` | defunct list | reclaim dead threads | `RtThread` |
| Tick | `src/clock.c` | tick, remaining slice | `rt_tick_increase` | `RtThread` |
| Semaphore | `src/ipc.c` | value, suspend list | init/create, take, release, control, detach/delete | `Semaphore`, `AbsSemaphore` |
| Mutex | `src/ipc.c` | value, owner, hold, original priority, suspend list | init/create, take, release, detach/delete | `Mutex` |
| Event | `src/ipc.c` | set of bits, suspend list; per thread the bits asked for | init/create, send, recv, control, detach/delete | `Event` |
| Mailbox | `src/ipc.c` | ring of words, suspend lists of receivers and senders | init/create, send, send_wait, urgent, recv, control, detach/delete | `Mailbox`, `AbsQueue` |
| Message queue | `src/ipc.c` | chained buffers (queue, free list), two suspend lists | as the mailbox | `MessageQueue`, `AbsQueue` |
| Timers | `src/timer.c` | ordered lists of hard and soft timers, timer thread | init/create, start, stop, control, check, detach/delete | `TimerList`, `HardTimer`, `SoftTimer` |
| Memory pool | `src/mempool.c` | chain of free blocks and its count, suspend list | init/create, alloc, free, detach/delete | `MemPool` |
| Heap | `src/mem.c`, `rt_malloc` ... of `src/kservice.c` | items chained in one array, lowest free item, account | malloc, malloc_align, realloc, free | `SmallMem` |
| Work queue | `components/drivers/ipc/workqueue.c` | lists of ready and delayed works, current work, worker thread | submit, urgent, cancel, cancel_sync, cancel_all, timeout handler | `WorkQueue` |
| Data queue | `components/drivers/ipc/dataqueue.c` | ring with two flags, low water mark, two suspend lists | push, pop, reset | `DataQueue` |
| Completion | `components/drivers/ipc/completion.c` | flag, suspend list | wait, done | `Completion` |
| Wait queue | `components/drivers/ipc/waitqueue.c` | flag, list of nodes on the stacks of waiting threads | wait, wakeup | `WaitQueue` |
| Pipe | `components/drivers/ipc/pipe.c` | fifo, lock, open ends, two wait queues | open, read, write, close | `Pipe` |
| Serial framework, console | `components/drivers/serial/serial.c`, `src/device.c`, `components/finsh/shell.c` | receive ring, open flags and count, the shell's semaphore; transmit completion | open, close, receive and transmit interrupts, read of the shell, write | `Console`, `SerialTx` |
| Objects, board, text of the shell, other languages | | | | not modelled, section 8 |

How the parts interact:

* Threads call services. A service is a sequence of sections in which interrupts
  are disabled (`rt_hw_interrupt_disable` ... `rt_hw_interrupt_enable`), often
  followed by a call of `rt_schedule`. Everything inside a section is atomic on
  this CPU; between two sections an interrupt can run, and with it a switch.
* The tick interrupt ends time slices and expires thread timers. A thread timer
  calls `_thread_timeout`, which takes the thread out of the list it waits in,
  makes it READY and calls `rt_schedule`.
* A thread has one list node: it is in a ready list, in the suspend list of one
  IPC object, in the defunct list, or in none. All components move it between
  these lists, so all of them depend on the same consistency conditions.
* IPC objects call `rt_thread_suspend`, `rt_thread_resume` and, for priority
  inheritance, `rt_thread_control`.
* Timers run in the tick interrupt (hard) or in the timer thread (soft). Delayed work of
  a work queue is a soft timer; the timeout of a wait is a hard one.
* Drivers build on the objects of `components/drivers/ipc`: serial output waits for a
  completion, a pipe for wait queues; serial input releases the shell's semaphore.
* Dying threads put themselves, or are put, into the defunct list, from which the
  idle thread frees them.

What is hard here: state that is tested in one section (or outside of any) and
used in the next; timeouts that race with the wakeup they guard against; the
priority bitmap, the state field and three kinds of lists that must agree after
every step; switches that are deferred by the scheduler lock or left to callers;
priorities that are lent and must be given back; threads that are woken for something
another one takes first; messages copied with interrupts enabled; tick arithmetic
across a wrap-around; timeout functions that change the list being worked off; one-shot
signals that a timeout can swallow.

What makes each part correct (the names are those of the properties; some are conjuncts
of the properties that the runs name, see section 3):

* scheduler: the structures agree (`KernelSound`); a switch goes to the most urgent
  thread (`DispatchesHighest`) and is never forgotten (`NoLostPreemption`); the CPU
  is always in use (`CpuOccupied`); round robin among equals (`RoundRobin`);
* threads and idle: a service finds its target as it left it (`MidService`), a closed
  thread stays closed (`ClosedStaysClosed`), only unreferenced blocks are freed
  (`NothingDangles`);
* semaphore: no lost wakeup (`WaitersOnlyAtZero`), no lost or forged unit
  (`UnitsConserved`), queueing order (`PriorityOrder`, `EveryWaiterServed`), and the
  contract of `AbsSemaphore`;
* mutex: mutual exclusion as callers see it (`OnlyOwnerHas`), hand-over
  (`WaitersHaveOwner`), inheritance and its undoing (`Inherits`, `NoInversion`,
  `PriorityRestored`, `WaitersSorted`);
* event: nobody sleeps through bits it asked for (`NoMissedEvent`), a cleared bit goes to
  one receiver (`ClearTakesOnce`), what is reported was sent (`ReportsWhatWasSent`);
* mailbox, message queue, data queue: nobody is left waiting while it could go on
  (`NobodyStranded`, which is `NoStrandedReceiver` and `NoStrandedSender`), order and contents (`RingConsistent`,
  `SendOrder`, `FlagsAgree`, `FirstInFirstOut`, the contract of `AbsQueue`), buffers
  (`CopiesIntact`, `BuffersConserved`, `QueueLinked`);
* timers: in order (`StableOrder`), never early (`NeverEarly`), never forgotten
  (`NoneOverdue`, `ActiveIsLinked`, `ParkedWithoutTimers`, `NoOversleep`, `TimersServed`),
  and the tick ends (`TickEnds`);
* memory: blocks tile the heap (`Tiled`), merge (`NoHoles`), belong to one user who gets
  what he asked for (`UsersServed`), are found (`FindsRoom`) and counted (`UsedIsExact`);
  pool blocks are conserved (`BlocksConserved`) and nobody waits in vain
  (`NoStrandedThread`);
* work queue: a work is in one list (`ListedOnce`), is not dropped (`AcceptedIsKept`), is
  seen (`WorkIsSeen`) and runs (`WorkStarts`), and a synchronous cancel returns
  (`SyncReturns`);
* completion, wait queue, pipe: a signal is not slept through or spent twice
  (`NoneSleepsThrough`, `OkMeansDone`, `SleepersAreTold`), a node on a stack is unlinked in
  time (`NodesLive`), a close is seen (`EndOfFileIsSeen`, `BrokenPipeIsSeen`);
* console: input wakes the shell (`NoMissedInput`, `InputWakesShell`), the newest input
  survives (`NewestKept`), a closed device is quiet (`ClosedIsQuiet`), output waits only
  for an interrupt that is to come (`InterruptToCome`, `SignalSpec`) and ends
  (`WriteReturns`).

The places where these could go wrong are listed with their source lines under
`hazards` in `PROJECT.json`.

## 2. Modules

```
RtKernel            kernel state as one record, primitives as functions on it
  RtThread          thread services, idle thread, tick    (variables k, pc, arg, lazy)
    Semaphore       one semaphore                         --implements--> AbsSemaphore
    Mutex           mutexes
    IpcWait         what other blocking objects share: queueing up, reset, detach
      Event         one event
      MemPool       one memory pool
      IpcQueue      two suspend lists and the loops of senders and receivers
        Mailbox       a ring of words                     --implements--> AbsQueue
        MessageQueue  chained buffers                     --implements--> AbsQueue
        DataQueue     a ring with a low water mark
  RtThreadProofs    theorems about RtThread, on lemmas about the primitives and the suspend
                    lists; the kernel half of the invariant of a component that blocks
    SemaphoreProofs, MutexProofs, MailboxProofs           theorems about these three
TimerList           timers in a list, tick arithmetic
  HardTimer         the tick interrupt works the list off
  SoftTimer         the timer thread does
SmallMem            the heap
Services            soft timers, hard timers and the heap side by side
  TimerProofs       theorems about both kinds of timers and about Services
  HeapProofs        theorems about the heap and about Services
WorkQueue           worker thread, timer thread, callers
Completion          flag and one waiter
WaitQueue           flag and nodes on stacks
  Pipe              a fifo between threads, on two wait queues
SerialTx            interrupt-driven output               --implements--> Completion
Console             interrupt-driven input, the shell that reads it, open and close
Drivers             wait queue, pipe, completion, serial output, console, work queue side by side
  DriverProofs      theorems about each of them and about Drivers
ListProofs          lemmas about sequences, for the modules of theorems
MCRtThread, MCSemaphore, MCMutex      one component, for TLC
MCIpc, MCServices, MCDrivers          several components, for TLC
```

**RtKernel.** The record `k` holds what the C globals and control blocks hold: `stat`,
`yield` (the YIELD bit), `prio`, `error`, `timer` (threads whose timer is active),
`list` (all list heads), `group` (the bitmap as a set), `cur` and `lock`. A primitive
such as `ScheduleInsert`, `ThreadSuspend` or `RtSchedule` maps a record to a record
and stands for code that runs with interrupts disabled. The lists are sequences
because their order matters; unlinking works on whatever list holds the thread, as
`rt_list_remove` does. `KernelOK` collects what must hold when interrupts are enabled.

**RtThread.** `pc[t]` says where thread `t` is in a service, `arg[t]` which thread it
works on. Each action is one section of code with interrupts disabled, performed by
the current thread (`k.cur`), or one interrupt. A thread that has suspended itself
remains current until its `rt_schedule` (label `"sched"` or `"sleep"`), and ticks can
come first, as in the code. `lazy` records that `rt_thread_resume` or
CHANGE_PRIORITY, which leave `rt_schedule` to their caller, have been called since
the last `rt_schedule`.

The constant `Masked` is the set of labels at which the *caller* of a service has
disabled interrupts. `rt_thread_resume` tests the state of its target before it
disables interrupts, and `rt_thread_delete`/`rt_thread_detach` remove the thread from
its list in one section and close it in another. When they are called from inside an
outer `rt_hw_interrupt_disable` section, as `ipc.c` does for resume, both halves are
one; the passing runs and the proofs are about that use. The run `delete_race` takes
`"delete"` and `"close"` out of `Masked`, which is how `rt_thread_delete` is called by
applications, and shows what happens; section 6 says what TLC finds with `"resume"` taken
out. So the passing runs say nothing about these two windows.

`MayBlock` asks for an unlocked scheduler where a thread blocks. The blocking calls of
`ipc.c` and of the driver objects assert that (`RT_DEBUG_SCHEDULER_AVAILABLE`,
rtdebug.h:123); `rt_thread_sleep`, `rt_thread_suspend` and `rt_thread_exit` do not check
it, and a caller that neglects it keeps the CPU while it is suspended. `Startup` is one
step although interrupts are enabled up to `rt_thread_resume`: until then the thread is
in no list and its timer is off, so nothing can tell.

**Semaphore** and **Mutex** add the object's fields and their services to `RtThread`.
Their ghost variables (`units`, `lost`; `has`, `base`) record what return values have
told the callers, so that properties can speak about what callers may rely on.
`Handed` threads have been given the unit or the mutex and are on their way out of
take. `_ipc_list_resume_all` tests the list with interrupts enabled (`DetachTest`) and
wakes the first waiter in a section of its own (`DetachWake`), and no run and no theorem
masks the window between the two. If the last waiter times out in it, the code takes the
list head for a thread, and the assertion of `rt_thread_resume` stops the system: the
model has no `DetachWake` then. The run `wake_race` shows that it comes to that. (In
the model other threads still run afterwards, which promises more than the code needs.)

**AbsSemaphore** is the contract: available units, clients that wait, clients that
have been granted a unit. `Semaphore` implements it with `avail <- value`,
`waiting <- On(k, Sem)`, `granted <- Handed`.

**IpcWait, IpcQueue** and what extends them. A thread inside a blocking call is at
`"wait"` (queued, before `rt_schedule`) or `"back"` (after it). Woken threads look again,
as the loops of the code do, and may find that somebody else was faster; with a finite
timeout they may then give up (`Expire`), because what is left of their time is any
number down to 0. `call` holds the arguments of the call a thread is in, `lost` counts
threads that were deleted after they had been woken and before they looked: the code
wakes nobody in their place, and the properties about stranded threads allow for exactly
these. Detach and delete may leave threads on their way out of a call, which they leave
with an error. Control RESET disables interrupts for its whole length and wakes waiters one
by one; at `"reset"` a thread can take a step only inside that section, and interrupts and
other threads cannot. `drain` holds the lists that reset, detach or delete has still to empty.

**Event.** Bits are a set, a request is a set of bits with AND/OR and CLEAR. A send is one
step, as its loop runs with interrupts disabled. `asked` and `seen` are history.

**Mailbox, MessageQueue, AbsQueue.** The mailbox is the ring with its two offsets. The
message queue keeps `next` pointers, head, tail and free list as the code does, and the
copies into and out of a buffer are steps of their own, because interrupts are enabled
around them. `AbsQueue` is the contract of both: a bounded sequence with insertion at
either end, `busy` places that are being filled or emptied, and clients that wait.

**MemPool.** As a mailbox of blocks; the chain of free blocks is a sequence, the
application's blocks are the set `out`.

**TimerList, HardTimer, SoftTimer.** The tick counts modulo `W` (2^32 in the code) and
timeouts are compared with the code's subtraction. `left[t]`, a history variable, is the
true number of ticks to go; properties about being early or late are stated with it, so
that the arithmetic is checked against a definition that does not wrap. `HardTimer` has
the tick interrupt at its three points (`isr`), with timeout functions that may call any
timer service. `SoftTimer` has the timer thread's loop, label by label; `Preempts` says
that other threads may start timers between two of its sections, `SetBusy` that control
is called while a timer's own timeout function runs.

**SmallMem.** `items` maps each offset of the heap to the item header there, if there is
one. Sizes are in units of the alignment. An operation is one step because the heap is
locked by `rt_malloc`, `rt_realloc` and `rt_free`. `users` is history: who asked for what.

**WorkQueue.** The worker thread, the timeout handler in the timer thread, and callers.
`habits`, one of the sets in `Habits`, is what the callers of a behaviour do: `"mixed"`,
submit a delayed work anew without a delay; `"reentrant"`, submit a work while it
executes; `"preempted"`, be interrupted in the middle of a service. The properties say
which promise needs which habit to be absent. `rt_workqueue_cancel_all_work` tests a list
(`DrainTest`) and cancels its first work (`DrainDrop`) in sections of their own, under the
scheduler lock: meanwhile (`Draining`) the worker, the timer thread and blocking calls
are excluded (`Unlocked`), other callers, which may be interrupt handlers, are not.

**DataQueue.** `push` and `pop` are those of the other queues, except that senders are
woken only when the queue has been emptied down to the low water mark. `"lock"`,
`"detach"` and `"wake"` are the places in reset.

**Completion, WaitQueue, Pipe.** Threads are interleaved at will: with preemption and
priorities left open, every order of their critical sections is possible. `owed` in
`Completion` says that a signal has been given that no wait has returned. `Pipe` extends
`WaitQueue` and uses its actions for both of its queues.

**Console, SerialTx.** The receive interrupt puts a character into the ring and calls
`rx_indicate` as its last step; no thread runs meanwhile. `SerialTx` has a transmitter that
takes `Depth` characters and then refuses (`putc` returns -1), which is external: the
driver of this board waits in `putc` instead and never refuses. `stream` is the open flag
that adds a carriage return to each line end. Its use of the completion is shown to
implement `Completion`.

**MCIpc, Services, Drivers.** Objects such as an event and a message queue share no state
but the kernel's, and timers, heap and drivers not even that. These modules put them side
by side: `part`, chosen at first, says which of them a behaviour exercises, and the others
stay as they were initialised. The part `"mutexes"` of `MCIpc` is two mutexes at once, on
the lists `Getters` and `Putters`. A property of such a module is the conjunction, or the
choice by `part`, of what the components promise under one heading, such as
`NobodyWaitsInVain`. `MCServices` and `MCDrivers` give the
constants of `Services` and `Drivers` their values.

Definitions whose comment says "Mutant of" are not part of any specification: each is
a plausible bug that the property listed with it in `PROJECT.json` must detect.

Correspondence to the code, action by action, is in `map` of `PROJECT.json`.

## 3. Runs

| Run | Instance | Checks | States |
|---|---|---|---|
| `thread_safety` | three application threads, two priorities above idle, lock nesting 1 | `SchedulerSound`, `ServiceSound`, `NoLostPreemption`, `NothingDangles`, `DispatchesHighest`, `ClosedStaysClosed` | 942 000 |
| `delete_race` | two application threads, delete not masked | violates `DeletedLeavesQueues` | |
| `semaphore` | three threads, priority queueing, values 0..2 | `SemSound`, `UnitsConserved`, `PriorityOrder`, `ContractSpec` | 1 048 000 |
| `wake_race` | the same | violates `WakesAThread` | |
| `fair_service` | two threads of equal priority, FIFO queueing, fairness | `EveryWaiterServed`, `RoundRobin` | 8 300 |
| `mutex` | three threads, three priorities, one mutex, hold count up to 2 | `MutexSound`, `PriorityProtocol`, `PriorityRestored`, `NoInversion` | 737 000 |
| `nested_restore` | two threads, two mutexes | violates `PriorityRestored` | |
| `ipc` | event, mailbox, message queue, memory pool, data queue: two threads and interrupts, capacity 2, low water mark 0, two values or bits; two mutexes (hold count 1), one of which is detached and initialised again, threads of two priorities | `MbSound`, `RingConsistent`, `NobodyStranded`, `ContractSpec` of the mailbox, `NobodyWaitsInVain`, `DataIntact`, `ClearTakesOnce`, `InOrder`, `QueueContract` of the others, `MutexSound` | 500 000 |
| `services` | two soft timers, two hard timers, ticks modulo 8; a heap of 20 units | `TimersSound`, `ParkedWithoutTimers`, `NoOversleep`, `HeapSound`, `NothingEarly`, `TimersServed` | 127 000 |
| `soft_timer_window` | soft timers that preempting threads start | violates `ParkedWithoutTimers` | |
| `drivers` | wait queue, pipe, completion, serial output, console, work queue | `DriversSound`, `NobodySleepsInVain`, `OkMeansDone`, `SignalSpec`, `NewestKept` | 119 000 |
| `drivers_live` | pipe, serial output, console, work queue, fairness | `CloseIsSeen`, `ConsoleResponds`, `WorkGoesOn` | 24 000 |

`SchedulerSound` is `TypeOK` and `KernelSound`; `ServiceSound` is `MidService` and
`CpuOccupied`; `SemSound` is the types, `KernelSound` and `WaitersOnlyAtZero`;
`MutexSound` the types, `KernelSound`, `OnlyOwnerHas` and
`WaitersHaveOwner`; `PriorityProtocol` is `Inherits` and `WaitersSorted`; `MbSound` the types
and `KernelSound`. The properties of the MC modules that combine several
components are put together from those of their components in the same way.

Why the bounds are enough to be interesting.

* Three application threads allow a current thread, a victim and a bystander; with two of
  them at one priority a ready list has two elements, so removing one must not clear the
  bitmap. Two priorities above idle give preemption and round robin; the mutex needs
  three for a low owner, a high waiter and a middle thread that could cause inversion. A
  lock nesting of 1 defers switches and still meets the unmatched exit.
* Semaphore values up to 2 reach the maximum, empty and the step between; a hold count of
  2 reaches recursion and its limit.
* In `ipc` two threads and an interrupt fill and empty a queue of capacity 2, wrap its
  offsets, wait on both sides, are woken and overtaken; with two mutexes they nest them, also
  in opposite orders. The lists `Getters` and
  `Putters` belong to whichever part is exercised, the mailbox has its own. The event has requests for both
  bits with CLEAR, for either with and without, and for one bit with CLEAR, which leaves
  the other. The low water mark of the data queue is 0, as in the audio drivers: a full
  queue is popped above the mark and at it.
* Time. In the kernel's modules ticks are not counted: a tick may end the slice, or expire
  any active timer, whenever interrupts are enabled. In the timers' modules the tick wraps
  at `W = 8` and timeouts are below half of that, as the code requires; `MaxLate` bounds how
  late timers get before the timer thread runs on, `MaxSlip` the ticks that go by between
  its look at the tick and its going to sleep.
* A heap of 20 units with headers of 3 and requests of 1 (raised to the minimum of 3), 4
  and 8, or 4 aligned to 4, holds up to three items, and has holes on either side of an
  item that is freed or resized.
* The pipe holds 2 bytes, writes are of 1 and 3, so one fits and one has to wait half-way.
  The receive ring has 3 places and overruns; the texts of up to three
  characters outrun a transmitter that takes 2.

Threads that differ in nothing at boot are symmetric; runs with liveness properties
use no symmetry. All bounds are constants: `MaxLock`, `SEM_VALUE_MAX`, `MUTEX_HOLD_MAX`,
`Size`, `MaxMsgs`, `LWM`, `W`, `Times`, `MaxLate`, `MaxSlip`, `MemSize`, `Sizes`,
`Capacity`, `Bufsz`, `SemMax`, `Depth`, and the sets of threads, priorities, mutexes,
works and values.

Deadlock is checked in all runs: idle thread, interrupts and callers can always go on.

## 4. Fairness

* `SF(SliceTick)`: the tick is periodic, so the slice of a thread that keeps the CPU runs
  out. Strong, because interrupts are disabled and enabled all the time, and a pending
  interrupt is taken when they are enabled.
* `WF` of `Boot` and `SemContinue`: `rtthread_startup` runs to its end, and the thread
  that has the CPU executes the rest of the service it is in and leaves its critical
  regions. Nothing obliges a thread to *start* a service.
* `SF(IsrRelease)`: an interrupt source that keeps releasing the semaphore.
* Timers: `WF(Tick)`, `WF(ThreadStep)` of the timer thread, `WF(InTick)` of the interrupt.
  Nothing obliges anybody to start or stop a timer.
* Pipe: `SF` of each thread's next step; a reader or writer competes with the others for
  the lock of the pipe, a mutex that hands over to the first waiter.
* Serial output: `WF` of the writer's next step and of the transmit interrupt.
* Console: `WF(RxIndicate)`, the end of an interrupt that has begun; `SF(Shell)`, because
  receive interrupts come first and go again.
* Work queue: `SF(WorkerStep)`, because callers may preempt the worker; `WF(HandlerStep)`;
  `WF` of what a caller still has to do in a service; `SF(Expire(w))`, a delay ends unless
  it is cancelled.

## 5. What is proved

`RtThreadProofs` proves, for every set of threads, every number of priorities, every bound on the lock and every set of suspend lists:

* `Invariance`: `Spec => []IInv`;
* `SchedulerConsistent`: `Spec => []SchedulerSound`;
* `ServicesHold`: `Spec => []ServiceSound`;
* `FreesOnlyUnreferenced`: `Spec => []NothingDangles`;
* `ClosedIsFinal`: `Spec => ClosedStaysClosed`;
* `SwitchesToHighest`: `Spec => DispatchesHighest`;
* `PreemptionNotLost`: `Spec => []NoLostPreemption`.

Assumptions: `KernelAssumption` and `ThreadAssumption`, which TLC evaluates in every
run of a module that extends `RtThread`, and `CallersMask`, that resume, delete and close are called with interrupts
disabled. Without `CallersMask` the theorems are false, as `delete_race` shows.

The argument. `KernelSound` is not inductive. When `rt_thread_resume` enters its
second half, its target must still be suspended, or it would be linked into a ready
list twice; when `rt_thread_delete` enters its second half, its target must still be
detached; when the idle thread unlinks the thread it has read from the head of the
defunct list, that thread must still be there, and must not be current when it is
freed. That is `MidService`. And a switch must find a thread to switch to, or a
suspended thread would go on as if it were running. That is `CpuOccupied`: the idle
thread is always READY or running, and a current thread that is not running has not
locked the scheduler. `IInv` is the conjunction of these with `KernelSound`, the types
and the places the idle thread can be at; its parts are invariants of the run
`thread_safety`.

The proof has four layers.

1. `ListProofs`: what `RemoveFirst`, `Append` and `InsertAt` do to the set of elements, to
   the absence of duplicates and to the order of a list, by explicit index maps.
2. `RtThreadProofs`, primitives: one lemma per primitive (`RemoveSound`, `InsertSound`,
   `ResumeSound`, `TimeoutSound`, `SuspendSound`, `StartSound`, `ChangePrioritySound`,
   `CloseSound`, `DispatchSound`, `ScheduleSound`, ...). Each takes `Sound(ks, X)`, where
   `X` is the set of READY threads that are in no list at the moment, and says how
   soundness, `X`, the states and the lists outside the ready table change.
3. `RtThreadProofs`: one lemma per action, through three frame lemmas (`WorkerStep` for
   steps that keep the CPU, `ScheduleStep` for those that end in `rt_schedule`,
   `IdleStepSound` for the idle thread), then `NextSound` and the theorems.
4. `RtThreadProofs`: `NoLostPreemption` is inductive relative to `IInv`. A step runs
   `rt_schedule` (`ScheduleSettles`), leaves it to be called (`ScheduleAhead`), or makes
   nobody READY and changes no priority that counts (`UrgencyKept`).

`DriverProofs` proves about `Completion`, for every set of threads that wait and
signal, with time limits or without:

* `CompletionHeard`: `Spec => [](TypeOK /\ NoneSleepsThrough)`. The property alone is not
  inductive: a signal wakes the *head of the list*, so the list has to hold whoever sleeps.
  `OneSleeps` says so, and that it is one thread at most.
* `OkOnlyOnce`: `Spec => OkMeansDone`, for one waiter (`Alone`): a second one could clear the
  flag that the first was woken for. `OwedInv` ties the flag, and a wakeup that was no
  timeout, to a signal that no wait has returned yet.

about `SerialTx`, for one writer (`OneWriter`, which the assertion in
`rt_completion_wait` asks for), a transmitter of any depth and texts of any length:

* `OutputGoesOn`: `Spec => [](TypeOK /\ InterruptToCome)`. Inductive with `Coming`: after a
  refusal the transmitter is full until its interrupt has set the flag, and with `Listed`: the
  list holds the writer while it sleeps.
* `UsesCompletion`: `Spec => SignalSpec`, the refinement. `WritingIsSilent`, `WaitIsWait` and
  `TxDoneIsDone` map the steps; the same invariant gives the empty list that a wait of
  `Completion` needs.

about `WaitQueue` and `Pipe`, for any threads, queues, capacity and sizes of calls:

* `NodesStayLive`: `WqSpec => [](WqTypeOK /\ NodesLive)`. `WaitInv` says it with sets, and that
  whoever is in a list is inside `rt_wqueue_wait` on that queue.
* `PipeTellsSleepers`: `PipeSpec => [](PipeTypeOK /\ NodesLive /\ SleepersAreTold)`, for one
  reader and one writer (`Single`; with two readers it is false, section 6). `Announced` is the
  invariant: whoever is asleep, or has decided to sleep and is not yet in the list, over
  something that is there has a flag that is set or somebody on the other side who is about
  to call `rt_wqueue_wakeup`.

about `Console`, for any characters, size of the buffer, maximum of the semaphore and other
threads, if all of them open the device with RT_DEVICE_FLAG_INT_RX (`InterruptModes`; without
it both properties fail, section 6):

* `ConsoleHears`: `Spec => [](TypeOK /\ NoMissedInput /\ ClosedIsQuiet)`. `ConInv` adds that the
  reference count is the number of those who hold the device (`Counted`), that a full ring
  holds something (`FullHolds`), and that the shell reads only once its handler is bound (`Heard`).
* `RingKeepsNewest`: `Spec => NewestKept`. The ring is read as a sequence place by place
  (`InputSeq`, `InputIs`); `PutKeepsNewest` and `ReadTakesOldest` are its two operations.

about `WorkQueue`, for any works, callers and sets of habits:

* `WorkIsKept`: `WqSpec => [](WqTypeOK /\ ListedOnce /\ WorkIsSeen /\ AcceptedIsKept /\
  NoAssertFails)`. `WorkInv` adds that the timer of a work is an object exactly while the work
  is being submitted (`Timers`), that what executes is neither pending nor, for callers that
  do not submit it meanwhile, accepted (`WorkListed`, `Kept`), that the handler works for
  somebody (`Expiring`), what a service or the handler may rely on between its sections
  (`Undisturbed`), and that callers that are not interrupted go through their services one at
  a time, so that `rt_workqueue_cancel_all_work` finds what it tested (`OneAtATime`).
  It was model-checked with every set of habits (1 615 000 states).

and about `Drivers`:

* `DriversAreSound`: `DriversSpec => []DriversSound`;
* `NobodyOversleeps`: `DriversSpec => []NobodySleepsInVain`;
* `DriversKeepWord`: `DriversSpec => OkMeansDone /\ NewestKept /\ SignalSpec`.

A behaviour of `Drivers` is one of `SerialTx`, `Completion`, `Console` and `WorkQueue`
(`PartsSpecs`), so their theorems carry over. That does not hold of the pipe, because the part
"waitqueue" uses its queues for itself; `WaitPartsStay` proves the invariants of both directly.

Assumptions: `PartsAssumption`, the conjunction of those of the parts, which TLC evaluates in
the runs `drivers` and `drivers_live`, and the hypotheses named above.

`SemaphoreProofs` proves about `Semaphore`, for every set of threads and priorities, both
queueing policies, and any initial and greatest value:

* `SemInvariance`: `SemSpec => []SemInv`;
* `SemaphoreSound`: `SemSpec => []SemSound`;
* `UnitsAreConserved`: `SemSpec => []UnitsConserved`;
* `WaitersStaySorted`: `SemSpec => []PriorityOrder`;
* `SemaphoreImplementsContract`: `SemSpec => ContractSpec`, the refinement of `AbsSemaphore`.

`MutexProofs` proves about `Mutex`, for every set of threads, priorities and mutexes and any
limit of the hold count:

* `MutexInvariance`: `MutexSpec => []MutexInv`;
* `MutualExclusion`: `MutexSpec => []MutexSound`;

and, for one mutex that is never detached,

* `OwnerInherits`: `MutexSpec => []PriorityProtocol`;
* `ReleaseRestores`: `MutexSpec => []PriorityRestored`;
* `InversionIsBounded`: `MutexSpec => []NoInversion`.

`MailboxProofs` proves about `Mailbox`, for every set of threads, priorities and messages, both
queueing policies and a ring of any size:

* `MbInvariance`: `MbSpec => []MbInv`;
* `MailboxSound`: `MbSpec => []MbSound`;
* `RingStaysConsistent`: `MbSpec => []RingConsistent`;
* `MailboxImplementsContract`: `MbSpec => ContractSpec`, the refinement of `AbsQueue`;
* `NobodyIsStranded`: `MbSpec => []NobodyStranded`.

Assumptions: those of `RtThread`, `SemaphoreAssumption`, `MutexAssumption`, and those of
`IpcWait`, `IpcQueue` and `Mailbox` (`FlagAssumption`, `QueueAssumption`, `SizeAssumption`),
which TLC evaluates in the runs of these modules; and `DeletersMask`, that `rt_thread_delete`
is called with interrupts disabled (without it `KernelSound` fails, section 6). Nothing is
assumed of `_ipc_list_resume_all`: interrupts are enabled between its test and its wakeup. The
theorems claim nothing about the list head that may be taken for a thread there, which
`wake_race` shows to happen; they claim that everything else stays sound up to that point,
where the assertion stops the system. The theorems that count units or messages also assume finitely many
threads. `OneMutex`, for the priority protocol, is no weaker than it
has to be: with two mutexes `nested_restore` shows the protocol broken, and a mutex that is
detached while it is owned leaves its owner with what it has inherited.

The argument.

1. `RtThreadProofs`, suspend lists: what each primitive of the kernel does to a suspend list as a
   sequence (`ScheduleLists`, `ResumeLists`, ...), that a list in order of priority stays so
   when a thread joins or leaves it (`PlaceByPriority`, `RemoveInOrder`), and two predicates
   that say all a component has to know of blocking and waking: `Blocked` (`FifoBlocks`,
   `PrioBlocks`, `TimerBlocks`) and `WokenUp` (`TimeoutWakes`, `ListResumeWakes`,
   `ListResumeFailedWakes`).
2. `RtThreadProofs`, `CoreInv`: the kernel half of the invariant of a component that blocks:
   `KernelSound`, who may be current in which state, which services have to run undisturbed
   (`Held`: deletion, reset),
   and that a thread which is being deleted is in no list. It has one lemma for each step of
   `RtThread` that the components take over, each of which also says what waiters can
   notice of the step: for rt_schedule and the end of a slice nothing (`Unnoticed`).
3. `SemInv` adds what `SemSound` lacks to be inductive: whoever is in the list is inside
   `rt_sem_take` with thread->error RT_EOK (`WaitersInTake`), so that a release is told apart
   from a timeout; a dead object has no waiters (`DeadUnused`).
   One lemma per action proves `SemInv'` and says which of eight effects on units, waiters and
   handed threads the step has (`Effect`); conservation and the refinement follow from the
   effects alone, without looking at the actions again.
4. `MutexInv` adds the same, and that a waiter never owns what it waits for, that a thread
   which is being deleted owns nothing (`ServicesKnow`), and that the CPU is with the most
   urgent thread or an `rt_schedule` is due (`Due`). Again each action has one of five effects
   on owners, priorities and queues.
5. `MbInv` adds to `CoreInv` that the two positions of the ring agree with the number of
   messages (`RingOk`); that whoever is in a list is in the loop of the call that the list is
   for, with thread->error RT_EOK (`WaitersInLoop`); and where reset, detach and delete are
   (`DrainInv`): the lists they have been through stay empty, one thread at a time detaches, and nobody who was woken is still to look
   at a mailbox that is gone. One lemma per action proves `MbInv'` and `Promise`: which of
   seven effects the step has on messages and lists, and that waiters stay spoken for
   (`Spoken`). The effects are steps of `AbsQueue` by four lemmas about the ring as a sequence
   (`SendAppends`, `UrgentPrepends`, `RecvTakesHead`, `ResetEmpties`). `NobodyStranded` is a
   count: a message that goes in makes one more woken receiver, or finds no receiver waiting; a
   woken receiver takes one, leaves none, or is deleted and then counted in `lost`. The same
   holds for senders and free places.
6. `PrioInv`, for one mutex, is inductive relative to `MutexInv` and `Effect`. Inheritance
   alone is not: on release the mutex goes to the *head* of the list, which must be the most
   urgent waiter, and the owner goes back to `original_priority`, which must be its own. The
   order of the list survives a change of the owner's priority because the owner is not in it.
   `NoInversion` follows from `Due` and inheritance.

Each of `SemInv`, `MutexInv` and `PrioInv` was model-checked on the instances of the runs
`semaphore` and `mutex`, `MutexInv` also with two mutexes, and `WaitersInLoop`, `SendersHaveValues`, `DrainInv` and
`RingOk` on that of `ipc`, before they were proved.

`TimerProofs` proves about `SoftTimer` and `HardTimer`, for every set of timers, every width
of the tick and all periods below half of its range, for soft timers

* `SoftInvariance`: `SoftSpec => []SoftInv`;
* `ParksWithoutTimers`: `SoftSpec => []ParkedWithoutTimers`, if `~Preempts`;
* `ActiveTimersLinked`: `SoftSpec => [](SoftTypeOK /\ ActiveIsLinked)`, if `~SetBusy`;
* `SoftTimersNotEarly`: `SoftSpec => NeverEarly`;
* `CallbackSleeps`: `SoftSpec => CallbackWaits`;
* `TimersInOrder`: `SoftSpec => [](StableOrder /\ NoOversleep)`, if `EnoughRoom(T)` for some `T`,
  and `~Preempts`;

for hard timers

* `HardInvariance`: `HardSpec => []HardInv`;
* `NoHardTimerForgotten`: `HardSpec => [](StableOrder /\ NoneOverdue)`, if no timer is given
  zero ticks;
* `ActiveHardTimersLinked`: `HardSpec => [](HardTypeOK /\ ActiveIsLinked)`, if `~SetBusy`;
* `HardTimersNotEarly`: `HardSpec => NeverEarly`;

and for the specification of all services, which the run `services` checks with fairness,

* `PartsInvariance`: `ServicesSpec => []PartInv`;
* `NoTimerEarly`: `ServicesSpec => NothingEarly`;
* `NobodyParksInVain`: `ServicesSpec => []ParkedWithoutTimers`, if `~Preempts`;
* `NobodySleepsPast`: `ServicesSpec => []NoOversleep`, if `EnoughRoom(T)` for some `T`, and
  `~Preempts`;
* `TimersAreSound`: `ServicesSpec => []TimersSound`, if besides `~SetBusy` and no timer is
  given zero ticks.

Assumptions: `TimerAssumption`, which is the assertion on periods in `rt_timer_init`, and
`SoftAssumption`; TLC evaluates both in the runs of `MCServices`. The hypotheses are borders
of the code, not of the proofs. Without `~Preempts` the timer thread parks on a timer
(`soft_timer_window`); `SetBusy` leaves a timer marked active that is linked nowhere, and a
timer of zero ticks can be due after the interrupt (section 6). `EnoughRoom(T)` says that with
periods of at most `T` ticks, timeout functions that sleep for at most `T`, and a timer
thread that is at most `MaxLate` ticks late and loses at most `MaxSlip` ticks on its way to
sleep, a timeout that has passed is at most half of the range of the tick ago. On this board
(32 bits, 1000 ticks a second) `T` may be some eight days; with longer periods the comparison
in `timer.c` can take a timeout that was missed for one to come. Hard timers need no such bound: the interrupt
works the list off in the tick in which a timer is due.

The argument.

1. Arithmetic of ticks that wrap at `W`: subtraction of words is subtraction of times, as
   long as they are less than half of the range apart (`Difference`, `NearTicks`).
2. `TimersInv`: `timeout_tick` of a linked timer is the tick plus `left`, modulo `W`, and
   `left` is below half of the range (`Deadline`). One lemma for each critical section. That
   nothing fires early follows (`ReachedOnTime`), and that the insertion of `rt_timer_start`
   compares times (`LaterIsLater`), hence `StartStable`.
3. `SoftInv` adds where the timer thread is. `temp` is the timer of the timeout function that is
   running, which ties "active" to "linked or about to be linked again" (`Served`).
4. `Timing`, inductive relative to `SoftInv`, bounds what a linked timer has still to run from
   below, by what the timer thread is doing; and while the thread holds a timeout it has
   read, that timeout is not later than any in the list (`Peeked`).
5. `HardInv` is `TimersInv` with what the interrupt is doing. `HardTimer` works on its own
   copy of the lists, so `TimerProofs` takes it as an instance, and `SameStart`,
   `SameOperations` and `SameProperties` carry the lemmas over.
6. `PartInv` is the choice of `SoftInv` or `HardInv` by `part`. A step of `Services` is a
   step of one part that leaves alone what the others have of their own (`PartSteps`), so
   the lemmas about steps of the parts serve the whole.

`SoftInv`, `Timing` and `HardInv` were model-checked before they were proved, on two timers:
the first two with `W = 32`, where `EnoughRoom(2)` holds, the last with `W = 8`, with and without
timers of zero ticks.

`HeapProofs` proves about `SmallMem`, for a heap of any size, an item header of any size, any
address, and all sizes and alignments that are requested:

* `HeapInvariance`: `HeapSpec => []HInv`;
* `HeapIsSound`: `HeapSpec => []HeapSound`, which is `HeapTypeOK`, `Tiled`, `NoHoles`,
  `FindsRoom`, `UsedIsExact` and `UsersServed`;
* `HeapStaysSound`: `ServicesSpec => []HeapSound`, the same with the other services.

Assumption: `HeapAssumption`, which TLC evaluates in the runs of `MCServices`; that the heap is
not smaller than `MIN` is what `rt_smem_alloc` needs for `mem_size_aligned - size` not to wrap.

The argument.

1. `Tiling` is `Tiled` with what is needed to remove an item: that `prev` leads back to the item
   before (`Precedes`), and that what is no item points to 0, as `plug_holes` leaves it. `Marked`,
   `Merge` and `Split` are the only changes of the chain; each has a lemma on what it leaves field
   by field (`MarkShape`, `MergeShape`, `SplitShape`), one that the result is tiled, and one on
   the account.
2. The account. `Total` runs along the chain. `TakesUp(it, u)` says the same without recursion,
   that some function of the items satisfies the equation of `Total` and begins with `u`, and
   each change of the chain is a change of that function at a few items. That `Total[0]` is `u`
   (`TotalIs`), and that `u` is no more than the heap (`TakesUpBound`), holds for all items if it
   holds of `heap_end` and of an item whenever it holds of the next one (`Backwards`, from the
   last item of which it does not hold).
3. `PlugSound`: if free items are adjacent nowhere but around `p`, `plug_holes` merges them, keeps
   the lowest free item and moves no used one. `TakenSound` and `ReleaseSound` are the two halves
   of the allocator, `HInv` adds the users, and there is one lemma for each service.
4. `FindsRoom` follows: the walk from `lfree` passes every free item, because `lfree` is the
   lowest, and the least one that is large enough is where it ends.

The parts of `HInv` were model-checked on the heap of `services` before they were proved.

Only model-checked: event, message queue, data queue and memory pool, the refinement of
`AbsQueue` by the message queue among them (its chains are recursive operators, which the
prover does not take); the priority protocol of several mutexes, which does not hold
(`nested_restore`); and liveness, which is out of the prover's reach (`TimersServed`,
`EveryWaiterServed` and the others of the runs with fairness).

## 6. Disagreements between code and comments

Four runs end in a counterexample; `findings` in `PROJECT.json` quotes the lines.

* `delete_race`: `rt_thread_delete` and `rt_thread_detach` leave a window between
  removing the thread from its list and closing it. A timeout in the window makes the
  thread READY, and it ends up in a ready list and in the defunct list at once.
* `wake_race`: `_ipc_list_resume_all` tests the list before it disables interrupts; if the
  last waiter times out in between, the list head is resumed as if it were a thread.
  `rt_mp_detach` and `rt_data_queue_reset` have the same loop.
* `nested_restore`: the priority to restore is stored per mutex and read from the current
  priority, so with two mutexes an inherited priority can become permanent.
* `soft_timer_window`: the timer thread looks for the next timeout, enables interrupts and
  then suspends itself. A soft timer that is started in between finds the timer thread
  READY and wakes nobody; it does not fire until another one is started.

The passing runs stay inside what the code handles. Where that is narrower than what the
services seem to offer, a constant, a habit or a conjunct marks the border, and TLC shows
what happens beyond it:

* Threads, `Masked` without `"resume"`: `rt_thread_resume` tests the state of its target with
  interrupts enabled. The target may time out, run and end before the rest, which takes it
  out of the defunct list and makes it READY again (`ClosedStaysClosed`).
* Mutex, two of them: an inherited priority is given up when the other mutex is released
  (`Inherits`), and a waiter whose priority is raised is not moved in the list it waits in
  (`WaitersSorted`).
* Timers, `SetBusy`: a periodic timer that its own timeout function makes one-shot stays
  marked active without being linked (`ActiveIsLinked`). A timer of zero ticks that a
  timeout function starts keeps `rt_timer_check` from ending (`TickEnds`), so `Times` has
  no 0. `rt_timer_control` for GET_STATE falls through into GET_REMAIN_TIME and answers
  with a tick (timer.c:587, 598), which is outside of the model.
* Heap: `rt_smem_realloc` does not raise the new size to `MIN_SIZE_ALIGNED`, as
  `rt_smem_alloc` does (mem.c:464); the properties hold all the same.
* Work queue, habits: with `"mixed"` or `"preempted"` an assertion of the timer functions
  can fail in the timeout handler or in a caller (`HandlerSound`, `CallersSound`): a cancel
  that comes between the expiry of a delayed work and its handler clears the queue that the
  handler asserts to be there. With `"reentrant"` a work can be accepted and dropped
  (`AcceptedIsKept`). With `"preempted"` the work may end between the test of a synchronous
  cancel and its wait, and only the end of another work wakes the caller (`SyncReturns`);
  and an interrupt may empty a list between the test of `rt_workqueue_cancel_all_work` and
  `rt_list_first_entry`, which then takes the list head for a work (`FirstEntryExists`).
* Completion: when `rt_completion_done` comes after the timeout has made the thread ready
  and before the thread has run, the wait returns -RT_ETIMEOUT and the signal is gone. A
  second waiter fails an assertion.
* Console, `Modes`: the flags of the last open replace the earlier ones. Another thread
  that opens the console without interrupts stops the shell from reading
  (`NoMissedInput`), and the last close then leaves the interrupt on (`ClosedIsQuiet`).
* Serial output, `stream`: when the character after the carriage return is refused, the
  carriage return is sent again, and with a transmitter that refuses the write may not end.
* Wait queue: the node of a thread that timed out stays linked until the thread runs; a
  wakeup in that window is spent on it (waitqueue.c:92).
* Pipe: a wakeup reaches one thread, so with two readers one of them can be left asleep
  (`SleepersAreTold`); `Readers` and `Writers` have one member each.

## 7. Plan

Done: models of kernel, semaphore, mutex, event, mailbox, message queue, timers, memory pool, heap,
the driver-level objects, serial and console; theorems about the kernel, the semaphore,
the mutex, the mailbox, soft and hard timers, the heap, and all parts of `Drivers`. Left, in this
order:

1. Theorems: `BlocksConserved` and `NoStrandedThread` for the memory pool, on `CoreInv` and with
   the lemmas of `MailboxProofs` on woken threads; then event and data queue. Proofs about a
   second component of a kind go into the module of the first, as an instance.
2. `RingBuffer` with its mirror bits and `ringblk_buf.c`, as algorithms against a
   sequence.
3. Deinitialisation: `rt_data_queue_deinit` with `evt_notify`, `rt_workqueue_destroy`; the
   device operations of the pipe.
4. DMA reception of `serial.c`, which this image does not configure.

## 8. Not modelled

* Most of the repository's lines are the vendor's HAL and register headers, and components
  of RT-Thread that this image does not configure (file systems, network, USB, C library).
  They are not what the repository's own program runs on, and are left aside; the share of
  all lines that the modules cover is small for that reason.
* SMP code, signals, `memheap.c`, `slab.c`: not in this configuration.
* `object.c` and `device.c` beyond open and close: registration of names and tables of
  callbacks. The type assertions on objects appear in the properties that quote them.
* `kservice.c`, line editing and commands of the shell, logging: text. Board support, HAL
  and context switch: registers and assembly; the models start from what interrupts and
  switches mean.
* Stack overflow checks, hooks and CPU usage: no effect on scheduling.
* A thread that is deleted while it owns a mutex: the code leaves a dangling owner and
  promises nothing, so `Mutex` deletes only threads that own none.
* The C, C++, Java, Kotlin and Python experiments: single-threaded, without state that
  outlives a call.
