-------------------------- MODULE SemaphoreProofs ---------------------------
(***************************************************************************)
(* Proofs about the semaphore of ipc.c (module Semaphore), for any number  *)
(* of threads, any priorities, both queueing policies and any initial and  *)
(* greatest value: the semaphore keeps its data structures sound, conserves*)
(* units, keeps its waiters in order, and implements AbsSemaphore.         *)
(***************************************************************************)
EXTENDS Semaphore, RtThreadProofs, FiniteSetTheorems

\* What the kernel knows of a waiter: it is inside rt_sem_take, and nobody has told
\* it anything yet.
WaitersInTake ==
  \A t \in On(k, Sem) : pc[t] \in {"take", "taken"} /\ k.error[t] = "ok"

\* Nobody waits for a semaphore that is gone.
DeadUnused == obj = "dead" => k.list[Sem] = <<>>

Ordered == Flag = "prio" => InOrder(k.list[Sem], k.prio)

\* The inductive invariant.
SemInv ==
  /\ CoreInv
  /\ arg \in [Threads -> Threads \cup {NoThread}]
  /\ value \in 0 .. SEM_VALUE_MAX
  /\ obj \in {"live", "dying", "dead"}
  /\ lost \in Nat /\ units \in Int
  /\ WaitersOnlyAtZero /\ WaitersInTake /\ DeadUnused /\ Ordered

\* What one step does to the units, as the contract sees it.
Keeps == value' = value /\ On(k', Sem) = On(k, Sem) /\ Handed' = Handed

Effect ==
  \/ Keeps /\ UNCHANGED <<units, lost>>
  \/ /\ value > 0 /\ value' = value - 1 /\ units' = units - 1 /\ lost' = lost
     /\ On(k', Sem) = On(k, Sem) /\ Handed' = Handed
  \/ /\ On(k, Sem) = {} /\ value < SEM_VALUE_MAX
     /\ value' = value + 1 /\ units' = units + 1 /\ lost' = lost
     /\ On(k', Sem) = On(k, Sem) /\ Handed' = Handed
  \/ \E t \in Threads :
       /\ value = 0 /\ t \notin On(k, Sem) \cup Handed
       /\ On(k', Sem) = On(k, Sem) \cup {t} /\ Handed' = Handed
       /\ UNCHANGED <<value, units, lost>>
  \/ \E t \in Threads :
       /\ t \in On(k, Sem) /\ t \notin Handed
       /\ On(k', Sem) = On(k, Sem) \ {t} /\ Handed' = Handed \cup {t}
       /\ value' = value /\ units' = units + 1 /\ lost' = lost
  \/ \E t \in Threads :
       /\ t \in On(k, Sem)
       /\ On(k', Sem) = On(k, Sem) \ {t} /\ Handed' = Handed
       /\ UNCHANGED <<value, units, lost>>
  \/ \E t \in Threads :
       /\ t \in Handed
       /\ On(k', Sem) = On(k, Sem) /\ Handed' = Handed \ {t}
       /\ value' = value
       /\ \/ units' = units - 1 /\ lost' = lost
          \/ units' = units /\ lost' = lost + 1
  \/ \E v \in 0 .. SEM_VALUE_MAX :
       /\ On(k, Sem) = {} /\ value' = v /\ units' = units + (v - value) /\ lost' = lost
       /\ On(k', Sem) = On(k, Sem) /\ Handed' = Handed

-----------------------------------------------------------------------------
(* The queue.                                                              *)

\* Nobody joins the queue in a step that leaves it alone or takes one thread off.
LEMMA QueueKept ==
  ASSUME SemInv, k' \in KernelStates, k'.prio = k.prio,
         NEW t, k'.list[Sem] = k.list[Sem] \/ k'.list[Sem] = RemoveFirst(k.list[Sem], t)
  PROVE  /\ Ordered'
         /\ On(k', Sem) \subseteq On(k, Sem)
         /\ k.list[Sem] = <<>> => k'.list[Sem] = <<>>
<1>1. /\ k.list[Sem] \in Seq(Threads) /\ IsInjective(k.list[Sem]) /\ k \in KernelStates
      /\ Sem \in Queues
  BY SemaphoreAssumption DEF SemInv, CoreInv, Sound, KernelStates, ListsDisjoint, Lists
<1>2. Ordered'
  <2>1. InOrder(k.list[Sem], k.prio) => InOrder(RemoveFirst(k.list[Sem], t), k.prio)
    BY <1>1, RemoveInOrder
  <2> QED BY <2>1 DEF SemInv, Ordered
<1>3. On(k', Sem) \subseteq On(k, Sem)
  <2>1. CASE k'.list[Sem] = k.list[Sem]
    BY <2>1 DEF On
  <2>2. CASE k'.list[Sem] = RemoveFirst(k.list[Sem], t)
    BY <1>1, <2>2, RemoveFirstProps DEF On
  <2> QED BY <2>1, <2>2
<1> QED BY <1>1, <1>2, <1>3, EmptyQueue

\* A step in which nobody joins the queue keeps the invariant, if it tells nothing
\* to those who stay and keeps the value at zero for them.
LEMMA StepInv ==
  ASSUME SemInv, CoreInv', k'.prio = k.prio,
         NEW t, k'.list[Sem] = k.list[Sem] \/ k'.list[Sem] = RemoveFirst(k.list[Sem], t),
         arg' \in [Threads -> Threads \cup {NoThread}],
         \A x \in Threads \ {k.cur} : pc'[x] = pc[x],
         \A x \in On(k', Sem) : k'.error[x] = k.error[x],
         k.cur \in On(k', Sem) => pc'[k.cur] \in {"take", "taken"},
         value' \in 0 .. SEM_VALUE_MAX, obj' \in {"live", "dying", "dead"},
         lost' \in Nat, units' \in Int,
         k'.list[Sem] # <<>> => value' = 0,
         obj' = "dead" => k'.list[Sem] = <<>>
  PROVE  SemInv'
<1>1. k' \in KernelStates
  BY DEF CoreInv, Sound
<1>2. Ordered' /\ On(k', Sem) \subseteq On(k, Sem)
  BY <1>1, QueueKept
<1>3. \A x \in On(k', Sem) : x \in Threads
  <2>1. k'.list[Sem] \in Seq(Threads)
    BY <1>1, SemaphoreAssumption DEF KernelStates, Lists
  <2> QED BY <2>1 DEF On, ToSet
<1>4. WaitersInTake'
  BY <1>2, <1>3 DEF SemInv, WaitersInTake
<1> QED BY <1>2, <1>4 DEF SemInv, WaitersOnlyAtZero, DeadUnused

\* The same, for a step that leaves the semaphore alone.
LEMMA QuietInv ==
  ASSUME SemInv, CoreInv', UNCHANGED semVars, k'.prio = k.prio,
         NEW t, k'.list[Sem] = k.list[Sem] \/ k'.list[Sem] = RemoveFirst(k.list[Sem], t),
         arg' \in [Threads -> Threads \cup {NoThread}],
         \A x \in Threads \ {k.cur} : pc'[x] = pc[x],
         \A x \in On(k', Sem) : k'.error[x] = k.error[x],
         k.cur \in On(k', Sem) => pc'[k.cur] \in {"take", "taken"}
  PROVE  SemInv'
<1>1. k' \in KernelStates
  BY DEF CoreInv, Sound
<1>2. k.list[Sem] = <<>> => k'.list[Sem] = <<>>
  BY <1>1, QueueKept
<1>3. /\ value' \in 0 .. SEM_VALUE_MAX /\ obj' \in {"live", "dying", "dead"}
      /\ lost' \in Nat /\ units' \in Int
  BY DEF SemInv, semVars
<1>4. k'.list[Sem] # <<>> => value' = 0
  BY <1>2 DEF SemInv, semVars, WaitersOnlyAtZero
<1>5. obj' = "dead" => k'.list[Sem] = <<>>
  BY <1>2 DEF SemInv, semVars, DeadUnused
<1> QED BY <1>3, <1>4, <1>5, StepInv

-----------------------------------------------------------------------------
(* One lemma for each step: the invariant, and the effect on the units.    *)

\* Boot: nobody is in a service.
LEMMA BootStep ==
  ASSUME SemInv, Boot, UNCHANGED semVars
  PROVE  SemInv' /\ Effect
<1>1. /\ CoreInv' /\ UNCHANGED <<pc, arg, lazy>> /\ k.cur = NoThread
      /\ k'.prio = k.prio /\ \A q \in Queues : On(k', q) = On(k, q)
  BY CoreBoot DEF SemInv
<1>2. /\ \A x \in Threads : pc[x] = "run"
      /\ k \in KernelStates /\ k' \in KernelStates /\ k.cur \notin Threads
  BY <1>1, KernelAssumption DEF SemInv, CoreInv, Sound
<1>3. Sem \in Queues /\ \A x \in On(k, Sem) : x \in Threads
  <2>1. k.list[Sem] \in Seq(Threads)
    BY <1>2, SemaphoreAssumption DEF KernelStates, Lists
  <2> QED BY <2>1, SemaphoreAssumption DEF On, ToSet
<1>4. On(k, Sem) = {} /\ On(k', Sem) = {}
  BY <1>1, <1>2, <1>3 DEF SemInv, WaitersInTake
<1>5. k'.list[Sem] = k.list[Sem]
  BY <1>2, <1>3, <1>4, EmptyQueue
<1>6. SemInv'
  <2>1. arg' \in [Threads -> Threads \cup {NoThread}]
    BY <1>1 DEF SemInv
  <2>2. k.cur \notin On(k', Sem)
    BY <1>4
  <2>3. \A x \in On(k', Sem) : k'.error[x] = k.error[x]
    BY <1>4
  <2> QED BY <1>1, <1>2, <1>5, <2>1, <2>2, <2>3, QuietInv
<1>7. Handed' = Handed
  BY <1>1, <1>2 DEF Handed
<1> QED BY <1>4, <1>6, <1>7 DEF Effect, Keeps, semVars

\* rt_sem_take with a unit available
LEMMA TakeAvailableStep ==
  ASSUME SemInv, TakeAvailable
  PROVE  SemInv' /\ Effect
<1>1. /\ value > 0 /\ value' = value - 1 /\ units' = units - 1 /\ lost' = lost /\ obj' = obj
      /\ k' = k /\ pc' = pc /\ arg' = arg /\ lazy' = lazy
  BY DEF TakeAvailable, vars
<1>2. Handed' = Handed /\ On(k', Sem) = On(k, Sem)
  BY <1>1 DEF Handed
<1>3. CoreInv' = CoreInv
  BY <1>1 DEF CoreInv, Limbo, At, Running, Self
<1>4. k.list[Sem] = <<>>
  BY <1>1 DEF SemInv, WaitersOnlyAtZero
<1>5. value' \in 0 .. SEM_VALUE_MAX /\ units' \in Int
  BY <1>1, SemaphoreAssumption DEF SemInv
<1>6. SemInv'
  BY <1>1, <1>3, <1>4, <1>5
     DEF SemInv, WaitersOnlyAtZero, WaitersInTake, DeadUnused, Ordered, On
<1> QED BY <1>1, <1>2, <1>6 DEF Effect

\* The rest of rt_sem_take
LEMMA TakeReturnStep ==
  ASSUME SemInv, TakeReturn
  PROVE  SemInv' /\ Effect
<1> DEFINE c == k.cur
<1>1. /\ c # NoThread /\ pc[c] = "taken" /\ k' = k /\ arg' = arg /\ lazy' = lazy
      /\ value' = value /\ obj' = obj /\ lost' = lost
      /\ pc' = [pc EXCEPT ![c] = "run"]
      /\ units' = IF k.error[c] = "ok" THEN units - 1 ELSE units
  BY DEF TakeReturn, At, Running, Self, Goto
<1>2. /\ c \in Threads /\ k.stat[c] = "running" /\ Sound(k, {}) /\ c \in Workers
  BY <1>1, CoreFacts DEF SemInv
<1>3. /\ pc' \in [Threads -> ServicePCs] /\ pc'[c] = "run"
      /\ \A x \in Threads \ {c} : pc'[x] = pc[x]
  BY <1>1, <1>2 DEF SemInv, CoreInv, ServicePCs
<1>4. CoreInv'
  <2>1. arg' \in [Threads -> ServiceArgs] /\ lazy' \in BOOLEAN
    BY <1>1 DEF SemInv, CoreInv
  <2> QED BY <1>1, <1>2, <1>3, <2>1, CoreStay DEF SemInv
<1>5. c \notin On(k, Sem)
  BY <1>2, SemaphoreAssumption, LiveUnlisted
<1>6. SemInv'
  <2>1. /\ value' \in 0 .. SEM_VALUE_MAX /\ obj' \in {"live", "dying", "dead"}
        /\ lost' \in Nat /\ units' \in Int
        /\ (k'.list[Sem] # <<>> => value' = 0) /\ (obj' = "dead" => k'.list[Sem] = <<>>)
        /\ arg' \in [Threads -> Threads \cup {NoThread}]
    BY <1>1 DEF SemInv, WaitersOnlyAtZero, DeadUnused
  <2> QED BY <1>1, <1>3, <1>4, <1>5, <2>1, StepInv
<1>7. CASE k.error[c] = "ok"
  <2>1. c \in Handed /\ Handed' = Handed \ {c}
    BY <1>1, <1>2, <1>3, <1>7 DEF Handed
  <2> QED BY <1>1, <1>2, <1>6, <1>7, <2>1 DEF Effect
<1>8. CASE k.error[c] # "ok"
  <2>1. Handed' = Handed
    BY <1>1, <1>2, <1>3, <1>8 DEF Handed
  <2> QED BY <1>1, <1>6, <1>8, <2>1 DEF Effect, Keeps
<1> QED BY <1>7, <1>8
\* rt_sem_take joins the queue.
LEMMA TakeBlockStep ==
  ASSUME SemInv, NEW finite \in BOOLEAN, TakeBlock(finite)
  PROVE  SemInv' /\ Effect
<1> DEFINE c == k.cur
           e == [k EXCEPT !.error[c] = "ok"]
           s == ListSuspend(e, c)
<1>1. /\ value = 0 /\ obj = "live" /\ UNCHANGED semVars /\ arg' = arg /\ lazy' = lazy
      /\ k' = (IF finite THEN StartTimer(s, c) ELSE s)
      /\ pc' = [pc EXCEPT ![c] = "take"]
  BY DEF TakeBlock, MayBlock, Usable, Goto, Self
<1>2. /\ c \in Workers /\ c \in Threads /\ pc[c] = "run" /\ k.stat[c] = "running"
      /\ Sound(k, {}) /\ Sem \in Queues
  BY CoreInApp, SemaphoreAssumption DEF TakeBlock, MayBlock, SemInv
<1>3. /\ Sound(e, {}) /\ e.stat = k.stat /\ e.prio = k.prio /\ e.list = k.list
      /\ e.cur = k.cur /\ e.lock = k.lock
      /\ e.error[c] = "ok" /\ \A x \in Threads \ {c} : e.error[x] = k.error[x]
  <2>1. k \in KernelStates
    BY <1>2 DEF Sound
  <2>2. /\ e \in KernelStates /\ e.stat = k.stat /\ e.prio = k.prio /\ e.list = k.list
        /\ e.cur = k.cur /\ e.lock = k.lock /\ e.timer = k.timer /\ e.group = k.group
        /\ e.error[c] = "ok" /\ \A x \in Threads \ {c} : e.error[x] = k.error[x]
    BY <1>2, <2>1 DEF KernelStates, Errors
  <2> HIDE DEF e
  <2> QED BY <1>2, <2>2, SoundSame
<1> HIDE DEF e
<1>4. /\ Blocked(s, e, Sem, c)
      /\ Flag = "prio" /\ InOrder(e.list[Sem], e.prio) => InOrder(s.list[Sem], e.prio)
  <2>1. e.stat[c] \in {"ready", "running"}
    BY <1>2, <1>3
  <2>2. CASE Flag = "fifo"
    BY <1>2, <1>3, <2>1, <2>2, FifoBlocks DEF ListSuspend
  <2>3. CASE Flag # "fifo"
    BY <1>2, <1>3, <2>1, <2>3, PrioBlocks DEF ListSuspend
  <2> QED BY <2>2, <2>3
<1> HIDE DEF s
<1>5. Blocked(k', e, Sem, c) /\ k'.list = s.list
  BY <1>1, <1>2, <1>4, TimerBlocks
<1>6. /\ k'.prio = k.prio
      /\ \A x \in Threads : k'.stat[x] = IF x = c THEN "suspend" ELSE k.stat[x]
      /\ k'.error[c] = "ok" /\ \A x \in Threads \ {c} : k'.error[x] = k.error[x]
      /\ On(k', Sem) = On(k, Sem) \cup {c}
  BY <1>2, <1>3, <1>5 DEF Blocked, On
<1>7. Ordered'
  BY <1>3, <1>4, <1>5, <1>6 DEF SemInv, Ordered
<1>8. CoreInv'
  <2>1. e.cur = k.cur /\ e.lock = k.lock /\ \A x \in Threads : e.stat[x] = k.stat[x]
    BY <1>3
  <2>2. arg' \in [Threads -> ServiceArgs] /\ lazy' \in BOOLEAN
    BY <1>1 DEF SemInv, CoreInv
  <2> QED BY <1>1, <1>2, <1>5, <2>1, <2>2, CoreBlock DEF SemInv
<1>9. pc'[c] = "take" /\ \A x \in Threads \ {c} : pc'[x] = pc[x]
  BY <1>1, <1>2 DEF SemInv, CoreInv
<1>10. \A x \in On(k, Sem) : x \in Threads /\ x # c
  <2>1. k.list[Sem] \in Seq(Threads)
    BY <1>2 DEF Sound, KernelStates, Lists
  <2>2. c \notin On(k, Sem)
    BY <1>2, LiveUnlisted
  <2> QED BY <2>1, <2>2 DEF On, ToSet
<1>11. WaitersInTake'
  BY <1>6, <1>9, <1>10 DEF SemInv, WaitersInTake
<1>12. SemInv'
  BY <1>1, <1>7, <1>8, <1>11
     DEF SemInv, semVars, WaitersOnlyAtZero, DeadUnused
<1>13. Handed' = Handed /\ c \notin Handed
  BY <1>2, <1>6, <1>9 DEF Handed
<1> QED BY <1>1, <1>2, <1>6, <1>10, <1>12, <1>13 DEF Effect, semVars

\* What a step that wakes t does to the queue and to the threads handed a unit.
LEMMA WokenEffect ==
  ASSUME SemInv, NEW t \in Threads, NEW err, NEW ks, WokenUp(ks, k, t, err), Unnoticed(k', ks),
         k.stat[t] = "suspend",
         \A x \in Threads : pc'[x] \in {"take", "taken"} <=> pc[x] \in {"take", "taken"}
  PROVE  /\ k'.prio = k.prio /\ k'.list[Sem] = RemoveFirst(k.list[Sem], t)
         /\ On(k', Sem) = On(k, Sem) \ {t} /\ t \notin Handed
         /\ \A x \in On(k', Sem) : k'.error[x] = k.error[x]
         /\ Handed' = IF pc[t] \in {"take", "taken"} /\ err = "ok" THEN Handed \cup {t} ELSE Handed
<1>1. /\ k'.prio = k.prio /\ k'.list[Sem] = RemoveFirst(k.list[Sem], t)
      /\ On(k', Sem) = On(k, Sem) \ {t}
  BY SemaphoreAssumption DEF WokenUp, Unnoticed, On
<1>2. \A x \in Threads : k'.error[x] = IF x = t THEN err ELSE k.error[x]
  BY DEF WokenUp, Unnoticed
<1>3. \A x \in Threads : k'.stat[x] \in {"ready", "running"}
                           <=> x = t \/ k.stat[x] \in {"ready", "running"}
  BY DEF WokenUp, Unnoticed
<1>4. \A x \in On(k, Sem) : x \in Threads
  <2>1. k.list[Sem] \in Seq(Threads)
    BY SemaphoreAssumption DEF SemInv, CoreInv, Sound, KernelStates, Lists
  <2> QED BY <2>1 DEF On, ToSet
<1>5. /\ t \notin Handed
      /\ Handed' = IF pc[t] \in {"take", "taken"} /\ err = "ok" THEN Handed \cup {t} ELSE Handed
  BY <1>2, <1>3 DEF Handed
<1> QED BY <1>1, <1>2, <1>4, <1>5

\* rt_sem_release by a thread
LEMMA ReleaseStep ==
  ASSUME SemInv, Release
  PROVE  SemInv' /\ Effect
<1> DEFINE c == k.cur
           h == Head(k.list[Sem])
<1>1. /\ c \in Workers /\ c \in Threads /\ pc[c] = "run" /\ k.stat[c] = "running"
      /\ Sound(k, {}) /\ Sem \in Queues
  BY CoreInApp, SemaphoreAssumption DEF Release, SemInv
<1>2. /\ obj' = obj /\ obj = "live" /\ lost' = lost /\ units' = units + 1 /\ arg' = arg /\ lazy' = lazy
      /\ lost' \in Nat /\ units' \in Int /\ arg' \in [Threads -> Threads \cup {NoThread}]
      /\ arg' \in [Threads -> ServiceArgs] /\ lazy' \in BOOLEAN
  BY DEF Release, ReleaseUnit, Usable, SemInv, CoreInv
<1>3. c \notin On(k, Sem)
  BY <1>1, LiveUnlisted
<1>4. CASE k.list[Sem] # <<>>
  <2>1. value' = value /\ k' = ListResume(k, Sem) /\ pc' = [pc EXCEPT ![c] = "sched"]
    BY <1>4 DEF Release, ReleaseUnit, Goto, Self
  <2>2. h \in Threads /\ h \in On(k, Sem) /\ k.stat[h] = "suspend"
    BY <1>1, <1>4, FirstWaiter
  <2>3. k.error[h] = "ok" /\ pc[h] \in {"take", "taken"}
    BY <2>2 DEF SemInv, WaitersInTake
  <2>4. WokenUp(k', k, h, k.error[h])
    BY <1>1, <1>4, <2>1, ListResumeWakes
  <2> HIDE DEF h
  <2>5. /\ pc'[c] = "sched" /\ \A x \in Threads \ {c} : pc'[x] = pc[x]
        /\ pc' \in [Threads -> ServicePCs]
    BY <1>1, <2>1 DEF SemInv, CoreInv, ServicePCs
  <2>6. CoreInv'
    BY <1>1, <1>2, <2>2, <2>4, <2>5, CoreWake DEF SemInv
  <2>7. /\ k'.prio = k.prio /\ k'.list[Sem] = RemoveFirst(k.list[Sem], h)
        /\ On(k', Sem) = On(k, Sem) \ {h} /\ h \notin Handed
        /\ \A x \in On(k', Sem) : k'.error[x] = k.error[x]
        /\ Handed' = Handed \cup {h}
    <3>1. \A x \in Threads : pc'[x] \in {"take", "taken"} <=> pc[x] \in {"take", "taken"}
      BY <1>1, <2>5
    <3> QED BY <2>2, <2>3, <2>4, <3>1, UnnoticedSame, WokenEffect
  <2>8. /\ value' \in 0 .. SEM_VALUE_MAX /\ obj' \in {"live", "dying", "dead"}
        /\ (k'.list[Sem] # <<>> => value' = 0) /\ (obj' = "dead" => k'.list[Sem] = <<>>)
    BY <1>2, <1>4, <2>1 DEF SemInv, WaitersOnlyAtZero
  <2>9. c \notin On(k', Sem)
    BY <1>3, <2>7
  <2>10. SemInv'
    BY <1>2, <2>5, <2>6, <2>7, <2>8, <2>9, StepInv
  <2> QED BY <1>2, <2>1, <2>2, <2>7, <2>10 DEF Effect
<1>5. CASE k.list[Sem] = <<>>
  <2>1. value < SEM_VALUE_MAX /\ value' = value + 1 /\ k' = k /\ pc' = pc
    BY <1>5 DEF Release, ReleaseUnit
  <2>2. On(k, Sem) = {}
    BY <1>1, <1>5, EmptyQueue DEF Sound
  <2>3. Handed' = Handed
    BY <2>1 DEF Handed
  <2>4. /\ pc' \in [Threads -> ServicePCs] /\ pc'[c] # "delete"
        /\ \A x \in Threads \ {c} : pc'[x] = pc[x]
    BY <1>1, <2>1 DEF SemInv, CoreInv
  <2>5. CoreInv'
    BY <1>1, <1>2, <2>1, <2>4, CoreStay DEF SemInv
  <2>6. /\ value' \in 0 .. SEM_VALUE_MAX /\ obj' \in {"live", "dying", "dead"}
        /\ k'.list[Sem] = <<>>
    BY <1>2, <1>5, <2>1, SemaphoreAssumption DEF SemInv
  <2>7. SemInv'
    BY <1>2, <1>3, <2>1, <2>4, <2>5, <2>6, StepInv
  <2> QED BY <1>2, <2>1, <2>2, <2>3, <2>7 DEF Effect
<1> QED BY <1>4, <1>5

\* rt_sem_release by an interrupt handler
LEMMA IsrReleaseStep ==
  ASSUME SemInv, DeletersMask, IsrRelease
  PROVE  SemInv' /\ Effect
<1> DEFINE h == Head(k.list[Sem])
<1>1. /\ k.cur \in Threads /\ pc[k.cur] \notin Held /\ Sound(k, {}) /\ Sem \in Queues
      /\ IrqEnabled
  BY CoreIrq, SemaphoreAssumption DEF IsrRelease, SemInv
<1>2. /\ obj' = obj /\ obj = "live" /\ lost' = lost /\ units' = units + 1
      /\ pc' = pc /\ arg' = arg
      /\ lost' \in Nat /\ units' \in Int /\ arg' \in [Threads -> Threads \cup {NoThread}]
  BY DEF IsrRelease, ReleaseUnit, Usable, SemInv
<1>3. CASE k.list[Sem] # <<>>
  <2>1. PICK ks : ks = ListResume(k, Sem)
    OBVIOUS
  <2>2. value' = value /\ k' = RtSchedule(ks) /\ lazy' \in BOOLEAN
    <3>1. /\ value' = value /\ \E resumed \in {ListResume(k, Sem)} : k' = RtSchedule(resumed)
          /\ lazy' = (lazy /\ k.lock > 0)
      BY <1>3 DEF IsrRelease, ReleaseUnit, Scheduled
    <3> QED BY <2>1, <3>1
  <2>3. h \in Threads /\ h \in On(k, Sem) /\ k.stat[h] = "suspend"
    BY <1>1, <1>3, FirstWaiter
  <2>4. k.error[h] = "ok" /\ pc[h] \in {"take", "taken"}
    BY <2>3 DEF SemInv, WaitersInTake
  <2>5. WokenUp(ks, k, h, k.error[h])
    BY <1>1, <1>3, <2>1, ListResumeWakes
  <2> HIDE DEF h
  <2>6. CoreInv' /\ Unnoticed(k', ks)
    BY <1>1, <1>2, <2>2, <2>3, <2>5, CoreIsrWake DEF SemInv
  <2>7. /\ k'.prio = k.prio /\ k'.list[Sem] = RemoveFirst(k.list[Sem], h)
        /\ On(k', Sem) = On(k, Sem) \ {h} /\ h \notin Handed
        /\ \A x \in On(k', Sem) : k'.error[x] = k.error[x]
        /\ Handed' = Handed \cup {h}
    BY <1>2, <2>3, <2>4, <2>5, <2>6, WokenEffect
  <2>8. /\ value' \in 0 .. SEM_VALUE_MAX /\ obj' \in {"live", "dying", "dead"}
        /\ (k'.list[Sem] # <<>> => value' = 0) /\ (obj' = "dead" => k'.list[Sem] = <<>>)
    BY <1>2, <1>3, <2>2 DEF SemInv, WaitersOnlyAtZero
  <2>9. k.cur \in On(k', Sem) => pc'[k.cur] \in {"take", "taken"}
    BY <1>2, <2>7 DEF SemInv, WaitersInTake
  <2>10. SemInv'
    BY <1>2, <2>6, <2>7, <2>8, <2>9, StepInv
  <2> QED BY <1>2, <2>2, <2>3, <2>7, <2>10 DEF Effect
<1>4. CASE k.list[Sem] = <<>>
  <2>1. value < SEM_VALUE_MAX /\ value' = value + 1 /\ k' = k /\ lazy' = lazy
    BY <1>4 DEF IsrRelease, ReleaseUnit
  <2>2. On(k, Sem) = {} /\ k.cur \notin On(k', Sem)
    BY <1>1, <1>4, <2>1, EmptyQueue DEF Sound
  <2>3. Handed' = Handed
    BY <1>2, <2>1 DEF Handed
  <2>4. CoreInv'
    <3>1. CoreInv' = CoreInv
      BY <1>2, <2>1 DEF CoreInv, Limbo, At, Running, Self
    <3> QED BY <3>1 DEF SemInv
  <2>5. /\ value' \in 0 .. SEM_VALUE_MAX /\ obj' \in {"live", "dying", "dead"}
        /\ k'.list[Sem] = <<>>
    BY <1>2, <1>4, <2>1, SemaphoreAssumption DEF SemInv
  <2>6. SemInv'
    BY <1>2, <2>1, <2>2, <2>4, <2>5, StepInv
  <2> QED BY <1>2, <2>1, <2>2, <2>3, <2>6 DEF Effect
<1> QED BY <1>3, <1>4

\* A step of the running thread, outside of rt_sem_take, that leaves the kernel alone.
LEMMA StayStep ==
  ASSUME SemInv, k.cur \in Workers, k.stat[k.cur] = "running", Sound(k, {}), k' = k,
         NEW l \in {"run", "sched", "reset", "detach", "wake"}, pc' = [pc EXCEPT ![k.cur] = l],
         pc[k.cur] \notin {"take", "taken"}, arg' = arg, lazy' = lazy,
         value' \in 0 .. SEM_VALUE_MAX, obj' \in {"live", "dying", "dead"},
         lost' \in Nat, units' \in Int,
         k.list[Sem] # <<>> => value' = 0,
         obj' = "dead" => k.list[Sem] = <<>>
  PROVE  SemInv' /\ On(k', Sem) = On(k, Sem) /\ Handed' = Handed
<1>1. k.cur \in Threads /\ Sem \in Queues
  BY SemaphoreAssumption DEF Workers
<1>2. /\ pc'[k.cur] = l /\ \A x \in Threads \ {k.cur} : pc'[x] = pc[x]
      /\ pc' \in [Threads -> ServicePCs]
  BY <1>1 DEF SemInv, CoreInv, ServicePCs
<1>3. /\ arg' \in [Threads -> ServiceArgs] /\ lazy' \in BOOLEAN
      /\ arg' \in [Threads -> Threads \cup {NoThread}]
  BY DEF SemInv, CoreInv
<1>4. CoreInv'
  BY <1>2, <1>3, CoreStay DEF SemInv
<1>5. k.cur \notin On(k', Sem)
  BY <1>1, LiveUnlisted
<1>6. SemInv'
  BY <1>2, <1>3, <1>4, <1>5, StepInv
<1>7. Handed' = Handed
  BY <1>1, <1>2 DEF Handed
<1> QED BY <1>6, <1>7

\* RT_IPC_CMD_RESET begins.
LEMMA ResetStep ==
  ASSUME SemInv, Reset
  PROVE  SemInv' /\ Effect
<1>1. /\ k.cur \in Workers /\ pc[k.cur] = "run" /\ k.stat[k.cur] = "running" /\ Sound(k, {})
  BY CoreInApp DEF Reset, SemInv
<1>2. /\ k' = k /\ arg' = arg /\ lazy' = lazy /\ pc' = [pc EXCEPT ![k.cur] = "reset"]
      /\ value' = value /\ obj' = obj /\ lost' = lost /\ units' = units
  BY DEF Reset, Goto, Self, semVars
<1>3. /\ value' \in 0 .. SEM_VALUE_MAX /\ obj' \in {"live", "dying", "dead"}
      /\ lost' \in Nat /\ units' \in Int
      /\ (k.list[Sem] # <<>> => value' = 0) /\ (obj' = "dead" => k.list[Sem] = <<>>)
  BY <1>2 DEF SemInv, WaitersOnlyAtZero, DeadUnused
<1>4. SemInv' /\ On(k', Sem) = On(k, Sem) /\ Handed' = Handed
  BY <1>1, <1>2, <1>3, StayStep
<1> QED BY <1>2, <1>4 DEF Effect, Keeps

\* The running thread, inside the wake-up loop of a reset or a detach, tells a waiter
\* that its take failed.
LEMMA FailStep ==
  ASSUME SemInv, k.cur \in Workers, k.stat[k.cur] = "running", Sound(k, {}),
         k.list[Sem] # <<>>, k' = ListResumeFailed(k, Sem), UNCHANGED semVars,
         pc[k.cur] \notin {"take", "taken"}, arg' = arg, lazy' \in BOOLEAN,
         NEW l \in {"reset", "detach"}, pc' = [pc EXCEPT ![k.cur] = l]
  PROVE  SemInv' /\ Effect
<1> DEFINE h == Head(k.list[Sem])
<1>1. k.cur \in Threads /\ Sem \in Queues
  BY SemaphoreAssumption DEF Workers
<1>2. h \in Threads /\ h \in On(k, Sem) /\ k.stat[h] = "suspend"
  BY <1>1, FirstWaiter
<1>3. WokenUp(k', k, h, "error")
  BY <1>1, ListResumeFailedWakes
<1> HIDE DEF h
<1>4. /\ pc'[k.cur] = l /\ \A x \in Threads \ {k.cur} : pc'[x] = pc[x]
      /\ pc' \in [Threads -> ServicePCs]
  BY <1>1 DEF SemInv, CoreInv, ServicePCs
<1>5. /\ arg' \in [Threads -> ServiceArgs]
      /\ arg' \in [Threads -> Threads \cup {NoThread}]
  BY DEF SemInv, CoreInv
<1>6. CoreInv'
  BY <1>2, <1>3, <1>4, <1>5, CoreWake DEF SemInv
<1>7. /\ k'.prio = k.prio /\ k'.list[Sem] = RemoveFirst(k.list[Sem], h)
      /\ On(k', Sem) = On(k, Sem) \ {h}
      /\ \A x \in On(k', Sem) : k'.error[x] = k.error[x]
      /\ Handed' = Handed
  <2>1. \A x \in Threads : pc'[x] \in {"take", "taken"} <=> pc[x] \in {"take", "taken"}
    BY <1>1, <1>4
  <2> QED BY <1>2, <1>3, <2>1, UnnoticedSame, WokenEffect
<1>8. k.cur \notin On(k', Sem)
  <2>1. k.cur \notin On(k, Sem)
    BY <1>1, LiveUnlisted
  <2> QED BY <1>7, <2>1
<1>9. SemInv'
  BY <1>4, <1>5, <1>6, <1>7, <1>8, QuietInv
<1> QED BY <1>2, <1>7, <1>9 DEF Effect, semVars

\* One waiter is told of a reset.
LEMMA ResetWakeStep ==
  ASSUME SemInv, ResetWake
  PROVE  SemInv' /\ Effect
<1>1. k.cur # NoThread /\ pc[k.cur] = "reset"
  BY DEF ResetWake, At, Running, Self
<1>2. k.cur \in Workers /\ k.stat[k.cur] = "running" /\ Sound(k, {})
  BY <1>1, CoreFacts DEF SemInv
<1>3. pc' = [pc EXCEPT ![k.cur] = "reset"] /\ arg' = arg /\ lazy' \in BOOLEAN
  <2>1. pc \in [Threads -> ServicePCs] /\ lazy \in BOOLEAN
    BY DEF SemInv, CoreInv
  <2> QED BY <1>1, <2>1 DEF ResetWake
<1>4. k.list[Sem] # <<>> /\ k' = ListResumeFailed(k, Sem) /\ UNCHANGED semVars
  BY DEF ResetWake
<1> QED BY <1>1, <1>2, <1>3, <1>4, FailStep

\* The value is set at the end of a reset.
LEMMA ResetValueStep ==
  ASSUME SemInv, NEW v \in 0 .. SEM_VALUE_MAX, ResetValue(v)
  PROVE  SemInv' /\ Effect
<1>1. /\ k.cur # NoThread /\ pc[k.cur] = "reset" /\ k.list[Sem] = <<>>
      /\ k' = k /\ arg' = arg /\ lazy' = lazy /\ pc' = [pc EXCEPT ![k.cur] = "sched"]
      /\ value' = v /\ obj' = obj /\ lost' = lost /\ units' = units + (v - value)
  BY DEF ResetValue, At, Running, Self, Goto
<1>2. k.cur \in Workers /\ k.stat[k.cur] = "running" /\ Sound(k, {})
  BY <1>1, CoreFacts DEF SemInv
<1>3. /\ value' \in 0 .. SEM_VALUE_MAX /\ obj' \in {"live", "dying", "dead"}
      /\ lost' \in Nat /\ units' \in Int
  BY <1>1, SemaphoreAssumption DEF SemInv
<1>4. SemInv' /\ On(k', Sem) = On(k, Sem) /\ Handed' = Handed
  BY <1>1, <1>2, <1>3, StayStep
<1>5. On(k, Sem) = {}
  BY <1>1, <1>2, SemaphoreAssumption, EmptyQueue DEF Sound
<1> QED BY <1>1, <1>4, <1>5 DEF Effect
\* rt_sem_detach or rt_sem_delete begins.
LEMMA DetachStep ==
  ASSUME SemInv, Detach
  PROVE  SemInv' /\ Effect
<1>1. /\ k.cur \in Workers /\ pc[k.cur] = "run" /\ k.stat[k.cur] = "running" /\ Sound(k, {})
  BY CoreInApp DEF Detach, SemInv
<1>2. /\ k' = k /\ arg' = arg /\ lazy' = lazy /\ pc' = [pc EXCEPT ![k.cur] = "detach"]
      /\ value' = value /\ obj' = "dying" /\ lost' = lost /\ units' = units
  BY DEF Detach, Goto, Self
<1>3. /\ value' \in 0 .. SEM_VALUE_MAX /\ obj' \in {"live", "dying", "dead"}
      /\ lost' \in Nat /\ units' \in Int
      /\ (k.list[Sem] # <<>> => value' = 0) /\ (obj' = "dead" => k.list[Sem] = <<>>)
  BY <1>2 DEF SemInv, WaitersOnlyAtZero
<1>4. SemInv' /\ On(k', Sem) = On(k, Sem) /\ Handed' = Handed
  BY <1>1, <1>2, <1>3, StayStep
<1> QED BY <1>2, <1>4 DEF Effect, Keeps

\* The loop of _ipc_list_resume_all finds the list not empty.
LEMMA DetachTestStep ==
  ASSUME SemInv, DetachTest
  PROVE  SemInv' /\ Effect
<1>1. /\ k.cur # NoThread /\ pc[k.cur] = "detach"
      /\ k' = k /\ arg' = arg /\ lazy' = lazy /\ pc' = [pc EXCEPT ![k.cur] = "wake"]
      /\ value' = value /\ obj' = obj /\ lost' = lost /\ units' = units
  BY DEF DetachTest, At, Running, Self, Goto, semVars
<1>2. k.cur \in Workers /\ k.stat[k.cur] = "running" /\ Sound(k, {})
  BY <1>1, CoreFacts DEF SemInv
<1>3. /\ value' \in 0 .. SEM_VALUE_MAX /\ obj' \in {"live", "dying", "dead"}
      /\ lost' \in Nat /\ units' \in Int
      /\ (k.list[Sem] # <<>> => value' = 0) /\ (obj' = "dead" => k.list[Sem] = <<>>)
  BY <1>1 DEF SemInv, WaitersOnlyAtZero, DeadUnused
<1>4. SemInv' /\ On(k', Sem) = On(k, Sem) /\ Handed' = Handed
  BY <1>1, <1>2, <1>3, StayStep
<1> QED BY <1>1, <1>4 DEF Effect, Keeps

\* It wakes the first waiter, if one is still there.
LEMMA DetachWakeStep ==
  ASSUME SemInv, DetachWake
  PROVE  SemInv' /\ Effect
<1>1. /\ k.cur # NoThread /\ pc[k.cur] = "wake" /\ k' = ListResumeFailed(k, Sem)
      /\ k.list[Sem] # <<>> /\ lazy' = TRUE /\ arg' = arg /\ pc' = [pc EXCEPT ![k.cur] = "detach"]
      /\ UNCHANGED semVars
  BY DEF DetachWake, At, Running, Self, Goto
<1>2. /\ k.cur \in Workers /\ k.cur \in Threads /\ k.stat[k.cur] = "running" /\ Sound(k, {})
  BY <1>1, CoreFacts DEF SemInv
<1> QED BY <1>1, <1>2, FailStep

\* rt_sem_detach or rt_sem_delete ends.
LEMMA DetachDoneStep ==
  ASSUME SemInv, DetachDone
  PROVE  SemInv' /\ Effect
<1>1. /\ k.cur # NoThread /\ pc[k.cur] = "detach" /\ k.list[Sem] = <<>>
      /\ k' = k /\ arg' = arg /\ lazy' = lazy /\ pc' = [pc EXCEPT ![k.cur] = "run"]
      /\ value' = value /\ obj' = "dead" /\ lost' = lost /\ units' = units
  BY DEF DetachDone, At, Running, Self, Goto
<1>2. k.cur \in Workers /\ k.stat[k.cur] = "running" /\ Sound(k, {})
  BY <1>1, CoreFacts DEF SemInv
<1>3. /\ value' \in 0 .. SEM_VALUE_MAX /\ obj' \in {"live", "dying", "dead"}
      /\ lost' \in Nat /\ units' \in Int
  BY <1>1 DEF SemInv
<1>4. SemInv' /\ On(k', Sem) = On(k, Sem) /\ Handed' = Handed
  BY <1>1, <1>2, <1>3, StayStep
<1> QED BY <1>1, <1>4 DEF Effect, Keeps

\* rt_sem_init, rt_sem_create
LEMMA InitSemStep ==
  ASSUME SemInv, NEW v \in 0 .. SEM_VALUE_MAX, InitSem(v)
  PROVE  SemInv' /\ Effect
<1>1. k.cur \in Workers /\ pc[k.cur] = "run" /\ k.stat[k.cur] = "running" /\ Sound(k, {})
  BY CoreInApp DEF InitSem, SemInv
<1>2. /\ k' = k /\ arg' = arg /\ lazy' = lazy /\ pc' = [pc EXCEPT ![k.cur] = "run"]
      /\ value' = v /\ obj' = "live" /\ lost' = lost /\ units' = units + (v - value)
  <2>1. pc \in [Threads -> ServicePCs]
    BY DEF SemInv, CoreInv
  <2> QED BY <1>1, <2>1 DEF InitSem, vars
<1>3. k.list[Sem] = <<>>
  BY DEF InitSem, SemInv, DeadUnused
<1>4. /\ value' \in 0 .. SEM_VALUE_MAX /\ obj' \in {"live", "dying", "dead"}
      /\ lost' \in Nat /\ units' \in Int
  BY <1>2, SemaphoreAssumption DEF SemInv
<1>5. SemInv' /\ On(k', Sem) = On(k, Sem) /\ Handed' = Handed
  BY <1>1, <1>2, <1>3, <1>4, StayStep
<1>6. On(k, Sem) = {}
  BY <1>1, <1>3, SemaphoreAssumption, EmptyQueue DEF Sound
<1> QED BY <1>2, <1>5, <1>6 DEF Effect

\* rt_thread_delete of a thread that may be waiting
LEMMA DeleteStep ==
  ASSUME SemInv, NEW t \in Workers, DeleteThread(t)
  PROVE  SemInv' /\ Effect
<1>1. /\ CoreInv' /\ UNCHANGED lazy
      /\ k.cur \in Workers /\ pc[k.cur] = "run" /\ t # k.cur
      /\ pc' = [pc EXCEPT ![k.cur] = "delete"] /\ arg' = [arg EXCEPT ![k.cur] = t]
      /\ k'.stat = k.stat /\ k'.error = k.error /\ k'.prio = k.prio
      /\ \A q \in Queues : /\ On(k', q) = On(k, q) \ {t}
                           /\ k'.list[q] = RemoveFirst(k.list[q], t)
      /\ Sem \in Queues /\ UNCHANGED semVars
  BY CoreDelete, SemaphoreAssumption DEF DeleteThread, SemInv
<1>2. t \in Threads /\ k.cur \in Threads
  BY <1>1 DEF Workers
<1>3. pc'[k.cur] = "delete" /\ \A x \in Threads \ {k.cur} : pc'[x] = pc[x]
  BY <1>1, <1>2 DEF SemInv, CoreInv
<1>4. arg' \in [Threads -> Threads \cup {NoThread}]
  BY <1>1, <1>2 DEF SemInv
<1>5. k.cur \notin On(k', Sem)
  BY <1>1 DEF SemInv, WaitersInTake
<1>6. SemInv'
  BY <1>1, <1>3, <1>4, <1>5, QuietInv
<1>7. Handed' = Handed
  BY <1>1, <1>2, <1>3 DEF Handed
<1>8. t \notin On(k, Sem) => On(k', Sem) = On(k, Sem)
  BY <1>1
<1> QED BY <1>1, <1>2, <1>6, <1>7, <1>8 DEF Effect, Keeps, semVars

\* The rest of rt_thread_delete: a unit on its way to the thread is lost with it.
LEMMA DeleteEndStep ==
  ASSUME SemInv, DeleteThreadEnd
  PROVE  SemInv' /\ Effect
<1>1. PICK t : t = arg[k.cur]
  OBVIOUS
<1>2. /\ CoreInv' /\ UNCHANGED lazy
      /\ k.cur \in Workers /\ pc[k.cur] = "delete" /\ k.stat[k.cur] = "running"
      /\ t \in Workers /\ t # k.cur
      /\ pc' = [pc EXCEPT ![k.cur] = "run"] /\ arg' = [arg EXCEPT ![k.cur] = NoThread]
      /\ k'.error = k.error /\ k'.prio = k.prio
      /\ \A x \in Threads : k'.stat[x] = IF x = t THEN "close" ELSE k.stat[x]
      /\ \A q \in Queues : k'.list[q] = k.list[q]
  BY <1>1, CoreDeleteEnd DEF DeleteThreadEnd, SemInv
<1>3. /\ value' = value /\ obj' = obj /\ units' = units
      /\ lost' = IF t \in Handed THEN lost + 1 ELSE lost
      /\ Sem \in Queues /\ t \in Threads /\ k.cur \in Threads
  BY <1>1, <1>2, SemaphoreAssumption DEF DeleteThreadEnd, Self, Workers
<1>4. pc'[k.cur] = "run" /\ \A x \in Threads \ {k.cur} : pc'[x] = pc[x]
  BY <1>2, <1>3 DEF SemInv, CoreInv
<1>5. arg' \in [Threads -> Threads \cup {NoThread}]
  BY <1>2, <1>3 DEF SemInv
<1>6. On(k', Sem) = On(k, Sem) /\ k'.list[Sem] = k.list[Sem] /\ k.cur \notin On(k', Sem)
  BY <1>2, <1>3 DEF On, SemInv, WaitersInTake
<1>7. /\ value' \in 0 .. SEM_VALUE_MAX /\ obj' \in {"live", "dying", "dead"}
      /\ lost' \in Nat /\ units' \in Int
      /\ (k'.list[Sem] # <<>> => value' = 0) /\ (obj' = "dead" => k'.list[Sem] = <<>>)
  BY <1>3, <1>6 DEF SemInv, WaitersOnlyAtZero, DeadUnused
<1>8. SemInv'
  BY <1>2, <1>4, <1>5, <1>6, <1>7, StepInv
<1>9. Handed' = Handed \ {t}
  BY <1>2, <1>3, <1>4 DEF Handed
<1>10. CASE t \in Handed
  BY <1>3, <1>6, <1>8, <1>9, <1>10 DEF Effect
<1>11. CASE t \notin Handed
  <2>1. Handed' = Handed
    BY <1>9, <1>11
  <2> QED BY <1>3, <1>6, <1>8, <1>11, <2>1 DEF Effect, Keeps
<1> QED BY <1>10, <1>11
\* rt_thread_sleep
LEMMA SleepStep ==
  ASSUME SemInv, Sleep, UNCHANGED semVars
  PROVE  SemInv' /\ Effect
<1>1. /\ CoreInv' /\ UNCHANGED <<arg, lazy>>
      /\ k.cur \in Workers /\ pc[k.cur] = "run" /\ pc' = [pc EXCEPT ![k.cur] = "sleep"]
      /\ k'.prio = k.prio
      /\ \A x \in Threads \ {k.cur} : k'.stat[x] = k.stat[x] /\ k'.error[x] = k.error[x]
      /\ \A q \in Queues : k'.list[q] = k.list[q]
      /\ Sem \in Queues
  BY CoreSleep, SemaphoreAssumption DEF SemInv
<1>2. k.cur \in Threads
  BY <1>1 DEF Workers
<1>3. pc'[k.cur] = "sleep" /\ \A x \in Threads \ {k.cur} : pc'[x] = pc[x]
  BY <1>1, <1>2 DEF SemInv, CoreInv
<1>4. /\ On(k', Sem) = On(k, Sem) /\ k'.list[Sem] = k.list[Sem] /\ k.cur \notin On(k, Sem)
      /\ \A x \in On(k, Sem) : x \in Threads
  <2>1. k.list[Sem] \in Seq(Threads)
    BY <1>1 DEF SemInv, CoreInv, Sound, KernelStates, Lists
  <2> QED BY <1>1, <2>1 DEF On, ToSet, SemInv, WaitersInTake
<1>5. arg' \in [Threads -> Threads \cup {NoThread}]
  BY <1>1 DEF SemInv
<1>6. SemInv'
  BY <1>1, <1>3, <1>4, <1>5, QuietInv
<1>7. Handed' = Handed
  BY <1>1, <1>2, <1>3 DEF Handed
<1> QED BY <1>4, <1>6, <1>7 DEF Effect, Keeps, semVars

\* The end of rt_thread_sleep
LEMMA WokenStep ==
  ASSUME SemInv, Woken, UNCHANGED semVars
  PROVE  SemInv' /\ Effect
<1>1. /\ CoreInv' /\ UNCHANGED <<arg, lazy>>
      /\ k.cur \in Workers /\ pc[k.cur] = "woken" /\ pc' = [pc EXCEPT ![k.cur] = "run"]
      /\ k'.prio = k.prio /\ k'.stat = k.stat /\ k'.list = k.list
      /\ \A x \in Threads \ {k.cur} : k'.error[x] = k.error[x]
      /\ Sem \in Queues
  BY CoreWoken, SemaphoreAssumption DEF SemInv
<1>2. k.cur \in Threads
  BY <1>1 DEF Workers
<1>3. pc'[k.cur] = "run" /\ \A x \in Threads \ {k.cur} : pc'[x] = pc[x]
  BY <1>1, <1>2 DEF SemInv, CoreInv
<1>4. /\ On(k', Sem) = On(k, Sem) /\ k.cur \notin On(k, Sem)
      /\ \A x \in On(k, Sem) : x \in Threads
  <2>1. k.list[Sem] \in Seq(Threads)
    BY <1>1 DEF SemInv, CoreInv, Sound, KernelStates, Lists
  <2> QED BY <1>1, <2>1 DEF On, ToSet, SemInv, WaitersInTake
<1>5. arg' \in [Threads -> Threads \cup {NoThread}]
  BY <1>1 DEF SemInv
<1>6. SemInv'
  BY <1>1, <1>3, <1>4, <1>5, QuietInv
<1>7. Handed' = Handed
  BY <1>1, <1>2, <1>3 DEF Handed
<1> QED BY <1>4, <1>6, <1>7 DEF Effect, Keeps, semVars

\* A step that no waiter notices, with the current thread going on in its service.
LEMMA UnnoticedStep ==
  ASSUME SemInv, CoreInv', UNCHANGED semVars, arg' = arg, Unnoticed(k', k), k.cur \in Threads,
         \A x \in Threads \ {k.cur} : pc'[x] = pc[x],
         pc'[k.cur] \in {"take", "taken"} <=> pc[k.cur] \in {"take", "taken"}
  PROVE  SemInv' /\ Effect
<1>1. /\ k'.prio = k.prio /\ k'.list[Sem] = k.list[Sem] /\ On(k', Sem) = On(k, Sem)
      /\ \A x \in On(k', Sem) : k'.error[x] = k.error[x]
  BY SemaphoreAssumption DEF Unnoticed, On
<1>2. arg' \in [Threads -> Threads \cup {NoThread}]
  BY DEF SemInv
<1>3. k.cur \in On(k', Sem) => pc'[k.cur] \in {"take", "taken"}
  BY <1>1 DEF SemInv, WaitersInTake
<1>4. SemInv'
  BY <1>1, <1>2, <1>3, QuietInv
<1>5. Handed' = Handed
  BY DEF Handed, Unnoticed
<1> QED BY <1>1, <1>4, <1>5 DEF Effect, Keeps, semVars

\* The rt_schedule of any service
LEMMA ScheduleStep ==
  ASSUME SemInv, ScheduleFrom("take", "taken") \/ Schedule, UNCHANGED semVars
  PROVE  SemInv' /\ Effect
<1>1. PICK from \in {"sched", "sleep", "take"}, to \in {"run", "woken", "taken"} :
         /\ ScheduleFrom(from, to)
         /\ to \in {"take", "taken"} <=> from \in {"take", "taken"}
  BY DEF Schedule
<1>2. /\ CoreInv' /\ UNCHANGED arg
      /\ k.cur \in Workers /\ pc[k.cur] = from /\ pc' = [pc EXCEPT ![k.cur] = to]
      /\ Unnoticed(k', k)
  BY <1>1, CoreSchedule DEF SemInv
<1>3. k.cur \in Threads
  BY <1>2 DEF Workers
<1>4. pc'[k.cur] = to /\ \A x \in Threads \ {k.cur} : pc'[x] = pc[x]
  BY <1>2, <1>3 DEF SemInv, CoreInv
<1> QED BY <1>1, <1>2, <1>3, <1>4, UnnoticedStep

\* The end of a time slice
LEMMA SliceStep ==
  ASSUME SemInv, DeletersMask, SliceTick, UNCHANGED semVars
  PROVE  SemInv' /\ Effect
<1>1. CoreInv' /\ pc' = pc /\ arg' = arg /\ Unnoticed(k', k)
  BY CoreSlice DEF SemInv
<1>2. k.cur \in Threads
  BY CoreIrq DEF SemInv, SliceTick
<1> QED BY <1>1, <1>2, UnnoticedStep

\* The timer of a waiting, or sleeping, thread expires.
LEMMA TimeoutStep ==
  ASSUME SemInv, DeletersMask, NEW t \in Threads, TimeoutTick(t), UNCHANGED semVars
  PROVE  SemInv' /\ Effect
<1>1. PICK ks : ks = ThreadTimeout(k, t)
  OBVIOUS
<1>2. /\ CoreInv' /\ pc' = pc /\ arg' = arg /\ k.stat[t] = "suspend"
      /\ WokenUp(ks, k, t, "timeout") /\ Unnoticed(k', ks)
  BY <1>1, CoreTimeout DEF SemInv
<1>3. k.cur \in Threads
  BY CoreIrq DEF SemInv, TimeoutTick
<1>4. /\ k'.prio = k.prio /\ k'.list[Sem] = RemoveFirst(k.list[Sem], t)
      /\ On(k', Sem) = On(k, Sem) \ {t} /\ Handed' = Handed
      /\ \A x \in On(k', Sem) : k'.error[x] = k.error[x]
  BY <1>2, WokenEffect
<1>5. k.cur \in On(k', Sem) => pc'[k.cur] \in {"take", "taken"}
  BY <1>2, <1>4 DEF SemInv, WaitersInTake
<1>6. arg' \in [Threads -> Threads \cup {NoThread}]
  BY <1>2 DEF SemInv
<1>7. SemInv'
  BY <1>2, <1>3, <1>4, <1>5, <1>6, QuietInv
<1>8. t \notin On(k, Sem) => On(k', Sem) = On(k, Sem)
  BY <1>4
<1> QED BY <1>4, <1>7, <1>8 DEF Effect, Keeps, semVars
-----------------------------------------------------------------------------
(* The theorems.                                                           *)

\* The initial states.
LEMMA SemInitInv ==
  ASSUME SemInit
  PROVE  SemInv /\ On(k, Sem) = {} /\ Handed = {}
<1>1. CoreInv
  BY CoreInit DEF SemInit
<1>2. /\ \A x \in Threads : pc[x] = "run"
      /\ arg \in [Threads -> Threads \cup {NoThread}] /\ k.list[Sem] = <<>>
  BY SemaphoreAssumption DEF SemInit, Init, KernelBoot, Lists
<1>3. On(k, Sem) = {}
  BY <1>1, <1>2, SemaphoreAssumption, EmptyQueue DEF CoreInv, Sound
<1>4. Handed = {}
  BY <1>2 DEF Handed
<1>5. /\ value \in 0 .. SEM_VALUE_MAX /\ obj = "live" /\ lost \in Nat /\ units \in Int
  BY SemaphoreAssumption DEF SemInit
<1> QED BY <1>1, <1>2, <1>3, <1>4, <1>5
        DEF SemInv, WaitersOnlyAtZero, WaitersInTake, DeadUnused, Ordered, InOrder

\* Every step keeps the invariant and has one of the effects that the contract knows.
LEMMA SemNextInv ==
  ASSUME DeletersMask, SemInv, [SemNext]_<<vars, semVars>>
  PROVE  SemInv' /\ Effect
<1>1. CASE UNCHANGED <<vars, semVars>>
  <2>1. /\ k' = k /\ pc' = pc /\ arg' = arg /\ lazy' = lazy
        /\ value' = value /\ obj' = obj /\ units' = units /\ lost' = lost
    BY <1>1 DEF vars, semVars
  <2>2. CoreInv' = CoreInv
    BY <2>1 DEF CoreInv, Limbo, At, Running, Self
  <2>3. SemInv'
    BY <2>1, <2>2
       DEF SemInv, WaitersOnlyAtZero, WaitersInTake, DeadUnused, Ordered
  <2>4. Handed' = Handed
    BY <2>1 DEF Handed
  <2> QED BY <2>1, <2>3, <2>4 DEF Effect, Keeps
<1>2. CASE Boot /\ UNCHANGED semVars
  BY <1>2, BootStep
<1>3. CASE SemService
  <2>1. CASE \E finite \in BOOLEAN : TakeBlock(finite)
    BY <2>1, TakeBlockStep
  <2>2. CASE \E v \in 0 .. SEM_VALUE_MAX : InitSem(v)
    BY <2>2, InitSemStep
  <2>3. CASE \E t \in Workers : DeleteThread(t)
    BY <2>3, DeleteStep
  <2>4. CASE TakeAvailable \/ Release \/ Reset \/ Detach
    BY <2>4, TakeAvailableStep, ReleaseStep, ResetStep, DetachStep
  <2>5. CASE Sleep /\ UNCHANGED semVars
    BY <2>5, SleepStep
  <2> QED BY <1>3, <2>1, <2>2, <2>3, <2>4, <2>5 DEF SemService
<1>4. CASE SemContinue
  <2>1. CASE (ScheduleFrom("take", "taken") \/ Schedule) /\ UNCHANGED semVars
    BY <2>1, ScheduleStep
  <2>2. CASE Woken /\ UNCHANGED semVars
    BY <2>2, WokenStep
  <2>3. CASE \E v \in 0 .. SEM_VALUE_MAX : ResetValue(v)
    BY <2>3, ResetValueStep
  <2>4. CASE TakeReturn \/ ResetWake \/ DetachTest \/ DetachWake \/ DetachDone \/ DeleteThreadEnd
    BY <2>4, TakeReturnStep, ResetWakeStep, DetachTestStep, DetachWakeStep, DetachDoneStep,
       DeleteEndStep
  <2> QED BY <1>4, <2>1, <2>2, <2>3, <2>4 DEF SemContinue
<1>5. CASE IsrRelease
  BY <1>5, IsrReleaseStep
<1>6. CASE Tick /\ UNCHANGED semVars
  BY <1>6, SliceStep, TimeoutStep DEF Tick
<1> QED BY <1>1, <1>2, <1>3, <1>4, <1>5, <1>6 DEF SemNext

\* The inductive invariant holds of every behaviour.
THEOREM SemInvariance ==
  ASSUME DeletersMask PROVE SemSpec => []SemInv
<1>1. SemInit => SemInv
  BY SemInitInv
<1>2. SemInv /\ [SemNext]_<<vars, semVars>> => SemInv'
  BY SemNextInv
<1> QED BY <1>1, <1>2, PTL DEF SemSpec

\* RT_IPC_FLAG_PRIO: whatever timeouts, deletions and releases do to the suspend list,
\* it stays in order of priority (_ipc_list_suspend).
THEOREM WaitersStaySorted ==
  ASSUME DeletersMask PROVE SemSpec => []PriorityOrder
<1>1. SemInv => PriorityOrder
  BY DEF SemInv, Ordered, InOrder, PriorityOrder
<1>2. SemSpec => []SemInv
  BY SemInvariance
<1> QED BY <1>1, <1>2, PTL

\* The semaphore implements its contract: a unit given back goes to a waiter if there
\* is one, clients wait only while nothing is available, and a wait ends with a unit
\* or without one but never with a unit that nobody gave (rt_sem_take, rt_sem_release).
THEOREM SemaphoreImplementsContract ==
  ASSUME DeletersMask PROVE SemSpec => ContractSpec
<1>1. SemInit => Contract!Init
  <2> SUFFICES ASSUME SemInit PROVE Contract!Init
    OBVIOUS
  <2>1. On(k, Sem) = {} /\ Handed = {}
    BY SemInitInv
  <2> QED BY <2>1 DEF Contract!Init, SemInit
<1>2. SemInv /\ [SemNext]_<<vars, semVars>> => [Contract!Next]_(Contract!vars)
  <2> SUFFICES ASSUME SemInv, [SemNext]_<<vars, semVars>>
               PROVE  [Contract!Next]_(Contract!vars)
    OBVIOUS
  <2>1. Effect
    BY SemNextInv
  <2> QED BY <2>1 DEF Effect, Keeps, Contract!Next, Contract!vars, Contract!Acquire, Contract!Post,
       Contract!Wait, Contract!Grant, Contract!GiveUp, Contract!Depart, Contract!Preset, On
<1>3. SemSpec => []SemInv
  BY SemInvariance
<1> QED BY <1>1, <1>2, <1>3, PTL DEF SemSpec, ContractSpec, Contract!Spec

\* Counting: one step of the contract keeps the books balanced.
LEMMA UnitsStep ==
  ASSUME IsFiniteSet(Threads), SemInv, SemInv', Effect, UnitsConserved
  PROVE  UnitsConserved'
<1>1. Handed \in SUBSET Threads /\ IsFiniteSet(Handed) /\ Cardinality(Handed) \in Nat
  <2>1. Handed \in SUBSET Threads
    BY DEF Handed
  <2>2. IsFiniteSet(Handed)
    BY <2>1, FS_Subset
  <2> QED BY <2>1, <2>2, FS_CardinalityType
<1>2. /\ value \in Int /\ units \in Int /\ lost \in Int
      /\ value' \in Int /\ units' \in Int /\ lost' \in Int
  BY SemaphoreAssumption DEF SemInv
<1>3. \A t \in Threads :
        /\ t \notin Handed => Cardinality(Handed \cup {t}) = Cardinality(Handed) + 1
        /\ t \in Handed => Cardinality(Handed \ {t}) = Cardinality(Handed) - 1
  BY <1>1, FS_AddElement, FS_RemoveElement
<1>4. units = value + Cardinality(Handed) + lost
  BY DEF UnitsConserved
<1> DEFINE n == Cardinality(Handed)
<1>5. CASE Handed' = Handed /\ units' - value' - lost' = units - value - lost
  BY <1>1, <1>2, <1>4, <1>5 DEF UnitsConserved
<1>6. CASE \E t \in Threads : /\ t \notin Handed /\ Handed' = Handed \cup {t}
                              /\ value' = value /\ units' = units + 1 /\ lost' = lost
  BY <1>1, <1>2, <1>3, <1>4, <1>6 DEF UnitsConserved
<1>7. CASE \E t \in Threads : /\ t \in Handed /\ Handed' = Handed \ {t} /\ value' = value
                              /\ \/ units' = units - 1 /\ lost' = lost
                                 \/ units' = units /\ lost' = lost + 1
  BY <1>1, <1>2, <1>3, <1>4, <1>7 DEF UnitsConserved
<1>8. \/ Handed' = Handed /\ units' - value' - lost' = units - value - lost
      \/ \E t \in Threads : /\ t \notin Handed /\ Handed' = Handed \cup {t}
                              /\ value' = value /\ units' = units + 1 /\ lost' = lost
      \/ \E t \in Threads : /\ t \in Handed /\ Handed' = Handed \ {t} /\ value' = value
                              /\ \/ units' = units - 1 /\ lost' = lost
                                 \/ units' = units /\ lost' = lost + 1
  <2>1. CASE \E v \in 0 .. SEM_VALUE_MAX :
               value' = v /\ units' = units + (v - value) /\ lost' = lost /\ Handed' = Handed
    <3>1. PICK v \in 0 .. SEM_VALUE_MAX :
                 value' = v /\ units' = units + (v - value) /\ lost' = lost /\ Handed' = Handed
      BY <2>1
    <3> QED BY <1>2, <3>1
  <2>2. CASE \E d \in {-1, 0, 1} :
               value' = value + d /\ units' = units + d /\ lost' = lost /\ Handed' = Handed
    BY <1>2, <2>2
  <2>3. \/ \E v \in 0 .. SEM_VALUE_MAX :
             value' = v /\ units' = units + (v - value) /\ lost' = lost /\ Handed' = Handed
        \/ \E d \in {-1, 0, 1} :
             value' = value + d /\ units' = units + d /\ lost' = lost /\ Handed' = Handed
        \/ \E t \in Threads : /\ t \notin Handed /\ Handed' = Handed \cup {t}
                              /\ value' = value /\ units' = units + 1 /\ lost' = lost
        \/ \E t \in Threads : /\ t \in Handed /\ Handed' = Handed \ {t} /\ value' = value
                              /\ \/ units' = units - 1 /\ lost' = lost
                                 \/ units' = units /\ lost' = lost + 1
    <3>1. value - 1 = value + (-1) /\ units - 1 = units + (-1)
          /\ value + 0 = value /\ units + 0 = units
      BY <1>2
    <3> QED BY <3>1, Zenon DEF Effect, Keeps
  <2> QED BY <2>1, <2>2, <2>3
<1> QED BY <1>5, <1>6, <1>7, <1>8

\* No unit is forged or lost: whatever the order of takes, releases, timeouts, resets
\* and deletions, what the return values promised is in the value, on its way to a
\* woken thread, or gone with a deleted one.
THEOREM UnitsAreConserved ==
  ASSUME DeletersMask, IsFiniteSet(Threads) PROVE SemSpec => []UnitsConserved
<1>1. SemInit => UnitsConserved
  <2> SUFFICES ASSUME SemInit PROVE UnitsConserved
    OBVIOUS
  <2>1. Handed = {} /\ Cardinality({}) = 0
    BY SemInitInv, FS_EmptySet
  <2> QED BY <2>1, SemaphoreAssumption DEF SemInit, UnitsConserved
<1>2. SemInv /\ SemInv' /\ UnitsConserved /\ [SemNext]_<<vars, semVars>> => UnitsConserved'
  BY SemNextInv, UnitsStep
<1>3. SemSpec => []SemInv
  BY SemInvariance
<1> QED BY <1>1, <1>2, <1>3, PTL DEF SemSpec

\* Every thread is at a label of the semaphore, or of what it takes from RtThread.
LEMMA LabelsStep ==
  ASSUME pc \in [Threads -> SemPCs], [SemNext]_<<vars, semVars>>
  PROVE  pc' \in [Threads -> SemPCs]
<1>1. CASE SemService
  BY <1>1 DEF SemService, TakeAvailable, TakeBlock, Release, Reset, Detach, InitSem,
     DeleteThread, Delete, Sleep, Goto, SemPCs, vars
<1>2. CASE SemContinue
  <2>1. CASE DeleteThreadEnd
    BY <2>1 DEF DeleteThreadEnd, DeleteEnd, At, Goto, SemPCs
  <2>2. CASE ~DeleteThreadEnd
    BY <1>2, <2>2 DEF SemContinue, ScheduleFrom, Schedule, Woken, TakeReturn, ResetWake,
       ResetValue, DetachTest, DetachWake, DetachDone, Goto, SemPCs
  <2> QED BY <2>1, <2>2
<1>3. CASE ~SemService /\ ~SemContinue
  BY <1>3 DEF SemNext, Boot, BootDone, BootStart, IsrRelease, Tick, SliceTick, TimeoutTick, vars
<1> QED BY <1>1, <1>2, <1>3

\* rt_sem_take, rt_sem_release, rt_sem_control, rt_sem_detach, rt_sem_delete: whatever
\* their order, and wherever interrupts meet them, the scheduler's structures agree and
\* nobody waits while a unit is there.  The loop of _ipc_list_resume_all may be
\* interrupted between its test and its wakeup: no caller masks that window.
THEOREM SemaphoreSound ==
  ASSUME DeletersMask, IsFiniteSet(Threads) PROVE SemSpec => []SemSound
<1>1. SemInv /\ UnitsConserved /\ pc \in [Threads -> SemPCs] => SemSound
  <2> SUFFICES ASSUME SemInv, UnitsConserved, pc \in [Threads -> SemPCs] PROVE SemSound
    OBVIOUS
  <2>1. units \in Nat
    <3>1. Handed \in SUBSET Threads
      BY DEF Handed
    <3>2. IsFiniteSet(Handed)
      BY <3>1, FS_Subset
    <3>3. Cardinality(Handed) \in Nat
      BY <3>2, FS_CardinalityType
    <3> QED BY <3>3, SemaphoreAssumption DEF SemInv, UnitsConserved
  <2>2. SemTypeOK
    BY <2>1 DEF SemInv, CoreInv, SemTypeOK, Sound
  <2>3. KernelSound
    BY DEF SemInv, CoreInv, KernelSound, KernelOK, Sound
  <2> QED BY <2>2, <2>3 DEF SemInv, SemSound
<1>2. SemSpec => []SemInv
  BY SemInvariance
<1>3. SemSpec => []UnitsConserved
  BY UnitsAreConserved
<1>4. SemInit => pc \in [Threads -> SemPCs]
  BY DEF SemInit, Init, SemPCs
<1>5. pc \in [Threads -> SemPCs] /\ [SemNext]_<<vars, semVars>> => (pc \in [Threads -> SemPCs])'
  BY LabelsStep
<1>6. SemSpec => [](pc \in [Threads -> SemPCs])
  BY <1>4, <1>5, PTL DEF SemSpec
<1> QED BY <1>1, <1>2, <1>3, <1>6, PTL
=============================================================================
