---------------------------- MODULE MutexProofs -----------------------------
(***************************************************************************)
(* Proofs about the mutex of ipc.c (module Mutex), for any number of       *)
(* threads and mutexes, any priorities and any limit of the hold count:    *)
(* mutual exclusion and hand-over.  For a single mutex that is never       *)
(* detached, also the priority protocol: inheritance, restoration and no   *)
(* unbounded inversion.                                                    *)
(***************************************************************************)
EXTENDS Mutex, RtThreadProofs

Taking == {"take", "taken"}

\* The owner's original_priority is a priority, not the 0xFF of a free mutex.
OwnersPriority ==
  \A m \in Mutexes : mx[m].owner # NoThread => mx[m].orig \in Priorities

\* A waiter is inside rt_mutex_take of that mutex, does not own it, and has been told
\* nothing yet.
WaitersInTake ==
  \A m \in Mutexes : \A t \in On(k, m) :
     pc[t] \in Taking /\ arg[t] = m /\ k.error[t] = "ok" /\ mx[m].owner # t

\* A service works on a mutex; a thread that is being deleted owns nothing.
ServicesKnow ==
  \A t \in Threads :
     /\ pc[t] \in Taking \cup {"detach", "wake"} => arg[t] \in Mutexes
     /\ pc[t] = "delete" => \A m \in Mutexes : mx[m].owner # arg[t]

\* Nobody waits for a mutex that is gone.
DeadUnused == \A m \in Mutexes : obj[m] = "dead" => k.list[m] = <<>>

\* The CPU is with the most urgent thread that can run, or an rt_schedule is due.
Due == k.cur # NoThread /\ k.stat[k.cur] = "running"
         => Settled(k) \/ pc[k.cur] = "sched" \/ lazy

MutexTypes ==
  /\ pc \in [Threads -> MutexPCs]
  /\ mx \in [Mutexes -> [owner : Threads \cup {NoThread}, hold : 0 .. MUTEX_HOLD_MAX,
                         value : {0, 1}, orig : 0 .. PRIORITY_MAX]]
  /\ obj \in [Mutexes -> {"live", "dying", "dead"}]
  /\ has \in [Threads -> [Mutexes -> Nat]]
  /\ base \in [Threads -> Priorities]

\* The inductive invariant.
MutexInv ==
  /\ CoreInv /\ MutexTypes
  /\ OnlyOwnerHas /\ WaitersHaveOwner /\ OwnersPriority
  /\ WaitersInTake /\ ServicesKnow /\ DeadUnused /\ Due

\* One mutex, which the application never detaches.
OneMutex == Detachable = {} /\ \A m, n \in Mutexes : m = n

\* The inductive invariant of the priority protocol, for one mutex.
PrioInv ==
  /\ \A m \in Mutexes : InOrder(k.list[m], k.prio)
  /\ \A m \in Mutexes : \A w \in On(k, m) : k.prio[mx[m].owner] <= k.prio[w]
  /\ \A m \in Mutexes : mx[m].owner # NoThread => mx[m].orig = base[mx[m].owner]
  /\ \A t \in Threads : (\A m \in Mutexes : mx[m].owner # t) => k.prio[t] = base[t]
-----------------------------------------------------------------------------
(* Priorities.                                                             *)

\* u is ks with thread t at priority p.
Reprio(u, ks, t, p) ==
  /\ Sound(u, {}) /\ u.error = ks.error /\ u.cur = ks.cur /\ u.lock = ks.lock
  /\ \A x \in Threads : u.prio[x] = IF x = t THEN p ELSE ks.prio[x]
  /\ \A x \in Threads : u.stat[x] = ks.stat[x]
  /\ \A q \in Queues : u.list[q] = ks.list[q]

\* RT_THREAD_CTRL_CHANGE_PRIORITY moves a thread between ready lists and touches no
\* suspend list.
LEMMA ChangeReprio ==
  ASSUME NEW ks, Sound(ks, {}), NEW t \in Threads, NEW p \in Priorities,
         ks.stat[t] = "ready" => t # ks.cur
  PROVE  Reprio(ChangePriority(ks, t, p), ks, t, p)
<1> DEFINE r == ChangePriority(ks, t, p)
<1>1. /\ Sound(r, {}) /\ r.error = ks.error /\ r.cur = ks.cur /\ r.lock = ks.lock
      /\ \A x \in Threads : r.prio[x] = IF x = t THEN p ELSE ks.prio[x]
      /\ \A x \in Threads : r.stat[x] = ks.stat[x]
  BY ChangePrioritySound
<1>2. ks \in KernelStates
  BY DEF Sound
<1>3. \A q \in Queues : r.list[q] = ks.list[q]
  <2>1. CASE ks.stat[t] = "ready"
    <3> DEFINE u == ScheduleRemove(ks, t)
               v == [u EXCEPT !.prio[t] = p]
    <3>1. \A q \in Queues : u.list[q] = ks.list[q]
      <4>1. \A q \in Queues : RemoveFirst(ks.list[q], t) = ks.list[q]
        BY <2>1, LiveUnlisted
      <4>2. \A q \in Queues : q \in Lists
        BY DEF Lists
      <4> QED BY <1>2, <4>1, <4>2, RemoveLists
    <3>2. Sound(u, {} \cup {t})
      BY RemoveSound
    <3>3. r = ScheduleInsert(v, t)
      BY <2>1 DEF ChangePriority
    <3> HIDE DEF u, r
    <3>4. v \in KernelStates /\ v.list = u.list
      BY <3>2 DEF Sound, KernelStates
    <3> HIDE DEF v
    <3> QED BY <3>1, <3>3, <3>4, InsertLists
  <2>2. CASE ks.stat[t] # "ready"
    <3>1. r = [ks EXCEPT !.prio[t] = p]
      BY <2>2 DEF ChangePriority
    <3> QED BY <1>2, <3>1 DEF KernelStates
  <2> QED BY <2>1, <2>2
<1> HIDE DEF r
<1>4. Reprio(r, ks, t, p)
  BY <1>1, <1>3 DEF Reprio
<1> QED BY <1>4 DEF r

\* Priority inheritance leaves the owner at least as urgent as the waiter.
LEMMA InheritReprio ==
  ASSUME NEW ks, Sound(ks, {}), NEW owner \in Threads, NEW t \in Threads,
         ks.stat[owner] = "ready" => owner # ks.cur
  PROVE  \E p \in Priorities :
            /\ Reprio(Inherit(ks, owner, t), ks, owner, p)
            /\ p <= ks.prio[t] /\ p <= ks.prio[owner]
            /\ p = ks.prio[t] \/ p = ks.prio[owner]
<1>1. ks.prio[t] \in Priorities /\ ks.prio[owner] \in Priorities
  BY DEF Sound, KernelStates
<1>2. ks.prio[t] \in Int /\ ks.prio[owner] \in Int
  BY <1>1 DEF Priorities
<1>3. CASE ks.prio[t] < ks.prio[owner]
  <2>1. Inherit(ks, owner, t) = ChangePriority(ks, owner, ks.prio[t])
    BY <1>3 DEF Inherit
  <2>2. Reprio(Inherit(ks, owner, t), ks, owner, ks.prio[t])
    BY <1>1, <2>1, ChangeReprio
  <2> QED BY <1>1, <1>2, <1>3, <2>2
<1>4. CASE ~ (ks.prio[t] < ks.prio[owner])
  <2>1. Inherit(ks, owner, t) = ks
    BY <1>4 DEF Inherit
  <2>2. Reprio(Inherit(ks, owner, t), ks, owner, ks.prio[owner])
    BY <2>1 DEF Reprio
  <2> QED BY <1>1, <1>2, <1>4, <2>2
<1> QED BY <1>3, <1>4

-----------------------------------------------------------------------------
(* What one step does to owners, priorities and queues.                    *)

SameOwners == \A m \in Mutexes : mx'[m].owner = mx[m].owner /\ mx'[m].orig = mx[m].orig

\* At most t leaves a queue.
Leaves(t) ==
  \A m \in Mutexes :
    k'.list[m] = k.list[m] \/ k'.list[m] = RemoveFirst(k.list[m], t)

\* m gets an owner t with original_priority p; the other mutexes keep theirs.
OwnedBy(m, t, p) ==
  /\ mx'[m].owner = t /\ mx'[m].orig = p
  /\ \A n \in Mutexes \ {m} : mx'[n].owner = mx[n].owner /\ mx'[n].orig = mx[n].orig

\* Only the priority of t changes, to p.
Moved(t, p) == \A x \in Threads : k'.prio[x] = IF x = t THEN p ELSE k.prio[x]

SameLists == \A m \in Mutexes : k'.list[m] = k.list[m]

\* rt_mutex_take queues up behind the owner.
Joins(m) ==
  /\ SameOwners /\ k.cur \in Threads /\ k.cur # mx[m].owner /\ mx[m].owner \in Threads
  /\ On(k', m) = On(k, m) \cup {k.cur}
  /\ \A n \in Mutexes \ {m} : k'.list[n] = k.list[n]
  /\ InOrder(k.list[m], k'.prio) => InOrder(k'.list[m], k'.prio)
  /\ \E p \in Priorities :
       /\ p <= k.prio[k.cur] /\ p <= k.prio[mx[m].owner]
       /\ Moved(mx[m].owner, p)

\* rt_mutex_release hands the mutex over, or frees it.
Hands(m) ==
  /\ k.list[m] # <<>> /\ mx[m].owner = k.cur /\ k.cur \in Threads
  /\ Moved(k.cur, mx[m].orig) /\ Leaves(Head(k.list[m]))
  /\ On(k', m) = On(k, m) \ {Head(k.list[m])}
  /\ OwnedBy(m, Head(k.list[m]), k'.prio[Head(k.list[m])])
Frees(m) ==
  /\ k.list[m] = <<>> /\ mx[m].owner = k.cur /\ k.cur \in Threads
  /\ Moved(k.cur, mx[m].orig) /\ SameLists
  /\ mx'[m].owner = NoThread
  /\ \A n \in Mutexes \ {m} : mx'[n].owner = mx[n].owner /\ mx'[n].orig = mx[n].orig

Effect ==
  /\ base' = base
  /\ \/ SameOwners /\ k'.prio = k.prio /\ \E t : Leaves(t)
     \/ \E m \in Mutexes : /\ mx[m].owner = NoThread /\ k.cur \in Threads
                           /\ k'.prio = k.prio /\ SameLists
                           /\ OwnedBy(m, k.cur, k.prio[k.cur])
     \/ \E m \in Mutexes : Joins(m) \/ Hands(m) \/ Frees(m)
     \/ Detachable # {}
-----------------------------------------------------------------------------
(* The invariant, for a step in which nobody joins a queue.                *)

\* Queues only shrink.
LEMMA LeavesFacts ==
  ASSUME MutexInv, k' \in KernelStates, NEW t, Leaves(t), NEW m \in Mutexes
  PROVE  /\ On(k', m) \subseteq On(k, m)
         /\ On(k, m) \subseteq Threads
         /\ k.list[m] = <<>> => k'.list[m] = <<>>
<1>1. /\ k.list[m] \in Seq(Threads) /\ IsInjective(k.list[m]) /\ k \in KernelStates
      /\ m \in Queues
  BY MutexAssumption DEF MutexInv, CoreInv, Sound, KernelStates, ListsDisjoint, Lists
<1>2. On(k', m) \subseteq On(k, m)
  <2>1. CASE k'.list[m] = k.list[m]
    BY <2>1 DEF On
  <2>2. CASE k'.list[m] = RemoveFirst(k.list[m], t)
    BY <1>1, <2>2, RemoveFirstProps DEF On
  <2> QED BY <2>1, <2>2 DEF Leaves
<1>3. On(k, m) \subseteq Threads
  BY <1>1 DEF On, ToSet
<1> QED BY <1>1, <1>2, <1>3, EmptyQueue

\* The invariant after a step in which at most t leaves a queue and only the current
\* thread moves on in its service, from the parts that the step may disturb.
LEMMA StepInv ==
  ASSUME MutexInv, CoreInv', MutexTypes', OnlyOwnerHas', WaitersHaveOwner', OwnersPriority',
         Due', DeadUnused', NEW t, Leaves(t),
         \A x \in Threads \ {k.cur} : pc'[x] = pc[x] /\ arg'[x] = arg[x],
         \A m \in Mutexes : \A x \in On(k', m) :
            /\ k'.error[x] = k.error[x] /\ mx'[m].owner # x
            /\ x = k.cur => pc'[x] \in Taking /\ arg'[x] = arg[x],
         k.cur \in Threads =>
            /\ pc'[k.cur] \in Taking \cup {"detach", "wake"} => arg'[k.cur] \in Mutexes
            /\ pc'[k.cur] = "delete" => \A m \in Mutexes : mx'[m].owner # arg'[k.cur]
  PROVE  MutexInv'
<1>1. k' \in KernelStates
  BY DEF CoreInv, Sound
<1>2. WaitersInTake'
  <2> SUFFICES ASSUME NEW m \in Mutexes, NEW x \in On(k', m)
               PROVE  /\ pc'[x] \in Taking /\ arg'[x] = m /\ k'.error[x] = "ok"
                      /\ mx'[m].owner # x
    BY DEF WaitersInTake
  <2>1. x \in On(k, m) /\ x \in Threads
    BY <1>1, LeavesFacts
  <2>2. pc[x] \in Taking /\ arg[x] = m /\ k.error[x] = "ok"
    BY <2>1 DEF MutexInv, WaitersInTake
  <2> QED BY <2>1, <2>2
<1>3. ServicesKnow'
  <2> SUFFICES ASSUME NEW x \in Threads
               PROVE  /\ pc'[x] \in Taking \cup {"detach", "wake"} => arg'[x] \in Mutexes
                      /\ pc'[x] = "delete" => \A m \in Mutexes : mx'[m].owner # arg'[x]
    BY DEF ServicesKnow
  <2>1. CASE x = k.cur
    BY <2>1
  <2>2. CASE x # k.cur
    <3>1. pc'[x] = pc[x] /\ arg'[x] = arg[x]
      BY <2>2
    <3>2. pc[x] # "delete"
      BY <2>2 DEF MutexInv, CoreInv, Held
    <3> QED BY <3>1, <3>2 DEF MutexInv, ServicesKnow
  <2> QED BY <2>1, <2>2
<1> QED BY <1>2, <1>3 DEF MutexInv

\* The same for a step that leaves the mutexes alone.
LEMMA QuietInv ==
  ASSUME MutexInv, CoreInv', UNCHANGED mutexVars, Due', k'.prio = k.prio,
         NEW t, Leaves(t),
         \A x \in Threads \ {k.cur} : pc'[x] = pc[x] /\ arg'[x] = arg[x],
         pc' \in [Threads -> MutexPCs],
         \A m \in Mutexes : \A x \in On(k', m) :
            /\ k'.error[x] = k.error[x]
            /\ x = k.cur => pc'[x] \in Taking /\ arg'[x] = arg[x],
         k.cur \in Threads =>
            /\ pc'[k.cur] \in Taking \cup {"detach", "wake"} => arg'[k.cur] \in Mutexes
            /\ pc'[k.cur] = "delete" => \A m \in Mutexes : mx[m].owner # arg'[k.cur],
         \A m \in Mutexes : \A x \in Threads :
            obj[m] = "live" => (Handed(x, m)' <=> Handed(x, m))
  PROVE  MutexInv' /\ Effect
<1>1. mx' = mx /\ obj' = obj /\ has' = has /\ base' = base
  BY DEF mutexVars
<1>2. k' \in KernelStates
  BY DEF CoreInv, Sound
<1>3. MutexTypes'
  BY <1>1 DEF MutexInv, MutexTypes
<1>4. OnlyOwnerHas'
  BY <1>1 DEF MutexInv, OnlyOwnerHas
<1>5. \A m \in Mutexes : /\ k.list[m] = <<>> => k'.list[m] = <<>>
                         /\ On(k', m) \subseteq On(k, m)
  BY <1>2, LeavesFacts
<1>6. WaitersHaveOwner' /\ DeadUnused' /\ OwnersPriority'
  BY <1>1, <1>5 DEF MutexInv, WaitersHaveOwner, DeadUnused, OwnersPriority
<1>7. \A m \in Mutexes : \A x \in On(k', m) : mx'[m].owner # x
  BY <1>1, <1>5 DEF MutexInv, WaitersInTake
<1>8. k.cur \in Threads =>
         (pc'[k.cur] = "delete" => \A m \in Mutexes : mx'[m].owner # arg'[k.cur])
  BY <1>1
<1>9. MutexInv'
  BY <1>3, <1>4, <1>6, <1>7, <1>8, StepInv
<1>10. SameOwners
  BY <1>1 DEF SameOwners
<1> QED BY <1>1, <1>9, <1>10 DEF Effect
-----------------------------------------------------------------------------
(* Steps of the thread kernel.                                             *)

\* Boot: nobody is in a service.
LEMMA BootStep ==
  ASSUME MutexInv, Boot, UNCHANGED mutexVars
  PROVE  MutexInv' /\ Effect
<1>1. /\ CoreInv' /\ pc' = pc /\ arg' = arg /\ lazy' = lazy /\ k.cur = NoThread
      /\ k'.prio = k.prio /\ \A q \in Queues : On(k', q) = On(k, q)
      /\ Settled(k')
  BY CoreBoot DEF MutexInv
<1>2. /\ \A x \in Threads : pc[x] = "run"
      /\ k \in KernelStates /\ k' \in KernelStates /\ k.cur \notin Threads
  BY <1>1, KernelAssumption DEF MutexInv, CoreInv, Sound
<1>3. \A m \in Mutexes : m \in Queues /\ On(k, m) = {}
  <2> SUFFICES ASSUME NEW m \in Mutexes, NEW x \in On(k, m) PROVE FALSE
    BY MutexAssumption
  <2>1. k.list[m] \in Seq(Threads)
    BY <1>2, MutexAssumption DEF KernelStates, Lists
  <2>2. x \in Threads
    BY <2>1 DEF On, ToSet
  <2> QED BY <1>2, <2>2 DEF MutexInv, WaitersInTake, Taking
<1>4. \A m \in Mutexes : k'.list[m] = k.list[m] /\ On(k', m) = {}
  BY <1>1, <1>2, <1>3, EmptyQueue
<1>5. PICK t : Leaves(t)
  BY <1>4 DEF Leaves
<1>6. \A m \in Mutexes : \A x \in Threads :
         obj[m] = "live" => (Handed(x, m)' <=> Handed(x, m))
  BY <1>1, <1>2 DEF Handed
<1>7. Due' /\ pc' \in [Threads -> MutexPCs]
  BY <1>1 DEF Due, MutexInv, MutexTypes
<1> QED BY <1>1, <1>2, <1>4, <1>5, <1>6, <1>7, QuietInv

\* A step that no waiter notices, with the current thread going on in its service.
LEMMA UnnoticedStep ==
  ASSUME MutexInv, CoreInv', UNCHANGED mutexVars, arg' = arg, Unnoticed(k', k), k.cur \in Threads,
         \A x \in Threads \ {k.cur} : pc'[x] = pc[x], pc' \in [Threads -> MutexPCs],
         pc'[k.cur] # "delete",
         pc'[k.cur] \in Taking <=> pc[k.cur] \in Taking,
         pc'[k.cur] \in {"detach", "wake"} => pc'[k.cur] = pc[k.cur],
         Settled(k')
  PROVE  MutexInv' /\ Effect
<1>1. /\ k'.prio = k.prio
      /\ \A m \in Mutexes : /\ k'.list[m] = k.list[m] /\ On(k', m) = On(k, m)
                            /\ \A x \in On(k', m) : k'.error[x] = k.error[x]
  BY MutexAssumption DEF Unnoticed, On
<1>2. PICK t : Leaves(t)
  BY <1>1 DEF Leaves
<1>3. \A m \in Mutexes : k.cur \in On(k', m) => pc'[k.cur] \in Taking
  BY <1>1 DEF MutexInv, WaitersInTake
<1>4. /\ pc'[k.cur] \in Taking \cup {"detach", "wake"} => arg'[k.cur] \in Mutexes
  BY DEF MutexInv, ServicesKnow
<1>5. \A m \in Mutexes : \A x \in Threads :
         obj[m] = "live" => (Handed(x, m)' <=> Handed(x, m))
  BY DEF Handed, Unnoticed, Taking
<1>6. Due'
  BY DEF Due
<1> QED BY <1>1, <1>2, <1>3, <1>4, <1>5, <1>6, QuietInv

\* The rt_schedule of any service
LEMMA ScheduleStep ==
  ASSUME MutexInv, ScheduleFrom("take", "taken") \/ Schedule, UNCHANGED mutexVars
  PROVE  MutexInv' /\ Effect
<1>1. PICK from \in {"sched", "sleep", "take"}, to \in {"run", "woken", "taken"} :
         /\ ScheduleFrom(from, to)
         /\ to \in Taking <=> from \in Taking
  BY DEF Schedule, Taking
<1>2. /\ CoreInv' /\ arg' = arg
      /\ k.cur \in Workers /\ pc[k.cur] = from /\ pc' = [pc EXCEPT ![k.cur] = to]
      /\ Unnoticed(k', k) /\ Settled(k')
  BY <1>1, CoreSchedule DEF MutexInv
<1>3. k.cur \in Threads
  BY <1>2 DEF Workers
<1>4. /\ pc'[k.cur] = to /\ \A x \in Threads \ {k.cur} : pc'[x] = pc[x]
      /\ pc' \in [Threads -> MutexPCs]
  BY <1>2, <1>3 DEF MutexInv, MutexTypes, MutexPCs
<1> QED BY <1>1, <1>2, <1>3, <1>4, UnnoticedStep

\* The end of a time slice
LEMMA SliceStep ==
  ASSUME MutexInv, DeletersMask, SliceTick, UNCHANGED mutexVars
  PROVE  MutexInv' /\ Effect
<1>1. CoreInv' /\ pc' = pc /\ arg' = arg /\ Unnoticed(k', k) /\ Settled(k')
  BY CoreSlice DEF MutexInv
<1>2. k.cur \in Threads /\ pc[k.cur] # "delete"
  BY CoreIrq DEF MutexInv, SliceTick, Held
<1>3. pc' \in [Threads -> MutexPCs]
  BY <1>1 DEF MutexInv, MutexTypes
<1> QED BY <1>1, <1>2, <1>3, UnnoticedStep

\* A step that wakes t with an error, so that it is handed nothing.
LEMMA FailedStep ==
  ASSUME MutexInv, CoreInv', UNCHANGED mutexVars, arg' = arg, k.cur \in Threads,
         NEW t \in Threads, k.stat[t] = "suspend", NEW err, err # "ok",
         NEW ks, WokenUp(ks, k, t, err), Unnoticed(k', ks), Due',
         \A x \in Threads \ {k.cur} : pc'[x] = pc[x], pc' \in [Threads -> MutexPCs],
         pc'[k.cur] # "delete",
         pc'[k.cur] \in Taking <=> pc[k.cur] \in Taking,
         pc'[k.cur] \in {"detach", "wake"} => arg[k.cur] \in Mutexes
  PROVE  MutexInv' /\ Effect
<1>1. /\ k'.prio = k.prio
      /\ \A m \in Mutexes : /\ k'.list[m] = RemoveFirst(k.list[m], t)
                            /\ On(k', m) = On(k, m) \ {t}
  BY MutexAssumption DEF WokenUp, Unnoticed, On
<1>2. \A x \in Threads : k'.error[x] = IF x = t THEN err ELSE k.error[x]
  BY DEF WokenUp, Unnoticed
<1>3. \A x \in Threads : k'.stat[x] \in {"ready", "running"}
                           <=> x = t \/ k.stat[x] \in {"ready", "running"}
  BY DEF WokenUp, Unnoticed
<1>4. Leaves(t)
  BY <1>1 DEF Leaves
<1>5. \A m \in Mutexes : \A x \in On(k', m) : k'.error[x] = k.error[x]
  <2>1. \A m \in Mutexes : On(k, m) \subseteq Threads
    BY <1>4, LeavesFacts DEF CoreInv, Sound
  <2> QED BY <1>1, <1>2, <2>1
<1>6. \A m \in Mutexes : k.cur \in On(k', m) => pc'[k.cur] \in Taking
  BY <1>1 DEF MutexInv, WaitersInTake
<1>7. /\ pc'[k.cur] \in Taking \cup {"detach", "wake"} => arg'[k.cur] \in Mutexes
  BY DEF MutexInv, ServicesKnow
<1>8. \A m \in Mutexes : \A x \in Threads :
         obj[m] = "live" => (Handed(x, m)' <=> Handed(x, m))
  BY <1>2, <1>3 DEF Handed, Taking
<1> QED BY <1>1, <1>4, <1>5, <1>6, <1>7, <1>8, QuietInv

\* The timer of a waiting, or sleeping, thread expires.
LEMMA TimeoutStep ==
  ASSUME MutexInv, DeletersMask, NEW t \in Threads, TimeoutTick(t), UNCHANGED mutexVars
  PROVE  MutexInv' /\ Effect
<1>1. PICK ks : ks = ThreadTimeout(k, t)
  OBVIOUS
<1>2. /\ CoreInv' /\ pc' = pc /\ arg' = arg /\ k.stat[t] = "suspend"
      /\ WokenUp(ks, k, t, "timeout") /\ Unnoticed(k', ks) /\ Settled(k')
  BY <1>1, CoreTimeout DEF MutexInv
<1>3. k.cur \in Threads /\ pc[k.cur] # "delete"
  BY CoreIrq DEF MutexInv, TimeoutTick, Held
<1>4. Due' /\ pc' \in [Threads -> MutexPCs]
  BY <1>2 DEF Due, MutexInv, MutexTypes
<1>5. pc'[k.cur] \in {"detach", "wake"} => arg[k.cur] \in Mutexes
  BY <1>2, <1>3 DEF MutexInv, ServicesKnow
<1> QED BY <1>2, <1>3, <1>4, <1>5, FailedStep

\* A step of the current thread outside of rt_mutex_take that wakes nobody: queues,
\* errors and the states of others stay, but for a victim of rt_thread_delete.
LEMMA AloneStep ==
  ASSUME MutexInv, CoreInv', UNCHANGED mutexVars, Due', k'.prio = k.prio,
         k.cur \in Threads, pc[k.cur] \notin Taking,
         NEW l \in {"run", "sleep", "wake", "delete"}, pc' = [pc EXCEPT ![k.cur] = l],
         \A x \in Threads \ {k.cur} : arg'[x] = arg[x],
         l = "wake" => arg'[k.cur] \in Mutexes,
         l = "delete" => \A m \in Mutexes : mx[m].owner # arg'[k.cur],
         NEW t, Leaves(t),
         \A x \in Threads \ {k.cur} :
            /\ k'.error[x] = k.error[x]
            /\ k'.stat[x] = k.stat[x] \/ \A m \in Mutexes : mx[m].owner # x
            /\ k'.stat[x] \in {"ready", "running"} => k.stat[x] \in {"ready", "running"}
  PROVE  MutexInv' /\ Effect
<1>1. /\ pc'[k.cur] = l /\ \A x \in Threads \ {k.cur} : pc'[x] = pc[x]
      /\ pc' \in [Threads -> MutexPCs]
  BY DEF MutexInv, MutexTypes, MutexPCs
<1>2. \A m \in Mutexes : On(k', m) \subseteq On(k, m) /\ On(k, m) \subseteq Threads
  BY LeavesFacts DEF CoreInv, Sound
<1>3. \A m \in Mutexes : k.cur \notin On(k', m)
  BY <1>2 DEF MutexInv, WaitersInTake
<1>4. \A m \in Mutexes : \A x \in On(k', m) : k'.error[x] = k.error[x]
  BY <1>2, <1>3
<1>5. \A m \in Mutexes : \A x \in Threads :
         obj[m] = "live" => (Handed(x, m)' <=> Handed(x, m))
  <2> SUFFICES ASSUME NEW m \in Mutexes, NEW x \in Threads, obj[m] = "live"
               PROVE  Handed(x, m)' <=> Handed(x, m)
    OBVIOUS
  <2>1. CASE x = k.cur
    BY <1>1, <2>1 DEF Handed, Taking
  <2>2. CASE x # k.cur /\ k'.stat[x] = k.stat[x]
    BY <1>1, <2>2 DEF Handed
  <2>3. CASE x # k.cur /\ mx[m].owner # x
    <3>1. has[x][m] \in Nat
      BY DEF MutexInv, MutexTypes
    <3>2. ~Handed(x, m)
      BY <2>3, <3>1 DEF MutexInv, OnlyOwnerHas
    <3> QED BY <1>1, <2>3, <3>2 DEF Handed
  <2> QED BY <2>1, <2>2, <2>3
<1>6. pc'[k.cur] \in Taking \cup {"detach", "wake"} => arg'[k.cur] \in Mutexes
  BY <1>1 DEF Taking
<1> QED BY <1>1, <1>3, <1>4, <1>5, <1>6, QuietInv

\* rt_thread_sleep
LEMMA SleepStep ==
  ASSUME MutexInv, Sleep, UNCHANGED mutexVars
  PROVE  MutexInv' /\ Effect
<1>1. /\ CoreInv' /\ arg' = arg
      /\ k.cur \in Workers /\ pc[k.cur] = "run" /\ pc' = [pc EXCEPT ![k.cur] = "sleep"]
      /\ k'.prio = k.prio /\ k'.cur = k.cur /\ k'.stat[k.cur] = "suspend"
      /\ \A x \in Threads \ {k.cur} : k'.stat[x] = k.stat[x] /\ k'.error[x] = k.error[x]
      /\ \A q \in Queues : k'.list[q] = k.list[q]
  BY CoreSleep DEF MutexInv
<1>2. k.cur \in Threads /\ pc[k.cur] \notin Taking /\ Due'
  BY <1>1 DEF Workers, Due, Taking
<1>3. PICK t : Leaves(t)
  BY <1>1, MutexAssumption DEF Leaves
<1> QED BY <1>1, <1>2, <1>3, AloneStep

\* The end of rt_thread_sleep
LEMMA WokenStep ==
  ASSUME MutexInv, Woken, UNCHANGED mutexVars
  PROVE  MutexInv' /\ Effect
<1>1. /\ CoreInv' /\ arg' = arg /\ lazy' = lazy
      /\ k.cur \in Workers /\ pc[k.cur] = "woken" /\ pc' = [pc EXCEPT ![k.cur] = "run"]
      /\ k'.prio = k.prio /\ k'.stat = k.stat /\ k'.list = k.list /\ k'.cur = k.cur
      /\ \A x \in Threads \ {k.cur} : k'.error[x] = k.error[x]
  BY CoreWoken DEF MutexInv
<1>2. k.cur \in Threads /\ pc[k.cur] \notin Taking /\ k.cur # NoThread
  BY <1>1, KernelAssumption DEF Workers, Taking
<1>3. Due'
  BY <1>1, <1>2 DEF MutexInv, Due, Settled
<1>4. PICK t : Leaves(t)
  BY <1>1 DEF Leaves
<1> QED BY <1>1, <1>2, <1>3, <1>4, AloneStep

\* rt_thread_delete of a thread that may be waiting
LEMMA DeleteStep ==
  ASSUME MutexInv, NEW t \in Workers, DeleteThread(t)
  PROVE  MutexInv' /\ Effect
<1>1. /\ CoreInv' /\ lazy' = lazy
      /\ k.cur \in Workers /\ pc[k.cur] = "run" /\ t # k.cur
      /\ pc' = [pc EXCEPT ![k.cur] = "delete"] /\ arg' = [arg EXCEPT ![k.cur] = t]
      /\ k'.stat = k.stat /\ k'.error = k.error /\ k'.prio = k.prio /\ k'.cur = k.cur
      /\ \A q \in Queues : k'.list[q] = RemoveFirst(k.list[q], t)
      /\ UNCHANGED mutexVars /\ \A m \in Mutexes : mx[m].owner # t
  BY CoreDelete DEF DeleteThread, MutexInv
<1>2. k.cur \in Threads /\ pc[k.cur] \notin Taking
  BY <1>1 DEF Workers, Taking
<1>3. Due'
  BY <1>1 DEF MutexInv, Due, Settled
<1>4. Leaves(t)
  BY <1>1, MutexAssumption DEF Leaves
<1>5. arg'[k.cur] = t /\ \A x \in Threads \ {k.cur} : arg'[x] = arg[x]
  BY <1>1, <1>2 DEF MutexInv, CoreInv
<1> QED BY <1>1, <1>2, <1>3, <1>4, <1>5, AloneStep

\* The rest of rt_thread_delete
LEMMA DeleteEndStep ==
  ASSUME MutexInv, DeleteEnd, UNCHANGED mutexVars
  PROVE  MutexInv' /\ Effect
<1>1. PICK t : t = arg[k.cur]
  OBVIOUS
<1>2. /\ CoreInv' /\ lazy' = lazy
      /\ k.cur \in Workers /\ pc[k.cur] = "delete" /\ k.stat[k.cur] = "running"
      /\ t \in Workers /\ t # k.cur
      /\ pc' = [pc EXCEPT ![k.cur] = "run"] /\ arg' = [arg EXCEPT ![k.cur] = NoThread]
      /\ k'.error = k.error /\ k'.prio = k.prio /\ k'.cur = k.cur
      /\ \A x \in Threads : k'.stat[x] = IF x = t THEN "close" ELSE k.stat[x]
      /\ \A q \in Queues : k'.list[q] = k.list[q]
  BY <1>1, CoreDeleteEnd DEF MutexInv
<1>3. k.cur \in Threads /\ pc[k.cur] \notin Taking /\ k.cur # NoThread /\ t \in Threads
  BY <1>2, KernelAssumption DEF Workers, Taking
<1>4. Due'
  <2>1. Settled(k) \/ lazy
    BY <1>2, <1>3 DEF MutexInv, Due
  <2> QED BY <1>2, <1>3, <2>1 DEF Due, Settled
<1>5. Leaves(t)
  BY <1>2, MutexAssumption DEF Leaves
<1>6. \A m \in Mutexes : mx[m].owner # t
  BY <1>1, <1>2, <1>3 DEF MutexInv, ServicesKnow
<1>7. \A x \in Threads \ {k.cur} : arg'[x] = arg[x]
  BY <1>2, <1>3 DEF MutexInv, CoreInv
<1>8. \A x \in Threads \ {k.cur} :
            /\ k'.error[x] = k.error[x]
            /\ k'.stat[x] = k.stat[x] \/ \A m \in Mutexes : mx[m].owner # x
            /\ k'.stat[x] \in {"ready", "running"} => k.stat[x] \in {"ready", "running"}
  BY <1>2, <1>6
<1> QED BY <1>2, <1>3, <1>4, <1>5, <1>7, <1>8, AloneStep

-----------------------------------------------------------------------------
(* rt_mutex_detach, rt_mutex_delete.                                       *)

\* The loop of _ipc_list_resume_all finds the list not empty.
LEMMA DetachTestStep ==
  ASSUME MutexInv, DetachTest
  PROVE  MutexInv' /\ Effect
<1>1. /\ k.cur # NoThread /\ pc[k.cur] = "detach"
      /\ k' = k /\ arg' = arg /\ lazy' = lazy /\ pc' = [pc EXCEPT ![k.cur] = "wake"]
      /\ UNCHANGED mutexVars
  BY DEF DetachTest, At, Running, Self, Goto
<1>2. /\ k.cur \in Workers /\ k.cur \in Threads /\ k.stat[k.cur] = "running" /\ Sound(k, {})
  BY <1>1, CoreFacts DEF MutexInv
<1>3. /\ pc'[k.cur] = "wake" /\ \A x \in Threads \ {k.cur} : pc'[x] = pc[x]
      /\ pc' \in [Threads -> ServicePCs]
  BY <1>1, <1>2 DEF MutexInv, CoreInv, ServicePCs
<1>4. arg' \in [Threads -> ServiceArgs] /\ lazy' \in BOOLEAN
  BY <1>1 DEF MutexInv, CoreInv
<1>5. CoreInv'
  BY <1>1, <1>2, <1>3, <1>4, CoreStay DEF MutexInv
<1>6. Due' /\ pc[k.cur] \notin Taking /\ arg'[k.cur] \in Mutexes
  BY <1>1, <1>2 DEF MutexInv, Due, Taking, ServicesKnow
<1>7. PICK t : Leaves(t)
  BY <1>1 DEF Leaves
<1> QED BY <1>1, <1>2, <1>5, <1>6, <1>7, AloneStep

\* It wakes the first waiter, if one is still there.
LEMMA DetachWakeStep ==
  ASSUME MutexInv, DetachWake
  PROVE  MutexInv' /\ Effect
<1>1. /\ k.cur # NoThread /\ pc[k.cur] = "wake" /\ k' = ListResumeFailed(k, arg[k.cur])
      /\ k.list[arg[k.cur]] # <<>> /\ lazy' = TRUE /\ arg' = arg /\ pc' = [pc EXCEPT ![k.cur] = "detach"]
      /\ UNCHANGED mutexVars
  BY DEF DetachWake, At, Running, Self, Goto
<1>2. /\ k.cur \in Workers /\ k.cur \in Threads /\ k.stat[k.cur] = "running" /\ Sound(k, {})
  BY <1>1, CoreFacts DEF MutexInv
<1>3. PICK m \in Mutexes : m = arg[k.cur] /\ m \in Queues
  BY <1>1, <1>2, MutexAssumption DEF MutexInv, ServicesKnow
<1>4. k.list[m] # <<>> /\ k' = ListResumeFailed(k, m)
  BY <1>1, <1>3
<1>5. PICK h : h = Head(k.list[m])
  OBVIOUS
<1>6. h \in Threads /\ k.stat[h] = "suspend"
  BY <1>2, <1>3, <1>4, <1>5, FirstWaiter
<1>7. WokenUp(k', k, h, "error")
  BY <1>2, <1>3, <1>4, <1>5, ListResumeFailedWakes
<1>8. /\ pc'[k.cur] = "detach" /\ \A x \in Threads \ {k.cur} : pc'[x] = pc[x]
      /\ pc' \in [Threads -> ServicePCs] /\ pc' \in [Threads -> MutexPCs]
  BY <1>1, <1>2 DEF MutexInv, CoreInv, ServicePCs, MutexTypes, MutexPCs
<1>9. arg' \in [Threads -> ServiceArgs] /\ lazy' \in BOOLEAN
  BY <1>1 DEF MutexInv, CoreInv
<1>10. CoreInv'
  BY <1>2, <1>6, <1>7, <1>8, <1>9, CoreWake DEF MutexInv
<1>11. Due' /\ (pc'[k.cur] \in Taking <=> pc[k.cur] \in Taking)
  BY <1>1, <1>8 DEF Due, Taking
<1> QED BY <1>1, <1>2, <1>3, <1>6, <1>7, <1>8, <1>10, <1>11, UnnoticedSame, FailedStep
-----------------------------------------------------------------------------
(* Steps of the running thread that move no other thread.                  *)

MxRecords == [owner : Threads \cup {NoThread}, hold : 0 .. MUTEX_HOLD_MAX,
              value : {0, 1}, orig : 0 .. PRIORITY_MAX]

\* The book-keeping of a successful take or release
LEMMA CountFacts ==
  ASSUME has \in [Threads -> [Mutexes -> Nat]], NEW t \in Threads, NEW m \in Mutexes,
         NEW d \in Int, has[t][m] + d \in Nat, Count(t, m, d)
  PROVE  /\ has' \in [Threads -> [Mutexes -> Nat]]
         /\ \A x \in Threads, n \in Mutexes :
              has'[x][n] = IF x = t /\ n = m THEN has[t][m] + d ELSE has[x][n]
<1>1. has' = [has EXCEPT ![t] = [has[t] EXCEPT ![m] = has[t][m] + d]]
  BY DEF Count
<1>2. [has[t] EXCEPT ![m] = has[t][m] + d] \in [Mutexes -> Nat]
  OBVIOUS
<1> QED BY <1>1, <1>2

\* An assignment to the fields of one mutex
LEMMA MxFacts ==
  ASSUME mx \in [Mutexes -> MxRecords], NEW m \in Mutexes, NEW r \in MxRecords,
         mx' = [mx EXCEPT ![m] = r]
  PROVE  /\ mx' \in [Mutexes -> MxRecords]
         /\ \A n \in Mutexes : mx'[n] = IF n = m THEN r ELSE mx[n]
OBVIOUS

\* The fields of a mutex with a new owner
LEMMA OwnedFacts ==
  ASSUME NEW m, mx[m] \in MxRecords, NEW t \in Threads, NEW n \in 1 .. MUTEX_HOLD_MAX,
         NEW p \in 0 .. PRIORITY_MAX
  PROVE  /\ Owned(m, t, n, p) \in MxRecords
         /\ Owned(m, t, n, p).owner = t /\ Owned(m, t, n, p).orig = p
         /\ Owned(m, t, n, p).value = 0 /\ Owned(m, t, n, p).hold = n
<1> DEFINE a == [mx[m] EXCEPT !.owner = t]
           b == [a EXCEPT !.hold = n]
           c == [b EXCEPT !.value = 0]
           d == [c EXCEPT !.orig = p]
<1>1. n \in 0 .. MUTEX_HOLD_MAX
  BY MutexAssumption
<1>2. a \in MxRecords /\ a.owner = t
  BY DEF MxRecords
<1> HIDE DEF a
<1>3. b \in MxRecords /\ b.owner = t /\ b.hold = n
  BY <1>1, <1>2 DEF MxRecords
<1> HIDE DEF b
<1>4. c \in MxRecords /\ c.owner = t /\ c.hold = n /\ c.value = 0
  BY <1>3 DEF MxRecords
<1> HIDE DEF c
<1>5. d \in MxRecords /\ d.owner = t /\ d.hold = n /\ d.value = 0 /\ d.orig = p
  BY <1>4 DEF MxRecords
<1>6. d = Owned(m, t, n, p)
  BY DEF a, b, c, Owned
<1> HIDE DEF d
<1> QED BY <1>5, <1>6

\* What the owner's books say of a thread that is outside of rt_mutex_take.
LEMMA BooksOutside ==
  ASSUME MutexInv, NEW m \in Mutexes, obj[m] = "live", NEW c \in Threads, pc[c] \notin Taking
  PROVE  /\ has[c][m] = IF mx[m].owner = c THEN mx[m].hold ELSE 0
         /\ mx[m] \in MxRecords /\ has[c][m] \in Nat
<1>1. mx[m] \in MxRecords /\ has[c][m] \in Nat
  BY DEF MutexInv, MutexTypes, MxRecords
<1>2. ~Handed(c, m)
  BY DEF Handed, Taking
<1>3. has[c][m] + 0 = IF mx[m].owner = c THEN mx[m].hold ELSE 0
  BY <1>2 DEF MutexInv, OnlyOwnerHas
<1> QED BY <1>1, <1>3

\* The invariant after a step of the running thread, outside of rt_mutex_take when it
\* ends, that changes no state, priority or queue.
LEMMA OwnStep ==
  ASSUME MutexInv, k.cur \in Workers, k.stat[k.cur] = "running", Sound(k', {}),
         k'.stat = k.stat, k'.prio = k.prio, k'.list = k.list, k'.cur = k.cur,
         k'.lock = k.lock, \A x \in Threads \ {k.cur} : k'.error[x] = k.error[x],
         NEW l \in {"run", "detach"}, pc' = [pc EXCEPT ![k.cur] = l], pc[k.cur] # "sched",
         arg' \in [Threads -> ServiceArgs], \A x \in Threads \ {k.cur} : arg'[x] = arg[x],
         l = "detach" => arg'[k.cur] \in Mutexes, lazy' = lazy,
         mx' \in [Mutexes -> MxRecords],
         obj' \in [Mutexes -> {"live", "dying", "dead"}],
         has' \in [Threads -> [Mutexes -> Nat]], base' = base,
         WaitersHaveOwner', OwnersPriority', DeadUnused',
         \A m \in Mutexes : \A x \in On(k, m) : mx'[m].owner # x,
         \A m \in Mutexes : obj'[m] = "live" =>
           /\ has'[k.cur][m] = IF mx'[m].owner = k.cur THEN mx'[m].hold ELSE 0
           /\ \A x \in Threads \ {k.cur} :
                has'[x][m] + (IF Handed(x, m) THEN 1 ELSE 0)
                  = IF mx'[m].owner = x THEN mx'[m].hold ELSE 0
  PROVE  MutexInv'
<1>1. k.cur \in Threads /\ k.cur # NoThread
  BY KernelAssumption DEF Workers
<1>2. /\ pc'[k.cur] = l /\ \A x \in Threads \ {k.cur} : pc'[x] = pc[x]
      /\ pc' \in [Threads -> ServicePCs] /\ pc' \in [Threads -> MutexPCs]
  BY <1>1 DEF MutexInv, CoreInv, ServicePCs, MutexTypes, MutexPCs
<1>3. CoreInv'
  BY <1>2, CoreAdjust DEF MutexInv, CoreInv
<1>4. MutexTypes'
  BY <1>2 DEF MutexInv, MutexTypes, MxRecords
<1>5. \A m \in Mutexes : /\ ~Handed(k.cur, m)'
                         /\ \A x \in Threads \ {k.cur} : Handed(x, m)' <=> Handed(x, m)
  BY <1>2 DEF Handed
<1>6. OnlyOwnerHas'
  <2> SUFFICES ASSUME NEW m \in Mutexes, obj'[m] = "live", NEW x \in Threads
               PROVE  has'[x][m] + (IF Handed(x, m)' THEN 1 ELSE 0)
                        = IF mx'[m].owner = x THEN mx'[m].hold ELSE 0
    BY DEF OnlyOwnerHas
  <2>1. has'[x][m] + 0 = has'[x][m]
    OBVIOUS
  <2> QED BY <1>1, <1>5, <2>1
<1>7. Due'
  BY <1>1 DEF MutexInv, Due, Settled
<1>8. PICK t : Leaves(t)
  BY DEF Leaves
<1>9. \A m \in Mutexes : On(k', m) = On(k, m) /\ On(k, m) \subseteq Threads /\ k.cur \notin On(k, m)
  <2> SUFFICES ASSUME NEW m \in Mutexes
               PROVE  On(k', m) = On(k, m) /\ On(k, m) \subseteq Threads /\ k.cur \notin On(k, m)
    OBVIOUS
  <2>1. On(k, m) \subseteq Threads
    BY <1>3, <1>8, LeavesFacts DEF CoreInv, Sound
  <2>2. \A x \in On(k, m) : k.stat[x] = "suspend"
    BY MutexAssumption DEF MutexInv, CoreInv, Sound, WaitersSuspended
  <2> QED BY <2>1, <2>2 DEF On
<1>10. pc'[k.cur] \in Taking \cup {"detach", "wake"} => arg'[k.cur] \in Mutexes
  BY <1>2 DEF Taking
<1> QED BY <1>2, <1>3, <1>4, <1>6, <1>7, <1>8, <1>9, <1>10, StepInv

\* Setting thread->error of the caller
LEMMA ErrorSet ==
  ASSUME MutexInv, Sound(k, {}), k.cur \in Threads, NEW err \in Errors,
         k' = [k EXCEPT !.error[k.cur] = err]
  PROVE  /\ Sound(k', {}) /\ k'.stat = k.stat /\ k'.prio = k.prio /\ k'.list = k.list
         /\ k'.cur = k.cur /\ k'.lock = k.lock
         /\ \A x \in Threads \ {k.cur} : k'.error[x] = k.error[x]
<1>1. /\ k' \in KernelStates /\ k'.stat = k.stat /\ k'.prio = k.prio /\ k'.list = k.list
      /\ k'.cur = k.cur /\ k'.lock = k.lock /\ k'.timer = k.timer /\ k'.group = k.group
      /\ \A x \in Threads \ {k.cur} : k'.error[x] = k.error[x]
  BY DEF Sound, KernelStates
<1> QED BY <1>1, SoundSame

\* A call by an application thread: what OwnStep needs of it.
LEMMA AppCall ==
  ASSUME MutexInv, InApp
  PROVE  /\ k.cur \in Workers /\ k.cur \in Threads /\ k.cur # NoThread /\ pc[k.cur] = "run"
         /\ k.stat[k.cur] = "running" /\ Sound(k, {})
         /\ pc = [pc EXCEPT ![k.cur] = "run"]
         /\ pc[k.cur] \notin Taking /\ pc[k.cur] # "sched" /\ arg \in [Threads -> ServiceArgs]
<1>1. /\ k.cur \in Workers /\ k.cur \in Threads /\ pc[k.cur] = "run"
      /\ k.stat[k.cur] = "running" /\ Sound(k, {})
  BY CoreInApp DEF MutexInv
<1>2. pc \in [Threads -> ServicePCs] /\ arg \in [Threads -> ServiceArgs]
  BY DEF MutexInv, CoreInv
<1> QED BY <1>1, <1>2, KernelAssumption DEF Taking

\* A failed call that only sets thread->error
LEMMA ErrorOnlyStep ==
  ASSUME MutexInv, InApp, NEW err \in Errors, k' = [k EXCEPT !.error[k.cur] = err],
         pc' = pc, arg' = arg, lazy' = lazy, UNCHANGED mutexVars
  PROVE  MutexInv' /\ Effect
<1>1. /\ k.cur \in Workers /\ k.cur \in Threads /\ k.cur # NoThread /\ pc[k.cur] = "run"
      /\ k.stat[k.cur] = "running" /\ Sound(k, {})
      /\ pc' = [pc EXCEPT ![k.cur] = "run"]
      /\ pc[k.cur] \notin Taking /\ pc[k.cur] # "sched" /\ arg' \in [Threads -> ServiceArgs]
  BY AppCall
<1>2. /\ Sound(k', {}) /\ k'.stat = k.stat /\ k'.prio = k.prio /\ k'.list = k.list
      /\ k'.cur = k.cur /\ k'.lock = k.lock
      /\ \A x \in Threads \ {k.cur} : k'.error[x] = k.error[x]
  BY <1>1, ErrorSet
<1>3. /\ mx' = mx /\ obj' = obj /\ has' = has /\ base' = base
      /\ mx' \in [Mutexes -> MxRecords] /\ obj' \in [Mutexes -> {"live", "dying", "dead"}]
      /\ has' \in [Threads -> [Mutexes -> Nat]]
  BY DEF mutexVars, MutexInv, MutexTypes, MxRecords
<1>4. WaitersHaveOwner' /\ OwnersPriority' /\ DeadUnused'
  BY <1>2, <1>3 DEF MutexInv, WaitersHaveOwner, OwnersPriority, DeadUnused
<1>5. \A m \in Mutexes : \A x \in On(k, m) : mx'[m].owner # x
  BY <1>3 DEF MutexInv, WaitersInTake
<1>6. \A m \in Mutexes : obj'[m] = "live" =>
           /\ has'[k.cur][m] = IF mx'[m].owner = k.cur THEN mx'[m].hold ELSE 0
           /\ \A x \in Threads \ {k.cur} :
                has'[x][m] + (IF Handed(x, m) THEN 1 ELSE 0)
                  = IF mx'[m].owner = x THEN mx'[m].hold ELSE 0
  BY <1>1, <1>3, BooksOutside DEF MutexInv, OnlyOwnerHas
<1>7. MutexInv'
  BY <1>1, <1>2, <1>3, <1>4, <1>5, <1>6, OwnStep
<1>8. SameOwners /\ \E t : Leaves(t)
  BY <1>2, <1>3 DEF SameOwners, Leaves
<1> QED BY <1>2, <1>3, <1>7, <1>8 DEF Effect

\* rt_mutex_take with RT_WAITING_NO, and rt_mutex_release by another than the owner
LEMMA RefusedStep ==
  ASSUME MutexInv, NEW m \in Mutexes, TakeBusy(m) \/ ReleaseNotOwner(m)
  PROVE  MutexInv' /\ Effect
<1>1. PICK err \in Errors : k' = [k EXCEPT !.error[k.cur] = err]
  BY DEF TakeBusy, ReleaseNotOwner, Self, Errors
<1>2. InApp /\ pc' = pc /\ arg' = arg /\ lazy' = lazy /\ UNCHANGED mutexVars
  BY DEF TakeBusy, ReleaseNotOwner, MayBlock
<1> QED BY <1>1, <1>2, ErrorOnlyStep

\* A step of the running thread that changes hold counts but no owner.
LEMMA HoldStep ==
  ASSUME MutexInv, InApp, NEW m \in Mutexes, obj[m] = "live", mx[m].owner = k.cur,
         Sound(k', {}), k'.stat = k.stat, k'.prio = k.prio, k'.list = k.list, k'.cur = k.cur,
         k'.lock = k.lock, \A x \in Threads \ {k.cur} : k'.error[x] = k.error[x],
         pc' = pc, arg' = arg, lazy' = lazy, obj' = obj, base' = base,
         NEW d \in {-1, 1}, mx[m].hold + d \in 1 .. MUTEX_HOLD_MAX,
         mx' = [mx EXCEPT ![m].hold = @ + d], Count(k.cur, m, d)
  PROVE  MutexInv' /\ Effect
<1>1. /\ k.cur \in Workers /\ k.cur \in Threads /\ k.cur # NoThread /\ pc[k.cur] = "run"
      /\ k.stat[k.cur] = "running" /\ Sound(k, {})
      /\ pc' = [pc EXCEPT ![k.cur] = "run"]
      /\ pc[k.cur] \notin Taking /\ pc[k.cur] # "sched" /\ arg' \in [Threads -> ServiceArgs]
  BY AppCall
<1>2. /\ mx \in [Mutexes -> MxRecords] /\ obj' \in [Mutexes -> {"live", "dying", "dead"}]
      /\ has \in [Threads -> [Mutexes -> Nat]]
  BY DEF MutexInv, MutexTypes, MxRecords
<1>3. has[k.cur][m] = mx[m].hold /\ mx[m] \in MxRecords /\ mx[m].hold \in Nat
  BY <1>1, <1>2, BooksOutside DEF MxRecords
<1> DEFINE r == [mx[m] EXCEPT !.hold = mx[m].hold + d]
<1>4. /\ r \in MxRecords /\ r.owner = mx[m].owner /\ r.orig = mx[m].orig
      /\ r.value = mx[m].value /\ r.hold = mx[m].hold + d /\ r.hold # 0
  BY <1>3 DEF MxRecords
<1>5. mx' = [mx EXCEPT ![m] = r]
  OBVIOUS
<1> HIDE DEF r
<1>6. mx' \in [Mutexes -> MxRecords] /\ \A n \in Mutexes : mx'[n] = IF n = m THEN r ELSE mx[n]
  BY <1>2, <1>4, <1>5, MxFacts
<1>7. /\ has' \in [Threads -> [Mutexes -> Nat]]
      /\ \A x \in Threads, n \in Mutexes :
           has'[x][n] = IF x = k.cur /\ n = m THEN has[k.cur][m] + d ELSE has[x][n]
  <2>1. has[k.cur][m] + d \in Nat /\ d \in Int
    BY <1>3
  <2> QED BY <1>1, <1>2, <2>1, CountFacts
<1>8. SameOwners /\ \E t : Leaves(t)
  BY <1>4, <1>6 DEF SameOwners, Leaves
<1>9. WaitersHaveOwner' /\ OwnersPriority' /\ DeadUnused'
  <2>1. \A n \in Mutexes : mx'[n].value = mx[n].value /\ (mx'[n].hold = 0 <=> mx[n].hold = 0)
    <3>1. mx[m].hold # 0
      BY <1>1 DEF MutexInv, WaitersHaveOwner
    <3> QED BY <1>4, <1>6, <3>1
  <2> QED BY <1>8, <2>1 DEF MutexInv, WaitersHaveOwner, OwnersPriority, DeadUnused, SameOwners
<1>10. \A n \in Mutexes : \A x \in On(k, n) : mx'[n].owner # x
  BY <1>8 DEF MutexInv, WaitersInTake, SameOwners
<1>11. \A n \in Mutexes : obj'[n] = "live" =>
           /\ has'[k.cur][n] = IF mx'[n].owner = k.cur THEN mx'[n].hold ELSE 0
           /\ \A x \in Threads \ {k.cur} :
                has'[x][n] + (IF Handed(x, n) THEN 1 ELSE 0)
                  = IF mx'[n].owner = x THEN mx'[n].hold ELSE 0
  <2> SUFFICES ASSUME NEW n \in Mutexes, obj[n] = "live"
               PROVE  /\ has'[k.cur][n] = IF mx'[n].owner = k.cur THEN mx'[n].hold ELSE 0
                      /\ \A x \in Threads \ {k.cur} :
                           has'[x][n] + (IF Handed(x, n) THEN 1 ELSE 0)
                             = IF mx'[n].owner = x THEN mx'[n].hold ELSE 0
    OBVIOUS
  <2>1. has[k.cur][n] = IF mx[n].owner = k.cur THEN mx[n].hold ELSE 0
    BY <1>1, BooksOutside
  <2>2. \A x \in Threads \ {k.cur} :
                has[x][n] + (IF Handed(x, n) THEN 1 ELSE 0)
                  = IF mx[n].owner = x THEN mx[n].hold ELSE 0
    BY DEF MutexInv, OnlyOwnerHas
  <2>3. CASE n = m
    BY <1>1, <1>3, <1>4, <1>6, <1>7, <2>2, <2>3
  <2>4. CASE n # m
    BY <1>1, <1>6, <1>7, <2>1, <2>2, <2>4
  <2> QED BY <2>3, <2>4
<1>12. MutexInv'
  BY <1>1, <1>2, <1>6, <1>7, <1>9, <1>10, <1>11, OwnStep
<1> QED BY <1>8, <1>12 DEF Effect

\* The owner takes the mutex once more.
LEMMA TakeAgainStep ==
  ASSUME MutexInv, NEW m \in Mutexes, TakeAgain(m)
  PROVE  MutexInv' /\ Effect
<1>1. /\ InApp /\ obj[m] = "live" /\ mx[m].owner = k.cur
      /\ k' = [k EXCEPT !.error[k.cur] = "ok"]
      /\ pc' = pc /\ arg' = arg /\ lazy' = lazy /\ obj' = obj /\ base' = base
  BY DEF TakeAgain, MayBlock, Usable, Self, ClearError
<1>2. k.cur \in Threads /\ Sound(k, {})
  BY <1>1, AppCall
<1>3. PICK err \in Errors : err = "ok"
  BY DEF Errors
<1>4. CASE mx[m].hold < MUTEX_HOLD_MAX
  <2>1. /\ Sound(k', {}) /\ k'.stat = k.stat /\ k'.prio = k.prio /\ k'.list = k.list
        /\ k'.cur = k.cur /\ k'.lock = k.lock
        /\ \A x \in Threads \ {k.cur} : k'.error[x] = k.error[x]
    BY <1>1, <1>2, <1>3, ErrorSet
  <2>2. mx' = [mx EXCEPT ![m].hold = @ + 1] /\ Count(k.cur, m, 1)
    BY <1>4 DEF TakeAgain, Self
  <2>3. mx[m].hold + 1 \in 1 .. MUTEX_HOLD_MAX
    BY <1>4, MutexAssumption DEF MutexInv, MutexTypes
  <2> QED BY <1>1, <2>1, <2>2, <2>3, HoldStep
<1>5. CASE ~ (mx[m].hold < MUTEX_HOLD_MAX)
  <2>1. UNCHANGED mutexVars
    BY <1>1, <1>5 DEF TakeAgain, mutexVars
  <2> QED BY <1>1, <1>3, <2>1, ErrorOnlyStep
<1> QED BY <1>4, <1>5

\* A release that is not the outermost
LEMMA ReleaseNestedStep ==
  ASSUME MutexInv, NEW m \in Mutexes, ReleaseNested(m)
  PROVE  MutexInv' /\ Effect
<1>1. /\ InApp /\ obj[m] = "live" /\ mx[m].owner = k.cur /\ k' = k
      /\ pc' = pc /\ arg' = arg /\ lazy' = lazy /\ obj' = obj /\ base' = base
      /\ mx' = [mx EXCEPT ![m].hold = @ - 1] /\ Count(k.cur, m, -1) /\ mx[m].hold > 1
  BY DEF ReleaseNested, Usable, Self
<1>2. mx[m].hold + (-1) \in 1 .. MUTEX_HOLD_MAX
  BY <1>1, MutexAssumption DEF MutexInv, MutexTypes
<1>3. mx' = [mx EXCEPT ![m].hold = @ + (-1)]
  <2>1. mx[m].hold - 1 = mx[m].hold + (-1)
    BY MutexAssumption DEF MutexInv, MutexTypes
  <2> QED BY <1>1, <2>1
<1>4. Sound(k', {})
  BY <1>1, AppCall
<1> QED BY <1>1, <1>2, <1>3, <1>4, HoldStep
\* rt_mutex_take of a free mutex
LEMMA TakeFreeStep ==
  ASSUME MutexInv, NEW m \in Mutexes, TakeFree(m)
  PROVE  MutexInv' /\ Effect
<1>1. /\ InApp /\ obj[m] = "live" /\ mx[m].owner # k.cur /\ mx[m].value > 0
      /\ k' = [k EXCEPT !.error[k.cur] = "ok"]
      /\ pc' = pc /\ arg' = arg /\ lazy' = lazy /\ obj' = obj /\ base' = base
      /\ mx' = [mx EXCEPT ![m] = Owned(m, k.cur, mx[m].hold + 1, k.prio[k.cur])]
      /\ Count(k.cur, m, 1)
  BY DEF TakeFree, MayBlock, Usable, Self, ClearError
<1>2. /\ k.cur \in Workers /\ k.cur \in Threads /\ k.cur # NoThread /\ pc[k.cur] = "run"
      /\ k.stat[k.cur] = "running" /\ Sound(k, {})
      /\ pc' = [pc EXCEPT ![k.cur] = "run"]
      /\ pc[k.cur] \notin Taking /\ pc[k.cur] # "sched" /\ arg' \in [Threads -> ServiceArgs]
  BY <1>1, AppCall
<1>3. PICK err \in Errors : err = "ok"
  BY DEF Errors
<1>4. /\ Sound(k', {}) /\ k'.stat = k.stat /\ k'.prio = k.prio /\ k'.list = k.list
      /\ k'.cur = k.cur /\ k'.lock = k.lock
      /\ \A x \in Threads \ {k.cur} : k'.error[x] = k.error[x]
  BY <1>1, <1>2, <1>3, ErrorSet
<1>5. /\ mx \in [Mutexes -> MxRecords] /\ obj' \in [Mutexes -> {"live", "dying", "dead"}]
      /\ has \in [Threads -> [Mutexes -> Nat]]
  BY <1>1 DEF MutexInv, MutexTypes, MxRecords
<1>6. has[k.cur][m] = 0 /\ mx[m] \in MxRecords
  BY <1>1, <1>2, BooksOutside
<1>7. mx[m].owner = NoThread /\ mx[m].hold = 0 /\ k.list[m] = <<>>
  <2>1. mx[m].value = 1
    BY <1>1, <1>6 DEF MxRecords
  <2> QED BY <2>1 DEF MutexInv, WaitersHaveOwner
<1>8. k.prio[k.cur] \in Priorities /\ k.prio[k.cur] \in 0 .. PRIORITY_MAX
  BY <1>2, KernelAssumption DEF Sound, KernelStates, Priorities
<1> DEFINE r == Owned(m, k.cur, mx[m].hold + 1, k.prio[k.cur])
<1>9. /\ r \in MxRecords /\ r.owner = k.cur /\ r.orig = k.prio[k.cur]
      /\ r.value = 0 /\ r.hold = 1
  <2>1. mx[m].hold + 1 = 1 /\ 1 \in 1 .. MUTEX_HOLD_MAX
    BY <1>7, MutexAssumption
  <2> QED BY <1>2, <1>6, <1>8, <2>1, OwnedFacts
<1>10. mx' = [mx EXCEPT ![m] = r]
  BY <1>1
<1> HIDE DEF r
<1>11. mx' \in [Mutexes -> MxRecords] /\ \A n \in Mutexes : mx'[n] = IF n = m THEN r ELSE mx[n]
  BY <1>5, <1>9, <1>10, MxFacts
<1>12. /\ has' \in [Threads -> [Mutexes -> Nat]]
       /\ \A x \in Threads, n \in Mutexes :
            has'[x][n] = IF x = k.cur /\ n = m THEN 1 ELSE has[x][n]
  <2>1. has[k.cur][m] + 1 = 1 /\ 1 \in Nat /\ 1 \in Int
    BY <1>6
  <2>2. /\ has' \in [Threads -> [Mutexes -> Nat]]
        /\ \A x \in Threads, n \in Mutexes :
             has'[x][n] = IF x = k.cur /\ n = m THEN has[k.cur][m] + 1 ELSE has[x][n]
    BY <1>1, <1>2, <1>5, <2>1, CountFacts
  <2> QED BY <2>1, <2>2
<1>13. WaitersHaveOwner' /\ OwnersPriority' /\ DeadUnused'
  BY <1>1, <1>2, <1>4, <1>8, <1>9, <1>11
     DEF MutexInv, WaitersHaveOwner, OwnersPriority, DeadUnused
<1>14. \A n \in Mutexes : \A x \in On(k, n) : mx'[n].owner # x
  <2>1. On(k, m) = {}
    BY <1>2, <1>7, MutexAssumption, EmptyQueue DEF Sound
  <2> QED BY <1>11, <2>1 DEF MutexInv, WaitersInTake
<1>15. \A n \in Mutexes : obj'[n] = "live" =>
           /\ has'[k.cur][n] = IF mx'[n].owner = k.cur THEN mx'[n].hold ELSE 0
           /\ \A x \in Threads \ {k.cur} :
                has'[x][n] + (IF Handed(x, n) THEN 1 ELSE 0)
                  = IF mx'[n].owner = x THEN mx'[n].hold ELSE 0
  <2> SUFFICES ASSUME NEW n \in Mutexes, obj[n] = "live"
               PROVE  /\ has'[k.cur][n] = IF mx'[n].owner = k.cur THEN mx'[n].hold ELSE 0
                      /\ \A x \in Threads \ {k.cur} :
                           has'[x][n] + (IF Handed(x, n) THEN 1 ELSE 0)
                             = IF mx'[n].owner = x THEN mx'[n].hold ELSE 0
    BY <1>1
  <2>1. has[k.cur][n] = IF mx[n].owner = k.cur THEN mx[n].hold ELSE 0
    BY <1>2, BooksOutside
  <2>2. \A x \in Threads \ {k.cur} :
                has[x][n] + (IF Handed(x, n) THEN 1 ELSE 0)
                  = IF mx[n].owner = x THEN mx[n].hold ELSE 0
    BY DEF MutexInv, OnlyOwnerHas
  <2>3. CASE n = m
    BY <1>2, <1>7, <1>9, <1>11, <1>12, <2>2, <2>3, KernelAssumption
  <2>4. CASE n # m
    BY <1>2, <1>11, <1>12, <2>1, <2>2, <2>4
  <2> QED BY <2>3, <2>4
<1>16. MutexInv'
  BY <1>1, <1>2, <1>4, <1>5, <1>11, <1>12, <1>13, <1>14, <1>15, OwnStep
<1>17. OwnedBy(m, k.cur, k.prio[k.cur]) /\ SameLists
  BY <1>4, <1>9, <1>11 DEF OwnedBy, SameLists
<1> QED BY <1>1, <1>2, <1>4, <1>7, <1>16, <1>17 DEF Effect

\* The rest of rt_mutex_take: what the caller is told agrees with the owner.
LEMMA TakeReturnStep ==
  ASSUME MutexInv, TakeReturn
  PROVE  MutexInv' /\ Effect
<1>1. /\ k.cur # NoThread /\ pc[k.cur] = "taken" /\ k' = k /\ lazy' = lazy
      /\ mx' = mx /\ obj' = obj /\ base' = base
      /\ pc' = [pc EXCEPT ![k.cur] = "run"] /\ arg' = [arg EXCEPT ![k.cur] = NoThread]
      /\ IF k.error[k.cur] = "ok" THEN Count(k.cur, arg[k.cur], 1) ELSE has' = has
  BY DEF TakeReturn, At, Running, Self, Goto, Target
<1>2. k.cur \in Workers /\ k.cur \in Threads /\ k.stat[k.cur] = "running" /\ Sound(k, {})
  BY <1>1, CoreFacts DEF MutexInv
<1>3. PICK m \in Mutexes : m = arg[k.cur]
  BY <1>1, <1>2 DEF MutexInv, ServicesKnow, Taking
<1>4. /\ mx \in [Mutexes -> MxRecords] /\ obj \in [Mutexes -> {"live", "dying", "dead"}]
      /\ has \in [Threads -> [Mutexes -> Nat]] /\ arg \in [Threads -> ServiceArgs]
  BY DEF MutexInv, MutexTypes, MxRecords, CoreInv
<1>5. /\ arg' \in [Threads -> ServiceArgs] /\ \A x \in Threads \ {k.cur} : arg'[x] = arg[x]
  BY <1>1, <1>2, <1>4 DEF ServiceArgs
<1>6. \A n \in Mutexes : Handed(k.cur, n) <=> n = m /\ k.error[k.cur] = "ok"
  BY <1>1, <1>2, <1>3 DEF Handed
<1>7. /\ has' \in [Threads -> [Mutexes -> Nat]]
      /\ \A x \in Threads, n \in Mutexes :
           has'[x][n] = IF x = k.cur THEN has[x][n] + (IF Handed(x, n) THEN 1 ELSE 0)
                        ELSE has[x][n]
  <2>1. \A x \in Threads, n \in Mutexes : has[x][n] \in Nat
    BY <1>4
  <2>2. CASE k.error[k.cur] = "ok"
    <3>1. Count(k.cur, m, 1)
      BY <1>1, <1>3, <2>2
    <3>2. has[k.cur][m] + 1 \in Nat
      BY <1>2, <2>1
    <3>3. /\ has' \in [Threads -> [Mutexes -> Nat]]
          /\ \A x \in Threads, n \in Mutexes :
               has'[x][n] = IF x = k.cur /\ n = m THEN has[k.cur][m] + 1 ELSE has[x][n]
      BY <1>2, <1>4, <3>1, <3>2, CountFacts
    <3> QED BY <1>6, <2>1, <2>2, <3>3
  <2>3. CASE k.error[k.cur] # "ok"
    BY <1>1, <1>4, <1>6, <2>1, <2>3
  <2> QED BY <2>2, <2>3
<1>8. WaitersHaveOwner' /\ OwnersPriority' /\ DeadUnused'
  BY <1>1 DEF MutexInv, WaitersHaveOwner, OwnersPriority, DeadUnused
<1>9. \A n \in Mutexes : \A x \in On(k, n) : mx'[n].owner # x
  BY <1>1 DEF MutexInv, WaitersInTake
<1>10. \A n \in Mutexes : obj'[n] = "live" =>
           /\ has'[k.cur][n] = IF mx'[n].owner = k.cur THEN mx'[n].hold ELSE 0
           /\ \A x \in Threads \ {k.cur} :
                has'[x][n] + (IF Handed(x, n) THEN 1 ELSE 0)
                  = IF mx'[n].owner = x THEN mx'[n].hold ELSE 0
  BY <1>1, <1>2, <1>7 DEF MutexInv, OnlyOwnerHas
<1>11. k'.cur = k.cur /\ k'.stat = k.stat /\ Sound(k', {}) /\ "run" \in {"run", "detach"}
  BY <1>1, <1>2
<1>12. MutexInv'
  BY <1>1, <1>2, <1>4, <1>5, <1>7, <1>8, <1>9, <1>10, <1>11, OwnStep
<1>13. SameOwners /\ \E t : Leaves(t)
  BY <1>1 DEF SameOwners, Leaves
<1> QED BY <1>1, <1>12, <1>13 DEF Effect
\* A step of the running thread that only changes what becomes of the objects: no
\* mutex comes to life, and one that dies has no waiters.
LEMMA ObjectStep ==
  ASSUME MutexInv, k.cur \in Workers, k.stat[k.cur] = "running", Sound(k, {}), k' = k,
         pc[k.cur] \notin Taking \cup {"sched"}, lazy' = lazy,
         mx' = mx, has' = has, base' = base,
         NEW l \in {"run", "detach"}, pc' = [pc EXCEPT ![k.cur] = l],
         NEW a \in ServiceArgs, arg' = [arg EXCEPT ![k.cur] = a], l = "detach" => a \in Mutexes,
         NEW m \in Mutexes, NEW o \in {"dying", "dead"}, obj' = [obj EXCEPT ![m] = o],
         o = "dead" => k.list[m] = <<>>
  PROVE  MutexInv' /\ Effect
<1>1. k.cur \in Threads
  BY DEF Workers
<1>2. /\ mx \in [Mutexes -> MxRecords] /\ obj \in [Mutexes -> {"live", "dying", "dead"}]
      /\ has \in [Threads -> [Mutexes -> Nat]] /\ arg \in [Threads -> ServiceArgs]
  BY DEF MutexInv, MutexTypes, MxRecords, CoreInv
<1>3. /\ arg' \in [Threads -> ServiceArgs] /\ \A x \in Threads \ {k.cur} : arg'[x] = arg[x]
      /\ arg'[k.cur] = a
  BY <1>1, <1>2
<1>4. /\ obj' \in [Mutexes -> {"live", "dying", "dead"}]
      /\ \A n \in Mutexes : obj'[n] = IF n = m THEN o ELSE obj[n]
  BY <1>2
<1>5. WaitersHaveOwner' /\ OwnersPriority' /\ DeadUnused'
  BY <1>4 DEF MutexInv, WaitersHaveOwner, OwnersPriority, DeadUnused
<1>6. \A n \in Mutexes : \A x \in On(k, n) : mx'[n].owner # x
  BY DEF MutexInv, WaitersInTake
<1>7. \A n \in Mutexes : obj'[n] = "live" =>
           /\ has'[k.cur][n] = IF mx'[n].owner = k.cur THEN mx'[n].hold ELSE 0
           /\ \A x \in Threads \ {k.cur} :
                has'[x][n] + (IF Handed(x, n) THEN 1 ELSE 0)
                  = IF mx'[n].owner = x THEN mx'[n].hold ELSE 0
  <2> SUFFICES ASSUME NEW n \in Mutexes, obj[n] = "live"
               PROVE  /\ has[k.cur][n] = IF mx[n].owner = k.cur THEN mx[n].hold ELSE 0
                      /\ \A x \in Threads \ {k.cur} :
                           has[x][n] + (IF Handed(x, n) THEN 1 ELSE 0)
                             = IF mx[n].owner = x THEN mx[n].hold ELSE 0
    BY <1>4
  <2>1. has[k.cur][n] = IF mx[n].owner = k.cur THEN mx[n].hold ELSE 0
    BY <1>1, BooksOutside
  <2> QED BY <2>1 DEF MutexInv, OnlyOwnerHas
<1>8. k'.cur = k.cur /\ k'.stat = k.stat /\ Sound(k', {})
  OBVIOUS
<1>9. l = "detach" => arg'[k.cur] \in Mutexes
  BY <1>3
<1>10. MutexInv'
  BY <1>2, <1>3, <1>4, <1>5, <1>6, <1>7, <1>8, <1>9, OwnStep
<1>11. SameOwners /\ \E t : Leaves(t)
  BY DEF SameOwners, Leaves
<1> QED BY <1>10, <1>11 DEF Effect

\* rt_mutex_detach, rt_mutex_delete up to the loop
LEMMA DetachStep ==
  ASSUME MutexInv, NEW m \in Mutexes, Detach(m)
  PROVE  MutexInv' /\ Effect
<1>1. /\ InApp /\ k' = k /\ lazy' = lazy /\ mx' = mx /\ has' = has /\ base' = base
      /\ obj' = [obj EXCEPT ![m] = "dying"] /\ pc' = [pc EXCEPT ![k.cur] = "detach"]
      /\ arg' = [arg EXCEPT ![k.cur] = m]
  BY DEF Detach, Self, Goto, Target
<1>2. /\ k.cur \in Workers /\ k.stat[k.cur] = "running" /\ Sound(k, {})
      /\ pc[k.cur] \notin Taking \cup {"sched"}
  BY <1>1, AppCall
<1>3. m \in ServiceArgs
  BY MutexAssumption DEF ServiceArgs
<1> QED BY <1>1, <1>2, <1>3, ObjectStep

\* The loop finds the list empty and the mutex is gone.
LEMMA DetachDoneStep ==
  ASSUME MutexInv, DetachDone
  PROVE  MutexInv' /\ Effect
<1>1. /\ k.cur # NoThread /\ pc[k.cur] = "detach" /\ k.list[arg[k.cur]] = <<>>
      /\ k' = k /\ lazy' = lazy /\ mx' = mx /\ has' = has /\ base' = base
      /\ obj' = [obj EXCEPT ![arg[k.cur]] = "dead"] /\ pc' = [pc EXCEPT ![k.cur] = "run"]
      /\ arg' = [arg EXCEPT ![k.cur] = NoThread]
  BY DEF DetachDone, At, Running, Self, Goto, Target
<1>2. k.cur \in Workers /\ k.cur \in Threads /\ k.stat[k.cur] = "running" /\ Sound(k, {})
  BY <1>1, CoreFacts DEF MutexInv
<1>3. PICK m \in Mutexes : m = arg[k.cur]
  BY <1>1, <1>2 DEF MutexInv, ServicesKnow
<1>4. NoThread \in ServiceArgs /\ pc[k.cur] \notin Taking \cup {"sched"}
  BY <1>1 DEF ServiceArgs, Taking
<1> QED BY <1>1, <1>2, <1>3, <1>4, ObjectStep

\* rt_mutex_init or rt_mutex_create starts with a free mutex and clean books.
LEMMA InitMutexStep ==
  ASSUME MutexInv, NEW m \in Mutexes, m \in Detachable, InitMutex(m)
  PROVE  MutexInv' /\ Effect
<1>1. /\ InApp /\ obj[m] = "dead" /\ k' = k /\ pc' = pc /\ arg' = arg /\ lazy' = lazy
      /\ base' = base
      /\ \A t \in Threads : ~(pc[t] \in Taking /\ arg[t] = m)
      /\ obj' = [obj EXCEPT ![m] = "live"] /\ mx' = [mx EXCEPT ![m] = Free]
      /\ has' = [t \in Threads |-> [has[t] EXCEPT ![m] = 0]]
  BY DEF InitMutex, vars, Taking
<1>2. /\ k.cur \in Workers /\ k.cur \in Threads /\ k.stat[k.cur] = "running" /\ Sound(k, {})
      /\ pc' = [pc EXCEPT ![k.cur] = "run"] /\ pc[k.cur] \notin Taking /\ pc[k.cur] # "sched"
      /\ arg' \in [Threads -> ServiceArgs]
  BY <1>1, AppCall
<1>3. /\ mx \in [Mutexes -> MxRecords] /\ obj \in [Mutexes -> {"live", "dying", "dead"}]
      /\ has \in [Threads -> [Mutexes -> Nat]]
  BY DEF MutexInv, MutexTypes, MxRecords
<1>4. /\ Free \in MxRecords /\ Free.owner = NoThread /\ Free.hold = 0 /\ Free.value = 1
  BY MutexAssumption, KernelAssumption DEF Free, MxRecords
<1>5. mx' \in [Mutexes -> MxRecords] /\ \A n \in Mutexes : mx'[n] = IF n = m THEN Free ELSE mx[n]
  BY <1>1, <1>3, <1>4, MxFacts
<1>6. /\ obj' \in [Mutexes -> {"live", "dying", "dead"}]
      /\ \A n \in Mutexes : obj'[n] = IF n = m THEN "live" ELSE obj[n]
  BY <1>1, <1>3
<1>7. /\ has' \in [Threads -> [Mutexes -> Nat]]
      /\ \A x \in Threads, n \in Mutexes : has'[x][n] = IF n = m THEN 0 ELSE has[x][n]
  BY <1>1, <1>3
<1>8. k.list[m] = <<>>
  BY <1>1 DEF MutexInv, DeadUnused
<1>9. WaitersHaveOwner' /\ OwnersPriority' /\ DeadUnused'
  BY <1>1, <1>4, <1>5, <1>6, <1>8 DEF MutexInv, WaitersHaveOwner, OwnersPriority, DeadUnused
<1>10. \A n \in Mutexes : \A x \in On(k, n) : mx'[n].owner # x
  <2>1. On(k, m) = {}
    BY <1>2, <1>8, MutexAssumption, EmptyQueue DEF Sound
  <2> QED BY <1>5, <2>1 DEF MutexInv, WaitersInTake
<1>11. \A n \in Mutexes : obj'[n] = "live" =>
           /\ has'[k.cur][n] = IF mx'[n].owner = k.cur THEN mx'[n].hold ELSE 0
           /\ \A x \in Threads \ {k.cur} :
                has'[x][n] + (IF Handed(x, n) THEN 1 ELSE 0)
                  = IF mx'[n].owner = x THEN mx'[n].hold ELSE 0
  <2> SUFFICES ASSUME NEW n \in Mutexes, obj'[n] = "live"
               PROVE  /\ has'[k.cur][n] = IF mx'[n].owner = k.cur THEN mx'[n].hold ELSE 0
                      /\ \A x \in Threads \ {k.cur} :
                           has'[x][n] + (IF Handed(x, n) THEN 1 ELSE 0)
                             = IF mx'[n].owner = x THEN mx'[n].hold ELSE 0
    OBVIOUS
  <2>1. CASE n = m
    <3>1. \A x \in Threads : ~Handed(x, m)
      BY <1>1 DEF Handed, Taking
    <3> QED BY <1>2, <1>4, <1>5, <1>7, <2>1, <3>1, KernelAssumption
  <2>2. CASE n # m
    <3>1. obj[n] = "live"
      BY <1>6, <2>2
    <3>2. has[k.cur][n] = IF mx[n].owner = k.cur THEN mx[n].hold ELSE 0
      BY <1>2, <3>1, BooksOutside
    <3>3. \A x \in Threads \ {k.cur} :
                has[x][n] + (IF Handed(x, n) THEN 1 ELSE 0)
                  = IF mx[n].owner = x THEN mx[n].hold ELSE 0
      BY <3>1 DEF MutexInv, OnlyOwnerHas
    <3> QED BY <1>2, <1>5, <1>7, <2>2, <3>2, <3>3
  <2> QED BY <2>1, <2>2
<1>12. k'.cur = k.cur /\ k'.stat = k.stat /\ Sound(k', {})
  BY <1>1, <1>2
<1>13. MutexInv'
  BY <1>1, <1>2, <1>3, <1>5, <1>6, <1>7, <1>9, <1>10, <1>11, <1>12, OwnStep
<1> QED BY <1>1, <1>13 DEF Effect
-----------------------------------------------------------------------------
(* Steps that move another thread.                                         *)

\* rt_mutex_take of a mutex that another thread owns
LEMMA TakeBlockStep ==
  ASSUME MutexInv, NEW m \in Mutexes, NEW finite \in BOOLEAN, TakeBlock(m, finite)
  PROVE  MutexInv' /\ Effect
<1> DEFINE c == k.cur
           e == [k EXCEPT !.error[c] = "ok"]
           o == mx[m].owner
           i == Inherit(e, o, c)
           s == ListSuspendPrio(i, m, c)
<1>1. /\ obj[m] = "live" /\ o # c /\ mx[m].value = 0 /\ UNCHANGED mutexVars /\ lazy' = lazy
      /\ k' = (IF finite THEN StartTimer(s, c) ELSE s)
      /\ pc' = [pc EXCEPT ![c] = "take"] /\ arg' = [arg EXCEPT ![c] = m]
  BY DEF TakeBlock, Usable, Goto, Target, Self, ClearError
<1>2. /\ c \in Workers /\ c \in Threads /\ pc[c] = "run" /\ k.stat[c] = "running"
      /\ Sound(k, {}) /\ m \in Queues /\ k.cur = c
  BY CoreInApp, MutexAssumption DEF TakeBlock, MayBlock, MutexInv
<1>3. o \in Threads
  BY <1>1 DEF MutexInv, MutexTypes, WaitersHaveOwner
<1>4. /\ Sound(e, {}) /\ e.stat = k.stat /\ e.prio = k.prio /\ e.list = k.list
      /\ e.cur = k.cur /\ e.lock = k.lock
      /\ e.error[c] = "ok" /\ \A x \in Threads \ {c} : e.error[x] = k.error[x]
  <2>1. k \in KernelStates
    BY <1>2 DEF Sound
  <2>2. /\ e \in KernelStates /\ e.stat = k.stat /\ e.prio = k.prio /\ e.list = k.list
        /\ e.cur = k.cur /\ e.lock = k.lock /\ e.timer = k.timer /\ e.group = k.group
        /\ e.error[c] = "ok" /\ \A x \in Threads \ {c} : e.error[x] = k.error[x]
    BY <1>2, <2>1 DEF KernelStates, Errors
  <2> HIDE DEF e
  <2> QED BY <1>2, <2>2, SoundSame
<1> HIDE DEF e, c, o
<1>5. PICK p \in Priorities :
        Reprio(i, e, o, p) /\ p <= e.prio[c] /\ p <= e.prio[o]
  BY <1>1, <1>2, <1>3, <1>4, InheritReprio
<1> HIDE DEF i
<1>6. /\ Sound(i, {}) /\ i.error = e.error /\ i.cur = k.cur /\ i.lock = k.lock
      /\ \A x \in Threads : i.prio[x] = IF x = o THEN p ELSE k.prio[x]
      /\ \A x \in Threads : i.stat[x] = k.stat[x]
      /\ \A q \in Queues : i.list[q] = k.list[q]
  BY <1>4, <1>5 DEF Reprio
<1>7. /\ Blocked(s, i, m, c)
      /\ InOrder(i.list[m], i.prio) => InOrder(s.list[m], i.prio)
  <2>1. i.stat[c] \in {"ready", "running"}
    BY <1>2, <1>6
  <2> QED BY <1>2, <1>6, <2>1, PrioBlocks
<1> HIDE DEF s
<1>8. Blocked(k', i, m, c) /\ k'.list = s.list
  BY <1>1, <1>2, <1>7, TimerBlocks
<1>9. /\ \A x \in Threads : k'.prio[x] = IF x = o THEN p ELSE k.prio[x]
      /\ \A x \in Threads : k'.stat[x] = IF x = c THEN "suspend" ELSE k.stat[x]
      /\ k'.error[c] = "ok" /\ \A x \in Threads \ {c} : k'.error[x] = k.error[x]
      /\ On(k', m) = On(k, m) \cup {c} /\ k'.cur = c
      /\ \A n \in Mutexes \ {m} : k'.list[n] = k.list[n] /\ On(k', n) = On(k, n)
      /\ InOrder(k.list[m], k'.prio) => InOrder(k'.list[m], k'.prio)
  BY <1>2, <1>4, <1>6, <1>7, <1>8, MutexAssumption DEF Blocked, On
<1>10. mx' = mx /\ obj' = obj /\ has' = has /\ base' = base
  BY <1>1 DEF mutexVars
<1>11. /\ pc'[c] = "take" /\ \A x \in Threads \ {c} : pc'[x] = pc[x] /\ arg'[x] = arg[x]
       /\ arg'[c] = m /\ pc' \in [Threads -> MutexPCs] /\ arg' \in [Threads -> ServiceArgs]
  <2>1. pc \in [Threads -> MutexPCs] /\ arg \in [Threads -> ServiceArgs] /\ m \in ServiceArgs
    BY MutexAssumption DEF MutexInv, MutexTypes, CoreInv, ServiceArgs
  <2> QED BY <1>1, <1>2, <2>1 DEF MutexPCs
<1>12. CoreInv'
  <2>1. i.cur = k.cur /\ i.lock = k.lock /\ \A x \in Threads : i.stat[x] = k.stat[x]
    BY <1>6
  <2>2. lazy' \in BOOLEAN
    BY <1>1 DEF MutexInv, CoreInv
  <2>3. pc' = [pc EXCEPT ![k.cur] = "take"] /\ Blocked(k', i, m, k.cur) /\ k.cur \in Workers
    BY <1>1, <1>2, <1>8
  <2> QED BY <1>2, <1>11, <2>1, <2>2, <2>3, CoreBlock DEF MutexInv
<1>13. \A n \in Mutexes : \A x \in On(k, n) : x \in Threads /\ x # c
  <2> SUFFICES ASSUME NEW n \in Mutexes, NEW x \in On(k, n) PROVE x \in Threads /\ x # c
    OBVIOUS
  <2>1. n \in Queues /\ k.list[n] \in Seq(Threads)
    BY <1>2, MutexAssumption DEF Sound, KernelStates, Lists
  <2>2. c \notin On(k, n)
    BY <1>2, <2>1, LiveUnlisted
  <2> QED BY <2>1, <2>2 DEF On, ToSet
<1>14. WaitersInTake'
  <2> SUFFICES ASSUME NEW n \in Mutexes, NEW x \in On(k', n)
               PROVE  /\ pc'[x] \in Taking /\ arg'[x] = n /\ k'.error[x] = "ok"
                      /\ mx'[n].owner # x
    BY DEF WaitersInTake
  <2>1. CASE x \in On(k, n)
    BY <1>9, <1>10, <1>11, <1>13, <2>1 DEF MutexInv, WaitersInTake
  <2>2. CASE x \notin On(k, n)
    <3>1. n = m /\ x = c
      BY <1>9, <2>2
    <3> QED BY <1>1, <1>9, <1>10, <1>11, <3>1 DEF Taking, o
  <2> QED BY <2>1, <2>2
<1>15. ServicesKnow'
  <2> SUFFICES ASSUME NEW x \in Threads
               PROVE  /\ pc'[x] \in Taking \cup {"detach", "wake"} => arg'[x] \in Mutexes
                      /\ pc'[x] = "delete" => \A n \in Mutexes : mx'[n].owner # arg'[x]
    BY DEF ServicesKnow
  <2>1. CASE x = c
    BY <1>11, <2>1
  <2>2. CASE x # c
    <3>1. pc[x] # "delete"
      BY <1>2, <2>2 DEF MutexInv, CoreInv, Held
    <3> QED BY <1>11, <2>2, <3>1 DEF MutexInv, ServicesKnow
  <2> QED BY <2>1, <2>2
<1>16. OnlyOwnerHas'
  <2>1. \A x \in Threads, n \in Mutexes : Handed(x, n)' <=> Handed(x, n)
    BY <1>2, <1>9, <1>11 DEF Handed
  <2> QED BY <1>10, <2>1 DEF MutexInv, OnlyOwnerHas
<1>17. WaitersHaveOwner' /\ OwnersPriority' /\ DeadUnused'
  <2>1. o # NoThread
    BY <1>3, KernelAssumption
  <2> QED BY <1>1, <1>9, <1>10, <2>1
       DEF MutexInv, WaitersHaveOwner, OwnersPriority, DeadUnused, o
<1>18. Due' /\ MutexTypes'
  BY <1>2, <1>9, <1>10, <1>11 DEF Due, MutexInv, MutexTypes
<1>19. MutexInv'
  BY <1>12, <1>14, <1>15, <1>16, <1>17, <1>18 DEF MutexInv
<1>20. Joins(m)
  <2>1. SameOwners /\ Moved(o, p)
    BY <1>9, <1>10 DEF SameOwners, Moved
  <2> QED BY <1>1, <1>2, <1>3, <1>4, <1>5, <1>9, <2>1 DEF Joins, o
<1> QED BY <1>10, <1>19, <1>20 DEF Effect
\* The outermost release by the owner: its priority, the counts and the other threads.
LEMMA ReleaseFacts ==
  ASSUME MutexInv, NEW m \in Mutexes, ReleaseLast(m)
  PROVE  /\ InApp /\ obj[m] = "live" /\ mx[m].owner = k.cur /\ mx[m].orig \in Priorities
         /\ k.cur \notin On(k, m) /\ arg' = arg /\ obj' = obj /\ base' = base
         /\ Reprio(Restored(m), k, k.cur, mx[m].orig)
         /\ has' \in [Threads -> [Mutexes -> Nat]]
         /\ \A x \in Threads, n \in Mutexes :
              has'[x][n] = IF x = k.cur /\ n = m THEN 0 ELSE has[x][n]
<1>1. /\ InApp /\ obj[m] = "live" /\ mx[m].owner = k.cur /\ mx[m].hold = 1
      /\ arg' = arg /\ obj' = obj /\ base' = base /\ Count(k.cur, m, -1)
  BY DEF ReleaseLast, Usable, Self
<1>2. /\ k.cur \in Threads /\ k.cur # NoThread /\ pc[k.cur] \notin Taking
      /\ k.stat[k.cur] = "running" /\ Sound(k, {})
  BY <1>1, AppCall
<1>3. mx[m].orig \in Priorities
  BY <1>1, <1>2 DEF MutexInv, OwnersPriority
<1>4. Reprio(Restored(m), k, k.cur, mx[m].orig)
  <2>1. CASE mx[m].orig # k.prio[k.cur]
    <3>1. Restored(m) = ChangePriority(k, k.cur, mx[m].orig)
      BY <2>1 DEF Restored, Self
    <3>2. Reprio(ChangePriority(k, k.cur, mx[m].orig), k, k.cur, mx[m].orig)
      BY <1>2, <1>3, ChangeReprio
    <3> QED BY <3>1, <3>2
  <2>2. CASE mx[m].orig = k.prio[k.cur]
    <3>1. Restored(m) = k
      BY <2>2 DEF Restored, Self
    <3> QED BY <1>2, <2>2, <3>1 DEF Reprio
  <2> QED BY <2>1, <2>2
<1>5. has[k.cur][m] = 1 /\ has \in [Threads -> [Mutexes -> Nat]]
  BY <1>1, <1>2, BooksOutside DEF MutexInv, MutexTypes
<1>6. /\ has' \in [Threads -> [Mutexes -> Nat]]
      /\ \A x \in Threads, n \in Mutexes :
           has'[x][n] = IF x = k.cur /\ n = m THEN has[k.cur][m] + (-1) ELSE has[x][n]
  BY <1>1, <1>2, <1>5, CountFacts
<1>7. k.cur \notin On(k, m)
  BY <1>2 DEF MutexInv, WaitersInTake
<1> QED BY <1>1, <1>3, <1>4, <1>5, <1>6, <1>7

\* ... with nobody waiting
LEMMA ReleaseFreesStep ==
  ASSUME MutexInv, NEW m \in Mutexes, ReleaseLast(m), k.list[m] = <<>>
  PROVE  MutexInv' /\ Effect
<1>1. /\ InApp /\ obj[m] = "live" /\ mx[m].owner = k.cur /\ mx[m].orig \in Priorities
      /\ arg' = arg /\ obj' = obj /\ base' = base
      /\ Reprio(Restored(m), k, k.cur, mx[m].orig)
      /\ has' \in [Threads -> [Mutexes -> Nat]]
      /\ \A x \in Threads, n \in Mutexes :
           has'[x][n] = IF x = k.cur /\ n = m THEN 0 ELSE has[x][n]
  BY ReleaseFacts
<1>2. /\ k.cur \in Workers /\ k.cur \in Threads /\ k.cur # NoThread /\ pc[k.cur] = "run"
      /\ k.stat[k.cur] = "running" /\ pc[k.cur] \notin Taking /\ arg' \in [Threads -> ServiceArgs]
  BY <1>1, AppCall
<1>3. Restored(m).list[m] = <<>>
  BY <1>1, MutexAssumption DEF Reprio
<1>4. /\ mx' = [mx EXCEPT ![m] = Free] /\ k' = Restored(m) /\ pc' = pc
      /\ lazy' = (lazy \/ k' # k)
  BY <1>3 DEF ReleaseLast
<1>5. /\ Sound(k', {}) /\ k'.error = k.error /\ k'.cur = k.cur /\ k'.lock = k.lock
      /\ \A x \in Threads : k'.prio[x] = IF x = k.cur THEN mx[m].orig ELSE k.prio[x]
      /\ \A x \in Threads : k'.stat[x] = k.stat[x]
      /\ \A n \in Mutexes : k'.list[n] = k.list[n] /\ On(k', n) = On(k, n)
  BY <1>1, <1>4, MutexAssumption DEF Reprio, On
<1>6. CoreInv'
  <2>1. pc' \in [Threads -> ServicePCs] /\ lazy' \in BOOLEAN /\ pc'[k.cur] # "delete"
    BY <1>2, <1>4 DEF MutexInv, CoreInv
  <2> QED BY <1>2, <1>4, <1>5, <2>1, CoreAdjust DEF MutexInv
<1>7. Free \in MxRecords /\ Free.owner = NoThread /\ Free.hold = 0 /\ Free.value = 1
  BY MutexAssumption, KernelAssumption DEF Free, MxRecords
<1>8. mx' \in [Mutexes -> MxRecords] /\ \A n \in Mutexes : mx'[n] = IF n = m THEN Free ELSE mx[n]
  <2>1. mx \in [Mutexes -> MxRecords]
    BY DEF MutexInv, MutexTypes, MxRecords
  <2> QED BY <1>4, <1>7, <2>1, MxFacts
<1>9. MutexTypes'
  BY <1>1, <1>4, <1>8 DEF MutexInv, MutexTypes, MxRecords
<1>10. OnlyOwnerHas'
  <2> SUFFICES ASSUME NEW n \in Mutexes, obj[n] = "live", NEW x \in Threads
               PROVE  has'[x][n] + (IF Handed(x, n)' THEN 1 ELSE 0)
                        = IF mx'[n].owner = x THEN mx'[n].hold ELSE 0
    BY <1>1 DEF OnlyOwnerHas
  <2>1. Handed(x, n)' <=> Handed(x, n)
    BY <1>1, <1>4, <1>5 DEF Handed
  <2>2. has[x][n] + (IF Handed(x, n) THEN 1 ELSE 0) = IF mx[n].owner = x THEN mx[n].hold ELSE 0
    BY DEF MutexInv, OnlyOwnerHas
  <2>3. CASE n # m
    BY <1>1, <1>8, <2>1, <2>2, <2>3
  <2>4. CASE n = m /\ x # k.cur
    BY <1>1, <1>7, <1>8, <2>1, <2>2, <2>4, KernelAssumption
  <2>5. CASE n = m /\ x = k.cur
    <3>1. ~Handed(x, n)
      BY <1>2, <2>5 DEF Handed, Taking
    <3>2. has'[x][n] = 0 /\ mx'[n].owner # x
      BY <1>1, <1>7, <1>8, <2>5, KernelAssumption
    <3>3. (IF Handed(x, n)' THEN 1 ELSE 0) = 0
      BY <2>1, <3>1
    <3> QED BY <3>2, <3>3
  <2> QED BY <2>3, <2>4, <2>5
<1>11. WaitersHaveOwner' /\ OwnersPriority' /\ DeadUnused'
  <2>1. WaitersHaveOwner'
    BY <1>5, <1>7, <1>8 DEF MutexInv, WaitersHaveOwner
  <2>2. OwnersPriority'
    BY <1>7, <1>8 DEF MutexInv, OwnersPriority
  <2>3. DeadUnused'
    BY <1>1, <1>5 DEF MutexInv, DeadUnused
  <2> QED BY <2>1, <2>2, <2>3
<1>12. Due'
  BY <1>4 DEF MutexInv, Due, Settled
<1>13. PICK t : Leaves(t)
  BY <1>5 DEF Leaves
<1>14. \A n \in Mutexes : \A x \in On(k', n) : mx'[n].owner # x /\ x # k.cur
  <2> SUFFICES ASSUME NEW n \in Mutexes, NEW x \in On(k, n)
               PROVE  mx'[n].owner # x /\ x # k.cur
    BY <1>5
  <2>1. x \in Threads /\ mx[n].owner # x /\ pc[x] \in Taking
    BY <1>6, <1>13, LeavesFacts DEF CoreInv, Sound, MutexInv, WaitersInTake
  <2> QED BY <1>2, <1>7, <1>8, <2>1, KernelAssumption
<1>15. \A n \in Mutexes : \A x \in On(k', n) : k'.error[x] = k.error[x]
  BY <1>5
<1>16. MutexInv'
  BY <1>1, <1>2, <1>4, <1>6, <1>9, <1>10, <1>11, <1>12, <1>13, <1>14, <1>15, StepInv DEF Taking
<1>17. Frees(m)
  <2>1. Moved(k.cur, mx[m].orig) /\ SameLists
    BY <1>5 DEF Moved, SameLists
  <2> QED BY <1>1, <1>2, <1>7, <1>8, <2>1 DEF Frees
<1> QED BY <1>1, <1>16, <1>17 DEF Effect

\* ... with the mutex handed to the first waiter
LEMMA ReleaseHandsStep ==
  ASSUME MutexInv, NEW m \in Mutexes, ReleaseLast(m), k.list[m] # <<>>
  PROVE  MutexInv' /\ Effect
<1>1. /\ InApp /\ obj[m] = "live" /\ mx[m].owner = k.cur /\ mx[m].orig \in Priorities
      /\ k.cur \notin On(k, m) /\ arg' = arg /\ obj' = obj /\ base' = base
      /\ Reprio(Restored(m), k, k.cur, mx[m].orig)
      /\ has' \in [Threads -> [Mutexes -> Nat]]
      /\ \A x \in Threads, n \in Mutexes :
           has'[x][n] = IF x = k.cur /\ n = m THEN 0 ELSE has[x][n]
  BY ReleaseFacts
<1>2. /\ k.cur \in Workers /\ k.cur \in Threads /\ k.cur # NoThread /\ pc[k.cur] = "run"
      /\ k.stat[k.cur] = "running" /\ pc[k.cur] \notin Taking
      /\ arg' \in [Threads -> ServiceArgs] /\ Sound(k, {}) /\ m \in Queues
  BY <1>1, AppCall, MutexAssumption
<1>3. PICK s : s = Restored(m)
  OBVIOUS
<1>4. PICK w : w = Head(k.list[m])
  OBVIOUS
<1>5. /\ Sound(s, {}) /\ s.error = k.error /\ s.cur = k.cur /\ s.lock = k.lock
      /\ \A x \in Threads : s.prio[x] = IF x = k.cur THEN mx[m].orig ELSE k.prio[x]
      /\ \A x \in Threads : s.stat[x] = k.stat[x]
      /\ \A n \in Mutexes : s.list[n] = k.list[n] /\ On(s, n) = On(k, n)
  BY <1>1, <1>3, MutexAssumption DEF Reprio, On
<1>6. s.list[m] # <<>> /\ w = Head(s.list[m])
  BY <1>4, <1>5
<1>7. /\ mx' = [mx EXCEPT ![m] = Owned(m, w, 1, s.prio[w])]
      /\ k' = ListResume(s, m) /\ pc' = [pc EXCEPT ![k.cur] = "sched"] /\ lazy' = lazy
  BY <1>3, <1>6 DEF ReleaseLast, Goto, Self
<1>8. w \in Threads /\ w \in On(k, m) /\ k.stat[w] = "suspend" /\ w # k.cur /\ w # NoThread
  BY <1>1, <1>2, <1>4, FirstWaiter, KernelAssumption
<1>9. pc[w] \in Taking /\ arg[w] = m /\ k.error[w] = "ok"
  BY <1>8 DEF MutexInv, WaitersInTake
<1>10. WokenUp(k', s, w, "ok")
  BY <1>2, <1>5, <1>6, <1>7, <1>9, ListResumeWakes
<1>11. /\ Sound(k', {}) /\ k'.prio = s.prio /\ k'.cur = k.cur /\ k'.lock = k.lock
       /\ \A x \in Threads : k'.error[x] = k.error[x]
       /\ \A x \in Threads : k'.stat[x] = IF x # w THEN k.stat[x] ELSE "ready"
       /\ \A n \in Mutexes : /\ k'.list[n] = RemoveFirst(k.list[n], w)
                             /\ On(k', n) = On(k, n) \ {w}
  BY <1>5, <1>8, <1>9, <1>10, MutexAssumption DEF WokenUp
<1>12. /\ pc'[k.cur] = "sched" /\ \A x \in Threads \ {k.cur} : pc'[x] = pc[x]
       /\ pc' \in [Threads -> ServicePCs] /\ pc' \in [Threads -> MutexPCs]
  BY <1>2, <1>7 DEF MutexInv, CoreInv, ServicePCs, MutexTypes, MutexPCs
<1>13. CoreInv'
  <2>1. OnlyCurrentRuns(k) /\ k.lock = 0 /\ k.stat[Idle] \in {"ready", "running"}
    BY <1>2 DEF MutexInv, CoreInv
  <2>2. OnlyCurrentRuns(k') /\ k'.stat[k.cur] = "running"
    BY <1>2, <1>8, <1>11, <2>1 DEF OnlyCurrentRuns
  <2>3. k'.stat[Idle] \in {"ready", "running"}
    BY <1>11, <2>1, KernelAssumption
  <2>4. lazy' \in BOOLEAN /\ k'.lock = 0
    BY <1>7, <1>11, <2>1 DEF MutexInv, CoreInv
  <2> QED BY <1>2, <1>11, <1>12, <2>2, <2>3, <2>4, CoreQuiet DEF MutexInv
<1>14. s.prio[w] \in Priorities /\ s.prio[w] \in 0 .. PRIORITY_MAX
  BY <1>5, <1>8, KernelAssumption DEF Sound, KernelStates, Priorities
<1> DEFINE r == Owned(m, w, 1, s.prio[w])
<1>15. mx[m] \in MxRecords /\ mx \in [Mutexes -> MxRecords]
  BY DEF MutexInv, MutexTypes, MxRecords
<1>16. r \in MxRecords /\ r.owner = w /\ r.orig = s.prio[w] /\ r.value = 0 /\ r.hold = 1
  <2>1. 1 \in 1 .. MUTEX_HOLD_MAX
    BY MutexAssumption
  <2> QED BY <1>8, <1>14, <1>15, <2>1, OwnedFacts
<1>17. mx' = [mx EXCEPT ![m] = r]
  BY <1>7
<1> HIDE DEF r
<1>18. mx' \in [Mutexes -> MxRecords] /\ \A n \in Mutexes : mx'[n] = IF n = m THEN r ELSE mx[n]
  BY <1>15, <1>16, <1>17, MxFacts
<1>19. MutexTypes'
  BY <1>1, <1>12, <1>18 DEF MutexInv, MutexTypes, MxRecords
<1>20. Leaves(w)
  BY <1>11 DEF Leaves
<1>21. \A n \in Mutexes : /\ k.list[n] = <<>> => k'.list[n] = <<>>
                          /\ On(k, n) \subseteq Threads
  BY <1>13, <1>20, LeavesFacts DEF CoreInv, Sound
<1>22. OnlyOwnerHas'
  <2> SUFFICES ASSUME NEW n \in Mutexes, obj[n] = "live", NEW x \in Threads
               PROVE  has'[x][n] + (IF Handed(x, n)' THEN 1 ELSE 0)
                        = IF mx'[n].owner = x THEN mx'[n].hold ELSE 0
    BY <1>1 DEF OnlyOwnerHas
  <2>1. Handed(x, n)' <=> (x = w /\ n = m) \/ Handed(x, n)
    BY <1>1, <1>2, <1>8, <1>9, <1>11, <1>12 DEF Handed, Taking
  <2>2. has[x][n] + (IF Handed(x, n) THEN 1 ELSE 0) = IF mx[n].owner = x THEN mx[n].hold ELSE 0
    BY DEF MutexInv, OnlyOwnerHas
  <2>3. has[x][n] \in Nat
    BY DEF MutexInv, MutexTypes
  <2>4. CASE n # m
    BY <1>1, <1>18, <2>1, <2>2, <2>4
  <2>5. CASE n = m /\ x = k.cur
    <3>1. ~Handed(x, n)
      BY <1>2, <2>5 DEF Handed, Taking
    <3>2. has'[x][n] = 0 /\ mx'[n].owner # x
      BY <1>1, <1>8, <1>16, <1>18, <2>5
    <3>3. (IF Handed(x, n)' THEN 1 ELSE 0) = 0
      BY <1>8, <2>1, <2>5, <3>1
    <3> QED BY <3>2, <3>3
  <2>6. CASE n = m /\ x # k.cur /\ x # w
    BY <1>1, <1>8, <1>16, <1>18, <2>1, <2>2, <2>6
  <2>7. CASE n = m /\ x = w
    <3>1. ~Handed(x, n)
      BY <1>8, <2>7 DEF Handed
    <3>2. has[x][n] = 0
      BY <1>1, <1>8, <2>2, <2>3, <2>7, <3>1
    <3> QED BY <1>1, <1>8, <1>16, <1>18, <2>1, <2>7, <3>2
  <2> QED BY <2>4, <2>5, <2>6, <2>7
<1>23. WaitersHaveOwner' /\ OwnersPriority' /\ DeadUnused'
  <2>1. WaitersHaveOwner'
    BY <1>8, <1>16, <1>18, <1>21 DEF MutexInv, WaitersHaveOwner
  <2>2. OwnersPriority'
    BY <1>14, <1>16, <1>18 DEF MutexInv, OwnersPriority
  <2>3. DeadUnused'
    BY <1>1, <1>21 DEF MutexInv, DeadUnused
  <2> QED BY <2>1, <2>2, <2>3
<1>24. Due'
  BY <1>11, <1>12 DEF Due
<1>25. \A n \in Mutexes : \A x \in On(k', n) : mx'[n].owner # x /\ x # k.cur
  <2> SUFFICES ASSUME NEW n \in Mutexes, NEW x \in On(k', n)
               PROVE  mx'[n].owner # x /\ x # k.cur
    OBVIOUS
  <2>1. x \in Threads /\ mx[n].owner # x /\ pc[x] \in Taking /\ x # w
    BY <1>11, <1>21 DEF MutexInv, WaitersInTake
  <2> QED BY <1>2, <1>16, <1>18, <2>1
<1>26. \A n \in Mutexes : \A x \in On(k', n) : k'.error[x] = k.error[x]
  BY <1>11, <1>21
<1>27. pc'[k.cur] \notin Taking \cup {"detach", "wake", "delete"}
  BY <1>12 DEF Taking
<1>28. MutexInv'
  BY <1>1, <1>2, <1>12, <1>13, <1>19, <1>20, <1>22, <1>23, <1>24, <1>25, <1>26, <1>27, StepInv
<1>29. Hands(m)
  <2>1. Moved(k.cur, mx[m].orig)
    BY <1>5, <1>11 DEF Moved
  <2>2. OwnedBy(m, w, k'.prio[w])
    BY <1>11, <1>16, <1>18 DEF OwnedBy
  <2> QED BY <1>1, <1>2, <1>4, <1>11, <1>20, <2>1, <2>2 DEF Hands
<1> QED BY <1>1, <1>28, <1>29 DEF Effect
-----------------------------------------------------------------------------
(* The theorems.                                                           *)

\* The invariant holds at boot.
LEMMA MutexInitInv == MutexInit => MutexInv
<1> SUFFICES ASSUME MutexInit PROVE MutexInv
  OBVIOUS
<1>1. /\ CoreInv /\ mx = [m \in Mutexes |-> Free] /\ obj = [m \in Mutexes |-> "live"]
      /\ has = [t \in Threads |-> [m \in Mutexes |-> 0]] /\ base = k.prio
  BY CoreInit DEF MutexInit
<1>2. /\ k.cur = NoThread /\ Sound(k, {}) /\ \A t \in Threads : pc[t] = "run"
  <2>1. k.cur = NoThread
    BY DEF MutexInit, Init, KernelBoot
  <2>2. k.cur \notin Threads
    BY <2>1, KernelAssumption
  <2> QED BY <1>1, <2>1, <2>2, CoreNoLimbo DEF CoreInv
<1>3. /\ Free \in MxRecords /\ Free.owner = NoThread /\ Free.hold = 0 /\ Free.value = 1
  BY MutexAssumption, KernelAssumption DEF Free, MxRecords
<1>4. \A m \in Mutexes : mx[m] = Free
  BY <1>1
<1>5. \A m \in Mutexes : k.list[m] = <<>> /\ On(k, m) = {}
  <2> SUFFICES ASSUME NEW m \in Mutexes PROVE k.list[m] = <<>> /\ On(k, m) = {}
    OBVIOUS
  <2>1. m \in Lists
    BY MutexAssumption DEF Lists
  <2>2. k.list[m] = <<>>
    BY <2>1 DEF MutexInit, Init, KernelBoot
  <2> QED BY <1>2, <2>2, MutexAssumption, EmptyQueue DEF Sound
<1>6. MutexTypes
  <2>1. pc \in [Threads -> MutexPCs]
    BY DEF MutexInit, Init, MutexPCs
  <2>2. base \in [Threads -> Priorities]
    BY <1>1, <1>2 DEF Sound, KernelStates
  <2>3. has \in [Threads -> [Mutexes -> Nat]]
    BY <1>1
  <2>4. mx \in [Mutexes -> MxRecords]
    BY <1>1, <1>3
  <2> QED BY <1>1, <2>1, <2>2, <2>3, <2>4 DEF MutexTypes, MxRecords
<1>7. OnlyOwnerHas
  <2>1. \A t \in Threads, m \in Mutexes : ~Handed(t, m) /\ has[t][m] = 0 /\ mx[m].owner # t
    BY <1>1, <1>2, <1>3, <1>4, KernelAssumption DEF Handed
  <2> QED BY <2>1 DEF OnlyOwnerHas
<1>8. WaitersHaveOwner /\ OwnersPriority /\ WaitersInTake /\ DeadUnused
  BY <1>3, <1>4, <1>5 DEF WaitersHaveOwner, OwnersPriority, WaitersInTake, DeadUnused
<1>9. ServicesKnow /\ Due
  BY <1>2 DEF ServicesKnow, Due, Taking
<1> QED BY <1>1, <1>6, <1>7, <1>8, <1>9 DEF MutexInv

\* Every step keeps the invariant and has one of the effects.
LEMMA MutexNextInv ==
  ASSUME MutexInv, DeletersMask, MutexNext
  PROVE  MutexInv' /\ Effect
<1>1. CASE Boot /\ UNCHANGED mutexVars
  BY <1>1, BootStep
<1>2. CASE MutexService
  <2>1. CASE \E m \in Mutexes :
                \/ TakeAgain(m) \/ TakeFree(m) \/ TakeBusy(m)
                \/ \E finite \in BOOLEAN : TakeBlock(m, finite)
                \/ ReleaseNotOwner(m) \/ ReleaseNested(m) \/ ReleaseLast(m)
    <3> PICK m \in Mutexes :
                \/ TakeAgain(m) \/ TakeFree(m) \/ TakeBusy(m)
                \/ \E finite \in BOOLEAN : TakeBlock(m, finite)
                \/ ReleaseNotOwner(m) \/ ReleaseNested(m) \/ ReleaseLast(m)
      BY <2>1
    <3>1. CASE TakeAgain(m)
      BY <3>1, TakeAgainStep
    <3>2. CASE TakeFree(m)
      BY <3>2, TakeFreeStep
    <3>3. CASE TakeBusy(m) \/ ReleaseNotOwner(m)
      BY <3>3, RefusedStep
    <3>4. CASE \E finite \in BOOLEAN : TakeBlock(m, finite)
      BY <3>4, TakeBlockStep
    <3>5. CASE ReleaseNested(m)
      BY <3>5, ReleaseNestedStep
    <3>6. CASE ReleaseLast(m)
      BY <3>6, ReleaseFreesStep, ReleaseHandsStep
    <3> QED BY <3>1, <3>2, <3>3, <3>4, <3>5, <3>6
  <2>2. CASE \E m \in Detachable : Detach(m) \/ InitMutex(m)
    <3>1. PICK m \in Mutexes : m \in Detachable /\ (Detach(m) \/ InitMutex(m))
      BY <2>2, MutexAssumption
    <3> QED BY <3>1, DetachStep, InitMutexStep
  <2>3. CASE \E t \in Workers : DeleteThread(t)
    BY <2>3, DeleteStep
  <2>4. CASE Sleep /\ UNCHANGED mutexVars
    BY <2>4, SleepStep
  <2> QED BY <1>2, <2>1, <2>2, <2>3, <2>4 DEF MutexService
<1>3. CASE MutexContinue
  <2>1. CASE (ScheduleFrom("take", "taken") \/ Schedule) /\ UNCHANGED mutexVars
    BY <2>1, ScheduleStep
  <2>2. CASE Woken /\ UNCHANGED mutexVars
    BY <2>2, WokenStep
  <2>3. CASE TakeReturn
    BY <2>3, TakeReturnStep
  <2>4. CASE DetachTest
    BY <2>4, DetachTestStep
  <2>5. CASE DetachWake
    BY <2>5, DetachWakeStep
  <2>6. CASE DetachDone
    BY <2>6, DetachDoneStep
  <2>7. CASE DeleteEnd /\ UNCHANGED mutexVars
    BY <2>7, DeleteEndStep
  <2> QED BY <1>3, <2>1, <2>2, <2>3, <2>4, <2>5, <2>6, <2>7 DEF MutexContinue, DetachLoop
<1>4. CASE Tick /\ UNCHANGED mutexVars
  BY <1>4, SliceStep, TimeoutStep DEF Tick
<1> QED BY <1>1, <1>2, <1>3, <1>4 DEF MutexNext

\* Nothing changes in a stuttering step.
LEMMA MutexStutter ==
  ASSUME MutexInv, UNCHANGED <<vars, mutexVars>>
  PROVE  MutexInv'
BY DEF vars, mutexVars, MutexInv, CoreInv, Limbo, At, Running, Self, MutexTypes, OnlyOwnerHas,
       Handed, WaitersHaveOwner, OwnersPriority, WaitersInTake, ServicesKnow, DeadUnused,
       Due, Settled

\* The inductive invariant of rt_mutex_take, release, detach and init, with waiters
\* that time out or are deleted, on top of the scheduler.
THEOREM MutexInvariance ==
  ASSUME DeletersMask
  PROVE  MutexSpec => []MutexInv
<1>1. MutexInit => MutexInv
  BY MutexInitInv
<1>2. MutexInv /\ [MutexNext]_<<vars, mutexVars>> => MutexInv'
  BY MutexNextInv, MutexStutter
<1> QED BY <1>1, <1>2, PTL DEF MutexSpec

\* rt_mutex_take and rt_mutex_release: for any number of threads and mutexes, only the
\* owner has been told that it took the mutex, as often as the hold count says; nobody
\* waits for a free mutex; and the scheduler's structures stay sound.
THEOREM MutualExclusion ==
  ASSUME DeletersMask
  PROVE  MutexSpec => []MutexSound
<1>1. MutexInv => MutexSound
  <2> SUFFICES ASSUME MutexInv PROVE MutexSound
    OBVIOUS
  <2>1. MutexTypeOK
    BY MutexAssumption
       DEF MutexInv, CoreInv, Sound, MutexTypes, MutexTypeOK, ServiceArgs
  <2>2. KernelSound
    BY DEF MutexInv, CoreInv, Sound, KernelSound, KernelOK
  <2> QED BY <2>1, <2>2 DEF MutexSound, MutexInv
<1>2. MutexSpec => []MutexInv
  BY MutexInvariance
<1> QED BY <1>1, <1>2, PTL
-----------------------------------------------------------------------------
(* The priority protocol of one mutex.                                     *)

\* The order of a list depends on the priorities of its threads only.
LEMMA InOrderSame ==
  ASSUME NEW s \in Seq(Threads), NEW prio, NEW new, \A x \in ToSet(s) : new[x] = prio[x],
         InOrder(s, prio)
  PROVE  InOrder(s, new)
<1>1. \A i \in DOMAIN s : s[i] \in ToSet(s)
  BY DEF ToSet
<1> QED BY <1>1 DEF InOrder

\* The head of a list in order is its most urgent thread.
LEMMA HeadMostUrgent ==
  ASSUME NEW s \in Seq(Threads), NEW prio \in [Threads -> Priorities], InOrder(s, prio),
         NEW x \in ToSet(s)
  PROVE  prio[Head(s)] <= prio[x]
<1>1. PICK i \in DOMAIN s : s[i] = x
  BY DEF ToSet
<1>2. i \in 1 .. Len(s) /\ 1 \in DOMAIN s /\ Head(s) = s[1]
  OBVIOUS
<1>3. CASE i = 1
  <2>1. s[1] = x /\ x \in Threads
    BY <1>1, <1>2, <1>3
  <2>2. prio[x] \in Int
    BY <2>1 DEF Priorities
  <2> QED BY <1>2, <2>1, <2>2
<1>4. CASE i # 1
  <2>1. 1 < i
    BY <1>2, <1>4
  <2>2. prio[s[1]] <= prio[s[i]]
    BY <1>1, <1>2, <2>1 DEF InOrder
  <2> QED BY <1>1, <1>2, <2>2
<1> QED BY <1>3, <1>4

\* The types that the order of priorities needs.
LEMMA PrioTypes ==
  ASSUME MutexInv
  PROVE  /\ k.prio \in [Threads -> Priorities] /\ \A t \in Threads : k.prio[t] \in Int
         /\ \A m \in Mutexes : /\ k.list[m] \in Seq(Threads) /\ IsInjective(k.list[m])
                               /\ On(k, m) = ToSet(k.list[m]) /\ On(k, m) \subseteq Threads
                               /\ mx[m].owner \in Threads \cup {NoThread}
                               /\ On(k, m) # {} => mx[m].owner \in Threads
                               /\ mx[m].owner \notin On(k, m)
<1>1. k \in KernelStates /\ ListsDisjoint(k)
  BY DEF MutexInv, CoreInv, Sound
<1>2. k.prio \in [Threads -> Priorities] /\ \A t \in Threads : k.prio[t] \in Int
  BY <1>1 DEF KernelStates, Priorities
<1>3. \A m \in Mutexes : /\ k.list[m] \in Seq(Threads) /\ IsInjective(k.list[m])
                         /\ On(k, m) = ToSet(k.list[m])
  BY <1>1, MutexAssumption DEF KernelStates, ListsDisjoint, Lists, On
<1>4. \A m \in Mutexes : On(k, m) \subseteq Threads
  BY <1>3, ElementsIn
<1>5. \A m \in Mutexes : /\ mx[m].owner \in Threads \cup {NoThread}
                         /\ mx[m].owner \notin On(k, m)
                         /\ k.list[m] # <<>> => mx[m].owner # NoThread
  BY DEF MutexInv, MutexTypes, WaitersInTake, WaitersHaveOwner
<1>6. \A m \in Mutexes : On(k, m) # {} => k.list[m] # <<>>
  BY <1>1, MutexAssumption, EmptyQueue
<1> QED BY <1>2, <1>3, <1>4, <1>5, <1>6

\* A thread leaves a queue, or nothing changes.
LEMMA PrioLeave ==
  ASSUME MutexInv, MutexInv', PrioInv, SameOwners, k'.prio = k.prio, base' = base,
         NEW t, Leaves(t)
  PROVE  PrioInv'
<1>1. \A m \in Mutexes : On(k', m) \subseteq On(k, m)
  BY LeavesFacts DEF MutexInv, CoreInv, Sound
<1>2. \A m \in Mutexes : InOrder(k'.list[m], k'.prio)
  <2> SUFFICES ASSUME NEW m \in Mutexes PROVE InOrder(k'.list[m], k.prio)
    OBVIOUS
  <2>1. k.list[m] \in Seq(Threads) /\ IsInjective(k.list[m]) /\ InOrder(k.list[m], k.prio)
    BY PrioTypes DEF PrioInv
  <2>2. InOrder(RemoveFirst(k.list[m], t), k.prio)
    BY <2>1, RemoveInOrder
  <2> QED BY <2>1, <2>2 DEF Leaves
<1> QED BY <1>1, <1>2 DEF PrioInv, SameOwners

\* rt_mutex_take of the free mutex
LEMMA PrioTake ==
  ASSUME MutexInv, MutexInv', PrioInv, OneMutex, base' = base,
         NEW m \in Mutexes, mx[m].owner = NoThread, k.cur \in Threads,
         k'.prio = k.prio, SameLists, OwnedBy(m, k.cur, k.prio[k.cur])
  PROVE  PrioInv'
<1>1. \A n \in Mutexes : n = m
  BY DEF OneMutex
<1>2. mx'[m].owner = k.cur /\ mx'[m].orig = k.prio[k.cur]
  BY DEF OwnedBy
<1>3. k.list[m] = <<>> /\ k'.list[m] = <<>>
  BY DEF MutexInv, WaitersHaveOwner, SameLists
<1>4. On(k', m) = {}
  BY <1>3, MutexAssumption, EmptyQueue DEF MutexInv, CoreInv, Sound
<1>5. \A t \in Threads : k.prio[t] = base[t]
  BY <1>1, KernelAssumption DEF PrioInv
<1>6. InOrder(k'.list[m], k'.prio)
  BY <1>3 DEF PrioInv, SameLists
<1> QED BY <1>1, <1>2, <1>4, <1>5, <1>6 DEF PrioInv

\* rt_mutex_take queues up and raises the owner.
LEMMA PrioJoin ==
  ASSUME MutexInv, MutexInv', PrioInv, OneMutex, base' = base, NEW m \in Mutexes, Joins(m)
  PROVE  PrioInv'
<1>1. \A n \in Mutexes : n = m
  BY DEF OneMutex
<1>2. PICK o \in Threads : o = mx[m].owner
  BY DEF Joins
<1>3. PICK p \in Priorities :
         p <= k.prio[k.cur] /\ p <= k.prio[o] /\ Moved(o, p)
  BY <1>2 DEF Joins
<1>4. /\ \A x \in Threads : k'.prio[x] = IF x = o THEN p ELSE k.prio[x]
      /\ k.cur \in Threads /\ k.cur # o /\ On(k', m) = On(k, m) \cup {k.cur}
      /\ mx'[m].owner = o /\ mx'[m].orig = mx[m].orig
  BY <1>2, <1>3 DEF Joins, Moved, SameOwners
<1>5. /\ k.list[m] \in Seq(Threads) /\ On(k, m) = ToSet(k.list[m]) /\ On(k, m) \subseteq Threads
      /\ o \notin On(k, m) /\ \A t \in Threads : k.prio[t] \in Int
  BY <1>2, PrioTypes
<1>6. InOrder(k'.list[m], k'.prio)
  <2>1. \A x \in ToSet(k.list[m]) : k'.prio[x] = k.prio[x]
    BY <1>4, <1>5
  <2>2. InOrder(k.list[m], k'.prio)
    BY <1>5, <2>1, InOrderSame DEF PrioInv
  <2> QED BY <2>2 DEF Joins
<1>7. \A w \in On(k', m) : k'.prio[mx'[m].owner] <= k'.prio[w]
  <2> SUFFICES ASSUME NEW w \in On(k', m) PROVE p <= k'.prio[w]
    BY <1>2, <1>4
  <2>1. p \in Int
    BY DEF Priorities
  <2>2. CASE w = k.cur
    BY <1>3, <1>4, <2>2
  <2>3. CASE w \in On(k, m)
    <3>1. k.prio[o] <= k.prio[w] /\ k'.prio[w] = k.prio[w] /\ w \in Threads
      BY <1>2, <1>4, <1>5, <2>3 DEF PrioInv
    <3>2. k.prio[o] \in Int /\ k.prio[w] \in Int
      BY <1>2, <1>5, <3>1
    <3> QED BY <1>3, <2>1, <3>1, <3>2
  <2> QED BY <1>4, <2>2, <2>3
<1>8. mx'[m].orig = base'[mx'[m].owner]
  BY <1>2, <1>4, KernelAssumption DEF PrioInv
<1>9. \A t \in Threads : t # o => k'.prio[t] = base'[t]
  BY <1>1, <1>2, <1>4 DEF PrioInv
<1> QED BY <1>1, <1>4, <1>6, <1>7, <1>8, <1>9 DEF PrioInv

\* rt_mutex_release restores the owner and hands the mutex to the most urgent waiter.
LEMMA PrioHand ==
  ASSUME MutexInv, MutexInv', PrioInv, OneMutex, base' = base, NEW m \in Mutexes, Hands(m)
  PROVE  PrioInv'
<1>1. \A n \in Mutexes : n = m
  BY DEF OneMutex
<1>2. PICK h : h = Head(k.list[m])
  OBVIOUS
<1>3. /\ k.list[m] # <<>> /\ mx[m].owner = k.cur /\ k.cur \in Threads
      /\ \A x \in Threads : k'.prio[x] = IF x = k.cur THEN mx[m].orig ELSE k.prio[x]
      /\ k'.list[m] = k.list[m] \/ k'.list[m] = RemoveFirst(k.list[m], h)
      /\ On(k', m) = On(k, m) \ {h} /\ mx'[m].owner = h /\ mx'[m].orig = k'.prio[h]
  BY <1>2 DEF Hands, Moved, Leaves, OwnedBy
<1>4. /\ k.list[m] \in Seq(Threads) /\ IsInjective(k.list[m])
      /\ On(k, m) = ToSet(k.list[m]) /\ On(k, m) \subseteq Threads /\ k.cur \notin On(k, m)
      /\ k.prio \in [Threads -> Priorities]
  BY <1>3, PrioTypes
<1>5. h \in On(k, m) /\ h \in Threads /\ h # k.cur
  BY <1>2, <1>3, <1>4, HeadIn
<1>6. InOrder(k'.list[m], k'.prio)
  <2>1. \A x \in ToSet(k.list[m]) : k'.prio[x] = k.prio[x]
    BY <1>3, <1>4
  <2>2. InOrder(k.list[m], k'.prio)
    BY <1>4, <2>1, InOrderSame DEF PrioInv
  <2>3. InOrder(RemoveFirst(k.list[m], h), k'.prio)
    BY <1>4, <2>2, RemoveInOrder
  <2> QED BY <1>3, <2>2, <2>3
<1>7. \A w \in On(k', m) : k'.prio[mx'[m].owner] <= k'.prio[w]
  <2> SUFFICES ASSUME NEW w \in On(k', m) PROVE k'.prio[h] <= k'.prio[w]
    BY <1>3
  <2>1. w \in ToSet(k.list[m]) /\ w \in Threads /\ w # k.cur
    BY <1>3, <1>4
  <2>2. InOrder(k.list[m], k.prio)
    BY DEF PrioInv
  <2>3. k.prio[h] <= k.prio[w]
    BY <1>2, <1>4, <2>1, <2>2, HeadMostUrgent
  <2> QED BY <1>3, <1>5, <2>1, <2>3
<1>8. \A t \in Threads : k'.prio[t] = base[t]
  <2> SUFFICES ASSUME NEW t \in Threads PROVE k'.prio[t] = base[t]
    OBVIOUS
  <2>1. CASE t = k.cur
    BY <1>3, <2>1, KernelAssumption DEF PrioInv
  <2>2. CASE t # k.cur
    BY <1>1, <1>3, <2>2 DEF PrioInv
  <2> QED BY <2>1, <2>2
<1>9. mx'[m].orig = base'[mx'[m].owner]
  BY <1>3, <1>5, <1>8
<1> QED BY <1>1, <1>6, <1>7, <1>8, <1>9 DEF PrioInv

\* rt_mutex_release restores the owner; nobody waits.
LEMMA PrioFree ==
  ASSUME MutexInv, MutexInv', PrioInv, OneMutex, base' = base, NEW m \in Mutexes, Frees(m)
  PROVE  PrioInv'
<1>1. \A n \in Mutexes : n = m
  BY DEF OneMutex
<1>2. /\ k.list[m] = <<>> /\ mx[m].owner = k.cur /\ k.cur \in Threads
      /\ \A x \in Threads : k'.prio[x] = IF x = k.cur THEN mx[m].orig ELSE k.prio[x]
      /\ k'.list[m] = <<>> /\ mx'[m].owner = NoThread
  BY DEF Frees, Moved, SameLists
<1>3. On(k', m) = {} /\ InOrder(k'.list[m], k'.prio)
  BY <1>2, MutexAssumption, EmptyQueue DEF MutexInv, CoreInv, Sound, InOrder
<1>4. \A t \in Threads : k'.prio[t] = base[t]
  <2> SUFFICES ASSUME NEW t \in Threads PROVE k'.prio[t] = base[t]
    OBVIOUS
  <2>1. CASE t = k.cur
    BY <1>2, <2>1, KernelAssumption DEF PrioInv
  <2>2. CASE t # k.cur
    BY <1>1, <1>2, <2>2 DEF PrioInv
  <2> QED BY <2>1, <2>2
<1> QED BY <1>1, <1>2, <1>3, <1>4 DEF PrioInv

\* Whatever the step does, the priority protocol goes on.
LEMMA PrioStep ==
  ASSUME MutexInv, MutexInv', PrioInv, OneMutex, Effect
  PROVE  PrioInv'
<1>1. base' = base /\ Detachable = {}
  BY DEF Effect, OneMutex
<1>2. CASE SameOwners /\ k'.prio = k.prio /\ \E t : Leaves(t)
  BY <1>1, <1>2, PrioLeave
<1>3. CASE \E m \in Mutexes : /\ mx[m].owner = NoThread /\ k.cur \in Threads
                              /\ k'.prio = k.prio /\ SameLists
                              /\ OwnedBy(m, k.cur, k.prio[k.cur])
  BY <1>1, <1>3, PrioTake
<1>4. CASE \E m \in Mutexes : Joins(m) \/ Hands(m) \/ Frees(m)
  BY <1>1, <1>4, PrioJoin, PrioHand, PrioFree
<1> QED BY <1>1, <1>2, <1>3, <1>4 DEF Effect

\* At boot every thread has its own priority and nobody waits.
LEMMA PrioInitInv == MutexInit => PrioInv
<1> SUFFICES ASSUME MutexInit PROVE PrioInv
  OBVIOUS
<1>1. MutexInv /\ base = k.prio /\ \A m \in Mutexes : mx[m].owner = NoThread
  BY MutexInitInv DEF MutexInit, Free
<1>2. \A m \in Mutexes : k.list[m] = <<>> /\ On(k, m) = {}
  BY <1>1, MutexAssumption, EmptyQueue DEF MutexInv, WaitersHaveOwner, CoreInv, Sound
<1> QED BY <1>1, <1>2 DEF PrioInv, InOrder

\* Inheritance and restoration for one mutex: the owner is as urgent as every waiter,
\* the waiters queue by priority, original_priority is the owner's own priority, and
\* whoever owns nothing has its own.
THEOREM PrioInvariance ==
  ASSUME DeletersMask, OneMutex
  PROVE  MutexSpec => []PrioInv
<1>1. MutexInit => PrioInv
  BY PrioInitInv
<1>2. MutexInv /\ MutexInv' /\ PrioInv /\ [MutexNext]_<<vars, mutexVars>> => PrioInv'
  <2> SUFFICES ASSUME MutexInv, MutexInv', PrioInv, [MutexNext]_<<vars, mutexVars>>
               PROVE  PrioInv'
    OBVIOUS
  <2>1. CASE MutexNext
    BY <2>1, MutexNextInv, PrioStep
  <2>2. CASE UNCHANGED <<vars, mutexVars>>
    BY <2>2 DEF vars, mutexVars, PrioInv
  <2> QED BY <2>1, <2>2
<1>3. MutexSpec => []MutexInv
  BY MutexInvariance
<1> QED BY <1>1, <1>2, <1>3, PTL DEF MutexSpec

\* Priority inheritance in rt_mutex_take ("FIFO cannot solve the unbounded priority
\* inversion problem"): the owner of the mutex is as urgent as every waiter.
THEOREM OwnerInherits ==
  ASSUME DeletersMask, OneMutex
  PROVE  MutexSpec => []PriorityProtocol
<1>1. PrioInv => PriorityProtocol
  BY DEF PrioInv, PriorityProtocol, Inherits, WaitersSorted, InOrder
<1>2. MutexSpec => []PrioInv
  BY PrioInvariance
<1> QED BY <1>1, <1>2, PTL

\* "change the owner thread to original priority" in rt_mutex_release: a thread that
\* owns no mutex runs at the priority it was created with.
THEOREM ReleaseRestores ==
  ASSUME DeletersMask, OneMutex
  PROVE  MutexSpec => []PriorityRestored
<1>1. PrioInv => PriorityRestored
  BY DEF PrioInv, PriorityRestored
<1>2. MutexSpec => []PrioInv
  BY PrioInvariance
<1> QED BY <1>1, <1>2, PTL

\* No unbounded inversion: a thread that waits for a mutex with a READY owner is kept
\* from the CPU by nobody less urgent than itself, once the rt_schedule that is due
\* has been made.
THEOREM InversionIsBounded ==
  ASSUME DeletersMask, OneMutex
  PROVE  MutexSpec => []NoInversion
<1>1. MutexInv /\ PrioInv => NoInversion
  <2> SUFFICES ASSUME MutexInv, PrioInv, NEW m \in Mutexes, NEW w \in On(k, m),
                      k.cur # NoThread, k.stat[k.cur] = "running",
                      k.stat[mx[m].owner] = "ready"
               PROVE  k.prio[k.cur] <= k.prio[w] \/ pc[k.cur] = "sched" \/ lazy
    BY DEF NoInversion, Running, Self
  <2>1. /\ mx[m].owner \in Threads /\ w \in Threads /\ \A t \in Threads : k.prio[t] \in Int
    BY PrioTypes
  <2>2. k.cur \in Threads
    BY DEF MutexInv, CoreInv, Sound, KernelStates
  <2>3. k.prio[mx[m].owner] <= k.prio[w]
    BY DEF PrioInv
  <2>4. CASE Settled(k)
    <3>1. k.prio[k.cur] <= k.prio[mx[m].owner]
      BY <2>1, <2>4 DEF Settled
    <3>2. k.prio[k.cur] \in Int /\ k.prio[mx[m].owner] \in Int /\ k.prio[w] \in Int
      BY <2>1, <2>2
    <3> QED BY <2>3, <3>1, <3>2
  <2>5. CASE ~ Settled(k)
    BY <2>5 DEF MutexInv, Due
  <2> QED BY <2>4, <2>5
<1>2. MutexSpec => []MutexInv
  BY MutexInvariance
<1>3. MutexSpec => []PrioInv
  BY PrioInvariance
<1> QED BY <1>1, <1>2, <1>3, PTL
=============================================================================
