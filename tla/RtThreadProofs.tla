--------------------------- MODULE RtThreadProofs ---------------------------
(***************************************************************************)
(* Proofs about the thread kernel, in three parts.                         *)
(*                                                                         *)
(* The primitives of RtKernel, for every set of threads, every number of   *)
(* priorities and every set of suspend lists: each primitive that the code *)
(* runs with interrupts disabled takes a state whose lists, states, timers *)
(* and priority group agree to another such state, and does to a suspend   *)
(* list, as a sequence, what the components that block rely on.            *)
(*                                                                         *)
(* RtThread, for any interleaving of services and ticks: the scheduler's   *)
(* data structures stay consistent, provided the services that work on     *)
(* another thread in two critical sections are called with interrupts      *)
(* disabled, and no switch that is due gets lost.                          *)
(*                                                                         *)
(* The kernel half of the components' invariants (CoreInv): the steps of   *)
(* RtThread that other components take over keep it.                       *)
(***************************************************************************)
EXTENDS RtThread, ListProofs

-----------------------------------------------------------------------------
(* The list operations, seen as operations on the sets of linked threads.  *)

\* KernelOK without its last two conjuncts' concern for the current thread.
Sound(ks, X) ==
  /\ ks \in KernelStates
  /\ ListsDisjoint(ks)
  /\ GroupExact(ks)
  /\ ReadyListsSound(ks)
  /\ ReadyThreadsQueued(ks, X)
  /\ WaitersSuspended(ks)
  /\ DefunctClosed(ks)
  /\ TimersSuspended(ks)

\* No list holds t.
Detached(ks, t) == \A l \in Lists : t \notin On(ks, l)

\* The fields that a list operation leaves alone.
SameButLists(u, ks) ==
  /\ u.stat = ks.stat /\ u.yield = ks.yield /\ u.prio = ks.prio
  /\ u.error = ks.error /\ u.timer = ks.timer
  /\ u.cur = ks.cur /\ u.lock = ks.lock

LEMMA UnlinkFacts ==
  ASSUME NEW ks \in KernelStates, NEW t \in Threads, ListsDisjoint(ks)
  PROVE  /\ Unlink(ks, t) \in KernelStates
         /\ ListsDisjoint(Unlink(ks, t))
         /\ \A l \in Lists : On(Unlink(ks, t), l) = On(ks, l) \ {t}
         /\ SameButLists(Unlink(ks, t), ks)
         /\ Unlink(ks, t).group = ks.group
<1> DEFINE u == Unlink(ks, t)
<1>1. /\ SameButLists(u, ks)
      /\ u.group = ks.group
      /\ u.list = [l \in Lists |-> RemoveFirst(ks.list[l], t)]
  BY DEF Unlink, KernelStates, SameButLists
<1>2. ASSUME NEW l \in Lists
      PROVE  /\ u.list[l] \in Seq(Threads)
             /\ IsInjective(u.list[l])
             /\ On(u, l) = On(ks, l) \ {t}
  <2>1. ks.list[l] \in Seq(Threads) /\ IsInjective(ks.list[l])
    BY DEF KernelStates, ListsDisjoint
  <2>2. u.list[l] = RemoveFirst(ks.list[l], t)
    BY <1>1
  <2> QED BY <2>1, <2>2, RemoveFirstProps DEF On
<1>3. u.list \in [Lists -> Seq(Threads)]
  BY <1>1, <1>2
<1>4. u \in KernelStates
  BY <1>3 DEF Unlink, KernelStates
<1>5. ListsDisjoint(u)
  BY <1>2 DEF ListsDisjoint
<1> QED BY <1>1, <1>2, <1>4, <1>5

\* Linking a detached thread into list l, wherever in the list.
LEMMA LinkFacts ==
  ASSUME NEW ks, ListsDisjoint(ks), NEW l \in Lists, NEW t \in Threads, Detached(ks, t),
         NEW s, ToSet(s) = On(ks, l) \cup {t}, IsInjective(s),
         NEW u, \A m \in Lists : u.list[m] = IF m = l THEN s ELSE ks.list[m]
  PROVE  /\ ListsDisjoint(u)
         /\ \A m \in Lists : On(u, m) = IF m = l THEN On(ks, l) \cup {t} ELSE On(ks, m)
<1>1. \A m \in Lists : On(u, m) = IF m = l THEN On(ks, l) \cup {t} ELSE On(ks, m)
  BY DEF On
<1>2. \A m \in Lists : IsInjective(u.list[m])
  BY DEF ListsDisjoint
<1>3. \A m, n \in Lists : m # n => On(u, m) \cap On(u, n) = {}
  BY <1>1 DEF ListsDisjoint, Detached
<1> QED BY <1>1, <1>2, <1>3 DEF ListsDisjoint

\* The priority group, in terms of the threads in the ready lists.
LEMMA GroupSets ==
  ASSUME NEW ks \in KernelStates
  PROVE  GroupExact(ks) <=> \A p \in Priorities : p \in ks.group <=> On(ks, p) # {}
<1>1. \A p \in Priorities : (ks.list[p] = <<>>) <=> (On(ks, p) = {})
  <2> SUFFICES ASSUME NEW p \in Priorities
               PROVE  (ks.list[p] = <<>>) <=> (On(ks, p) = {})
    OBVIOUS
  <2>1. ks.list[p] \in Seq(Threads)
    BY DEF KernelStates, Lists
  <2> QED BY <2>1, EmptyList DEF On
<1>2. ks.group \subseteq Priorities
  BY DEF KernelStates
<1> QED BY <1>1, <1>2 DEF GroupExact

\* In a sound state a thread's state says which lists may hold it.
LEMMA WhereLinked ==
  ASSUME NEW ks, NEW X, Sound(ks, X), NEW t \in Threads
  PROVE  /\ \A p \in Priorities : t \in On(ks, p) => ks.stat[t] = "ready" /\ ks.prio[t] = p
         /\ \A q \in Queues : t \in On(ks, q) => ks.stat[t] = "suspend"
         /\ t \in On(ks, Defunct) => ks.stat[t] = "close"
         /\ ks.stat[t] \notin {"ready", "suspend", "close"} => Detached(ks, t)
BY DEF Sound, ReadyListsSound, WaitersSuspended, DefunctClosed, Detached, Lists

\* rt_schedule_remove_thread leaves a sound state without the thread, whichever
\* list held it.
LEMMA RemoveSound ==
  ASSUME NEW ks, NEW X, Sound(ks, X), NEW t \in Threads
  PROVE  /\ Sound(ScheduleRemove(ks, t), X \cup {t})
         /\ Detached(ScheduleRemove(ks, t), t)
         /\ SameButLists(ScheduleRemove(ks, t), ks)
         /\ \A l \in Lists : On(ScheduleRemove(ks, t), l) = On(ks, l) \ {t}
<1> DEFINE u == Unlink(ks, t)
           r == ScheduleRemove(ks, t)
           p0 == ks.prio[t]
<1>1. ks \in KernelStates /\ ListsDisjoint(ks)
  BY DEF Sound
<1>2. /\ u \in KernelStates
      /\ ListsDisjoint(u)
      /\ \A l \in Lists : On(u, l) = On(ks, l) \ {t}
      /\ SameButLists(u, ks)
      /\ u.group = ks.group
  BY <1>1, UnlinkFacts
<1>3. p0 \in Priorities
  BY <1>1 DEF KernelStates
<1>4. (u.list[p0] = <<>>) <=> (On(u, p0) = {})
  <2>1. u.list[p0] \in Seq(Threads)
    BY <1>2, <1>3 DEF KernelStates, Lists
  <2> QED BY <2>1, EmptyList DEF On
<1>5. r = [u EXCEPT !.group = IF u.list[p0] = <<>> THEN u.group \ {p0} ELSE u.group]
  BY DEF ScheduleRemove
<1> HIDE DEF u, r
<1>6. /\ r \in KernelStates
      /\ r.list = u.list
      /\ SameButLists(r, ks)
      /\ r.group = IF u.list[p0] = <<>> THEN ks.group \ {p0} ELSE ks.group
  BY <1>2, <1>5 DEF KernelStates, SameButLists
<1>7. \A l \in Lists : On(r, l) = On(ks, l) \ {t}
  BY <1>2, <1>6 DEF On
<1>8. Detached(r, t)
  BY <1>7 DEF Detached
<1>9. ListsDisjoint(r)
  BY <1>2, <1>6 DEF ListsDisjoint, On
<1>10. GroupExact(r)
  <2>1. \A p \in Priorities : p \in ks.group <=> On(ks, p) # {}
    BY <1>1, GroupSets DEF Sound
  <2>2. ASSUME NEW p \in Priorities PROVE p \in r.group <=> On(r, p) # {}
    <3>1. CASE p = p0
      <4>1. p0 \in r.group <=> On(u, p0) # {}
        <5>1. On(u, p0) = On(ks, p0) \ {t}
          BY <1>2, <1>3 DEF Lists
        <5>2. On(u, p0) # {} => p0 \in ks.group
          BY <5>1, <2>1, <1>3
        <5> QED BY <1>4, <1>6, <5>2
      <4>2. On(r, p0) = On(u, p0)
        BY <1>6 DEF On
      <4> QED BY <3>1, <4>1, <4>2
    <3>2. CASE p # p0
      <4>1. t \notin On(ks, p)
        BY <3>2, WhereLinked
      <4>2. On(r, p) = On(ks, p)
        BY <4>1, <1>7 DEF Lists
      <4> QED BY <4>2, <3>2, <1>6, <2>1
    <3> QED BY <3>1, <3>2
  <2> QED BY <2>2, <1>6, GroupSets
<1>11. ReadyListsSound(r) /\ WaitersSuspended(r) /\ DefunctClosed(r) /\ TimersSuspended(r)
  BY <1>6, <1>7 DEF Sound, ReadyListsSound, WaitersSuspended, DefunctClosed, TimersSuspended,
                    SameButLists, Lists
<1>12. ReadyThreadsQueued(r, X \cup {t})
  <2>1. \A x \in Threads : ks.prio[x] \in Lists
    BY <1>1 DEF KernelStates, Lists
  <2> QED BY <1>6, <1>7, <2>1 DEF Sound, ReadyThreadsQueued, SameButLists
<1> QED BY <1>6, <1>7, <1>8, <1>9, <1>10, <1>11, <1>12 DEF Sound, r

\* The fields that a change of state leaves alone.
SameButStat(u, ks) ==
  /\ u.list = ks.list /\ u.group = ks.group /\ u.prio = ks.prio
  /\ u.error = ks.error /\ u.timer = ks.timer
  /\ u.cur = ks.cur /\ u.lock = ks.lock

\* Giving a detached thread a state other than READY.
LEMMA StatSound ==
  ASSUME NEW ks, NEW X, Sound(ks, X), NEW t \in Threads, Detached(ks, t),
         NEW s \in Stats, s # "ready", s = "suspend" \/ t \notin ks.timer,
         NEW u \in KernelStates, SameButStat(u, ks),
         \A x \in Threads : u.stat[x] = IF x = t THEN s ELSE ks.stat[x]
  PROVE  Sound(u, X \ {t}) /\ Detached(u, t)
<1>1. ks \in KernelStates
  BY DEF Sound
<1>2. u.list = ks.list /\ u.group = ks.group /\ u.prio = ks.prio /\ u.timer = ks.timer
  BY DEF SameButStat
<1>5. \A l : On(u, l) = On(ks, l)
  BY <1>2 DEF On
<1>6. ListsDisjoint(u) /\ GroupExact(u)
  BY <1>2, <1>5 DEF Sound, ListsDisjoint, GroupExact
<1>7. \A l \in Lists : On(ks, l) \subseteq Threads
  <2> SUFFICES ASSUME NEW l \in Lists PROVE On(ks, l) \subseteq Threads
    OBVIOUS
  <2>1. ks.list[l] \in Seq(Threads)
    BY <1>1 DEF KernelStates
  <2> QED BY <2>1, ElementsIn DEF On
<1>8. ReadyListsSound(u) /\ WaitersSuspended(u) /\ DefunctClosed(u)
  BY <1>2, <1>5, <1>7 DEF Sound, ReadyListsSound, WaitersSuspended, DefunctClosed, Detached, Lists
<1>9. ReadyThreadsQueued(u, X \ {t})
  BY <1>2, <1>5 DEF Sound, ReadyThreadsQueued
<1>10. TimersSuspended(u)
  <2>1. ks.timer \subseteq Threads
    BY <1>1 DEF KernelStates
  <2> QED BY <1>2, <2>1 DEF Sound, TimersSuspended
<1> QED BY <1>5, <1>6, <1>8, <1>9, <1>10 DEF Sound, Detached

LEMMA SetStatSound ==
  ASSUME NEW ks, NEW X, Sound(ks, X), NEW t \in Threads, Detached(ks, t),
         NEW s \in Stats, s # "ready", s = "suspend" \/ t \notin ks.timer
  PROVE  /\ Sound(SetStat(ks, t, s), X \ {t})
         /\ Detached(SetStat(ks, t, s), t)
         /\ SameButStat(SetStat(ks, t, s), ks)
         /\ SetStat(ks, t, s).yield = ks.yield
         /\ \A x \in Threads : SetStat(ks, t, s).stat[x] = IF x = t THEN s ELSE ks.stat[x]
<1>1. ks \in KernelStates
  BY DEF Sound
<1>2. /\ SetStat(ks, t, s) \in KernelStates
      /\ SameButStat(SetStat(ks, t, s), ks)
      /\ SetStat(ks, t, s).yield = ks.yield
      /\ \A x \in Threads : SetStat(ks, t, s).stat[x] = IF x = t THEN s ELSE ks.stat[x]
  BY <1>1 DEF KernelStates, SetStat, SameButStat
<1> QED BY <1>2, StatSound

LEMMA AssignStatSound ==
  ASSUME NEW ks, NEW X, Sound(ks, X), NEW t \in Threads, Detached(ks, t),
         NEW s \in Stats, s # "ready", s = "suspend" \/ t \notin ks.timer
  PROVE  /\ Sound(AssignStat(ks, t, s), X \ {t})
         /\ Detached(AssignStat(ks, t, s), t)
         /\ SameButStat(AssignStat(ks, t, s), ks)
         /\ \A x \in Threads : AssignStat(ks, t, s).stat[x] = IF x = t THEN s ELSE ks.stat[x]
<1>1. ks \in KernelStates
  BY DEF Sound
<1>2. /\ AssignStat(ks, t, s) \in KernelStates
      /\ SameButStat(AssignStat(ks, t, s), ks)
      /\ \A x \in Threads : AssignStat(ks, t, s).stat[x] = IF x = t THEN s ELSE ks.stat[x]
  BY <1>1 DEF KernelStates, AssignStat, SameButStat
<1> QED BY <1>2, StatSound

\* The fields that rt_schedule_insert_thread leaves alone.
SameButQueue(u, ks) ==
  /\ u.prio = ks.prio /\ u.error = ks.error /\ u.timer = ks.timer
  /\ u.yield = ks.yield /\ u.cur = ks.cur /\ u.lock = ks.lock

\* rt_schedule_insert_thread takes a detached thread to the ready list of its
\* priority, or marks it as running when it is the current thread.
LEMMA InsertSound ==
  ASSUME NEW ks, NEW X, Sound(ks, X), NEW t \in Threads, Detached(ks, t), t \notin ks.timer
  PROVE  /\ Sound(ScheduleInsert(ks, t), X \ {t})
         /\ SameButQueue(ScheduleInsert(ks, t), ks)
         /\ \A x \in Threads :
              ScheduleInsert(ks, t).stat[x] =
                IF x # t THEN ks.stat[x] ELSE IF t = ks.cur THEN "running" ELSE "ready"
         /\ \A l \in Lists :
              On(ScheduleInsert(ks, t), l) =
                IF t # ks.cur /\ l = ks.prio[t] THEN On(ks, l) \cup {t} ELSE On(ks, l)
<1>1. ks \in KernelStates /\ ListsDisjoint(ks)
  BY DEF Sound
<1>2. CASE t = ks.cur
  <2>1. ScheduleInsert(ks, t) = SetStat(ks, t, "running")
    BY <1>2 DEF ScheduleInsert
  <2>2. PICK s \in Stats : s # "ready" /\ s = "running"
    BY DEF Stats
  <2>3. /\ Sound(SetStat(ks, t, s), X \ {t}) /\ SameButStat(SetStat(ks, t, s), ks)
        /\ SetStat(ks, t, s).yield = ks.yield
        /\ \A x \in Threads : SetStat(ks, t, s).stat[x] = IF x = t THEN s ELSE ks.stat[x]
    <3>1. s \in Stats /\ s # "ready" /\ (s = "suspend" \/ t \notin ks.timer)
      BY <2>2
    <3> QED BY <3>1, SetStatSound
  <2>4. ScheduleInsert(ks, t) = SetStat(ks, t, s)
    BY <2>1, <2>2
  <2> QED BY <1>2, <2>2, <2>3, <2>4 DEF SameButStat, SameButQueue, On
<1>3. CASE t # ks.cur
  <2> DEFINE p0 == ks.prio[t]
             v == SetStat(ks, t, "ready")
             w == LinkLast(v, p0, t)
             r == ScheduleInsert(ks, t)
  <2>1. p0 \in Priorities /\ p0 \in Lists
    BY <1>1 DEF KernelStates, Lists
  <2>2. /\ v \in KernelStates
        /\ SameButStat(v, ks) /\ v.yield = ks.yield
        /\ \A x \in Threads : v.stat[x] = IF x = t THEN "ready" ELSE ks.stat[x]
    BY <1>1 DEF KernelStates, SetStat, SameButStat, Stats
  <2>3. r = [w EXCEPT !.group = w.group \cup {p0}]
    BY <1>3 DEF ScheduleInsert
  <2>4. w = [v EXCEPT !.list[p0] = Append(v.list[p0], t)]
    BY DEF LinkLast
  <2> HIDE DEF v, w, r
  <2>5. \A l : On(v, l) = On(ks, l)
    BY <2>2 DEF On, SameButStat
  <2>6. ListsDisjoint(v) /\ Detached(v, t)
    BY <1>1, <2>2, <2>5 DEF ListsDisjoint, Detached, SameButStat
  <2>7. /\ Append(v.list[p0], t) \in Seq(Threads)
        /\ ToSet(Append(v.list[p0], t)) = On(v, p0) \cup {t}
        /\ IsInjective(Append(v.list[p0], t))
    <3>1. v.list[p0] \in Seq(Threads) /\ IsInjective(v.list[p0])
      BY <2>1, <2>2, <2>6 DEF KernelStates, ListsDisjoint
    <3>2. t \notin ToSet(v.list[p0])
      BY <2>1, <2>6 DEF Detached, On
    <3> QED BY <3>1, <3>2, AppendProps DEF On
  <2>8. /\ w \in KernelStates
        /\ ListsDisjoint(w)
        /\ \A m \in Lists : On(w, m) = IF m = p0 THEN On(v, p0) \cup {t} ELSE On(v, m)
        /\ SameButLists(w, v)
        /\ w.group = v.group
    <3>1. /\ w \in KernelStates
          /\ SameButLists(w, v)
          /\ w.group = v.group
          /\ \A m \in Lists : w.list[m] = IF m = p0 THEN Append(v.list[p0], t) ELSE v.list[m]
      BY <2>1, <2>2, <2>4, <2>7 DEF KernelStates, SameButLists
    <3> QED BY <2>1, <2>6, <2>7, <3>1, LinkFacts
  <2>9. /\ r \in KernelStates
        /\ r.list = w.list
        /\ SameButLists(r, w)
        /\ r.group = ks.group \cup {p0}
    BY <2>1, <2>2, <2>3, <2>8 DEF KernelStates, SameButLists, SameButStat
  <2>10. \A l \in Lists : On(r, l) = IF l = p0 THEN On(ks, l) \cup {t} ELSE On(ks, l)
    BY <2>5, <2>8, <2>9 DEF On
  <2>11. \A x \in Threads : r.stat[x] = IF x = t THEN "ready" ELSE ks.stat[x]
    BY <2>2, <2>8, <2>9 DEF SameButLists
  <2>12. SameButQueue(r, ks)
    BY <2>2, <2>8, <2>9 DEF SameButLists, SameButStat, SameButQueue
  <2>13. ListsDisjoint(r)
    BY <2>8, <2>9 DEF ListsDisjoint, On
  <2>14. GroupExact(r)
    <3>1. \A p \in Priorities : p \in ks.group <=> On(ks, p) # {}
      BY <1>1, GroupSets DEF Sound
    <3>2. \A p \in Priorities : p \in r.group <=> On(r, p) # {}
      BY <3>1, <2>9, <2>10 DEF Lists
    <3> QED BY <3>2, <2>9, GroupSets
  <2>15. ReadyListsSound(r)
    <3>1. ASSUME NEW p \in Priorities, NEW x \in On(r, p)
          PROVE  r.stat[x] = "ready" /\ r.prio[x] = p
      <4>1. p \in Lists /\ (x \in On(ks, p) \/ (x = t /\ p = p0))
        BY <3>1, <2>10 DEF Lists
      <4>2. x \in Threads
        <5>1. r.list[p] \in Seq(Threads)
          BY <2>9, <4>1 DEF KernelStates
        <5> QED BY <5>1, <3>1, ElementsIn DEF On
      <4> QED BY <4>1, <4>2, <2>11, <2>12 DEF Sound, ReadyListsSound, SameButQueue
    <3> QED BY <3>1 DEF ReadyListsSound
  <2>16. \A l \in Lists \ Priorities : On(r, l) = On(ks, l) /\ t \notin On(ks, l)
    BY <2>1, <2>10 DEF Detached
  <2>17. \A l \in Lists : \A x \in On(ks, l) : x \in Threads
    <3> SUFFICES ASSUME NEW l \in Lists PROVE On(ks, l) \subseteq Threads
      OBVIOUS
    <3>1. ks.list[l] \in Seq(Threads)
      BY <1>1 DEF KernelStates
    <3> QED BY <3>1, ElementsIn DEF On
  <2>18. /\ \A q \in Queues : q \in Lists \ Priorities
         /\ Defunct \in Lists \ Priorities
    BY KernelAssumption DEF Lists
  <2>19. WaitersSuspended(r) /\ DefunctClosed(r)
    BY <2>11, <2>16, <2>17, <2>18 DEF Sound, WaitersSuspended, DefunctClosed
  <2>20. TimersSuspended(r)
    <3>1. ks.timer \subseteq Threads
      BY <1>1 DEF KernelStates
    <3> QED BY <3>1, <2>11, <2>12 DEF Sound, TimersSuspended, SameButQueue
  <2>21. ReadyThreadsQueued(r, X \ {t})
    <3>1. \A x \in Threads : ks.prio[x] \in Lists
      BY <1>1 DEF KernelStates, Lists
    <3> QED BY <3>1, <2>10, <2>11, <2>12 DEF Sound, ReadyThreadsQueued, SameButQueue
  <2>22. Sound(r, X \ {t})
    BY <2>9, <2>13, <2>14, <2>15, <2>19, <2>20, <2>21 DEF Sound
  <2> QED BY <1>3, <2>10, <2>11, <2>12, <2>22 DEF r
<1> QED BY <1>2, <1>3

\* Changes of other fields keep a state sound as long as no thread in a ready
\* list changes its priority and only suspended threads have an active timer.
LEMMA FieldsSound ==
  ASSUME NEW ks, NEW X, Sound(ks, X),
         NEW u \in KernelStates, u.list = ks.list, u.group = ks.group, u.stat = ks.stat,
         \A x \in Threads : ks.stat[x] = "ready" =>
            u.prio[x] = ks.prio[x] \/ (x \in X /\ Detached(ks, x)),
         \A x \in u.timer : ks.stat[x] = "suspend"
  PROVE  Sound(u, X) /\ \A l : On(u, l) = On(ks, l)
<1>1. \A l : On(u, l) = On(ks, l)
  BY DEF On
<1>2. ListsDisjoint(u) /\ GroupExact(u) /\ WaitersSuspended(u) /\ DefunctClosed(u) /\ TimersSuspended(u)
  BY <1>1 DEF Sound, ListsDisjoint, GroupExact, WaitersSuspended, DefunctClosed, TimersSuspended
<1>3. ReadyListsSound(u)
  <2>1. \A p \in Priorities : \A x \in On(ks, p) : x \in Threads
    <3> SUFFICES ASSUME NEW p \in Priorities PROVE On(ks, p) \subseteq Threads
      OBVIOUS
    <3>1. ks.list[p] \in Seq(Threads)
      BY DEF Sound, KernelStates, Lists
    <3> QED BY <3>1, ElementsIn DEF On
  <2> QED BY <1>1, <2>1 DEF Sound, ReadyListsSound, Detached, Lists
<1>4. ReadyThreadsQueued(u, X)
  BY <1>1 DEF Sound, ReadyThreadsQueued
<1> QED BY <1>1, <1>2, <1>3, <1>4 DEF Sound

\* Unlinking a thread that is not READY touches no ready list.
LEMMA UnlinkSound ==
  ASSUME NEW ks, NEW X, Sound(ks, X), NEW t \in Threads, ks.stat[t] # "ready"
  PROVE  /\ Sound(Unlink(ks, t), X)
         /\ Detached(Unlink(ks, t), t)
         /\ SameButLists(Unlink(ks, t), ks)
         /\ \A l \in Lists : On(Unlink(ks, t), l) = On(ks, l) \ {t}
<1> DEFINE u == Unlink(ks, t)
<1>1. ks \in KernelStates /\ ListsDisjoint(ks)
  BY DEF Sound
<1>2. /\ u \in KernelStates
      /\ ListsDisjoint(u)
      /\ \A l \in Lists : On(u, l) = On(ks, l) \ {t}
      /\ SameButLists(u, ks)
      /\ u.group = ks.group
  BY <1>1, UnlinkFacts
<1> HIDE DEF u
<1>3. Detached(u, t)
  BY <1>2 DEF Detached
<1>4. \A p \in Priorities : On(u, p) = On(ks, p)
  <2>1. \A p \in Priorities : t \notin On(ks, p)
    BY WhereLinked
  <2> QED BY <1>2, <2>1 DEF Lists
<1>5. GroupExact(u)
  <2>1. \A p \in Priorities : p \in ks.group <=> On(ks, p) # {}
    BY <1>1, GroupSets DEF Sound
  <2>2. \A p \in Priorities : p \in u.group <=> On(u, p) # {}
    BY <1>2, <1>4, <2>1
  <2> QED BY <1>2, <2>2, GroupSets
<1>6. ReadyListsSound(u) /\ WaitersSuspended(u) /\ DefunctClosed(u) /\ TimersSuspended(u)
  BY <1>2 DEF Sound, ReadyListsSound, WaitersSuspended, DefunctClosed, TimersSuspended,
              SameButLists, Lists
<1>7. ReadyThreadsQueued(u, X)
  <2>1. \A x \in Threads : ks.prio[x] \in Priorities
    BY <1>1 DEF KernelStates
  <2> QED BY <1>2, <1>4, <2>1 DEF Sound, ReadyThreadsQueued, SameButLists
<1> QED BY <1>2, <1>3, <1>5, <1>6, <1>7 DEF Sound, u

-----------------------------------------------------------------------------
(* Thread services.                                                        *)

\* rt_thread_resume of a suspended thread: it leaves its suspend list, its timer
\* stops, and it is READY, or RUNNING again if it has not lost the CPU yet.
LEMMA ResumeSound ==
  ASSUME NEW ks, NEW X, Sound(ks, X), NEW t \in Threads, ks.stat[t] = "suspend"
  PROVE  LET r == ResumeLinked(ks, t)
         IN  /\ Sound(r, X \ {t})
             /\ r.prio = ks.prio /\ r.error = ks.error /\ r.yield = ks.yield
             /\ r.cur = ks.cur /\ r.lock = ks.lock /\ r.timer = ks.timer \ {t}
             /\ \A x \in Threads :
                  r.stat[x] = IF x # t THEN ks.stat[x]
                              ELSE IF t = ks.cur THEN "running" ELSE "ready"
             /\ \A l \in Lists \ Priorities : On(r, l) = On(ks, l) \ {t}
<1> DEFINE u == Unlink(ks, t)
           v == StopTimer(u, t)
           r == ResumeLinked(ks, t)
<1>1. /\ Sound(u, X) /\ Detached(u, t) /\ SameButLists(u, ks)
      /\ \A l \in Lists : On(u, l) = On(ks, l) \ {t}
  BY UnlinkSound
<1>2. u \in KernelStates
  BY <1>1 DEF Sound
<1>3. v = [u EXCEPT !.timer = u.timer \ {t}]
  BY DEF StopTimer
<1>r. r = ScheduleInsert(v, t)
  BY DEF ResumeLinked
<1> HIDE DEF u, v, r
<1>4. /\ v \in KernelStates
      /\ v.list = u.list /\ v.group = u.group /\ v.stat = u.stat /\ v.prio = u.prio
      /\ v.error = u.error /\ v.yield = u.yield /\ v.cur = u.cur /\ v.lock = u.lock
      /\ v.timer = u.timer \ {t}
  BY <1>2, <1>3 DEF KernelStates
<1>5. Sound(v, X) /\ \A l : On(v, l) = On(u, l)
  <2>1. \A x \in v.timer : u.stat[x] = "suspend"
    BY <1>1, <1>4 DEF Sound, TimersSuspended
  <2> QED BY <1>1, <1>4, <2>1, FieldsSound
<1>6. Detached(v, t)
  BY <1>1, <1>5 DEF Detached
<1>7. /\ Sound(r, X \ {t})
      /\ SameButQueue(r, v)
      /\ \A x \in Threads :
           r.stat[x] = IF x # t THEN v.stat[x] ELSE IF t = v.cur THEN "running" ELSE "ready"
      /\ \A l \in Lists :
           On(r, l) = IF t # v.cur /\ l = v.prio[t] THEN On(v, l) \cup {t} ELSE On(v, l)
  <2>1. t \notin v.timer
    BY <1>4
  <2> QED BY <1>r, <1>5, <1>6, <2>1, InsertSound
<1>8. \A l \in Lists \ Priorities : On(r, l) = On(ks, l) \ {t}
  <2>1. v.prio[t] \in Priorities
    BY <1>4 DEF KernelStates
  <2> QED BY <1>1, <1>5, <1>7, <2>1
<1> QED BY <1>1, <1>4, <1>7, <1>8 DEF SameButLists, SameButQueue, r

\* _thread_timeout of a suspended thread: as rt_thread_resume, with an error.
LEMMA TimeoutSound ==
  ASSUME NEW ks, NEW X, Sound(ks, X), NEW t \in Threads, ks.stat[t] = "suspend"
  PROVE  LET r == ThreadTimeout(ks, t)
         IN  /\ Sound(r, X \ {t})
             /\ r.prio = ks.prio /\ r.yield = ks.yield
             /\ r.cur = ks.cur /\ r.lock = ks.lock /\ r.timer = ks.timer \ {t}
             /\ \A x \in Threads : r.error[x] = IF x = t THEN "timeout" ELSE ks.error[x]
             /\ \A x \in Threads :
                  r.stat[x] = IF x # t THEN ks.stat[x]
                              ELSE IF t = ks.cur THEN "running" ELSE "ready"
             /\ \A l \in Lists \ Priorities : On(r, l) = On(ks, l) \ {t}
<1> DEFINE v == [StopTimer(ks, t) EXCEPT !.error[t] = "timeout"]
           u == Unlink(v, t)
           r == ThreadTimeout(ks, t)
<1>1. ks \in KernelStates
  BY DEF Sound
<1>2. /\ v \in KernelStates
      /\ v.list = ks.list /\ v.group = ks.group /\ v.stat = ks.stat /\ v.prio = ks.prio
      /\ v.yield = ks.yield /\ v.cur = ks.cur /\ v.lock = ks.lock
      /\ v.timer = ks.timer \ {t}
      /\ \A x \in Threads : v.error[x] = IF x = t THEN "timeout" ELSE ks.error[x]
  BY <1>1 DEF KernelStates, StopTimer, Errors
<1>r. r = ScheduleInsert(u, t)
  BY DEF ThreadTimeout
<1> HIDE DEF v, r
<1>3. Sound(v, X) /\ \A l : On(v, l) = On(ks, l)
  <2>1. \A x \in v.timer : ks.stat[x] = "suspend"
    BY <1>2 DEF Sound, TimersSuspended
  <2> QED BY <1>2, <2>1, FieldsSound
<1>4. v.stat[t] # "ready"
  BY <1>2
<1>5. /\ Sound(u, X) /\ Detached(u, t) /\ SameButLists(u, v)
      /\ \A l \in Lists : On(u, l) = On(v, l) \ {t}
  BY <1>3, <1>4, UnlinkSound
<1> HIDE DEF u
<1>6. t \notin u.timer
  BY <1>2, <1>5 DEF SameButLists
<1>7. /\ Sound(r, X \ {t})
      /\ SameButQueue(r, u)
      /\ \A x \in Threads :
           r.stat[x] = IF x # t THEN u.stat[x] ELSE IF t = u.cur THEN "running" ELSE "ready"
      /\ \A l \in Lists :
           On(r, l) = IF t # u.cur /\ l = u.prio[t] THEN On(u, l) \cup {t} ELSE On(u, l)
  BY <1>r, <1>5, <1>6, InsertSound
<1>8. \A l \in Lists \ Priorities : On(r, l) = On(ks, l) \ {t}
  <2>1. u.prio[t] \in Priorities
    BY <1>5 DEF Sound, KernelStates
  <2> QED BY <1>3, <1>5, <1>7, <2>1
<1> QED BY <1>2, <1>5, <1>7, <1>8 DEF SameButLists, SameButQueue, r

\* rt_thread_suspend of a thread that is READY or RUNNING.
LEMMA SuspendSound ==
  ASSUME NEW ks, NEW X, Sound(ks, X), NEW t \in Threads, ks.stat[t] \in {"ready", "running"}
  PROVE  LET r == ThreadSuspend(ks, t)
         IN  /\ Sound(r, X \ {t}) /\ Detached(r, t)
             /\ r.prio = ks.prio /\ r.error = ks.error /\ r.yield = ks.yield
             /\ r.cur = ks.cur /\ r.lock = ks.lock /\ r.timer = ks.timer \ {t}
             /\ \A x \in Threads : r.stat[x] = IF x = t THEN "suspend" ELSE ks.stat[x]
             /\ \A l \in Lists : On(r, l) = On(ks, l) \ {t}
<1> DEFINE u == ScheduleRemove(ks, t)
           v == SetStat(u, t, "suspend")
           r == ThreadSuspend(ks, t)
<1>1. /\ Sound(u, X \cup {t}) /\ Detached(u, t) /\ SameButLists(u, ks)
      /\ \A l \in Lists : On(u, l) = On(ks, l) \ {t}
  BY RemoveSound
<1>r. r = StopTimer(v, t)
  BY DEF ThreadSuspend
<1> HIDE DEF u, r
<1>2. PICK s \in Stats : s # "ready" /\ s = "suspend"
  BY DEF Stats
<1>3. /\ Sound(v, (X \cup {t}) \ {t}) /\ Detached(v, t) /\ SameButStat(v, u)
      /\ v.yield = u.yield
      /\ \A x \in Threads : v.stat[x] = IF x = t THEN "suspend" ELSE u.stat[x]
  <2>1. /\ Sound(SetStat(u, t, s), (X \cup {t}) \ {t}) /\ Detached(SetStat(u, t, s), t)
        /\ SameButStat(SetStat(u, t, s), u) /\ SetStat(u, t, s).yield = u.yield
        /\ \A x \in Threads : SetStat(u, t, s).stat[x] = IF x = t THEN s ELSE u.stat[x]
    <3>1. Sound(u, X \cup {t}) /\ Detached(u, t)
      BY <1>1
    <3> QED BY <1>2, <3>1, SetStatSound
  <2> QED BY <1>2, <2>1
<1> HIDE DEF v
<1>4. (X \cup {t}) \ {t} = X \ {t}
  OBVIOUS
<1>5. v \in KernelStates
  BY <1>3 DEF Sound
<1>6. /\ r \in KernelStates
      /\ r.list = v.list /\ r.group = v.group /\ r.stat = v.stat /\ r.prio = v.prio
      /\ r.error = v.error /\ r.yield = v.yield /\ r.cur = v.cur /\ r.lock = v.lock
      /\ r.timer = v.timer \ {t}
  BY <1>5, <1>r DEF KernelStates, StopTimer
<1>7. Sound(r, X \ {t}) /\ \A l : On(r, l) = On(v, l)
  <2>1. \A x \in r.timer : v.stat[x] = "suspend"
    BY <1>3, <1>6 DEF Sound, TimersSuspended
  <2>2. Sound(v, X \ {t})
    BY <1>3, <1>4
  <2> QED BY <1>6, <2>1, <2>2, FieldsSound
<1>8. \A l \in Lists : On(v, l) = On(u, l)
  BY <1>3 DEF SameButStat, On
<1> QED BY <1>1, <1>3, <1>6, <1>7, <1>8 DEF SameButLists, SameButStat, Detached, r

\* rt_thread_startup of an initialised thread, up to its rt_schedule.
LEMMA StartSound ==
  ASSUME NEW ks, NEW X, Sound(ks, X), NEW t \in Threads, ks.stat[t] = "init", t # ks.cur
  PROVE  LET r == ThreadStart(ks, t)
         IN  /\ Sound(r, X \ {t})
             /\ r.prio = ks.prio /\ r.error = ks.error
             /\ r.cur = ks.cur /\ r.lock = ks.lock
             /\ \A x \in Threads : r.stat[x] = IF x = t THEN "ready" ELSE ks.stat[x]
             /\ \A l \in Lists \ Priorities : On(r, l) = On(ks, l)
<1> DEFINE v == AssignStat(ks, t, "suspend")
           r == ThreadStart(ks, t)
<1>1. Detached(ks, t)
  BY WhereLinked
<1>2. PICK s \in Stats : s # "ready" /\ s = "suspend"
  BY DEF Stats
<1>3. /\ Sound(v, X \ {t}) /\ Detached(v, t) /\ SameButStat(v, ks)
      /\ \A x \in Threads : v.stat[x] = IF x = t THEN "suspend" ELSE ks.stat[x]
  <2>1. /\ Sound(AssignStat(ks, t, s), X \ {t}) /\ Detached(AssignStat(ks, t, s), t)
        /\ SameButStat(AssignStat(ks, t, s), ks)
        /\ \A x \in Threads : AssignStat(ks, t, s).stat[x] = IF x = t THEN s ELSE ks.stat[x]
    BY <1>1, <1>2, AssignStatSound
  <2> QED BY <1>2, <2>1
<1>4. v.stat[t] = "suspend"
  BY <1>3
<1>5. r = ResumeLinked(v, t)
  BY <1>4 DEF ThreadStart, ThreadResume
<1> HIDE DEF v, r
<1>6. /\ Sound(r, (X \ {t}) \ {t})
      /\ r.prio = v.prio /\ r.error = v.error
      /\ r.cur = v.cur /\ r.lock = v.lock
      /\ \A x \in Threads :
           r.stat[x] = IF x # t THEN v.stat[x] ELSE IF t = v.cur THEN "running" ELSE "ready"
      /\ \A l \in Lists \ Priorities : On(r, l) = On(v, l) \ {t}
  BY <1>3, <1>4, <1>5, ResumeSound
<1>7. (X \ {t}) \ {t} = X \ {t}
  OBVIOUS
<1>8. \A l \in Lists \ Priorities : On(r, l) = On(ks, l)
  BY <1>1, <1>3, <1>6 DEF SameButStat, On, Detached
<1>9. Sound(r, X \ {t})
  BY <1>6, <1>7
<1> QED BY <1>3, <1>6, <1>8, <1>9 DEF SameButStat, r

\* RT_THREAD_CTRL_CHANGE_PRIORITY moves a READY thread to its new ready list.
LEMMA ChangePrioritySound ==
  ASSUME NEW ks, Sound(ks, {}), NEW t \in Threads, NEW p \in Priorities,
         ks.stat[t] = "ready" => t # ks.cur
  PROVE  LET r == ChangePriority(ks, t, p)
         IN  /\ Sound(r, {})
             /\ r.error = ks.error /\ r.yield = ks.yield /\ r.timer = ks.timer
             /\ r.cur = ks.cur /\ r.lock = ks.lock
             /\ \A x \in Threads : r.prio[x] = IF x = t THEN p ELSE ks.prio[x]
             /\ \A x \in Threads : r.stat[x] = ks.stat[x]
             /\ \A l \in Lists \ Priorities : On(r, l) = On(ks, l)
<1> DEFINE r == ChangePriority(ks, t, p)
<1>0. ks \in KernelStates
  BY DEF Sound
<1>1. CASE ks.stat[t] = "ready"
  <2> DEFINE u == ScheduleRemove(ks, t)
             v == [u EXCEPT !.prio[t] = p]
  <2>1. /\ Sound(u, {} \cup {t}) /\ Detached(u, t) /\ SameButLists(u, ks)
        /\ \A l \in Lists : On(u, l) = On(ks, l) \ {t}
    BY RemoveSound
  <2>2. r = ScheduleInsert(v, t)
    BY <1>1 DEF ChangePriority
  <2> HIDE DEF u, r
  <2>3. u \in KernelStates
    BY <2>1 DEF Sound
  <2>4. /\ v \in KernelStates
        /\ v.list = u.list /\ v.group = u.group /\ v.stat = u.stat /\ v.timer = u.timer
        /\ v.error = u.error /\ v.yield = u.yield /\ v.cur = u.cur /\ v.lock = u.lock
        /\ \A x \in Threads : v.prio[x] = IF x = t THEN p ELSE u.prio[x]
    BY <2>3 DEF KernelStates
  <2> HIDE DEF v
  <2>5. Sound(v, {t}) /\ \A l : On(v, l) = On(u, l)
    <3>1. \A x \in v.timer : u.stat[x] = "suspend"
      BY <2>1, <2>4 DEF Sound, TimersSuspended
    <3>2. Sound(u, {t}) /\ t \in {t}
      BY <2>1
    <3> QED BY <2>1, <2>4, <3>1, <3>2, FieldsSound
  <2>6. Detached(v, t)
    BY <2>1, <2>5 DEF Detached
  <2>7. t \notin v.timer
    BY <1>1, <2>1, <2>4 DEF Sound, TimersSuspended, SameButLists
  <2>8. /\ Sound(r, {t} \ {t})
        /\ SameButQueue(r, v)
        /\ \A x \in Threads :
             r.stat[x] = IF x # t THEN v.stat[x] ELSE IF t = v.cur THEN "running" ELSE "ready"
        /\ \A l \in Lists :
             On(r, l) = IF t # v.cur /\ l = v.prio[t] THEN On(v, l) \cup {t} ELSE On(v, l)
    BY <2>2, <2>5, <2>6, <2>7, InsertSound
  <2>9. {t} \ {t} = {}
    OBVIOUS
  <2>10. Sound(r, {})
    BY <2>8, <2>9
  <2>11. \A l \in Lists \ Priorities : On(r, l) = On(ks, l)
    <3>1. \A l \in Lists \ Priorities : t \notin On(ks, l)
      BY <1>1, WhereLinked DEF Lists
    <3>2. v.prio[t] \in Priorities
      BY <2>4
    <3>3. \A l \in Lists \ Priorities : On(r, l) = On(v, l)
      BY <2>8, <3>2
    <3> QED BY <2>1, <2>5, <3>1, <3>3
  <2>12. t # v.cur
    BY <1>1, <2>1, <2>4 DEF SameButLists
  <2> QED BY <1>1, <2>1, <2>4, <2>8, <2>10, <2>11, <2>12 DEF SameButLists, SameButQueue, r
<1>2. CASE ks.stat[t] # "ready"
  <2>1. /\ r \in KernelStates
        /\ r.list = ks.list /\ r.group = ks.group /\ r.stat = ks.stat /\ r.timer = ks.timer
        /\ r.error = ks.error /\ r.yield = ks.yield /\ r.cur = ks.cur /\ r.lock = ks.lock
        /\ \A x \in Threads : r.prio[x] = IF x = t THEN p ELSE ks.prio[x]
    BY <1>0, <1>2 DEF KernelStates, ChangePriority
  <2> HIDE DEF r
  <2>2. \A x \in r.timer : ks.stat[x] = "suspend"
    BY <2>1 DEF Sound, TimersSuspended
  <2>3. Sound(r, {}) /\ \A l : On(r, l) = On(ks, l)
    BY <1>2, <2>1, <2>2, FieldsSound
  <2> QED BY <2>1, <2>3 DEF r
<1> QED BY <1>1, <1>2

\* The second half of rt_thread_delete: timer, state and defunct list.
LEMMA CloseSound ==
  ASSUME NEW ks, NEW X, Sound(ks, X), NEW t \in Threads, Detached(ks, t)
  PROVE  LET r == ThreadClose(ks, t)
         IN  /\ Sound(r, X \ {t})
             /\ r.prio = ks.prio /\ r.error = ks.error
             /\ r.cur = ks.cur /\ r.lock = ks.lock
             /\ \A x \in Threads : r.stat[x] = IF x = t THEN "close" ELSE ks.stat[x]
             /\ On(r, Defunct) = On(ks, Defunct) \cup {t}
             /\ \A l \in Lists \ {Defunct} : On(r, l) = On(ks, l)
<1> DEFINE v == StopTimer(ks, t)
           w == AssignStat(v, t, "close")
           r == ThreadClose(ks, t)
<1>1. ks \in KernelStates
  BY DEF Sound
<1>2. /\ v \in KernelStates
      /\ v.list = ks.list /\ v.group = ks.group /\ v.stat = ks.stat /\ v.prio = ks.prio
      /\ v.error = ks.error /\ v.cur = ks.cur /\ v.lock = ks.lock
      /\ v.timer = ks.timer \ {t}
  BY <1>1 DEF KernelStates, StopTimer
<1>3. r = [w EXCEPT !.list[Defunct] = InsertAt(w.list[Defunct], 1, t)]
  BY DEF ThreadClose, LinkFirst
<1> HIDE DEF v, r
<1>4. Sound(v, X) /\ \A l : On(v, l) = On(ks, l)
  <2>1. \A x \in v.timer : ks.stat[x] = "suspend"
    BY <1>2 DEF Sound, TimersSuspended
  <2> QED BY <1>2, <2>1, FieldsSound
<1>5. Detached(v, t) /\ t \notin v.timer
  BY <1>2, <1>4 DEF Detached
<1>6. PICK s \in Stats : s # "ready" /\ s = "close"
  BY DEF Stats
<1>7. /\ Sound(w, X \ {t}) /\ Detached(w, t) /\ SameButStat(w, v)
      /\ \A x \in Threads : w.stat[x] = IF x = t THEN "close" ELSE v.stat[x]
  <2>1. /\ Sound(AssignStat(v, t, s), X \ {t}) /\ Detached(AssignStat(v, t, s), t)
        /\ SameButStat(AssignStat(v, t, s), v)
        /\ \A x \in Threads : AssignStat(v, t, s).stat[x] = IF x = t THEN s ELSE v.stat[x]
    BY <1>4, <1>5, <1>6, AssignStatSound
  <2> QED BY <1>6, <2>1
<1> HIDE DEF w
<1>8. w \in KernelStates /\ ListsDisjoint(w) /\ Defunct \in Lists
  BY <1>7 DEF Sound, Lists
<1> DEFINE d == InsertAt(w.list[Defunct], 1, t)
<1>9. d \in Seq(Threads) /\ ToSet(d) = On(w, Defunct) \cup {t} /\ IsInjective(d)
  <2>1. w.list[Defunct] \in Seq(Threads) /\ IsInjective(w.list[Defunct])
    BY <1>8 DEF KernelStates, ListsDisjoint
  <2>2. t \notin ToSet(w.list[Defunct])
    BY <1>7, <1>8 DEF Detached, On
  <2>3. 1 \in 1 .. Len(w.list[Defunct]) + 1
    BY <2>1
  <2> QED BY <2>1, <2>2, <2>3, InsertAtProps DEF On
<1>10. /\ r \in KernelStates
       /\ SameButLists(r, w)
       /\ r.group = w.group
       /\ \A m \in Lists : r.list[m] = IF m = Defunct THEN d ELSE w.list[m]
  <2> HIDE DEF d
  <2>1. r = [w EXCEPT !.list[Defunct] = d]
    BY <1>3 DEF d
  <2> QED BY <1>8, <1>9, <2>1 DEF KernelStates, SameButLists
<1> HIDE DEF d
<1>11. /\ ListsDisjoint(r)
       /\ \A m \in Lists : On(r, m) = IF m = Defunct THEN On(w, Defunct) \cup {t} ELSE On(w, m)
  BY <1>7, <1>8, <1>9, <1>10, LinkFacts
<1>12. \A p \in Priorities : p \in Lists /\ On(r, p) = On(w, p) /\ r.list[p] = w.list[p]
  BY <1>10, <1>11, KernelAssumption DEF Lists
<1>13. GroupExact(r) /\ ReadyListsSound(r)
  BY <1>7, <1>10, <1>12 DEF Sound, GroupExact, ReadyListsSound, SameButLists
<1>14. ReadyThreadsQueued(r, X \ {t})
  <2>1. \A x \in Threads : w.prio[x] \in Priorities
    BY <1>8 DEF KernelStates
  <2> QED BY <1>7, <1>10, <1>12, <2>1 DEF Sound, ReadyThreadsQueued, SameButLists
<1>15. WaitersSuspended(r) /\ TimersSuspended(r)
  BY <1>7, <1>10, <1>11, KernelAssumption DEF Sound, WaitersSuspended, TimersSuspended, SameButLists, Lists
<1>16. DefunctClosed(r)
  BY <1>7, <1>8, <1>10, <1>11 DEF Sound, DefunctClosed, SameButLists
<1>17. Sound(r, X \ {t})
  BY <1>10, <1>11, <1>13, <1>14, <1>15, <1>16 DEF Sound
<1>18. \A l \in Lists : On(w, l) = On(ks, l)
  BY <1>2, <1>7 DEF On, SameButStat
<1> QED BY <1>2, <1>7, <1>8, <1>10, <1>11, <1>17, <1>18 DEF SameButLists, SameButStat, r

-----------------------------------------------------------------------------
(* rt_schedule.                                                            *)

\* The thread that rt_schedule switches to leaves its ready list and runs.
LEMMA DispatchSound ==
  ASSUME NEW ks, NEW X, Sound(ks, X), NEW t \in Threads, t \notin ks.timer
  PROVE  LET r == Dispatch(ks, t)
         IN  /\ Sound(r, X \ {t})
             /\ SameButQueue(r, ks)
             /\ \A x \in Threads : r.stat[x] = IF x = t THEN "running" ELSE ks.stat[x]
             /\ \A l \in Lists : On(r, l) = On(ks, l) \ {t}
<1> DEFINE u == ScheduleRemove(ks, t)
           r == Dispatch(ks, t)
<1>1. /\ Sound(u, X \cup {t}) /\ Detached(u, t) /\ SameButLists(u, ks)
      /\ \A l \in Lists : On(u, l) = On(ks, l) \ {t}
  BY RemoveSound
<1>2. PICK s \in Stats : s # "ready" /\ s = "running"
  BY DEF Stats
<1>3. r = SetStat(u, t, s)
  BY <1>2 DEF Dispatch
<1> HIDE DEF u, r
<1>4. t \notin u.timer
  BY <1>1 DEF SameButLists
<1>5. /\ Sound(r, (X \cup {t}) \ {t}) /\ SameButStat(r, u) /\ r.yield = u.yield
      /\ \A x \in Threads : r.stat[x] = IF x = t THEN s ELSE u.stat[x]
  BY <1>1, <1>2, <1>3, <1>4, SetStatSound
<1>6. (X \cup {t}) \ {t} = X \ {t}
  OBVIOUS
<1>7. Sound(r, X \ {t})
  BY <1>5, <1>6
<1>8. \A l \in Lists : On(r, l) = On(ks, l) \ {t}
  BY <1>1, <1>5 DEF SameButStat, On
<1>9. SameButQueue(r, ks)
  BY <1>1, <1>5 DEF SameButStat, SameButLists, SameButQueue
<1> QED BY <1>1, <1>2, <1>5, <1>7, <1>8, <1>9 DEF SameButLists, r

\* A READY thread that is queued makes the priority group non-empty.
LEMMA GroupNonEmpty ==
  ASSUME NEW ks, NEW X, Sound(ks, X), NEW t \in Threads \ X, ks.stat[t] = "ready"
  PROVE  ks.group # {}
<1>1. ks \in KernelStates /\ ks.prio[t] \in Priorities /\ t \in On(ks, ks.prio[t])
  BY DEF Sound, KernelStates, ReadyThreadsQueued
<1>2. \A q \in Priorities : q \in ks.group <=> On(ks, q) # {}
  BY <1>1, GroupSets DEF Sound
<1> QED BY <1>1, <1>2

\* The head of the ready list of the highest priority: READY, and nobody in a
\* ready list is more urgent.
LEMMA HighestFacts ==
  ASSUME NEW ks, NEW X, Sound(ks, X), ks.group # {}
  PROVE  LET h == HighestThread(ks)
         IN  /\ h \in Threads
             /\ ks.stat[h] = "ready"
             /\ ks.prio[h] = HighestPriority(ks)
             /\ h \notin ks.timer
             /\ \A x \in Threads \ X : ks.stat[x] = "ready" => ks.prio[h] <= ks.prio[x]
<1> DEFINE p == HighestPriority(ks)
           h == HighestThread(ks)
<1>1. ks \in KernelStates /\ ks.group \subseteq Priorities
  BY DEF Sound, KernelStates
<1>2. Priorities \subseteq Nat
  BY DEF Priorities
<1>3. p \in ks.group /\ \A y \in ks.group : p <= y
  BY <1>1, <1>2, MinProps DEF HighestPriority
<1>4. p \in Priorities /\ p \in Lists /\ ks.list[p] \in Seq(Threads)
  BY <1>1, <1>3 DEF KernelStates, Lists
<1>5. \A q \in Priorities : q \in ks.group <=> ks.list[q] # <<>>
  BY DEF Sound, GroupExact
<1>6. h \in On(ks, p) /\ h \in Threads
  BY <1>3, <1>4, <1>5, HeadIn DEF HighestThread, On
<1> HIDE DEF p, h
<1>7. ks.stat[h] = "ready" /\ ks.prio[h] = p
  BY <1>4, <1>6, WhereLinked
<1>8. h \notin ks.timer
  BY <1>7 DEF Sound, TimersSuspended
<1>9. ASSUME NEW x \in Threads \ X, ks.stat[x] = "ready" PROVE p <= ks.prio[x]
  <2>1. x \in On(ks, ks.prio[x]) /\ ks.prio[x] \in Priorities
    BY <1>1, <1>9 DEF Sound, ReadyThreadsQueued, KernelStates
  <2>2. \A q \in Priorities : q \in ks.group <=> On(ks, q) # {}
    BY <1>1, GroupSets DEF Sound
  <2> QED BY <1>3, <2>1, <2>2
<1> QED BY <1>6, <1>7, <1>8, <1>9 DEF p, h

\* The steps of rt_schedule before it makes the next thread run: only the
\* current thread and the YIELD bit have changed.
LEMMA MovedSound ==
  ASSUME NEW ks, Sound(ks, {}), NEW m \in KernelStates,
         m.list = ks.list, m.group = ks.group, m.stat = ks.stat, m.prio = ks.prio,
         m.timer = ks.timer
  PROVE  Sound(m, {}) /\ \A l : On(m, l) = On(ks, l)
<1>1. \A x \in m.timer : ks.stat[x] = "suspend"
  BY DEF Sound, TimersSuspended
<1> QED BY <1>1, FieldsSound

\* rt_schedule, when it is not inhibited and finds a READY thread, keeps the
\* state sound; the thread it leaves current is running, was READY if it is a
\* new one, and nobody READY is more urgent.
LEMMA SwitchSound ==
  ASSUME NEW ks, Sound(ks, {}), OnlyCurrentRuns(ks), ks.cur \in Threads,
         ks.lock = 0, ks.group # {}
  PROVE  LET r == RtSchedule(ks)
         IN  /\ Sound(r, {}) /\ r.cur \in Threads
             /\ r.prio = ks.prio /\ r.error = ks.error /\ r.timer = ks.timer
             /\ r.lock = ks.lock
             /\ r.cur # ks.cur => ks.stat[r.cur] = "ready"
             /\ \A x \in Threads : r.stat[x] = "ready" => r.prio[r.cur] <= r.prio[x]
             /\ \A x \in Threads :
                  r.stat[x] = IF x = r.cur THEN "running"
                              ELSE IF ks.stat[x] = "running" THEN "ready" ELSE ks.stat[x]
             /\ r.cur = ks.cur => ks.stat[r.cur] = "running"
             /\ \A l \in Lists \ Priorities : On(r, l) = On(ks, l)
<1> DEFINE r == RtSchedule(ks)
<1>0. ks \in KernelStates
  BY DEF Sound
<1>c. PICK c \in Threads : c = ks.cur
  OBVIOUS
<1>H. PICK h \in Threads : h = HighestThread(ks)
  BY HighestFacts
<1>h. /\ ks.stat[h] = "ready" /\ ks.prio[h] = HighestPriority(ks)
      /\ h \notin ks.timer
      /\ \A x \in Threads \ {} : ks.stat[x] = "ready" => ks.prio[h] <= ks.prio[x]
  BY <1>H, HighestFacts
<1>n. ~ (ks.lock > 0 \/ ks.group = {})
  OBVIOUS
<1>q. /\ \A l \in Lists \ Priorities : h \notin On(ks, l)
      /\ ks.stat[c] = "running" => \A l \in Lists \ Priorities : c \notin On(ks, l)
  BY <1>h, WhereLinked DEF Lists
<1>o. \A x \in Threads : ks.stat[x] = "running" => x = c
  BY <1>c DEF OnlyCurrentRuns
<1>1. CASE KeepsCpu(ks)
  <2> DEFINE m == [[ks EXCEPT !.yield = ks.yield \ {c}] EXCEPT !.cur = c]
  <2>1. ks.stat[c] = "running"
    BY <1>1, <1>c DEF KeepsCpu
  <2>2. r = Dispatch(m, c)
    BY <1>1, <1>n, <1>c, <2>1 DEF RtSchedule
  <2>3. /\ m \in KernelStates
        /\ m.list = ks.list /\ m.group = ks.group /\ m.stat = ks.stat /\ m.prio = ks.prio
        /\ m.error = ks.error /\ m.timer = ks.timer /\ m.lock = ks.lock /\ m.cur = c
    BY <1>0 DEF KernelStates
  <2> HIDE DEF m, r
  <2>5. /\ Sound(m, {})
        /\ m.stat = ks.stat /\ m.prio = ks.prio /\ m.error = ks.error
        /\ m.timer = ks.timer /\ m.lock = ks.lock /\ m.cur = c
        /\ \A l : On(m, l) = On(ks, l)
    BY <2>3, MovedSound
  <2>6. c \notin m.timer
    BY <2>1, <2>5 DEF Sound, TimersSuspended
  <2>7. /\ Sound(r, {} \ {c})
        /\ SameButQueue(r, m)
        /\ \A x \in Threads : r.stat[x] = IF x = c THEN "running" ELSE m.stat[x]
        /\ \A l \in Lists : On(r, l) = On(m, l) \ {c}
    <3>1. Sound(m, {})
      BY <2>5
    <3> QED BY <2>2, <2>6, <3>1, DispatchSound
  <2>8. {} \ {c} = {}
    OBVIOUS
  <2>9. Sound(r, {})
    BY <2>7, <2>8
  <2>10. \A l \in Lists \ Priorities : On(r, l) = On(ks, l)
    <3>1. \A l \in Lists \ Priorities : c \notin On(ks, l)
      BY <1>q, <2>1
    <3>2. \A l \in Lists : On(r, l) = On(ks, l) \ {c}
      BY <2>5, <2>7
    <3> QED BY <3>1, <3>2
  <2>12. /\ r.cur = c /\ r.prio = ks.prio /\ r.error = ks.error /\ r.timer = ks.timer
         /\ r.lock = ks.lock
    BY <2>5, <2>7 DEF SameButQueue
  <2>13. \A x \in Threads :
            r.stat[x] = IF x = c THEN "running"
                        ELSE IF ks.stat[x] = "running" THEN "ready" ELSE ks.stat[x]
    BY <1>o, <2>5, <2>7
  <2>14. ks.prio[c] <= ks.prio[h]
    <3>1. ks.prio[h] \in Priorities /\ ks.prio[c] \in Priorities
      BY <1>0 DEF KernelStates
    <3> QED BY <1>1, <1>c, <1>h, <3>1 DEF KeepsCpu, Priorities
  <2>15. ASSUME NEW x \in Threads, r.stat[x] = "ready" PROVE r.prio[c] <= r.prio[x]
    <3>1. ks.stat[x] = "ready"
      BY <1>o, <2>13, <2>15
    <3>2. ks.prio[h] <= ks.prio[x]
      BY <1>h, <3>1
    <3>3. ks.prio[h] \in Nat /\ ks.prio[c] \in Nat /\ ks.prio[x] \in Nat
      BY <1>0 DEF KernelStates, Priorities
    <3> QED BY <2>12, <2>14, <3>2, <3>3
  <2> QED BY <1>c, <2>1, <2>9, <2>10, <2>12, <2>13, <2>15 DEF r
<1>2. CASE ~KeepsCpu(ks) /\ ks.stat[c] = "running"
  <2> DEFINE m == [[ks EXCEPT !.yield = ks.yield \ {c}] EXCEPT !.cur = h]
             n == ScheduleInsert(m, c)
  <2>1. h # c
    BY <1>h, <1>2
  <2>2. r = Dispatch(n, h)
    BY <1>2, <1>n, <1>c, <1>H, <2>1 DEF RtSchedule
  <2>3. /\ m \in KernelStates
        /\ m.list = ks.list /\ m.group = ks.group /\ m.stat = ks.stat /\ m.prio = ks.prio
        /\ m.error = ks.error /\ m.timer = ks.timer /\ m.lock = ks.lock /\ m.cur = h
    BY <1>0 DEF KernelStates
  <2> HIDE DEF m, n, r
  <2>5. /\ Sound(m, {})
        /\ m.stat = ks.stat /\ m.prio = ks.prio /\ m.error = ks.error
        /\ m.timer = ks.timer /\ m.lock = ks.lock /\ m.cur = h
        /\ \A l : On(m, l) = On(ks, l)
    BY <2>3, MovedSound
  <2>6. c \notin m.timer
    BY <1>2, <2>5 DEF Sound, TimersSuspended
  <2>7. Detached(m, c)
    <3>1. m.stat[c] \notin {"ready", "suspend", "close"}
      BY <1>2, <2>5
    <3> QED BY <2>5, <3>1, WhereLinked
  <2>8. /\ Sound(n, {} \ {c})
        /\ SameButQueue(n, m)
        /\ \A x \in Threads :
             n.stat[x] = IF x # c THEN m.stat[x] ELSE IF c = m.cur THEN "running" ELSE "ready"
        /\ \A l \in Lists :
             On(n, l) = IF c # m.cur /\ l = m.prio[c] THEN On(m, l) \cup {c} ELSE On(m, l)
    <3>1. n = ScheduleInsert(m, c)
      BY DEF n
    <3> QED BY <2>5, <2>6, <2>7, <3>1, InsertSound
  <2>9. {} \ {c} = {} /\ {} \ {h} = {}
    OBVIOUS
  <2>10. Sound(n, {}) /\ h \notin n.timer
    BY <1>h, <2>5, <2>8, <2>9 DEF SameButQueue
  <2>11. /\ Sound(r, {} \ {h})
         /\ SameButQueue(r, n)
         /\ \A x \in Threads : r.stat[x] = IF x = h THEN "running" ELSE n.stat[x]
         /\ \A l \in Lists : On(r, l) = On(n, l) \ {h}
    BY <1>h, <2>2, <2>10, DispatchSound
  <2>12. Sound(r, {})
    BY <2>9, <2>11
  <2>13. /\ r.cur = h /\ r.prio = ks.prio /\ r.error = ks.error /\ r.timer = ks.timer
         /\ r.lock = ks.lock
    BY <2>5, <2>8, <2>11 DEF SameButQueue
  <2>14. \A l \in Lists \ Priorities : On(r, l) = On(ks, l)
    <3>1. m.prio[c] \in Priorities
      BY <2>5, <1>0 DEF KernelStates
    <3>2. \A l \in Lists \ Priorities : On(n, l) = On(ks, l)
      BY <2>5, <2>8, <3>1
    <3> QED BY <1>q, <2>11, <3>2
  <2>16. \A x \in Threads :
            r.stat[x] = IF x = h THEN "running"
                        ELSE IF ks.stat[x] = "running" THEN "ready" ELSE ks.stat[x]
    BY <1>2, <1>o, <2>1, <2>5, <2>8, <2>11
  <2>17. ks.prio[h] <= ks.prio[c]
    <3>1. ks.prio[h] \in Priorities /\ ks.prio[c] \in Priorities
      BY <1>0, <1>h DEF KernelStates
    <3>2. ~ (ks.prio[c] < ks.prio[h])
      BY <1>2, <1>c, <1>h DEF KeepsCpu
    <3> QED BY <3>1, <3>2 DEF Priorities
  <2>18. \A x \in Threads : r.stat[x] = "ready" => r.prio[h] <= r.prio[x]
    BY <1>h, <1>o, <2>13, <2>16, <2>17
  <2> QED BY <1>c, <1>h, <2>1, <2>12, <2>13, <2>14, <2>16, <2>18 DEF r
<1>3. CASE ks.stat[c] # "running"
  <2> DEFINE m == [ks EXCEPT !.cur = h]
  <2>1. h # c
    <3>1. ks.stat[c] # "ready"
      BY <1>c, KernelAssumption DEF OnlyCurrentRuns
    <3> QED BY <1>h, <3>1
  <2>2. r = Dispatch(m, h)
    BY <1>3, <1>n, <1>c, <1>H DEF RtSchedule, KeepsCpu
  <2>3. /\ m \in KernelStates
        /\ m.list = ks.list /\ m.group = ks.group /\ m.stat = ks.stat /\ m.prio = ks.prio
        /\ m.error = ks.error /\ m.timer = ks.timer /\ m.lock = ks.lock /\ m.cur = h
    BY <1>0 DEF KernelStates
  <2> HIDE DEF m, r
  <2>5. /\ Sound(m, {})
        /\ m.stat = ks.stat /\ m.prio = ks.prio /\ m.error = ks.error
        /\ m.timer = ks.timer /\ m.lock = ks.lock /\ m.cur = h
        /\ \A l : On(m, l) = On(ks, l)
    BY <2>3, MovedSound
  <2>6. h \notin m.timer
    BY <1>h, <2>5
  <2>7. /\ Sound(r, {} \ {h})
        /\ SameButQueue(r, m)
        /\ \A x \in Threads : r.stat[x] = IF x = h THEN "running" ELSE m.stat[x]
        /\ \A l \in Lists : On(r, l) = On(m, l) \ {h}
    BY <1>h, <2>2, <2>5, <2>6, DispatchSound
  <2>8. {} \ {h} = {}
    OBVIOUS
  <2>9. Sound(r, {})
    BY <2>7, <2>8
  <2>10. /\ r.cur = h /\ r.prio = ks.prio /\ r.error = ks.error /\ r.timer = ks.timer
         /\ r.lock = ks.lock
    BY <2>5, <2>7 DEF SameButQueue
  <2>11. \A l \in Lists \ Priorities : On(r, l) = On(ks, l)
    BY <1>q, <2>5, <2>7
  <2>12. \A x \in Threads : ks.stat[x] # "running"
    BY <1>3, <1>o
  <2>13. \A x \in Threads :
            r.stat[x] = IF x = h THEN "running"
                        ELSE IF ks.stat[x] = "running" THEN "ready" ELSE ks.stat[x]
    BY <2>5, <2>7, <2>12
  <2>14. \A x \in Threads : r.stat[x] = "ready" => r.prio[h] <= r.prio[x]
    BY <1>h, <2>10, <2>12, <2>13
  <2> QED BY <1>c, <1>h, <2>1, <2>9, <2>10, <2>11, <2>13, <2>14 DEF r
<1> QED BY <1>1, <1>2, <1>3

\* What every caller of rt_schedule may rely on, inhibited or not.
ScheduleFacts(r, ks) ==
  /\ Sound(r, {}) /\ OnlyCurrentRuns(r) /\ r.cur \in Threads
  /\ r.prio = ks.prio /\ r.error = ks.error /\ r.timer = ks.timer /\ r.lock = ks.lock
  /\ \A x \in Threads :
       \/ r.stat[x] = ks.stat[x]
       \/ r.stat[x] \in {"ready", "running"} /\ ks.stat[x] \in {"ready", "running"}
  /\ r.cur # ks.cur => /\ ks.stat[r.cur] = "ready" /\ r.stat[r.cur] = "running"
                       /\ ks.lock = 0
  /\ ks.lock = 0 => \A x \in Threads : r.stat[x] = "ready" => r.prio[r.cur] <= r.prio[x]
  /\ ks.stat[ks.cur] = "running" \/ (ks.lock = 0 /\ ks.group # {})
       => r.stat[r.cur] = "running"
  /\ \A l \in Lists \ Priorities : On(r, l) = On(ks, l)

LEMMA ScheduleSound ==
  ASSUME NEW ks, Sound(ks, {}), OnlyCurrentRuns(ks), ks.cur \in Threads
  PROVE  ScheduleFacts(RtSchedule(ks), ks)
<1> DEFINE r == RtSchedule(ks)
<1>1. CASE ks.lock > 0 \/ ks.group = {}
  <2>1. r = ks
    BY <1>1 DEF RtSchedule
  <2>2. ks.lock \in Nat
    BY DEF Sound, KernelStates
  <2>3. ~ (ks.lock = 0 /\ ks.group # {})
    BY <1>1, <2>2
  <2>4. ks.lock = 0 => \A x \in Threads : ks.stat[x] # "ready"
    BY <1>1, <2>2, GroupNonEmpty
  <2> HIDE DEF r
  <2> QED BY <2>1, <2>3, <2>4 DEF ScheduleFacts, r
<1>2. CASE ~ (ks.lock > 0 \/ ks.group = {})
  <2>1. ks.lock = 0 /\ ks.group # {}
    <3>1. ks.lock \in Nat
      BY DEF Sound, KernelStates
    <3> QED BY <1>2, <3>1
  <2>2. /\ Sound(r, {}) /\ r.cur \in Threads
        /\ r.prio = ks.prio /\ r.error = ks.error /\ r.timer = ks.timer
        /\ r.lock = ks.lock
        /\ r.cur # ks.cur => ks.stat[r.cur] = "ready"
        /\ \A x \in Threads : r.stat[x] = "ready" => r.prio[r.cur] <= r.prio[x]
        /\ \A x \in Threads :
             r.stat[x] = IF x = r.cur THEN "running"
                         ELSE IF ks.stat[x] = "running" THEN "ready" ELSE ks.stat[x]
        /\ r.cur = ks.cur => ks.stat[r.cur] = "running"
        /\ \A l \in Lists \ Priorities : On(r, l) = On(ks, l)
    BY <2>1, SwitchSound
  <2> HIDE DEF r
  <2>3. OnlyCurrentRuns(r)
    BY <2>2 DEF OnlyCurrentRuns
  <2> QED BY <2>1, <2>2, <2>3 DEF ScheduleFacts, r
<1> QED BY <1>1, <1>2

\* The end of a time slice, and rt_thread_yield.
LEMMA SliceSound ==
  ASSUME NEW ks, Sound(ks, {}), OnlyCurrentRuns(ks), ks.cur \in Threads
  PROVE  ScheduleFacts(SliceEnd(ks), ks)
<1> DEFINE v == [ks EXCEPT !.yield = ks.yield \cup {ks.cur}]
<1>1. ks \in KernelStates
  BY DEF Sound
<1>2. /\ v \in KernelStates
      /\ v.list = ks.list /\ v.group = ks.group /\ v.stat = ks.stat /\ v.prio = ks.prio
      /\ v.error = ks.error /\ v.timer = ks.timer /\ v.lock = ks.lock /\ v.cur = ks.cur
  BY <1>1 DEF KernelStates
<1>3. SliceEnd(ks) = RtSchedule(v)
  BY DEF SliceEnd
<1> HIDE DEF v
<1>4. Sound(v, {}) /\ \A l : On(v, l) = On(ks, l)
  <2>1. \A x \in v.timer : ks.stat[x] = "suspend"
    BY <1>2 DEF Sound, TimersSuspended
  <2> QED BY <1>2, <2>1, FieldsSound
<1>5. OnlyCurrentRuns(v)
  BY <1>2 DEF OnlyCurrentRuns
<1>6. ScheduleFacts(SliceEnd(ks), v)
  BY <1>2, <1>3, <1>4, <1>5, ScheduleSound
<1> QED BY <1>2, <1>4, <1>6 DEF ScheduleFacts

\* rt_system_scheduler_start, once a thread has been started.
LEMMA SchedulerStartSound ==
  ASSUME NEW ks, Sound(ks, {}), ks.group # {}, \A x \in Threads : ks.stat[x] # "running"
  PROVE  LET r == SchedulerStart(ks)
         IN  /\ Sound(r, {}) /\ OnlyCurrentRuns(r) /\ r.cur \in Threads
             /\ r.prio = ks.prio /\ r.error = ks.error /\ r.timer = ks.timer
             /\ r.lock = ks.lock
             /\ ks.stat[r.cur] = "ready"
             /\ \A x \in Threads : r.stat[x] = IF x = r.cur THEN "running" ELSE ks.stat[x]
             /\ \A x \in Threads : r.stat[x] = "ready" => r.prio[r.cur] <= r.prio[x]
             /\ \A l \in Lists \ Priorities : On(r, l) = On(ks, l)
<1>H. PICK h \in Threads : h = HighestThread(ks)
  BY HighestFacts
<1> DEFINE m == [ks EXCEPT !.cur = h]
           u == ScheduleRemove(m, h)
           r == SchedulerStart(ks)
<1>0. ks \in KernelStates
  BY DEF Sound
<1>1. /\ h \in Threads /\ ks.stat[h] = "ready" /\ h \notin ks.timer
      /\ \A x \in Threads \ {} : ks.stat[x] = "ready" => ks.prio[h] <= ks.prio[x]
  BY <1>H, HighestFacts
<1>2. PICK s \in Stats : s # "ready" /\ s = "running"
  BY DEF Stats
<1>3. r = AssignStat(u, h, s)
  BY <1>H, <1>2 DEF SchedulerStart
<1>4. \A l \in Lists \ Priorities : h \notin On(ks, l)
  BY <1>1, WhereLinked DEF Lists
<1>5. /\ m \in KernelStates
      /\ m.list = ks.list /\ m.group = ks.group /\ m.stat = ks.stat /\ m.prio = ks.prio
      /\ m.error = ks.error /\ m.timer = ks.timer /\ m.lock = ks.lock /\ m.cur = h
  BY <1>0, <1>1 DEF KernelStates
<1> HIDE DEF m, r
<1>6. Sound(m, {}) /\ \A l : On(m, l) = On(ks, l)
  <2>1. \A x \in m.timer : ks.stat[x] = "suspend"
    BY <1>5 DEF Sound, TimersSuspended
  <2> QED BY <1>5, <2>1, FieldsSound
<1>7. /\ Sound(u, {} \cup {h}) /\ Detached(u, h) /\ SameButLists(u, m)
      /\ \A l \in Lists : On(u, l) = On(m, l) \ {h}
  BY <1>1, <1>6, RemoveSound
<1> HIDE DEF u
<1>8. h \notin u.timer
  BY <1>1, <1>5, <1>7 DEF SameButLists
<1>9. /\ Sound(r, ({} \cup {h}) \ {h}) /\ SameButStat(r, u)
      /\ \A x \in Threads : r.stat[x] = IF x = h THEN s ELSE u.stat[x]
  <2>1. Sound(u, {} \cup {h}) /\ Detached(u, h) /\ h \in Threads
    BY <1>1, <1>7
  <2> QED BY <1>2, <1>3, <1>8, <2>1, AssignStatSound
<1>10. ({} \cup {h}) \ {h} = {}
  OBVIOUS
<1>11. Sound(r, {})
  BY <1>9, <1>10
<1>12. /\ r.cur = h /\ r.prio = ks.prio /\ r.error = ks.error /\ r.timer = ks.timer
       /\ r.lock = ks.lock
       /\ \A x \in Threads : r.stat[x] = IF x = h THEN "running" ELSE ks.stat[x]
  BY <1>2, <1>5, <1>7, <1>9 DEF SameButLists, SameButStat
<1>13. \A l \in Lists \ Priorities : On(r, l) = On(ks, l)
  <2>1. r.list = u.list
    BY <1>9 DEF SameButStat
  <2>2. \A l : On(r, l) = On(u, l)
    BY <2>1 DEF On
  <2>3. \A l \in Lists : On(u, l) = On(ks, l) \ {h}
    BY <1>6, <1>7
  <2> QED BY <1>4, <2>2, <2>3
<1>14. OnlyCurrentRuns(r)
  BY <1>1, <1>12 DEF OnlyCurrentRuns
<1> QED BY <1>1, <1>11, <1>12, <1>13, <1>14 DEF r
\* rt_system_scheduler_init leaves a sound state, with nothing linked anywhere.
LEMMA BootSound ==
  ASSUME NEW made, NEW p \in [Threads -> Priorities],
         NEW ks, ks = KernelBoot(made, p), NEW X
  PROVE  /\ Sound(ks, X) /\ OnlyCurrentRuns(ks) /\ ks.cur = NoThread /\ ks.lock = 0
         /\ ks.prio = p /\ \A l \in Lists : ks.list[l] = <<>> /\ On(ks, l) = {}
<1>1. /\ ks.stat = [t \in Threads |-> IF t \in made THEN "init" ELSE "none"]
      /\ ks.timer = {} /\ ks.group = {} /\ ks.cur = NoThread /\ ks.lock = 0
      /\ ks.list = [l \in Lists |-> <<>>] /\ ks.prio = p
  BY DEF KernelBoot
<1>2. ks \in KernelStates
  BY DEF KernelBoot, KernelStates, Stats, Errors
<1>3. \A l \in Lists : ks.list[l] = <<>> /\ On(ks, l) = {}
  BY <1>1 DEF On, ToSet
<1>4. \A t \in Threads : ks.stat[t] \in {"init", "none"}
  BY <1>1
<1>5. ListsDisjoint(ks)
  <2>1. IsInjective(<<>>)
    BY DEF IsInjective
  <2> QED BY <1>3, <2>1 DEF ListsDisjoint
<1>6. GroupExact(ks)
  BY <1>1, <1>3 DEF GroupExact, Lists
<1>7. ReadyListsSound(ks) /\ WaitersSuspended(ks) /\ DefunctClosed(ks) /\ TimersSuspended(ks)
  BY <1>1, <1>3 DEF ReadyListsSound, WaitersSuspended, DefunctClosed, TimersSuspended, Lists
<1>8. ReadyThreadsQueued(ks, X)
  BY <1>4 DEF ReadyThreadsQueued
<1>9. OnlyCurrentRuns(ks)
  BY <1>1, <1>4 DEF OnlyCurrentRuns
<1> QED BY <1>1, <1>2, <1>3, <1>5, <1>6, <1>7, <1>8, <1>9 DEF Sound

-----------------------------------------------------------------------------
(* Suspend lists as sequences.                                             *)

\* The list is empty exactly when nobody is on it.
LEMMA EmptyQueue ==
  ASSUME NEW ks \in KernelStates, NEW q \in Queues
  PROVE  ks.list[q] = <<>> <=> On(ks, q) = {}
<1>1. PICK s \in Seq(Threads) : s = ks.list[q]
  BY DEF KernelStates, Lists
<1>2. s # <<>> => ToSet(s) # {}
  <2>1. s # <<>> => 1 \in DOMAIN s
    OBVIOUS
  <2> QED BY <2>1 DEF ToSet
<1>3. ToSet(<<>>) = {}
  BY DEF ToSet
<1> QED BY <1>1, <1>2, <1>3 DEF On

\* rt_schedule_remove_thread unlinks the thread from whatever list holds it.
LEMMA RemoveLists ==
  ASSUME NEW ks \in KernelStates, NEW t \in Threads
  PROVE  \A l \in Lists : ScheduleRemove(ks, t).list[l] = RemoveFirst(ks.list[l], t)
BY DEF ScheduleRemove, Unlink, KernelStates

\* rt_schedule_insert_thread touches no suspend list.
LEMMA InsertLists ==
  ASSUME NEW ks \in KernelStates, NEW t \in Threads
  PROVE  \A q \in Queues : ScheduleInsert(ks, t).list[q] = ks.list[q]
<1>1. ks.prio[t] \notin Queues /\ ks.prio[t] \in Lists
  BY KernelAssumption DEF KernelStates, Lists
<1>2. CASE t = ks.cur
  BY <1>2 DEF ScheduleInsert, SetStat, KernelStates
<1>3. CASE t # ks.cur
  <2> DEFINE v == SetStat(ks, t, "ready")
  <2>1. v \in KernelStates /\ v.list = ks.list
    BY DEF SetStat, KernelStates, Stats
  <2>2. ScheduleInsert(ks, t) =
          [[v EXCEPT !.list[ks.prio[t]] = Append(v.list[ks.prio[t]], t)]
             EXCEPT !.group = v.group \cup {ks.prio[t]}]
    BY <1>3, <2>1 DEF ScheduleInsert, LinkLast, KernelStates
  <2> HIDE DEF v
  <2>3. \A q \in Queues : q \in Lists /\ q # ks.prio[t]
    BY <1>1 DEF Lists
  <2> QED BY <2>1, <2>2, <2>3 DEF KernelStates
<1> QED BY <1>2, <1>3

\* A thread that is READY or RUNNING is in no suspend list.
LEMMA LiveUnlisted ==
  ASSUME NEW ks, NEW X, Sound(ks, X), NEW t \in Threads, ks.stat[t] # "suspend",
         NEW q \in Queues
  PROVE  t \notin On(ks, q) /\ RemoveFirst(ks.list[q], t) = ks.list[q]
<1>1. t \notin On(ks, q)
  BY WhereLinked
<1>2. ks.list[q] \in Seq(Threads)
  BY DEF Sound, KernelStates, Lists
<1> QED BY <1>1, <1>2, RemoveAbsent DEF On

\* rt_schedule touches no suspend list.
LEMMA ScheduleLists ==
  ASSUME NEW ks, Sound(ks, {}), OnlyCurrentRuns(ks), ks.cur \in Threads
  PROVE  \A q \in Queues : RtSchedule(ks).list[q] = ks.list[q]
<1> DEFINE r == RtSchedule(ks)
<1>0. ks \in KernelStates /\ \A q \in Queues : q \in Lists
  BY DEF Sound, Lists
<1>1. CASE ks.lock > 0 \/ ks.group = {}
  BY <1>1 DEF RtSchedule
<1>2. CASE ~ (ks.lock > 0 \/ ks.group = {})
  <2>H. PICK h \in Threads : h = HighestThread(ks)
    BY <1>2, HighestFacts
  <2>h. ks.stat[h] = "ready"
    BY <1>2, <2>H, HighestFacts
  <2>c. PICK c \in Threads : c = ks.cur
    OBVIOUS
  <2>t. PICK to \in Threads : to = IF KeepsCpu(ks) THEN c ELSE h
    OBVIOUS
  <2>1. \A q \in Queues : RemoveFirst(ks.list[q], to) = ks.list[q]
    <3>1. ks.stat[to] # "suspend"
      BY <2>h, <2>c, <2>t DEF KeepsCpu
    <3> QED BY <3>1, LiveUnlisted
  <2> DEFINE y == IF ks.stat[c] = "running" THEN [ks EXCEPT !.yield = ks.yield \ {c}] ELSE ks
             m == [y EXCEPT !.cur = to]
             n == IF ks.stat[c] = "running" /\ to # c THEN ScheduleInsert(m, c) ELSE m
  <2>2. r = Dispatch(n, to)
    BY <1>2, <2>H, <2>c, <2>t DEF RtSchedule
  <2>3. m \in KernelStates /\ m.list = ks.list /\ m.stat = ks.stat /\ m.group = ks.group
        /\ m.prio = ks.prio /\ m.timer = ks.timer
    BY <1>0 DEF KernelStates
  <2> HIDE DEF m
  <2>4. n \in KernelStates /\ \A q \in Queues : n.list[q] = ks.list[q]
    <3>1. CASE ks.stat[c] = "running" /\ to # c
      <4>1. n = ScheduleInsert(m, c)
        BY <3>1
      <4>2. Sound(m, {})
        BY <2>3, MovedSound
      <4>3. Detached(m, c) /\ c \notin m.timer
        <5>1. m.stat[c] \notin {"ready", "suspend", "close"}
          BY <2>3, <3>1
        <5> QED BY <4>2, <5>1, WhereLinked DEF Sound, TimersSuspended
      <4>4. Sound(n, {} \ {c})
        BY <4>1, <4>2, <4>3, InsertSound
      <4> QED BY <2>3, <4>1, <4>4, InsertLists DEF Sound
    <3>2. CASE ~ (ks.stat[c] = "running" /\ to # c)
      BY <2>3, <3>2
    <3> QED BY <3>1, <3>2
  <2> HIDE DEF n
  <2>5. r.list = ScheduleRemove(n, to).list
    BY <2>2, <2>4 DEF Dispatch, SetStat, ScheduleRemove, Unlink, KernelStates
  <2>6. \A q \in Queues : r.list[q] = RemoveFirst(n.list[q], to)
    BY <1>0, <2>4, <2>5, RemoveLists
  <2> QED BY <2>1, <2>4, <2>6
<1> QED BY <1>1, <1>2

\* The end of a time slice touches no suspend list either.
LEMMA SliceLists ==
  ASSUME NEW ks, Sound(ks, {}), OnlyCurrentRuns(ks), ks.cur \in Threads
  PROVE  \A q \in Queues : SliceEnd(ks).list[q] = ks.list[q]
<1> DEFINE v == [ks EXCEPT !.yield = ks.yield \cup {ks.cur}]
<1>1. /\ v \in KernelStates
      /\ v.list = ks.list /\ v.group = ks.group /\ v.stat = ks.stat /\ v.prio = ks.prio
      /\ v.timer = ks.timer /\ v.cur = ks.cur
  BY DEF Sound, KernelStates
<1>2. SliceEnd(ks) = RtSchedule(v)
  BY DEF SliceEnd
<1> HIDE DEF v
<1>3. Sound(v, {})
  BY <1>1, MovedSound
<1>4. OnlyCurrentRuns(v)
  BY <1>1 DEF OnlyCurrentRuns
<1> QED BY <1>1, <1>2, <1>3, <1>4, ScheduleLists

\* rt_thread_resume takes the thread off its suspend list, and so does the timeout.
LEMMA ResumeLists ==
  ASSUME NEW ks, NEW X, Sound(ks, X), NEW t \in Threads
  PROVE  \A q \in Queues : ResumeLinked(ks, t).list[q] = RemoveFirst(ks.list[q], t)
<1> DEFINE v == StopTimer(Unlink(ks, t), t)
<1>1. Unlink(ks, t) \in KernelStates
  BY UnlinkFacts DEF Sound
<1>2. v \in KernelStates /\ v.list = Unlink(ks, t).list
  BY <1>1 DEF StopTimer, KernelStates
<1>3. \A q \in Queues : v.list[q] = RemoveFirst(ks.list[q], t)
  BY <1>2 DEF Unlink, Sound, KernelStates, Lists
<1>4. ResumeLinked(ks, t) = ScheduleInsert(v, t)
  BY DEF ResumeLinked
<1> HIDE DEF v
<1> QED BY <1>2, <1>3, <1>4, InsertLists

\* So does the expiry of its timer.
LEMMA TimeoutLists ==
  ASSUME NEW ks, NEW X, Sound(ks, X), NEW t \in Threads
  PROVE  \A q \in Queues : ThreadTimeout(ks, t).list[q] = RemoveFirst(ks.list[q], t)
<1> DEFINE v == [StopTimer(ks, t) EXCEPT !.error[t] = "timeout"]
           w == Unlink(v, t)
<1>1. v \in KernelStates /\ v.list = ks.list
  BY DEF StopTimer, Sound, KernelStates, Errors
<1>2. ThreadTimeout(ks, t) = ScheduleInsert(w, t)
  BY DEF ThreadTimeout
<1> HIDE DEF v
<1>3. ListsDisjoint(v)
  BY <1>1 DEF Sound, ListsDisjoint, On
<1>4. w \in KernelStates
  BY <1>1, <1>3, UnlinkFacts
<1>5. \A q \in Queues : w.list[q] = RemoveFirst(ks.list[q], t)
  BY <1>1 DEF Unlink, KernelStates, Lists
<1> HIDE DEF w
<1> QED BY <1>2, <1>4, <1>5, InsertLists

\* rt_thread_suspend of a thread that is READY or RUNNING touches no suspend list.
LEMMA SuspendLists ==
  ASSUME NEW ks, NEW X, Sound(ks, X), NEW t \in Threads, ks.stat[t] \in {"ready", "running"}
  PROVE  \A q \in Queues : ThreadSuspend(ks, t).list[q] = ks.list[q]
<1> DEFINE u == ScheduleRemove(ks, t)
<1>1. ks \in KernelStates /\ \A q \in Queues : q \in Lists
  BY DEF Sound, Lists
<1>2. ThreadSuspend(ks, t) = StopTimer(SetStat(u, t, "suspend"), t)
  BY DEF ThreadSuspend
<1>3. u \in KernelStates
  BY RemoveSound DEF Sound
<1>4. \A q \in Queues : u.list[q] = ks.list[q]
  BY <1>1, RemoveLists, LiveUnlisted
<1> HIDE DEF u
<1> QED BY <1>2, <1>3, <1>4 DEF StopTimer, SetStat, KernelStates

-----------------------------------------------------------------------------
(* Queueing.                                                               *)

\* The threads of s in order of their priorities.
InOrder(s, prio) == \A i, j \in DOMAIN s : i < j => prio[s[i]] <= prio[s[j]]

\* That is an order in the sense of SortedBy.
LEMMA OrderOfPriorities ==
  ASSUME NEW s \in Seq(Threads), NEW prio
  PROVE  InOrder(s, prio) <=>
           SortedBy(s, {p \in Threads \X Threads : prio[p[1]] <= prio[p[2]]})
<1>1. \A i, j \in 1 .. Len(s) :
         <<s[i], s[j]>> \in {p \in Threads \X Threads : prio[p[1]] <= prio[p[2]]}
           <=> prio[s[i]] <= prio[s[j]]
  OBVIOUS
<1>2. DOMAIN s = 1 .. Len(s)
  OBVIOUS
<1> QED BY <1>1, <1>2 DEF InOrder, SortedBy

\* A list in order stays in order when a thread leaves it.
LEMMA RemoveInOrder ==
  ASSUME NEW s \in Seq(Threads), IsInjective(s), NEW prio, InOrder(s, prio), NEW e
  PROVE  InOrder(RemoveFirst(s, e), prio)
<1>1. RemoveFirst(s, e) \in Seq(Threads)
  BY RemoveFirstProps
<1> QED BY <1>1, OrderOfPriorities, RemoveSorted

\* A list in order stays in order when a thread is put between the ones that are
\* not less urgent and the ones that are not more urgent.
LEMMA InsertInOrder ==
  ASSUME NEW s \in Seq(Threads), NEW prio, NEW t \in Threads, NEW at \in 1 .. Len(s) + 1,
         InOrder(s, prio),
         \A n \in 1 .. Len(s) : n < at => prio[s[n]] <= prio[t],
         \A n \in 1 .. Len(s) : n >= at => prio[t] <= prio[s[n]]
  PROVE  InOrder(InsertAt(s, at, t), prio)
<1> DEFINE R == {p \in Threads \X Threads : prio[p[1]] <= prio[p[2]]}
<1>1. /\ \A n \in 1 .. Len(s) : n < at => <<s[n], t>> \in R
      /\ \A n \in 1 .. Len(s) : n >= at => <<t, s[n]>> \in R
  OBVIOUS
<1>2. SortedBy(s, R)
  BY OrderOfPriorities
<1> HIDE DEF R
<1>3. SortedBy(InsertAt(s, at, t), R)
  BY <1>1, <1>2, InsertSorted
<1>4. InsertAt(s, at, t) \in Seq(Threads)
  BY InsertAtShape
<1> QED BY <1>3, <1>4, OrderOfPriorities DEF R

\* _ipc_list_suspend with RT_IPC_FLAG_PRIO: the place it finds is a place in the
\* list, and keeps the list in order.
LEMMA PlaceByPriority ==
  ASSUME NEW s \in Seq(Threads), NEW prio \in [Threads -> Priorities], NEW t \in Threads,
         NEW at, at = Min({i \in 1 .. Len(s) : prio[t] < prio[s[i]]} \cup {Len(s) + 1})
  PROVE  /\ at \in 1 .. Len(s) + 1
         /\ InOrder(s, prio) => InOrder(InsertAt(s, at, t), prio)
<1> DEFINE later == {i \in 1 .. Len(s) : prio[t] < prio[s[i]]}
<1>1. later \cup {Len(s) + 1} \subseteq Nat /\ later \cup {Len(s) + 1} # {}
  OBVIOUS
<1>2. at \in later \cup {Len(s) + 1} /\ \A y \in later \cup {Len(s) + 1} : at <= y
  BY <1>1, MinProps
<1>3. at \in 1 .. Len(s) + 1
  BY <1>2
<1>p. \A x \in Threads : prio[x] \in Int
  BY DEF Priorities
<1>4. ASSUME InOrder(s, prio) PROVE InOrder(InsertAt(s, at, t), prio)
  <2>2. ASSUME NEW n \in 1 .. Len(s), n < at PROVE prio[s[n]] <= prio[t]
    <3>1. n \notin later
      BY <1>2, <2>2
    <3> QED BY <1>p, <3>1
  <2>3. ASSUME NEW n \in 1 .. Len(s), n >= at PROVE prio[t] <= prio[s[n]]
    <3>1. at \in later
      BY <1>2, <2>3
    <3>2. prio[s[at]] <= prio[s[n]]
      BY <1>4, <2>3, <1>p, <3>1 DEF InOrder
    <3> QED BY <1>p, <3>1, <3>2
  <2>4. PICK i \in 1 .. Len(s) + 1 : i = at
    BY <1>3
  <2>5. /\ \A n \in 1 .. Len(s) : n < i => prio[s[n]] <= prio[t]
        /\ \A n \in 1 .. Len(s) : n >= i => prio[t] <= prio[s[n]]
    BY <2>2, <2>3, <2>4
  <2>6. InOrder(InsertAt(s, i, t), prio)
    BY <1>4, <2>5, InsertInOrder
  <2> QED BY <2>4, <2>6
<1> QED BY <1>3, <1>4

\* u is ks with s in place of list q.
Relisted(u, ks, q, s) ==
  /\ u \in KernelStates /\ SameButLists(u, ks) /\ u.group = ks.group
  /\ \A l \in Lists : u.list[l] = IF l = q THEN s ELSE ks.list[l]

\* Assigning the list field does that.
LEMMA RelistedFacts ==
  ASSUME NEW ks \in KernelStates, NEW q \in Queues, NEW s \in Seq(Threads)
  PROVE  Relisted([ks EXCEPT !.list[q] = s], ks, q, s)
<1>1. q \in Lists
  BY DEF Lists
<1> QED BY <1>1 DEF Relisted, KernelStates, SameButLists

\* Linking a suspended thread that no list holds into a suspend list.
LEMMA QueueSound ==
  ASSUME NEW ks, NEW X, Sound(ks, X), NEW t \in Threads, Detached(ks, t),
         ks.stat[t] = "suspend", NEW q \in Queues,
         NEW s \in Seq(Threads), ToSet(s) = On(ks, q) \cup {t}, IsInjective(s),
         NEW u, Relisted(u, ks, q, s)
  PROVE  /\ Sound(u, X) /\ SameButLists(u, ks)
         /\ u.list[q] = s
         /\ \A l \in Lists \ {q} : u.list[l] = ks.list[l]
<1>1. ks \in KernelStates /\ q \in Lists /\ ListsDisjoint(ks)
  BY DEF Sound, Lists
<1>2. /\ u \in KernelStates /\ SameButLists(u, ks) /\ u.group = ks.group
      /\ \A l \in Lists : u.list[l] = IF l = q THEN s ELSE ks.list[l]
  BY DEF Relisted
<1>3. /\ ListsDisjoint(u)
      /\ \A m \in Lists : On(u, m) = IF m = q THEN On(ks, q) \cup {t} ELSE On(ks, m)
  BY <1>1, <1>2, LinkFacts
<1>4. \A p \in Priorities : p \in Lists /\ p # q /\ On(u, p) = On(ks, p)
  BY <1>3, KernelAssumption DEF Lists
<1>5. GroupExact(u)
  BY <1>1, <1>2, <1>4, GroupSets DEF Sound
<1>6. ReadyListsSound(u) /\ ReadyThreadsQueued(u, X)
  <2>1. u.stat = ks.stat /\ u.prio = ks.prio
    BY <1>2 DEF SameButLists
  <2>2. \A x \in Threads : ks.prio[x] \in Priorities
    BY <1>1 DEF KernelStates
  <2> QED BY <1>4, <2>1, <2>2 DEF Sound, ReadyListsSound, ReadyThreadsQueued
<1>7. WaitersSuspended(u)
  BY <1>2, <1>3 DEF Sound, WaitersSuspended, SameButLists, Lists
<1>8. DefunctClosed(u) /\ TimersSuspended(u)
  <2>1. Defunct \in Lists /\ Defunct # q
    BY KernelAssumption DEF Lists
  <2> QED BY <1>2, <1>3, <2>1 DEF Sound, DefunctClosed, TimersSuspended, SameButLists
<1> QED BY <1>1, <1>2, <1>3, <1>5, <1>6, <1>7, <1>8 DEF Sound
-----------------------------------------------------------------------------
(* Going to sleep in a suspend list, and being woken.                      *)

\* r is ks with t, until then running or READY, suspended in list q.
Blocked(r, ks, q, t) ==
  /\ Sound(r, {})
  /\ r.prio = ks.prio /\ r.error = ks.error /\ r.cur = ks.cur /\ r.lock = ks.lock
  /\ \A x \in Threads : r.stat[x] = IF x = t THEN "suspend" ELSE ks.stat[x]
  /\ On(r, q) = On(ks, q) \cup {t}
  /\ \A l \in Queues \ {q} : r.list[l] = ks.list[l]

\* Whichever end or place of q the policy chooses.
LEMMA BlockSound ==
  ASSUME NEW ks, Sound(ks, {}), NEW t \in Threads, ks.stat[t] \in {"ready", "running"},
         NEW q \in Queues,
         NEW s \in Seq(Threads), ToSet(s) = On(ks, q) \cup {t}, IsInjective(s),
         NEW v, v = ThreadSuspend(ks, t), NEW r, Relisted(r, v, q, s)
  PROVE  Blocked(r, ks, q, t) /\ r.list[q] = s
<1>1. /\ Sound(v, {} \ {t}) /\ Detached(v, t)
      /\ v.prio = ks.prio /\ v.error = ks.error
      /\ v.cur = ks.cur /\ v.lock = ks.lock
      /\ \A x \in Threads : v.stat[x] = IF x = t THEN "suspend" ELSE ks.stat[x]
  BY SuspendSound
<1>2. \A l \in Queues : v.list[l] = ks.list[l]
  BY SuspendLists
<1>3. {} \ {t} = {}
  OBVIOUS
<1>4. Sound(v, {}) /\ v.stat[t] = "suspend" /\ On(v, q) = On(ks, q)
  BY <1>1, <1>2, <1>3 DEF On
<1>5. ToSet(s) = On(v, q) \cup {t}
  BY <1>4
<1>6. /\ Sound(r, {}) /\ SameButLists(r, v) /\ r.list[q] = s
      /\ \A l \in Lists \ {q} : r.list[l] = v.list[l]
  BY <1>1, <1>4, <1>5, QueueSound
<1>7. \A l \in Queues \ {q} : r.list[l] = ks.list[l]
  BY <1>2, <1>6 DEF Lists
<1>8. On(r, q) = On(ks, q) \cup {t}
  BY <1>6 DEF On
<1> QED BY <1>1, <1>6, <1>7, <1>8 DEF Blocked, SameButLists

\* _ipc_list_suspend with RT_IPC_FLAG_FIFO
LEMMA FifoBlocks ==
  ASSUME NEW ks, Sound(ks, {}), NEW t \in Threads, ks.stat[t] \in {"ready", "running"},
         NEW q \in Queues
  PROVE  Blocked(ListSuspendFifo(ks, q, t), ks, q, t)
<1> DEFINE s == Append(ks.list[q], t)
<1>1. ks.list[q] \in Seq(Threads) /\ IsInjective(ks.list[q]) /\ t \notin ToSet(ks.list[q])
  BY LiveUnlisted DEF Sound, KernelStates, ListsDisjoint, Lists, On
<1>2. s \in Seq(Threads) /\ ToSet(s) = On(ks, q) \cup {t} /\ IsInjective(s)
  BY <1>1, AppendProps DEF On
<1>3. ThreadSuspend(ks, t).list[q] = ks.list[q]
  BY SuspendLists
<1>4. ListSuspendFifo(ks, q, t) = [ThreadSuspend(ks, t) EXCEPT !.list[q] = s]
  BY <1>3 DEF ListSuspendFifo, LinkLast
<1>5. ThreadSuspend(ks, t) \in KernelStates
  BY SuspendSound DEF Sound
<1> HIDE DEF s
<1>6. Relisted(ListSuspendFifo(ks, q, t), ThreadSuspend(ks, t), q, s)
  BY <1>2, <1>4, <1>5, RelistedFacts
<1> QED BY <1>2, <1>6, BlockSound

\* _ipc_list_suspend with RT_IPC_FLAG_PRIO
LEMMA PrioBlocks ==
  ASSUME NEW ks, Sound(ks, {}), NEW t \in Threads, ks.stat[t] \in {"ready", "running"},
         NEW q \in Queues
  PROVE  /\ Blocked(ListSuspendPrio(ks, q, t), ks, q, t)
         /\ InOrder(ks.list[q], ks.prio) => InOrder(ListSuspendPrio(ks, q, t).list[q], ks.prio)
<1> DEFINE v == ThreadSuspend(ks, t)
           w == ks.list[q]
           at == Min({i \in 1 .. Len(w) : ks.prio[t] < ks.prio[w[i]]} \cup {Len(w) + 1})
           s == InsertAt(w, at, t)
<1>1. /\ w \in Seq(Threads) /\ IsInjective(w) /\ t \notin ToSet(w)
      /\ ks.prio \in [Threads -> Priorities]
  BY LiveUnlisted DEF Sound, KernelStates, ListsDisjoint, Lists, On
<1>2. v.list[q] = w /\ v.prio = ks.prio /\ v \in KernelStates
  BY SuspendLists, SuspendSound DEF Sound
<1>3. ListSuspendPrio(ks, q, t) = [v EXCEPT !.list[q] = s]
  BY <1>2 DEF ListSuspendPrio, LinkByPriority
<1> HIDE DEF v
<1>4. PICK prio \in [Threads -> Priorities] : prio = ks.prio
  BY <1>1
<1>5. PICK z \in Seq(Threads) : z = w
  BY <1>1
<1>6. at = Min({i \in 1 .. Len(z) : prio[t] < prio[z[i]]} \cup {Len(z) + 1})
  BY <1>4, <1>5
<1> HIDE DEF at
<1>7. /\ at \in 1 .. Len(z) + 1
      /\ InOrder(z, prio) => InOrder(InsertAt(z, at, t), prio)
  BY <1>6, PlaceByPriority
<1>8. PICK i \in 1 .. Len(z) + 1 : i = at
  BY <1>7
<1>9. /\ InsertAt(z, i, t) \in Seq(Threads) /\ ToSet(InsertAt(z, i, t)) = ToSet(z) \cup {t}
      /\ IsInjective(InsertAt(z, i, t))
  BY <1>1, <1>5, InsertAtProps
<1>10. /\ s \in Seq(Threads) /\ ToSet(s) = On(ks, q) \cup {t} /\ IsInjective(s)
  BY <1>5, <1>8, <1>9 DEF On
<1>11. InOrder(w, ks.prio) => InOrder(s, ks.prio)
  BY <1>4, <1>5, <1>7
<1> HIDE DEF s, w
<1>12. /\ Blocked(ListSuspendPrio(ks, q, t), ks, q, t)
       /\ ListSuspendPrio(ks, q, t).list[q] = s
  <2>1. Relisted(ListSuspendPrio(ks, q, t), v, q, s)
    BY <1>2, <1>3, <1>10, RelistedFacts
  <2> QED BY <1>10, <2>1, BlockSound DEF v
<1> QED BY <1>11, <1>12 DEF w

\* A finite time starts the timer of the suspended thread.
LEMMA TimerBlocks ==
  ASSUME NEW ks, NEW q \in Queues, NEW t \in Threads, NEW r, Blocked(r, ks, q, t)
  PROVE  Blocked(StartTimer(r, t), ks, q, t) /\ StartTimer(r, t).list = r.list
<1> DEFINE u == StartTimer(r, t)
<1>1. r \in KernelStates
  BY DEF Blocked, Sound
<1>2. /\ u \in KernelStates
      /\ u.list = r.list /\ u.group = r.group /\ u.stat = r.stat /\ u.prio = r.prio
      /\ u.error = r.error /\ u.cur = r.cur /\ u.lock = r.lock /\ u.timer = r.timer \cup {t}
  BY <1>1 DEF StartTimer, KernelStates
<1> HIDE DEF u
<1>3. \A x \in u.timer : r.stat[x] = "suspend"
  BY <1>2 DEF Blocked, Sound, TimersSuspended
<1>4. Sound(u, {}) /\ \A l : On(u, l) = On(r, l)
  <2>1. Sound(r, {})
    BY DEF Blocked
  <2>2. \A x \in Threads : r.stat[x] = "ready" => u.prio[x] = r.prio[x]
    BY <1>2
  <2> QED BY <1>2, <1>3, <2>1, <2>2, FieldsSound
<1>5. On(u, q) = On(ks, q) \cup {t}
  BY <1>4 DEF Blocked
<1> QED BY <1>2, <1>4, <1>5 DEF Blocked, u

\* r is ks with t, until then suspended, made ready again (or running, if it has
\* not left the CPU yet) and told err.
WokenUp(r, ks, t, err) ==
  /\ Sound(r, {})
  /\ r.prio = ks.prio /\ r.cur = ks.cur /\ r.lock = ks.lock
  /\ \A x \in Threads : r.error[x] = IF x = t THEN err ELSE ks.error[x]
  /\ \A x \in Threads :
       r.stat[x] = IF x # t THEN ks.stat[x] ELSE IF t = ks.cur THEN "running" ELSE "ready"
  /\ \A q \in Queues :
       r.list[q] = RemoveFirst(ks.list[q], t) /\ On(r, q) = On(ks, q) \ {t}

\* rt_thread_resume wakes.
LEMMA ResumeWakes ==
  ASSUME NEW ks, Sound(ks, {}), NEW t \in Threads, ks.stat[t] = "suspend"
  PROVE  WokenUp(ResumeLinked(ks, t), ks, t, ks.error[t])
<1> DEFINE r == ResumeLinked(ks, t)
<1>1. /\ Sound(r, {} \ {t})
      /\ r.prio = ks.prio /\ r.error = ks.error
      /\ r.cur = ks.cur /\ r.lock = ks.lock
      /\ \A x \in Threads :
           r.stat[x] = IF x # t THEN ks.stat[x] ELSE IF t = ks.cur THEN "running" ELSE "ready"
      /\ \A l \in Lists \ Priorities : On(r, l) = On(ks, l) \ {t}
  BY ResumeSound
<1>2. \A q \in Queues : r.list[q] = RemoveFirst(ks.list[q], t)
  BY ResumeLists
<1> HIDE DEF r
<1>3. {} \ {t} = {}
  OBVIOUS
<1>4. \A q \in Queues : q \in Lists \ Priorities
  BY KernelAssumption DEF Lists
<1> QED BY <1>1, <1>2, <1>3, <1>4 DEF WokenUp, r

\* _thread_timeout
LEMMA TimeoutWakes ==
  ASSUME NEW ks, Sound(ks, {}), NEW t \in Threads, ks.stat[t] = "suspend"
  PROVE  WokenUp(ThreadTimeout(ks, t), ks, t, "timeout")
<1> DEFINE r == ThreadTimeout(ks, t)
<1>1. /\ Sound(r, {} \ {t})
      /\ r.prio = ks.prio /\ r.cur = ks.cur /\ r.lock = ks.lock
      /\ \A x \in Threads : r.error[x] = IF x = t THEN "timeout" ELSE ks.error[x]
      /\ \A x \in Threads :
           r.stat[x] = IF x # t THEN ks.stat[x] ELSE IF t = ks.cur THEN "running" ELSE "ready"
      /\ \A l \in Lists \ Priorities : On(r, l) = On(ks, l) \ {t}
  BY TimeoutSound
<1>2. \A q \in Queues : r.list[q] = RemoveFirst(ks.list[q], t)
  BY TimeoutLists
<1> HIDE DEF r
<1>3. {} \ {t} = {}
  OBVIOUS
<1>4. \A q \in Queues : q \in Lists \ Priorities
  BY KernelAssumption DEF Lists
<1> QED BY <1>1, <1>2, <1>3, <1>4 DEF WokenUp, r

\* The first of the waiters is a suspended thread.
LEMMA FirstWaiter ==
  ASSUME NEW ks, NEW X, Sound(ks, X), NEW q \in Queues, ks.list[q] # <<>>
  PROVE  /\ Head(ks.list[q]) \in Threads /\ Head(ks.list[q]) \in On(ks, q)
         /\ ks.stat[Head(ks.list[q])] = "suspend"
<1>1. ks.list[q] \in Seq(Threads)
  BY DEF Sound, KernelStates, Lists
<1>2. Head(ks.list[q]) \in Threads /\ Head(ks.list[q]) \in On(ks, q)
  BY <1>1, HeadIn DEF On
<1> QED BY <1>2, WhereLinked

\* _ipc_list_resume hands over to the first waiter.
LEMMA ListResumeWakes ==
  ASSUME NEW ks, Sound(ks, {}), NEW q \in Queues, ks.list[q] # <<>>,
         NEW h, h = Head(ks.list[q])
  PROVE  WokenUp(ListResume(ks, q), ks, h, ks.error[h])
<1>1. h \in Threads /\ ks.stat[h] = "suspend"
  BY FirstWaiter
<1>2. ListResume(ks, q) = ResumeLinked(ks, h)
  BY <1>1 DEF ListResume, ThreadResume
<1> QED BY <1>1, <1>2, ResumeWakes

\* One iteration of _ipc_list_resume_all tells it that it waited in vain.
LEMMA ListResumeFailedWakes ==
  ASSUME NEW ks, Sound(ks, {}), NEW q \in Queues, ks.list[q] # <<>>,
         NEW h, h = Head(ks.list[q])
  PROVE  WokenUp(ListResumeFailed(ks, q), ks, h, "error")
<1> DEFINE v == [ks EXCEPT !.error[h] = "error"]
<1>1. h \in Threads /\ ks.stat[h] = "suspend" /\ ks \in KernelStates
  BY FirstWaiter DEF Sound
<1>2. /\ v \in KernelStates
      /\ v.list = ks.list /\ v.group = ks.group /\ v.stat = ks.stat /\ v.prio = ks.prio
      /\ v.timer = ks.timer /\ v.cur = ks.cur /\ v.lock = ks.lock
      /\ \A x \in Threads : v.error[x] = IF x = h THEN "error" ELSE ks.error[x]
  BY <1>1 DEF KernelStates, Errors
<1>3. ListResumeFailed(ks, q) = ThreadResume(v, h)
  BY DEF ListResumeFailed
<1> HIDE DEF v
<1>4. ListResumeFailed(ks, q) = ResumeLinked(v, h)
  BY <1>1, <1>2, <1>3 DEF ThreadResume
<1>5. Sound(v, {}) /\ \A l : On(v, l) = On(ks, l)
  BY <1>2, MovedSound
<1>6. WokenUp(ResumeLinked(v, h), v, h, v.error[h])
  BY <1>1, <1>2, <1>5, ResumeWakes
<1> QED BY <1>1, <1>2, <1>4, <1>5, <1>6 DEF WokenUp
\* Closing a thread touches no suspend list.
LEMMA CloseLists ==
  ASSUME NEW ks \in KernelStates, NEW t \in Threads
  PROVE  \A q \in Queues : ThreadClose(ks, t).list[q] = ks.list[q]
<1>1. \A q \in Queues : q \in Lists /\ q # Defunct
  BY KernelAssumption DEF Lists
<1> QED BY <1>1 DEF ThreadClose, LinkFirst, AssignStat, StopTimer, KernelStates

\* Soundness does not depend on thread->error, rt_current_thread or the YIELD bits.
LEMMA SoundSame ==
  ASSUME NEW ks, NEW X, Sound(ks, X), NEW e \in KernelStates,
         e.stat = ks.stat, e.prio = ks.prio, e.list = ks.list, e.timer = ks.timer,
         e.group = ks.group
  PROVE  Sound(e, X)
BY DEF Sound, ListsDisjoint, GroupExact, ReadyListsSound, ReadyThreadsQueued,
       WaitersSuspended, DefunctClosed, TimersSuspended, On

\* What waiters cannot tell apart: u differs from ks in nothing but which of the
\* threads that can run is running.
Unnoticed(u, ks) ==
  /\ u.prio = ks.prio /\ u.error = ks.error
  /\ \A x \in Threads :
       \/ u.stat[x] = ks.stat[x]
       \/ u.stat[x] \in {"ready", "running"} /\ ks.stat[x] \in {"ready", "running"}
  /\ \A q \in Queues : u.list[q] = ks.list[q]

\* No READY thread is more urgent than the one that has the CPU.
Settled(ks) ==
  ks.cur # NoThread =>
    \A x \in Threads : ks.stat[x] = "ready" => ks.prio[ks.cur] <= ks.prio[x]

\* Nobody notices a step that changes nothing.
LEMMA UnnoticedSame ==
  ASSUME NEW ks
  PROVE  Unnoticed(ks, ks)
BY DEF Unnoticed

\* Nobody notices rt_schedule, or the end of a time slice.
LEMMA ScheduleUnnoticed ==
  ASSUME NEW ks, Sound(ks, {}), OnlyCurrentRuns(ks), ks.cur \in Threads
  PROVE  /\ ScheduleFacts(RtSchedule(ks), ks) /\ Unnoticed(RtSchedule(ks), ks)
         /\ ScheduleFacts(SliceEnd(ks), ks) /\ Unnoticed(SliceEnd(ks), ks)
<1>1. ScheduleFacts(RtSchedule(ks), ks) /\ ScheduleFacts(SliceEnd(ks), ks)
  BY ScheduleSound, SliceSound
<1>2. /\ \A q \in Queues : RtSchedule(ks).list[q] = ks.list[q]
      /\ \A q \in Queues : SliceEnd(ks).list[q] = ks.list[q]
  BY ScheduleLists, SliceLists
<1> QED BY <1>1, <1>2 DEF ScheduleFacts, Unnoticed

-----------------------------------------------------------------------------
(* RtThread: the inductive invariant.                                      *)

\* What the proofs assume of the callers of rt_thread_resume, rt_thread_delete,
\* rt_thread_detach and RT_THREAD_CTRL_CLOSE.
CallersMask == {"resume", "delete", "close"} \subseteq Masked

\* The inductive invariant.  KernelSound alone is not inductive: a service that
\* is half done must still hold the thread it works on (MidService), and a
\* switch must find a thread to switch to (CpuOccupied).
IInv ==
  /\ TypeOK
  /\ Sound(k, Limbo)
  /\ OnlyCurrentRuns(k)
  /\ MidService
  /\ CpuOccupied
  /\ pc[Idle] \in {"run", "peek", "reap"}

\* What one step may do to closed threads, and when it switches.
ClosedKept == \A t \in Threads : k.stat[t] = "close" => k'.stat[t] \in {"close", "none"}
HighestTaken ==
  k'.cur # k.cur => \A t \in Threads : k'.stat[t] = "ready" => k'.prio[k'.cur] <= k'.prio[t]
Step == IInv' /\ ClosedKept /\ HighestTaken

-----------------------------------------------------------------------------
(* Facts about the state in which a step starts.                           *)

\* A current thread outside of rt_thread_delete has nobody in limbo.
LEMMA NoLimbo ==
  ASSUME IInv, k.cur \in Threads => pc[k.cur] \notin {"delete", "close"}
  PROVE  Limbo = {} /\ Sound(k, {})
<1>1. Limbo = {}
  <2>1. k.cur \in Threads \cup {NoThread}
    BY DEF IInv, Sound, KernelStates
  <2> QED BY <2>1 DEF Limbo, At, Running, Self
<1> QED BY <1>1 DEF IInv

\* An application thread calls services while it runs, with nobody in limbo.
LEMMA InAppFacts ==
  ASSUME IInv, InApp
  PROVE  /\ k.cur \in Workers /\ k.cur \in Threads /\ pc[k.cur] = "run"
         /\ k.stat[k.cur] = "running" /\ Limbo = {} /\ Sound(k, {})
         /\ k.stat[Idle] \in {"ready", "running"}
<1>1. k.cur \in Threads \cup {NoThread}
  BY DEF IInv, Sound, KernelStates
<1>2. k.cur \in Workers /\ k.cur \in Threads /\ pc[k.cur] = "run"
  BY <1>1 DEF InApp, At, Running, Self, Workers
<1>3. Limbo = {} /\ Sound(k, {})
  BY <1>2, NoLimbo
<1>4. k.stat[k.cur] = "running" /\ k.stat[Idle] \in {"ready", "running"}
  BY <1>2 DEF IInv, CpuOccupied, InApp, At, Running, Self
<1> QED BY <1>2, <1>3, <1>4

\* A step of an application thread c that keeps the CPU: what it does to closed
\* threads, and what it leaves for c to go on with, decides the invariant.
LEMMA WorkerStep ==
  ASSUME IInv, NEW c \in Workers, c = k.cur, k'.cur = c,
         pc' \in [Threads -> PCs], arg' \in [Threads -> Threads \cup {NoThread}],
         lazy' \in BOOLEAN,
         Sound(k', Limbo'), OnlyCurrentRuns(k'),
         \A t \in Threads \ {c} : (pc'[t] = pc[t] /\ arg'[t] = arg[t]) \/ pc'[t] = "run",
         \A x \in Threads : k.stat[x] = "close" =>
            k'.stat[x] = "close" /\ \A l \in Lists : x \in On(k', l) <=> x \in On(k, l),
         pc'[c] \notin {"peek", "reap"},
         pc'[c] \in {"resume", "delete", "close"} => arg'[c] \in Workers,
         pc'[c] = "resume" => k'.stat[arg'[c]] = "suspend",
         pc'[c] \in {"delete", "close"} =>
            /\ k'.stat[arg'[c]] \notin {"none", "close"}
            /\ Detached(k', arg'[c])
            /\ arg'[c] = c => pc'[c] = "close" /\ k'.lock = 0,
         k'.stat[c] # "running" => k'.lock = 0 /\ pc'[c] \in {"sched", "sleep"},
         k'.stat[Idle] \in {"ready", "running"}
  PROVE  Step
<1>1. c \in Threads /\ c # Idle /\ c # NoThread /\ Idle \in Threads /\ Defunct \in Lists
  BY KernelAssumption DEF Workers, Lists
<1>2. TypeOK'
  BY DEF Sound, TypeOK
<1>3. MidService'
  <2>1. ASSUME NEW t \in Threads, t # c, pc'[t] \in {"peek", "reap"}
        PROVE  /\ t = Idle /\ arg'[t] \in Workers \ {c} /\ k'.stat[arg'[t]] = "close"
               /\ pc'[t] = "peek" => arg'[t] \in On(k', Defunct)
               /\ pc'[t] = "reap" => \A l \in Lists : arg'[t] \notin On(k', l)
    <3>1. pc'[t] = pc[t] /\ arg'[t] = arg[t]
      BY <2>1
    <3>2. /\ t = Idle /\ arg[t] \in Workers \ {c} /\ k.stat[arg[t]] = "close"
          /\ pc[t] = "peek" => arg[t] \in On(k, Defunct)
          /\ pc[t] = "reap" => \A l \in Lists : arg[t] \notin On(k, l)
      BY <2>1, <3>1 DEF IInv, MidService, Self
    <3>3. arg[t] \in Threads
      BY <3>2 DEF Workers
    <3> QED BY <1>1, <3>1, <3>2, <3>3
  <2>2. ASSUME NEW t \in Threads, t # c
        PROVE  pc'[t] \notin {"resume", "delete", "close"}
    BY <2>2 DEF IInv, MidService, Self
  <2>3. c = k'.cur
    OBVIOUS
  <2> QED BY <2>1, <2>2, <2>3 DEF MidService, Self, Detached
<1>4. CpuOccupied'
  BY DEF CpuOccupied, Self
<1>5. pc'[Idle] \in {"run", "peek", "reap"}
  BY <1>1 DEF IInv
<1>6. ClosedKept /\ HighestTaken
  BY DEF ClosedKept, HighestTaken
<1> QED BY <1>2, <1>3, <1>4, <1>5, <1>6 DEF IInv, Step

\* A step that ends with rt_schedule, applied to a state ks that the step has
\* made of k: the current thread is in no service that must not be preempted.
LEMMA ThreadScheduleStep ==
  ASSUME IInv, k.cur \in Threads, pc[k.cur] \notin {"resume", "delete", "close"},
         NEW ks, Sound(ks, {}), OnlyCurrentRuns(ks), ks.cur = k.cur,
         \A x \in Threads : k.stat[x] = "close" =>
            /\ ks.stat[x] = "close"
            /\ \A l \in Lists \ Priorities : x \in On(ks, l) <=> x \in On(k, l),
         ks.stat[Idle] \in {"ready", "running"},
         ks.stat[ks.cur] # "running" => ks.lock = 0,
         ScheduleFacts(k', ks),
         pc' \in [Threads -> PCs], arg' = arg, lazy' \in BOOLEAN,
         \A t \in Threads : pc'[t] = pc[t] \/ (t # Idle /\ pc'[t] \in {"run", "woken"})
  PROVE  Step
<1>1. Idle \in Threads /\ NoThread \notin Threads /\ Defunct \in Lists \ Priorities
  BY KernelAssumption DEF Lists
<1>2. k'.stat[k'.cur] = "running"
  <2>1. CASE ks.stat[ks.cur] = "running"
    BY <2>1 DEF ScheduleFacts
  <2>2. CASE ks.stat[ks.cur] # "running"
    <3>1. Idle # ks.cur
      BY <1>1, <2>2 DEF OnlyCurrentRuns
    <3>2. ks.stat[Idle] = "ready"
      BY <1>1, <3>1 DEF OnlyCurrentRuns
    <3>3. ks.group # {}
      BY <1>1, <3>2, GroupNonEmpty
    <3> QED BY <2>2, <3>3 DEF ScheduleFacts
  <2> QED BY <2>1, <2>2
<1>3. k'.cur \in Threads /\ Sound(k', {}) /\ OnlyCurrentRuns(k')
  BY DEF ScheduleFacts
<1>4. \A t \in Threads : pc[t] \notin {"resume", "delete", "close"}
  BY DEF IInv, MidService, Self
<1>5. Limbo' = {}
  <2>1. pc'[k'.cur] \notin {"delete", "close"}
    BY <1>3, <1>4
  <2> QED BY <2>1 DEF Limbo, At, Self
<1>6. TypeOK'
  BY <1>3 DEF IInv, TypeOK, Sound
<1>7. \A x \in Threads : k.stat[x] = "close" =>
        /\ k'.stat[x] = "close"
        /\ \A l \in Lists \ Priorities : x \in On(k', l) <=> x \in On(k, l)
        /\ x # k.cur => x # k'.cur
  BY DEF ScheduleFacts
<1>8. MidService'
  <2>1. ASSUME NEW t \in Threads, pc'[t] \in {"peek", "reap"}
        PROVE  /\ t = Idle /\ arg'[t] \in Workers \ {k'.cur} /\ k'.stat[arg'[t]] = "close"
               /\ pc'[t] = "peek" => arg'[t] \in On(k', Defunct)
               /\ pc'[t] = "reap" => \A l \in Lists : arg'[t] \notin On(k', l)
    <3>1. pc'[t] = pc[t] /\ arg'[t] = arg[t]
      BY <2>1
    <3>2. /\ t = Idle /\ arg[t] \in Workers \ {k.cur} /\ k.stat[arg[t]] = "close"
          /\ pc[t] = "peek" => arg[t] \in On(k, Defunct)
          /\ pc[t] = "reap" => \A l \in Lists : arg[t] \notin On(k, l)
      BY <2>1, <3>1 DEF IInv, MidService, Self
    <3>3. arg[t] \in Threads
      BY <3>2 DEF Workers
    <3>4. k'.stat[arg[t]] = "close" /\ arg[t] # k'.cur
      BY <1>7, <3>2, <3>3
    <3>5. \A p \in Priorities : arg[t] \notin On(k', p)
      BY <1>3, <3>3, <3>4, WhereLinked
    <3> QED BY <1>1, <1>7, <3>1, <3>2, <3>3, <3>4, <3>5
  <2>2. \A t \in Threads : pc'[t] \notin {"resume", "delete", "close"}
    BY <1>4
  <2> QED BY <2>1, <2>2 DEF MidService, Self
<1>9. CpuOccupied'
  BY <1>1, <1>2 DEF CpuOccupied, Self, ScheduleFacts
<1>10. pc'[Idle] \in {"run", "peek", "reap"}
  BY <1>1 DEF IInv
<1>11. ClosedKept
  BY <1>7 DEF ClosedKept
<1>12. HighestTaken
  BY DEF HighestTaken, ScheduleFacts
<1> QED BY <1>3, <1>5, <1>6, <1>8, <1>9, <1>10, <1>11, <1>12 DEF IInv, Step

-----------------------------------------------------------------------------
(* The steps that end with rt_schedule.                                    *)

\* A step that applies rt_schedule, or the end of a slice, to k itself.
LEMMA ScheduleHere ==
  ASSUME IInv, k.cur \in Threads, pc[k.cur] \notin {"resume", "delete", "close"},
         k' = RtSchedule(k) \/ k' = SliceEnd(k), Scheduled, UNCHANGED arg,
         \/ UNCHANGED pc
         \/ pc[k.cur] \in {"sched", "sleep"}
            /\ \E to \in {"run", "woken"} : pc' = [pc EXCEPT ![k.cur] = to]
  PROVE  Step
<1>1. Sound(k, {}) /\ OnlyCurrentRuns(k)
  BY NoLimbo DEF IInv
<1>2. ScheduleFacts(k', k)
  BY <1>1, ScheduleSound, SliceSound
<1>3. k.stat[Idle] \in {"ready", "running"} /\ (k.stat[k.cur] # "running" => k.lock = 0)
  BY KernelAssumption DEF IInv, CpuOccupied, Running, Self
<1>4. lazy' \in BOOLEAN
  BY DEF Scheduled, IInv, TypeOK
<1>5. /\ pc' \in [Threads -> PCs]
      /\ \A t \in Threads : pc'[t] = pc[t] \/ (t # Idle /\ pc'[t] \in {"run", "woken"})
  BY DEF IInv, TypeOK, PCs
<1> QED BY <1>1, <1>2, <1>3, <1>4, <1>5, ThreadScheduleStep

LEMMA YieldStep ==
  ASSUME IInv, Yield PROVE Step
<1>1. k.cur \in Threads /\ pc[k.cur] = "run"
  BY InAppFacts DEF Yield
<1> QED BY <1>1, ScheduleHere DEF Yield

LEMMA AppScheduleStep ==
  ASSUME IInv, AppSchedule PROVE Step
<1>1. k.cur \in Threads /\ pc[k.cur] = "run"
  BY InAppFacts DEF AppSchedule
<1> QED BY <1>1, ScheduleHere DEF AppSchedule

LEMMA ServiceScheduleStep ==
  ASSUME IInv, Schedule PROVE Step
<1>1. k.cur \in Threads /\ pc[k.cur] \in {"sched", "sleep"}
  BY DEF Schedule, ScheduleFrom, At, Running, Self, IInv, Sound, KernelStates
<1>2. \E to \in {"run", "woken"} : pc' = [pc EXCEPT ![k.cur] = to]
  BY DEF Schedule, ScheduleFrom, Goto, Self
<1>3. k' = RtSchedule(k) /\ Scheduled /\ UNCHANGED arg
  BY DEF Schedule, ScheduleFrom
<1> QED BY <1>1, <1>2, <1>3, ScheduleHere

LEMMA SliceTickStep ==
  ASSUME IInv, CallersMask, SliceTick PROVE Step
<1>1. k.cur \in Threads /\ pc[k.cur] \notin {"resume", "delete", "close"}
  BY DEF SliceTick, IrqEnabled, CallersMask, Running, Self, IInv, Sound, KernelStates
<1> QED BY <1>1, ScheduleHere DEF SliceTick

LEMMA TimeoutTickStep ==
  ASSUME IInv, CallersMask, NEW t \in Threads, TimeoutTick(t) PROVE Step
<1> DEFINE ks == ThreadTimeout(k, t)
<1>1. k.cur \in Threads /\ pc[k.cur] \notin {"resume", "delete", "close"}
  BY DEF TimeoutTick, IrqEnabled, CallersMask, Running, Self, IInv, Sound, KernelStates
<1>2. Sound(k, {}) /\ OnlyCurrentRuns(k)
  BY <1>1, NoLimbo DEF IInv
<1>3. k.stat[t] = "suspend"
  BY <1>2 DEF TimeoutTick, Sound, TimersSuspended
<1>4. k' = RtSchedule(ks) /\ Scheduled /\ UNCHANGED <<pc, arg>>
  BY DEF TimeoutTick
<1>5. /\ Sound(ks, {} \ {t})
      /\ ks.cur = k.cur /\ ks.lock = k.lock
      /\ \A x \in Threads :
           ks.stat[x] = IF x # t THEN k.stat[x] ELSE IF t = k.cur THEN "running" ELSE "ready"
      /\ \A l \in Lists \ Priorities : On(ks, l) = On(k, l) \ {t}
  BY <1>2, <1>3, TimeoutSound
<1> HIDE DEF ks
<1>6. {} \ {t} = {}
  OBVIOUS
<1>7. Sound(ks, {})
  BY <1>5, <1>6
<1>8. OnlyCurrentRuns(ks)
  BY <1>1, <1>2, <1>5 DEF OnlyCurrentRuns
<1>9. ScheduleFacts(k', ks)
  BY <1>1, <1>4, <1>5, <1>7, <1>8, ScheduleSound
<1>10. k.stat[Idle] \in {"ready", "running"} /\ (k.stat[k.cur] # "running" => k.lock = 0)
  BY <1>1, KernelAssumption DEF IInv, CpuOccupied, Running, Self
<1>11. ks.stat[Idle] \in {"ready", "running"} /\ (ks.stat[ks.cur] # "running" => ks.lock = 0)
  BY <1>1, <1>5, <1>10, KernelAssumption
<1>12. \A x \in Threads : k.stat[x] = "close" =>
          /\ ks.stat[x] = "close"
          /\ \A l \in Lists \ Priorities : x \in On(ks, l) <=> x \in On(k, l)
  BY <1>3, <1>5
<1>13. lazy' \in BOOLEAN /\ pc' \in [Threads -> PCs]
  BY <1>4 DEF Scheduled, IInv, TypeOK
<1> QED BY <1>1, <1>4, <1>5, <1>7, <1>8, <1>9, <1>11, <1>12, <1>13, ThreadScheduleStep

-----------------------------------------------------------------------------
(* The services of application threads.                                    *)

\* A step after which the application thread c holds no other thread.
LEMMA QuietStep ==
  ASSUME IInv, NEW c \in Workers, c = k.cur, k'.cur = c,
         NEW label \in {"run", "sched", "sleep"},
         pc' = [pc EXCEPT ![c] = label] \/ (pc' = pc /\ pc[c] = label),
         arg' = arg \/ arg' = [arg EXCEPT ![c] = NoThread],
         lazy' \in BOOLEAN,
         Sound(k', {}), OnlyCurrentRuns(k'),
         \A x \in Threads : k.stat[x] = "close" =>
            /\ k'.stat[x] = "close"
            /\ \A l \in Lists \ Priorities : x \in On(k', l) <=> x \in On(k, l),
         k'.stat[c] # "running" => k'.lock = 0 /\ label \in {"sched", "sleep"},
         k'.stat[Idle] \in {"ready", "running"}
  PROVE  Step
<1>1. c \in Threads /\ Sound(k, Limbo)
  BY DEF Workers, IInv
<1>2. /\ pc' \in [Threads -> PCs] /\ pc'[c] = label
      /\ \A t \in Threads \ {c} : pc'[t] = pc[t]
  BY <1>1 DEF IInv, TypeOK, PCs
<1>3. /\ arg' \in [Threads -> Threads \cup {NoThread}]
      /\ \A t \in Threads \ {c} : arg'[t] = arg[t]
  BY <1>1 DEF IInv, TypeOK
<1>4. Limbo' = {}
  BY <1>2 DEF Limbo, At, Self
<1>5. \A x \in Threads : k.stat[x] = "close" =>
         k'.stat[x] = "close" /\ \A l \in Lists : x \in On(k', l) <=> x \in On(k, l)
  <2>1. \A x \in Threads : k.stat[x] = "close" => \A p \in Priorities : x \notin On(k, p)
    BY <1>1, WhereLinked
  <2>2. \A x \in Threads : k'.stat[x] = "close" => \A p \in Priorities : x \notin On(k', p)
    BY WhereLinked
  <2> QED BY <2>1, <2>2
<1> QED BY <1>2, <1>3, <1>4, <1>5, WorkerStep

LEMMA StartupStep ==
  ASSUME IInv, NEW t \in Workers, Startup(t) PROVE Step
<1> DEFINE c == k.cur
<1>1. /\ c \in Workers /\ c \in Threads /\ k.stat[c] = "running" /\ Sound(k, {})
      /\ k.stat[Idle] \in {"ready", "running"} /\ OnlyCurrentRuns(k)
  BY InAppFacts DEF Startup, IInv
<1>2. /\ k.stat[t] = "init" /\ t # c /\ t \in Threads
      /\ k' = ThreadStart(k, t) /\ pc' = [pc EXCEPT ![c] = "sched"] /\ arg' = arg
      /\ lazy' \in BOOLEAN
  BY <1>1 DEF Startup, Goto, Self, IInv, TypeOK, Workers
<1>3. /\ Sound(k', {} \ {t})
      /\ k'.cur = k.cur /\ k'.lock = k.lock
      /\ \A x \in Threads : k'.stat[x] = IF x = t THEN "ready" ELSE k.stat[x]
      /\ \A l \in Lists \ Priorities : On(k', l) = On(k, l)
  BY <1>1, <1>2, StartSound
<1>4. Sound(k', {})
  <2>1. {} \ {t} = {}
    OBVIOUS
  <2> QED BY <1>3, <2>1
<1>5. OnlyCurrentRuns(k')
  BY <1>1, <1>2, <1>3 DEF OnlyCurrentRuns
<1>6. k'.stat[c] = "running" /\ k'.stat[Idle] \in {"ready", "running"}
  BY <1>1, <1>2, <1>3, KernelAssumption
<1>7. \A x \in Threads : k.stat[x] = "close" =>
         /\ k'.stat[x] = "close"
         /\ \A l \in Lists \ Priorities : x \in On(k', l) <=> x \in On(k, l)
  BY <1>2, <1>3
<1> QED BY <1>1, <1>2, <1>3, <1>4, <1>5, <1>6, <1>7, QuietStep

\* Steps that change nothing in the kernel state but errors, the lock and, for
\* threads that are not READY, the priority.
LEMMA FieldStep ==
  ASSUME IInv, NEW c \in Workers, c = k.cur, Sound(k, {}), k.stat[c] = "running",
         k.stat[Idle] \in {"ready", "running"},
         NEW label \in {"run", "sched", "sleep"},
         pc' = [pc EXCEPT ![c] = label] \/ (pc' = pc /\ pc[c] = label),
         UNCHANGED <<arg, lazy>>,
         k' \in KernelStates, k'.list = k.list, k'.group = k.group, k'.stat = k.stat,
         k'.prio = k.prio, k'.timer = k.timer, k'.cur = k.cur
  PROVE  Step
<1>1. \A x \in k'.timer : k.stat[x] = "suspend"
  BY DEF Sound, TimersSuspended
<1>2. Sound(k', {}) /\ \A l : On(k', l) = On(k, l)
  BY <1>1, FieldsSound
<1>3. OnlyCurrentRuns(k')
  BY DEF IInv, OnlyCurrentRuns
<1>4. lazy' \in BOOLEAN
  BY DEF IInv, TypeOK
<1> QED BY <1>2, <1>3, <1>4, QuietStep

LEMMA DelayPassedStep ==
  ASSUME IInv, DelayPassed PROVE Step
<1>1. /\ k.cur \in Workers /\ k.cur \in Threads /\ pc[k.cur] = "run"
      /\ k.stat[k.cur] = "running" /\ Sound(k, {}) /\ k.stat[Idle] \in {"ready", "running"}
  BY InAppFacts DEF DelayPassed, MayBlock
<1>2. k' = [k EXCEPT !.error[k.cur] = "ok"] /\ UNCHANGED <<pc, arg, lazy>>
  BY DEF DelayPassed, Self
<1>3. /\ k' \in KernelStates
      /\ k'.list = k.list /\ k'.group = k.group /\ k'.stat = k.stat
      /\ k'.prio = k.prio /\ k'.timer = k.timer /\ k'.cur = k.cur
  BY <1>1, <1>2 DEF Sound, KernelStates, Errors
<1> QED BY <1>1, <1>2, <1>3, FieldStep

LEMMA ThreadWokenStep ==
  ASSUME IInv, Woken PROVE Step
<1>1. k.cur \in Threads /\ pc[k.cur] = "woken"
  BY DEF Woken, At, Running, Self, IInv, Sound, KernelStates
<1>2. k.cur \in Workers
  BY <1>1 DEF IInv, Workers
<1>3. k.stat[k.cur] = "running" /\ Sound(k, {}) /\ k.stat[Idle] \in {"ready", "running"}
  BY <1>1, NoLimbo, KernelAssumption DEF IInv, CpuOccupied, Running, Self
<1>4. /\ k' = [k EXCEPT !.error[k.cur] = IF k.error[k.cur] = "timeout" THEN "ok" ELSE k.error[k.cur]]
      /\ pc' = [pc EXCEPT ![k.cur] = "run"] /\ UNCHANGED <<arg, lazy>>
  BY DEF Woken, Goto, Self
<1>5. /\ k' \in KernelStates
      /\ k'.list = k.list /\ k'.group = k.group /\ k'.stat = k.stat
      /\ k'.prio = k.prio /\ k'.timer = k.timer /\ k'.cur = k.cur
  BY <1>1, <1>3, <1>4 DEF Sound, KernelStates, Errors
<1> QED BY <1>2, <1>3, <1>4, <1>5, FieldStep

LEMMA EnterCriticalStep ==
  ASSUME IInv, EnterCritical PROVE Step
<1>1. /\ k.cur \in Workers /\ k.cur \in Threads /\ pc[k.cur] = "run"
      /\ k.stat[k.cur] = "running" /\ Sound(k, {}) /\ k.stat[Idle] \in {"ready", "running"}
  BY InAppFacts DEF EnterCritical
<1>2. k' = [k EXCEPT !.lock = k.lock + 1] /\ UNCHANGED <<pc, arg, lazy>>
  BY DEF EnterCritical
<1>3. /\ k' \in KernelStates
      /\ k'.list = k.list /\ k'.group = k.group /\ k'.stat = k.stat
      /\ k'.prio = k.prio /\ k'.timer = k.timer /\ k'.cur = k.cur
  <2>1. PICK n \in Nat : n = k.lock + 1
    BY <1>1 DEF Sound, KernelStates
  <2> QED BY <1>1, <1>2, <2>1 DEF Sound, KernelStates
<1> QED BY <1>1, <1>2, <1>3, FieldStep

LEMMA ExitCriticalStep ==
  ASSUME IInv, ExitCritical PROVE Step
<1>1. /\ k.cur \in Workers /\ k.cur \in Threads /\ pc[k.cur] = "run"
      /\ k.stat[k.cur] = "running" /\ Sound(k, {}) /\ k.stat[Idle] \in {"ready", "running"}
  BY InAppFacts DEF ExitCritical
<1>2. /\ k' = [k EXCEPT !.lock = IF k.lock = 0 THEN 0 ELSE k.lock - 1]
      /\ UNCHANGED <<arg, lazy>>
  BY DEF ExitCritical
<1>3. PICK label \in {"run", "sched", "sleep"} : pc' = [pc EXCEPT ![k.cur] = label]
  BY DEF ExitCritical, Goto, Self
<1>4. /\ k' \in KernelStates
      /\ k'.list = k.list /\ k'.group = k.group /\ k'.stat = k.stat
      /\ k'.prio = k.prio /\ k'.timer = k.timer /\ k'.cur = k.cur
  <2>1. k \in KernelStates /\ k.lock \in Nat
    BY <1>1 DEF Sound, KernelStates
  <2>2. PICK n \in Nat : n = IF k.lock = 0 THEN 0 ELSE k.lock - 1
    BY <2>1
  <2>3. k' = [k EXCEPT !.lock = n]
    BY <1>2, <2>2
  <2> QED BY <2>1, <2>3 DEF KernelStates
<1> QED BY <1>1, <1>2, <1>3, <1>4, FieldStep

LEMMA SuspendStep ==
  ASSUME IInv, Suspend PROVE Step
<1> DEFINE c == k.cur
<1>1. /\ c \in Workers /\ c \in Threads /\ k.stat[c] = "running" /\ Sound(k, {})
      /\ k.stat[Idle] \in {"ready", "running"} /\ OnlyCurrentRuns(k) /\ k.lock = 0
  BY InAppFacts DEF Suspend, MayBlock, IInv
<1>2. /\ k' = ThreadSuspend(k, c) /\ pc' = [pc EXCEPT ![c] = "sched"] /\ arg' = arg
      /\ lazy' \in BOOLEAN
  BY DEF Suspend, Goto, Self, IInv, TypeOK
<1>3. /\ Sound(k', {} \ {c})
      /\ k'.cur = k.cur /\ k'.lock = k.lock
      /\ \A x \in Threads : k'.stat[x] = IF x = c THEN "suspend" ELSE k.stat[x]
      /\ \A l \in Lists : On(k', l) = On(k, l) \ {c}
  BY <1>1, <1>2, SuspendSound
<1>4. Sound(k', {})
  <2>1. {} \ {c} = {}
    OBVIOUS
  <2> QED BY <1>3, <2>1
<1>5. OnlyCurrentRuns(k')
  BY <1>1, <1>3 DEF OnlyCurrentRuns
<1>6. k'.stat[Idle] \in {"ready", "running"}
  BY <1>1, <1>3, KernelAssumption DEF Workers
<1>7. \A x \in Threads : k.stat[x] = "close" =>
         /\ k'.stat[x] = "close"
         /\ \A l \in Lists \ Priorities : x \in On(k', l) <=> x \in On(k, l)
  BY <1>1, <1>3
<1> QED BY <1>1, <1>2, <1>3, <1>4, <1>5, <1>6, <1>7, QuietStep

LEMMA ThreadSleepStep ==
  ASSUME IInv, Sleep PROVE Step
<1> DEFINE c == k.cur
           e == [k EXCEPT !.error[c] = "ok"]
           u == ThreadSuspend(e, c)
<1>1. /\ c \in Workers /\ c \in Threads /\ k.stat[c] = "running" /\ Sound(k, {})
      /\ k.stat[Idle] \in {"ready", "running"} /\ OnlyCurrentRuns(k) /\ k.lock = 0
  BY InAppFacts DEF Sleep, MayBlock, IInv
<1>2. /\ k' = [u EXCEPT !.timer = u.timer \cup {c}]
      /\ pc' = [pc EXCEPT ![c] = "sleep"] /\ arg' = arg /\ lazy' \in BOOLEAN
  BY DEF Sleep, StartTimer, Goto, Self, IInv, TypeOK
<1>3. /\ e \in KernelStates
      /\ e.list = k.list /\ e.group = k.group /\ e.stat = k.stat /\ e.prio = k.prio
      /\ e.timer = k.timer /\ e.cur = k.cur /\ e.lock = k.lock
  BY <1>1 DEF Sound, KernelStates, Errors
<1> HIDE DEF e
<1>4. Sound(e, {}) /\ \A l : On(e, l) = On(k, l)
  <2>1. \A x \in e.timer : k.stat[x] = "suspend"
    BY <1>1, <1>3 DEF Sound, TimersSuspended
  <2> QED BY <1>1, <1>3, <2>1, FieldsSound
<1>5. e.stat[c] \in {"ready", "running"}
  BY <1>1, <1>3
<1>6. /\ Sound(u, {} \ {c})
      /\ u.cur = e.cur /\ u.lock = e.lock
      /\ \A x \in Threads : u.stat[x] = IF x = c THEN "suspend" ELSE e.stat[x]
      /\ \A l \in Lists : On(u, l) = On(e, l) \ {c}
  BY <1>1, <1>4, <1>5, SuspendSound
<1> HIDE DEF u
<1>7. Sound(u, {})
  <2>1. {} \ {c} = {}
    OBVIOUS
  <2> QED BY <1>6, <2>1
<1>8. /\ k' \in KernelStates
      /\ k'.list = u.list /\ k'.group = u.group /\ k'.stat = u.stat /\ k'.prio = u.prio
      /\ k'.cur = u.cur /\ k'.lock = u.lock /\ k'.timer = u.timer \cup {c}
  BY <1>1, <1>2, <1>7 DEF Sound, KernelStates
<1>9. Sound(k', {}) /\ \A l : On(k', l) = On(u, l)
  <2>1. \A x \in k'.timer : u.stat[x] = "suspend"
    BY <1>1, <1>6, <1>7, <1>8 DEF Sound, TimersSuspended
  <2> QED BY <1>7, <1>8, <2>1, FieldsSound
<1>10. \A x \in Threads : k'.stat[x] = IF x = c THEN "suspend" ELSE k.stat[x]
  BY <1>3, <1>6, <1>8
<1>11. OnlyCurrentRuns(k')
  BY <1>1, <1>3, <1>6, <1>8, <1>10 DEF OnlyCurrentRuns
<1>12. k'.stat[Idle] \in {"ready", "running"}
  BY <1>1, <1>10, KernelAssumption DEF Workers
<1>13. \A x \in Threads : k.stat[x] = "close" =>
         /\ k'.stat[x] = "close"
         /\ \A l \in Lists \ Priorities : x \in On(k', l) <=> x \in On(k, l)
  BY <1>1, <1>4, <1>6, <1>9, <1>10
<1>14. k'.cur = c /\ k'.lock = 0 /\ Sound(k', {})
  BY <1>1, <1>3, <1>6, <1>8, <1>9
<1> QED BY <1>1, <1>2, <1>11, <1>12, <1>13, <1>14, QuietStep

LEMMA ExitStep ==
  ASSUME IInv, Exit PROVE Step
<1> DEFINE c == k.cur
           u == ScheduleRemove(k, c)
<1>1. /\ c \in Workers /\ c \in Threads /\ k.stat[c] = "running" /\ Sound(k, {})
      /\ k.stat[Idle] \in {"ready", "running"} /\ OnlyCurrentRuns(k) /\ k.lock = 0
  BY InAppFacts DEF Exit, MayBlock, IInv
<1>2. /\ k' = ThreadClose(u, c) /\ pc' = [pc EXCEPT ![c] = "sched"] /\ arg' = arg
      /\ lazy' \in BOOLEAN
  BY DEF Exit, Goto, Self, IInv, TypeOK
<1>3. /\ Sound(u, {} \cup {c}) /\ Detached(u, c) /\ SameButLists(u, k)
      /\ \A l \in Lists : On(u, l) = On(k, l) \ {c}
  BY <1>1, RemoveSound
<1> HIDE DEF u
<1>4. /\ Sound(k', ({} \cup {c}) \ {c})
      /\ k'.cur = u.cur /\ k'.lock = u.lock
      /\ \A x \in Threads : k'.stat[x] = IF x = c THEN "close" ELSE u.stat[x]
      /\ On(k', Defunct) = On(u, Defunct) \cup {c}
      /\ \A l \in Lists \ {Defunct} : On(k', l) = On(u, l)
  BY <1>1, <1>2, <1>3, CloseSound
<1>5. Sound(k', {})
  <2>1. ({} \cup {c}) \ {c} = {}
    OBVIOUS
  <2> QED BY <1>4, <2>1
<1>6. /\ k'.cur = c /\ k'.lock = 0
      /\ \A x \in Threads : k'.stat[x] = IF x = c THEN "close" ELSE k.stat[x]
  BY <1>1, <1>3, <1>4 DEF SameButLists
<1>7. OnlyCurrentRuns(k')
  BY <1>1, <1>6 DEF OnlyCurrentRuns
<1>8. k'.stat[Idle] \in {"ready", "running"}
  BY <1>1, <1>6, KernelAssumption DEF Workers
<1>9. \A x \in Threads : k.stat[x] = "close" =>
         /\ k'.stat[x] = "close"
         /\ \A l \in Lists \ Priorities : x \in On(k', l) <=> x \in On(k, l)
  <2>1. Defunct \in Lists
    BY DEF Lists
  <2> QED BY <1>1, <1>3, <1>4, <1>6, <2>1
<1> QED BY <1>1, <1>2, <1>5, <1>6, <1>7, <1>8, <1>9, QuietStep

LEMMA SetPriorityStep ==
  ASSUME IInv, NEW t \in Workers, NEW p \in Prios, SetPriority(t, p) PROVE Step
<1> DEFINE c == k.cur
<1>1. /\ c \in Workers /\ c \in Threads /\ k.stat[c] = "running" /\ Sound(k, {})
      /\ k.stat[Idle] \in {"ready", "running"} /\ OnlyCurrentRuns(k) /\ pc[c] = "run"
  BY InAppFacts DEF SetPriority, IInv
<1>2. /\ k' = ChangePriority(k, t, p) /\ pc' = pc /\ arg' = arg /\ lazy' \in BOOLEAN
      /\ t \in Threads /\ p \in Priorities
  BY ThreadAssumption DEF SetPriority, Workers
<1>3. k.stat[t] = "ready" => t # k.cur
  BY <1>1
<1>4. /\ Sound(k', {}) /\ k'.cur = k.cur /\ k'.lock = k.lock
      /\ \A x \in Threads : k'.stat[x] = k.stat[x]
      /\ \A l \in Lists \ Priorities : On(k', l) = On(k, l)
  BY <1>1, <1>2, <1>3, ChangePrioritySound
<1>5. OnlyCurrentRuns(k')
  BY <1>1, <1>4 DEF OnlyCurrentRuns
<1>6. k'.stat[c] = "running" /\ k'.stat[Idle] \in {"ready", "running"}
  BY <1>1, <1>4, KernelAssumption
<1> QED BY <1>1, <1>2, <1>4, <1>5, <1>6, QuietStep

LEMMA CreateStep ==
  ASSUME IInv, NEW t \in Workers, NEW p \in Prios, Create(t, p) PROVE Step
<1> DEFINE c == k.cur
           v == [k EXCEPT !.yield = k.yield \ {t}, !.prio[t] = p, !.error[t] = "ok",
                          !.timer = k.timer \ {t}]
<1>1. /\ c \in Workers /\ c \in Threads /\ k.stat[c] = "running" /\ Sound(k, {})
      /\ k.stat[Idle] \in {"ready", "running"} /\ OnlyCurrentRuns(k) /\ pc[c] = "run"
  BY InAppFacts DEF Create, IInv
<1>2. /\ k.stat[t] = "none" /\ t # c /\ t # Idle /\ t \in Threads /\ p \in Priorities
      /\ k' = [k EXCEPT !.stat[t] = "init", !.yield = k.yield \ {t}, !.prio[t] = p,
                        !.error[t] = "ok", !.timer = k.timer \ {t}]
      /\ pc' = [pc EXCEPT ![t] = "run"] /\ arg' = arg /\ lazy' \in BOOLEAN
  BY <1>1, ThreadAssumption DEF Create, Workers, IInv, TypeOK
<1>3. k \in KernelStates
  BY <1>1 DEF Sound
<1>4. /\ v \in KernelStates
      /\ v.list = k.list /\ v.group = k.group /\ v.stat = k.stat /\ v.cur = k.cur
      /\ v.lock = k.lock /\ v.timer = k.timer \ {t}
      /\ \A x \in Threads : v.prio[x] = IF x = t THEN p ELSE k.prio[x]
  BY <1>2, <1>3 DEF KernelStates, Errors
<1>5. /\ k' \in KernelStates
      /\ SameButStat(k', v)
      /\ \A x \in Threads : k'.stat[x] = IF x = t THEN "init" ELSE v.stat[x]
  BY <1>2, <1>3 DEF KernelStates, Errors, Stats, SameButStat
<1> HIDE DEF v
<1>6. Sound(v, {}) /\ \A l : On(v, l) = On(k, l)
  <2>1. \A x \in v.timer : k.stat[x] = "suspend"
    BY <1>1, <1>4 DEF Sound, TimersSuspended
  <2>2. \A x \in Threads : k.stat[x] = "ready" => v.prio[x] = k.prio[x]
    BY <1>2, <1>4
  <2> QED BY <1>1, <1>4, <2>1, <2>2, FieldsSound
<1>7. Detached(v, t) /\ t \notin v.timer
  BY <1>1, <1>2, <1>4, <1>6, WhereLinked DEF Detached
<1>8. PICK s \in Stats : s # "ready" /\ s = "init"
  BY DEF Stats
<1>9. Sound(k', {} \ {t})
  <2>1. \A x \in Threads : k'.stat[x] = IF x = t THEN s ELSE v.stat[x]
    BY <1>5, <1>8
  <2>2. t \in Threads /\ k' \in KernelStates /\ SameButStat(k', v)
    BY <1>2, <1>5
  <2> QED BY <1>6, <1>7, <1>8, <2>1, <2>2, StatSound
<1>10. Limbo' = {} /\ Sound(k', {})
  <2>1. k'.cur = c /\ pc'[c] = "run"
    BY <1>1, <1>2, <1>4, <1>5 DEF SameButStat, IInv, TypeOK
  <2>2. {} \ {t} = {}
    OBVIOUS
  <2> QED BY <1>9, <2>1, <2>2 DEF Limbo, At, Self
<1>11. /\ k'.cur = c /\ k'.lock = k.lock
       /\ \A x \in Threads : k'.stat[x] = IF x = t THEN "init" ELSE k.stat[x]
       /\ \A l : On(k', l) = On(k, l)
  BY <1>4, <1>5 DEF SameButStat, On
<1>12. OnlyCurrentRuns(k')
  BY <1>1, <1>2, <1>11 DEF OnlyCurrentRuns
<1>13. k'.stat[c] = "running" /\ k'.stat[Idle] \in {"ready", "running"}
  BY <1>1, <1>2, <1>11, KernelAssumption
<1>14. /\ pc' \in [Threads -> PCs] /\ arg' \in [Threads -> Threads \cup {NoThread}]
       /\ pc'[c] = "run"
       /\ \A x \in Threads \ {c} : (pc'[x] = pc[x] /\ arg'[x] = arg[x]) \/ pc'[x] = "run"
  BY <1>1, <1>2 DEF IInv, TypeOK, PCs
<1>15. \A x \in Threads : k.stat[x] = "close" =>
          k'.stat[x] = "close" /\ \A l \in Lists : x \in On(k', l) <=> x \in On(k, l)
  BY <1>2, <1>11
<1> QED BY <1>1, <1>2, <1>10, <1>11, <1>12, <1>13, <1>14, <1>15, WorkerStep

LEMMA ResumeStep ==
  ASSUME IInv, NEW t \in Workers, Resume(t) PROVE Step
<1> DEFINE c == k.cur
<1>1. /\ c \in Workers /\ c \in Threads /\ k.stat[c] = "running" /\ Sound(k, {})
      /\ k.stat[Idle] \in {"ready", "running"} /\ OnlyCurrentRuns(k)
  BY InAppFacts DEF Resume, IInv
<1>2. /\ k.stat[t] = "suspend" /\ t \in Threads /\ k' = k /\ lazy' = lazy
      /\ pc' = [pc EXCEPT ![c] = "resume"] /\ arg' = [arg EXCEPT ![c] = t]
  BY DEF Resume, Goto, Target, Self, Workers
<1>3. /\ pc' \in [Threads -> PCs] /\ arg' \in [Threads -> Threads \cup {NoThread}]
      /\ lazy' \in BOOLEAN /\ pc'[c] = "resume" /\ arg'[c] = t
      /\ \A x \in Threads \ {c} : pc'[x] = pc[x] /\ arg'[x] = arg[x]
  BY <1>1, <1>2 DEF IInv, TypeOK, PCs
<1>4. Limbo' = {}
  BY <1>2, <1>3 DEF Limbo, At, Self
<1> QED BY <1>1, <1>2, <1>3, <1>4, WorkerStep

\* A current thread in the middle of a service holds the CPU and is not idle.
LEMMA HolderFacts ==
  ASSUME IInv, k.cur \in Threads, pc[k.cur] \in {"resume", "delete", "close"}
  PROVE  /\ k.cur \in Workers /\ k.stat[k.cur] = "running"
         /\ k.stat[Idle] \in {"ready", "running"} /\ OnlyCurrentRuns(k)
         /\ arg[k.cur] \in Workers /\ arg[k.cur] \in Threads
<1>1. k.cur \in Workers
  BY DEF IInv, Workers
<1>2. k.stat[k.cur] = "running" /\ k.stat[Idle] \in {"ready", "running"}
  BY KernelAssumption DEF IInv, CpuOccupied, Running, Self
<1>3. arg[k.cur] \in Workers
  BY DEF IInv, MidService
<1> QED BY <1>1, <1>2, <1>3 DEF IInv, Workers

LEMMA ResumeEndStep ==
  ASSUME IInv, ResumeEnd PROVE Step
<1> DEFINE c == k.cur
<1>1. c \in Threads /\ pc[c] = "resume"
  BY DEF ResumeEnd, At, Running, Self, IInv, Sound, KernelStates
<1>t. PICK t \in Threads : t = arg[c]
  BY <1>1, HolderFacts
<1>2. /\ c \in Workers /\ k.stat[c] = "running" /\ k.stat[Idle] \in {"ready", "running"}
      /\ OnlyCurrentRuns(k) /\ t \in Workers /\ t \in Threads
  BY <1>1, <1>t, HolderFacts
<1>3. Sound(k, {}) /\ k.stat[t] = "suspend"
  BY <1>1, <1>t, NoLimbo DEF IInv, MidService
<1>4. /\ k' = ResumeLinked(k, t) /\ lazy' \in BOOLEAN
      /\ pc' = [pc EXCEPT ![c] = "run"] /\ arg' = [arg EXCEPT ![c] = NoThread]
  BY <1>t DEF ResumeEnd, Goto, Target, Self
<1>5. /\ Sound(k', {} \ {t})
      /\ k'.cur = k.cur /\ k'.lock = k.lock
      /\ \A x \in Threads :
           k'.stat[x] = IF x # t THEN k.stat[x] ELSE IF t = k.cur THEN "running" ELSE "ready"
      /\ \A l \in Lists \ Priorities : On(k', l) = On(k, l) \ {t}
  <2>1. k' = ResumeLinked(k, t)
    BY <1>4
  <2> QED BY <1>3, <2>1, ResumeSound
<1>6. Sound(k', {})
  <2>1. {} \ {t} = {}
    OBVIOUS
  <2> QED BY <1>5, <2>1
<1>7. k'.stat[c] = "running" /\ k'.stat[Idle] \in {"ready", "running"}
  BY <1>1, <1>2, <1>3, <1>5, KernelAssumption
<1>8. OnlyCurrentRuns(k')
  BY <1>1, <1>2, <1>3, <1>5, <1>7 DEF OnlyCurrentRuns
<1>9. \A x \in Threads : k.stat[x] = "close" =>
         /\ k'.stat[x] = "close"
         /\ \A l \in Lists \ Priorities : x \in On(k', l) <=> x \in On(k, l)
  BY <1>3, <1>5
<1> QED BY <1>2, <1>4, <1>5, <1>6, <1>7, <1>8, <1>9, QuietStep

LEMMA ThreadDeleteStep ==
  ASSUME IInv, NEW t \in Workers, NEW label \in {"delete", "close"}, Delete(t, label)
  PROVE  Step
<1> DEFINE c == k.cur
<1>1. /\ c \in Workers /\ c \in Threads /\ k.stat[c] = "running" /\ Sound(k, {})
      /\ k.stat[Idle] \in {"ready", "running"} /\ OnlyCurrentRuns(k)
  BY InAppFacts DEF Delete, IInv
<1>2. /\ k.stat[t] \notin {"none", "close"} /\ t \in Threads
      /\ k' = IF k.stat[t] = "init" THEN k ELSE ScheduleRemove(k, t)
      /\ pc' = [pc EXCEPT ![c] = label] /\ arg' = [arg EXCEPT ![c] = t] /\ lazy' = lazy
      /\ t = c => label = "close" /\ k.lock = 0
  BY DEF Delete, Goto, Target, Self, Workers
<1>3. /\ pc' \in [Threads -> PCs] /\ arg' \in [Threads -> Threads \cup {NoThread}]
      /\ lazy' \in BOOLEAN /\ pc'[c] = label /\ arg'[c] = t
      /\ \A x \in Threads \ {c} : pc'[x] = pc[x] /\ arg'[x] = arg[x]
  BY <1>1, <1>2 DEF IInv, TypeOK, PCs
<1>4. /\ Sound(k', {t}) /\ Detached(k', t)
      /\ k'.stat = k.stat /\ k'.cur = k.cur /\ k'.lock = k.lock
      /\ \A l \in Lists : On(k', l) = On(k, l) \ {t}
  <2>1. CASE k.stat[t] = "init"
    <3>1. k' = k
      BY <1>2, <2>1
    <3>2. Detached(k, t)
      BY <1>1, <1>2, <2>1, WhereLinked
    <3>3. Sound(k, {t})
      BY <1>1 DEF Sound, ReadyThreadsQueued
    <3> QED BY <3>1, <3>2, <3>3 DEF Detached
  <2>2. CASE k.stat[t] # "init"
    <3>1. k' = ScheduleRemove(k, t)
      BY <1>2, <2>2
    <3>2. /\ Sound(k', {} \cup {t}) /\ Detached(k', t) /\ SameButLists(k', k)
          /\ \A l \in Lists : On(k', l) = On(k, l) \ {t}
      BY <1>1, <1>2, <3>1, RemoveSound
    <3>3. {} \cup {t} = {t}
      OBVIOUS
    <3> QED BY <3>2, <3>3 DEF SameButLists
  <2> QED BY <2>1, <2>2
<1>5. Limbo' = {t}
  BY <1>1, <1>3, <1>4, KernelAssumption DEF Limbo, At, Running, Self
<1>6. OnlyCurrentRuns(k')
  BY <1>1, <1>4 DEF OnlyCurrentRuns
<1>7. \A x \in Threads : k.stat[x] = "close" =>
          k'.stat[x] = "close" /\ \A l \in Lists : x \in On(k', l) <=> x \in On(k, l)
  BY <1>2, <1>4
<1> QED BY <1>1, <1>2, <1>3, <1>4, <1>5, <1>6, <1>7, WorkerStep

LEMMA ThreadDeleteEndStep ==
  ASSUME IInv, DeleteEnd PROVE Step
<1> DEFINE c == k.cur
<1>1. c \in Threads /\ pc[c] \in {"delete", "close"}
  BY DEF DeleteEnd, At, Running, Self, IInv, Sound, KernelStates
<1>t. PICK t \in Threads : t = arg[c]
  BY <1>1, HolderFacts
<1>2. /\ c \in Workers /\ k.stat[c] = "running" /\ k.stat[Idle] \in {"ready", "running"}
      /\ OnlyCurrentRuns(k) /\ t \in Workers
  BY <1>1, <1>t, HolderFacts
<1>3. Limbo = {t}
  BY <1>1, <1>t, KernelAssumption DEF Limbo, At, Running, Self
<1>4. Sound(k, {t})
  BY <1>3 DEF IInv
<1>5. /\ Detached(k, t) /\ k.stat[t] \notin {"none", "close"}
      /\ t = c => pc[c] = "close" /\ k.lock = 0
  BY <1>1, <1>t DEF IInv, MidService, Detached
<1>6. /\ k' = ThreadClose(k, t) /\ lazy' \in BOOLEAN
      /\ arg' = [arg EXCEPT ![c] = NoThread]
  BY <1>t DEF DeleteEnd, Target, Self, IInv, TypeOK
<1>7. PICK label \in {"run", "sched", "sleep"} :
         pc' = [pc EXCEPT ![c] = label] /\ (t = c => label = "sched")
  BY <1>5 DEF DeleteEnd, Goto, Self
<1>8. /\ Sound(k', {t} \ {t})
      /\ k'.cur = k.cur /\ k'.lock = k.lock
      /\ \A x \in Threads : k'.stat[x] = IF x = t THEN "close" ELSE k.stat[x]
      /\ On(k', Defunct) = On(k, Defunct) \cup {t}
      /\ \A l \in Lists \ {Defunct} : On(k', l) = On(k, l)
  <2>1. k' = ThreadClose(k, t)
    BY <1>6
  <2> QED BY <1>4, <1>5, <2>1, CloseSound
<1>9. Sound(k', {})
  <2>1. {t} \ {t} = {}
    OBVIOUS
  <2> QED BY <1>8, <2>1
<1>10. OnlyCurrentRuns(k')
  BY <1>1, <1>2, <1>8 DEF OnlyCurrentRuns
<1>11. k'.stat[Idle] \in {"ready", "running"}
  BY <1>2, <1>8, KernelAssumption DEF Workers
<1>12. k'.stat[c] # "running" => k'.lock = 0 /\ label \in {"sched", "sleep"}
  BY <1>1, <1>2, <1>5, <1>7, <1>8
<1>13. \A x \in Threads : k.stat[x] = "close" =>
         /\ k'.stat[x] = "close"
         /\ \A l \in Lists \ Priorities : x \in On(k', l) <=> x \in On(k, l)
  BY <1>5, <1>8
<1>14. k'.cur = c
  BY <1>8
<1> QED BY <1>2, <1>6, <1>7, <1>9, <1>10, <1>11, <1>12, <1>13, <1>14, QuietStep

-----------------------------------------------------------------------------
(* The idle thread.                                                        *)

\* A step of the idle thread that keeps the CPU: nobody else is in a service
\* that holds a thread, and only the thread the idle thread holds may change.
LEMMA IdleStepSound ==
  ASSUME IInv, k.cur = Idle, k'.cur = Idle, k.stat[Idle] = "running",
         pc' \in [Threads -> PCs], arg' \in [Threads -> Threads \cup {NoThread}],
         UNCHANGED lazy, Sound(k', {}), OnlyCurrentRuns(k'),
         \A t \in Threads \ {Idle} : pc'[t] = pc[t],
         pc'[Idle] \in {"run", "peek", "reap"},
         pc'[Idle] \in {"peek", "reap"} =>
            arg'[Idle] \in Workers /\ k'.stat[arg'[Idle]] = "close",
         pc'[Idle] = "peek" => arg'[Idle] \in On(k', Defunct),
         pc'[Idle] = "reap" => Detached(k', arg'[Idle]),
         k'.stat[Idle] = "running",
         \A x \in Threads : k.stat[x] = "close" => k'.stat[x] \in {"close", "none"}
  PROVE  Step
<1>1. Idle \in Threads /\ Idle # NoThread /\ Idle \notin Workers
  BY KernelAssumption DEF Workers
<1>2. Limbo' = {}
  BY DEF Limbo, At, Self
<1>3. TypeOK'
  BY DEF IInv, TypeOK, Sound
<1>4. \A t \in Threads \ {Idle} : pc[t] \notin {"resume", "delete", "close", "peek", "reap"}
  BY DEF IInv, MidService, Self
<1>5. MidService'
  BY <1>1, <1>4 DEF MidService, Self, Detached
<1>6. CpuOccupied'
  BY DEF CpuOccupied, Self
<1>7. ClosedKept /\ HighestTaken
  BY DEF ClosedKept, HighestTaken
<1> QED BY <1>2, <1>3, <1>5, <1>6, <1>7 DEF IInv, Step

\* What holds when the idle thread is about to take a step.
LEMMA IdleFacts ==
  ASSUME IInv, k.cur = Idle
  PROVE  /\ Idle \in Threads /\ k.stat[Idle] = "running" /\ Sound(k, {}) /\ OnlyCurrentRuns(k)
         /\ \A t \in Workers : t \in Threads /\ t # Idle
<1>1. Idle \in Threads /\ Idle # NoThread
  BY KernelAssumption
<1>2. pc[Idle] \notin {"delete", "close", "sched", "sleep"}
  BY DEF IInv
<1>3. Sound(k, {})
  BY <1>2, NoLimbo
<1> QED BY <1>1, <1>2, <1>3 DEF IInv, CpuOccupied, Running, Self, Workers

LEMMA DefunctPeekStep ==
  ASSUME IInv, DefunctPeek PROVE Step
<1>1. k.cur = Idle /\ pc[Idle] = "run" /\ k.list[Defunct] # <<>> /\ k' = k /\ UNCHANGED lazy
  BY DEF DefunctPeek, At, Self
<1>2. /\ Idle \in Threads /\ k.stat[Idle] = "running" /\ Sound(k, {}) /\ OnlyCurrentRuns(k)
      /\ \A t \in Workers : t \in Threads /\ t # Idle
  BY <1>1, IdleFacts
<1>3. PICK h : h = Head(k.list[Defunct])
  OBVIOUS
<1>4. h \in On(k, Defunct) /\ h \in Threads
  <2>1. k.list[Defunct] \in Seq(Threads)
    BY <1>2 DEF Sound, KernelStates, Lists
  <2> QED BY <1>1, <1>3, <2>1, HeadIn DEF On
<1>5. k.stat[h] = "close" /\ h \in Workers
  BY <1>2, <1>4, WhereLinked DEF Workers
<1>6. pc' = [pc EXCEPT ![Idle] = "peek"] /\ arg' = [arg EXCEPT ![Idle] = h]
  BY <1>1, <1>3 DEF DefunctPeek, Goto, Target, Self
<1>7. /\ pc' \in [Threads -> PCs] /\ arg' \in [Threads -> Threads \cup {NoThread}]
      /\ pc'[Idle] = "peek" /\ arg'[Idle] = h
      /\ \A t \in Threads \ {Idle} : pc'[t] = pc[t]
  BY <1>2, <1>4, <1>6 DEF IInv, TypeOK, PCs
<1> QED BY <1>1, <1>2, <1>4, <1>5, <1>7, IdleStepSound

LEMMA DefunctRemoveStep ==
  ASSUME IInv, DefunctRemove PROVE Step
<1>1. k.cur = Idle /\ pc[Idle] = "peek" /\ UNCHANGED <<arg, lazy>>
  BY DEF DefunctRemove, At, Running, Self, IInv, MidService, Sound, KernelStates
<1>2. /\ Idle \in Threads /\ k.stat[Idle] = "running" /\ Sound(k, {}) /\ OnlyCurrentRuns(k)
      /\ \A t \in Workers : t \in Threads /\ t # Idle
  BY <1>1, IdleFacts
<1>3. PICK h \in Threads : h = arg[Idle] /\ h \in Workers /\ k.stat[h] = "close"
  BY <1>1, <1>2 DEF IInv, MidService
<1>4. k' = Unlink(k, h) /\ pc' = [pc EXCEPT ![Idle] = "reap"]
  BY <1>1, <1>3 DEF DefunctRemove, Goto, Self
<1>5. /\ Sound(k', {}) /\ Detached(k', h) /\ SameButLists(k', k)
  <2>1. k' = Unlink(k, h) /\ k.stat[h] # "ready"
    BY <1>3, <1>4
  <2> QED BY <1>2, <2>1, UnlinkSound
<1>6. /\ pc' \in [Threads -> PCs] /\ arg' \in [Threads -> Threads \cup {NoThread}]
      /\ pc'[Idle] = "reap" /\ arg'[Idle] = h
      /\ \A t \in Threads \ {Idle} : pc'[t] = pc[t]
  BY <1>1, <1>2, <1>3, <1>4 DEF IInv, TypeOK, PCs
<1>7. k'.stat = k.stat /\ k'.cur = k.cur /\ OnlyCurrentRuns(k')
  BY <1>2, <1>5 DEF SameButLists, OnlyCurrentRuns
<1> QED BY <1>1, <1>2, <1>3, <1>5, <1>6, <1>7, IdleStepSound

LEMMA DefunctFreeStep ==
  ASSUME IInv, DefunctFree PROVE Step
<1>1. k.cur = Idle /\ pc[Idle] = "reap" /\ UNCHANGED lazy
  BY DEF DefunctFree, At, Running, Self, IInv, MidService, Sound, KernelStates
<1>2. /\ Idle \in Threads /\ k.stat[Idle] = "running" /\ Sound(k, {}) /\ OnlyCurrentRuns(k)
      /\ \A t \in Workers : t \in Threads /\ t # Idle
  BY <1>1, IdleFacts
<1>3. PICK h \in Threads : /\ h = arg[Idle] /\ h \in Workers /\ k.stat[h] = "close"
                           /\ Detached(k, h)
  BY <1>1, <1>2 DEF IInv, MidService, Detached
<1>4. PICK s \in Stats : s # "ready" /\ s = "none"
  BY DEF Stats
<1>5. /\ k' = SetStat(k, h, s) /\ pc' = [pc EXCEPT ![Idle] = "run"]
      /\ arg' = [arg EXCEPT ![Idle] = NoThread]
  BY <1>1, <1>3, <1>4 DEF DefunctFree, Goto, Target, Self
<1>6. h \notin k.timer
  BY <1>2, <1>3 DEF Sound, TimersSuspended
<1>7. /\ Sound(k', {} \ {h}) /\ SameButStat(k', k)
      /\ \A x \in Threads : k'.stat[x] = IF x = h THEN s ELSE k.stat[x]
  <2>1. k' = SetStat(k, h, s)
    BY <1>5
  <2>2. Sound(k, {}) /\ Detached(k, h) /\ h \in Threads
    BY <1>2, <1>3
  <2> QED BY <1>4, <1>6, <2>1, <2>2, SetStatSound
<1>8. Sound(k', {})
  <2>1. {} \ {h} = {}
    OBVIOUS
  <2> QED BY <1>7, <2>1
<1>9. /\ pc' \in [Threads -> PCs] /\ arg' \in [Threads -> Threads \cup {NoThread}]
      /\ pc'[Idle] = "run"
      /\ \A t \in Threads \ {Idle} : pc'[t] = pc[t]
  BY <1>2, <1>5 DEF IInv, TypeOK, PCs
<1>10. k'.cur = k.cur /\ k'.stat[Idle] = "running"
  BY <1>2, <1>3, <1>7 DEF SameButStat
<1>11. OnlyCurrentRuns(k')
  BY <1>1, <1>2, <1>4, <1>7, <1>10 DEF OnlyCurrentRuns
<1>12. \A x \in Threads : k.stat[x] = "close" => k'.stat[x] \in {"close", "none"}
  BY <1>4, <1>7
<1> QED BY <1>1, <1>2, <1>8, <1>9, <1>10, <1>11, <1>12, IdleStepSound

-----------------------------------------------------------------------------
(* The boot sequence.                                                      *)

LEMMA BootStepSound ==
  ASSUME IInv, k.cur = NoThread, UNCHANGED <<pc, arg, lazy>>,
         Sound(k', {}), OnlyCurrentRuns(k'),
         \A x \in Threads : k.stat[x] = "close" =>
            /\ k'.stat[x] = "close" /\ x # k'.cur
            /\ \A l \in Lists \ Priorities : x \in On(k', l) <=> x \in On(k, l),
         CpuOccupied', HighestTaken
  PROVE  Step
<1>1. NoThread \notin Threads /\ Defunct \in Lists \ Priorities /\ Idle \in Threads
  BY KernelAssumption DEF Lists
<1>2. \A t \in Threads : pc[t] \notin {"resume", "delete", "close"}
  BY <1>1 DEF IInv, MidService, Self
<1>3. Limbo' = {}
  <2>1. k'.cur \in Threads \cup {NoThread}
    BY DEF Sound, KernelStates
  <2> QED BY <1>2, <2>1 DEF Limbo, At, Running, Self
<1>4. TypeOK'
  BY DEF IInv, TypeOK, Sound
<1>5. ASSUME NEW t \in Threads, pc[t] \in {"peek", "reap"}
      PROVE  /\ t = Idle /\ arg[t] \in Workers \ {k'.cur} /\ k'.stat[arg[t]] = "close"
             /\ pc[t] = "peek" => arg[t] \in On(k', Defunct)
             /\ pc[t] = "reap" => \A l \in Lists : arg[t] \notin On(k', l)
  <2>1. /\ t = Idle /\ arg[t] \in Workers /\ k.stat[arg[t]] = "close"
        /\ pc[t] = "peek" => arg[t] \in On(k, Defunct)
        /\ pc[t] = "reap" => \A l \in Lists : arg[t] \notin On(k, l)
    BY <1>5 DEF IInv, MidService
  <2>2. arg[t] \in Threads
    BY <2>1 DEF Workers
  <2>3. k'.stat[arg[t]] = "close" /\ arg[t] # k'.cur
    BY <2>1, <2>2
  <2>4. \A p \in Priorities : arg[t] \notin On(k', p)
    BY <2>2, <2>3, WhereLinked
  <2> QED BY <1>1, <2>1, <2>2, <2>3, <2>4
<1>6. MidService'
  BY <1>2, <1>5 DEF MidService, Self
<1>7. ClosedKept
  BY DEF ClosedKept
<1> QED BY <1>3, <1>4, <1>6, <1>7 DEF IInv, Step

\* Before the scheduler has started no thread runs and nobody is in limbo.
LEMMA BootFacts ==
  ASSUME IInv, ~Running
  PROVE  /\ k.cur = NoThread /\ Sound(k, {}) /\ OnlyCurrentRuns(k)
         /\ \A x \in Threads : x # k.cur /\ k.stat[x] # "running"
<1>1. k.cur = NoThread /\ NoThread \notin Threads
  BY KernelAssumption DEF Running, Self
<1>2. Sound(k, {}) /\ OnlyCurrentRuns(k)
  BY <1>1, NoLimbo DEF IInv
<1> QED BY <1>1, <1>2 DEF OnlyCurrentRuns

LEMMA BootStartStep ==
  ASSUME IInv, NEW t \in Threads, BootStart(t) PROVE Step
<1>1. /\ k.cur = NoThread /\ Sound(k, {}) /\ OnlyCurrentRuns(k)
      /\ \A x \in Threads : x # k.cur /\ k.stat[x] # "running"
  BY BootFacts DEF BootStart
<1>2. k.stat[t] = "init" /\ k' = ThreadStart(k, t) /\ UNCHANGED <<pc, arg, lazy>>
  BY DEF BootStart
<1>3. /\ Sound(k', {} \ {t})
      /\ k'.cur = k.cur
      /\ \A x \in Threads : k'.stat[x] = IF x = t THEN "ready" ELSE k.stat[x]
      /\ \A l \in Lists \ Priorities : On(k', l) = On(k, l)
  BY <1>1, <1>2, StartSound
<1>4. Sound(k', {})
  <2>1. {} \ {t} = {}
    OBVIOUS
  <2> QED BY <1>3, <2>1
<1>5. OnlyCurrentRuns(k')
  BY <1>1, <1>3 DEF OnlyCurrentRuns
<1>6. CpuOccupied' /\ HighestTaken
  BY <1>1, <1>3 DEF CpuOccupied, Running, Self, HighestTaken
<1> QED BY <1>1, <1>2, <1>3, <1>4, <1>5, <1>6, BootStepSound

LEMMA BootDoneStep ==
  ASSUME IInv, BootDone PROVE Step
<1>1. /\ k.cur = NoThread /\ Sound(k, {}) /\ OnlyCurrentRuns(k)
      /\ \A x \in Threads : x # k.cur /\ k.stat[x] # "running"
  BY BootFacts DEF BootDone
<1>2. k.stat[Idle] = "ready" /\ k' = SchedulerStart(k) /\ UNCHANGED <<pc, arg, lazy>>
  BY DEF BootDone
<1>3. k.group # {}
  BY <1>1, <1>2, GroupNonEmpty, KernelAssumption
<1>4. /\ Sound(k', {}) /\ OnlyCurrentRuns(k') /\ k'.cur \in Threads
      /\ k.stat[k'.cur] = "ready"
      /\ \A x \in Threads : k'.stat[x] = IF x = k'.cur THEN "running" ELSE k.stat[x]
      /\ \A x \in Threads : k'.stat[x] = "ready" => k'.prio[k'.cur] <= k'.prio[x]
      /\ \A l \in Lists \ Priorities : On(k', l) = On(k, l)
  BY <1>1, <1>2, <1>3, SchedulerStartSound
<1>5. CpuOccupied' /\ HighestTaken
  BY <1>2, <1>4, KernelAssumption DEF CpuOccupied, Self, HighestTaken
<1>6. \A x \in Threads : k.stat[x] = "close" =>
         /\ k'.stat[x] = "close" /\ x # k'.cur
         /\ \A l \in Lists \ Priorities : x \in On(k', l) <=> x \in On(k, l)
  BY <1>4
<1> QED BY <1>1, <1>2, <1>4, <1>5, <1>6, BootStepSound

-----------------------------------------------------------------------------
(* The theorems.                                                           *)

LEMMA InitSound == Init => IInv
<1> SUFFICES ASSUME Init PROVE IInv
  OBVIOUS
<1>1. PICK prio \in [Workers -> Prios] :
         k = KernelBoot(BootThreads,
                        [t \in Threads |-> IF t = Idle THEN IdlePriority ELSE prio[t]])
  BY DEF Init
<1>2. [t \in Threads |-> IF t = Idle THEN IdlePriority ELSE prio[t]] \in [Threads -> Priorities]
  <2>1. IdlePriority \in Priorities
    BY KernelAssumption, ThreadAssumption DEF Priorities
  <2>2. \A t \in Threads \ {Idle} : prio[t] \in Priorities
    BY ThreadAssumption DEF Workers
  <2> QED BY <2>1, <2>2
<1>3. PICK p \in [Threads -> Priorities] : k = KernelBoot(BootThreads, p)
  BY <1>1, <1>2
<1>4. Sound(k, Limbo) /\ OnlyCurrentRuns(k) /\ k.cur = NoThread
  BY <1>3, BootSound
<1>5. /\ pc = [t \in Threads |-> "run"] /\ arg = [t \in Threads |-> NoThread]
      /\ lazy = FALSE
  BY DEF Init
<1>6. TypeOK /\ MidService /\ pc[Idle] = "run"
  BY <1>4, <1>5, KernelAssumption DEF TypeOK, MidService, PCs, Sound
<1>7. CpuOccupied
  BY <1>4 DEF CpuOccupied, Running, Self
<1> QED BY <1>4, <1>6, <1>7 DEF IInv

LEMMA NextSound ==
  ASSUME CallersMask, IInv, [Next]_vars PROVE Step
<1>1. CASE UNCHANGED vars
  <2>1. IInv'
    BY <1>1 DEF vars, IInv, TypeOK, Limbo, MidService, CpuOccupied, At, Running, Self
  <2>2. ClosedKept /\ HighestTaken
    BY <1>1 DEF vars, ClosedKept, HighestTaken
  <2> QED BY <2>1, <2>2 DEF Step
<1>2. CASE Boot
  BY <1>2, BootDoneStep, BootStartStep DEF Boot
<1>3. CASE Service
  <2>1. ASSUME NEW t \in Workers, NEW p \in Prios, Create(t, p) \/ SetPriority(t, p)
        PROVE  Step
    BY <2>1, CreateStep, SetPriorityStep
  <2>2. ASSUME NEW t \in Workers, Startup(t) \/ Resume(t) PROVE Step
    BY <2>2, StartupStep, ResumeStep
  <2>3. ASSUME NEW t \in Workers, NEW label \in {"delete", "close"}, Delete(t, label)
        PROVE  Step
    BY <2>3, ThreadDeleteStep
  <2>4. ASSUME AppSchedule \/ Yield \/ Sleep \/ DelayPassed \/ Suspend \/ Exit PROVE Step
    BY <2>4, AppScheduleStep, YieldStep, ThreadSleepStep, DelayPassedStep, SuspendStep, ExitStep
  <2>5. ASSUME EnterCritical \/ ExitCritical PROVE Step
    BY <2>5, EnterCriticalStep, ExitCriticalStep
  <2> QED BY <1>3, <2>1, <2>2, <2>3, <2>4, <2>5, Zenon DEF Service
<1>4. CASE Continue
  BY <1>4, ServiceScheduleStep, ThreadWokenStep, ResumeEndStep, ThreadDeleteEndStep, ExitCriticalStep
     DEF Continue
<1>5. CASE IdleStep
  BY <1>5, DefunctPeekStep, DefunctRemoveStep, DefunctFreeStep DEF IdleStep
<1>6. CASE Tick
  BY <1>6, SliceTickStep, TimeoutTickStep DEF Tick
<1> QED BY <1>1, <1>2, <1>3, <1>4, <1>5, <1>6 DEF Next

\* The inductive invariant holds of every behaviour.
THEOREM Invariance ==
  ASSUME CallersMask PROVE Spec => []IInv
<1>1. IInv /\ [Next]_vars => IInv'
  BY NextSound DEF Step
<1> QED BY <1>1, InitSound, PTL DEF Spec

\* The scheduler's data structures stay consistent: whatever services threads
\* call and wherever ticks interrupt them, variables keep their types, every
\* thread is in the one list that its state and priority call for, and the
\* priority group matches the ready table (thread.c, scheduler.c, idle.c).
THEOREM SchedulerConsistent ==
  ASSUME CallersMask PROVE Spec => []SchedulerSound
<1>1. IInv => SchedulerSound
  BY DEF IInv, SchedulerSound, KernelSound, KernelOK, Sound
<1> QED BY <1>1, Invariance, PTL

\* A service always finds the thread it works on as it left it, and the CPU
\* always belongs to a thread that runs or is about to call rt_schedule.
THEOREM ServicesHold ==
  ASSUME CallersMask PROVE Spec => []ServiceSound
<1>1. IInv => ServiceSound
  BY DEF IInv, ServiceSound
<1> QED BY <1>1, Invariance, PTL

\* The idle thread frees only control blocks that no list, no timer and no CPU
\* refers to (rt_defunct_execute).
THEOREM FreesOnlyUnreferenced ==
  ASSUME CallersMask PROVE Spec => []NothingDangles
<1>1. IInv => NothingDangles
  <2> SUFFICES ASSUME IInv, NEW t \in Threads, k.stat[t] = "none"
               PROVE  t # k.cur /\ t \notin k.timer /\ Detached(k, t)
    BY DEF NothingDangles, Detached
  <2>1. Sound(k, Limbo) /\ OnlyCurrentRuns(k)
    BY DEF IInv
  <2>2. Detached(k, t)
    BY <2>1, WhereLinked
  <2>3. t # k.cur
    BY <2>1, KernelAssumption DEF OnlyCurrentRuns
  <2>4. t \notin k.timer
    BY <2>1 DEF Sound, TimersSuspended
  <2> QED BY <2>2, <2>3, <2>4
<1> QED BY <1>1, Invariance, PTL

\* A closed thread is never made READY or dispatched again (rt_thread_delete,
\* rt_thread_detach, _thread_exit).
THEOREM ClosedIsFinal ==
  ASSUME CallersMask PROVE Spec => ClosedStaysClosed
<1>1. IInv /\ [Next]_vars => ClosedKept
  BY NextSound DEF Step
<1>2. ClosedKept => [\A t \in Threads : k.stat[t] = "close" => k'.stat[t] \in {"close", "none"}]_vars
  BY DEF ClosedKept
<1> QED BY <1>1, <1>2, Invariance, PTL DEF Spec, ClosedStaysClosed

\* A switch of threads, by rt_schedule or at boot, goes to a thread that no
\* READY thread beats.
THEOREM SwitchesToHighest ==
  ASSUME CallersMask PROVE Spec => DispatchesHighest
<1>1. IInv /\ [Next]_vars => HighestTaken
  BY NextSound DEF Step
<1>2. HighestTaken =>
        [k'.cur # k.cur =>
           \A t \in Threads : k'.stat[t] = "ready" => k'.prio[k'.cur] <= k'.prio[t]]_vars
  BY DEF HighestTaken
<1> QED BY <1>1, <1>2, Invariance, PTL DEF Spec, DispatchesHighest

-----------------------------------------------------------------------------
(* No preemption is lost: each step is one that runs rt_schedule, one that *)
(* leaves rt_schedule to be called, or one that makes no thread more       *)
(* urgent.                                                                 *)

\* After a switch no READY thread beats the current one.  The same holds when
\* rt_schedule was called with the scheduler unlocked.
LEMMA NoneMoreUrgent ==
  ASSUME Step,
         k'.cur \in Threads =>
            \A t \in Threads : k'.stat[t] = "ready" => k'.prio[k'.cur] <= k'.prio[t]
  PROVE  NoLostPreemption'
<1>1. k' \in KernelStates
  BY DEF Step, IInv, TypeOK
<1>2. /\ k'.cur \in Threads \cup {NoThread}
      /\ \A t \in Threads : k'.prio[t] \in Int
  BY <1>1 DEF KernelStates, Priorities
<1> QED BY <1>2 DEF NoLostPreemption, Running, Self

LEMMA AfterSwitch ==
  ASSUME Step, k'.cur # k.cur PROVE NoLostPreemption'
BY NoneMoreUrgent DEF Step, HighestTaken

\* A step after which the current service, or the caller, has still to call
\* rt_schedule, or the scheduler is locked.
LEMMA ScheduleAhead ==
  ASSUME Step,
         \/ lazy' = TRUE \/ k'.lock > 0
         \/ k.cur \in Threads /\ pc'[k.cur] \in {"sched", "sleep"}
  PROVE  NoLostPreemption'
<1>1. CASE k'.cur # k.cur
  BY <1>1, AfterSwitch
<1>2. CASE k'.cur = k.cur
  BY <1>2 DEF NoLostPreemption, Self
<1> QED BY <1>1, <1>2

\* A step that makes no thread READY and changes no priority that counts.
LEMMA UrgencyKept ==
  ASSUME IInv, NoLostPreemption, Step, k.cur \in Threads,
         pc[k.cur] \notin {"sched", "sleep"},
         lazy' = lazy, k'.lock = k.lock, k'.prio[k.cur] = k.prio[k.cur],
         \A x \in Threads : k'.stat[x] = "ready" =>
            k.stat[x] = "ready" /\ k'.prio[x] = k.prio[x]
  PROVE  NoLostPreemption'
<1>1. CASE k'.cur # k.cur
  BY <1>1, AfterSwitch
<1>2. CASE k'.cur = k.cur
  <2>1. k.cur # NoThread /\ k.stat[k.cur] = "running"
    BY KernelAssumption DEF IInv, CpuOccupied, Running, Self
  <2>2. \A t \in Threads : k.stat[t] = "ready" /\ k.prio[t] < k.prio[k.cur] =>
           k.lock > 0 \/ lazy
    BY <2>1 DEF NoLostPreemption, Running, Self
  <2> QED BY <1>2, <2>2 DEF NoLostPreemption, Self
<1> QED BY <1>1, <1>2

\* A step that applies rt_schedule to a state ks it has made of k.
LEMMA ScheduleSettles ==
  ASSUME Step, NEW ks, ks.lock \in Nat, ScheduleFacts(k', ks)
  PROVE  NoLostPreemption'
<1>1. CASE ks.lock = 0
  BY <1>1, NoneMoreUrgent DEF ScheduleFacts
<1>2. CASE ks.lock > 0
  <2>1. k'.lock > 0
    BY <1>2 DEF ScheduleFacts
  <2> QED BY <2>1, ScheduleAhead
<1> QED BY <1>1, <1>2

-----------------------------------------------------------------------------
(* The steps that run rt_schedule.                                         *)

LEMMA SettledHere ==
  ASSUME IInv, Step, k.cur \in Threads, pc[k.cur] \notin {"delete", "close"},
         k' = RtSchedule(k) \/ k' = SliceEnd(k)
  PROVE  NoLostPreemption'
<1>1. Sound(k, {}) /\ OnlyCurrentRuns(k)
  BY NoLimbo DEF IInv
<1>2. ScheduleFacts(k', k)
  BY <1>1, ScheduleSound, SliceSound
<1>3. k.lock \in Nat
  BY <1>1 DEF Sound, KernelStates
<1> QED BY <1>2, <1>3, ScheduleSettles

LEMMA CallsSchedule ==
  ASSUME IInv, CallersMask, Step, AppSchedule \/ Yield \/ Schedule \/ SliceTick
  PROVE  NoLostPreemption'
<1>1. k' = RtSchedule(k) \/ k' = SliceEnd(k)
  BY DEF AppSchedule, Yield, Schedule, ScheduleFrom, SliceTick
<1>2. k.cur \in Threads \cup {NoThread}
  BY DEF IInv, Sound, KernelStates
<1>3. k.cur \in Threads /\ pc[k.cur] \notin {"delete", "close"}
  <2>1. CASE AppSchedule \/ Yield
    BY <1>2, <2>1 DEF AppSchedule, Yield, InApp, At, Running, Self
  <2>2. CASE Schedule
    BY <1>2, <2>2 DEF Schedule, ScheduleFrom, At, Running, Self
  <2>3. CASE SliceTick
    BY <1>2, <2>3 DEF SliceTick, IrqEnabled, CallersMask, Running, Self
  <2> QED BY <2>1, <2>2, <2>3
<1> QED BY <1>1, <1>3, SettledHere

LEMMA TimeoutSettles ==
  ASSUME IInv, CallersMask, Step, NEW t \in Threads, TimeoutTick(t)
  PROVE  NoLostPreemption'
<1>1. PICK ks : ks = ThreadTimeout(k, t)
  OBVIOUS
<1>2. k.cur \in Threads /\ pc[k.cur] \notin {"resume", "delete", "close"}
  BY DEF TimeoutTick, IrqEnabled, CallersMask, Running, Self, IInv, Sound, KernelStates
<1>3. Sound(k, {}) /\ OnlyCurrentRuns(k)
  BY <1>2, NoLimbo DEF IInv
<1>4. k.stat[t] = "suspend"
  BY <1>3 DEF TimeoutTick, Sound, TimersSuspended
<1>5. /\ Sound(ks, {} \ {t}) /\ ks.cur = k.cur
      /\ \A x \in Threads :
           ks.stat[x] = IF x # t THEN k.stat[x] ELSE IF t = k.cur THEN "running" ELSE "ready"
  BY <1>1, <1>3, <1>4, TimeoutSound
<1>6. Sound(ks, {})
  <2>1. {} \ {t} = {}
    OBVIOUS
  <2> QED BY <1>5, <2>1
<1>7. OnlyCurrentRuns(ks)
  BY <1>2, <1>3, <1>5 DEF OnlyCurrentRuns
<1>8. k' = RtSchedule(ks)
  BY <1>1 DEF TimeoutTick
<1>9. ScheduleFacts(k', ks)
  BY <1>2, <1>5, <1>6, <1>7, <1>8, ScheduleSound
<1>10. ks.lock \in Nat
  BY <1>6 DEF Sound, KernelStates
<1> QED BY <1>9, <1>10, ScheduleSettles

-----------------------------------------------------------------------------
(* The steps that leave rt_schedule to be called.                          *)

LEMMA LeavesToSchedule ==
  ASSUME IInv, Step, Sleep \/ Suspend \/ Exit \/ \E t \in Workers : Startup(t)
  PROVE  NoLostPreemption'
<1>1. InApp /\ \E label \in {"sched", "sleep"} : Goto(label)
  BY DEF Sleep, Suspend, Exit, Startup, MayBlock
<1>2. k.cur \in Threads
  BY <1>1, InAppFacts
<1>3. pc'[k.cur] \in {"sched", "sleep"}
  BY <1>1, <1>2 DEF Goto, Self, IInv, TypeOK
<1> QED BY <1>2, <1>3, ScheduleAhead

LEMMA LeavesToCaller ==
  ASSUME Step, ResumeEnd \/ \E t \in Workers, p \in Prios : SetPriority(t, p)
  PROVE  NoLostPreemption'
BY ScheduleAhead DEF ResumeEnd, SetPriority

LEMMA CriticalRegion ==
  ASSUME IInv, Step, EnterCritical \/ ExitCritical
  PROVE  NoLostPreemption'
<1>1. InApp
  BY DEF EnterCritical, ExitCritical
<1>2. k.cur \in Threads /\ k \in KernelStates /\ k.lock \in Nat
  BY <1>1, InAppFacts DEF Sound, KernelStates
<1>3. CASE EnterCritical
  <2>1. k'.lock = k.lock + 1
    BY <1>2, <1>3 DEF EnterCritical, KernelStates
  <2>2. k'.lock > 0
    BY <1>2, <2>1
  <2> QED BY <2>2, ScheduleAhead
<1>4. CASE ExitCritical /\ k.lock <= 1
  <2>1. pc'[k.cur] = "sched"
    BY <1>2, <1>4 DEF ExitCritical, Goto, Self, IInv, TypeOK
  <2> QED BY <1>2, <2>1, ScheduleAhead
<1>5. CASE ExitCritical /\ ~(k.lock <= 1)
  <2>1. k'.lock = IF k.lock = 0 THEN 0 ELSE k.lock - 1
    BY <1>2, <1>5 DEF ExitCritical, KernelStates
  <2>2. k'.lock > 0
    BY <1>2, <1>5, <2>1
  <2> QED BY <2>2, ScheduleAhead
<1> QED BY <1>3, <1>4, <1>5

-----------------------------------------------------------------------------
(* The steps that make no thread more urgent.                              *)

LEMMA CreateKeeps ==
  ASSUME IInv, NoLostPreemption, Step, NEW t \in Workers, NEW p \in Prios, Create(t, p)
  PROVE  NoLostPreemption'
<1>1. /\ k.cur \in Threads /\ pc[k.cur] = "run" /\ k.stat[k.cur] = "running"
      /\ k \in KernelStates
  BY InAppFacts DEF Create, Sound
<1>2. t \in Threads /\ t # k.cur /\ lazy' = lazy
  BY <1>1 DEF Create, Workers
<1>3. /\ k'.lock = k.lock
      /\ \A x \in Threads \ {t} : k'.stat[x] = k.stat[x] /\ k'.prio[x] = k.prio[x]
      /\ k'.stat[t] = "init"
  BY <1>1, <1>2 DEF Create, KernelStates
<1>4. \A x \in Threads : k'.stat[x] = "ready" =>
         k.stat[x] = "ready" /\ k'.prio[x] = k.prio[x]
  BY <1>3
<1> QED BY <1>1, <1>2, <1>3, <1>4, UrgencyKept

\* The two steps that touch the error code only, and the ones that only read k.
LEMMA ErrorOnlyKeeps ==
  ASSUME IInv, NoLostPreemption, Step,
         DelayPassed \/ Woken \/ DefunctPeek \/ \E t \in Workers : Resume(t)
  PROVE  NoLostPreemption'
<1>1. /\ k.cur \in Threads \cup {NoThread} /\ k.cur # NoThread
      /\ pc[k.cur] \in {"run", "woken"} /\ lazy' = lazy
  BY DEF DelayPassed, Woken, DefunctPeek, Resume, MayBlock, InApp, At, Running, Self,
         IInv, Sound, KernelStates
<1>2. k'.lock = k.lock /\ k'.prio = k.prio /\ k'.stat = k.stat
  <2>1. k \in KernelStates
    BY DEF IInv, Sound
  <2> QED BY <2>1 DEF DelayPassed, Woken, DefunctPeek, Resume, KernelStates
<1> QED BY <1>1, <1>2, UrgencyKept

LEMMA DeleteKeeps ==
  ASSUME IInv, NoLostPreemption, Step, NEW t \in Workers, NEW label, Delete(t, label)
  PROVE  NoLostPreemption'
<1>1. k.cur \in Threads /\ pc[k.cur] = "run" /\ Sound(k, {}) /\ t \in Threads
  BY InAppFacts DEF Delete, Workers
<1>2. k'.lock = k.lock /\ k'.prio = k.prio /\ k'.stat = k.stat
  <2>1. CASE k.stat[t] = "init"
    BY <2>1 DEF Delete
  <2>2. CASE k.stat[t] # "init"
    <3>1. k' = ScheduleRemove(k, t)
      BY <2>2 DEF Delete
    <3>2. SameButLists(k', k)
      BY <1>1, <3>1, RemoveSound
    <3> QED BY <3>2 DEF SameButLists
  <2> QED BY <2>1, <2>2
<1>3. lazy' = lazy
  BY DEF Delete
<1> QED BY <1>1, <1>2, <1>3, UrgencyKept

LEMMA DeleteEndKeeps ==
  ASSUME IInv, NoLostPreemption, Step, DeleteEnd
  PROVE  NoLostPreemption'
<1>1. /\ k.cur \in Threads /\ k.cur # NoThread /\ pc[k.cur] \in {"delete", "close"}
      /\ lazy' = lazy
  BY DEF DeleteEnd, At, Running, Self, IInv, Sound, KernelStates
<1>2. PICK t \in Threads : t = arg[k.cur]
  BY <1>1, HolderFacts
<1>3. Limbo = {t}
  BY <1>1, <1>2 DEF Limbo, At, Running, Self
<1>4. PICK X : Sound(k, X) /\ Detached(k, t)
  BY <1>1, <1>2, <1>3 DEF IInv, MidService, Detached
<1>5. k' = ThreadClose(k, t)
  BY <1>2 DEF DeleteEnd, Self
<1>6. /\ k'.lock = k.lock /\ k'.prio = k.prio
      /\ \A x \in Threads : k'.stat[x] = IF x = t THEN "close" ELSE k.stat[x]
  <2> DEFINE r == ThreadClose(k, t)
  <2>1. /\ r.lock = k.lock /\ r.prio = k.prio
        /\ \A x \in Threads : r.stat[x] = IF x = t THEN "close" ELSE k.stat[x]
    BY <1>4, CloseSound
  <2>2. k' = r
    BY <1>5
  <2> HIDE DEF r
  <2> QED BY <2>1, <2>2
<1>7. \A x \in Threads : k'.stat[x] = "ready" => k.stat[x] = "ready"
  BY <1>6
<1> QED BY <1>1, <1>6, <1>7, UrgencyKept

LEMMA DefunctKeeps ==
  ASSUME IInv, NoLostPreemption, Step, DefunctRemove \/ DefunctFree
  PROVE  NoLostPreemption'
<1>1. k.cur = Idle /\ pc[Idle] \in {"peek", "reap"} /\ lazy' = lazy
  BY DEF DefunctRemove, DefunctFree, At, Running, Self, IInv, MidService, Sound, KernelStates
<1>2. Idle \in Threads /\ Sound(k, {})
  BY <1>1, IdleFacts
<1>3. PICK h \in Threads : h = arg[Idle] /\ k.stat[h] = "close"
  BY <1>1, <1>2 DEF IInv, MidService, Workers
<1>4. /\ k'.lock = k.lock /\ k'.prio = k.prio
      /\ \A x \in Threads : k'.stat[x] = "ready" => k.stat[x] = "ready"
  <2>1. CASE DefunctRemove
    <3>1. k' = Unlink(k, h) /\ k.stat[h] # "ready"
      BY <1>1, <1>3, <2>1 DEF DefunctRemove, Self
    <3>2. SameButLists(k', k)
      BY <1>2, <3>1, UnlinkSound
    <3> QED BY <3>2 DEF SameButLists
  <2>2. CASE DefunctFree
    <3>1. k' = SetStat(k, h, "none") /\ k \in KernelStates
      BY <1>1, <1>2, <1>3, <2>2 DEF DefunctFree, Self, Sound
    <3> QED BY <3>1 DEF SetStat, KernelStates
  <2> QED BY <2>1, <2>2
<1> QED BY <1>1, <1>2, <1>4, UrgencyKept

-----------------------------------------------------------------------------
LEMMA BootKeeps ==
  ASSUME IInv, Step, Boot PROVE NoLostPreemption'
<1>1. k.cur = NoThread
  BY DEF Boot, BootDone, BootStart, Running, Self
<1>2. CASE k'.cur # k.cur
  BY <1>2, AfterSwitch
<1>3. CASE k'.cur = k.cur
  BY <1>1, <1>3 DEF NoLostPreemption, Running, Self
<1> QED BY <1>2, <1>3

LEMMA PreemptionStep ==
  ASSUME CallersMask, IInv, NoLostPreemption, [Next]_vars PROVE NoLostPreemption'
<1>1. Step
  BY NextSound
<1>2. CASE UNCHANGED vars
  BY <1>2 DEF vars, NoLostPreemption, Running, Self
<1>3. CASE Boot
  BY <1>1, <1>3, BootKeeps
<1>4. CASE Service
  <2>1. ASSUME NEW t \in Workers, NEW p \in Prios, Create(t, p) \/ SetPriority(t, p)
        PROVE  NoLostPreemption'
    BY <1>1, <2>1, CreateKeeps, LeavesToCaller
  <2>2. ASSUME NEW t \in Workers, Startup(t) \/ Resume(t) PROVE NoLostPreemption'
    BY <1>1, <2>2, LeavesToSchedule, ErrorOnlyKeeps
  <2>3. ASSUME NEW t \in Workers, NEW label \in {"delete", "close"}, Delete(t, label)
        PROVE  NoLostPreemption'
    BY <1>1, <2>3, DeleteKeeps
  <2>4. ASSUME AppSchedule \/ Yield \/ Sleep \/ DelayPassed \/ Suspend \/ Exit
        PROVE  NoLostPreemption'
    BY <1>1, <2>4, CallsSchedule, LeavesToSchedule, ErrorOnlyKeeps
  <2>5. ASSUME EnterCritical \/ ExitCritical PROVE NoLostPreemption'
    BY <1>1, <2>5, CriticalRegion
  <2> QED BY <1>4, <2>1, <2>2, <2>3, <2>4, <2>5, Zenon DEF Service
<1>5. CASE Continue
  BY <1>1, <1>5, CallsSchedule, ErrorOnlyKeeps, LeavesToCaller, DeleteEndKeeps, CriticalRegion
     DEF Continue
<1>6. CASE IdleStep
  BY <1>1, <1>6, ErrorOnlyKeeps, DefunctKeeps DEF IdleStep
<1>7. CASE Tick
  BY <1>1, <1>7, CallsSchedule, TimeoutSettles DEF Tick
<1> QED BY <1>2, <1>3, <1>4, <1>5, <1>6, <1>7 DEF Next

\* rt_schedule is never forgotten: while a READY thread is more urgent than the
\* running one, the scheduler is locked (and rt_exit_critical will schedule),
\* the current service still has rt_schedule to call, or rt_thread_resume or
\* RT_THREAD_CTRL_CHANGE_PRIORITY has left that call to its caller.
THEOREM PreemptionNotLost ==
  ASSUME CallersMask PROVE Spec => []NoLostPreemption
<1>1. Init => NoLostPreemption
  BY DEF Init, KernelBoot, NoLostPreemption, Running, Self
<1>2. IInv /\ NoLostPreemption /\ [Next]_vars => NoLostPreemption'
  BY PreemptionStep
<1> QED BY <1>1, <1>2, Invariance, PTL DEF Spec

-----------------------------------------------------------------------------
(* The kernel half of the invariants.                                      *)

\* The labels and arguments of all the services that block.
ServicePCs ==
  {"run", "sched", "sleep", "woken", "take", "taken", "wait", "back", "reset", "detach",
   "wake", "delete"}
ServiceArgs == Threads \cup Queues \cup {NoThread}

\* Services that must not be preempted, because they act on what they have read.
Held == {"delete", "reset"}

\* What the proofs assume of the callers of rt_thread_delete: they disable interrupts
\* around it, as the cleanup of libc/pthreads does.  Control RESET disables them itself.
DeletersMask == "delete" \in Masked

\* The scheduler's data structures agree; a service that must not be preempted has
\* the CPU, and the thread it deletes is in no list; the CPU is with a thread that
\* runs or is about to give it up; and the idle thread can always be switched to.
CoreInv ==
  /\ pc \in [Threads -> ServicePCs] /\ arg \in [Threads -> ServiceArgs] /\ lazy \in BOOLEAN
  /\ Sound(k, Limbo) /\ OnlyCurrentRuns(k) /\ k.lock = 0
  /\ k.cur = NoThread => \A t \in Threads : pc[t] = "run"
  /\ \A t \in Threads : pc[t] \in Held => t = k.cur
  /\ \A t \in Threads : pc[t] = "delete" =>
       /\ arg[t] \in Workers /\ arg[t] # t
       /\ k.stat[arg[t]] \notin {"none", "close"} /\ Detached(k, arg[t])
  /\ k.cur # NoThread =>
       /\ k.stat[Idle] \in {"ready", "running"}
       /\ k.stat[k.cur] # "running" => pc[k.cur] \in {"sleep", "take", "wait"}
  /\ pc[Idle] = "run"

\* The invariant at boot.
LEMMA CoreInit == Init => CoreInv
<1> SUFFICES ASSUME Init PROVE CoreInv
  OBVIOUS
<1>1. PICK prio \in [Workers -> Prios] :
         k = KernelBoot(BootThreads,
                        [t \in Threads |-> IF t = Idle THEN IdlePriority ELSE prio[t]])
  BY DEF Init
<1>2. [t \in Threads |-> IF t = Idle THEN IdlePriority ELSE prio[t]] \in [Threads -> Priorities]
  <2>1. IdlePriority \in Priorities
    BY KernelAssumption, ThreadAssumption DEF Priorities
  <2>2. \A t \in Threads \ {Idle} : prio[t] \in Priorities
    BY ThreadAssumption DEF Workers
  <2> QED BY <2>1, <2>2
<1>3. PICK p \in [Threads -> Priorities] : k = KernelBoot(BootThreads, p)
  BY <1>1, <1>2
<1>4. Sound(k, Limbo) /\ OnlyCurrentRuns(k) /\ k.lock = 0 /\ k.cur = NoThread
  BY <1>3, BootSound
<1>5. /\ pc = [t \in Threads |-> "run"] /\ arg = [t \in Threads |-> NoThread]
      /\ lazy = FALSE
  BY DEF Init
<1>6. /\ pc \in [Threads -> ServicePCs] /\ arg \in [Threads -> ServiceArgs]
      /\ \A t \in Threads : pc[t] = "run"
  BY <1>5 DEF ServicePCs, ServiceArgs
<1> QED BY <1>4, <1>5, <1>6, KernelAssumption DEF CoreInv, Held

\* Outside of rt_thread_delete nobody is in limbo.
LEMMA CoreNoLimbo ==
  ASSUME CoreInv, k.cur \in Threads => pc[k.cur] # "delete"
  PROVE  Limbo = {} /\ Sound(k, {})
<1>1. Limbo = {}
  <2>1. k.cur \in Threads \cup {NoThread} /\ (k.cur \in Threads => pc[k.cur] # "close")
    BY DEF CoreInv, Sound, KernelStates, ServicePCs
  <2> QED BY <2>1 DEF Limbo, At, Running, Self
<1> QED BY <1>1 DEF CoreInv

\* A current thread that is not giving up the CPU is running; one that is in a
\* service at all is not the idle thread.
LEMMA CoreFacts ==
  ASSUME CoreInv, k.cur # NoThread, pc[k.cur] \notin {"sleep", "take", "wait", "delete"}
  PROVE  /\ k.cur \in Threads /\ k.stat[k.cur] = "running" /\ Sound(k, {})
         /\ OnlyCurrentRuns(k) /\ k.stat[Idle] \in {"ready", "running"} /\ k.lock = 0
         /\ pc[k.cur] # "run" => k.cur \in Workers
<1>1. k.cur \in Threads
  BY DEF CoreInv, Sound, KernelStates
<1> QED BY <1>1, CoreNoLimbo DEF CoreInv, Workers

\* The caller of a service runs, unlocked.
LEMMA CoreInApp ==
  ASSUME CoreInv, InApp
  PROVE  /\ k.cur \in Workers /\ k.cur \in Threads /\ pc[k.cur] = "run"
         /\ k.stat[k.cur] = "running" /\ Sound(k, {})
         /\ OnlyCurrentRuns(k) /\ k.stat[Idle] \in {"ready", "running"} /\ k.lock = 0
<1>1. k.cur # NoThread /\ pc[k.cur] = "run" /\ k.cur # Idle
  BY DEF InApp, At, Running, Self
<1> QED BY <1>1, CoreFacts DEF Workers

\* A step of the current thread c that keeps the CPU and holds nobody in limbo.
LEMMA CoreQuiet ==
  ASSUME CoreInv, NEW c \in Workers, c = k.cur, k'.cur = c, k'.lock = 0,
         pc' \in [Threads -> ServicePCs], arg' \in [Threads -> ServiceArgs],
         lazy' \in BOOLEAN,
         \A t \in Threads \ {c} : pc'[t] = pc[t],
         pc'[c] # "delete",
         Sound(k', {}), OnlyCurrentRuns(k'),
         k'.stat[c] # "running" => pc'[c] \in {"sleep", "take", "wait"},
         k'.stat[Idle] \in {"ready", "running"}
  PROVE  CoreInv'
<1>1. c \in Threads /\ c # Idle /\ c # NoThread /\ Idle \in Threads
  BY KernelAssumption DEF Workers
<1>2. \A t \in Threads \ {c} : pc'[t] \notin Held
  BY DEF CoreInv
<1>3. \A t \in Threads : pc'[t] # "delete"
  BY <1>2 DEF Held
<1>4. Limbo' = {}
  <2>1. pc'[c] # "close"
    BY <1>1 DEF ServicePCs
  <2> QED BY <2>1 DEF Limbo, At, Self
<1>5. pc'[Idle] = "run"
  BY <1>1 DEF CoreInv
<1>6. \A t \in Threads : pc'[t] \in Held => t = k'.cur
  BY <1>2
<1>7. k'.cur # NoThread
  BY <1>1
<1> QED BY <1>3, <1>4, <1>5, <1>6, <1>7 DEF CoreInv

\* A step that ends with rt_schedule, or with the end of a slice, applied to a
\* state ks that the step has made of k.
LEMMA CoreSwitch ==
  ASSUME CoreInv, k.cur \in Threads, pc[k.cur] \notin Held,
         NEW ks, Sound(ks, {}), OnlyCurrentRuns(ks), ks.cur = k.cur, ks.lock = 0,
         ks.stat[Idle] \in {"ready", "running"},
         ScheduleFacts(k', ks),
         pc' \in [Threads -> ServicePCs], arg' = arg, lazy' \in BOOLEAN,
         \A t \in Threads : pc'[t] = pc[t] \/ (t # Idle /\ pc'[t] \notin Held)
  PROVE  CoreInv'
<1>1. Idle \in Threads /\ NoThread \notin Threads
  BY KernelAssumption
<1>2. k'.stat[k'.cur] = "running"
  <2>1. CASE ks.stat[ks.cur] = "running"
    BY <2>1 DEF ScheduleFacts
  <2>2. CASE ks.stat[ks.cur] # "running"
    <3>1. Idle # ks.cur
      BY <1>1, <2>2 DEF OnlyCurrentRuns
    <3>2. ks.stat[Idle] = "ready"
      BY <1>1, <3>1 DEF OnlyCurrentRuns
    <3>3. ks.group # {}
      BY <1>1, <3>2, GroupNonEmpty
    <3> QED BY <2>2, <3>3 DEF ScheduleFacts
  <2> QED BY <2>1, <2>2
<1>3. k'.cur \in Threads /\ Sound(k', {}) /\ OnlyCurrentRuns(k') /\ k'.lock = 0
  BY DEF ScheduleFacts
<1>4. \A t \in Threads : pc'[t] \notin Held
  BY DEF CoreInv
<1>5. \A t \in Threads : pc'[t] # "delete" /\ pc'[t] # "close"
  BY <1>4 DEF Held, ServicePCs
<1>6. Limbo' = {}
  BY <1>3, <1>5 DEF Limbo, At, Self
<1>7. k'.stat[Idle] \in {"ready", "running"}
  BY <1>1 DEF ScheduleFacts
<1>8. pc'[Idle] = "run" /\ k'.cur # NoThread
  BY <1>1, <1>3 DEF CoreInv
<1> QED BY <1>2, <1>3, <1>4, <1>5, <1>6, <1>7, <1>8 DEF CoreInv
-----------------------------------------------------------------------------
(* The steps of RtThread that the components take over.                    *)

\* Before the scheduler starts, no thread runs.
LEMMA CoreBoot ==
  ASSUME CoreInv, Boot
  PROVE  /\ CoreInv' /\ UNCHANGED <<pc, arg, lazy>> /\ k.cur = NoThread
         /\ k'.prio = k.prio /\ \A q \in Queues : On(k', q) = On(k, q)
         /\ Settled(k')
<1>1. ~Running /\ UNCHANGED <<pc, arg, lazy>>
  BY DEF Boot, BootDone, BootStart
<1>2. k.cur = NoThread /\ NoThread \notin Threads /\ Idle \in Threads
  BY <1>1, KernelAssumption DEF Running, Self
<1>3. Sound(k, {}) /\ OnlyCurrentRuns(k) /\ k.lock = 0
  BY <1>2, CoreNoLimbo DEF CoreInv
<1>4. \A t \in Threads : t # k.cur /\ k.stat[t] # "running" /\ pc[t] = "run"
  BY <1>2 DEF CoreInv, OnlyCurrentRuns
<1>q. \A q \in Queues : q \in Lists \ Priorities
  BY KernelAssumption DEF Lists
<1>5. ASSUME Sound(k', {}), OnlyCurrentRuns(k'), k'.lock = 0,
             k'.cur # NoThread =>
               k'.stat[Idle] \in {"ready", "running"} /\ k'.stat[k'.cur] = "running"
      PROVE  CoreInv'
  <2>1. \A t \in Threads : pc'[t] = "run"
    BY <1>1, <1>4
  <2>2. Limbo' = {}
    <3>1. k'.cur \in Threads \cup {NoThread}
      BY <1>5 DEF Sound, KernelStates
    <3> QED BY <2>1, <3>1 DEF Limbo, At, Running, Self
  <2> QED BY <1>1, <1>2, <1>5, <2>1, <2>2 DEF CoreInv, Held
<1>6. ASSUME NEW t \in Threads, BootStart(t)
      PROVE  /\ CoreInv' /\ k'.prio = k.prio /\ Settled(k')
             /\ \A q \in Queues : On(k', q) = On(k, q)
  <2>1. k.stat[t] = "init" /\ k' = ThreadStart(k, t) /\ t # k.cur
    BY <1>4, <1>6 DEF BootStart
  <2>2. /\ Sound(k', {} \ {t})
        /\ k'.prio = k.prio /\ k'.cur = k.cur /\ k'.lock = k.lock
        /\ \A x \in Threads : k'.stat[x] = IF x = t THEN "ready" ELSE k.stat[x]
        /\ \A l \in Lists \ Priorities : On(k', l) = On(k, l)
    BY <1>3, <2>1, StartSound
  <2>3. {} \ {t} = {}
    OBVIOUS
  <2>4. Sound(k', {}) /\ OnlyCurrentRuns(k')
    BY <1>2, <1>4, <2>2, <2>3 DEF OnlyCurrentRuns
  <2> QED BY <1>2, <1>3, <1>5, <1>q, <2>2, <2>4 DEF Settled
<1>7. ASSUME BootDone
      PROVE  /\ CoreInv' /\ k'.prio = k.prio /\ Settled(k')
             /\ \A q \in Queues : On(k', q) = On(k, q)
  <2>1. k.stat[Idle] = "ready" /\ k' = SchedulerStart(k)
    BY <1>7 DEF BootDone
  <2>2. k.group # {}
    BY <1>2, <1>3, <2>1, GroupNonEmpty
  <2>3. /\ Sound(k', {}) /\ OnlyCurrentRuns(k') /\ k'.cur \in Threads
        /\ k'.prio = k.prio /\ k'.lock = k.lock
        /\ \A x \in Threads : k'.stat[x] = IF x = k'.cur THEN "running" ELSE k.stat[x]
        /\ \A x \in Threads : k'.stat[x] = "ready" => k'.prio[k'.cur] <= k'.prio[x]
        /\ \A l \in Lists \ Priorities : On(k', l) = On(k, l)
    BY <1>3, <1>4, <2>1, <2>2, SchedulerStartSound
  <2>4. k'.stat[Idle] \in {"ready", "running"} /\ k'.stat[k'.cur] = "running"
    BY <1>2, <2>1, <2>3
  <2> QED BY <1>3, <1>5, <1>q, <2>3, <2>4 DEF Settled
<1> QED BY <1>1, <1>2, <1>6, <1>7 DEF Boot

\* rt_thread_sleep up to its rt_schedule
LEMMA CoreSleep ==
  ASSUME CoreInv, Sleep
  PROVE  /\ CoreInv' /\ UNCHANGED <<arg, lazy>>
         /\ k.cur \in Workers /\ pc[k.cur] = "run" /\ pc' = [pc EXCEPT ![k.cur] = "sleep"]
         /\ k'.prio = k.prio /\ k'.cur = k.cur /\ k'.stat[k.cur] = "suspend"
         /\ \A x \in Threads \ {k.cur} : k'.stat[x] = k.stat[x] /\ k'.error[x] = k.error[x]
         /\ \A q \in Queues : k'.list[q] = k.list[q]
<1> DEFINE c == k.cur
           e == [k EXCEPT !.error[c] = "ok"]
           u == ThreadSuspend(e, c)
<1>1. /\ c \in Workers /\ c \in Threads /\ pc[c] = "run" /\ k.stat[c] = "running"
      /\ Sound(k, {}) /\ OnlyCurrentRuns(k) /\ k.stat[Idle] \in {"ready", "running"}
      /\ k.lock = 0
  BY CoreInApp DEF Sleep, MayBlock
<1>2. /\ k' = [u EXCEPT !.timer = u.timer \cup {c}]
      /\ pc' = [pc EXCEPT ![c] = "sleep"] /\ UNCHANGED <<arg, lazy>>
  BY DEF Sleep, StartTimer, Goto, Self
<1>3. /\ e \in KernelStates
      /\ e.list = k.list /\ e.group = k.group /\ e.stat = k.stat /\ e.prio = k.prio
      /\ e.timer = k.timer /\ e.cur = k.cur /\ e.lock = k.lock
      /\ \A x \in Threads \ {c} : e.error[x] = k.error[x]
  BY <1>1 DEF Sound, KernelStates, Errors
<1> HIDE DEF e
<1>4. Sound(e, {})
  BY <1>1, <1>3, MovedSound
<1>5. e.stat[c] \in {"ready", "running"}
  BY <1>1, <1>3
<1>6. /\ Sound(u, {} \ {c})
      /\ u.cur = e.cur /\ u.lock = e.lock /\ u.prio = e.prio /\ u.error = e.error
      /\ \A x \in Threads : u.stat[x] = IF x = c THEN "suspend" ELSE e.stat[x]
  BY <1>1, <1>4, <1>5, SuspendSound
<1>7. \A q \in Queues : u.list[q] = e.list[q]
  BY <1>1, <1>4, <1>5, SuspendLists
<1> HIDE DEF u
<1>8. Sound(u, {})
  <2>1. {} \ {c} = {}
    OBVIOUS
  <2> QED BY <1>6, <2>1
<1>9. /\ k' \in KernelStates
      /\ k'.list = u.list /\ k'.group = u.group /\ k'.stat = u.stat /\ k'.prio = u.prio
      /\ k'.cur = u.cur /\ k'.lock = u.lock /\ k'.timer = u.timer \cup {c}
      /\ k'.error = u.error
  BY <1>1, <1>2, <1>8 DEF Sound, KernelStates
<1>10. Sound(k', {})
  <2>1. \A x \in k'.timer : u.stat[x] = "suspend"
    BY <1>1, <1>6, <1>8, <1>9 DEF Sound, TimersSuspended
  <2>2. \A x \in Threads : u.stat[x] = "ready" => k'.prio[x] = u.prio[x]
    BY <1>9
  <2> QED BY <1>8, <1>9, <2>1, <2>2, FieldsSound
<1>11. \A x \in Threads : k'.stat[x] = IF x = c THEN "suspend" ELSE k.stat[x]
  BY <1>3, <1>6, <1>9
<1>12. OnlyCurrentRuns(k')
  BY <1>1, <1>3, <1>6, <1>9, <1>11 DEF OnlyCurrentRuns
<1>13. k'.stat[Idle] \in {"ready", "running"}
  BY <1>1, <1>11, KernelAssumption DEF Workers
<1>14. /\ pc' \in [Threads -> ServicePCs] /\ pc'[c] = "sleep"
       /\ \A t \in Threads \ {c} : pc'[t] = pc[t]
       /\ arg' \in [Threads -> ServiceArgs] /\ lazy' \in BOOLEAN
  BY <1>1, <1>2 DEF CoreInv, ServicePCs
<1>15. k'.cur = c /\ k'.lock = 0
  BY <1>1, <1>3, <1>6, <1>9
<1>16. CoreInv'
  BY <1>1, <1>10, <1>12, <1>13, <1>14, <1>15, CoreQuiet
<1> QED BY <1>1, <1>2, <1>3, <1>6, <1>7, <1>9, <1>11, <1>15, <1>16

\* The end of rt_thread_sleep
LEMMA CoreWoken ==
  ASSUME CoreInv, Woken
  PROVE  /\ CoreInv' /\ UNCHANGED <<arg, lazy>>
         /\ k.cur \in Workers /\ pc[k.cur] = "woken" /\ pc' = [pc EXCEPT ![k.cur] = "run"]
         /\ k'.prio = k.prio /\ k'.stat = k.stat /\ k'.list = k.list /\ k'.cur = k.cur
         /\ \A x \in Threads \ {k.cur} : k'.error[x] = k.error[x]
<1> DEFINE c == k.cur
<1>1. c # NoThread /\ pc[c] = "woken"
  BY DEF Woken, At, Running, Self
<1>2. /\ c \in Workers /\ c \in Threads /\ k.stat[c] = "running"
      /\ Sound(k, {}) /\ OnlyCurrentRuns(k) /\ k.stat[Idle] \in {"ready", "running"}
      /\ k.lock = 0
  BY <1>1, CoreFacts
<1>3. /\ k' = [k EXCEPT !.error[c] = IF k.error[c] = "timeout" THEN "ok" ELSE k.error[c]]
      /\ pc' = [pc EXCEPT ![c] = "run"] /\ UNCHANGED <<arg, lazy>>
  BY DEF Woken, Goto, Self
<1>4. /\ k' \in KernelStates
      /\ k'.list = k.list /\ k'.group = k.group /\ k'.stat = k.stat /\ k'.prio = k.prio
      /\ k'.timer = k.timer /\ k'.cur = k.cur /\ k'.lock = k.lock
      /\ \A x \in Threads \ {c} : k'.error[x] = k.error[x]
  BY <1>2, <1>3 DEF Sound, KernelStates, Errors
<1>5. Sound(k', {}) /\ OnlyCurrentRuns(k')
  BY <1>2, <1>4, MovedSound DEF OnlyCurrentRuns
<1>6. /\ pc' \in [Threads -> ServicePCs] /\ pc'[c] = "run"
      /\ \A t \in Threads \ {c} : pc'[t] = pc[t]
      /\ arg' \in [Threads -> ServiceArgs] /\ lazy' \in BOOLEAN
  BY <1>2, <1>3 DEF CoreInv, ServicePCs
<1>7. CoreInv'
  BY <1>2, <1>4, <1>5, <1>6, CoreQuiet
<1> QED BY <1>1, <1>2, <1>3, <1>4, <1>7

\* The rt_schedule of a service
LEMMA CoreSchedule ==
  ASSUME CoreInv, NEW from \in {"sched", "sleep", "take", "wait"},
         NEW to \in {"run", "woken", "taken", "back"},
         ScheduleFrom(from, to)
  PROVE  /\ CoreInv' /\ UNCHANGED arg
         /\ k.cur \in Workers /\ pc[k.cur] = from /\ pc' = [pc EXCEPT ![k.cur] = to]
         /\ Unnoticed(k', k) /\ Settled(k')
<1> DEFINE c == k.cur
<1>1. /\ c # NoThread /\ pc[c] = from /\ k' = RtSchedule(k)
      /\ pc' = [pc EXCEPT ![c] = to] /\ UNCHANGED arg
  BY DEF ScheduleFrom, At, Running, Self, Goto
<1>2. c \in Threads /\ pc[c] \notin Held /\ pc[c] # "delete" /\ pc[c] # "run"
  BY <1>1 DEF CoreInv, Sound, KernelStates, Held
<1>3. /\ Sound(k, {}) /\ OnlyCurrentRuns(k) /\ k.lock = 0
      /\ k.stat[Idle] \in {"ready", "running"} /\ c # Idle
  BY <1>1, <1>2, CoreNoLimbo DEF CoreInv
<1>4. ScheduleFacts(k', k) /\ Unnoticed(k', k)
  BY <1>1, <1>2, <1>3, ScheduleUnnoticed
<1>5. lazy' \in BOOLEAN
  BY DEF ScheduleFrom, Scheduled, CoreInv
<1>6. /\ pc' \in [Threads -> ServicePCs]
      /\ \A t \in Threads : pc'[t] = pc[t] \/ (t # Idle /\ pc'[t] \notin Held)
  BY <1>1, <1>2, <1>3 DEF CoreInv, ServicePCs, Held
<1>7. CoreInv'
  BY <1>1, <1>2, <1>3, <1>4, <1>5, <1>6, CoreSwitch
<1> QED BY <1>1, <1>2, <1>3, <1>4, <1>7 DEF Workers, ScheduleFacts, Settled

\* With interrupts enabled nothing is held.
LEMMA CoreIrq ==
  ASSUME CoreInv, DeletersMask, IrqEnabled
  PROVE  /\ k.cur \in Threads /\ pc[k.cur] \notin Held
         /\ Sound(k, {}) /\ OnlyCurrentRuns(k) /\ k.lock = 0
         /\ k.stat[Idle] \in {"ready", "running"}
<1>1. k.cur # NoThread /\ pc[k.cur] \notin Held
  BY DEF IrqEnabled, Running, Self, DeletersMask, Held
<1>2. k.cur \in Threads /\ pc[k.cur] # "delete"
  BY <1>1 DEF CoreInv, Sound, KernelStates, Held
<1> QED BY <1>1, <1>2, CoreNoLimbo DEF CoreInv

\* The end of a time slice
LEMMA CoreSlice ==
  ASSUME CoreInv, DeletersMask, SliceTick
  PROVE  CoreInv' /\ UNCHANGED <<pc, arg>> /\ Unnoticed(k', k) /\ Settled(k')
<1>1. k' = SliceEnd(k) /\ UNCHANGED <<pc, arg>> /\ lazy' \in BOOLEAN
  BY DEF SliceTick, Scheduled, CoreInv
<1>2. /\ k.cur \in Threads /\ pc[k.cur] \notin Held
      /\ Sound(k, {}) /\ OnlyCurrentRuns(k) /\ k.lock = 0
      /\ k.stat[Idle] \in {"ready", "running"}
  BY CoreIrq DEF SliceTick
<1>3. ScheduleFacts(k', k) /\ Unnoticed(k', k)
  BY <1>1, <1>2, ScheduleUnnoticed
<1>4. pc' \in [Threads -> ServicePCs] /\ \A t \in Threads : pc'[t] = pc[t]
  BY <1>1 DEF CoreInv
<1>5. CoreInv'
  BY <1>1, <1>2, <1>3, <1>4, CoreSwitch
<1> QED BY <1>1, <1>2, <1>3, <1>5 DEF ScheduleFacts, Settled

\* An interrupt wakes a thread and calls rt_schedule.
LEMMA CoreIsrWake ==
  ASSUME CoreInv, DeletersMask, IrqEnabled, UNCHANGED <<pc, arg>>, lazy' \in BOOLEAN,
         NEW t \in Threads, k.stat[t] = "suspend",
         NEW ks, NEW err, WokenUp(ks, k, t, err), k' = RtSchedule(ks)
  PROVE  CoreInv' /\ Unnoticed(k', ks) /\ Settled(k')
<1>1. /\ k.cur \in Threads /\ pc[k.cur] \notin Held
      /\ Sound(k, {}) /\ OnlyCurrentRuns(k) /\ k.lock = 0
      /\ k.stat[Idle] \in {"ready", "running"}
  BY CoreIrq
<1>2. /\ Sound(ks, {}) /\ ks.cur = k.cur /\ ks.lock = 0
      /\ \A x \in Threads :
           ks.stat[x] = IF x # t THEN k.stat[x] ELSE IF t = k.cur THEN "running" ELSE "ready"
  BY <1>1 DEF WokenUp
<1>3. OnlyCurrentRuns(ks)
  BY <1>1, <1>2 DEF OnlyCurrentRuns
<1>4. ks.stat[Idle] \in {"ready", "running"}
  BY <1>1, <1>2, KernelAssumption
<1>5. ScheduleFacts(k', ks) /\ Unnoticed(k', ks)
  BY <1>1, <1>2, <1>3, ScheduleUnnoticed
<1>6. pc' \in [Threads -> ServicePCs] /\ \A x \in Threads : pc'[x] = pc[x]
  BY DEF CoreInv
<1>7. CoreInv'
  BY <1>1, <1>2, <1>3, <1>4, <1>5, <1>6, CoreSwitch
<1> QED BY <1>2, <1>5, <1>7 DEF ScheduleFacts, Settled

\* The timer of a waiting or sleeping thread expires.
LEMMA CoreTimeout ==
  ASSUME CoreInv, DeletersMask, NEW t \in Threads, TimeoutTick(t)
  PROVE  /\ CoreInv' /\ UNCHANGED <<pc, arg>> /\ k.stat[t] = "suspend" /\ Sound(k, {})
         /\ WokenUp(ThreadTimeout(k, t), k, t, "timeout")
         /\ Unnoticed(k', ThreadTimeout(k, t)) /\ Settled(k')
<1>1. /\ k' = RtSchedule(ThreadTimeout(k, t)) /\ UNCHANGED <<pc, arg>> /\ lazy' \in BOOLEAN
      /\ IrqEnabled /\ t \in k.timer
  BY DEF TimeoutTick, Scheduled, CoreInv
<1>2. Sound(k, {})
  BY <1>1, CoreIrq
<1>3. k.stat[t] = "suspend"
  BY <1>1, <1>2 DEF Sound, TimersSuspended
<1>4. WokenUp(ThreadTimeout(k, t), k, t, "timeout")
  BY <1>2, <1>3, TimeoutWakes
<1>5. CoreInv' /\ Unnoticed(k', ThreadTimeout(k, t)) /\ Settled(k')
  BY <1>1, <1>3, <1>4, CoreIsrWake
<1> QED BY <1>1, <1>2, <1>3, <1>4, <1>5

\* The running thread wakes another one and goes on at `label`.
LEMMA CoreWake ==
  ASSUME CoreInv, k.cur \in Workers, k.stat[k.cur] = "running", Sound(k, {}),
         NEW t \in Threads, k.stat[t] = "suspend", NEW err, WokenUp(k', k, t, err),
         pc' \in [Threads -> ServicePCs], \A x \in Threads \ {k.cur} : pc'[x] = pc[x],
         pc'[k.cur] # "delete", arg' \in [Threads -> ServiceArgs], lazy' \in BOOLEAN
  PROVE  CoreInv'
<1>1. k.cur \in Threads /\ k.cur # t /\ k.cur # NoThread
  BY KernelAssumption DEF Workers
<1>2. /\ OnlyCurrentRuns(k) /\ k.lock = 0 /\ k.stat[Idle] \in {"ready", "running"}
  BY <1>1 DEF CoreInv
<1>3. /\ Sound(k', {}) /\ k'.cur = k.cur /\ k'.lock = 0
      /\ \A x \in Threads : k'.stat[x] = IF x # t THEN k.stat[x] ELSE "ready"
  BY <1>1, <1>2 DEF WokenUp
<1>4. OnlyCurrentRuns(k') /\ k'.stat[k.cur] = "running"
  BY <1>1, <1>2, <1>3 DEF OnlyCurrentRuns
<1>5. k'.stat[Idle] \in {"ready", "running"}
  BY <1>2, <1>3, KernelAssumption
<1> QED BY <1>3, <1>4, <1>5, CoreQuiet

\* The running thread suspends itself in a list and is about to call rt_schedule.
LEMMA CoreBlock ==
  ASSUME CoreInv, k.cur \in Workers,
         NEW e, e.cur = k.cur, e.lock = k.lock, \A x \in Threads : e.stat[x] = k.stat[x],
         NEW q \in Queues, Blocked(k', e, q, k.cur),
         NEW l \in {"take", "wait"}, pc' = [pc EXCEPT ![k.cur] = l],
         arg' \in [Threads -> ServiceArgs], lazy' \in BOOLEAN
  PROVE  CoreInv'
<1>1. k.cur \in Threads /\ k.cur # Idle /\ k.cur # NoThread
  BY KernelAssumption DEF Workers
<1>2. OnlyCurrentRuns(k) /\ k.lock = 0 /\ k.stat[Idle] \in {"ready", "running"}
  BY <1>1 DEF CoreInv
<1>3. /\ Sound(k', {}) /\ k'.cur = k.cur /\ k'.lock = 0
      /\ \A x \in Threads : k'.stat[x] = IF x = k.cur THEN "suspend" ELSE k.stat[x]
  BY <1>1, <1>2 DEF Blocked
<1>4. OnlyCurrentRuns(k') /\ k'.stat[Idle] \in {"ready", "running"}
  BY <1>1, <1>2, <1>3, KernelAssumption DEF OnlyCurrentRuns
<1>5. /\ pc' \in [Threads -> ServicePCs] /\ pc'[k.cur] = l
      /\ \A x \in Threads \ {k.cur} : pc'[x] = pc[x]
  BY <1>1 DEF CoreInv, ServicePCs
<1> QED BY <1>3, <1>4, <1>5, CoreQuiet

\* rt_thread_delete up to rt_schedule_remove_thread
LEMMA CoreDelete ==
  ASSUME CoreInv, NEW t \in Workers, Delete(t, "delete")
  PROVE  /\ CoreInv' /\ UNCHANGED lazy
         /\ k.cur \in Workers /\ pc[k.cur] = "run" /\ t # k.cur
         /\ pc' = [pc EXCEPT ![k.cur] = "delete"] /\ arg' = [arg EXCEPT ![k.cur] = t]
         /\ k'.stat = k.stat /\ k'.error = k.error /\ k'.prio = k.prio /\ Sound(k, {})
         /\ k'.cur = k.cur
         /\ k.stat[t] \notin {"none", "close"}
         /\ \A q \in Queues : /\ On(k', q) = On(k, q) \ {t}
                              /\ k'.list[q] = RemoveFirst(k.list[q], t)
<1> DEFINE c == k.cur
<1>1. /\ c \in Workers /\ c \in Threads /\ pc[c] = "run" /\ k.stat[c] = "running"
      /\ Sound(k, {}) /\ OnlyCurrentRuns(k) /\ k.stat[Idle] \in {"ready", "running"}
      /\ k.lock = 0
  BY CoreInApp DEF Delete
<1>2. /\ k.stat[t] \notin {"none", "close"} /\ t \in Threads /\ t # c
      /\ k' = IF k.stat[t] = "init" THEN k ELSE ScheduleRemove(k, t)
      /\ pc' = [pc EXCEPT ![c] = "delete"] /\ arg' = [arg EXCEPT ![c] = t] /\ lazy' = lazy
  BY DEF Delete, Goto, Target, Self, Workers
<1>q. \A q \in Queues : q \in Lists
  BY DEF Lists
<1>3. /\ Sound(k', {t}) /\ Detached(k', t)
      /\ k'.stat = k.stat /\ k'.cur = k.cur /\ k'.lock = k.lock
      /\ k'.error = k.error /\ k'.prio = k.prio
      /\ \A q \in Queues : k'.list[q] = RemoveFirst(k.list[q], t)
      /\ \A q \in Queues : On(k', q) = On(k, q) \ {t}
  <2>1. CASE k.stat[t] = "init"
    <3>1. k' = k
      BY <1>2, <2>1
    <3>2. Detached(k, t)
      BY <1>1, <1>2, <2>1, WhereLinked
    <3>3. Sound(k, {t})
      BY <1>1 DEF Sound, ReadyThreadsQueued
    <3>4. \A q \in Queues : t \notin On(k, q) /\ RemoveFirst(k.list[q], t) = k.list[q]
      BY <1>1, <1>2, <2>1, LiveUnlisted
    <3> QED BY <3>1, <3>2, <3>3, <3>4
  <2>2. CASE k.stat[t] # "init"
    <3>1. k' = ScheduleRemove(k, t)
      BY <1>2, <2>2
    <3>2. /\ Sound(k', {} \cup {t}) /\ Detached(k', t) /\ SameButLists(k', k)
          /\ \A l \in Lists : On(k', l) = On(k, l) \ {t}
      BY <1>1, <1>2, <3>1, RemoveSound
    <3>3. {} \cup {t} = {t}
      OBVIOUS
    <3>4. \A l \in Lists : k'.list[l] = RemoveFirst(k.list[l], t)
      BY <1>1, <1>2, <3>1, RemoveLists DEF Sound
    <3> QED BY <1>q, <3>2, <3>3, <3>4 DEF SameButLists
  <2> QED BY <2>1, <2>2
<1>4. /\ pc' \in [Threads -> ServicePCs] /\ pc'[c] = "delete" /\ arg'[c] = t
      /\ \A x \in Threads \ {c} : pc'[x] = pc[x]
      /\ arg' \in [Threads -> ServiceArgs] /\ lazy' \in BOOLEAN
  BY <1>1, <1>2 DEF CoreInv, ServicePCs, ServiceArgs
<1>5. c # NoThread /\ c # Idle
  BY <1>1, KernelAssumption DEF Workers
<1>6. Limbo' = {t}
  BY <1>3, <1>4, <1>5 DEF Limbo, At, Running, Self
<1>7. OnlyCurrentRuns(k')
  BY <1>1, <1>3 DEF OnlyCurrentRuns
<1>8. \A x \in Threads \ {c} : pc'[x] \notin Held /\ pc'[x] # "delete"
  BY <1>4 DEF CoreInv, Held
<1>9. pc'[Idle] = "run"
  BY <1>4, <1>5, KernelAssumption DEF CoreInv
<1>10. CoreInv'
  BY <1>1, <1>2, <1>3, <1>4, <1>5, <1>6, <1>7, <1>8, <1>9 DEF CoreInv
<1> QED BY <1>1, <1>2, <1>3, <1>10

\* The rest of rt_thread_delete
LEMMA CoreDeleteEnd ==
  ASSUME CoreInv, DeleteEnd, NEW t, t = arg[k.cur]
  PROVE  /\ CoreInv' /\ UNCHANGED lazy
         /\ k.cur \in Workers /\ pc[k.cur] = "delete" /\ k.stat[k.cur] = "running"
         /\ t \in Workers /\ t # k.cur /\ k.stat[t] \notin {"none", "close"}
         /\ \A q \in Queues : t \notin On(k, q)
         /\ pc' = [pc EXCEPT ![k.cur] = "run"] /\ arg' = [arg EXCEPT ![k.cur] = NoThread]
         /\ k'.error = k.error /\ k'.prio = k.prio /\ k'.cur = k.cur
         /\ \A x \in Threads : k'.stat[x] = IF x = t THEN "close" ELSE k.stat[x]
         /\ \A q \in Queues : k'.list[q] = k.list[q]
<1> DEFINE c == k.cur
<1>1. /\ c \in Threads /\ pc[c] = "delete" /\ c # NoThread
  BY DEF DeleteEnd, At, Running, Self, CoreInv, Sound, KernelStates, ServicePCs
<1>2. /\ c \in Workers /\ k.stat[c] = "running" /\ OnlyCurrentRuns(k) /\ k.lock = 0
      /\ k.stat[Idle] \in {"ready", "running"}
      /\ t \in Workers /\ t # c /\ k.stat[t] \notin {"none", "close"} /\ Detached(k, t)
  BY <1>1 DEF CoreInv, Workers
<1>3. Sound(k, {t})
  <2>1. Limbo = {t}
    BY <1>1 DEF Limbo, At, Running, Self
  <2> QED BY <2>1 DEF CoreInv
<1>4. t \in Threads /\ t # Idle /\ \A q \in Queues : t \notin On(k, q)
  BY <1>2 DEF Workers, Detached, Lists
<1>5. /\ k' = ThreadClose(k, t) /\ lazy' = lazy
      /\ arg' = [arg EXCEPT ![c] = NoThread] /\ pc' = [pc EXCEPT ![c] = "run"]
  BY <1>1 DEF DeleteEnd, Target, Goto, Self
<1>6. /\ Sound(k', {t} \ {t}) /\ k'.prio = k.prio /\ k'.error = k.error
      /\ k'.cur = k.cur /\ k'.lock = k.lock
      /\ \A x \in Threads : k'.stat[x] = IF x = t THEN "close" ELSE k.stat[x]
  <2>1. PICK u \in Threads : u = t
    BY <1>4
  <2>2. Sound(k, {u}) /\ Detached(k, u) /\ k' = ThreadClose(k, u) /\ u # Idle
    BY <1>2, <1>3, <1>4, <1>5, <2>1
  <2>3. /\ Sound(k', {u} \ {u}) /\ k'.prio = k.prio /\ k'.error = k.error
        /\ k'.cur = k.cur /\ k'.lock = k.lock
        /\ \A x \in Threads : k'.stat[x] = IF x = u THEN "close" ELSE k.stat[x]
    BY <2>2, CloseSound
  <2> QED BY <2>1, <2>3
<1>7. \A q \in Queues : k'.list[q] = k.list[q]
  BY <1>3, <1>4, <1>5, CloseLists DEF Sound
<1>8. Sound(k', {})
  <2>1. {t} \ {t} = {}
    OBVIOUS
  <2> QED BY <1>6, <2>1
<1>9. OnlyCurrentRuns(k') /\ k'.stat[c] = "running" /\ k'.stat[Idle] \in {"ready", "running"}
  BY <1>1, <1>2, <1>4, <1>6, KernelAssumption DEF OnlyCurrentRuns
<1>10. /\ pc' \in [Threads -> ServicePCs] /\ pc'[c] = "run"
       /\ \A x \in Threads \ {c} : pc'[x] = pc[x]
       /\ arg' \in [Threads -> ServiceArgs] /\ lazy' \in BOOLEAN
  BY <1>1, <1>5 DEF CoreInv, ServicePCs, ServiceArgs
<1>11. CoreInv'
  BY <1>2, <1>6, <1>8, <1>9, <1>10, CoreQuiet
<1> QED BY <1>1, <1>2, <1>4, <1>5, <1>6, <1>7, <1>11

\* A step of the running thread that touches nothing of the kernel.
LEMMA CoreStay ==
  ASSUME CoreInv, k.cur \in Workers, k.stat[k.cur] = "running", Sound(k, {}), k' = k,
         pc' \in [Threads -> ServicePCs], \A x \in Threads \ {k.cur} : pc'[x] = pc[x],
         pc'[k.cur] # "delete", arg' \in [Threads -> ServiceArgs], lazy' \in BOOLEAN
  PROVE  CoreInv'
<1>1. k.cur \in Threads /\ k.cur # NoThread
  BY KernelAssumption DEF Workers
<1>2. OnlyCurrentRuns(k) /\ k.lock = 0 /\ k.stat[Idle] \in {"ready", "running"}
  BY <1>1 DEF CoreInv
<1> QED BY <1>2, CoreQuiet
\* A step of the running thread that changes its thread->error or its priority but no
\* state and no current thread.
LEMMA CoreAdjust ==
  ASSUME CoreInv, k.cur \in Workers, k.stat[k.cur] = "running", Sound(k', {}),
         k'.cur = k.cur, k'.lock = k.lock, \A x \in Threads : k'.stat[x] = k.stat[x],
         pc' \in [Threads -> ServicePCs], \A x \in Threads \ {k.cur} : pc'[x] = pc[x],
         pc'[k.cur] # "delete", arg' \in [Threads -> ServiceArgs], lazy' \in BOOLEAN
  PROVE  CoreInv'
<1>1. k.cur \in Threads /\ k.cur # NoThread
  BY KernelAssumption DEF Workers
<1>2. OnlyCurrentRuns(k) /\ k.lock = 0 /\ k.stat[Idle] \in {"ready", "running"}
  BY <1>1 DEF CoreInv
<1>3. OnlyCurrentRuns(k') /\ k'.stat[Idle] \in {"ready", "running"} /\ k'.stat[k.cur] = "running"
  BY <1>1, <1>2, KernelAssumption DEF OnlyCurrentRuns
<1> QED BY <1>2, <1>3, CoreQuiet
=============================================================================
