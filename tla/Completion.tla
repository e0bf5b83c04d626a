----------------------------- MODULE Completion -----------------------------
(***************************************************************************)
(* The completion of completion.c: rt_completion_wait and                  *)
(* rt_completion_done, called by threads; done by interrupt handlers too.  *)
(* Threads of equal priority preempt each other between critical sections, *)
(* so the steps of different threads interleave freely.                    *)
(*                                                                         *)
(*   flag    the completion is RT_COMPLETED                                *)
(*   list    suspended_list                                                *)
(*   pc[t]   "out"     outside                                             *)
(*           "asleep"  suspended in rt_completion_wait                     *)
(*           "awake"   made ready again, before it clears the flag         *)
(*           "done"    in rt_completion_done, past its test of the flag    *)
(*   timer   threads whose timer runs                                      *)
(*   late    threads that were made ready by their timer                   *)
(*   owed    a done has happened and no wait has returned RT_EOK since     *)
(*           (history)                                                     *)
(***************************************************************************)
EXTENDS Naturals, Sequences, SequencesExt

CONSTANTS
  Threads,
  Waiters,   \* the threads that wait
  Finite     \* the kinds of time limit in use: FALSE is RT_WAITING_FOREVER

CompletionAssumption == Waiters \subseteq Threads /\ Finite \subseteq BOOLEAN

VARIABLES flag, list, pc, timer, late, owed

vars == <<flag, list, pc, timer, late, owed>>

\* rt_completion_init
Init ==
  /\ flag = FALSE /\ list = <<>>
  /\ pc = [t \in Threads |-> "out"]
  /\ timer = {} /\ late = {}
  /\ owed = FALSE

Goto(t, label) == pc' = [pc EXCEPT ![t] = label]

-----------------------------------------------------------------------------
(* rt_completion_wait.                                                     *)

WaitNow(t) ==
  /\ pc[t] = "out" /\ flag
  /\ flag' = FALSE
  /\ owed' = FALSE
  /\ UNCHANGED <<list, pc, timer, late>>

\* RT_ASSERT(rt_list_isempty(&(completion->suspended_list))): the callers see to
\* it that only one of them waits.  A time of 0 returns -RT_ETIMEOUT instead.
WaitBlock(t, finite) ==
  /\ pc[t] = "out" /\ ~flag /\ list = <<>>
  /\ list' = Append(list, t)
  /\ timer' = IF finite THEN timer \cup {t} ELSE timer
  /\ Goto(t, "asleep")
  /\ UNCHANGED <<flag, late, owed>>

\* _thread_timeout: thread->error is -RT_ETIMEOUT
Timeout(t) ==
  /\ t \in timer /\ pc[t] = "asleep"
  /\ timer' = timer \ {t}
  /\ late' = late \cup {t}
  /\ list' = RemoveFirst(list, t)
  /\ Goto(t, "awake")
  /\ UNCHANGED <<flag, owed>>

\* Mutant of WaitReturn: the flag is not cleaned.
WaitReturnSet(t) ==
  /\ pc[t] = "awake"
  /\ owed' = (owed /\ t \in late)
  /\ late' = late \ {t}
  /\ Goto(t, "out")
  /\ UNCHANGED <<flag, list, timer>>

\* The flag is cleaned, whether the wait returns RT_EOK or -RT_ETIMEOUT
WaitReturn(t) ==
  /\ pc[t] = "awake"
  /\ flag' = FALSE
  /\ owed' = (owed /\ t \in late)
  /\ late' = late \ {t}
  /\ Goto(t, "out")
  /\ UNCHANGED <<list, timer>>

-----------------------------------------------------------------------------
(* rt_completion_done.                                                     *)

\* The flag is tested with interrupts enabled
DoneTest(t) ==
  /\ pc[t] = "out" /\ ~flag
  /\ Goto(t, "done")
  /\ UNCHANGED <<flag, list, timer, late, owed>>

\* Mutants of Resume: nobody is resumed; the timer runs on.
ResumeNobody(p) == pc' = p /\ UNCHANGED <<list, timer>>

ResumeTimerOn(p) ==
  IF list = <<>>
    THEN pc' = p /\ UNCHANGED <<list, timer>>
    ELSE /\ pc' = [p EXCEPT ![Head(list)] = "awake"]
         /\ list' = Tail(list)
         /\ UNCHANGED timer

\* The first thread of the list is resumed, which stops its timer
Resume(p) ==
  IF list = <<>>
    THEN pc' = p /\ UNCHANGED <<list, timer>>
    ELSE /\ pc' = [p EXCEPT ![Head(list)] = "awake"]
         /\ list' = Tail(list)
         /\ timer' = timer \ {Head(list)}

DoneSet(t) ==
  /\ pc[t] = "done"
  /\ flag' = TRUE /\ owed' = TRUE
  /\ Resume([pc EXCEPT ![t] = "out"])
  /\ UNCHANGED late

\* In an interrupt handler nothing comes between the test and the rest
IsrDone ==
  /\ ~flag
  /\ flag' = TRUE /\ owed' = TRUE
  /\ Resume(pc)
  /\ UNCHANGED late

-----------------------------------------------------------------------------
Next ==
  \/ \E t \in Waiters :
        \/ WaitNow(t) \/ \E finite \in Finite : WaitBlock(t, finite)
        \/ WaitReturn(t)
  \/ \E t \in Threads : Timeout(t) \/ DoneTest(t) \/ DoneSet(t)
  \/ IsrDone

Spec == Init /\ [][Next]_vars

-----------------------------------------------------------------------------
(* Properties.                                                             *)

\* Every variable keeps its type, and timers run for threads that sleep only.
TypeOK ==
  /\ flag \in BOOLEAN /\ owed \in BOOLEAN
  /\ list \in Seq(Waiters)
  /\ pc \in [Threads -> {"out", "asleep", "awake", "done"}]
  /\ timer \subseteq {t \in Waiters : pc[t] = "asleep"}
  /\ late \subseteq Waiters

\* No wait sleeps through a completion: rt_completion_done finds the thread in
\* the list, whatever its stale test of the flag saw, and nobody goes to sleep
\* while the flag is set.
NoneSleepsThrough ==
  flag => list = <<>> /\ \A t \in Threads : pc[t] # "asleep"

\* Only a completion makes a wait return RT_EOK, and only once.
OkMeansDone ==
  [][\A t \in Waiters : WaitNow(t) \/ (WaitReturn(t) /\ t \notin late) => owed]_vars
=============================================================================
