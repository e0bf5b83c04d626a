----------------------------- MODULE WaitQueue ------------------------------
(***************************************************************************)
(* The wait queue of waitqueue.c: rt_wqueue_wait and rt_wqueue_wakeup,     *)
(* called by threads; wakeup by interrupt handlers too.  Threads of equal  *)
(* priority preempt each other between critical sections, so the steps of  *)
(* different threads interleave freely.                                    *)
(*                                                                         *)
(*   wq[q]   flag (RT_WQ_FLAG_WAKEUP is set) and waiting_list, whose nodes *)
(*           are on the stacks of the threads that wait                    *)
(*   at[t]   the queue that thread t is in, or was in last                 *)
(*   pc[t]   "out"     outside                                             *)
(*           "asleep"  suspended in rt_wqueue_wait                         *)
(*           "awake"   made ready again, before it cleans the flag         *)
(*           "unlink"  before rt_wqueue_remove(&__wait)                    *)
(*   timer   threads whose timer runs                                      *)
(***************************************************************************)
EXTENDS Naturals, Sequences, SequencesExt, FiniteSets

CONSTANTS
  Threads,
  Queues,
  Finite     \* the kinds of time limit in use: FALSE is RT_WAITING_FOREVER

WaitQueueAssumption == Finite \subseteq BOOLEAN

VARIABLES wq, at, pc, timer

wqVars == <<wq, at, pc, timer>>

WqInit ==
  /\ wq = [q \in Queues |-> [flag |-> FALSE, nodes |-> <<>>]]
  /\ at \in [Threads -> Queues]
  /\ pc = [t \in Threads |-> "out"]
  /\ timer = {}

Goto(t, label) == pc' = [pc EXCEPT ![t] = label]

-----------------------------------------------------------------------------
(* rt_wqueue_wait, called at label `from` and returning to label `to`.     *)

\* "Already wakeup"
WaitNow(t, q, from, to) ==
  /\ pc[t] = from /\ wq[q].flag
  /\ wq' = [wq EXCEPT ![q].flag = FALSE]
  /\ Goto(t, to)
  /\ UNCHANGED <<at, timer>>

WaitBlock(t, q, finite, from) ==
  /\ pc[t] = from /\ ~wq[q].flag
  /\ wq' = [wq EXCEPT ![q].nodes = Append(@, t)]
  /\ at' = [at EXCEPT ![t] = q]
  /\ timer' = IF finite THEN timer \cup {t} ELSE timer
  /\ Goto(t, "asleep")

\* _thread_timeout: the node stays in the list
Timeout(t) ==
  /\ t \in timer /\ pc[t] = "asleep"
  /\ timer' = timer \ {t}
  /\ Goto(t, "awake")
  /\ UNCHANGED <<wq, at>>

Clean(t) ==
  /\ pc[t] = "awake"
  /\ wq' = [wq EXCEPT ![at[t]].flag = FALSE]
  /\ Goto(t, "unlink")
  /\ UNCHANGED <<at, timer>>

\* Mutant of Unlink: the node is left to rt_wqueue_wakeup.
UnlinkNot(t, to) ==
  /\ pc[t] = "unlink"
  /\ Goto(t, to)
  /\ UNCHANGED <<wq, at, timer>>

Unlink(t, to) ==
  /\ pc[t] = "unlink"
  /\ wq' = [wq EXCEPT ![at[t]].nodes = RemoveFirst(@, t)]
  /\ Goto(t, to)
  /\ UNCHANGED <<at, timer>>

-----------------------------------------------------------------------------
\* rt_wqueue_wakeup, by a caller that moves pc to p: the first node goes, and its
\* thread is resumed if it is suspended
Wakeup(q, p) ==
  LET nodes == wq[q].nodes
      t == Head(nodes)
  IN  /\ wq' = [wq EXCEPT ![q].flag = TRUE, ![q].nodes = IF @ = <<>> THEN @ ELSE Tail(@)]
      /\ IF nodes # <<>> /\ p[t] = "asleep"
           THEN pc' = [p EXCEPT ![t] = "awake"] /\ timer' = timer \ {t}
           ELSE pc' = p /\ UNCHANGED timer
      /\ UNCHANGED at

-----------------------------------------------------------------------------
WqNext ==
  \/ \E t \in Threads, q \in Queues :
        \/ WaitNow(t, q, "out", "out")
        \/ \E finite \in Finite : WaitBlock(t, q, finite, "out")
  \/ \E t \in Threads : Timeout(t) \/ Clean(t) \/ Unlink(t, "out")
  \/ \E q \in Queues : Wakeup(q, pc)

WqSpec == WqInit /\ [][WqNext]_wqVars

-----------------------------------------------------------------------------
(* Properties.                                                             *)

Inside == {"asleep", "awake", "unlink"}

\* Every variable keeps its type, and timers run for threads that sleep only.
WqTypeOK ==
  /\ wq \in [Queues -> [flag : BOOLEAN, nodes : Seq(Threads)]]
  /\ at \in [Threads -> Queues]
  /\ timer \subseteq {t \in Threads : pc[t] = "asleep"}

\* A node lives on the stack of a thread that is still inside rt_wqueue_wait, in
\* one list and once; a thread that sleeps has a node by which it can be found.
NodesLive ==
  /\ \A q \in Queues : \A i, j \in DOMAIN wq[q].nodes :
        LET t == wq[q].nodes[i]
        IN  /\ pc[t] \in Inside /\ at[t] = q
            /\ wq[q].nodes[j] = t => i = j
  /\ \A t \in Threads : pc[t] = "asleep" => t \in ToSet(wq[at[t]].nodes)
=============================================================================
