------------------------------ MODULE IpcQueue ------------------------------
(***************************************************************************)
(* What mailboxes and message queues share: two suspend lists, operations  *)
(* that wait in a loop and look again each time they are woken, with what  *)
(* is left of their time, and the wakeup of one waiter of the other side.  *)
(*                                                                         *)
(*   call[t]   the call thread t is in: its operation, whether its timeout *)
(*             is finite and the message it sends                          *)
(*   lost      threads deleted after they were woken and before they       *)
(*             looked again, for each operation                            *)
(*                                                                         *)
(* More labels of pc: "wait" and "back" in the loop, before and after      *)
(* rt_schedule.                                                            *)
(***************************************************************************)
EXTENDS IpcWait

CONSTANTS
  Receivers,  \* parent.suspend_thread
  Senders,    \* suspend_sender_thread
  Values,     \* what is sent
  Unset       \* content of a place that nothing was written to

ASSUME QueueAssumption ==
  /\ Receivers \in Queues /\ Senders \in Queues /\ Receivers # Senders
  /\ Unset \notin Values

VARIABLES call, lost

NoCall == [op |-> "none", finite |-> FALSE, value |-> Unset]

CallTo(op, finite, value) == [op |-> op, finite |-> finite, value |-> value]

QueueInit ==
  /\ Init /\ ObjInit
  /\ call = [t \in Threads |-> NoCall]
  /\ lost = [send |-> 0, recv |-> 0]

Returned == call' = [call EXCEPT ![Self] = NoCall]

-----------------------------------------------------------------------------
(* The end of an operation: one waiter of the other side is woken.         *)

\* Mutants of WakeFirst: everybody is woken; nobody while another thread that was
\* woken has not run yet.
WakeEverybody(s, q) == FoldLeft(ThreadResume, s, s.list[q])
WakeFirstOfBurst(s, q) ==
  IF s.list[q] # <<>> /\ WokenAt({"wait", "back"}) = {} THEN ListResume(s, q) ELSE s

WakeFirst(s, q) == IF s.list[q] # <<>> THEN ListResume(s, q) ELSE s

\* In a thread: rt_schedule follows if somebody was woken
Finish(q) ==
  /\ k' = WakeFirst(k, q)
  /\ Goto(IF k.list[q] # <<>> THEN "sched" ELSE "run")
  /\ Returned
  /\ UNCHANGED <<arg, lazy, objVars, lost>>

\* In an interrupt handler
IsrFinish(q) ==
  /\ IF k.list[q] # <<>> THEN k' = RtSchedule(WakeFirst(k, q)) /\ Scheduled
                         ELSE UNCHANGED <<k, lazy>>
  /\ UNCHANGED <<pc, arg, objVars, call, lost>>

-----------------------------------------------------------------------------
(* The loop.                                                               *)

\* One time round: the thread queues up in list q
Block(q, c) ==
  /\ k' = Wait(k, q, c.finite)
  /\ call' = [call EXCEPT ![Self] = c]
  /\ Goto("wait")
  /\ UNCHANGED <<arg, lazy, objVars, lost>>

\* A thread that was woken by a timeout, a reset or a detach returns the error
ReturnError ==
  /\ At("back")
  /\ k.error[Self] # "ok"
  /\ Goto("run")
  /\ Returned
  /\ UNCHANGED <<k, arg, lazy, objVars, lost>>

\* A thread that was woken by the other side looks again: what woke it may have
\* gone to somebody else
Retrying(op) == At("back") /\ k.error[Self] = "ok" /\ call[Self].op = op

\* It gives up if it has to wait again and nothing is left of its time.  Only
\* rt_mb_recv and rt_mq_recv leave the error in the thread.
Expire(op) ==
  /\ Retrying(op)
  /\ call[Self].finite
  /\ k' = [k EXCEPT !.error[Self] = IF op = "recv" THEN "timeout" ELSE @]
  /\ Goto("run")
  /\ Returned
  /\ UNCHANGED <<arg, lazy, objVars, lost>>

\* Threads woken by the other side that have not looked yet
WokenFor(op) == {t \in WokenAt({"wait", "back"}) : call[t].op = op}

\* rt_thread_delete of a thread that may be inside: what woke it wakes nobody else
DeleteThreadEnd ==
  /\ DeleteEnd
  /\ lost' = [op \in {"send", "recv"} |->
                IF arg[Self] \in WokenFor(op) THEN lost[op] + 1 ELSE lost[op]]
  /\ UNCHANGED <<objVars, call>>

\* The variables shared by the queues keep their types.
QueueTypeOK ==
  /\ WaitTypeOK
  /\ call \in [Threads -> [op : {"none", "send", "urgent", "recv"},
                           finite : BOOLEAN, value : Values \cup {Unset}]]
  /\ lost \in [{"send", "recv"} -> Nat]
=============================================================================
