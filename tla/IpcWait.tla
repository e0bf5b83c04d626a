------------------------------ MODULE IpcWait -------------------------------
(***************************************************************************)
(* What the blocking objects of ipc.c and mempool.c share on top of the    *)
(* thread kernel: queueing up in a suspend list with or without a time     *)
(* limit, waking every waiter with -RT_ERROR (control RESET, detach and    *)
(* delete), and the deletion of a thread that is inside an operation.      *)
(*                                                                         *)
(*   obj     "live"; "dying" inside detach or delete; "dead"               *)
(*   drain   the suspend lists that reset, detach or delete has still to   *)
(*           empty                                                         *)
(*                                                                         *)
(* Labels of pc: "reset" in control RESET, which disables interrupts;      *)
(* "detach" and "wake" in the loop of _ipc_list_resume_all, before and     *)
(* after its test of the list, when it is called with interrupts enabled.  *)
(***************************************************************************)
EXTENDS RtThread

CONSTANT Flag   \* RT_IPC_FLAG_FIFO or RT_IPC_FLAG_PRIO

ASSUME FlagAssumption == Flag \in {"fifo", "prio"}

VARIABLES obj, drain

objVars == <<obj, drain>>

ObjInit == obj = "live" /\ drain = <<>>

Usable == obj = "live"

-----------------------------------------------------------------------------
\* Mutant of ListSuspend: the thread is queued but not suspended.
ListSuspendAwake(s, q, t) == LinkLast(s, q, t)

\* _ipc_list_suspend with the object's queueing policy
ListSuspend(s, q, t) ==
  IF Flag = "fifo" THEN ListSuspendFifo(s, q, t) ELSE ListSuspendPrio(s, q, t)

\* The calling thread queues up in list q; a finite time starts its timer.
Wait(s, q, finite) ==
  LET w == ListSuspend([s EXCEPT !.error[Self] = "ok"], q, Self)
  IN  IF finite THEN StartTimer(w, Self) ELSE w

\* Threads at one of `labels` that somebody made ready with thread->error left
\* RT_EOK: what they waited for is theirs to find.
WokenAt(labels) ==
  {t \in Threads : /\ pc[t] \in labels
                   /\ k.stat[t] \in {"ready", "running"}
                   /\ k.error[t] = "ok"}

-----------------------------------------------------------------------------
(* Control RESET: _ipc_list_resume_all called with interrupts disabled.    *)

StartReset(lists) ==
  /\ InApp /\ Usable
  /\ drain' = lists
  /\ Goto("reset")
  /\ UNCHANGED <<k, arg, lazy, obj>>

\* One waiter is woken with -RT_ERROR ...
ResetWake ==
  /\ At("reset")
  /\ drain # <<>> /\ k.list[Head(drain)] # <<>>
  /\ k' = ListResumeFailed(k, Head(drain))
  /\ UNCHANGED <<pc, arg, lazy, objVars>>

\* ... the next list is begun ...
ResetPass ==
  /\ At("reset")
  /\ drain # <<>> /\ k.list[Head(drain)] = <<>>
  /\ drain' = Tail(drain)
  /\ UNCHANGED <<vars, obj>>

WakeAll == ResetWake \/ ResetPass

\* ... and when all lists are empty the object is set up anew, and rt_schedule
\* follows
ResetDone ==
  /\ At("reset")
  /\ drain = <<>>
  /\ Goto("sched")
  /\ UNCHANGED <<k, arg, lazy, objVars>>

-----------------------------------------------------------------------------
(* detach and delete.                                                      *)

Detach(lists) ==
  /\ InApp /\ Usable
  /\ obj' = "dying"
  /\ drain' = lists
  /\ Goto("detach")
  /\ UNCHANGED <<k, arg, lazy>>

\* _ipc_list_resume_all: the list is tested before interrupts are disabled ...
DetachTest ==
  /\ At("detach")
  /\ drain # <<>> /\ k.list[Head(drain)] # <<>>
  /\ Goto("wake")
  /\ UNCHANGED <<k, arg, lazy, objVars>>

\* ... and its first thread is woken without another test.  Should the last waiter
\* have timed out in between, the system stops: the list head is taken for a thread,
\* and RT_ASSERT(rt_object_get_type(thread) == RT_Object_Class_Thread) of
\* rt_thread_resume fails (the run wake_race).
DetachWake ==
  /\ At("wake")
  /\ k.list[Head(drain)] # <<>>
  /\ k' = ListResumeFailed(k, Head(drain))
  /\ lazy' = TRUE
  /\ Goto("detach")
  /\ UNCHANGED <<arg, objVars>>

\* The next list, or rt_object_detach, rt_object_delete; no rt_schedule follows
DetachNext ==
  /\ At("detach")
  /\ drain # <<>> /\ k.list[Head(drain)] = <<>>
  /\ drain' = Tail(drain)
  /\ IF Len(drain) = 1 THEN obj' = "dead" /\ Goto("run")
                       ELSE UNCHANGED <<pc, obj>>
  /\ UNCHANGED <<k, arg, lazy>>

DetachLoop == DetachTest \/ DetachWake \/ DetachNext

-----------------------------------------------------------------------------
(* Properties.                                                             *)

\* The variables shared by the blocking objects keep their types.  (A mutex on the
\* same kernel keeps its suspend list in arg.)
WaitTypeOK ==
  /\ k \in KernelStates
  /\ arg \in [Threads -> Threads \cup Queues \cup {NoThread}]
  /\ lazy \in BOOLEAN
  /\ obj \in {"live", "dying", "dead"}
  /\ drain \in Seq(Queues)
=============================================================================
