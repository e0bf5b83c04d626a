------------------------------ MODULE MemPool -------------------------------
(***************************************************************************)
(* The memory pool of mempool.c: rt_mp_init/create, alloc, free and        *)
(* detach/delete, called by threads and by interrupt handlers.             *)
(*                                                                         *)
(*   count    block_free_count                                             *)
(*   free     the chain of free blocks from block_list                     *)
(*   out      the blocks that the application has                          *)
(*   finite   the threads that wait with a time limit                      *)
(*   lost     how many threads were deleted after they were woken and      *)
(*            before they looked again (history)                           *)
(*                                                                         *)
(* More labels of pc: "wait" and "back" in the loop of rt_mp_alloc, before *)
(* and after rt_schedule.                                                  *)
(***************************************************************************)
EXTENDS IpcWait

CONSTANTS
  Blocks,   \* the blocks of the pool
  Waiting   \* mp->suspend_thread

PoolAssumption == IsFiniteSet(Blocks) /\ Blocks # {} /\ Waiting \in Queues

VARIABLES count, free, out, finite, lost

poolVars == <<count, free, out>>
mpVars == <<poolVars, finite, lost>>

MpInit ==
  /\ Init /\ ObjInit
  /\ count = Cardinality(Blocks) /\ free = SetToSeq(Blocks) /\ out = {}
  /\ finite = {} /\ lost = 0

-----------------------------------------------------------------------------
(* rt_mp_alloc.                                                            *)

\* Mutant of Take: a block is taken, but not counted.
TakeUncounted ==
  /\ count > 0
  /\ free' = Tail(free)
  /\ out' = out \cup {Head(free)}
  /\ UNCHANGED count

\* The first block of the chain
Take ==
  /\ count > 0
  /\ count' = count - 1
  /\ free' = Tail(free)
  /\ out' = out \cup {Head(free)}

\* One time round the loop: the thread goes to the front of the suspend list
Queue(limit) ==
  LET s == LinkFirst(ThreadSuspend([k EXCEPT !.error[Self] = "ok"], Self), Waiting, Self)
  IN  /\ k' = IF limit THEN StartTimer(s, Self) ELSE s
      /\ finite' = IF limit THEN finite \cup {Self} ELSE finite \ {Self}
      /\ Goto("wait")
      /\ UNCHANGED <<arg, lazy, objVars, poolVars, lost>>

Alloc ==
  /\ InApp /\ Usable
  /\ Take
  /\ UNCHANGED <<vars, objVars, finite, lost>>

\* A call with time 0 leaves -RT_ETIMEOUT in the thread
AllocPoll ==
  /\ InApp /\ Usable /\ count = 0
  /\ k' = [k EXCEPT !.error[Self] = "timeout"]
  /\ UNCHANGED <<pc, arg, lazy, objVars, mpVars>>

AllocBlock(limit) == MayBlock /\ Usable /\ count = 0 /\ Queue(limit)

IsrAlloc ==
  /\ IrqEnabled /\ Usable
  /\ Take
  /\ UNCHANGED <<vars, objVars, finite, lost>>

WokenByFree == At("back") /\ k.error[Self] = "ok"

\* A thread that was woken by rt_mp_free looks again, and waits again if the
\* block has gone to somebody else
AllocRetry ==
  /\ WokenByFree
  /\ \/ Take /\ Goto("run") /\ UNCHANGED <<k, arg, lazy, objVars, finite, lost>>
     \/ count = 0 /\ Queue(Self \in finite)

\* ... or gives up if nothing is left of its time
AllocExpired ==
  /\ WokenByFree /\ count = 0 /\ Self \in finite
  /\ k' = [k EXCEPT !.error[Self] = "timeout"]
  /\ Goto("run")
  /\ UNCHANGED <<arg, lazy, objVars, mpVars>>

\* A timeout or a detach
AllocError ==
  /\ At("back") /\ k.error[Self] # "ok"
  /\ Goto("run")
  /\ UNCHANGED <<k, arg, lazy, objVars, mpVars>>

-----------------------------------------------------------------------------
(* rt_mp_free.                                                             *)

Give(b) ==
  /\ count' = count + 1
  /\ free' = <<b>> \o free
  /\ out' = out \ {b}

WakeFirst(s) ==
  IF s.list[Waiting] # <<>>
    THEN ThreadResume([s EXCEPT !.error[Head(s.list[Waiting])] = "ok"], Head(s.list[Waiting]))
    ELSE s

Free(b) ==
  /\ InApp /\ Usable /\ b \in out
  /\ Give(b)
  /\ k' = WakeFirst(k)
  /\ Goto(IF k.list[Waiting] # <<>> THEN "sched" ELSE "run")
  /\ UNCHANGED <<arg, lazy, objVars, finite, lost>>

IsrFree(b) ==
  /\ IrqEnabled /\ Usable /\ b \in out
  /\ Give(b)
  /\ IF k.list[Waiting] # <<>> THEN k' = RtSchedule(WakeFirst(k)) /\ Scheduled
                               ELSE UNCHANGED <<k, lazy>>
  /\ UNCHANGED <<pc, arg, objVars, finite, lost>>

-----------------------------------------------------------------------------
(* rt_mp_detach, rt_mp_delete and the deletion of a thread.                *)

\* Once no thread that was woken has still to look: it would look at a pool that
\* is gone
DetachPool ==
  /\ WokenAt({"wait", "back"}) = {}
  /\ Detach(<<Waiting>>)
  /\ UNCHANGED mpVars

\* rt_mp_init, rt_mp_create: all blocks are chained
InitPool ==
  /\ InApp /\ obj = "dead"
  /\ obj' = "live"
  /\ count' = Cardinality(Blocks) /\ free' = SetToSeq(Blocks) /\ out' = {}
  /\ UNCHANGED <<vars, drain, finite, lost>>

DeleteThreadEnd ==
  /\ DeleteEnd
  /\ lost' = IF arg[Self] \in WokenAt({"wait", "back"}) THEN lost + 1 ELSE lost
  /\ UNCHANGED <<objVars, poolVars, finite>>

-----------------------------------------------------------------------------
MpService ==
  \/ Alloc \/ AllocPoll \/ \E limit \in BOOLEAN : AllocBlock(limit)
  \/ \E b \in Blocks : Free(b)
  \/ DetachPool \/ InitPool
  \/ \E t \in Workers : Delete(t, "delete") /\ UNCHANGED <<objVars, mpVars>>

MpContinue ==
  \/ ScheduleFrom("wait", "back") /\ UNCHANGED <<objVars, mpVars>>
  \/ AllocRetry \/ AllocExpired \/ AllocError
  \/ Schedule /\ UNCHANGED <<objVars, mpVars>>
  \/ DetachLoop /\ UNCHANGED mpVars
  \/ DeleteThreadEnd

MpNext ==
  \/ Boot /\ UNCHANGED <<objVars, mpVars>>
  \/ MpService
  \/ MpContinue
  \/ IsrAlloc \/ \E b \in Blocks : IsrFree(b)
  \/ Tick /\ UNCHANGED <<objVars, mpVars>>

MpSpec == MpInit /\ [][MpNext]_<<vars, objVars, mpVars>>

-----------------------------------------------------------------------------
(* Properties.                                                             *)

\* Every variable keeps its type: block_free_count does not pass below 0.
MpTypeOK ==
  /\ WaitTypeOK
  /\ count \in 0 .. Cardinality(Blocks)
  /\ free \in Seq(Blocks)
  /\ out \subseteq Blocks
  /\ finite \subseteq Threads
  /\ lost \in Nat

\* Every block is either in the chain or with the application, once, and
\* block_free_count counts the chain: RT_ASSERT(block_ptr != RT_NULL).
BlocksConserved ==
  /\ count = Len(free)
  /\ IsInjective(free)
  /\ ToSet(free) \cap out = {}
  /\ ToSet(free) \cup out = Blocks

\* No thread is stranded: while one waits, each free block is spoken for by a
\* thread that was woken and has not looked yet (or was deleted before it could).
NoStrandedThread ==
  k.list[Waiting] # <<>> =>
    count <= Cardinality(WokenAt({"wait", "back"})) + lost
=============================================================================
