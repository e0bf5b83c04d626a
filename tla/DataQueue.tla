----------------------------- MODULE DataQueue ------------------------------
(***************************************************************************)
(* The data queue of dataqueue.c: push, pop and reset, called by threads,  *)
(* and push and pop without waiting by interrupt handlers.                 *)
(*                                                                         *)
(*   dq       the ring: queue, get_index, put_index, is_empty, is_full     *)
(*                                                                         *)
(* Receivers is suspended_pop_list, Senders is suspended_push_list.  The   *)
(* object is never detached, so `drain` only lists what rt_data_queue_reset*)
(* has still to empty.                                                     *)
(*                                                                         *)
(* One more label of pc: "lock" in rt_data_queue_reset, before             *)
(* rt_enter_critical.                                                      *)
(***************************************************************************)
EXTENDS IpcQueue

CONSTANTS
  Size,   \* queue->size
  LWM     \* queue->lwm, the low water mark

RingAssumption == Size \in Nat \ {0} /\ LWM \in Nat

VARIABLE dq

dqVars == <<dq, call, lost>>

Places == 0 .. Size - 1

DqInit ==
  /\ QueueInit
  /\ dq = [queue |-> [i \in Places |-> Unset], get |-> 0, put |-> 0,
           empty |-> TRUE, full |-> FALSE]

-----------------------------------------------------------------------------
(* The ring.                                                               *)

Following(i) == IF i + 1 = Size THEN 0 ELSE i + 1

\* Mutant of Put: the ring is full one item too early.
PutShort(q, v) ==
  LET put == Following(q.put)
  IN  [q EXCEPT !.queue[q.put] = v, !.put = put, !.empty = FALSE,
                !.full = (Following(put) = q.get)]

Put(q, v) ==
  LET put == Following(q.put)
  IN  [q EXCEPT !.queue[q.put] = v, !.put = put, !.empty = FALSE,
                !.full = (@ \/ put = q.get)]

\* Mutant of Get: the newest item is taken.
GetNewest(q) ==
  LET put == (q.put + Size - 1) % Size
  IN  [q EXCEPT !.put = put, !.full = FALSE, !.empty = (@ \/ put = q.get)]

Get(q) ==
  LET get == Following(q.get)
  IN  [q EXCEPT !.get = get, !.full = FALSE, !.empty = (@ \/ q.put = get)]

\* rt_data_queue_len
Count(q) == IF q.put > q.get THEN q.put - q.get ELSE Size + q.put - q.get

QueueLen(q) == IF q.empty THEN 0 ELSE Count(q)

\* The items in the queue, oldest first
Contents(q) == [i \in 1 .. QueueLen(q) |-> q.queue[(q.get + i - 1) % Size]]

-----------------------------------------------------------------------------
(* rt_data_queue_push and rt_data_queue_pop.  A thread that is woken looks *)
(* again, and waits again with its whole time if it has to.                *)

PushNow(v) == ~dq.full /\ dq' = Put(dq, v) /\ Finish(Receivers)

\* Mutant of AtMark: the mark is tested before the item is taken out.
AtMarkEarly(q) == QueueLen(q) + 1 <= LWM

\* A pop wakes a thread that waits to push only at the low water mark
AtMark(q) == QueueLen(q) <= LWM

PopNow ==
  /\ ~dq.empty
  /\ dq' = Get(dq)
  /\ \/ AtMark(dq') /\ Finish(Senders)
     \/ /\ ~AtMark(dq')
        /\ Goto("run") /\ Returned
        /\ UNCHANGED <<k, arg, lazy, objVars, lost>>

Push(v) == InApp /\ PushNow(v)
Pop == InApp /\ PopNow

PushBlock(v, finite) ==
  /\ MayBlock /\ dq.full
  /\ Block(Senders, CallTo("send", finite, v))
  /\ UNCHANGED dq

PopBlock(finite) ==
  /\ MayBlock /\ dq.empty
  /\ Block(Receivers, CallTo("recv", finite, Unset))
  /\ UNCHANGED dq

RetryPush ==
  /\ Retrying("send")
  /\ \/ PushNow(call[Self].value)
     \/ dq.full /\ Block(Senders, call[Self]) /\ UNCHANGED dq

RetryPop ==
  /\ Retrying("recv")
  /\ \/ PopNow
     \/ dq.empty /\ Block(Receivers, call[Self]) /\ UNCHANGED dq

IsrPush(v) ==
  /\ IrqEnabled /\ ~dq.full
  /\ dq' = Put(dq, v)
  /\ IsrFinish(Receivers)

IsrPop ==
  /\ IrqEnabled /\ ~dq.empty
  /\ dq' = Get(dq)
  /\ \/ AtMark(dq') /\ IsrFinish(Senders)
     \/ ~AtMark(dq') /\ UNCHANGED <<vars, objVars, call, lost>>

-----------------------------------------------------------------------------
(* rt_data_queue_reset.                                                    *)

ResetRing ==
  /\ InApp
  /\ dq' = [dq EXCEPT !.get = 0, !.put = 0, !.empty = TRUE, !.full = FALSE]
  /\ Goto("lock")
  /\ UNCHANGED <<k, arg, lazy, objVars, call, lost>>

\* rt_enter_critical: another thread may have run since
ResetLock ==
  /\ At("lock")
  /\ k' = [k EXCEPT !.lock = @ + 1]
  /\ drain' = <<Receivers, Senders>>
  /\ Goto("detach")
  /\ UNCHANGED <<arg, lazy, obj, dqVars>>

\* The next list, or rt_exit_critical and rt_schedule
ResetNext ==
  /\ At("detach") /\ k.list[Head(drain)] = <<>>
  /\ drain' = Tail(drain)
  /\ IF Len(drain) = 1 THEN k' = [k EXCEPT !.lock = @ - 1] /\ Goto("sched")
                       ELSE UNCHANGED <<k, pc>>
  /\ UNCHANGED <<arg, lazy, obj, dqVars>>

ResetLoop == ((DetachTest \/ DetachWake) /\ UNCHANGED dqVars) \/ ResetNext

-----------------------------------------------------------------------------
DqService ==
  \/ \E v \in Values : Push(v) \/ \E finite \in BOOLEAN : PushBlock(v, finite)
  \/ Pop \/ \E finite \in BOOLEAN : PopBlock(finite)
  \/ ResetRing
  \/ \E t \in Workers : Delete(t, "delete") /\ UNCHANGED <<objVars, dqVars>>

DqContinue ==
  \/ ScheduleFrom("wait", "back") /\ UNCHANGED <<objVars, dqVars>>
  \/ ReturnError /\ UNCHANGED dq
  \/ RetryPush \/ RetryPop
  \/ ResetLock \/ ResetLoop
  \/ Schedule /\ UNCHANGED <<objVars, dqVars>>
  \/ DeleteThreadEnd /\ UNCHANGED dq

DqNext ==
  \/ Boot /\ UNCHANGED <<objVars, dqVars>>
  \/ DqService
  \/ DqContinue
  \/ IsrPop \/ \E v \in Values : IsrPush(v)
  \/ Tick /\ UNCHANGED <<objVars, dqVars>>

DqSpec == DqInit /\ [][DqNext]_<<vars, objVars, dqVars>>

-----------------------------------------------------------------------------
(* Properties.                                                             *)

\* Every variable keeps its type: the indices stay in the ring.
DqTypeOK ==
  /\ QueueTypeOK
  /\ dq \in [queue : [Places -> Values \cup {Unset}], get : Places, put : Places,
             empty : BOOLEAN, full : BOOLEAN]

\* The two flags tell apart what the two indices cannot: a ring whose indices
\* differ is neither empty nor full, one whose indices agree is one of both.
FlagsAgree ==
  /\ ~(dq.empty /\ dq.full)
  /\ (dq.put = dq.get) <=> (dq.empty \/ dq.full)

\* rt_data_queue_push and rt_data_queue_pop: items leave in the order they came,
\* and nothing else than a reset loses any.
FirstInFirstOut ==
  [][\/ Contents(dq') \in {Contents(dq), <<>>}
     \/ Contents(dq) # <<>> /\ Contents(dq') = Tail(Contents(dq))
     \/ \E v \in Values : Contents(dq') = Append(Contents(dq), v)]_<<dq>>

\* While a thread waits to pop, each item is spoken for by a thread that was
\* woken and has not looked yet (or was deleted before it could).
NoStrandedReceiver ==
  k.list[Receivers] # <<>> =>
    QueueLen(dq) <= Cardinality(WokenFor("recv")) + lost["recv"]

\* A reset has emptied the ring and has still to wake those who wait.
Resetting == \E t \in Threads : pc[t] \in {"lock", "detach", "wake"}

\* While a thread waits to push, each place that the queue is below its low water
\* mark is spoken for, or a reset is on its way to wake the thread.  With
\* NoStrandedReceiver: the two sides never wait for each other.
NoStrandedSender ==
  k.list[Senders] # <<>> /\ ~Resetting =>
    LWM + 1 - QueueLen(dq) <= Cardinality(WokenFor("send")) + lost["send"]
=============================================================================
