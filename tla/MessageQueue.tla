---------------------------- MODULE MessageQueue ----------------------------
(***************************************************************************)
(* The message queue of ipc.c: rt_mq_init/create, send_wait, send, urgent, *)
(* recv, control RESET and detach/delete.  A send takes a buffer from the  *)
(* free list, copies the message with interrupts enabled and links the     *)
(* buffer; a receive unlinks a buffer, copies and frees it.                *)
(*                                                                         *)
(*   mq        the linked lists: msg_queue_head, msg_queue_tail,           *)
(*             msg_queue_free, the next field and content of each buffer,  *)
(*             and entry                                                   *)
(*   hold[t]   the buffer thread t has in hand (the local msg)             *)
(*                                                                         *)
(* More labels of pc: "copyin" and "link" in a send, before and after the  *)
(* copy; "copyout" and "free" in a receive, likewise.  call[t].value is    *)
(* the message a sender passed, and for a receiver what the buffer held    *)
(* when it was unlinked.                                                   *)
(***************************************************************************)
EXTENDS IpcQueue

CONSTANTS MaxMsgs,  \* mq->max_msgs
          Null      \* RT_NULL

Nodes == 1 .. MaxMsgs

MessageQueueAssumption == MaxMsgs \in Nat \ {0} /\ Null \notin Nodes

VARIABLES mq, hold

mqVars == <<mq, hold, call, lost>>

Pointers == Nodes \cup {Null}

\* The buffers are pushed onto the free list one after the other.
EmptyQueue ==
  [head |-> Null, tail |-> Null, free |-> MaxMsgs, entry |-> 0,
   next |-> [n \in Nodes |-> IF n = 1 THEN Null ELSE n - 1],
   data |-> [n \in Nodes |-> Unset]]

MqInit ==
  /\ QueueInit
  /\ mq = EmptyQueue
  /\ hold = [t \in Threads |-> Null]

-----------------------------------------------------------------------------
(* The critical sections, on the queue q.                                  *)

TakeFree(q) == [q EXCEPT !.free = q.next[q.free]]

\* The copy of a send, which also makes msg->next RT_NULL; an urgent one does
\* not touch msg->next.
CopyIn(q, n, v, op) ==
  [q EXCEPT !.data[n] = v, !.next[n] = IF op = "send" THEN Null ELSE @]

LinkLastMsg(q, n) ==
  [q EXCEPT !.next = IF q.tail # Null THEN [@ EXCEPT ![q.tail] = n] ELSE @,
            !.tail = n,
            !.head = IF @ = Null THEN n ELSE @,
            !.entry = @ + 1]

LinkUrgent(q, n) ==
  [q EXCEPT !.next[n] = q.head,
            !.head = n,
            !.tail = IF @ = Null THEN n ELSE @,
            !.entry = @ + 1]

\* Mutant of Link: the message is put first, urgent or not.
LinkFirstAlways(q, n, op) == LinkUrgent(q, n)

Link(q, n, op) == IF op = "urgent" THEN LinkUrgent(q, n) ELSE LinkLastMsg(q, n)

\* Mutant of UnlinkHead: the tail is not cleared when the last message goes.
UnlinkHeadTailLeft(q) == [q EXCEPT !.head = q.next[q.head], !.entry = @ - 1]

UnlinkHead(q) ==
  [q EXCEPT !.head = q.next[q.head],
            !.tail = IF @ = q.head THEN Null ELSE @,
            !.entry = @ - 1]

\* rt_mq_recv and control RESET leave the content of a buffer as it is; nothing may
\* read it before the next copy, and Unset is no sender's message (CopiesIntact).
FreeMsg(q, n) ==
  [q EXCEPT !.next[n] = q.free, !.free = n, !.data[n] = Unset]

\* The buffers linked from n on.  A list longer than the pool is a cycle.
Chain(q, n) ==
  LET from[i \in 0 .. MaxMsgs + 1] ==
        IF i = 0 THEN n
        ELSE LET p == from[i - 1] IN IF p = Null THEN Null ELSE q.next[p]
      len == Cardinality({i \in 0 .. MaxMsgs + 1 : from[i] # Null})
  IN  [i \in 1 .. len |-> from[i - 1]]

\* RT_IPC_CMD_RESET: every queued message goes to the free list
FreeAll(q) ==
  [FoldLeft(LAMBDA x, n : FreeMsg(UnlinkHead(x), n), q, Chain(q, q.head))
     EXCEPT !.entry = 0]

Full == mq.free = Null
Empty == mq.entry = 0

-----------------------------------------------------------------------------
(* rt_mq_send_wait, rt_mq_urgent.  A call with timeout 0 that cannot       *)
(* proceed returns -RT_EFULL or -RT_ETIMEOUT and changes nothing.          *)

Begin(label, c, n) ==
  /\ Goto(label)
  /\ call' = [call EXCEPT ![Self] = c]
  /\ hold' = [hold EXCEPT ![Self] = n]
  /\ UNCHANGED <<k, arg, lazy, objVars, lost>>

\* A free buffer is taken ...
SendNow(c) ==
  /\ ~Full
  /\ mq' = TakeFree(mq)
  /\ Begin("copyin", c, mq.free)

Send(op, v) == InApp /\ Usable /\ SendNow(CallTo(op, FALSE, v))

\* Mutant of SendCopy: the buffer is looked up in the free list again.
SendCopyFree ==
  /\ At("copyin")
  /\ mq' = CopyIn(mq, IF Full THEN hold[Self] ELSE mq.free, call[Self].value,
                  call[Self].op)
  /\ Goto("link")
  /\ UNCHANGED <<k, arg, lazy, objVars, hold, call, lost>>

\* ... filled with interrupts enabled ...
SendCopy ==
  /\ At("copyin")
  /\ mq' = CopyIn(mq, hold[Self], call[Self].value, call[Self].op)
  /\ Goto("link")
  /\ UNCHANGED <<k, arg, lazy, objVars, hold, call, lost>>

\* ... and linked
SendLink ==
  /\ At("link")
  /\ mq' = Link(mq, hold[Self], call[Self].op)
  /\ hold' = [hold EXCEPT ![Self] = Null]
  /\ Finish(Receivers)

SendBlock(v, finite) ==
  /\ MayBlock /\ Usable /\ Full
  /\ Block(Senders, CallTo("send", finite, v))
  /\ UNCHANGED <<mq, hold>>

RetrySend ==
  /\ Retrying("send")
  /\ \/ SendNow(call[Self])
     \/ Full /\ Block(Senders, call[Self]) /\ UNCHANGED <<mq, hold>>

-----------------------------------------------------------------------------
(* rt_mq_recv.                                                             *)

\* Mutant of RecvNow: the buffer is freed before it is copied.
RecvNowFreed ==
  /\ ~Empty
  /\ mq' = FreeMsg(UnlinkHead(mq), mq.head)
  /\ Begin("copyout", CallTo("recv", FALSE, mq.data[mq.head]), mq.head)

\* The first buffer is unlinked ...
RecvNow ==
  /\ ~Empty
  /\ mq' = UnlinkHead(mq)
  /\ Begin("copyout", CallTo("recv", FALSE, mq.data[mq.head]), mq.head)

Recv == InApp /\ Usable /\ RecvNow

\* ... copied with interrupts enabled ...
RecvCopy ==
  /\ At("copyout")
  /\ Goto("free")
  /\ UNCHANGED <<k, arg, lazy, objVars, mqVars>>

\* ... and put back into the free list
RecvFree ==
  /\ At("free")
  /\ mq' = FreeMsg(mq, hold[Self])
  /\ hold' = [hold EXCEPT ![Self] = Null]
  /\ Finish(Senders)

RecvBlock(finite) ==
  /\ MayBlock /\ Usable /\ Empty
  /\ Block(Receivers, CallTo("recv", finite, Unset))
  /\ UNCHANGED <<mq, hold>>

RetryRecv ==
  /\ Retrying("recv")
  /\ \/ RecvNow
     \/ Empty /\ Block(Receivers, call[Self]) /\ UNCHANGED <<mq, hold>>

RetryExpired ==
  /\ (Full /\ Expire("send")) \/ (Empty /\ Expire("recv"))
  /\ UNCHANGED <<mq, hold>>

-----------------------------------------------------------------------------
(* Interrupt handlers run all sections of a call in one go.                *)

IsrSend(op, v) ==
  /\ IrqEnabled /\ Usable /\ ~Full
  /\ mq' = Link(CopyIn(TakeFree(mq), mq.free, v, op), mq.free, op)
  /\ IsrFinish(Receivers)
  /\ UNCHANGED hold

IsrRecv ==
  /\ IrqEnabled /\ Usable /\ ~Empty
  /\ mq' = FreeMsg(UnlinkHead(mq), mq.head)
  /\ IsrFinish(Senders)
  /\ UNCHANGED hold

-----------------------------------------------------------------------------
\* rt_mq_control(RT_IPC_CMD_RESET)
Reset == StartReset(<<Receivers, Senders>>) /\ UNCHANGED mqVars

ResetQueue ==
  /\ ResetDone
  /\ mq' = FreeAll(mq)
  /\ UNCHANGED <<hold, call, lost>>

Copying == {t \in Threads : hold[t] # Null /\ k.stat[t] # "close"}

\* rt_mq_detach, rt_mq_delete, once no thread is inside that would go on using
\* the queue when it is gone
DetachQueue ==
  /\ WokenAt({"wait", "back"}) = {}
  /\ Copying = {}
  /\ Detach(<<Receivers, Senders>>)
  /\ UNCHANGED mqVars

\* rt_mq_init, rt_mq_create: the buffers that deleted threads had in hand are
\* part of the new pool
InitQueue ==
  /\ InApp
  /\ obj = "dead"
  /\ obj' = "live"
  /\ mq' = EmptyQueue
  /\ hold' = [t \in Threads |-> Null]
  /\ UNCHANGED <<vars, drain, call, lost>>

-----------------------------------------------------------------------------
MqService ==
  \/ \E v \in Values :
        \/ \E op \in {"send", "urgent"} : Send(op, v)
        \/ \E finite \in BOOLEAN : SendBlock(v, finite)
  \/ Recv \/ \E finite \in BOOLEAN : RecvBlock(finite)
  \/ Reset \/ DetachQueue \/ InitQueue
  \/ \E t \in Workers : Delete(t, "delete") /\ UNCHANGED <<objVars, mqVars>>

MqContinue ==
  \/ ScheduleFrom("wait", "back") /\ UNCHANGED <<objVars, mqVars>>
  \/ SendCopy \/ SendLink \/ RecvCopy \/ RecvFree
  \/ (ReturnError /\ UNCHANGED <<mq, hold>>)
  \/ RetrySend \/ RetryRecv \/ RetryExpired
  \/ (WakeAll /\ UNCHANGED mqVars) \/ ResetQueue
  \/ Schedule /\ UNCHANGED <<objVars, mqVars>>
  \/ DetachLoop /\ UNCHANGED mqVars
  \/ DeleteThreadEnd /\ UNCHANGED <<mq, hold>>

MqNext ==
  \/ Boot /\ UNCHANGED <<objVars, mqVars>>
  \/ MqService
  \/ MqContinue
  \/ IsrRecv \/ \E v \in Values, op \in {"send", "urgent"} : IsrSend(op, v)
  \/ Tick /\ UNCHANGED <<objVars, mqVars>>

MqSpec == MqInit /\ [][MqNext]_<<vars, objVars, mqVars>>

-----------------------------------------------------------------------------
(* Properties.                                                             *)

\* Every variable keeps its type: entry stays within 0 .. max_msgs.
MqTypeOK ==
  /\ QueueTypeOK
  /\ mq \in [head : Pointers, tail : Pointers, free : Pointers, entry : 0 .. MaxMsgs,
             next : [Nodes -> Pointers], data : [Nodes -> Values \cup {Unset}]]
  /\ hold \in [Threads -> Pointers]

Queued == Chain(mq, mq.head)
FreeList == Chain(mq, mq.free)
Held == {hold[t] : t \in Threads} \ {Null}

\* No buffer is in two places or in none: each one is queued, free, or in the
\* hand of one thread (a deleted thread keeps it), however sends, receives and
\* resets interleave around the copies.
BuffersConserved ==
  /\ IsInjective(Queued) /\ IsInjective(FreeList)
  /\ \A t, u \in Threads : hold[t] # Null /\ t # u => hold[t] # hold[u]
  /\ Len(Queued) + Len(FreeList) + Cardinality(Held) = MaxMsgs
  /\ ToSet(Queued) \cup ToSet(FreeList) \cup Held = Nodes

\* The queue is a list from head to tail with as many messages as entry says.
QueueLinked ==
  /\ mq.entry = Len(Queued)
  /\ mq.tail = IF Queued = <<>> THEN Null ELSE Last(Queued)

\* The copies are made outside the critical sections and still see what they
\* should: a buffer that was filled keeps the sender's message until it is linked,
\* one that was unlinked keeps what it held until it is freed.
CopiesIntact ==
  \A t \in Threads :
     pc[t] \in {"link", "copyout", "free"} /\ k.stat[t] # "close" =>
       mq.data[hold[t]] = call[t].value

Messages == LET s == Queued IN [i \in DOMAIN s |-> mq.data[s[i]]]

\* A message that was sent goes behind everything that is queued by the time it
\* is linked, an urgent one before it, whatever happened during its copy.
SendOrder ==
  [][At("link") /\ pc'[Self] # "link" =>
       Messages' = IF call[Self].op = "urgent" THEN <<call[Self].value>> \o Messages
                                               ELSE Append(Messages, call[Self].value)
    ]_<<vars, objVars, mqVars>>

\* No receiver is stranded: while one waits, each queued message is spoken for
\* by a receiver that was woken and has not looked yet (or was deleted before).
NoStrandedReceiver ==
  k.list[Receivers] # <<>> =>
    mq.entry <= Cardinality(WokenFor("recv")) + lost["recv"]

\* Nor is a sender: while one waits, each free buffer is spoken for.
NoStrandedSender ==
  k.list[Senders] # <<>> =>
    Len(FreeList) <= Cardinality(WokenFor("send")) + lost["send"]
=============================================================================
