------------------------------ MODULE Mailbox -------------------------------
(***************************************************************************)
(* The mailbox of ipc.c: rt_mb_init/create, send_wait, send, urgent, recv, *)
(* control RESET and detach/delete, called by threads and by interrupt     *)
(* handlers.                                                               *)
(*                                                                         *)
(*   mb   msg_pool, in_offset, out_offset, entry                           *)
(***************************************************************************)
EXTENDS IpcQueue

CONSTANT Size   \* mb->size, at most RT_MB_ENTRY_MAX: both are 16 bits wide

ASSUME SizeAssumption == Size \in Nat \ {0}

VARIABLE mb

mbVars == <<mb, call, lost>>

Offsets == 0 .. Size - 1

Rings == [pool : [Offsets -> Values \cup {Unset}], in : Offsets, out : Offsets,
          entry : 0 .. Size]

EmptyRing == [pool |-> [o \in Offsets |-> Unset], in |-> 0, out |-> 0, entry |-> 0]

MbInit == QueueInit /\ mb = EmptyRing

-----------------------------------------------------------------------------
(* The ring.                                                               *)

After(o) == IF o + 1 >= Size THEN 0 ELSE o + 1

\* Mutant of Before: the offset does not wrap.
BeforeStuck(o) == IF o > 0 THEN o - 1 ELSE 0

Before(o) == IF o > 0 THEN o - 1 ELSE Size - 1

RingSend(r, v) == [r EXCEPT !.pool[r.in] = v, !.in = After(@), !.entry = @ + 1]

RingUrgent(r, v) ==
  [r EXCEPT !.pool[Before(r.out)] = v, !.out = Before(@), !.entry = @ + 1]

RingRecv(r) == [r EXCEPT !.out = After(@), !.entry = @ - 1]

RingReset(r) == [r EXCEPT !.in = 0, !.out = 0, !.entry = 0]

Full == mb.entry = Size
Empty == mb.entry = 0

-----------------------------------------------------------------------------
(* rt_mb_send_wait, rt_mb_recv, rt_mb_urgent.  A call with timeout 0 that  *)
(* cannot proceed returns -RT_EFULL or -RT_ETIMEOUT and changes nothing.   *)

SendNow(v) == ~Full /\ mb' = RingSend(mb, v) /\ Finish(Receivers)
RecvNow == ~Empty /\ mb' = RingRecv(mb) /\ Finish(Senders)

Send(v) == InApp /\ Usable /\ SendNow(v)
Recv == InApp /\ Usable /\ RecvNow

SendBlock(v, finite) ==
  /\ MayBlock /\ Usable /\ Full
  /\ Block(Senders, CallTo("send", finite, v))
  /\ UNCHANGED mb

RecvBlock(finite) ==
  /\ MayBlock /\ Usable /\ Empty
  /\ Block(Receivers, CallTo("recv", finite, Unset))
  /\ UNCHANGED mb

\* rt_mb_urgent: never waits
Urgent(v) ==
  /\ InApp /\ Usable /\ ~Full
  /\ mb' = RingUrgent(mb, v)
  /\ Finish(Receivers)

IsrSend(v) ==
  /\ IrqEnabled /\ Usable /\ ~Full
  /\ mb' \in {RingSend(mb, v), RingUrgent(mb, v)}
  /\ IsrFinish(Receivers)

IsrRecv ==
  /\ IrqEnabled /\ Usable /\ ~Empty
  /\ mb' = RingRecv(mb)
  /\ IsrFinish(Senders)

\* Mutant of RetryRecv: the condition is not tested again.
RetryRecvBlind == Retrying("recv") /\ mb' = RingRecv(mb) /\ Finish(Senders)

RetrySend ==
  /\ Retrying("send")
  /\ \/ SendNow(call[Self].value)
     \/ Full /\ Block(Senders, call[Self]) /\ UNCHANGED mb

RetryRecv ==
  /\ Retrying("recv")
  /\ \/ RecvNow
     \/ Empty /\ Block(Receivers, call[Self]) /\ UNCHANGED mb

RetryExpired ==
  /\ (Full /\ Expire("send")) \/ (Empty /\ Expire("recv"))
  /\ UNCHANGED mb

-----------------------------------------------------------------------------
\* rt_mb_control(RT_IPC_CMD_RESET)
Reset == StartReset(<<Receivers, Senders>>) /\ UNCHANGED mbVars

ResetRing ==
  /\ ResetDone
  /\ mb' = RingReset(mb)
  /\ UNCHANGED <<call, lost>>

\* rt_mb_detach, rt_mb_delete, once no thread that was woken has still to look:
\* it would look at a mailbox that is gone
DetachMailbox ==
  /\ WokenAt({"wait", "back"}) = {}
  /\ Detach(<<Receivers, Senders>>)
  /\ UNCHANGED mbVars

\* rt_mb_init, rt_mb_create
InitMailbox ==
  /\ InApp
  /\ obj = "dead"
  /\ obj' = "live"
  /\ mb' = EmptyRing
  /\ UNCHANGED <<vars, drain, call, lost>>

-----------------------------------------------------------------------------
MbService ==
  \/ \E v \in Values :
        Send(v) \/ Urgent(v) \/ \E finite \in BOOLEAN : SendBlock(v, finite)
  \/ Recv \/ \E finite \in BOOLEAN : RecvBlock(finite)
  \/ Reset \/ DetachMailbox \/ InitMailbox
  \/ \E t \in Workers : Delete(t, "delete") /\ UNCHANGED <<objVars, mbVars>>

MbContinue ==
  \/ ScheduleFrom("wait", "back") /\ UNCHANGED <<objVars, mbVars>>
  \/ (ReturnError /\ UNCHANGED mb) \/ RetrySend \/ RetryRecv \/ RetryExpired
  \/ (WakeAll /\ UNCHANGED mbVars) \/ ResetRing
  \/ Schedule /\ UNCHANGED <<objVars, mbVars>>
  \/ DetachLoop /\ UNCHANGED mbVars
  \/ DeleteThreadEnd /\ UNCHANGED mb

MbNext ==
  \/ Boot /\ UNCHANGED <<objVars, mbVars>>
  \/ MbService
  \/ MbContinue
  \/ IsrRecv \/ \E v \in Values : IsrSend(v)
  \/ Tick /\ UNCHANGED <<objVars, mbVars>>

MbSpec == MbInit /\ [][MbNext]_<<vars, objVars, mbVars>>

-----------------------------------------------------------------------------
(* Properties.                                                             *)

\* Every variable keeps its type: the offsets stay in the ring and entry within 0 .. size.
MbTypeOK ==
  /\ QueueTypeOK
  /\ mb \in Rings

\* The scheduler's structures agree wherever a thread is inside rt_mb_send_wait or
\* rt_mb_recv, also while rt_mb_detach wakes those who wait.
MbSound == MbTypeOK /\ KernelSound

\* The write position is entry places after the read position, round the ring.
RingConsistent ==
  mb.in = IF mb.out + mb.entry < Size THEN mb.out + mb.entry
                                      ELSE mb.out + mb.entry - Size

\* No receiver is stranded: while one waits, each message in the mailbox is
\* spoken for by a receiver that was woken and has not looked yet (or that was
\* deleted before it could).
NoStrandedReceiver ==
  k.list[Receivers] # <<>> =>
    mb.entry <= Cardinality(WokenFor("recv")) + lost["recv"]

\* Nor is a sender: while one waits, each free place is spoken for.
NoStrandedSender ==
  k.list[Senders] # <<>> =>
    Size - mb.entry <= Cardinality(WokenFor("send")) + lost["send"]

\* No lost wakeup in rt_mb_send_wait and rt_mb_recv.
NobodyStranded == NoStrandedReceiver /\ NoStrandedSender

\* The messages in the mailbox, oldest first
Contents(r) ==
  [i \in 1 .. r.entry |->
     r.pool[IF r.out + i - 1 < Size THEN r.out + i - 1 ELSE r.out + i - 1 - Size]]

\* What a mailbox promises, whoever waits and in whatever order things happen: a
\* message takes no place but its own.
Contract ==
  INSTANCE AbsQueue WITH
    Clients <- Threads, Capacity <- Size,
    queue <- Contents(mb), busy <- 0,
    receivers <- On(k, Receivers),
    senders <- On(k, Senders)

ContractSpec == Contract!Spec
=============================================================================
