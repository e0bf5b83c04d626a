-------------------------------- MODULE MCIpc -------------------------------
(***************************************************************************)
(* The other blocking objects on one kernel: event, mailbox, message       *)
(* queue, memory pool and data queue, and two mutexes that threads may     *)
(* nest.  Objects share nothing but the kernel, and each waits and wakes   *)
(* through its own lists; a behaviour therefore exercises one of them (or  *)
(* the mutexes), the `part` chosen at first, and leaves the others as they *)
(* were initialised.                                                       *)
(***************************************************************************)
EXTENDS Mailbox

CONSTANTS
  Parts,      \* the objects to exercise
  Getters,    \* the suspend lists of whichever part is not the mailbox
  Putters,
  Bits, Requests, NoRequest,
  MaxMsgs, Null,
  Blocks,
  LWM,
  Detachable, MUTEX_HOLD_MAX,
  a, b, m1, m2, x, y

VARIABLES
  part,
  set, want, asked, seen,         \* Event
  mq, hold,                       \* MessageQueue
  count, free, out, finite, gone, \* MemPool
  dq,                             \* DataQueue
  mx, mobj, has, base             \* Mutex

Ev == INSTANCE Event WITH Evt <- Getters
Mq == INSTANCE MessageQueue WITH Receivers <- Getters, Senders <- Putters
Mp == INSTANCE MemPool WITH Waiting <- Getters, lost <- gone
Dq == INSTANCE DataQueue WITH Receivers <- Getters, Senders <- Putters
Mx == INSTANCE Mutex WITH Mutexes <- {Getters, Putters}, obj <- mobj

evVars == <<set, want, asked, seen>>
mqVars == <<mq, hold>>
mpVars == <<count, free, out, finite, gone>>
mxVars == <<mx, mobj, has, base>>

ASSUME PartsAssumption ==
  /\ Ev!EventAssumption /\ Mq!MessageQueueAssumption
  /\ Mp!PoolAssumption /\ Dq!RingAssumption
  /\ Detachable \subseteq {Getters, Putters} /\ MUTEX_HOLD_MAX \in Nat \ {0}
  /\ {Getters, Putters} \subseteq Queues \ {Receivers, Senders} /\ Getters # Putters

\* Both flags with CLEAR, either of them with and without, and one flag with CLEAR,
\* which leaves the other.
SomeRequests == {[set |-> {x, y}, all |-> TRUE, clear |-> TRUE],
                 [set |-> {x, y}, all |-> FALSE, clear |-> TRUE],
                 [set |-> {x, y}, all |-> FALSE, clear |-> FALSE],
                 [set |-> {x}, all |-> FALSE, clear |-> TRUE]}

\* Threads and values differ in nothing but their name.
Symmetry == Permutations({a, b}) \cup Permutations({m1, m2})

\* Different priorities matter to the mutexes only.
IpcInit ==
  /\ part \in Parts
  /\ MbInit /\ Ev!EvtInit /\ Mq!MqInit /\ Mp!MpInit /\ Dq!DqInit /\ Mx!MutexInit
  /\ part # "mutexes" => \A t \in Workers : k.prio[t] = 0

IpcNext ==
  /\ UNCHANGED part
  /\ \/ part = "event" /\ Ev!EvtNext /\ UNCHANGED <<mbVars, mqVars, mpVars, dq, mxVars>>
     \/ part = "mailbox" /\ MbNext /\ UNCHANGED <<evVars, mqVars, mpVars, dq, mxVars>>
     \/ part = "mq" /\ Mq!MqNext /\ UNCHANGED <<evVars, mb, mpVars, dq, mxVars>>
     \/ part = "pool" /\ Mp!MpNext /\ UNCHANGED <<evVars, mbVars, mqVars, dq, mxVars>>
     \/ part = "dataqueue" /\ Dq!DqNext /\ UNCHANGED <<evVars, mb, mqVars, mpVars, mxVars>>
     \/ part = "mutexes" /\ Mx!MutexNext /\ UNCHANGED <<objVars, evVars, mbVars, mqVars, mpVars, dq>>

IpcSpec ==
  IpcInit /\ [][IpcNext]_<<part, vars, objVars, evVars, mbVars, mqVars, mpVars, dq, mxVars>>

-----------------------------------------------------------------------------
(* Properties, besides those of the mailbox.                               *)

TypeOfPart ==
  CASE part = "event" -> Ev!EvtTypeOK
    [] part = "mq" -> Mq!MqTypeOK
    [] part = "pool" -> Mp!MpTypeOK
    [] part = "dataqueue" -> Dq!DqTypeOK
    [] OTHER -> TRUE

\* No lost wakeup: no thread waits for bits, a message, a block or an item that is
\* there, or for a place that is free (in a data queue: free below the low water
\* mark), unless a thread was woken for it and has not looked yet, or was deleted
\* before it could.
NobodyWaitsInVain ==
  CASE part = "event" -> Ev!NoMissedEvent
    [] part = "mq" -> Mq!NoStrandedReceiver /\ Mq!NoStrandedSender
    [] part = "pool" -> Mp!NoStrandedThread
    [] part = "dataqueue" -> Dq!NoStrandedReceiver /\ Dq!NoStrandedSender
    [] OTHER -> TRUE

\* The variables of every object keep their types (MbSound adds that the scheduler's
\* structures agree, in every part).  Contents are what was put there: rt_event_recv
\* reports bits that were asked for and sent, the copies of rt_mq_send_wait and
\* rt_mq_recv, made with interrupts enabled, see the message they should, and the
\* offsets and flags of the data queue's ring agree.  No buffer of a message queue and
\* no block of a memory pool is in two places or in none, and the queue runs from head
\* to tail, entry messages long.
DataIntact ==
  /\ TypeOfPart
  /\ CASE part = "event" -> Ev!ReportsWhatWasSent
       [] part = "mq" -> Mq!CopiesIntact /\ Mq!BuffersConserved /\ Mq!QueueLinked
       [] part = "pool" -> Mp!BlocksConserved
       [] part = "dataqueue" -> Dq!FlagsAgree
       [] OTHER -> TRUE

\* rt_mq_send_wait, rt_mq_urgent: the place a message takes is decided when it is
\* linked, not when its buffer was taken.  rt_data_queue_push, rt_data_queue_pop:
\* first in, first out.
InOrder == Mq!SendOrder /\ Dq!FirstInFirstOut

\* rt_event_send gives a bit to one RT_EVENT_FLAG_CLEAR receiver at most.
ClearTakesOnce == Ev!ClearTakesOnce

\* rt_mutex_take, rt_mutex_release: mutual exclusion and hand-over of nested mutexes,
\* and of one that is detached and initialised again.
MutexSound == part = "mutexes" => Mx!MutexSound

\* What a message queue promises, whoever waits and in whatever order things happen: a
\* message in the hands of a sender or receiver still takes its place.
Promise ==
  INSTANCE AbsQueue WITH
    Clients <- Threads, Capacity <- MaxMsgs,
    queue <- Mq!Messages,
    busy <- Cardinality(Mq!Held),
    receivers <- IF part = "mq" THEN On(k, Getters) ELSE {},
    senders <- IF part = "mq" THEN On(k, Putters) ELSE {}

QueueContract == Promise!Spec
=============================================================================
