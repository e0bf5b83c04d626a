------------------------------ MODULE Drivers -------------------------------
(***************************************************************************)
(* What drivers are built from, and two users of it: the wait queue and    *)
(* the pipe, the completion and the transmission of serial.c, the console  *)
(* with its shell, and the work queue.  Each has state of its own, so a    *)
(* behaviour exercises one of them, the `part` chosen at first, and leaves *)
(* the others as they were initialised.                                    *)
(***************************************************************************)
EXTENDS SerialTx

CONSTANTS
  Parts,      \* the components to exercise
  Threads, Queues, Finite, Readers, Nobody, Capacity, Sizes,
  Waiters,
  Chars, Bufsz, SemMax, Others, Modes,
  Works, NoWork, Callers, Habits

VARIABLES
  part,
  wq, at, ppc, ptimer,                                 \* WaitQueue
  fifo, lock, open, pleft, round, nonblock,            \* Pipe
  cflag, clist, cpc, ctimer, clate, owed,              \* Completion
  ref, mode, on, rx, ind, sem, shell, isr, held,       \* Console
  ready, delayed, current, pending, submitting, bound, \* WorkQueue
  delay, worker, handler, expired, wpc, arg, due, habits

P == INSTANCE Pipe WITH pc <- ppc, timer <- ptimer, left <- pleft
C == INSTANCE Completion WITH
       Threads <- Waiters \cup Callers,
       flag <- cflag, list <- clist, pc <- cpc, timer <- ctimer, late <- clate
S == INSTANCE Console WITH pc <- shell
W == INSTANCE WorkQueue WITH timer <- delay, pc <- wpc

pipeVars == <<fifo, lock, open, pleft, round, nonblock>>
pVars == <<wq, at, ppc, ptimer, pipeVars>>
cVars == <<cflag, clist, cpc, ctimer, clate, owed>>
tVars == <<vars, stream>>
sVars == <<ref, mode, on, rx, ind, sem, shell, isr, held>>
wVars == <<ready, delayed, current, pending, submitting, bound,
           delay, worker, handler, expired, wpc, arg, due, habits>>
allVars == <<part, pVars, cVars, tVars, sVars, wVars>>

ASSUME PartsAssumption ==
  /\ Parts \subseteq {"waitqueue", "pipe", "completion", "serial", "console", "work"}
  /\ P!WaitQueueAssumption /\ P!PipeAssumption
  /\ C!CompletionAssumption /\ TxAssumption /\ S!ConsoleAssumption
  /\ W!WorkAssumption

\* What a part may start with matters to that part only.
DriversInit ==
  /\ part \in Parts
  /\ P!PipeInit /\ C!Init /\ Init /\ S!Init /\ W!WqInit
  /\ part # "pipe" => nonblock = {}
  /\ part # "serial" => ~stream
  /\ part # "work" => habits = {}

InWaitQueue(A) == part = "waitqueue" /\ A /\ UNCHANGED <<part, pipeVars, cVars, tVars, sVars, wVars>>
InPipe(A) == part = "pipe" /\ A /\ UNCHANGED <<part, cVars, tVars, sVars, wVars>>
InCompletion(A) == part = "completion" /\ A /\ UNCHANGED <<part, pVars, tVars, sVars, wVars>>
InSerial(A) == part = "serial" /\ A /\ UNCHANGED <<part, pVars, cVars, sVars, wVars, stream>>
InConsole(A) == part = "console" /\ A /\ UNCHANGED <<part, pVars, cVars, tVars, wVars>>
InWork(A) == part = "work" /\ A /\ UNCHANGED <<part, pVars, cVars, tVars, sVars, habits>>

DriversNext ==
  \/ InWaitQueue(P!WqNext) \/ InPipe(P!PipeNext)
  \/ InCompletion(C!Next) \/ InSerial(Next)
  \/ InConsole(S!Next) \/ InWork(W!WqNext)

DriversSpec == DriversInit /\ [][DriversNext]_allVars

\* The fairness of Pipe, SerialTx, Console and WorkQueue
DriversFairSpec ==
  /\ DriversSpec
  /\ \A t \in Threads : SF_allVars(InPipe(P!Step(t)))
  /\ \A t \in Writers : WF_allVars(InSerial(Step(t)))
  /\ WF_allVars(InSerial(TxDone))
  /\ WF_allVars(InConsole(S!RxIndicate)) /\ SF_allVars(InConsole(S!Shell))
  /\ SF_allVars(InWork(W!WorkerStep)) /\ WF_allVars(InWork(W!HandlerStep))
  /\ \A c \in Callers : WF_allVars(InWork(W!Proceed(c)))
  /\ \A w \in Works : SF_allVars(InWork(W!Expire(w)))

-----------------------------------------------------------------------------
(* Properties, besides SignalSpec of SerialTx.                             *)

TypeOfPart ==
  CASE part = "waitqueue" -> P!WqTypeOK
    [] part = "pipe" -> P!PipeTypeOK
    [] part = "completion" -> C!TypeOK
    [] part = "serial" -> TypeOK
    [] part = "console" -> S!TypeOK
    [] part = "work" -> W!WqTypeOK

\* The variables of every component keep their types; rt_wqueue_wait returns with its
\* node, which is on the stack, out of the list; rt_serial_close leaves no interrupt
\* enabled for a device that nobody has open; a work is in one list at most, what was
\* accepted stays in one until it starts or is cancelled, and no RT_ASSERT of
\* workqueue.c fails for well-behaved callers.
DriversSound ==
  /\ TypeOfPart /\ P!NodesLive /\ S!ClosedIsQuiet
  /\ W!ListedOnce /\ W!AcceptedIsKept /\ W!NoAssertFails

\* No lost wakeup: no thread sleeps in pipe_fops_read or pipe_fops_write over what it
\* waits for unless the other side is on its way to wake it; none sleeps through
\* rt_completion_done; a writer in _serial_int_tx has an interrupt to come; the shell
\* does not sleep over input, nor the worker over work.
NobodySleepsInVain ==
  CASE part = "pipe" -> P!SleepersAreTold
    [] part = "completion" -> C!NoneSleepsThrough
    [] part = "serial" -> InterruptToCome
    [] part = "console" -> S!NoMissedInput
    [] part = "work" -> W!WorkIsSeen
    [] OTHER -> TRUE

\* rt_completion_wait returns RT_EOK once for a completion.
OkMeansDone == C!OkMeansDone

\* rt_hw_serial_isr: a full receive buffer loses its oldest characters only.
NewestKept == S!NewestKept

\* pipe_fops_close: end-of-file reaches a reader that sleeps, and EPIPE a writer.
CloseIsSeen == P!EndOfFileIsSeen /\ P!BrokenPipeIsSeen

\* rt_device_write comes back, unless carriage returns are added to line ends; input
\* wakes the shell, however many characters arrive meanwhile.
ConsoleResponds == WriteReturns /\ S!InputWakesShell

\* rt_workqueue_cancel_work_sync comes back once the work is done; work that is
\* submitted gets the worker going, and a delay ends.
WorkGoesOn == W!SyncReturns /\ W!WorkStarts
=============================================================================
