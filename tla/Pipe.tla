-------------------------------- MODULE Pipe --------------------------------
(***************************************************************************)
(* The POSIX pipe of pipe.c: blocking read and write over a ring buffer,   *)
(* with a mutex and two wait queues, and open and close of either end of   *)
(* a named pipe, which outlives its descriptors.                           *)
(* Composed with WaitQueue, whose steps a thread takes while it waits.     *)
(*                                                                         *)
(*   fifo      bytes in the ring buffer                                    *)
(*   lock      the owner of pipe->lock                                     *)
(*   open      the threads whose descriptor is open, which pipe->readers   *)
(*             and pipe->writers count                                     *)
(*   left[t]   bytes that a writer has still to put, or that a reader asks *)
(*             for                                                         *)
(*   round     writers that have put something (`wakeup` is 1)             *)
(*   nonblock  the threads whose descriptor has O_NONBLOCK                 *)
(*                                                                         *)
(* More labels of pc: "take" before rt_mutex_take, "body" of the loop,     *)
(* "poke" before the wakeup of the other side in it, "sleep" before        *)
(* rt_wqueue_wait; "tell" before the wakeup after it, "release" before the *)
(* reader's last rt_mutex_release; in pipe_fops_close "close" before       *)
(* rt_mutex_take, "eof" and "epipe" before the two wakeups; "gone".        *)
(***************************************************************************)
EXTENDS WaitQueue, FiniteSetsExt

CONSTANTS
  Readers, Writers,
  Nobody,
  Capacity,   \* of the ring buffer
  Sizes       \* bytes asked for in one call

PipeAssumption ==
  /\ Threads = Readers \cup Writers /\ Readers \cap Writers = {}
  /\ Queues = {"reader", "writer"}
  /\ Nobody \notin Threads
  /\ Capacity \in Nat \ {0}
  /\ Sizes \subseteq Nat \ {0}

VARIABLES fifo, lock, open, left, round, nonblock

pipeVars == <<fifo, lock, open, left, round, nonblock>>

PipeInit ==
  /\ WqInit
  /\ at = [t \in Threads |-> IF t \in Readers THEN "reader" ELSE "writer"]
  /\ fifo = 0 /\ lock = Nobody /\ open = Threads
  /\ left = [t \in Threads |-> 0]
  /\ round = {}
  /\ nonblock \in SUBSET Threads

Mine(t) == IF t \in Readers THEN "reader" ELSE "writer"
Theirs(t) == IF t \in Readers THEN "writer" ELSE "reader"

-----------------------------------------------------------------------------
(* The parts that pipe_fops_read and pipe_fops_write have in common.       *)

\* Without a thread at the other end the call returns end-of-file or -EPIPE
Call(t, n) ==
  /\ pc[t] = "out" /\ t \in open
  /\ open \cap (IF t \in Readers THEN Writers ELSE Readers) # {}
  /\ left' = [left EXCEPT ![t] = n]
  /\ round' = round \ {t}
  /\ Goto(t, "take")
  /\ UNCHANGED <<wq, at, timer, fifo, lock, open, nonblock>>

Take(t) ==
  /\ pc[t] = "take" /\ lock = Nobody
  /\ lock' = t
  /\ Goto(t, "body")
  /\ UNCHANGED <<wq, at, timer, fifo, open, left, round, nonblock>>

Unlock(t, label) == lock' = Nobody /\ Goto(t, label) /\ UNCHANGED <<wq, at, timer>>

\* Mutant of Poke: the other side is not woken before the thread sleeps.
PokeNot(t) == pc[t] = "poke" /\ Goto(t, "sleep") /\ UNCHANGED <<wq, at, timer, pipeVars>>

Poke(t) ==
  /\ pc[t] = "poke"
  /\ Wakeup(Theirs(t), [pc EXCEPT ![t] = "sleep"])
  /\ UNCHANGED pipeVars

\* rt_wqueue_wait(queue, 0, -1), and the lock is taken again
Sleep(t) ==
  /\ \/ WaitNow(t, Mine(t), "sleep", "take")
     \/ WaitBlock(t, Mine(t), FALSE, "sleep")
     \/ Clean(t)
     \/ Unlink(t, "take")
  /\ UNCHANGED pipeVars

-----------------------------------------------------------------------------
(* pipe_fops_read.                                                         *)

ReadBody(t) ==
  /\ t \in Readers /\ pc[t] = "body"
  /\ \/ open \cap Writers = {} /\ Unlock(t, "out") /\ UNCHANGED fifo
     \/ /\ open \cap Writers # {} /\ fifo > 0
        /\ fifo' = fifo - Min({left[t], fifo})
        /\ Goto(t, "tell")
        /\ UNCHANGED <<wq, at, timer, lock>>
     \/ /\ open \cap Writers # {} /\ fifo = 0
        /\ Unlock(t, IF t \in nonblock THEN "out" ELSE "poke")
        /\ UNCHANGED fifo
  /\ UNCHANGED <<open, left, round, nonblock>>

\* The writer is woken while the lock is held
ReadTell(t) ==
  /\ t \in Readers /\ pc[t] = "tell"
  /\ Wakeup("writer", [pc EXCEPT ![t] = "release"])
  /\ UNCHANGED pipeVars

ReadRelease(t) ==
  /\ pc[t] = "release"
  /\ Unlock(t, "out")
  /\ UNCHANGED <<fifo, open, left, round, nonblock>>

-----------------------------------------------------------------------------
(* pipe_fops_write.                                                        *)

WriteBody(t) ==
  /\ t \in Writers /\ pc[t] = "body"
  /\ \/ /\ open \cap Readers = {}
        /\ Unlock(t, IF t \in round THEN "tell" ELSE "out")
        /\ UNCHANGED <<fifo, left, round>>
     \/ /\ open \cap Readers # {}
        /\ LET n == Min({left[t], Capacity - fifo})
           IN  /\ fifo' = fifo + n
               /\ left' = [left EXCEPT ![t] = @ - n]
               /\ Unlock(t, IF left[t] = n \/ t \in nonblock THEN "tell" ELSE "poke")
        /\ round' = round \cup {t}
  /\ UNCHANGED <<open, nonblock>>

WriteTell(t) ==
  /\ t \in Writers /\ pc[t] = "tell"
  /\ Wakeup("reader", [pc EXCEPT ![t] = "out"])
  /\ UNCHANGED pipeVars

-----------------------------------------------------------------------------
(* pipe_fops_close.                                                        *)

CloseCall(t) ==
  /\ pc[t] = "out" /\ t \in open
  /\ Goto(t, "close")
  /\ UNCHANGED <<wq, at, timer, pipeVars>>

Close(t) ==
  /\ pc[t] = "close" /\ lock = Nobody
  /\ lock' = t
  /\ open' = open \ {t}
  /\ Goto(t, "eof")
  /\ UNCHANGED <<wq, at, timer, fifo, left, round, nonblock>>

\* Mutants of CloseTellReaders and CloseTellWriters: they do not.
CloseTellNoReader(t) ==
  /\ pc[t] = "eof" /\ Goto(t, "epipe") /\ UNCHANGED <<wq, at, timer, pipeVars>>

CloseTellNoWriter(t) ==
  /\ pc[t] = "epipe" /\ Unlock(t, "gone") /\ UNCHANGED <<fifo, open, left, round, nonblock>>

\* Without a writer left one of the threads that wait to read is woken
CloseTellReaders(t) ==
  /\ pc[t] = "eof"
  /\ IF open \cap Writers = {}
       THEN Wakeup("reader", [pc EXCEPT ![t] = "epipe"])
       ELSE Goto(t, "epipe") /\ UNCHANGED <<wq, at, timer>>
  /\ UNCHANGED pipeVars

\* Without a reader left, one of those that wait to write.  The last one to close
\* destroys the ring buffer.
CloseTellWriters(t) ==
  /\ pc[t] = "epipe"
  /\ IF open \cap Readers = {}
       THEN Wakeup("writer", [pc EXCEPT ![t] = "gone"])
       ELSE Goto(t, "gone") /\ UNCHANGED <<wq, at, timer>>
  /\ fifo' = IF open = {} THEN 0 ELSE fifo
  /\ lock' = Nobody
  /\ UNCHANGED <<open, left, round, nonblock>>

\* pipe_fops_open: the first one makes a new ring buffer
Open(t) ==
  /\ pc[t] = "gone" /\ lock = Nobody
  /\ open' = open \cup {t}
  /\ fifo' = IF open = {} THEN 0 ELSE fifo
  /\ Goto(t, "out")
  /\ UNCHANGED <<wq, at, timer, lock, left, round, nonblock>>

-----------------------------------------------------------------------------
Step(t) ==
  \/ Take(t) \/ Poke(t) \/ Sleep(t)
  \/ ReadBody(t) \/ ReadTell(t) \/ ReadRelease(t)
  \/ WriteBody(t) \/ WriteTell(t)
  \/ Close(t) \/ CloseTellReaders(t) \/ CloseTellWriters(t)

PipeNext ==
  \E t \in Threads : Step(t) \/ Open(t) \/ CloseCall(t) \/ \E n \in Sizes : Call(t, n)

PipeSpec == PipeInit /\ [][PipeNext]_<<wqVars, pipeVars>>

\* A thread that can run does, and the mutex is handed to those who wait for it.
PipeFairSpec == PipeSpec /\ \A t \in Threads : SF_<<wqVars, pipeVars>>(Step(t))

-----------------------------------------------------------------------------
(* Properties.                                                             *)

\* Every variable keeps its type: the fifo holds no more than its capacity.
PipeTypeOK ==
  /\ WqTypeOK
  /\ pc \in [Threads -> Inside \cup {"out", "take", "body", "poke", "sleep", "tell",
                                     "release", "close", "eof", "epipe", "gone"}]
  /\ fifo \in 0 .. Capacity
  /\ lock \in Threads \cup {Nobody} /\ open \subseteq Threads
  /\ left \in [Threads -> Nat] /\ round \subseteq Writers /\ nonblock \subseteq Threads

\* While a reader sleeps on a pipe with something in it, a writer is on its way to
\* wake it; while a writer sleeps on a pipe with room in it, a reader is.
SleepersAreTold ==
  /\ \A t \in Readers : pc[t] = "asleep" /\ fifo > 0 =>
        \E u \in Writers : pc[u] \in {"poke", "tell"}
  /\ \A t \in Writers : pc[t] = "asleep" /\ fifo < Capacity =>
        \E u \in Readers : pc[u] \in {"poke", "tell"}

Idle(t) == pc[t] \in {"out", "close", "eof", "epipe", "gone"}

\* "No process has the pipe open for writing, return end-of-file": every read that
\* waits is told, unless a writer opens the pipe again.
EndOfFileIsSeen ==
  \A t \in Readers : open \cap Writers = {} ~> Idle(t) \/ open \cap Writers # {}

\* Likewise a write does not wait for readers that are gone.
BrokenPipeIsSeen ==
  \A t \in Writers : open \cap Readers = {} ~> Idle(t) \/ open \cap Readers # {}
=============================================================================
