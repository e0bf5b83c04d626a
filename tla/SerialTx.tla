------------------------------ MODULE SerialTx ------------------------------
(***************************************************************************)
(* Output through a serial device opened with RT_DEVICE_FLAG_INT_TX:       *)
(* rt_serial_write with _serial_int_tx of serial.c, which waits for a      *)
(* completion whenever the hardware takes no more, and the interrupt that  *)
(* reports RT_SERIAL_EVENT_TX_DONE.                                        *)
(*                                                                         *)
(*   left[t]   what thread t has still to write                            *)
(*   hw        how many characters the transmitter holds                   *)
(*   pc[t]     "out"; "top" of the loop; "char" after the carriage return; *)
(*             "wait" before rt_completion_wait; "asleep" and "awake" in it*)
(*   flag, list   the completion                                           *)
(*   stream       RT_DEVICE_FLAG_STREAM is set in dev->open_flag           *)
(***************************************************************************)
EXTENDS Naturals, Sequences, SequencesExt

CONSTANTS
  Writers,
  Texts,   \* what is written: sequences of "char" and "newline"
  Depth    \* characters the transmitter takes before putc returns -1

TxAssumption ==
  /\ Texts \subseteq Seq({"char", "newline"})
  /\ Depth \in Nat \ {0}

VARIABLES left, hw, pc, flag, list, stream

cpl == <<flag, list>>
vars == <<left, hw, pc, cpl>>

Init ==
  /\ left = [t \in Writers |-> <<>>]
  /\ hw = 0
  /\ pc = [t \in Writers |-> "out"]
  /\ flag = FALSE /\ list = <<>>
  /\ stream \in BOOLEAN

Goto(t, label) == pc' = [pc EXCEPT ![t] = label]

-----------------------------------------------------------------------------
(* _serial_int_tx.                                                         *)

Write(t, text) ==
  /\ pc[t] = "out"
  /\ left' = [left EXCEPT ![t] = text]
  /\ Goto(t, "top")
  /\ UNCHANGED <<hw, cpl>>

Return(t) ==
  /\ pc[t] = "top" /\ left[t] = <<>>
  /\ Goto(t, "out")
  /\ UNCHANGED <<left, hw, cpl>>

\* The hardware: putc takes a character or returns -1
Taken == hw < Depth /\ hw' = hw + 1
Refused(t) == hw = Depth /\ Goto(t, "wait") /\ UNCHANGED <<left, hw, cpl>>

\* "To be polite with serial console add a line feed to the carriage return
\* character"
LineEnd(t) == left[t] # <<>> /\ Head(left[t]) = "newline" /\ stream

PutReturn(t) ==
  /\ pc[t] = "top" /\ LineEnd(t)
  /\ \/ /\ Taken
        /\ Goto(t, "char")
        /\ UNCHANGED <<left, cpl>>
     \/ Refused(t)

\* Mutant of PutChar: a newline sent is not counted.
PutCharUncounted(t) ==
  /\ left[t] # <<>>
  /\ pc[t] = "char" \/ (pc[t] = "top" /\ ~LineEnd(t))
  /\ \/ /\ Taken
        /\ left' = [left EXCEPT ![t] = IF Head(@) = "newline" THEN @ ELSE Tail(@)]
        /\ Goto(t, "top")
        /\ UNCHANGED cpl
     \/ Refused(t)

PutChar(t) ==
  /\ left[t] # <<>>
  /\ pc[t] = "char" \/ (pc[t] = "top" /\ ~LineEnd(t))
  /\ \/ /\ Taken
        /\ left' = [left EXCEPT ![t] = Tail(@)]
        /\ Goto(t, "top")
        /\ UNCHANGED cpl
     \/ Refused(t)

-----------------------------------------------------------------------------
(* rt_completion_wait(&(tx->completion), RT_WAITING_FOREVER).              *)

WaitNow(t) ==
  /\ pc[t] = "wait" /\ flag
  /\ flag' = FALSE
  /\ Goto(t, "top")
  /\ UNCHANGED <<left, hw, list>>

WaitBlock(t) ==
  /\ pc[t] = "wait" /\ ~flag
  /\ list' = Append(list, t)
  /\ Goto(t, "asleep")
  /\ UNCHANGED <<left, hw, flag>>

\* Mutant of WaitReturn: the flag is not cleaned.
WaitReturnSet(t) ==
  /\ pc[t] = "awake"
  /\ Goto(t, "top")
  /\ UNCHANGED <<left, hw, cpl>>

WaitReturn(t) ==
  /\ pc[t] = "awake"
  /\ flag' = FALSE
  /\ Goto(t, "top")
  /\ UNCHANGED <<left, hw, list>>

\* Mutant of TxDone: nothing is signalled unless somebody sleeps.
TxDoneIfAsleep ==
  /\ hw > 0
  /\ hw' = hw - 1
  /\ IF ~flag /\ list # <<>>
       THEN /\ flag' = TRUE
            /\ pc' = [pc EXCEPT ![Head(list)] = "awake"]
            /\ list' = Tail(list)
       ELSE UNCHANGED <<pc, cpl>>
  /\ UNCHANGED left

\* rt_hw_serial_isr(RT_SERIAL_EVENT_TX_DONE): rt_completion_done
TxDone ==
  /\ hw > 0
  /\ hw' = hw - 1
  /\ flag' = TRUE
  /\ IF ~flag /\ list # <<>>
       THEN /\ pc' = [pc EXCEPT ![Head(list)] = "awake"]
            /\ list' = Tail(list)
       ELSE UNCHANGED <<pc, list>>
  /\ UNCHANGED left

-----------------------------------------------------------------------------
Step(t) ==
  Return(t) \/ PutReturn(t) \/ PutChar(t) \/ WaitNow(t) \/ WaitBlock(t) \/ WaitReturn(t)

Next ==
  /\ \/ \E t \in Writers : Step(t) \/ \E text \in Texts : Write(t, text)
     \/ TxDone
  /\ UNCHANGED stream

Spec == Init /\ [][Next]_<<vars, stream>>

\* The transmitter gets rid of what it holds, and a thread that can run does.
FairSpec == Spec /\ WF_vars(TxDone) /\ \A t \in Writers : WF_vars(Step(t))

-----------------------------------------------------------------------------
(* Properties.                                                             *)

\* Every variable keeps its type, and the list holds the threads that sleep.
TypeOK ==
  /\ left \in [Writers -> Seq({"char", "newline"})]
  /\ hw \in 0 .. Depth
  /\ pc \in [Writers -> {"out", "top", "char", "wait", "asleep", "awake"}]
  /\ flag \in BOOLEAN /\ list \in Seq(Writers)
  /\ ToSet(list) = {t \in Writers : pc[t] = "asleep"}

\* A thread that sleeps will be woken: the transmitter still holds a character
\* whose interrupt is to come, also when others came between the refusal and the
\* wait.
InterruptToCome == \A t \in Writers : pc[t] = "asleep" => hw > 0 /\ ~flag

\* rt_device_write comes back, unless carriage returns are added to line ends.
WriteReturns == \A t \in Writers : pc[t] = "top" /\ ~stream ~> pc[t] = "out"

\* serial.c: _serial_int_tx uses its completion as the completion is meant to be used.
Signal ==
  INSTANCE Completion WITH
    Threads <- Writers, Waiters <- Writers, Finite <- {FALSE},
    timer <- {}, late <- {}, owed <- flag,
    pc <- [t \in Writers |-> IF pc[t] \in {"asleep", "awake"} THEN pc[t] ELSE "out"]

SignalSpec == Signal!Spec
=============================================================================
