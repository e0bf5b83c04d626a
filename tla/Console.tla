------------------------------ MODULE Console -------------------------------
(***************************************************************************)
(* The input of the console: the interrupt-driven receive buffer of        *)
(* serial.c, the semaphore with which finsh_rx_ind wakes the shell, the    *)
(* loop of finsh_getchar, and the opening and closing of the device by     *)
(* other threads (device.c).                                               *)
(*                                                                         *)
(*   ref    dev->ref_count                                                 *)
(*   mode   RT_DEVICE_FLAG_INT_RX is set in dev->open_flag                 *)
(*   on     serial_rx is allocated and the receive interrupt enabled       *)
(*   rx     the ring: buffer, put_index, get_index, is_full                *)
(*   ind    rx_indicate is finsh_rx_ind                                    *)
(*   sem    the value of shell->rx_sem                                     *)
(*   pc     the shell: "boot" and "bind" in finsh_set_device, before and   *)
(*          after rt_device_open; "read" and "take" in finsh_getchar       *)
(*   isr    the receive interrupt has taken characters and has still to    *)
(*          call rx_indicate; no thread runs                               *)
(*   held   the other threads that have the device open                    *)
(***************************************************************************)
EXTENDS Naturals, Sequences, SequencesExt

CONSTANTS
  Chars,
  Bufsz,    \* serial->config.bufsz
  SemMax,   \* RT_SEM_VALUE_MAX
  Others,   \* other threads that open and close the device ...
  Modes     \* ... with RT_DEVICE_FLAG_INT_RX or without

ConsoleAssumption ==
  /\ Bufsz \in Nat /\ Bufsz >= 2
  /\ Chars # {} /\ SemMax \in Nat \ {0}
  /\ Modes \subseteq BOOLEAN

VARIABLES ref, mode, on, rx, ind, sem, pc, isr, held

devVars == <<ref, mode, on>>
shellVars == <<ind, sem, pc>>
vars == <<devVars, rx, shellVars, isr, held>>

Places == 0 .. Bufsz - 1

\* The buffer of rt_serial_open is cleared; which character that is does not matter.
EmptyRing ==
  [buffer |-> [i \in Places |-> CHOOSE c \in Chars : TRUE],
   put |-> 0, get |-> 0, full |-> FALSE]

Init ==
  /\ ref = 0 /\ mode = FALSE /\ on = FALSE /\ rx = EmptyRing
  /\ ind = FALSE /\ sem = 0 /\ pc = "boot"
  /\ isr = FALSE /\ held = {}

-----------------------------------------------------------------------------
(* rt_device_open with rt_serial_open, rt_device_close with                *)
(* rt_serial_close.                                                        *)

\* The flags of the last call replace those of the calls before
Open(int) ==
  /\ ref' = ref + 1
  /\ mode' = int
  /\ on' = (on \/ int)
  /\ rx' = IF on THEN rx ELSE EmptyRing

\* Mutant of Close: the flags are gone when the driver looks at them.
CloseFlagsFirst ==
  /\ ref' = ref - 1
  /\ mode' = (mode /\ ref # 1)
  /\ UNCHANGED on

\* The driver is closed by the last one, and goes by the flags that are set
Close ==
  /\ ref' = ref - 1
  /\ on' = (on /\ ~(ref = 1 /\ mode))
  /\ mode' = (mode /\ ref # 1)

OtherOpen(t, int) ==
  /\ ~isr /\ t \notin held
  /\ Open(int)
  /\ held' = held \cup {t}
  /\ UNCHANGED <<shellVars, isr>>

OtherClose(t) ==
  /\ ~isr /\ t \in held
  /\ Close
  /\ held' = held \ {t}
  /\ UNCHANGED <<rx, shellVars, isr>>

-----------------------------------------------------------------------------
(* The receive interrupt: rt_hw_serial_isr(RT_SERIAL_EVENT_RX_IND).        *)

After(i) == IF i + 1 >= Bufsz THEN 0 ELSE i + 1

\* Mutant of Put: a full buffer is not noticed.
PutOver(r, c) == [r EXCEPT !.buffer[r.put] = c, !.put = After(@)]

\* The oldest character gives way to the new one
Put(r, c) ==
  LET put == After(r.put)
      hit == put = r.get
  IN  [r EXCEPT !.buffer[r.put] = c, !.put = put,
                !.get = IF hit THEN After(@) ELSE @, !.full = (@ \/ hit)]

RxChar(c) ==
  /\ on
  /\ rx' = Put(rx, c)
  /\ isr' = TRUE
  /\ UNCHANGED <<devVars, shellVars, held>>

Length(r) == IF r.put >= r.get THEN r.put - r.get ELSE Bufsz - (r.get - r.put)

\* Mutant of Indication: only a buffer that was empty is worth a signal.
IndicationOnce == IF ind /\ Length(rx) = 1 /\ sem < SemMax THEN sem + 1 ELSE sem

\* finsh_rx_ind: rt_sem_release, which refuses a semaphore at its maximum
Indication == IF ind /\ Length(rx) # 0 /\ sem < SemMax THEN sem + 1 ELSE sem

RxIndicate ==
  /\ isr
  /\ sem' = Indication
  /\ isr' = FALSE
  /\ UNCHANGED <<devVars, rx, ind, pc, held>>

-----------------------------------------------------------------------------
(* The shell.                                                              *)

\* finsh_set_device
ShellOpen ==
  /\ ~isr /\ pc = "boot"
  /\ Open(TRUE)
  /\ pc' = "bind"
  /\ UNCHANGED <<ind, sem, isr, held>>

ShellBind ==
  /\ ~isr /\ pc = "bind"
  /\ ind' = TRUE
  /\ pc' = "read"
  /\ UNCHANGED <<devVars, rx, sem, isr, held>>

Nothing(r) == r.get = r.put /\ ~r.full

\* finsh_getchar: rt_device_read of one character with _serial_int_rx ...
ShellRead ==
  /\ ~isr /\ pc = "read" /\ mode /\ ~Nothing(rx)
  /\ rx' = [rx EXCEPT !.get = After(@), !.full = FALSE]
  /\ UNCHANGED <<devVars, shellVars, isr, held>>

\* ... finds none, or asks the hardware, which the interrupt has emptied ...
ShellReadNone ==
  /\ ~isr /\ pc = "read" /\ (mode => Nothing(rx))
  /\ pc' = "take"
  /\ UNCHANGED <<devVars, rx, ind, sem, isr, held>>

\* ... and rt_sem_take
ShellTake ==
  /\ ~isr /\ pc = "take" /\ sem > 0
  /\ sem' = sem - 1
  /\ pc' = "read"
  /\ UNCHANGED <<devVars, rx, ind, isr, held>>

-----------------------------------------------------------------------------
Shell == ShellOpen \/ ShellBind \/ ShellRead \/ ShellReadNone \/ ShellTake

Next ==
  \/ Shell
  \/ RxIndicate \/ \E c \in Chars : RxChar(c)
  \/ \E t \in Others : OtherClose(t) \/ \E int \in Modes : OtherOpen(t, int)

Spec == Init /\ [][Next]_vars

\* The interrupt handler ends, and the shell gets the CPU when it can run.
FairSpec == Spec /\ WF_vars(RxIndicate) /\ SF_vars(Shell)

-----------------------------------------------------------------------------
(* Properties.                                                             *)

\* Every variable keeps its type.
TypeOK ==
  /\ ref \in Nat /\ mode \in BOOLEAN /\ on \in BOOLEAN
  /\ rx \in [buffer : [Places -> Chars], put : Places, get : Places, full : BOOLEAN]
  /\ ind \in BOOLEAN /\ sem \in 0 .. SemMax
  /\ pc \in {"boot", "bind", "read", "take"}
  /\ isr \in BOOLEAN /\ held \subseteq Others

\* The characters that wait to be read, oldest first
Input(r) == [i \in 1 .. Length(r) |-> r.buffer[(r.get + i - 1) % Bufsz]]

\* "Release semaphore to let finsh thread rx data": the shell does not sleep while
\* there is something to read.
NoMissedInput == pc = "take" /\ sem = 0 /\ ~isr => Length(rx) = 0

\* Nobody has the device open: its interrupt is disabled and its buffer freed.
ClosedIsQuiet == ref = 0 => ~on

\* Characters are read in the order they came.  One that finds the buffer full
\* displaces the oldest one and no other, and is_full does not bring back what
\* was read already.
NewestKept ==
  [][ /\ \A c \in Chars : RxChar(c) =>
           LET all == Append(Input(rx), c)
           IN  Input(rx') = IF Len(all) < Bufsz THEN all ELSE Tail(all)
      /\ ShellRead => Input(rx) # <<>> /\ Input(rx') = Tail(Input(rx)) ]_vars

\* Input wakes the shell, however many characters arrive meanwhile.
InputWakesShell == pc = "take" /\ Length(rx) > 0 ~> pc = "read"
=============================================================================
