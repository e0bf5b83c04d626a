------------------------------- MODULE Event --------------------------------
(***************************************************************************)
(* The event flags of ipc.c: rt_event_init/create, send (from threads and  *)
(* from interrupts), recv, control RESET and detach/delete, with timeouts  *)
(* and with threads deleted while they wait.                               *)
(*                                                                         *)
(*   set       event->set, as a set of bits                                *)
(*   want[t]   event_set and event_info of a thread inside rt_event_recv;  *)
(*             NoRequest for any other thread: nobody reads its fields     *)
(*   asked[t]  the request t made, which send overwrites in event_set      *)
(*   seen[t]   the bits that were set when send woke t                     *)
(*                                                                         *)
(* More labels of pc: "recv" and "recvd" in rt_event_recv, before and      *)
(* after rt_schedule.                                                      *)
(***************************************************************************)
EXTENDS IpcWait

CONSTANTS
  Evt,        \* the suspend list of the event
  Bits,       \* the event flags in use
  Requests,   \* what threads ask for: [set, all, clear]
  NoRequest   \* the fields of a thread that is not in rt_event_recv

\* all is RT_EVENT_FLAG_AND (else RT_EVENT_FLAG_OR), clear RT_EVENT_FLAG_CLEAR
RequestType == [set : SUBSET Bits, all : BOOLEAN, clear : BOOLEAN]

EventAssumption ==
  /\ Evt \in Queues
  /\ \A r \in Requests : r \in RequestType /\ r.set # {}
  /\ NoRequest \notin RequestType

VARIABLES set, want, asked, seen

evtVars == <<set, want, asked, seen>>

EvtPCs == {"run", "sched", "recv", "recvd", "reset", "detach", "wake", "delete"}

EvtInit ==
  /\ Init /\ ObjInit
  /\ set = {}
  /\ want = [t \in Threads |-> NoRequest]
  /\ asked = [t \in Threads |-> NoRequest]
  /\ seen = [t \in Threads |-> {}]

-----------------------------------------------------------------------------
\* The test of rt_event_recv and of rt_event_send
Satisfied(r, bits) ==
  IF r.all THEN r.set \subseteq bits ELSE r.set \cap bits # {}

\* rt_event_recv when the bits are there already
RecvNow(r) ==
  /\ MayBlock /\ Usable
  /\ Satisfied(r, set)
  /\ k' = [k EXCEPT !.error[Self] = "ok"]
  /\ set' = IF r.clear THEN set \ r.set ELSE set
  /\ UNCHANGED <<pc, arg, lazy, objVars, want, asked, seen>>

\* rt_event_recv with timeout 0
RecvPoll(r) ==
  /\ MayBlock /\ Usable
  /\ ~Satisfied(r, set)
  /\ k' = [k EXCEPT !.error[Self] = "timeout"]
  /\ UNCHANGED <<pc, arg, lazy, objVars, evtVars>>

\* rt_event_recv that has to wait
RecvBlock(r, finite) ==
  /\ MayBlock /\ Usable
  /\ ~Satisfied(r, set)
  /\ k' = Wait(k, Evt, finite)
  /\ want' = [want EXCEPT ![Self] = r]
  /\ asked' = [asked EXCEPT ![Self] = r]
  /\ Goto("recv")
  /\ UNCHANGED <<arg, lazy, objVars, set, seen>>

\* The rest of rt_event_recv: thread->error, and *recved from event_set
RecvReturn ==
  /\ At("recvd")
  /\ want' = [want EXCEPT ![Self] = NoRequest]
  /\ asked' = [asked EXCEPT ![Self] = NoRequest]
  /\ seen' = [seen EXCEPT ![Self] = {}]
  /\ Goto("run")
  /\ UNCHANGED <<k, arg, lazy, objVars, set>>

-----------------------------------------------------------------------------
(* rt_event_send.                                                          *)

\* Mutants of Serve: the bits are not cleared for the next waiter; the event is
\* cleared, also of bits the waiter did not ask for; an OR waiter is told the whole set
\* it asked for.
ServeSharing(s, t) ==
  LET r   == s.want[t]
      got == IF r.all THEN r.set ELSE r.set \cap s.set
  IN  IF ~Satisfied(r, s.set) THEN s
      ELSE [s EXCEPT !.want[t].set = got, !.k = ThreadResume(s.k, t)]

ServeAllBits(s, t) ==
  LET r   == s.want[t]
      got == IF r.all THEN r.set ELSE r.set \cap s.set
  IN  IF ~Satisfied(r, s.set) THEN s
      ELSE [k    |-> ThreadResume(s.k, t),
            set  |-> IF r.clear THEN {} ELSE s.set,
            want |-> [s.want EXCEPT ![t].set = got]]

ServeAsked(s, t) ==
  LET r == s.want[t]
  IN  IF ~Satisfied(r, s.set) THEN s
      ELSE [s EXCEPT !.set = IF r.clear THEN @ \ r.set ELSE @,
                     !.k = ThreadResume(s.k, t)]

\* One iteration of the loop over the waiters: the bits t receives are saved in
\* its event_set, cleared if it asked for that, and t is resumed.
Serve(s, t) ==
  LET r   == s.want[t]
      got == IF r.all THEN r.set ELSE r.set \cap s.set
  IN  IF ~Satisfied(r, s.set) THEN s
      ELSE [k    |-> ThreadResume(s.k, t),
            set  |-> IF r.clear THEN s.set \ got ELSE s.set,
            want |-> [s.want EXCEPT ![t].set = got]]

\* Mutant of Sent: only the first waiter is looked at.
SentToFirst(bits) ==
  LET s == [k |-> k, set |-> set \cup bits, want |-> want]
  IN  IF k.list[Evt] = <<>> THEN s ELSE Serve(s, Head(k.list[Evt]))

\* The critical section of rt_event_send
Sent(bits) ==
  FoldLeft(Serve, [k |-> k, set |-> set \cup bits, want |-> want], k.list[Evt])

\* What the threads a send has woken could see (history only)
Show(s, bits) ==
  seen' = [t \in Threads |-> IF t \in On(k, Evt) \ On(s.k, Evt)
                               THEN set \cup bits ELSE seen[t]]

\* rt_event_send called by a thread; rt_schedule if it has woken anybody
Send(bits) ==
  /\ InApp /\ Usable
  /\ LET s == Sent(bits)
     IN  /\ k' = s.k /\ set' = s.set /\ want' = s.want /\ Show(s, bits)
         /\ IF s.k.list[Evt] = k.list[Evt] THEN UNCHANGED pc ELSE Goto("sched")
  /\ UNCHANGED <<arg, lazy, objVars, asked>>

\* rt_event_send called by an interrupt handler
IsrSend(bits) ==
  /\ IrqEnabled /\ Usable
  /\ LET s == Sent(bits)
     IN  /\ set' = s.set /\ want' = s.want /\ Show(s, bits)
         /\ IF s.k.list[Evt] = k.list[Evt]
              THEN UNCHANGED <<k, lazy>>
              ELSE k' = RtSchedule(s.k) /\ Scheduled
  /\ UNCHANGED <<pc, arg, objVars, asked>>

-----------------------------------------------------------------------------
\* rt_event_control(RT_IPC_CMD_RESET)
Reset == StartReset(<<Evt>>) /\ UNCHANGED evtVars

ResetSet ==
  /\ ResetDone
  /\ set' = {}
  /\ UNCHANGED <<want, asked, seen>>

\* rt_event_init, rt_event_create
InitEvent ==
  /\ InApp
  /\ obj = "dead"
  /\ obj' = "live"
  /\ set' = {}
  /\ UNCHANGED <<vars, drain, want, asked, seen>>

-----------------------------------------------------------------------------
EvtService ==
  \/ \E r \in Requests :
        \/ RecvNow(r) \/ RecvPoll(r)
        \/ \E finite \in BOOLEAN : RecvBlock(r, finite)
  \/ \E bits \in SUBSET Bits \ {{}} : Send(bits)
  \/ Reset
  \/ Detach(<<Evt>>) /\ UNCHANGED evtVars
  \/ InitEvent
  \/ \E t \in Workers : Delete(t, "delete") /\ UNCHANGED <<objVars, evtVars>>

EvtContinue ==
  \/ ScheduleFrom("recv", "recvd") /\ UNCHANGED <<objVars, evtVars>>
  \/ RecvReturn
  \/ (WakeAll /\ UNCHANGED evtVars) \/ ResetSet
  \/ Schedule /\ UNCHANGED <<objVars, evtVars>>
  \/ DetachLoop /\ UNCHANGED evtVars
  \/ DeleteEnd /\ UNCHANGED <<objVars, evtVars>>

EvtNext ==
  \/ Boot /\ UNCHANGED <<objVars, evtVars>>
  \/ EvtService
  \/ EvtContinue
  \/ \E bits \in SUBSET Bits \ {{}} : IsrSend(bits)
  \/ Tick /\ UNCHANGED <<objVars, evtVars>>

EvtSpec == EvtInit /\ [][EvtNext]_<<vars, objVars, evtVars>>

-----------------------------------------------------------------------------
(* Properties.                                                             *)

\* Every variable keeps its type, and a thread that waits is asking for something.
EvtTypeOK ==
  /\ WaitTypeOK
  /\ pc \in [Threads -> EvtPCs]
  /\ set \in SUBSET Bits
  /\ want \in [Threads -> RequestType \cup {NoRequest}]
  /\ asked \in [Threads -> Requests \cup {NoRequest}]
  /\ seen \in [Threads -> SUBSET Bits]
  /\ \A t \in On(k, Evt) : want[t] = asked[t] /\ want[t] # NoRequest

\* No missed event: a thread never waits for bits that are set, whichever bits
\* other receivers cleared before or after it queued up.
NoMissedEvent == \A t \in On(k, Evt) : ~Satisfied(want[t], set)

\* A successful rt_event_recv reports bits that were asked for and were set when
\* it was woken, and enough of them: all for AND, at least one for OR.
Received == WokenAt({"recv", "recvd"})
ReportsWhatWasSent ==
  \A t \in Received :
     /\ want[t].set \subseteq asked[t].set \cap seen[t]
     /\ Satisfied(asked[t], want[t].set)

\* One rt_event_send gives a bit to one RT_EVENT_FLAG_CLEAR receiver at most; the bits
\* that these receivers took are gone, and no others are.
Took(t) == t \in Received' \ Received /\ want[t] # NoRequest /\ want[t].clear
Taken == UNION {want'[t].set : t \in {u \in Threads : Took(u)}}
ClearTakesOnce ==
  [][\A t \in Threads : Took(t) =>
       /\ set' = seen'[t] \ Taken
       /\ \A u \in Threads \ {t} : Took(u) => want'[t].set \cap want'[u].set = {}
    ]_<<vars, objVars, evtVars>>
=============================================================================
