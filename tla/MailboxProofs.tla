--------------------------- MODULE MailboxProofs ----------------------------
(***************************************************************************)
(* Proofs about the mailbox of ipc.c (module Mailbox), for any number of   *)
(* threads, any priorities, both queueing policies, any size and any       *)
(* messages: the scheduler's structures stay sound and the ring consistent *)
(* while threads queue up on both sides of the mailbox, are woken, time    *)
(* out, are deleted, reset or left behind by rt_mb_detach; the mailbox is  *)
(* a bounded queue (AbsQueue); and nobody is stranded on either side.      *)
(***************************************************************************)
EXTENDS Mailbox, RtThreadProofs, FiniteSetTheorems

-----------------------------------------------------------------------------
(* The ring, as a sequence.                                                *)

RingOk(r) == r.in = IF r.out + r.entry < Size THEN r.out + r.entry
                                              ELSE r.out + r.entry - Size

\* The fields of a ring.
LEMMA RingFields ==
  ASSUME NEW r \in Rings
  PROVE  /\ r.pool \in [Offsets -> Values \cup {Unset}]
         /\ r.in \in 0 .. Size - 1 /\ r.out \in 0 .. Size - 1 /\ r.entry \in 0 .. Size
         /\ Size \in Nat \ {0}
BY SizeAssumption DEF Rings, Offsets

\* The place of the i-th message is in the ring.
LEMMA PlaceIn ==
  ASSUME NEW r \in Rings, NEW i \in 1 .. Size
  PROVE  (IF r.out + i - 1 < Size THEN r.out + i - 1 ELSE r.out + i - 1 - Size) \in Offsets
BY RingFields DEF Offsets

\* The messages are a sequence.
LEMMA ContentsSeq ==
  ASSUME NEW r \in Rings
  PROVE  /\ Contents(r) \in Seq(Values \cup {Unset}) /\ Len(Contents(r)) = r.entry
         /\ \A i \in 1 .. r.entry : Contents(r)[i] =
              r.pool[IF r.out + i - 1 < Size THEN r.out + i - 1 ELSE r.out + i - 1 - Size]
<1>1. r.entry \in Nat /\ r.entry <= Size /\ r.pool \in [Offsets -> Values \cup {Unset}]
  BY RingFields
<1>2. \A i \in 1 .. r.entry : i \in 1 .. Size
  BY <1>1, SizeAssumption
<1>3. \A i \in 1 .. r.entry :
        r.pool[IF r.out + i - 1 < Size THEN r.out + i - 1 ELSE r.out + i - 1 - Size]
          \in Values \cup {Unset}
  BY <1>1, <1>2, PlaceIn
<1> QED BY <1>1, <1>3 DEF Contents

\* The messages of two rings are the same if they are as many and the same each.
LEMMA ContentsAre ==
  ASSUME NEW r \in Rings, NEW s \in Seq(Values \cup {Unset}), Len(s) = r.entry,
         \A i \in 1 .. r.entry : s[i] =
           r.pool[IF r.out + i - 1 < Size THEN r.out + i - 1 ELSE r.out + i - 1 - Size]
  PROVE  Contents(r) = s
<1>1. /\ Contents(r) \in Seq(Values \cup {Unset}) /\ Len(Contents(r)) = Len(s)
      /\ \A i \in 1 .. Len(s) : Contents(r)[i] = s[i]
  BY ContentsSeq
<1> QED BY <1>1, SeqEqual

\* rt_mb_send_wait puts a message behind the others.
LEMMA SendAppends ==
  ASSUME NEW r \in Rings, RingOk(r), r.entry < Size, NEW v \in Values
  PROVE  /\ RingSend(r, v) \in Rings /\ RingOk(RingSend(r, v))
         /\ RingSend(r, v).entry = r.entry + 1
         /\ Contents(RingSend(r, v)) = Append(Contents(r), v)
<1> DEFINE s == RingSend(r, v)
<1>1. /\ r.pool \in [Offsets -> Values \cup {Unset}]
      /\ r.in \in 0 .. Size - 1 /\ r.out \in 0 .. Size - 1 /\ r.entry \in 0 .. Size
      /\ Size \in Nat \ {0}
  BY RingFields
<1>2. /\ s.pool = [r.pool EXCEPT ![r.in] = v] /\ s.in = After(r.in) /\ s.out = r.out
      /\ s.entry = r.entry + 1
  BY DEF RingSend, Rings
<1>3. After(r.in) \in 0 .. Size - 1 /\ r.entry + 1 \in 0 .. Size
  BY <1>1 DEF After
<1>5. s \in Rings
  BY <1>3 DEF Rings, Offsets, RingSend
<1> HIDE DEF s
<1>6. RingOk(s)
  BY <1>1, <1>2 DEF RingOk, After
<1>7. Contents(s) = Append(Contents(r), v)
  <2> DEFINE a == Append(Contents(r), v)
  <2>1. /\ a \in Seq(Values \cup {Unset}) /\ Len(a) = r.entry + 1
        /\ \A i \in 1 .. r.entry : a[i] = Contents(r)[i]
        /\ a[r.entry + 1] = v
    BY <1>1, ContentsSeq
  <2> HIDE DEF a
  <2>2. ASSUME NEW i \in 1 .. r.entry
        PROVE  a[i] = s.pool[IF s.out + i - 1 < Size THEN s.out + i - 1
                                                     ELSE s.out + i - 1 - Size]
    <3> DEFINE o == IF r.out + i - 1 < Size THEN r.out + i - 1 ELSE r.out + i - 1 - Size
    <3>1. i \in 1 .. Size
      BY <1>1
    <3>2. o \in Offsets
      BY <3>1, PlaceIn
    <3>3. o # r.in
      BY <1>1 DEF RingOk
    <3>4. a[i] = r.pool[o]
      BY <2>1, ContentsSeq
    <3> HIDE DEF o
    <3>5. s.pool[o] = r.pool[o]
      BY <1>1, <1>2, <3>2, <3>3
    <3> QED BY <1>2, <3>4, <3>5 DEF o
  <2>3. a[r.entry + 1] = s.pool[IF s.out + r.entry < Size THEN s.out + r.entry
                                                         ELSE s.out + r.entry - Size]
    <3>1. s.pool[r.in] = v
      BY <1>1, <1>2 DEF Offsets
    <3> QED BY <1>2, <2>1, <3>1 DEF RingOk
  <2>4. \A i \in 1 .. s.entry : a[i] =
           s.pool[IF s.out + i - 1 < Size THEN s.out + i - 1 ELSE s.out + i - 1 - Size]
    <3> SUFFICES ASSUME NEW i \in 1 .. s.entry
                 PROVE  a[i] = s.pool[IF s.out + i - 1 < Size THEN s.out + i - 1
                                                              ELSE s.out + i - 1 - Size]
      OBVIOUS
    <3>1. CASE i = r.entry + 1
      <4>1. s.out + i - 1 = s.out + r.entry /\ s.out + i - 1 - Size = s.out + r.entry - Size
        BY <1>1, <1>2, <3>1
      <4>2. a[i] = a[r.entry + 1]
        BY <3>1
      <4> HIDE DEF a
      <4> QED BY <2>3, <4>1, <4>2
    <3>2. CASE i # r.entry + 1
      <4>1. i \in 1 .. r.entry
        BY <1>1, <1>2, <3>2
      <4> QED BY <2>2, <4>1
    <3> QED BY <3>1, <3>2
  <2>5. Contents(s) = a
    BY <1>2, <1>5, <2>1, <2>4, ContentsAre
  <2> QED BY <2>5 DEF a
<1> QED BY <1>2, <1>5, <1>6, <1>7 DEF s

\* rt_mb_recv takes the first.
LEMMA RecvTakesHead ==
  ASSUME NEW r \in Rings, RingOk(r), r.entry # 0
  PROVE  /\ RingRecv(r) \in Rings /\ RingOk(RingRecv(r))
         /\ RingRecv(r).entry = r.entry - 1
         /\ Contents(r) # <<>> /\ Contents(RingRecv(r)) = Tail(Contents(r))
<1> DEFINE s == RingRecv(r)
<1>1. /\ r.pool \in [Offsets -> Values \cup {Unset}]
      /\ r.in \in 0 .. Size - 1 /\ r.out \in 0 .. Size - 1 /\ r.entry \in 0 .. Size
      /\ Size \in Nat \ {0}
  BY RingFields
<1>2. s.pool = r.pool /\ s.in = r.in /\ s.out = After(r.out) /\ s.entry = r.entry - 1
  BY DEF RingRecv, Rings
<1>3. After(r.out) \in 0 .. Size - 1 /\ r.entry - 1 \in 0 .. Size
  BY <1>1 DEF After
<1>4. s \in Rings
  BY <1>3 DEF Rings, Offsets, RingRecv
<1> HIDE DEF s
<1>5. RingOk(s)
  BY <1>1, <1>2 DEF RingOk, After
<1> DEFINE c == Contents(r)
<1>6. c \in Seq(Values \cup {Unset}) /\ Len(c) = r.entry
  BY ContentsSeq
<1>7. c # <<>>
  BY <1>1, <1>6
<1>8. /\ Tail(c) \in Seq(Values \cup {Unset}) /\ Len(Tail(c)) = s.entry
      /\ \A i \in 1 .. s.entry : Tail(c)[i] = c[i + 1]
  <2> HIDE DEF c
  <2>1. /\ Tail(c) \in Seq(Values \cup {Unset}) /\ Len(Tail(c)) = Len(c) - 1
        /\ \A i \in 1 .. Len(Tail(c)) : Tail(c)[i] = c[i + 1]
    BY <1>6, <1>7, HeadTailProperties
  <2> QED BY <1>2, <1>6, <2>1
<1>9. \A i \in 1 .. s.entry : Tail(c)[i] =
         s.pool[IF s.out + i - 1 < Size THEN s.out + i - 1 ELSE s.out + i - 1 - Size]
  <2> SUFFICES ASSUME NEW i \in 1 .. s.entry
               PROVE  c[i + 1] = s.pool[IF s.out + i - 1 < Size THEN s.out + i - 1
                                                                ELSE s.out + i - 1 - Size]
    BY <1>8
  <2>1. i + 1 \in 1 .. r.entry
    BY <1>1, <1>2
  <2>2. c[i + 1] = r.pool[IF r.out + (i + 1) - 1 < Size THEN r.out + (i + 1) - 1
                                                        ELSE r.out + (i + 1) - 1 - Size]
    BY <2>1, ContentsSeq
  <2>3. (IF r.out + (i + 1) - 1 < Size THEN r.out + (i + 1) - 1 ELSE r.out + (i + 1) - 1 - Size)
          = IF s.out + i - 1 < Size THEN s.out + i - 1 ELSE s.out + i - 1 - Size
    BY <1>1, <1>2, <2>1 DEF After
  <2> QED BY <1>2, <2>2, <2>3
<1>10. Contents(s) = Tail(c)
  BY <1>4, <1>8, <1>9, ContentsAre
<1> QED BY <1>2, <1>4, <1>5, <1>7, <1>10 DEF s

\* rt_mb_urgent puts a message in front of the others.
LEMMA UrgentPrepends ==
  ASSUME NEW r \in Rings, RingOk(r), r.entry < Size, NEW v \in Values
  PROVE  /\ RingUrgent(r, v) \in Rings /\ RingOk(RingUrgent(r, v))
         /\ RingUrgent(r, v).entry = r.entry + 1
         /\ Contents(RingUrgent(r, v)) = <<v>> \o Contents(r)
<1> DEFINE s == RingUrgent(r, v)
           b == Before(r.out)
<1>1. /\ r.pool \in [Offsets -> Values \cup {Unset}]
      /\ r.in \in 0 .. Size - 1 /\ r.out \in 0 .. Size - 1 /\ r.entry \in 0 .. Size
      /\ Size \in Nat \ {0}
  BY RingFields
<1>2. /\ s.pool = [r.pool EXCEPT ![b] = v] /\ s.in = r.in /\ s.out = b
      /\ s.entry = r.entry + 1
  BY DEF RingUrgent, Rings
<1>3. b \in 0 .. Size - 1 /\ b = IF r.out > 0 THEN r.out - 1 ELSE Size - 1
  BY <1>1 DEF Before
<1>4. r.entry + 1 \in 0 .. Size
  BY <1>1
<1>5. s \in Rings
  BY <1>3, <1>4 DEF Rings, Offsets, RingUrgent
<1> HIDE DEF s, b
<1>6. RingOk(s)
  BY <1>1, <1>2, <1>3 DEF RingOk
<1> DEFINE c == Contents(r)
           a == <<v>> \o c
<1>7. c \in Seq(Values \cup {Unset}) /\ Len(c) = r.entry
  BY ContentsSeq
<1>8. /\ a \in Seq(Values \cup {Unset}) /\ Len(a) = s.entry /\ a[1] = v
      /\ \A i \in 2 .. s.entry : a[i] = c[i - 1]
  <2> HIDE DEF c
  <2>1. <<v>> \in Seq(Values \cup {Unset}) /\ Len(<<v>>) = 1 /\ <<v>>[1] = v
    OBVIOUS
  <2>2. /\ a \in Seq(Values \cup {Unset}) /\ Len(a) = 1 + Len(c)
        /\ \A i \in 1 .. 1 + Len(c) : a[i] = IF i <= 1 THEN <<v>>[i] ELSE c[i - 1]
    BY <1>7, <2>1, ConcatProperties
  <2> HIDE DEF a
  <2>3. 1 + Len(c) = s.entry
    BY <1>1, <1>2, <1>7
  <2>4. /\ a \in Seq(Values \cup {Unset}) /\ Len(a) = s.entry
        /\ \A i \in 1 .. s.entry : a[i] = IF i <= 1 THEN <<v>>[i] ELSE c[i - 1]
    BY <2>2, <2>3
  <2> HIDE DEF c
  <2>5. 1 \in 1 .. s.entry /\ \A i \in 2 .. s.entry : i \in 1 .. s.entry /\ ~(i <= 1)
    BY <1>1, <1>2
  <2>6. a[1] = <<v>>[1] /\ \A i \in 2 .. s.entry : a[i] = c[i - 1]
    BY <2>4, <2>5
  <2> QED BY <2>1, <2>4, <2>6
<1> HIDE DEF a
<1>9. \A i \in 1 .. s.entry : a[i] =
         s.pool[IF s.out + i - 1 < Size THEN s.out + i - 1 ELSE s.out + i - 1 - Size]
  <2> SUFFICES ASSUME NEW i \in 1 .. s.entry
               PROVE  a[i] = s.pool[IF s.out + i - 1 < Size THEN s.out + i - 1
                                                            ELSE s.out + i - 1 - Size]
    OBVIOUS
  <2>1. CASE i = 1
    <3>1. (IF s.out + i - 1 < Size THEN s.out + i - 1 ELSE s.out + i - 1 - Size) = b
      BY <1>1, <1>2, <1>3, <2>1
    <3>2. s.pool[b] = v
      BY <1>1, <1>2, <1>3 DEF Offsets
    <3> QED BY <1>8, <2>1, <3>1, <3>2
  <2>2. CASE i # 1
    <3> DEFINE o == IF r.out + (i - 1) - 1 < Size THEN r.out + (i - 1) - 1
                                                  ELSE r.out + (i - 1) - 1 - Size
    <3>1. i \in 2 .. s.entry /\ i - 1 \in 1 .. r.entry /\ i - 1 \in 1 .. Size
      BY <1>1, <1>2, <2>2
    <3>2. a[i] = r.pool[o]
      BY <1>8, <3>1, ContentsSeq
    <3>3. o \in Offsets
      BY <3>1, PlaceIn
    <3>4. o # b
      BY <1>1, <1>3, <3>1
    <3>5. (IF s.out + i - 1 < Size THEN s.out + i - 1 ELSE s.out + i - 1 - Size) = o
      BY <1>1, <1>2, <1>3, <3>1
    <3> HIDE DEF o
    <3>6. s.pool[o] = r.pool[o]
      BY <1>1, <1>2, <3>3, <3>4
    <3> QED BY <3>2, <3>5, <3>6
  <2> QED BY <2>1, <2>2
<1>10. Contents(s) = a
  BY <1>5, <1>8, <1>9, ContentsAre
<1> QED BY <1>2, <1>5, <1>6, <1>10 DEF s, a

\* RESET, and rt_mb_init, leave none.
LEMMA ResetEmpties ==
  ASSUME NEW r \in Rings, NEW s, s = RingReset(r) \/ s = EmptyRing
  PROVE  s \in Rings /\ RingOk(s) /\ s.entry = 0 /\ Contents(s) = <<>>
<1>1. /\ r.pool \in [Offsets -> Values \cup {Unset}] /\ Size \in Nat \ {0}
  BY RingFields
<1>2. s \in Rings /\ s.in = 0 /\ s.out = 0 /\ s.entry = 0
  <2>1. 0 \in Offsets /\ 0 \in 0 .. Size
    BY <1>1 DEF Offsets
  <2>2. CASE s = RingReset(r)
    BY <2>1, <2>2 DEF RingReset, Rings
  <2>3. CASE s = EmptyRing
    <3>1. [o \in Offsets |-> Unset] \in [Offsets -> Values \cup {Unset}]
      OBVIOUS
    <3> QED BY <2>1, <2>3, <3>1 DEF EmptyRing, Rings
  <2> QED BY <2>2, <2>3
<1>3. RingOk(s)
  BY <1>1, <1>2 DEF RingOk
<1>4. Contents(s) \in Seq(Values \cup {Unset}) /\ Len(Contents(s)) = 0
  BY <1>2, ContentsSeq
<1> QED BY <1>2, <1>3, <1>4, EmptySeq

-----------------------------------------------------------------------------
(* The inductive invariant.                                                *)

Loop == {"wait", "back"}

Types ==
  /\ arg \in [Threads -> Threads \cup {NoThread}]
  /\ obj \in {"live", "dying", "dead"}
  /\ call \in [Threads -> [op : {"none", "send", "urgent", "recv"},
                           finite : BOOLEAN, value : Values \cup {Unset}]]
  /\ lost \in [{"send", "recv"} -> Nat]
  /\ mb \in Rings

\* A sender has something to send.
SendersHaveValues == \A t \in Threads : call[t].op = "send" => call[t].value \in Values

\* A waiter is in the loop of rt_mb_recv, or of rt_mb_send_wait, and nobody has told it
\* anything yet.
WaitersInLoop ==
  /\ \A t \in On(k, Receivers) : pc[t] \in Loop /\ k.error[t] = "ok" /\ call[t].op = "recv"
  /\ \A t \in On(k, Senders) : pc[t] \in Loop /\ k.error[t] = "ok" /\ call[t].op = "send"

\* In reset, detach and delete
Drainers == {"reset", "detach", "wake"}

Draining == obj # "live" \/ \E t \in Threads : pc[t] = "reset"

\* The lists that _ipc_list_resume_all has been through are empty: the receivers' first.
Drained ==
  /\ drain \in {<<>>, <<Senders>>, <<Receivers, Senders>>}
  /\ Draining => /\ drain # <<Receivers, Senders>> => k.list[Receivers] = <<>>
                 /\ drain = <<>> => k.list[Senders] = <<>>
  /\ obj = "dead" => drain = <<>>

\* Whoever has tested a list in _ipc_list_resume_all still has that list to empty.
WakersHaveList == \A t \in Threads : pc[t] = "wake" => drain # <<>>

\* One thread detaches the mailbox, or resets it, and nobody is still to look at a
\* mailbox that is gone.
OneDrains ==
  /\ \A t \in Threads : pc[t] \in {"detach", "wake"} =>
       obj = "dying" /\ \A u \in Threads : pc[u] \in {"detach", "wake"} => u = t
  /\ \A t \in Threads : pc[t] = "reset" => obj = "live"
  /\ obj # "live" => WokenAt(Loop) = {}

DrainInv == Drained /\ WakersHaveList /\ OneDrains

MbInv ==
  /\ CoreInv /\ Types /\ RingOk(mb)
  /\ SendersHaveValues /\ WaitersInLoop /\ DrainInv

\* What one step does to the lists and to the messages, as the contract sees it.
Same(q) == On(k', q) = On(k, q)

WakesOne(q) ==
  IF On(k, q) = {} THEN Same(q) ELSE \E t \in On(k, q) : On(k', q) = On(k, q) \ {t}

Effect ==
  \/ mb' = mb /\ Same(Receivers) /\ Same(Senders)
  \/ /\ mb' = mb
     /\ \E t \in Threads : /\ On(k', Receivers) = On(k, Receivers) \ {t}
                           /\ On(k', Senders) = On(k, Senders) \ {t}
  \/ /\ mb' = mb /\ Empty /\ Same(Senders)
     /\ \E t \in Threads : On(k', Receivers) = On(k, Receivers) \cup {t}
  \/ /\ mb' = mb /\ Full /\ Same(Receivers)
     /\ \E t \in Threads : On(k', Senders) = On(k, Senders) \cup {t}
  \/ /\ ~Full /\ WakesOne(Receivers) /\ Same(Senders)
     /\ \E v \in Values : mb' \in {RingSend(mb, v), RingUrgent(mb, v)}
  \/ ~Empty /\ WakesOne(Senders) /\ Same(Receivers) /\ mb' = RingRecv(mb)
  \/ /\ mb' \in {RingReset(mb), EmptyRing}
     /\ On(k', Receivers) = {} /\ On(k', Senders) = {}

\* Whoever waits in q for one of n things stays spoken for when they become m: a new one
\* wakes somebody, and who was woken takes one, leaves none, or is counted as lost.
Spoken(q, op, n, m) ==
  \/ k'.list[q] = <<>> \/ m = 0
  \/ /\ k.list[q] # <<>>
     /\ \/ m <= n /\ WokenFor(op)' = WokenFor(op) /\ lost'[op] = lost[op]
        \/ \E t \in Threads : /\ t \notin WokenFor(op) /\ WokenFor(op)' = WokenFor(op) \cup {t}
                              /\ m = n + 1 /\ lost'[op] = lost[op]
        \/ \E t \in WokenFor(op) : /\ WokenFor(op)' = WokenFor(op) \ {t}
                                   /\ \/ m = n - 1 /\ lost'[op] = lost[op]
                                      \/ m = n /\ lost'[op] = lost[op] + 1

Promise ==
  /\ Effect
  /\ Spoken(Receivers, "recv", mb.entry, mb'.entry)
  /\ Spoken(Senders, "send", Size - mb.entry, Size - mb'.entry)

-----------------------------------------------------------------------------
(* What steps do to the lists, and to the threads that were woken.         *)

\* The two lists of a sound state.
LEMMA TheLists ==
  ASSUME NEW ks, NEW X, Sound(ks, X), NEW q \in {Receivers, Senders}
  PROVE  /\ q \in Queues /\ ks.list[q] \in Seq(Threads) /\ IsInjective(ks.list[q])
         /\ On(ks, q) \subseteq Threads /\ ks \in KernelStates
         /\ ks.list[q] = <<>> <=> On(ks, q) = {}
<1>1. q \in Queues /\ ks \in KernelStates
  BY QueueAssumption DEF Sound
<1>2. ks.list[q] \in Seq(Threads) /\ IsInjective(ks.list[q])
  BY <1>1 DEF Sound, KernelStates, ListsDisjoint, Lists
<1> QED BY <1>1, <1>2, ElementsIn, EmptyQueue DEF On

\* Nobody joins a list: they are as they were, or thread t is in them no more.
Leaves(t) ==
  \/ k'.list[Receivers] = k.list[Receivers] /\ k'.list[Senders] = k.list[Senders]
  \/ /\ t \in Threads
     /\ k'.list[Receivers] = RemoveFirst(k.list[Receivers], t)
     /\ k'.list[Senders] = RemoveFirst(k.list[Senders], t)

LEMMA LeavesSets ==
  ASSUME CoreInv, CoreInv', NEW t, Leaves(t)
  PROVE  /\ On(k', Receivers) \subseteq On(k, Receivers)
         /\ On(k', Senders) \subseteq On(k, Senders)
         /\ k.list[Receivers] = <<>> => k'.list[Receivers] = <<>>
         /\ k.list[Senders] = <<>> => k'.list[Senders] = <<>>
         /\ \/ Same(Receivers) /\ Same(Senders)
            \/ /\ t \in Threads
               /\ On(k', Receivers) = On(k, Receivers) \ {t}
               /\ On(k', Senders) = On(k, Senders) \ {t}
<1>1. /\ On(k', Receivers) \subseteq On(k, Receivers)
      /\ On(k', Senders) \subseteq On(k, Senders)
      /\ \/ Same(Receivers) /\ Same(Senders)
         \/ /\ t \in Threads
            /\ On(k', Receivers) = On(k, Receivers) \ {t}
            /\ On(k', Senders) = On(k, Senders) \ {t}
  <2>1. CASE k'.list[Receivers] = k.list[Receivers] /\ k'.list[Senders] = k.list[Senders]
    BY <2>1 DEF On, Same
  <2>2. CASE /\ t \in Threads
             /\ k'.list[Receivers] = RemoveFirst(k.list[Receivers], t)
             /\ k'.list[Senders] = RemoveFirst(k.list[Senders], t)
    <3>1. \A q \in {Receivers, Senders} :
            k.list[q] \in Seq(Threads) /\ IsInjective(k.list[q])
      BY TheLists DEF CoreInv
    <3>2. \A q \in {Receivers, Senders} : ToSet(RemoveFirst(k.list[q], t)) = ToSet(k.list[q]) \ {t}
      BY <3>1, RemoveFirstProps
    <3> QED BY <2>2, <3>2 DEF On
  <2> QED BY <2>1, <2>2 DEF Leaves
<1>2. \A q \in {Receivers, Senders} : /\ k.list[q] = <<>> <=> On(k, q) = {}
                                      /\ k'.list[q] = <<>> <=> On(k', q) = {}
  BY TheLists DEF CoreInv
<1> QED BY <1>1, <1>2

\* A step that is none of the loop of _ipc_list_resume_all.
LEMMA QuietDrain ==
  ASSUME MbInv, obj' = obj, drain' = drain,
         \A x \in Threads : pc'[x] = pc[x] \/ (pc[x] \notin Drainers /\ pc'[x] \notin Drainers),
         Draining => /\ k.list[Receivers] = <<>> => k'.list[Receivers] = <<>>
                     /\ k.list[Senders] = <<>> => k'.list[Senders] = <<>>,
         obj # "live" => WokenAt(Loop)' = {}
  PROVE  DrainInv'
<1>1. \A x \in Threads : \A l \in Drainers : pc'[x] = l <=> pc[x] = l
  OBVIOUS
<1>2. Draining' <=> Draining
  BY <1>1 DEF Draining, Drainers
<1>3. Drained'
  BY <1>2 DEF MbInv, DrainInv, Drained
<1>4. WakersHaveList' /\ OneDrains'
  BY <1>1 DEF MbInv, DrainInv, WakersHaveList, OneDrains, Drainers
<1> QED BY <1>3, <1>4 DEF DrainInv

\* A step in which nobody joins a list, those who stay in one are told nothing, and
\* nobody is woken with a message or a place.
LEMMA KeepStep ==
  ASSUME MbInv, CoreInv', Types', SendersHaveValues', DrainInv', mb' = mb, lost' = lost,
         NEW t, Leaves(t),
         \A x \in On(k', Receivers) \cup On(k', Senders) :
            k'.error[x] = k.error[x] /\ pc'[x] \in Loop /\ call'[x].op = call[x].op,
         WokenFor("recv")' = WokenFor("recv"), WokenFor("send")' = WokenFor("send")
  PROVE  MbInv' /\ Promise
<1>1. CoreInv
  BY DEF MbInv
<1>2. /\ On(k', Receivers) \subseteq On(k, Receivers)
      /\ On(k', Senders) \subseteq On(k, Senders)
      /\ k.list[Receivers] = <<>> => k'.list[Receivers] = <<>>
      /\ k.list[Senders] = <<>> => k'.list[Senders] = <<>>
      /\ \/ Same(Receivers) /\ Same(Senders)
         \/ /\ t \in Threads
            /\ On(k', Receivers) = On(k, Receivers) \ {t}
            /\ On(k', Senders) = On(k, Senders) \ {t}
  BY <1>1, LeavesSets
<1>3. WaitersInLoop'
  BY <1>2 DEF MbInv, WaitersInLoop
<1>4. MbInv'
  BY <1>3 DEF MbInv
<1>5. Effect
  BY <1>2 DEF Effect
<1>6. mb.entry <= mb.entry /\ Size - mb.entry <= Size - mb.entry
  <2>1. mb.entry \in 0 .. Size /\ Size \in Nat
    BY RingFields DEF MbInv, Types
  <2> QED BY <2>1
<1>7. /\ Spoken(Receivers, "recv", mb.entry, mb'.entry)
      /\ Spoken(Senders, "send", Size - mb.entry, Size - mb'.entry)
  BY <1>2, <1>6, Zenon DEF Spoken
<1> QED BY <1>4, <1>5, <1>7 DEF Promise

\* The same for a step that leaves the mailbox and the calls alone.
LEMMA AloneStep ==
  ASSUME MbInv, CoreInv', UNCHANGED mbVars, DrainInv', obj' \in {"live", "dying", "dead"},
         arg' \in [Threads -> Threads \cup {NoThread}],
         NEW t, Leaves(t),
         \A x \in On(k', Receivers) \cup On(k', Senders) :
            k'.error[x] = k.error[x] /\ pc'[x] \in Loop,
         WokenAt(Loop)' = WokenAt(Loop)
  PROVE  MbInv' /\ Promise
<1>1. mb' = mb /\ call' = call /\ lost' = lost
  BY DEF mbVars
<1>2. Types' /\ SendersHaveValues'
  BY <1>1 DEF MbInv, Types, SendersHaveValues
<1>3. WokenFor("recv")' = WokenFor("recv") /\ WokenFor("send")' = WokenFor("send")
  BY <1>1 DEF WokenFor, Loop
<1> QED BY <1>1, <1>2, <1>3, KeepStep

\* A step that no waiter notices wakes nobody.
LEMMA UnnoticedWokens ==
  ASSUME Unnoticed(k', k), \A x \in Threads : pc'[x] \in Loop <=> pc[x] \in Loop
  PROVE  WokenAt(Loop)' = WokenAt(Loop)
BY DEF WokenAt, Unnoticed

\* What a step that wakes t does to the lists and to the threads that were woken.
LEMMA WokenEffect ==
  ASSUME CoreInv, NEW t \in Threads, NEW err, NEW ks, WokenUp(ks, k, t, err), Unnoticed(k', ks),
         k.stat[t] = "suspend", \A x \in Threads : pc'[x] \in Loop <=> pc[x] \in Loop
  PROVE  /\ k'.prio = k.prio /\ Leaves(t)
         /\ \A q \in {Receivers, Senders} : On(k', q) = On(k, q) \ {t}
         /\ \A x \in On(k', Receivers) \cup On(k', Senders) : k'.error[x] = k.error[x]
         /\ t \notin WokenAt(Loop)
         /\ WokenAt(Loop)' = IF pc[t] \in Loop /\ err = "ok" THEN WokenAt(Loop) \cup {t}
                                                             ELSE WokenAt(Loop)
<1>1. Receivers \in Queues /\ Senders \in Queues
  BY QueueAssumption
<1>2. /\ k'.prio = k.prio
      /\ \A q \in {Receivers, Senders} : /\ k'.list[q] = RemoveFirst(k.list[q], t)
                                         /\ On(k', q) = On(k, q) \ {t}
  BY <1>1 DEF WokenUp, Unnoticed, On
<1>3. \A x \in Threads : k'.error[x] = IF x = t THEN err ELSE k.error[x]
  BY DEF WokenUp, Unnoticed
<1>4. \A x \in Threads : k'.stat[x] \in {"ready", "running"}
                           <=> x = t \/ k.stat[x] \in {"ready", "running"}
  BY DEF WokenUp, Unnoticed
<1>5. \A q \in {Receivers, Senders} : On(k, q) \subseteq Threads
  BY TheLists DEF CoreInv
<1>6. /\ t \notin WokenAt(Loop)
      /\ WokenAt(Loop)' = IF pc[t] \in Loop /\ err = "ok" THEN WokenAt(Loop) \cup {t}
                                                          ELSE WokenAt(Loop)
  BY <1>3, <1>4 DEF WokenAt
<1> QED BY <1>2, <1>3, <1>5, <1>6 DEF Leaves

-----------------------------------------------------------------------------
(* The end of an operation.                                                *)

OpOf(q) == IF q = Receivers THEN "recv" ELSE "send"
Other(q) == IF q = Receivers THEN Senders ELSE Receivers

\* Waiters in terms of the list they are in.
LEMMA WaiterFacts ==
  ASSUME MbInv, NEW q \in {Receivers, Senders}, NEW t \in On(k, q)
  PROVE  /\ t \in Threads /\ pc[t] \in Loop /\ k.error[t] = "ok" /\ call[t].op = OpOf(q)
         /\ k.stat[t] = "suspend" /\ t \notin On(k, Other(q))
         /\ RemoveFirst(k.list[Other(q)], t) = k.list[Other(q)]
         /\ \A op : t \notin WokenFor(op)
<1>1. Receivers # Senders /\ Other(q) \in {Receivers, Senders} /\ OpOf(Other(q)) # OpOf(q)
  BY QueueAssumption DEF Other, OpOf
<1>2. \A p \in {Receivers, Senders} : \A x \in On(k, p) :
        pc[x] \in Loop /\ k.error[x] = "ok" /\ call[x].op = OpOf(p)
  BY <1>1 DEF MbInv, WaitersInLoop, OpOf
<1>3. t \in Threads /\ k.list[Other(q)] \in Seq(Threads) /\ q \in Queues
  BY <1>1, TheLists DEF MbInv, CoreInv
<1>4. k.stat[t] = "suspend"
  BY <1>3, WhereLinked DEF MbInv, CoreInv
<1>5. t \notin On(k, Other(q))
  BY <1>1, <1>2
<1>6. RemoveFirst(k.list[Other(q)], t) = k.list[Other(q)]
  BY <1>3, <1>5, RemoveAbsent DEF On
<1>7. \A op : t \notin WokenFor(op)
  BY <1>4 DEF WokenFor, WokenAt
<1> QED BY <1>2, <1>3, <1>4, <1>5, <1>6, <1>7

\* What an operation does when it has put a message, or taken one, for which somebody
\* may wait in q, to the lists and to the threads that were woken; those in C among them
\* look for themselves.
HandedOver(q, C) ==
  /\ lost' = lost /\ WakesOne(q)
  /\ Same(Other(q)) /\ k'.list[Other(q)] = k.list[Other(q)]
  /\ WokenFor(OpOf(Other(q)))' = WokenFor(OpOf(Other(q))) \ C
  /\ \/ k'.list[q] = <<>>
     \/ /\ k.list[q] # <<>>
        /\ \E h \in Threads : /\ h \notin WokenFor(OpOf(q))
                              /\ WokenFor(OpOf(q))' = WokenFor(OpOf(q)) \cup {h}

\* What is woken in q.
LEMMA FirstWoken ==
  ASSUME MbInv, NEW q \in {Receivers, Senders}, NEW h \in On(k, q),
         NEW ks, WokenUp(ks, k, h, k.error[h]), Unnoticed(k', ks),
         NEW C, \A x \in Threads \ C : pc'[x] = pc[x] /\ call'[x] = call[x],
         \A x \in C : pc'[x] \notin Loop /\ x \in Threads /\ k.stat[x] # "suspend",
         C \cap WokenFor(OpOf(q)) = {}, lost' = lost
  PROVE  /\ HandedOver(q, C) /\ Leaves(h)
         /\ \A x \in On(k', Receivers) \cup On(k', Senders) :
              k'.error[x] = k.error[x] /\ pc'[x] = pc[x] /\ call'[x] = call[x]
<1>1. /\ h \in Threads /\ pc[h] \in Loop /\ k.error[h] = "ok" /\ call[h].op = OpOf(q)
      /\ k.stat[h] = "suspend" /\ h \notin On(k, Other(q)) /\ h \notin WokenFor(OpOf(q))
      /\ RemoveFirst(k.list[Other(q)], h) = k.list[Other(q)]
  BY WaiterFacts
<1>2. /\ Other(q) \in {Receivers, Senders} /\ OpOf(Other(q)) # OpOf(q)
      /\ \A p \in {Receivers, Senders} : p \in Queues
      /\ {q, Other(q)} = {Receivers, Senders}
  BY QueueAssumption DEF Other, OpOf
<1>3. /\ \A p \in {Receivers, Senders} : /\ k'.list[p] = RemoveFirst(k.list[p], h)
                                         /\ On(k', p) = On(k, p) \ {h}
      /\ \A x \in Threads : k'.error[x] = k.error[x]
      /\ \A x \in Threads : k'.stat[x] \in {"ready", "running"}
                              <=> x = h \/ k.stat[x] \in {"ready", "running"}
  BY <1>1, <1>2 DEF WokenUp, Unnoticed, On
<1>4. Leaves(h)
  BY <1>1, <1>3 DEF Leaves
<1>5. h \notin C
  BY <1>1
<1>6. \A p \in {Receivers, Senders} : \A x \in On(k, p) : x \in Threads /\ k.stat[x] = "suspend"
  BY WaiterFacts
<1>7. \A x \in On(k', Receivers) \cup On(k', Senders) :
        k'.error[x] = k.error[x] /\ pc'[x] = pc[x] /\ call'[x] = call[x]
  BY <1>3, <1>6
<1>8. \A x \in Threads, op \in {"recv", "send"} :
        (x \in WokenFor(op))' <=> \/ x \in WokenFor(op) /\ x \notin C
                                  \/ x = h /\ op = OpOf(q)
  <2> SUFFICES ASSUME NEW x \in Threads, NEW op \in {"recv", "send"}
               PROVE  (x \in WokenFor(op))' <=> \/ x \in WokenFor(op) /\ x \notin C
                                                \/ x = h /\ op = OpOf(q)
    OBVIOUS
  <2>1. (x \in WokenFor(op))' <=> /\ pc'[x] \in Loop /\ k'.stat[x] \in {"ready", "running"}
                                  /\ k'.error[x] = "ok" /\ call'[x].op = op
    BY DEF WokenFor, WokenAt, Loop
  <2>2. x \in WokenFor(op) <=> /\ pc[x] \in Loop /\ k.stat[x] \in {"ready", "running"}
                               /\ k.error[x] = "ok" /\ call[x].op = op
    BY DEF WokenFor, WokenAt, Loop
  <2>3. CASE x \in C
    BY <1>5, <2>1, <2>3
  <2>4. CASE x \notin C
    BY <1>1, <1>3, <1>5, <2>1, <2>2, <2>4
  <2> QED BY <2>3, <2>4
<1>9. \A op : WokenFor(op) \subseteq Threads /\ WokenFor(op)' \subseteq Threads
  BY DEF WokenFor, WokenAt
<1>10. OpOf(q) \in {"recv", "send"} /\ OpOf(Other(q)) \in {"recv", "send"}
  BY DEF OpOf
<1>11. WokenFor(OpOf(Other(q)))' = WokenFor(OpOf(Other(q))) \ C
  BY <1>2, <1>8, <1>9, <1>10
<1>12. WokenFor(OpOf(q))' = WokenFor(OpOf(q)) \cup {h}
  BY <1>1, <1>8, <1>9, <1>10
<1>13. k.list[q] # <<>>
  <2>1. k.list[q] = <<>> <=> On(k, q) = {}
    BY TheLists DEF MbInv, CoreInv
  <2> QED BY <2>1
<1>14. WakesOne(q) /\ Same(Other(q)) /\ k'.list[Other(q)] = k.list[Other(q)]
  BY <1>1, <1>2, <1>3 DEF WakesOne, Same
<1> QED BY <1>1, <1>4, <1>7, <1>11, <1>12, <1>13, <1>14 DEF HandedOver

\* The invariant after an operation that has handed over, or found nobody to hand over to.
LEMMA HandOverInv ==
  ASSUME MbInv, obj = "live", CoreInv', Types', SendersHaveValues', RingOk(mb)',
         obj' = obj, drain' = drain, NEW t, Leaves(t),
         \A x \in Threads : pc'[x] = pc[x] \/ (pc[x] \notin Drainers /\ pc'[x] \notin Drainers),
         \A x \in On(k', Receivers) \cup On(k', Senders) :
            k'.error[x] = k.error[x] /\ pc'[x] = pc[x] /\ call'[x] = call[x]
  PROVE  MbInv'
<1>1. /\ On(k', Receivers) \subseteq On(k, Receivers)
      /\ On(k', Senders) \subseteq On(k, Senders)
      /\ k.list[Receivers] = <<>> => k'.list[Receivers] = <<>>
      /\ k.list[Senders] = <<>> => k'.list[Senders] = <<>>
  BY LeavesSets DEF MbInv
<1>2. WaitersInLoop'
  BY <1>1 DEF MbInv, WaitersInLoop
<1>3. DrainInv'
  BY <1>1, QuietDrain
<1> QED BY <1>2, <1>3 DEF MbInv

\* The end of an operation in a thread
LEMMA FinishStep ==
  ASSUME MbInv, obj = "live", NEW q \in {Receivers, Senders}, Finish(q),
         k.cur \in Workers, k.stat[k.cur] = "running", Sound(k, {}),
         pc[k.cur] \in {"run", "back"}, k.cur \notin WokenFor(OpOf(q)),
         mb' \in Rings, RingOk(mb')
  PROVE  MbInv' /\ HandedOver(q, {k.cur})
<1> DEFINE c == k.cur
           l == IF k.list[q] # <<>> THEN "sched" ELSE "run"
<1>1. /\ k' = WakeFirst(k, q) /\ pc' = [pc EXCEPT ![c] = l] /\ call' = [call EXCEPT ![c] = NoCall]
      /\ arg' = arg /\ lazy' = lazy /\ obj' = obj /\ drain' = drain /\ lost' = lost
  BY DEF Finish, Goto, Returned, Self, objVars
<1>2. c \in Threads /\ q \in Queues /\ l \in {"run", "sched"}
  BY QueueAssumption DEF Workers
<1> HIDE DEF l
<1>3. /\ pc' \in [Threads -> ServicePCs] /\ pc'[c] = l /\ \A x \in Threads \ {c} : pc'[x] = pc[x]
      /\ arg' \in [Threads -> ServiceArgs] /\ lazy' \in BOOLEAN
  BY <1>1, <1>2 DEF MbInv, CoreInv, ServicePCs
<1>4. /\ call'[c] = NoCall /\ \A x \in Threads \ {c} : call'[x] = call[x]
      /\ call' \in [Threads -> [op : {"none", "send", "urgent", "recv"},
                                finite : BOOLEAN, value : Values \cup {Unset}]]
  BY <1>1, <1>2 DEF MbInv, Types, NoCall
<1>5. Types' /\ SendersHaveValues' /\ RingOk(mb)'
  BY <1>1, <1>4 DEF MbInv, Types, SendersHaveValues, NoCall
<1>6. \A x \in Threads : pc'[x] = pc[x] \/ (pc[x] \notin Drainers /\ pc'[x] \notin Drainers)
  BY <1>2, <1>3 DEF Drainers
<1>7. CASE k.list[q] # <<>>
  <2> DEFINE h == Head(k.list[q])
  <2>1. h \in Threads /\ h \in On(k, q) /\ k.stat[h] = "suspend"
    BY <1>2, <1>7, FirstWaiter
  <2>2. WokenUp(k', k, h, k.error[h])
    BY <1>1, <1>2, <1>7, ListResumeWakes DEF WakeFirst
  <2> HIDE DEF h
  <2>3. Unnoticed(k', k')
    BY UnnoticedSame
  <2>4. CoreInv'
    BY <1>2, <1>3, <2>1, <2>2, CoreWake DEF MbInv
  <2>5. pc'[c] \notin Loop /\ {c} \cap WokenFor(OpOf(q)) = {}
    BY <1>2, <1>3 DEF Loop
  <2>6. /\ HandedOver(q, {c}) /\ Leaves(h)
        /\ \A x \in On(k', Receivers) \cup On(k', Senders) :
             k'.error[x] = k.error[x] /\ pc'[x] = pc[x] /\ call'[x] = call[x]
    <3>1. \A x \in {c} : pc'[x] \notin Loop /\ x \in Threads /\ k.stat[x] # "suspend"
      BY <1>2, <2>5
    <3> QED BY <1>1, <1>3, <1>4, <2>1, <2>2, <2>3, <2>5, <3>1, FirstWoken
  <2> QED BY <1>1, <1>5, <1>6, <2>4, <2>6, HandOverInv
<1>8. CASE k.list[q] = <<>>
  <2>1. k' = k
    BY <1>1, <1>8 DEF WakeFirst
  <2>2. CoreInv'
    BY <1>2, <1>3, <2>1, CoreStay DEF MbInv
  <2>3. Leaves(c)
    BY <2>1 DEF Leaves
  <2>4. \A x \in On(k', Receivers) \cup On(k', Senders) : x # c /\ x \in Threads
    BY <2>1, WaiterFacts
  <2>5. On(k, q) = {}
    BY <1>8, TheLists
  <2>6. WokenFor(OpOf(Other(q)))' = WokenFor(OpOf(Other(q))) \ {c}
    BY <1>2, <1>3, <1>4, <2>1 DEF WokenFor, WokenAt, Loop
  <2>7. HandedOver(q, {c})
    BY <1>1, <1>8, <2>1, <2>5, <2>6 DEF HandedOver, WakesOne, Same
  <2> QED BY <1>1, <1>3, <1>4, <1>5, <1>6, <2>1, <2>2, <2>3, <2>4, <2>7, HandOverInv
<1> QED BY <1>7, <1>8

\* The end of an operation in an interrupt handler
LEMMA IsrFinishStep ==
  ASSUME MbInv, DeletersMask, IrqEnabled, obj = "live", NEW q \in {Receivers, Senders},
         IsrFinish(q), mb' \in Rings, RingOk(mb')
  PROVE  MbInv' /\ HandedOver(q, {})
<1>1. /\ k.cur \in Threads /\ pc[k.cur] \notin Held /\ Sound(k, {}) /\ q \in Queues
  BY CoreIrq, QueueAssumption DEF MbInv
<1>2. /\ pc' = pc /\ call' = call /\ arg' = arg /\ obj' = obj /\ drain' = drain /\ lost' = lost
  BY DEF IsrFinish, objVars
<1>3. Types' /\ SendersHaveValues' /\ RingOk(mb)'
  BY <1>2 DEF MbInv, Types, SendersHaveValues
<1>4. CASE k.list[q] # <<>>
  <2> DEFINE h == Head(k.list[q])
  <2>1. PICK ks : ks = ListResume(k, q)
    OBVIOUS
  <2>2. k' = RtSchedule(ks) /\ lazy' \in BOOLEAN
    <3>1. lazy' = (lazy /\ k.lock > 0)
      BY <1>4 DEF IsrFinish, Scheduled
    <3> QED BY <1>4, <2>1, <3>1 DEF IsrFinish, WakeFirst
  <2>3. h \in Threads /\ h \in On(k, q) /\ k.stat[h] = "suspend"
    BY <1>1, <1>4, FirstWaiter
  <2>4. WokenUp(ks, k, h, k.error[h])
    BY <1>1, <1>4, <2>1, ListResumeWakes
  <2> HIDE DEF h
  <2>5. CoreInv' /\ Unnoticed(k', ks)
    BY <1>2, <2>2, <2>3, <2>4, CoreIsrWake DEF MbInv
  <2>6. /\ HandedOver(q, {}) /\ Leaves(h)
        /\ \A x \in On(k', Receivers) \cup On(k', Senders) :
             k'.error[x] = k.error[x] /\ pc'[x] = pc[x] /\ call'[x] = call[x]
    <3>1. \A x \in Threads \ {} : pc'[x] = pc[x] /\ call'[x] = call[x]
      BY <1>2
    <3>2. {} \cap WokenFor(OpOf(q)) = {}
      OBVIOUS
    <3>3. \A x \in {} : pc'[x] \notin Loop /\ x \in Threads /\ k.stat[x] # "suspend"
      OBVIOUS
    <3> QED BY <1>2, <2>3, <2>4, <2>5, <3>1, <3>2, <3>3, FirstWoken
  <2> QED BY <1>2, <1>3, <2>5, <2>6, HandOverInv
<1>5. CASE k.list[q] = <<>>
  <2>1. k' = k /\ lazy' = lazy
    BY <1>5 DEF IsrFinish
  <2>2. CoreInv'
    <3>1. CoreInv' = CoreInv
      BY <1>2, <2>1 DEF CoreInv, Limbo, At, Running, Self
    <3> QED BY <3>1 DEF MbInv
  <2>3. Leaves(NoThread)
    BY <2>1 DEF Leaves
  <2>4. On(k, q) = {}
    BY <1>1, <1>5, TheLists
  <2>5. WokenFor(OpOf(Other(q)))' = WokenFor(OpOf(Other(q))) \ {}
    BY <1>2, <2>1 DEF WokenFor, WokenAt
  <2>6. HandedOver(q, {})
    BY <1>2, <1>5, <2>1, <2>4, <2>5 DEF HandedOver, WakesOne, Same
  <2> QED BY <1>2, <1>3, <2>1, <2>2, <2>3, <2>6, HandOverInv
<1> QED BY <1>4, <1>5

\* A mailbox that is not full has a place left.
LEMMA PlaceLeft ==
  ASSUME MbInv, ~Full
  PROVE  mb \in Rings /\ RingOk(mb) /\ mb.entry < Size /\ mb.entry \in 0 .. Size /\ Size \in Nat
<1>1. mb \in Rings /\ RingOk(mb)
  BY DEF MbInv, Types
<1>2. mb.entry \in 0 .. Size /\ Size \in Nat
  BY <1>1, RingFields
<1> QED BY <1>1, <1>2 DEF Full

\* A message that goes in wakes a receiver ...
LEMMA PutPromise ==
  ASSUME MbInv, ~Full, NEW v \in Values, mb' \in {RingSend(mb, v), RingUrgent(mb, v)},
         NEW C, C = {} \/ \E x : C = {x}, HandedOver(Receivers, C)
  PROVE  Promise
<1>1. mb.entry \in 0 .. Size /\ Size \in Nat /\ mb'.entry = mb.entry + 1 /\ mb.entry < Size
  <2>1. mb.entry \in 0 .. Size /\ Size \in Nat /\ mb \in Rings /\ RingOk(mb) /\ mb.entry < Size
    BY PlaceLeft
  <2> QED BY <2>1, SendAppends, UrgentPrepends
<1>2. /\ Other(Receivers) = Senders /\ OpOf(Receivers) = "recv" /\ OpOf(Senders) = "send"
  BY QueueAssumption DEF Other, OpOf
<1>3. Effect
  BY <1>2 DEF Effect, HandedOver
<1>4. Spoken(Receivers, "recv", mb.entry, mb'.entry)
  <2>1. lost'["recv"] = lost["recv"]
    BY DEF HandedOver
  <2> QED BY <1>1, <1>2, <2>1, Zenon DEF Spoken, HandedOver
<1>5. Spoken(Senders, "send", Size - mb.entry, Size - mb'.entry)
  <2>1. lost'["send"] = lost["send"] /\ WokenFor("send")' = WokenFor("send") \ C
        /\ k'.list[Senders] = k.list[Senders]
    BY <1>2 DEF HandedOver
  <2>2. /\ Size - mb'.entry = (Size - mb.entry) - 1 /\ Size - mb'.entry <= Size - mb.entry
    BY <1>1
  <2>3. \/ WokenFor("send")' = WokenFor("send")
        \/ \E x \in WokenFor("send") : WokenFor("send")' = WokenFor("send") \ {x}
    BY <2>1
  <2> QED BY <2>1, <2>2, <2>3, Zenon DEF Spoken
<1> QED BY <1>3, <1>4, <1>5 DEF Promise

\* ... and one that comes out a sender.
LEMMA GetPromise ==
  ASSUME MbInv, ~Empty, mb' = RingRecv(mb),
         NEW C, C = {} \/ \E x : C = {x}, HandedOver(Senders, C)
  PROVE  Promise
<1>1. mb.entry \in 0 .. Size /\ Size \in Nat /\ mb'.entry = mb.entry - 1
  <2>1. mb.entry \in 0 .. Size /\ Size \in Nat /\ mb \in Rings /\ RingOk(mb)
    BY RingFields DEF MbInv, Types
  <2> QED BY <2>1, RecvTakesHead DEF Empty
<1>2. /\ Other(Senders) = Receivers /\ OpOf(Receivers) = "recv" /\ OpOf(Senders) = "send"
  BY QueueAssumption DEF Other, OpOf
<1>3. Effect
  BY <1>2 DEF Effect, HandedOver
<1>4. Spoken(Senders, "send", Size - mb.entry, Size - mb'.entry)
  <2>1. lost'["send"] = lost["send"]
    BY DEF HandedOver
  <2>2. Size - mb'.entry = (Size - mb.entry) + 1
    BY <1>1
  <2> QED BY <1>2, <2>1, <2>2, Zenon DEF Spoken, HandedOver
<1>5. Spoken(Receivers, "recv", mb.entry, mb'.entry)
  <2>1. lost'["recv"] = lost["recv"] /\ WokenFor("recv")' = WokenFor("recv") \ C
        /\ k'.list[Receivers] = k.list[Receivers]
    BY <1>2 DEF HandedOver
  <2>2. mb'.entry = mb.entry - 1 /\ mb'.entry <= mb.entry
    BY <1>1
  <2>3. \/ WokenFor("recv")' = WokenFor("recv")
        \/ \E x \in WokenFor("recv") : WokenFor("recv")' = WokenFor("recv") \ {x}
    BY <2>1
  <2> QED BY <2>1, <2>2, <2>3, Zenon DEF Spoken
<1> QED BY <1>3, <1>4, <1>5 DEF Promise

-----------------------------------------------------------------------------
(* Waiting.                                                                *)

\* A thread joins list q, because there is nothing in it for the thread.
LEMMA BlockStep ==
  ASSUME MbInv, obj = "live", NEW q \in {Receivers, Senders}, NEW c, Block(q, c),
         c \in [op : {"none", "send", "urgent", "recv"},
                finite : BOOLEAN, value : Values \cup {Unset}],
         c.op = OpOf(q), c.op = "send" => c.value \in Values,
         k.cur \in Workers, k.stat[k.cur] = "running", Sound(k, {}),
         pc[k.cur] \in {"run", "back"}, k.cur \notin WokenFor(OpOf(Other(q))),
         mb' = mb, IF q = Receivers THEN Empty ELSE Full
  PROVE  MbInv' /\ Promise
<1> DEFINE t == k.cur
           e == [k EXCEPT !.error[t] = "ok"]
           s == ListSuspend(e, q, t)
<1>1. /\ k' = (IF c.finite THEN StartTimer(s, t) ELSE s)
      /\ pc' = [pc EXCEPT ![t] = "wait"] /\ call' = [call EXCEPT ![t] = c]
      /\ arg' = arg /\ lazy' = lazy /\ obj' = obj /\ drain' = drain /\ lost' = lost
  BY DEF Block, Wait, Goto, Self, objVars
<1>2. t \in Threads /\ q \in Queues
  BY QueueAssumption DEF Workers
<1>3. /\ Sound(e, {}) /\ e.stat = k.stat /\ e.prio = k.prio /\ e.list = k.list
      /\ e.cur = k.cur /\ e.lock = k.lock
      /\ e.error[t] = "ok" /\ \A x \in Threads \ {t} : e.error[x] = k.error[x]
  <2>1. k \in KernelStates
    BY DEF Sound
  <2>2. /\ e \in KernelStates /\ e.stat = k.stat /\ e.prio = k.prio /\ e.list = k.list
        /\ e.cur = k.cur /\ e.lock = k.lock /\ e.timer = k.timer /\ e.group = k.group
        /\ e.error[t] = "ok" /\ \A x \in Threads \ {t} : e.error[x] = k.error[x]
    BY <1>2, <2>1 DEF KernelStates, Errors
  <2> HIDE DEF e
  <2> QED BY <2>2, SoundSame
<1> HIDE DEF e
<1>4. Blocked(s, e, q, t)
  <2>1. e.stat[t] \in {"ready", "running"}
    BY <1>3
  <2> QED BY <1>2, <1>3, <2>1, FifoBlocks, PrioBlocks DEF ListSuspend
<1> HIDE DEF s
<1>5. Blocked(k', e, q, t)
  BY <1>1, <1>2, <1>4, TimerBlocks
<1>6. /\ \A x \in Threads : k'.stat[x] = IF x = t THEN "suspend" ELSE k.stat[x]
      /\ k'.error[t] = "ok" /\ \A x \in Threads \ {t} : k'.error[x] = k.error[x]
      /\ On(k', q) = On(k, q) \cup {t} /\ k'.list[Other(q)] = k.list[Other(q)]
  <2>1. Other(q) \in Queues \ {q}
    BY QueueAssumption DEF Other
  <2> QED BY <1>2, <1>3, <1>5, <2>1 DEF Blocked, On
<1>7. CoreInv'
  <2>1. e.cur = k.cur /\ e.lock = k.lock /\ \A x \in Threads : e.stat[x] = k.stat[x]
    BY <1>3
  <2>2. arg' \in [Threads -> ServiceArgs] /\ lazy' \in BOOLEAN
    BY <1>1 DEF MbInv, CoreInv
  <2> QED BY <1>1, <1>2, <1>5, <2>1, <2>2, CoreBlock DEF MbInv
<1>8. /\ pc'[t] = "wait" /\ \A x \in Threads \ {t} : pc'[x] = pc[x]
      /\ call'[t] = c /\ \A x \in Threads \ {t} : call'[x] = call[x]
  BY <1>1, <1>2 DEF MbInv, CoreInv, Types
<1>9. Types' /\ SendersHaveValues' /\ RingOk(mb)'
  BY <1>1, <1>2, <1>8 DEF MbInv, Types, SendersHaveValues
<1>10. \A p \in {Receivers, Senders} : \A x \in On(k, p) : x \in Threads /\ x # t
  BY WaiterFacts
<1>11. WaitersInLoop'
  <2>1. Same(Other(q))
    BY <1>6 DEF Same, On
  <2>2. \A x \in On(k', q) : pc'[x] \in Loop /\ k'.error[x] = "ok" /\ call'[x].op = OpOf(q)
    BY <1>6, <1>8, <1>10, WaiterFacts DEF Loop
  <2>3. \A x \in On(k', Other(q)) :
          pc'[x] \in Loop /\ k'.error[x] = "ok" /\ call'[x].op = OpOf(Other(q))
    <3>1. Other(q) \in {Receivers, Senders}
      BY DEF Other
    <3> QED BY <1>6, <1>8, <1>10, <2>1, <3>1, WaiterFacts DEF Loop, Same
  <2> QED BY <2>2, <2>3, QueueAssumption DEF WaitersInLoop, Other, OpOf
<1>12. DrainInv'
  <2>1. ~Draining
    <3>1. \A x \in Threads : pc[x] # "reset"
      BY DEF MbInv, CoreInv, Held
    <3> QED BY <3>1 DEF Draining
  <2>2. \A x \in Threads : pc'[x] = pc[x] \/ (pc[x] \notin Drainers /\ pc'[x] \notin Drainers)
    BY <1>2, <1>8 DEF Drainers
  <2> QED BY <1>1, <2>1, <2>2, QuietDrain
<1>13. MbInv'
  BY <1>7, <1>9, <1>11, <1>12 DEF MbInv
<1>14. Effect
  BY <1>2, <1>6, QueueAssumption DEF Effect, Other, Same, On
<1>15. \A op : WokenFor(op)' = WokenFor(op) \ {t}
  <2> SUFFICES ASSUME NEW op PROVE WokenFor(op)' = WokenFor(op) \ {t}
    OBVIOUS
  <2> QED BY <1>2, <1>6, <1>8 DEF WokenFor, WokenAt
<1>16. mb.entry \in 0 .. Size /\ Size \in Nat /\ mb.entry <= mb.entry
       /\ Size - mb.entry <= Size - mb.entry
  <2>1. mb.entry \in 0 .. Size /\ Size \in Nat
    BY RingFields DEF MbInv, Types
  <2> QED BY <2>1
<1>17. CASE q = Receivers
  <2>1. mb'.entry = 0 /\ Other(q) = Senders /\ OpOf(Other(q)) = "send"
    BY <1>17, QueueAssumption DEF Empty, Other, OpOf
  <2>2. WokenFor("send")' = WokenFor("send") /\ lost'["send"] = lost["send"]
        /\ k'.list[Senders] = k.list[Senders] /\ mb'.entry = mb.entry
    BY <1>1, <1>6, <1>15, <2>1
  <2>3. Spoken(Receivers, "recv", mb.entry, mb'.entry)
    BY <2>1 DEF Spoken
  <2>4. Spoken(Senders, "send", Size - mb.entry, Size - mb'.entry)
    BY <1>16, <2>2, Zenon DEF Spoken
  <2> QED BY <1>13, <1>14, <2>3, <2>4 DEF Promise
<1>18. CASE q = Senders
  <2>1. Size - mb'.entry = 0 /\ Other(q) = Receivers /\ OpOf(Other(q)) = "recv"
    BY <1>16, <1>18, QueueAssumption DEF Full, Other, OpOf
  <2>2. WokenFor("recv")' = WokenFor("recv") /\ lost'["recv"] = lost["recv"]
        /\ k'.list[Receivers] = k.list[Receivers] /\ mb'.entry = mb.entry
    BY <1>1, <1>6, <1>15, <2>1
  <2>3. Spoken(Senders, "send", Size - mb.entry, Size - mb'.entry)
    BY <2>1 DEF Spoken
  <2>4. Spoken(Receivers, "recv", mb.entry, mb'.entry)
    BY <1>16, <2>2, Zenon DEF Spoken
  <2> QED BY <1>13, <1>14, <2>3, <2>4 DEF Promise
<1> QED BY <1>17, <1>18

-----------------------------------------------------------------------------
(* One lemma for each step: the invariant, and what the contract sees.     *)

\* rt_mb_send_wait with a place free, and rt_mb_urgent
LEMMA SendStep ==
  ASSUME MbInv, NEW v \in Values, Send(v) \/ Urgent(v)
  PROVE  MbInv' /\ Promise
<1>1. /\ InApp /\ obj = "live" /\ ~Full /\ Finish(Receivers)
      /\ mb' \in {RingSend(mb, v), RingUrgent(mb, v)}
  BY DEF Send, SendNow, Urgent, Usable
<1>2. /\ k.cur \in Workers /\ pc[k.cur] = "run" /\ k.stat[k.cur] = "running" /\ Sound(k, {})
  BY <1>1, CoreInApp DEF MbInv
<1>3. k.cur \notin WokenFor("recv") /\ OpOf(Receivers) = "recv"
  BY <1>2 DEF WokenFor, WokenAt, OpOf
<1>4. mb' \in Rings /\ RingOk(mb')
  <2>1. mb \in Rings /\ RingOk(mb) /\ mb.entry < Size
    BY <1>1, PlaceLeft
  <2> QED BY <1>1, <2>1, SendAppends, UrgentPrepends
<1>5. MbInv' /\ HandedOver(Receivers, {k.cur})
  BY <1>1, <1>2, <1>3, <1>4, FinishStep
<1> QED BY <1>1, <1>5, PutPromise

\* rt_mb_recv with a message there
LEMMA RecvStep ==
  ASSUME MbInv, Recv
  PROVE  MbInv' /\ Promise
<1>1. InApp /\ obj = "live" /\ ~Empty /\ Finish(Senders) /\ mb' = RingRecv(mb)
  BY DEF Recv, RecvNow, Usable
<1>2. /\ k.cur \in Workers /\ pc[k.cur] = "run" /\ k.stat[k.cur] = "running" /\ Sound(k, {})
  BY <1>1, CoreInApp DEF MbInv
<1>3. k.cur \notin WokenFor(OpOf(Senders))
  BY <1>2 DEF WokenFor, WokenAt
<1>4. mb' \in Rings /\ RingOk(mb')
  BY <1>1, RecvTakesHead DEF MbInv, Types, Empty
<1>5. MbInv' /\ HandedOver(Senders, {k.cur})
  BY <1>1, <1>2, <1>3, <1>4, FinishStep
<1> QED BY <1>1, <1>5, GetPromise

\* rt_mb_send_wait and rt_mb_recv join their list.
LEMMA FirstBlockStep ==
  ASSUME MbInv, NEW finite \in BOOLEAN, NEW v,
         (v \in Values /\ SendBlock(v, finite)) \/ RecvBlock(finite)
  PROVE  MbInv' /\ Promise
<1>1. MayBlock /\ obj = "live" /\ mb' = mb
  BY DEF SendBlock, RecvBlock, Usable
<1>2. /\ k.cur \in Workers /\ pc[k.cur] = "run" /\ k.stat[k.cur] = "running" /\ Sound(k, {})
  BY <1>1, CoreInApp DEF MayBlock, MbInv
<1>3. \A op : k.cur \notin WokenFor(op)
  BY <1>2 DEF WokenFor, WokenAt
<1>4. CASE v \in Values /\ SendBlock(v, finite)
  <2> DEFINE c == CallTo("send", finite, v)
  <2>1. Block(Senders, c) /\ Full
    BY <1>4 DEF SendBlock
  <2>2. /\ c \in [op : {"none", "send", "urgent", "recv"},
                  finite : BOOLEAN, value : Values \cup {Unset}]
        /\ c.op = OpOf(Senders) /\ c.value \in Values
    BY <1>4, QueueAssumption DEF CallTo, OpOf
  <2>3. IF Senders = Receivers THEN Empty ELSE Full
    BY <2>1, QueueAssumption
  <2> HIDE DEF c
  <2> QED BY <1>1, <1>2, <1>3, <2>1, <2>2, <2>3, BlockStep
<1>5. CASE RecvBlock(finite)
  <2> DEFINE c == CallTo("recv", finite, Unset)
  <2>1. Block(Receivers, c) /\ Empty
    BY <1>5 DEF RecvBlock
  <2>2. /\ c \in [op : {"none", "send", "urgent", "recv"},
                  finite : BOOLEAN, value : Values \cup {Unset}]
        /\ c.op = OpOf(Receivers) /\ c.op # "send"
    BY QueueAssumption DEF CallTo, OpOf
  <2>3. IF Receivers = Receivers THEN Empty ELSE Full
    BY <2>1
  <2> HIDE DEF c
  <2> QED BY <1>1, <1>2, <1>3, <2>1, <2>2, <2>3, BlockStep
<1> QED BY <1>4, <1>5

\* A thread that was woken with a message or a place looks at a mailbox that is there.
LEMMA RetryFacts ==
  ASSUME MbInv, NEW op \in {"send", "recv"}, Retrying(op)
  PROVE  /\ k.cur \in Workers /\ pc[k.cur] = "back" /\ k.stat[k.cur] = "running"
         /\ Sound(k, {}) /\ k.cur \in WokenFor(op) /\ obj = "live"
         /\ \A o : o # op => k.cur \notin WokenFor(o)
<1>1. /\ k.cur # NoThread /\ pc[k.cur] = "back" /\ k.error[k.cur] = "ok" /\ call[k.cur].op = op
  BY DEF Retrying, At, Running, Self
<1>2. k.cur \in Workers /\ k.cur \in Threads /\ k.stat[k.cur] = "running" /\ Sound(k, {})
  BY <1>1, CoreFacts DEF MbInv
<1>3. k.cur \in WokenAt(Loop) /\ k.cur \in WokenFor(op)
  BY <1>1, <1>2 DEF WokenFor, WokenAt, Loop
<1>4. obj = "live"
  BY <1>3 DEF MbInv, DrainInv, OneDrains
<1> QED BY <1>1, <1>2, <1>3, <1>4 DEF WokenFor

\* The loop of rt_mb_send_wait
LEMMA RetrySendStep ==
  ASSUME MbInv, RetrySend
  PROVE  MbInv' /\ Promise
<1>1. /\ k.cur \in Workers /\ pc[k.cur] = "back" /\ k.stat[k.cur] = "running" /\ Sound(k, {})
      /\ k.cur \notin WokenFor("recv") /\ obj = "live" /\ call[k.cur].op = "send"
  BY RetryFacts DEF RetrySend, Retrying, Self
<1>2. OpOf(Receivers) = "recv" /\ OpOf(Senders) = "send" /\ Other(Senders) = Receivers
  BY QueueAssumption DEF OpOf, Other
<1>3. k.cur \in Threads /\ call[k.cur].value \in Values
  BY <1>1 DEF MbInv, SendersHaveValues, Workers
<1>4. CASE SendNow(call[k.cur].value)
  <2>1. PICK v \in Values : v = call[k.cur].value
    BY <1>3
  <2>2. ~Full /\ Finish(Receivers) /\ mb' \in {RingSend(mb, v), RingUrgent(mb, v)}
    BY <1>4, <2>1 DEF SendNow
  <2>3. mb' \in Rings /\ RingOk(mb')
    <3>1. mb \in Rings /\ RingOk(mb) /\ mb.entry < Size
      BY <2>2, PlaceLeft
    <3> QED BY <2>2, <3>1, SendAppends, UrgentPrepends
  <2>4. MbInv' /\ HandedOver(Receivers, {k.cur})
    BY <1>1, <1>2, <2>2, <2>3, FinishStep
  <2> QED BY <2>2, <2>4, PutPromise
<1>5. CASE Full /\ Block(Senders, call[k.cur]) /\ mb' = mb
  <2>1. PICK c : c = call[k.cur]
    OBVIOUS
  <2>2. /\ c \in [op : {"none", "send", "urgent", "recv"},
                  finite : BOOLEAN, value : Values \cup {Unset}]
        /\ c.op = OpOf(Senders) /\ c.value \in Values
    BY <1>1, <1>2, <1>3, <2>1 DEF MbInv, Types
  <2>3. /\ IF Senders = Receivers THEN Empty ELSE Full
        /\ Block(Senders, c) /\ k.cur \notin WokenFor(OpOf(Other(Senders)))
    BY <1>1, <1>2, <1>5, <2>1, QueueAssumption
  <2> QED BY <1>1, <1>5, <2>2, <2>3, BlockStep
<1> QED BY <1>4, <1>5 DEF RetrySend, Self

\* The loop of rt_mb_recv
LEMMA RetryRecvStep ==
  ASSUME MbInv, RetryRecv
  PROVE  MbInv' /\ Promise
<1>1. /\ k.cur \in Workers /\ pc[k.cur] = "back" /\ k.stat[k.cur] = "running" /\ Sound(k, {})
      /\ k.cur \notin WokenFor("send") /\ obj = "live" /\ call[k.cur].op = "recv"
  BY RetryFacts DEF RetryRecv, Retrying, Self
<1>2. OpOf(Receivers) = "recv" /\ OpOf(Senders) = "send" /\ Other(Receivers) = Senders
  BY QueueAssumption DEF OpOf, Other
<1>3. CASE RecvNow
  <2>1. ~Empty /\ Finish(Senders) /\ mb' = RingRecv(mb)
    BY <1>3 DEF RecvNow
  <2>2. mb' \in Rings /\ RingOk(mb')
    BY <2>1, RecvTakesHead DEF MbInv, Types, Empty
  <2>3. MbInv' /\ HandedOver(Senders, {k.cur})
    BY <1>1, <1>2, <2>1, <2>2, FinishStep
  <2> QED BY <2>1, <2>3, GetPromise
<1>4. CASE Empty /\ Block(Receivers, call[k.cur]) /\ mb' = mb
  <2>1. PICK c : c = call[k.cur]
    OBVIOUS
  <2>2. /\ c \in [op : {"none", "send", "urgent", "recv"},
                  finite : BOOLEAN, value : Values \cup {Unset}]
        /\ c.op = OpOf(Receivers) /\ c.op # "send"
    BY <1>1, <1>2, <2>1 DEF MbInv, Types, Workers
  <2>3. /\ IF Receivers = Receivers THEN Empty ELSE Full
        /\ Block(Receivers, c) /\ k.cur \notin WokenFor(OpOf(Other(Receivers)))
    BY <1>1, <1>2, <1>4, <2>1
  <2> QED BY <1>1, <1>4, <2>2, <2>3, BlockStep
<1> QED BY <1>3, <1>4 DEF RetryRecv, Self

\* A message, or a place, in an interrupt handler
LEMMA IsrStep ==
  ASSUME MbInv, DeletersMask, IsrRecv \/ \E v \in Values : IsrSend(v)
  PROVE  MbInv' /\ Promise
<1>1. CASE IsrRecv
  <2>1. ~Empty /\ IsrFinish(Senders) /\ mb' = RingRecv(mb) /\ IrqEnabled /\ obj = "live"
    BY <1>1 DEF IsrRecv, Usable
  <2>2. mb' \in Rings /\ RingOk(mb')
    BY <2>1, RecvTakesHead DEF MbInv, Types, Empty
  <2>3. MbInv' /\ HandedOver(Senders, {})
    BY <2>1, <2>2, IsrFinishStep
  <2> QED BY <2>1, <2>3, GetPromise
<1>2. CASE \E v \in Values : IsrSend(v)
  <2>1. PICK v \in Values : IsrSend(v)
    BY <1>2
  <2>2. /\ ~Full /\ IsrFinish(Receivers) /\ mb' \in {RingSend(mb, v), RingUrgent(mb, v)}
        /\ IrqEnabled /\ obj = "live"
    BY <2>1 DEF IsrSend, Usable
  <2>3. mb' \in Rings /\ RingOk(mb')
    <3>1. mb \in Rings /\ RingOk(mb) /\ mb.entry < Size
      BY <2>2, PlaceLeft
    <3> QED BY <2>2, <3>1, SendAppends, UrgentPrepends
  <2>4. MbInv' /\ HandedOver(Receivers, {})
    BY <2>2, <2>3, IsrFinishStep
  <2> QED BY <2>2, <2>4, PutPromise
<1> QED BY <1>1, <1>2

\* A woken thread returns: with the error it was woken with, or because it would have to
\* wait again and nothing is left of its time.
LEMMA ReturnStep ==
  ASSUME MbInv, (ReturnError /\ UNCHANGED mb) \/ RetryExpired
  PROVE  MbInv' /\ Promise
<1> DEFINE c == k.cur
<1>1. /\ c # NoThread /\ pc[c] = "back" /\ mb' = mb
      /\ pc' = [pc EXCEPT ![c] = "run"] /\ call' = [call EXCEPT ![c] = NoCall]
      /\ arg' = arg /\ lazy' = lazy /\ obj' = obj /\ drain' = drain /\ lost' = lost
  BY DEF ReturnError, RetryExpired, Expire, Retrying, At, Running, Self, Goto, Returned, objVars
<1>2. c \in Workers /\ c \in Threads /\ k.stat[c] = "running" /\ Sound(k, {})
  BY <1>1, CoreFacts DEF MbInv
<1>3. /\ pc'[c] = "run" /\ \A x \in Threads \ {c} : pc'[x] = pc[x]
      /\ pc' \in [Threads -> ServicePCs] /\ arg' \in [Threads -> ServiceArgs] /\ lazy' \in BOOLEAN
  BY <1>1, <1>2 DEF MbInv, CoreInv, ServicePCs
<1>4. /\ call'[c] = NoCall /\ \A x \in Threads \ {c} : call'[x] = call[x]
      /\ call' \in [Threads -> [op : {"none", "send", "urgent", "recv"},
                                finite : BOOLEAN, value : Values \cup {Unset}]]
  BY <1>1, <1>2 DEF MbInv, Types, NoCall
<1>5. Types' /\ SendersHaveValues' /\ RingOk(mb)'
  BY <1>1, <1>4 DEF MbInv, Types, SendersHaveValues, NoCall
<1>6. /\ k'.list = k.list /\ k'.stat = k.stat /\ k'.cur = k.cur /\ k'.lock = k.lock
      /\ \A x \in Threads \ {c} : k'.error[x] = k.error[x]
      /\ Sound(k', {})
  <2>1. CASE k' = k
    BY <1>2, <2>1
  <2>2. CASE \E x \in Errors : k' = [k EXCEPT !.error[c] = x]
    <3>1. PICK x \in Errors : k' = [k EXCEPT !.error[c] = x]
      BY <2>2
    <3>2. k \in KernelStates
      BY <1>2 DEF Sound
    <3>3. /\ k' \in KernelStates /\ k'.stat = k.stat /\ k'.prio = k.prio /\ k'.list = k.list
          /\ k'.cur = k.cur /\ k'.lock = k.lock /\ k'.timer = k.timer /\ k'.group = k.group
          /\ \A y \in Threads \ {c} : k'.error[y] = k.error[y]
      BY <1>2, <3>1, <3>2 DEF KernelStates
    <3> QED BY <1>2, <3>3, SoundSame
  <2>3. k' = k \/ \E x \in Errors : k' = [k EXCEPT !.error[c] = x]
    <3>1. k.error[c] \in Errors /\ "timeout" \in Errors
      BY <1>2 DEF Sound, KernelStates, Errors
    <3> QED BY <3>1 DEF ReturnError, RetryExpired, Expire, Self
  <2> QED BY <2>1, <2>2, <2>3
<1>7. CoreInv'
  <2>1. \A x \in Threads : k'.stat[x] = k.stat[x]
    BY <1>6
  <2> QED BY <1>2, <1>3, <1>6, <2>1, CoreAdjust DEF MbInv
<1>8. Leaves(c)
  BY <1>6 DEF Leaves
<1>9. \A x \in On(k', Receivers) \cup On(k', Senders) : x \in Threads /\ x # c
  BY <1>2, <1>6, WaiterFacts DEF On
<1>10. \A x \in On(k', Receivers) \cup On(k', Senders) : pc[x] \in Loop
  BY <1>6, WaiterFacts DEF On
<1>11. DrainInv'
  <2>1. \A x \in Threads : pc'[x] = pc[x] \/ (pc[x] \notin Drainers /\ pc'[x] \notin Drainers)
    BY <1>1, <1>3 DEF Drainers
  <2>2. obj # "live" => WokenAt(Loop)' = {}
    BY <1>2, <1>3, <1>6 DEF MbInv, DrainInv, OneDrains, WokenAt, Loop
  <2> QED BY <1>1, <1>6, <2>1, <2>2, QuietDrain
<1>12. \A op : WokenFor(op)' = WokenFor(op) \ {c}
  <2> SUFFICES ASSUME NEW op PROVE WokenFor(op)' = WokenFor(op) \ {c}
    OBVIOUS
  <2> QED BY <1>2, <1>3, <1>4, <1>6 DEF WokenFor, WokenAt
<1>13. CASE ReturnError
  <2>1. \A op : c \notin WokenFor(op)
    BY <1>13 DEF ReturnError, WokenFor, WokenAt, Self
  <2>2. WokenFor("recv")' = WokenFor("recv") /\ WokenFor("send")' = WokenFor("send")
    BY <1>12, <2>1
  <2> QED BY <1>1, <1>3, <1>4, <1>5, <1>6, <1>7, <1>8, <1>9, <1>10, <1>11, <2>2, KeepStep
<1>14. CASE RetryExpired
  <2>1. MbInv'
    <3>1. WaitersInLoop'
      <4>1. Same(Receivers) /\ Same(Senders)
        BY <1>6 DEF Same, On
      <4> QED BY <1>3, <1>4, <1>6, <1>9, <4>1 DEF MbInv, WaitersInLoop, Same
    <3> QED BY <1>5, <1>7, <1>11, <3>1 DEF MbInv
  <2>2. Effect
    BY <1>1, <1>6 DEF Effect, Same, On
  <2>3. mb.entry \in 0 .. Size /\ Size \in Nat /\ mb.entry <= mb.entry
        /\ Size - mb.entry <= Size - mb.entry
    <3>1. mb.entry \in 0 .. Size /\ Size \in Nat
      BY RingFields DEF MbInv, Types
    <3> QED BY <3>1
  <2>4. CASE Full /\ Expire("send")
    <3>1. c \notin WokenFor("recv")
      BY <2>4, RetryFacts DEF Expire
    <3>2. WokenFor("recv")' = WokenFor("recv") /\ Size - mb'.entry = 0
      BY <1>1, <1>12, <2>3, <2>4, <3>1 DEF Full
    <3>3. Spoken(Receivers, "recv", mb.entry, mb'.entry)
      BY <1>1, <1>6, <2>3, <3>2, Zenon DEF Spoken
    <3> QED BY <2>1, <2>2, <3>2, <3>3 DEF Promise, Spoken
  <2>5. CASE Empty /\ Expire("recv")
    <3>1. c \notin WokenFor("send")
      BY <2>5, RetryFacts DEF Expire
    <3>2. WokenFor("send")' = WokenFor("send") /\ mb'.entry = 0
      BY <1>1, <1>12, <2>5, <3>1 DEF Empty
    <3>3. Spoken(Senders, "send", Size - mb.entry, Size - mb'.entry)
      BY <1>1, <1>6, <2>3, <3>2, Zenon DEF Spoken
    <3> QED BY <2>1, <2>2, <3>2, <3>3 DEF Promise, Spoken
  <2> QED BY <1>14, <2>4, <2>5 DEF RetryExpired
<1> QED BY <1>13, <1>14

\* Boot: nobody is in a service.
LEMMA BootStep ==
  ASSUME MbInv, Boot, UNCHANGED <<objVars, mbVars>>
  PROVE  MbInv' /\ Promise
<1>1. /\ CoreInv' /\ UNCHANGED <<pc, arg, lazy>> /\ k.cur = NoThread
      /\ \A q \in Queues : On(k', q) = On(k, q)
  BY CoreBoot DEF MbInv
<1>2. \A x \in Threads : pc[x] = "run"
  BY <1>1 DEF MbInv, CoreInv
<1>3. \A q \in {Receivers, Senders} : On(k, q) = {}
  BY <1>2, WaiterFacts DEF Loop
<1>4. \A q \in {Receivers, Senders} : On(k', q) = {} /\ k.list[q] = <<>> /\ k'.list[q] = <<>>
  BY <1>1, <1>3, QueueAssumption, TheLists DEF MbInv, CoreInv
<1>5. WokenAt(Loop) = {} /\ WokenAt(Loop)' = {}
  BY <1>1, <1>2 DEF WokenAt, Loop
<1>6. DrainInv'
  <2>1. obj' = obj /\ drain' = drain /\ \A x \in Threads : pc'[x] = pc[x]
    BY <1>1 DEF objVars
  <2> QED BY <1>1, <1>4, <1>5, <2>1, KernelAssumption, QuietDrain
<1>7. Leaves(NoThread) /\ arg' \in [Threads -> Threads \cup {NoThread}]
      /\ obj' \in {"live", "dying", "dead"} /\ UNCHANGED mbVars
  BY <1>1, <1>4 DEF Leaves, MbInv, Types, objVars
<1> QED BY <1>1, <1>4, <1>5, <1>6, <1>7, AloneStep

\* rt_schedule, or the end of a slice: nobody notices.
LEMMA SwitchStep ==
  ASSUME MbInv, CoreInv', Unnoticed(k', k), UNCHANGED <<objVars, mbVars, arg>>,
         \A x \in Threads : /\ pc'[x] \in Loop <=> pc[x] \in Loop
                            /\ pc'[x] = pc[x] \/ (pc[x] \notin Drainers /\ pc'[x] \notin Drainers)
  PROVE  MbInv' /\ Promise
<1>1. /\ k'.list[Receivers] = k.list[Receivers] /\ k'.list[Senders] = k.list[Senders]
      /\ \A x \in Threads : k'.error[x] = k.error[x]
  BY QueueAssumption DEF Unnoticed
<1>2. WokenAt(Loop)' = WokenAt(Loop)
  BY UnnoticedWokens
<1>3. obj' = obj /\ drain' = drain /\ arg' = arg
  BY DEF objVars
<1>4. DrainInv'
  BY <1>1, <1>2, <1>3, QuietDrain DEF MbInv, DrainInv, OneDrains
<1>5. \A x \in On(k', Receivers) \cup On(k', Senders) : k'.error[x] = k.error[x] /\ pc'[x] \in Loop
  BY <1>1, WaiterFacts DEF On
<1>6. Leaves(NoThread) /\ arg' \in [Threads -> Threads \cup {NoThread}]
      /\ obj' \in {"live", "dying", "dead"} /\ UNCHANGED mbVars
  BY <1>1, <1>3 DEF Leaves, MbInv, Types
<1> QED BY <1>2, <1>4, <1>5, <1>6, AloneStep

\* The rt_schedule of any service
LEMMA ScheduleStep ==
  ASSUME MbInv, ScheduleFrom("wait", "back") \/ Schedule, UNCHANGED <<objVars, mbVars>>
  PROVE  MbInv' /\ Promise
<1>1. PICK from \in {"sched", "sleep", "wait"}, to \in {"run", "woken", "back"} :
         /\ ScheduleFrom(from, to)
         /\ to \in Loop <=> from \in Loop
  BY DEF Schedule, Loop
<1>2. /\ CoreInv' /\ UNCHANGED arg
      /\ k.cur \in Workers /\ pc[k.cur] = from /\ pc' = [pc EXCEPT ![k.cur] = to]
      /\ Unnoticed(k', k)
  BY <1>1, CoreSchedule DEF MbInv
<1>3. k.cur \in Threads
  BY <1>2 DEF Workers
<1>4. pc'[k.cur] = to /\ \A x \in Threads \ {k.cur} : pc'[x] = pc[x]
  BY <1>2, <1>3 DEF MbInv, CoreInv
<1>5. \A x \in Threads : /\ pc'[x] \in Loop <=> pc[x] \in Loop
                         /\ pc'[x] = pc[x] \/ (pc[x] \notin Drainers /\ pc'[x] \notin Drainers)
  BY <1>1, <1>2, <1>4 DEF Drainers
<1> QED BY <1>2, <1>3, <1>5, SwitchStep

\* The end of a time slice
LEMMA SliceStep ==
  ASSUME MbInv, DeletersMask, SliceTick, UNCHANGED <<objVars, mbVars>>
  PROVE  MbInv' /\ Promise
<1>1. CoreInv' /\ pc' = pc /\ arg' = arg /\ Unnoticed(k', k)
  BY CoreSlice DEF MbInv
<1> QED BY <1>1, SwitchStep

\* The timer of a waiting thread expires.
LEMMA TimeoutStep ==
  ASSUME MbInv, DeletersMask, NEW t \in Threads, TimeoutTick(t), UNCHANGED <<objVars, mbVars>>
  PROVE  MbInv' /\ Promise
<1>1. PICK ks : ks = ThreadTimeout(k, t)
  OBVIOUS
<1>2. /\ CoreInv' /\ pc' = pc /\ arg' = arg /\ k.stat[t] = "suspend"
      /\ WokenUp(ks, k, t, "timeout") /\ Unnoticed(k', ks)
  BY <1>1, CoreTimeout DEF MbInv
<1>3. /\ Leaves(t) /\ WokenAt(Loop)' = WokenAt(Loop)
      /\ \A q \in {Receivers, Senders} : On(k', q) = On(k, q) \ {t}
      /\ \A x \in On(k', Receivers) \cup On(k', Senders) : k'.error[x] = k.error[x]
  BY <1>2, WokenEffect DEF MbInv
<1>4. \A x \in On(k', Receivers) \cup On(k', Senders) : pc'[x] \in Loop
  BY <1>2, <1>3, WaiterFacts
<1>5. obj' = obj /\ drain' = drain
  BY DEF objVars
<1>6. DrainInv'
  <2>1. /\ k.list[Receivers] = <<>> => k'.list[Receivers] = <<>>
        /\ k.list[Senders] = <<>> => k'.list[Senders] = <<>>
    BY <1>2, <1>3, LeavesSets DEF MbInv
  <2> QED BY <1>2, <1>3, <1>5, <2>1, QuietDrain DEF MbInv, DrainInv, OneDrains
<1>7. obj' \in {"live", "dying", "dead"} /\ arg' \in [Threads -> Threads \cup {NoThread}]
      /\ UNCHANGED mbVars
  BY <1>2, <1>5 DEF MbInv, Types
<1> QED BY <1>2, <1>3, <1>4, <1>6, <1>7, AloneStep

\* rt_thread_delete of a thread that may be waiting
LEMMA DeleteStep ==
  ASSUME MbInv, NEW t \in Workers, Delete(t, "delete"), UNCHANGED <<objVars, mbVars>>
  PROVE  MbInv' /\ Promise
<1>1. /\ CoreInv' /\ k.cur \in Workers /\ pc[k.cur] = "run" /\ t # k.cur
      /\ pc' = [pc EXCEPT ![k.cur] = "delete"] /\ arg' = [arg EXCEPT ![k.cur] = t]
      /\ k'.stat = k.stat /\ k'.error = k.error
      /\ \A q \in Queues : /\ On(k', q) = On(k, q) \ {t}
                           /\ k'.list[q] = RemoveFirst(k.list[q], t)
      /\ Receivers \in Queues /\ Senders \in Queues
  BY CoreDelete, QueueAssumption DEF MbInv
<1>2. t \in Threads /\ k.cur \in Threads
  BY <1>1 DEF Workers
<1>3. pc'[k.cur] = "delete" /\ \A x \in Threads \ {k.cur} : pc'[x] = pc[x]
  BY <1>1, <1>2 DEF MbInv, CoreInv
<1>4. Leaves(t) /\ arg' \in [Threads -> Threads \cup {NoThread}]
  BY <1>1, <1>2 DEF Leaves, MbInv, Types
<1>5. WokenAt(Loop)' = WokenAt(Loop)
  BY <1>1, <1>2, <1>3 DEF WokenAt, Loop
<1>6. obj' = obj /\ drain' = drain
  BY DEF objVars
<1>7. DrainInv'
  <2>1. /\ k.list[Receivers] = <<>> => k'.list[Receivers] = <<>>
        /\ k.list[Senders] = <<>> => k'.list[Senders] = <<>>
    BY <1>1, <1>4, LeavesSets DEF MbInv
  <2>2. \A x \in Threads : pc'[x] = pc[x] \/ (pc[x] \notin Drainers /\ pc'[x] \notin Drainers)
    BY <1>1, <1>3 DEF Drainers
  <2> QED BY <1>1, <1>5, <1>6, <2>1, <2>2, QuietDrain DEF MbInv, DrainInv, OneDrains
<1>8. \A x \in On(k', Receivers) \cup On(k', Senders) : k'.error[x] = k.error[x] /\ pc'[x] \in Loop
  <2>1. \A x \in On(k', Receivers) \cup On(k', Senders) : x \in Threads /\ pc[x] \in Loop
    BY <1>1, WaiterFacts
  <2> QED BY <1>1, <1>3, <2>1 DEF Loop
<1>9. obj' \in {"live", "dying", "dead"} /\ UNCHANGED mbVars
  BY <1>6 DEF MbInv, Types
<1> QED BY <1>1, <1>4, <1>5, <1>7, <1>8, <1>9, AloneStep

\* The rest of rt_thread_delete: what the thread was woken with is lost with it.
LEMMA DeleteEndStep ==
  ASSUME MbInv, DeleteThreadEnd, UNCHANGED mb
  PROVE  MbInv' /\ Promise
<1>1. PICK t : t = arg[k.cur]
  OBVIOUS
<1>2. /\ CoreInv' /\ k.cur \in Workers /\ pc[k.cur] = "delete"
      /\ t \in Workers /\ t # k.cur
      /\ \A q \in Queues : t \notin On(k, q)
      /\ pc' = [pc EXCEPT ![k.cur] = "run"] /\ arg' = [arg EXCEPT ![k.cur] = NoThread]
      /\ k'.error = k.error
      /\ \A x \in Threads : k'.stat[x] = IF x = t THEN "close" ELSE k.stat[x]
      /\ \A q \in Queues : k'.list[q] = k.list[q]
  BY <1>1, CoreDeleteEnd DEF DeleteThreadEnd, MbInv
<1>3. /\ obj' = obj /\ drain' = drain /\ call' = call /\ mb' = mb
      /\ lost' = [op \in {"send", "recv"} |-> IF t \in WokenFor(op) THEN lost[op] + 1 ELSE lost[op]]
      /\ Receivers \in Queues /\ Senders \in Queues /\ t \in Threads /\ k.cur \in Threads
  BY <1>1, <1>2, QueueAssumption DEF DeleteThreadEnd, Self, Workers, objVars
<1>4. pc'[k.cur] = "run" /\ \A x \in Threads \ {k.cur} : pc'[x] = pc[x]
  BY <1>2, <1>3 DEF MbInv, CoreInv
<1>5. Types' /\ SendersHaveValues'
  BY <1>2, <1>3 DEF MbInv, Types, SendersHaveValues
<1>6. Same(Receivers) /\ Same(Senders)
  BY <1>2, <1>3 DEF Same, On
<1>7. \A op : WokenFor(op)' = WokenFor(op) \ {t}
  <2> SUFFICES ASSUME NEW op PROVE WokenFor(op)' = WokenFor(op) \ {t}
    OBVIOUS
  <2> QED BY <1>2, <1>3, <1>4 DEF WokenFor, WokenAt
<1>8. DrainInv'
  <2>1. WokenAt(Loop)' \subseteq WokenAt(Loop)
    BY <1>2, <1>3, <1>4 DEF WokenAt, Loop
  <2>2. \A x \in Threads : pc'[x] = pc[x] \/ (pc[x] \notin Drainers /\ pc'[x] \notin Drainers)
    BY <1>2, <1>4 DEF Drainers
  <2> QED BY <1>2, <1>3, <2>1, <2>2, QuietDrain DEF MbInv, DrainInv, OneDrains
<1>9. WaitersInLoop'
  <2>1. \A q \in {Receivers, Senders} : \A x \in On(k, q) : x \in Threads /\ x # k.cur
    BY <1>2, WaiterFacts DEF Loop
  <2> QED BY <1>2, <1>3, <1>4, <1>6, <2>1 DEF MbInv, WaitersInLoop, Same
<1>10. MbInv'
  BY <1>2, <1>3, <1>5, <1>8, <1>9 DEF MbInv
<1>11. mb.entry <= mb.entry /\ Size - mb.entry <= Size - mb.entry
  <2>1. mb.entry \in 0 .. Size /\ Size \in Nat
    BY RingFields DEF MbInv, Types
  <2> QED BY <2>1
<1>12. ASSUME NEW q \in {Receivers, Senders}, NEW op \in {"send", "recv"}, NEW n, n <= n
       PROVE  Spoken(q, op, n, n)
  <2>1. k'.list[q] = k.list[q] /\ WokenFor(op)' = WokenFor(op) \ {t}
    BY <1>2, <1>3, <1>7
  <2>2. lost'[op] = IF t \in WokenFor(op) THEN lost[op] + 1 ELSE lost[op]
    BY <1>3
  <2>3. CASE t \in WokenFor(op)
    BY <2>1, <2>2, <2>3, Zenon DEF Spoken
  <2>4. CASE t \notin WokenFor(op)
    <3>1. WokenFor(op)' = WokenFor(op) /\ lost'[op] = lost[op]
      BY <2>1, <2>2, <2>4
    <3> QED BY <1>12, <2>1, <3>1, Zenon DEF Spoken
  <2> QED BY <2>3, <2>4
<1> QED BY <1>3, <1>6, <1>10, <1>11, <1>12 DEF Promise, Effect

-----------------------------------------------------------------------------
(* Reset, detach, delete and init.                                         *)

\* A step of the running thread, outside of the loop, that leaves the kernel alone.
LEMMA StayStep ==
  ASSUME MbInv, k.cur \in Workers, k.stat[k.cur] = "running", Sound(k, {}), k' = k,
         NEW l \in {"run", "sched", "reset", "detach", "wake"}, pc' = [pc EXCEPT ![k.cur] = l],
         pc[k.cur] \notin Loop, arg' = arg, lazy' = lazy, call' = call, lost' = lost,
         mb' \in Rings, RingOk(mb'), obj' \in {"live", "dying", "dead"},
         DrainInv'
  PROVE  /\ MbInv' /\ Same(Receivers) /\ Same(Senders)
         /\ mb' = mb => Promise
<1>1. /\ k.cur \in Threads /\ pc'[k.cur] = l /\ \A x \in Threads \ {k.cur} : pc'[x] = pc[x]
      /\ pc' \in [Threads -> ServicePCs] /\ arg' \in [Threads -> ServiceArgs] /\ lazy' \in BOOLEAN
  BY DEF MbInv, CoreInv, ServicePCs, Workers
<1>2. CoreInv'
  BY <1>1, CoreStay DEF MbInv
<1>3. Types' /\ SendersHaveValues'
  BY DEF MbInv, Types, SendersHaveValues
<1>4. Same(Receivers) /\ Same(Senders) /\ Leaves(NoThread)
  BY DEF Same, Leaves
<1>5. \A x \in On(k', Receivers) \cup On(k', Senders) : pc'[x] \in Loop /\ x \in Threads
  BY <1>1, WaiterFacts
<1>6. WaitersInLoop'
  BY <1>4, <1>5 DEF MbInv, WaitersInLoop, Same
<1>7. MbInv'
  BY <1>2, <1>3, <1>6 DEF MbInv
<1>8. WokenAt(Loop)' = WokenAt(Loop)
  BY <1>1 DEF WokenAt, Loop
<1>9. ASSUME mb' = mb PROVE Promise
  <2>1. UNCHANGED mbVars /\ arg' \in [Threads -> Threads \cup {NoThread}]
    BY <1>9 DEF mbVars, MbInv, Types
  <2> QED BY <1>2, <1>4, <1>5, <1>8, <2>1, AloneStep
<1> QED BY <1>4, <1>7, <1>9

\* When both lists are empty the messages may go.
LEMMA EmptiedStep ==
  ASSUME MbInv, MbInv', Same(Receivers), Same(Senders),
         k.list[Receivers] = <<>>, k.list[Senders] = <<>>, mb' \in {RingReset(mb), EmptyRing}
  PROVE  Promise
<1>1. \A q \in {Receivers, Senders} : /\ k.list[q] = <<>> <=> On(k, q) = {}
                                      /\ k'.list[q] = <<>> <=> On(k', q) = {}
  BY TheLists DEF MbInv, CoreInv
<1>2. \A q \in {Receivers, Senders} : On(k', q) = {} /\ k'.list[q] = <<>>
  BY <1>1 DEF Same
<1> QED BY <1>2 DEF Promise, Effect, Spoken

\* The running thread, in the loop of _ipc_list_resume_all, tells the first waiter of q
\* that it waited in vain.
LEMMA FailStep ==
  ASSUME MbInv, k.cur \in Workers, k.stat[k.cur] = "running", Sound(k, {}),
         NEW q \in {Receivers, Senders}, k.list[q] # <<>>, k' = ListResumeFailed(k, q),
         obj' = obj, UNCHANGED mbVars, arg' = arg, lazy' \in BOOLEAN, pc[k.cur] \notin Loop,
         NEW l \in {"reset", "detach"}, pc' = [pc EXCEPT ![k.cur] = l],
         CoreInv' /\ Leaves(Head(k.list[q])) /\ WokenAt(Loop)' = WokenAt(Loop) => DrainInv'
  PROVE  MbInv' /\ Promise
<1> DEFINE h == Head(k.list[q])
<1>1. k.cur \in Threads /\ q \in Queues
  BY QueueAssumption DEF Workers
<1>2. h \in Threads /\ h \in On(k, q) /\ k.stat[h] = "suspend"
  BY <1>1, FirstWaiter
<1>3. WokenUp(k', k, h, "error") /\ Unnoticed(k', k')
  BY <1>1, ListResumeFailedWakes, UnnoticedSame
<1>4. CoreInv' /\ Leaves(h) /\ WokenAt(Loop)' = WokenAt(Loop) => DrainInv'
  OBVIOUS
<1> HIDE DEF h
<1>5. /\ pc'[k.cur] = l /\ \A x \in Threads \ {k.cur} : pc'[x] = pc[x]
      /\ pc' \in [Threads -> ServicePCs] /\ arg' \in [Threads -> ServiceArgs]
      /\ arg' \in [Threads -> Threads \cup {NoThread}]
  BY <1>1 DEF MbInv, CoreInv, Types, ServicePCs
<1>6. CoreInv'
  BY <1>2, <1>3, <1>5, CoreWake DEF MbInv
<1>7. \A x \in Threads : pc'[x] \in Loop <=> pc[x] \in Loop
  BY <1>1, <1>5 DEF Loop
<1>8. /\ Leaves(h) /\ WokenAt(Loop)' = WokenAt(Loop)
      /\ \A p \in {Receivers, Senders} : On(k', p) = On(k, p) \ {h}
      /\ \A x \in On(k', Receivers) \cup On(k', Senders) : k'.error[x] = k.error[x]
  BY <1>2, <1>3, <1>7, WokenEffect DEF MbInv
<1>9. \A x \in On(k', Receivers) \cup On(k', Senders) : pc'[x] \in Loop
  BY <1>7, <1>8, WaiterFacts
<1>10. obj' \in {"live", "dying", "dead"}
  BY DEF MbInv, Types
<1> QED BY <1>4, <1>5, <1>6, <1>8, <1>9, <1>10, AloneStep

\* What is left to empty: both lists, or the senders' only.
LEMMA DrainShapes ==
  /\ Head(<<Receivers, Senders>>) = Receivers /\ Tail(<<Receivers, Senders>>) = <<Senders>>
  /\ Len(<<Receivers, Senders>>) = 2
  /\ Head(<<Senders>>) = Senders /\ Tail(<<Senders>>) = <<>> /\ Len(<<Senders>>) = 1
  /\ <<Senders>> # <<>> /\ <<Receivers, Senders>> # <<>> /\ <<Senders>> # <<Receivers, Senders>>
OBVIOUS

\* rt_mb_control(RT_IPC_CMD_RESET)
LEMMA ResetStep ==
  ASSUME MbInv, Reset
  PROVE  MbInv' /\ Promise
<1> DEFINE c == k.cur
<1>1. /\ InApp /\ obj = "live" /\ drain' = <<Receivers, Senders>>
      /\ pc' = [pc EXCEPT ![c] = "reset"] /\ k' = k /\ arg' = arg /\ lazy' = lazy /\ obj' = obj
      /\ mb' = mb /\ call' = call /\ lost' = lost
  BY DEF Reset, StartReset, Usable, Goto, Self, mbVars
<1>2. /\ c \in Workers /\ c \in Threads /\ pc[c] = "run" /\ k.stat[c] = "running" /\ Sound(k, {})
  BY <1>1, CoreInApp DEF MbInv
<1>3. pc'[c] = "reset" /\ \A x \in Threads \ {c} : pc'[x] = pc[x]
  BY <1>1, <1>2 DEF MbInv, CoreInv
<1>4. \A x \in Threads : pc[x] # "wake" /\ pc'[x] # "wake"
  BY <1>1, <1>3 DEF MbInv, DrainInv, OneDrains
<1>5. Drained'
  BY <1>1, DrainShapes DEF Drained
<1>6. WakersHaveList'
  BY <1>4 DEF WakersHaveList
<1>7. OneDrains'
  BY <1>1, <1>2, <1>3, <1>4 DEF MbInv, DrainInv, OneDrains
<1>8. mb' \in Rings /\ RingOk(mb') /\ obj' \in {"live", "dying", "dead"} /\ pc[c] \notin Loop
  BY <1>1, <1>2 DEF MbInv, Types, Loop
<1> QED BY <1>1, <1>2, <1>5, <1>6, <1>7, <1>8, StayStep DEF DrainInv

\* The loop of rt_mb_control, with interrupts disabled: one waiter ...
LEMMA ResetWakeStep ==
  ASSUME MbInv, ResetWake, UNCHANGED mbVars
  PROVE  MbInv' /\ Promise
<1> DEFINE c == k.cur
<1>1. /\ c # NoThread /\ pc[c] = "reset" /\ drain # <<>> /\ k.list[Head(drain)] # <<>>
      /\ k' = ListResumeFailed(k, Head(drain))
      /\ pc' = pc /\ arg' = arg /\ lazy' = lazy /\ obj' = obj /\ drain' = drain
  BY DEF ResetWake, At, Running, Self, objVars
<1>2. c \in Workers /\ c \in Threads /\ k.stat[c] = "running" /\ Sound(k, {})
  BY <1>1, CoreFacts DEF MbInv
<1>3. PICK q \in {Receivers, Senders} : q = Head(drain)
  BY <1>1, DrainShapes DEF MbInv, DrainInv, Drained
<1>4. pc' = [pc EXCEPT ![c] = "reset"] /\ lazy' \in BOOLEAN /\ pc[c] \notin Loop
  BY <1>1, <1>2 DEF MbInv, CoreInv, Loop
<1>5. ASSUME Leaves(Head(k.list[q])), WokenAt(Loop)' = WokenAt(Loop), CoreInv'
      PROVE  DrainInv'
  <2>1. /\ k.list[Receivers] = <<>> => k'.list[Receivers] = <<>>
        /\ k.list[Senders] = <<>> => k'.list[Senders] = <<>>
    BY <1>5, LeavesSets DEF MbInv
  <2> QED BY <1>1, <1>2, <1>5, <2>1, QuietDrain DEF MbInv, DrainInv, OneDrains
<1> QED BY <1>1, <1>2, <1>3, <1>4, <1>5, FailStep

\* ... after the other, list by list.
LEMMA ResetPassStep ==
  ASSUME MbInv, ResetPass, UNCHANGED mbVars
  PROVE  MbInv' /\ Promise
<1> DEFINE c == k.cur
<1>1. /\ c # NoThread /\ pc[c] = "reset" /\ drain # <<>> /\ k.list[Head(drain)] = <<>>
      /\ k' = k /\ pc' = pc /\ arg' = arg /\ lazy' = lazy /\ obj' = obj /\ drain' = Tail(drain)
      /\ mb' = mb /\ call' = call /\ lost' = lost
  BY DEF ResetPass, At, Running, Self, vars, mbVars
<1>2. c \in Workers /\ c \in Threads /\ k.stat[c] = "running" /\ Sound(k, {})
  BY <1>1, CoreFacts DEF MbInv
<1>3. pc' = [pc EXCEPT ![c] = "reset"] /\ pc[c] \notin Loop
  BY <1>1, <1>2 DEF MbInv, CoreInv, Loop
<1>4. Draining /\ obj = "live"
  BY <1>1, <1>2 DEF Draining, MbInv, DrainInv, OneDrains
<1>5. \A x \in Threads : pc[x] # "wake"
  BY <1>4 DEF MbInv, DrainInv, OneDrains
<1>6. Drained'
  BY <1>1, <1>4, DrainShapes DEF MbInv, DrainInv, Drained
<1>7. WakersHaveList' /\ OneDrains'
  BY <1>1, <1>4, <1>5 DEF MbInv, DrainInv, WakersHaveList, OneDrains
<1>8. mb' \in Rings /\ RingOk(mb') /\ obj' \in {"live", "dying", "dead"}
  BY <1>1 DEF MbInv, Types
<1> QED BY <1>1, <1>2, <1>3, <1>6, <1>7, <1>8, StayStep DEF DrainInv

\* The mailbox is empty.
LEMMA ResetRingStep ==
  ASSUME MbInv, ResetRing
  PROVE  MbInv' /\ Promise
<1> DEFINE c == k.cur
<1>1. /\ c # NoThread /\ pc[c] = "reset" /\ drain = <<>> /\ pc' = [pc EXCEPT ![c] = "sched"]
      /\ k' = k /\ arg' = arg /\ lazy' = lazy /\ obj' = obj /\ drain' = drain
      /\ mb' = RingReset(mb) /\ call' = call /\ lost' = lost
  BY DEF ResetRing, ResetDone, At, Running, Self, Goto, objVars
<1>2. c \in Workers /\ c \in Threads /\ k.stat[c] = "running" /\ Sound(k, {})
  BY <1>1, CoreFacts DEF MbInv
<1>3. pc'[c] = "sched" /\ (\A x \in Threads \ {c} : pc'[x] = pc[x]) /\ pc[c] \notin Loop
  BY <1>1, <1>2 DEF MbInv, CoreInv, Loop
<1>4. Draining /\ obj = "live"
  BY <1>1, <1>2 DEF Draining, MbInv, DrainInv, OneDrains
<1>5. \A x \in Threads : pc[x] # "wake" /\ pc'[x] # "wake"
  BY <1>3, <1>4 DEF MbInv, DrainInv, OneDrains
<1>6. k.list[Receivers] = <<>> /\ k.list[Senders] = <<>>
  BY <1>1, <1>4, DrainShapes DEF MbInv, DrainInv, Drained
<1>7. Drained'
  BY <1>1, <1>4, <1>6 DEF Drained
<1>8. WakersHaveList' /\ OneDrains'
  BY <1>1, <1>3, <1>4, <1>5 DEF MbInv, DrainInv, WakersHaveList, OneDrains
<1>9. mb' \in Rings /\ RingOk(mb') /\ obj' \in {"live", "dying", "dead"}
  BY <1>1, ResetEmpties DEF MbInv, Types
<1>10. MbInv' /\ Same(Receivers) /\ Same(Senders)
  BY <1>1, <1>2, <1>3, <1>7, <1>8, <1>9, StayStep DEF DrainInv
<1> QED BY <1>1, <1>6, <1>10, EmptiedStep

\* rt_mb_detach, rt_mb_delete
LEMMA DetachStep ==
  ASSUME MbInv, DetachMailbox
  PROVE  MbInv' /\ Promise
<1> DEFINE c == k.cur
<1>1. /\ InApp /\ obj = "live" /\ obj' = "dying" /\ drain' = <<Receivers, Senders>>
      /\ pc' = [pc EXCEPT ![c] = "detach"] /\ k' = k /\ arg' = arg /\ lazy' = lazy
      /\ mb' = mb /\ call' = call /\ lost' = lost /\ WokenAt(Loop) = {}
  BY DEF DetachMailbox, Detach, Usable, Goto, Self, mbVars, Loop
<1>2. /\ c \in Workers /\ c \in Threads /\ pc[c] = "run" /\ k.stat[c] = "running" /\ Sound(k, {})
  BY <1>1, CoreInApp DEF MbInv
<1>3. pc'[c] = "detach" /\ \A x \in Threads \ {c} : pc'[x] = pc[x]
  BY <1>1, <1>2 DEF MbInv, CoreInv
<1>4. \A x \in Threads : pc[x] \notin {"reset", "detach", "wake"}
  BY <1>1, <1>2 DEF MbInv, DrainInv, OneDrains, CoreInv, Held
<1>5. Drained'
  BY <1>1, DrainShapes DEF Drained
<1>6. WakersHaveList'
  BY <1>3, <1>4 DEF WakersHaveList
<1>7. WokenAt(Loop)' = {}
  BY <1>1, <1>2, <1>3 DEF WokenAt, Loop
<1>8. OneDrains'
  BY <1>1, <1>2, <1>3, <1>4, <1>7 DEF OneDrains
<1>9. mb' \in Rings /\ RingOk(mb') /\ obj' \in {"live", "dying", "dead"} /\ pc[c] \notin Loop
  BY <1>1, <1>2 DEF MbInv, Types, Loop
<1> QED BY <1>1, <1>2, <1>5, <1>6, <1>8, <1>9, StayStep DEF DrainInv

\* _ipc_list_resume_all tests a list ...
LEMMA DetachTestStep ==
  ASSUME MbInv, DetachTest, UNCHANGED mbVars
  PROVE  MbInv' /\ Promise
<1> DEFINE c == k.cur
<1>1. /\ c # NoThread /\ pc[c] = "detach" /\ drain # <<>> /\ k.list[Head(drain)] # <<>>
      /\ k' = k /\ pc' = [pc EXCEPT ![c] = "wake"] /\ arg' = arg /\ lazy' = lazy
      /\ obj' = obj /\ drain' = drain /\ mb' = mb /\ call' = call /\ lost' = lost
  BY DEF DetachTest, At, Running, Self, Goto, objVars, mbVars
<1>2. c \in Workers /\ c \in Threads /\ k.stat[c] = "running" /\ Sound(k, {})
  BY <1>1, CoreFacts DEF MbInv
<1>3. pc'[c] = "wake" /\ (\A x \in Threads \ {c} : pc'[x] = pc[x]) /\ pc[c] \notin Loop
  BY <1>1, <1>2 DEF MbInv, CoreInv, Loop
<1>4. /\ \A x \in Threads \ {c} : pc[x] \notin {"detach", "wake"}
      /\ obj = "dying" /\ \A x \in Threads : pc[x] # "reset" /\ pc'[x] # "reset"
  BY <1>1, <1>2, <1>3 DEF MbInv, DrainInv, OneDrains
<1>5. Drained' /\ WakersHaveList'
  BY <1>1, <1>3, <1>4 DEF MbInv, DrainInv, Drained, Draining, WakersHaveList
<1>6. WokenAt(Loop)' = WokenAt(Loop)
  BY <1>1, <1>2, <1>3 DEF WokenAt, Loop
<1>7. OneDrains'
  BY <1>1, <1>2, <1>3, <1>4, <1>6 DEF MbInv, DrainInv, OneDrains
<1>8. mb' \in Rings /\ RingOk(mb') /\ obj' \in {"live", "dying", "dead"}
  BY <1>1 DEF MbInv, Types
<1> QED BY <1>1, <1>2, <1>3, <1>5, <1>7, <1>8, StayStep DEF DrainInv

\* ... and wakes its first thread, if there still is one.
LEMMA DetachWakeStep ==
  ASSUME MbInv, DetachWake, UNCHANGED mbVars
  PROVE  MbInv' /\ Promise
<1> DEFINE c == k.cur
<1>1. /\ c # NoThread /\ pc[c] = "wake" /\ k' = ListResumeFailed(k, Head(drain))
      /\ k.list[Head(drain)] # <<>>
      /\ pc' = [pc EXCEPT ![c] = "detach"] /\ arg' = arg /\ lazy' \in BOOLEAN
      /\ obj' = obj /\ drain' = drain
  BY DEF DetachWake, At, Running, Self, Goto, objVars
<1>2. c \in Workers /\ c \in Threads /\ k.stat[c] = "running" /\ Sound(k, {})
  BY <1>1, CoreFacts DEF MbInv
<1>3. drain # <<>> /\ obj = "dying"
      /\ \A x \in Threads \ {c} : pc[x] \notin {"detach", "wake"}
  BY <1>1, <1>2 DEF MbInv, DrainInv, WakersHaveList, OneDrains
<1>4. PICK q \in {Receivers, Senders} : q = Head(drain)
  BY <1>3, DrainShapes DEF MbInv, DrainInv, Drained
<1>5. pc'[c] = "detach" /\ (\A x \in Threads \ {c} : pc'[x] = pc[x]) /\ pc[c] \notin Loop
  BY <1>1, <1>2 DEF MbInv, CoreInv, Loop
<1>6. ASSUME CoreInv', Leaves(Head(k.list[q])), WokenAt(Loop)' = WokenAt(Loop)
      PROVE  DrainInv'
  <2>1. /\ k.list[Receivers] = <<>> => k'.list[Receivers] = <<>>
        /\ k.list[Senders] = <<>> => k'.list[Senders] = <<>>
    BY <1>6, LeavesSets DEF MbInv
  <2>2. \A x \in Threads : pc[x] # "reset" /\ pc'[x] # "reset" /\ pc'[x] # "wake"
    BY <1>3, <1>5 DEF MbInv, DrainInv, OneDrains
  <2>3. Drained'
    BY <1>1, <1>3, <2>1, <2>2 DEF MbInv, DrainInv, Drained, Draining
  <2>4. WakersHaveList'
    BY <2>2 DEF WakersHaveList
  <2>5. OneDrains'
    BY <1>1, <1>2, <1>3, <1>5, <1>6, <2>2 DEF MbInv, DrainInv, OneDrains
  <2> QED BY <2>3, <2>4, <2>5 DEF DrainInv
<1> QED BY <1>1, <1>2, <1>3, <1>4, <1>5, <1>6, FailStep

\* The next list; after the last one the mailbox is gone.
LEMMA DetachNextStep ==
  ASSUME MbInv, DetachNext, UNCHANGED mbVars
  PROVE  MbInv' /\ Promise
<1> DEFINE c == k.cur
<1>1. /\ c # NoThread /\ pc[c] = "detach" /\ drain # <<>> /\ k.list[Head(drain)] = <<>>
      /\ k' = k /\ arg' = arg /\ lazy' = lazy /\ drain' = Tail(drain)
      /\ mb' = mb /\ call' = call /\ lost' = lost
      /\ IF Len(drain) = 1 THEN obj' = "dead" /\ pc' = [pc EXCEPT ![c] = "run"]
                           ELSE obj' = obj /\ pc' = pc
  BY DEF DetachNext, At, Running, Self, Goto, mbVars
<1>2. c \in Workers /\ c \in Threads /\ k.stat[c] = "running" /\ Sound(k, {})
  BY <1>1, CoreFacts DEF MbInv
<1>3. PICK l \in {"run", "detach"} : pc' = [pc EXCEPT ![c] = l]
  BY <1>1, <1>2 DEF MbInv, CoreInv
<1>4. pc'[c] = l /\ (\A x \in Threads \ {c} : pc'[x] = pc[x]) /\ pc[c] \notin Loop
  BY <1>1, <1>2, <1>3 DEF MbInv, CoreInv, Loop
<1>5. /\ obj = "dying" /\ \A x \in Threads : pc[x] # "wake" /\ pc[x] # "reset"
      /\ \A x \in Threads \ {c} : pc[x] # "detach"
  BY <1>1, <1>2 DEF MbInv, DrainInv, OneDrains
<1>6. obj' \in {"dying", "dead"} /\ (obj' = "dead" => l = "run" /\ drain' = <<>>)
      /\ (obj' = "dying" => l = "detach")
  <2>1. CASE Len(drain) = 1
    <3>1. drain = <<Senders>>
      BY <1>1, <2>1, DrainShapes DEF MbInv, DrainInv, Drained
    <3>2. drain' = <<>>
      BY <1>1, <3>1, DrainShapes
    <3>3. l = "run"
      BY <1>1, <1>2, <1>4, <2>1 DEF MbInv, CoreInv
    <3> QED BY <1>1, <2>1, <3>2, <3>3
  <2>2. CASE Len(drain) # 1
    BY <1>1, <1>4, <1>5, <2>2
  <2> QED BY <2>1, <2>2
<1>7. Drained'
  <2>1. Draining
    BY <1>5 DEF Draining
  <2> QED BY <1>1, <1>6, <2>1, DrainShapes DEF MbInv, DrainInv, Drained
<1>8. WokenAt(Loop)' = WokenAt(Loop)
  BY <1>1, <1>2, <1>4 DEF WokenAt, Loop
<1>9. WakersHaveList' /\ OneDrains'
  BY <1>1, <1>2, <1>4, <1>5, <1>6, <1>8 DEF MbInv, DrainInv, WakersHaveList, OneDrains
<1>10. mb' \in Rings /\ RingOk(mb') /\ obj' \in {"live", "dying", "dead"}
  BY <1>1, <1>6 DEF MbInv, Types
<1> QED BY <1>1, <1>2, <1>3, <1>4, <1>7, <1>9, <1>10, StayStep DEF DrainInv

\* rt_mb_init, rt_mb_create
LEMMA InitMailboxStep ==
  ASSUME MbInv, InitMailbox
  PROVE  MbInv' /\ Promise
<1> DEFINE c == k.cur
<1>1. /\ InApp /\ obj = "dead" /\ obj' = "live" /\ mb' = EmptyRing
      /\ k' = k /\ pc' = pc /\ arg' = arg /\ lazy' = lazy
      /\ drain' = drain /\ call' = call /\ lost' = lost
  BY DEF InitMailbox, vars
<1>2. /\ c \in Workers /\ c \in Threads /\ pc[c] = "run" /\ k.stat[c] = "running" /\ Sound(k, {})
  BY <1>1, CoreInApp DEF MbInv
<1>3. pc' = [pc EXCEPT ![c] = "run"] /\ pc[c] \notin Loop
  BY <1>1, <1>2 DEF MbInv, CoreInv, Loop
<1>4. drain = <<>> /\ k.list[Receivers] = <<>> /\ k.list[Senders] = <<>>
  BY <1>1, DrainShapes DEF MbInv, DrainInv, Drained, Draining
<1>5. \A x \in Threads : pc[x] \notin {"reset", "detach", "wake"}
  BY <1>1 DEF MbInv, DrainInv, OneDrains
<1>6. Drained' /\ WakersHaveList' /\ OneDrains'
  BY <1>1, <1>4, <1>5 DEF Drained, WakersHaveList, OneDrains
<1>7. mb' \in Rings /\ RingOk(mb') /\ obj' \in {"live", "dying", "dead"}
  BY <1>1, ResetEmpties DEF MbInv, Types
<1>8. MbInv' /\ Same(Receivers) /\ Same(Senders)
  BY <1>1, <1>2, <1>3, <1>6, <1>7, StayStep DEF DrainInv
<1> QED BY <1>1, <1>4, <1>8, EmptiedStep

-----------------------------------------------------------------------------
(* The theorems.                                                           *)

LEMMA MbInitInv ==
  ASSUME MbInit
  PROVE  /\ MbInv /\ k.list[Receivers] = <<>> /\ k.list[Senders] = <<>>
         /\ On(k, Receivers) = {} /\ On(k, Senders) = {}
<1>1. CoreInv
  BY CoreInit DEF MbInit, QueueInit
<1>2. /\ \A x \in Threads : pc[x] = "run"
      /\ arg \in [Threads -> Threads \cup {NoThread}]
      /\ k.list[Receivers] = <<>> /\ k.list[Senders] = <<>>
  BY QueueAssumption DEF MbInit, QueueInit, Init, KernelBoot, Lists
<1>3. On(k, Receivers) = {} /\ On(k, Senders) = {}
  BY <1>1, <1>2, TheLists DEF CoreInv, Sound
<1>4. /\ obj = "live" /\ drain = <<>> /\ call = [t \in Threads |-> NoCall]
      /\ lost = [send |-> 0, recv |-> 0] /\ mb = EmptyRing
  BY DEF MbInit, QueueInit, ObjInit
<1>5. mb \in Rings /\ RingOk(mb)
  <2>1. 0 \in Offsets /\ 0 \in 0 .. Size
    BY SizeAssumption DEF Offsets
  <2>2. EmptyRing \in Rings
    BY <2>1 DEF EmptyRing, Rings
  <2>3. RingOk(EmptyRing)
    BY SizeAssumption DEF RingOk, EmptyRing
  <2> QED BY <1>4, <2>2, <2>3
<1>6. lost \in [{"send", "recv"} -> Nat]
  BY <1>4
<1>7. /\ call \in [Threads -> [op : {"none", "send", "urgent", "recv"},
                               finite : BOOLEAN, value : Values \cup {Unset}]]
      /\ \A t \in Threads : call[t].op = "none"
  BY <1>4 DEF NoCall
<1>8. Types /\ SendersHaveValues
  BY <1>2, <1>4, <1>5, <1>6, <1>7 DEF Types, SendersHaveValues
<1>9. WaitersInLoop
  BY <1>3 DEF WaitersInLoop
<1>10. DrainInv
  BY <1>2, <1>4 DEF DrainInv, Drained, Draining, WakersHaveList, OneDrains
<1> QED BY <1>1, <1>2, <1>3, <1>5, <1>8, <1>9, <1>10 DEF MbInv

\* Every step keeps the invariant, has an effect that the contract knows, and leaves
\* whoever waits spoken for.
LEMMA MbNextInv ==
  ASSUME DeletersMask, MbInv, [MbNext]_<<vars, objVars, mbVars>>
  PROVE  MbInv' /\ Promise
<1>1. CASE UNCHANGED <<vars, objVars, mbVars>>
  <2>1. /\ k' = k /\ pc' = pc /\ arg' = arg /\ lazy' = lazy /\ obj' = obj /\ drain' = drain
        /\ mb' = mb /\ call' = call /\ lost' = lost
    BY <1>1 DEF vars, objVars, mbVars
  <2>2. CoreInv'
    <3>1. CoreInv' = CoreInv
      BY <2>1 DEF CoreInv, Limbo, At, Running, Self
    <3> QED BY <3>1 DEF MbInv
  <2>3. WokenAt(Loop)' = WokenAt(Loop)
    BY <2>1 DEF WokenAt
  <2>4. DrainInv'
    BY <2>1, <2>3 DEF MbInv, DrainInv, Drained, Draining, WakersHaveList, OneDrains
  <2>5. Leaves(NoThread)
    BY <2>1 DEF Leaves
  <2>6. \A x \in On(k', Receivers) \cup On(k', Senders) :
          k'.error[x] = k.error[x] /\ pc'[x] \in Loop
    BY <2>1, WaiterFacts DEF On
  <2>7. /\ obj' \in {"live", "dying", "dead"} /\ arg' \in [Threads -> Threads \cup {NoThread}]
        /\ UNCHANGED mbVars
    BY <2>1 DEF MbInv, Types, mbVars
  <2> QED BY <2>2, <2>3, <2>4, <2>5, <2>6, <2>7, AloneStep
<1>2. CASE Boot /\ UNCHANGED <<objVars, mbVars>>
  BY <1>2, BootStep
<1>3. CASE MbService
  <2>1. CASE \E v \in Values : Send(v) \/ Urgent(v)
    BY <2>1, SendStep
  <2>2. CASE \E v \in Values : \E finite \in BOOLEAN : SendBlock(v, finite)
    BY <2>2, FirstBlockStep
  <2>3. CASE \E finite \in BOOLEAN : RecvBlock(finite)
    BY <2>3, FirstBlockStep
  <2>4. CASE Recv \/ Reset \/ DetachMailbox \/ InitMailbox
    BY <2>4, RecvStep, ResetStep, DetachStep, InitMailboxStep
  <2>5. CASE \E t \in Workers : Delete(t, "delete") /\ UNCHANGED <<objVars, mbVars>>
    BY <2>5, DeleteStep
  <2> QED BY <1>3, <2>1, <2>2, <2>3, <2>4, <2>5 DEF MbService
<1>4. CASE MbContinue
  <2>1. CASE (ScheduleFrom("wait", "back") \/ Schedule) /\ UNCHANGED <<objVars, mbVars>>
    BY <2>1, ScheduleStep
  <2>2. CASE (ReturnError /\ UNCHANGED mb) \/ RetryExpired
    BY <2>2, ReturnStep
  <2>3. CASE RetrySend \/ RetryRecv
    BY <2>3, RetrySendStep, RetryRecvStep
  <2>4. CASE (WakeAll /\ UNCHANGED mbVars) \/ ResetRing
    BY <2>4, ResetWakeStep, ResetPassStep, ResetRingStep DEF WakeAll
  <2>5. CASE DetachLoop /\ UNCHANGED mbVars
    BY <2>5, DetachTestStep, DetachWakeStep, DetachNextStep DEF DetachLoop
  <2>6. CASE DeleteThreadEnd /\ UNCHANGED mb
    BY <2>6, DeleteEndStep
  <2> QED BY <1>4, <2>1, <2>2, <2>3, <2>4, <2>5, <2>6 DEF MbContinue
<1>5. CASE IsrRecv \/ \E v \in Values : IsrSend(v)
  BY <1>5, IsrStep
<1>6. CASE Tick /\ UNCHANGED <<objVars, mbVars>>
  BY <1>6, SliceStep, TimeoutStep DEF Tick
<1> QED BY <1>1, <1>2, <1>3, <1>4, <1>5, <1>6 DEF MbNext

\* The inductive invariant holds of every behaviour.
THEOREM MbInvariance ==
  ASSUME DeletersMask PROVE MbSpec => []MbInv
<1>1. MbInit => MbInv
  BY MbInitInv
<1>2. MbInv /\ [MbNext]_<<vars, objVars, mbVars>> => MbInv'
  BY MbNextInv
<1> QED BY <1>1, <1>2, PTL DEF MbSpec

\* rt_mb_send_wait, rt_mb_recv, rt_mb_control, rt_mb_detach, rt_mb_delete: the two
\* suspend lists, the ready table and the states of the threads agree, wherever
\* timeouts and interrupts meet them.  The loop of _ipc_list_resume_all may be
\* interrupted between its test and its wakeup: no caller masks that window.
THEOREM MailboxSound ==
  ASSUME DeletersMask PROVE MbSpec => []MbSound
<1>1. MbInv => MbSound
  <2> SUFFICES ASSUME MbInv PROVE MbSound
    OBVIOUS
  <2>1. drain \in Seq(Queues)
    <3>1. <<>> \in Seq(Queues) /\ <<Senders>> \in Seq(Queues)
          /\ <<Receivers, Senders>> \in Seq(Queues)
      BY QueueAssumption
    <3> QED BY <3>1 DEF MbInv, DrainInv, Drained
  <2>2. MbTypeOK
    BY <2>1 DEF MbInv, CoreInv, Types, MbTypeOK, QueueTypeOK, WaitTypeOK, Sound
  <2>3. KernelSound
    BY DEF MbInv, CoreInv, KernelSound, KernelOK, Sound
  <2> QED BY <2>2, <2>3 DEF MbSound
<1>2. MbSpec => []MbInv
  BY MbInvariance
<1> QED BY <1>1, <1>2, PTL

\* The two positions of the ring agree with the number of messages, however sends,
\* urgent sends, receptions and resets follow each other round it.
THEOREM RingStaysConsistent ==
  ASSUME DeletersMask PROVE MbSpec => []RingConsistent
<1>1. MbInv => RingConsistent
  BY DEF MbInv, RingOk, RingConsistent
<1>2. MbSpec => []MbInv
  BY MbInvariance
<1> QED BY <1>1, <1>2, PTL

\* The messages as the contract sees them.
LEMMA ContentsFacts ==
  ASSUME MbInv
  PROVE  /\ Contents(mb) \in Seq(Values \cup {Unset}) /\ Len(Contents(mb)) = mb.entry
         /\ Empty => Contents(mb) = <<>>
         /\ Full <=> Len(Contents(mb)) + 0 = Size
<1>1. mb \in Rings /\ mb.entry \in 0 .. Size /\ Size \in Nat
  BY RingFields DEF MbInv, Types
<1>2. Contents(mb) \in Seq(Values \cup {Unset}) /\ Len(Contents(mb)) = mb.entry
  BY <1>1, ContentsSeq
<1>3. mb.entry + 0 = mb.entry
  BY <1>1
<1>4. Full <=> Len(Contents(mb)) + 0 = Size
  BY <1>2, <1>3 DEF Full
<1>5. Empty => Contents(mb) = <<>>
  BY <1>2, EmptySeq DEF Empty
<1> QED BY <1>2, <1>4, <1>5

\* Each effect is a step of the contract.
LEMMA ContractStep ==
  ASSUME MbInv, Effect
  PROVE  [Contract!Next]_(Contract!vars)
<1> DEFINE c == Contents(mb)
           d == Contents(mb)'
           r == On(k, Receivers)
           s == On(k, Senders)
           r2 == On(k, Receivers)'
           s2 == On(k, Senders)'
<1>1. mb \in Rings /\ RingOk(mb)
  BY DEF MbInv, Types
<1>2. /\ Empty => c = <<>>
      /\ Full <=> Len(c) + 0 = Size
  BY ContentsFacts
<1>3. r2 = On(k', Receivers) /\ s2 = On(k', Senders)
  BY DEF On
<1>4. CASE d = c /\ r2 = r /\ s2 = s
  BY <1>4 DEF Contract!vars
<1>5. CASE d = c /\ \E t \in Threads : r2 = r \ {t} /\ s2 = s \ {t}
  <2>1. PICK t \in Threads : r2 = r \ {t} /\ s2 = s \ {t}
    BY <1>5
  <2>2. Contract!GiveUp(t)
    BY <1>5, <2>1 DEF Contract!GiveUp
  <2> QED BY <2>2 DEF Contract!Next
<1>6. CASE d = c /\ Empty /\ s2 = s /\ \E t \in Threads : r2 = r \cup {t}
  <2>1. PICK t \in Threads : r2 = r \cup {t}
    BY <1>6
  <2>2. Contract!WaitToReceive(t)
    BY <1>2, <1>6, <2>1 DEF Contract!WaitToReceive
  <2> QED BY <2>2 DEF Contract!Next
<1>7. CASE d = c /\ Full /\ r2 = r /\ \E t \in Threads : s2 = s \cup {t}
  <2>1. PICK t \in Threads : s2 = s \cup {t}
    BY <1>7
  <2>2. Contract!WaitToSend(t)
    BY <1>2, <1>7, <2>1 DEF Contract!WaitToSend, Contract!Full
  <2> QED BY <2>2 DEF Contract!Next
<1>8. CASE /\ ~Full /\ s2 = s /\ \E v \in Values : d \in {Append(c, v), <<v>> \o c}
           /\ IF r = {} THEN r2 = r ELSE \E t \in r : r2 = r \ {t}
  <2>1. PICK v \in Values : d \in {Append(c, v), <<v>> \o c}
    BY <1>8
  <2>2. Contract!Put(v)
    BY <1>2, <1>8, <2>1 DEF Contract!Put, Contract!Full, Contract!WakeOne
  <2> QED BY <2>2 DEF Contract!Next
<1>9. CASE /\ c # <<>> /\ d = Tail(c) /\ r2 = r
           /\ IF s = {} THEN s2 = s ELSE \E t \in s : s2 = s \ {t}
  <2>1. Contract!Get
    BY <1>9 DEF Contract!Get, Contract!WakeOne
  <2> QED BY <2>1 DEF Contract!Next
<1>10. CASE d = <<>> /\ r2 = {} /\ s2 = {}
  <2>1. Contract!Reset
    BY <1>10 DEF Contract!Reset
  <2> QED BY <2>1 DEF Contract!Next
<1>11. d = Contents(mb')
  BY DEF Contents
<1>12. \A v \in Values : mb' \in {RingSend(mb, v), RingUrgent(mb, v)} /\ ~Full =>
         d \in {Append(c, v), <<v>> \o c}
  <2>1. ~Full => mb.entry < Size
    BY PlaceLeft
  <2> QED BY <1>1, <1>11, <2>1, SendAppends, UrgentPrepends
<1>13. ~Empty /\ mb' = RingRecv(mb) => c # <<>> /\ d = Tail(c)
  BY <1>1, <1>11, RecvTakesHead DEF Empty
<1>14. mb' \in {RingReset(mb), EmptyRing} => d = <<>>
  BY <1>1, <1>11, ResetEmpties
<1>15. mb' = mb => d = c
  BY <1>11
<1> HIDE DEF c, d, r, s, r2, s2
<1>16. CASE \/ mb' = mb /\ Same(Receivers) /\ Same(Senders)
            \/ /\ mb' = mb
               /\ \E t \in Threads : /\ On(k', Receivers) = On(k, Receivers) \ {t}
                                     /\ On(k', Senders) = On(k, Senders) \ {t}
  BY <1>3, <1>4, <1>5, <1>15, <1>16 DEF Same, r, s
<1>17. CASE \/ /\ mb' = mb /\ Empty /\ Same(Senders)
               /\ \E t \in Threads : On(k', Receivers) = On(k, Receivers) \cup {t}
            \/ /\ mb' = mb /\ Full /\ Same(Receivers)
               /\ \E t \in Threads : On(k', Senders) = On(k, Senders) \cup {t}
  BY <1>3, <1>6, <1>7, <1>15, <1>17 DEF Same, r, s
<1>18. CASE /\ ~Full /\ WakesOne(Receivers) /\ Same(Senders)
            /\ \E v \in Values : mb' \in {RingSend(mb, v), RingUrgent(mb, v)}
  BY <1>3, <1>8, <1>12, <1>18 DEF Same, WakesOne, r, s
<1>19. CASE ~Empty /\ WakesOne(Senders) /\ Same(Receivers) /\ mb' = RingRecv(mb)
  BY <1>3, <1>9, <1>13, <1>19 DEF Same, WakesOne, r, s
<1>20. CASE /\ mb' \in {RingReset(mb), EmptyRing}
            /\ On(k', Receivers) = {} /\ On(k', Senders) = {}
  BY <1>3, <1>10, <1>14, <1>20
<1> QED BY <1>16, <1>17, <1>18, <1>19, <1>20 DEF Effect

\* The mailbox implements its contract: messages come out in the order they went in and
\* urgent ones first, a thread waits only while it has to, and every message that goes
\* in, and every place that becomes free, wakes one thread that waits for it
\* (rt_mb_send_wait, rt_mb_urgent, rt_mb_recv).
THEOREM MailboxImplementsContract ==
  ASSUME DeletersMask PROVE MbSpec => ContractSpec
<1>1. MbInit => Contract!Init
  <2> SUFFICES ASSUME MbInit PROVE Contract!Init
    OBVIOUS
  <2>1. On(k, Receivers) = {} /\ On(k, Senders) = {} /\ MbInv
    BY MbInitInv
  <2>2. Empty
    BY DEF MbInit, EmptyRing, Empty
  <2>3. Contents(mb) = <<>>
    BY <2>1, <2>2, ContentsFacts
  <2> QED BY <2>1, <2>3 DEF Contract!Init
<1>2. MbInv /\ [MbNext]_<<vars, objVars, mbVars>> => [Contract!Next]_(Contract!vars)
  BY MbNextInv, ContractStep DEF Promise
<1>3. MbSpec => []MbInv
  BY MbInvariance
<1> QED BY <1>1, <1>2, <1>3, PTL DEF MbSpec, ContractSpec, Contract!Spec

\* n things that were spoken for by p woken threads and c lost ones, and m by q and d.
LEMMA CountMoves ==
  ASSUME NEW n \in Nat, NEW m \in Nat, NEW p \in Nat, NEW q \in Nat,
         NEW c \in Nat, NEW d \in Nat, n <= p + c,
         \/ m <= n /\ q = p /\ d = c
         \/ q = p + 1 /\ m = n + 1 /\ d = c
         \/ q = p - 1 /\ ((m = n - 1 /\ d = c) \/ (m = n /\ d = c + 1))
  PROVE  m <= q + d
<1>1. CASE m <= n /\ q = p /\ d = c
  BY <1>1
<1>2. CASE q = p + 1 /\ m = n + 1 /\ d = c
  BY <1>2
<1>3. CASE q = p - 1 /\ m = n - 1 /\ d = c
  BY <1>3
<1>4. CASE q = p - 1 /\ m = n /\ d = c + 1
  BY <1>4
<1> QED BY <1>1, <1>2, <1>3, <1>4

\* Counting: whoever is spoken for stays so.
LEMMA SpokenKeeps ==
  ASSUME IsFiniteSet(Threads), MbInv, MbInv', NEW q, NEW op \in {"send", "recv"},
         NEW n \in Nat, NEW m \in Nat, Spoken(q, op, n, m),
         k.list[q] # <<>> => n <= Cardinality(WokenFor(op)) + lost[op]
  PROVE  k'.list[q] # <<>> => m <= Cardinality(WokenFor(op)') + lost'[op]
<1> DEFINE W == WokenFor(op)
<1>1. /\ WokenFor(op) \subseteq Threads /\ WokenFor(op)' \subseteq Threads
  BY DEF WokenFor, WokenAt
<1>2. /\ IsFiniteSet(W) /\ Cardinality(W) \in Nat
      /\ IsFiniteSet(W') /\ Cardinality(W') \in Nat
  BY <1>1, FS_Subset, FS_CardinalityType
<1>3. /\ lost[op] \in Nat /\ lost'[op] \in Nat
  BY DEF MbInv, Types
<1>4. \A t \in Threads :
        /\ t \notin W => Cardinality(W \cup {t}) = Cardinality(W) + 1
        /\ t \in W => Cardinality(W \ {t}) = Cardinality(W) - 1
  BY <1>2, FS_AddElement, FS_RemoveElement
<1> HIDE DEF W
<1>5. CASE k'.list[q] = <<>> \/ m = 0
  BY <1>2, <1>3, <1>5 DEF W
<1>6. CASE /\ k.list[q] # <<>>
           /\ \/ m <= n /\ W' = W /\ lost'[op] = lost[op]
              \/ \E t \in Threads : /\ t \notin W /\ W' = W \cup {t}
                                    /\ m = n + 1 /\ lost'[op] = lost[op]
              \/ \E t \in W : /\ W' = W \ {t}
                              /\ \/ m = n - 1 /\ lost'[op] = lost[op]
                                 \/ m = n /\ lost'[op] = lost[op] + 1
  <2>1. n <= Cardinality(W) + lost[op]
    BY <1>6 DEF W
  <2>2. W \subseteq Threads
    BY <1>1 DEF W
  <2>3. PICK a \in Nat, b \in Nat, c \in Nat, d \in Nat :
          a = Cardinality(W) /\ b = Cardinality(W') /\ c = lost[op] /\ d = lost'[op]
    BY <1>2, <1>3
  <2>4. \/ m <= n /\ b = a /\ d = c
        \/ b = a + 1 /\ m = n + 1 /\ d = c
        \/ b = a - 1 /\ ((m = n - 1 /\ d = c) \/ (m = n /\ d = c + 1))
    BY <1>4, <1>6, <2>2, <2>3
  <2>5. n <= a + c
    BY <2>1, <2>3
  <2>6. m <= b + d
    BY <2>4, <2>5, CountMoves
  <2> QED BY <2>3, <2>6 DEF W
<1> QED BY <1>5, <1>6 DEF Spoken, W

\* Nobody is stranded: while a receiver waits, each message in the mailbox is spoken for
\* by a receiver that was woken and has not looked yet, or that was deleted before it
\* could; and so is each free place while a sender waits (rt_mb_recv, rt_mb_send_wait).
THEOREM NobodyIsStranded ==
  ASSUME DeletersMask, IsFiniteSet(Threads) PROVE MbSpec => []NobodyStranded
<1>1. MbInit => NobodyStranded
  BY MbInitInv DEF NobodyStranded, NoStrandedReceiver, NoStrandedSender
<1>2. MbInv /\ MbInv' /\ NobodyStranded /\ [MbNext]_<<vars, objVars, mbVars>>
        => NobodyStranded'
  <2> SUFFICES ASSUME MbInv, MbInv', NobodyStranded, [MbNext]_<<vars, objVars, mbVars>>
               PROVE  NobodyStranded'
    OBVIOUS
  <2>1. Promise
    BY MbNextInv
  <2>2. /\ mb.entry \in Nat /\ Size - mb.entry \in Nat
        /\ mb'.entry \in Nat /\ Size - mb'.entry \in Nat
    <3>1. /\ mb.entry \in 0 .. Size /\ mb'.entry \in 0 .. Size /\ Size \in Nat
      BY RingFields DEF MbInv, Types
    <3> QED BY <3>1
  <2>3. NoStrandedReceiver'
    BY <2>1, <2>2, SpokenKeeps DEF Promise, NobodyStranded, NoStrandedReceiver
  <2>4. NoStrandedSender'
    BY <2>1, <2>2, SpokenKeeps DEF Promise, NobodyStranded, NoStrandedSender
  <2> QED BY <2>3, <2>4 DEF NobodyStranded
<1>3. MbSpec => []MbInv
  BY MbInvariance
<1> QED BY <1>1, <1>2, <1>3, PTL DEF MbSpec
=============================================================================
