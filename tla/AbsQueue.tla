------------------------------ MODULE AbsQueue ------------------------------
(***************************************************************************)
(* What a bounded message queue with blocking senders and receivers        *)
(* promises: messages come out in the order they went in, urgent ones      *)
(* first; a client waits only while it has to; and every message that goes *)
(* in, and every place that becomes free, wakes one client that waits for  *)
(* it.                                                                     *)
(*                                                                         *)
(* A message may need a place of its own before it goes in and after it    *)
(* has come out, while it is copied: `busy` counts such places.            *)
(***************************************************************************)
EXTENDS Sequences, Naturals

CONSTANTS Clients, Values, Capacity

VARIABLES queue, busy, receivers, senders

vars == <<queue, busy, receivers, senders>>

Init == queue = <<>> /\ busy = 0 /\ receivers = {} /\ senders = {}

Full == Len(queue) + busy = Capacity

\* One client of the set S, if there is any, is not in it any more.
WakeOne(S, T) == IF S = {} THEN T = S ELSE \E c \in S : T = S \ {c}

WaitToReceive(c) ==
  /\ receivers' = receivers \cup {c}
  /\ queue = <<>>
  /\ UNCHANGED <<queue, busy, senders>>

WaitToSend(c) ==
  /\ senders' = senders \cup {c}
  /\ Full
  /\ UNCHANGED <<queue, busy, receivers>>

\* A time limit, or the end of a client
GiveUp(c) ==
  /\ receivers' = receivers \ {c}
  /\ senders' = senders \ {c}
  /\ UNCHANGED <<queue, busy>>

Reserve ==
  /\ ~Full
  /\ busy' = busy + 1
  /\ UNCHANGED <<queue, receivers, senders>>

Put(v) ==
  /\ queue' \in {Append(queue, v), <<v>> \o queue}
  /\ \/ ~Full /\ UNCHANGED busy
     \/ busy > 0 /\ busy' = busy - 1
  /\ WakeOne(receivers, receivers')
  /\ UNCHANGED senders

\* A message comes out, and its place is free at once
Get ==
  /\ queue # <<>>
  /\ queue' = Tail(queue)
  /\ WakeOne(senders, senders')
  /\ UNCHANGED <<busy, receivers>>

\* ... or only once the message has been copied
GetHold ==
  /\ queue # <<>>
  /\ queue' = Tail(queue)
  /\ busy' = busy + 1
  /\ UNCHANGED <<receivers, senders>>

Release ==
  /\ busy > 0
  /\ busy' = busy - 1
  /\ WakeOne(senders, senders')
  /\ UNCHANGED <<queue, receivers>>

\* Nobody waits for a queue that is reset or taken away, and nothing is in it.
Reset ==
  /\ queue' = <<>>
  /\ busy' \in {0, busy}
  /\ receivers' = {} /\ senders' = {}

Next ==
  \/ \E c \in Clients : GiveUp(c) \/ WaitToReceive(c) \/ WaitToSend(c)
  \/ \E v \in Values : Put(v)
  \/ Reserve \/ Get \/ GetHold \/ Release \/ Reset

Spec == Init /\ [][Next]_vars
=============================================================================
