--------------------------- MODULE DriverProofs ------------------------------
(***************************************************************************)
(* Theorems about what drivers are built from and their users: the wait    *)
(* queue and the pipe, the transmission of serial.c and the completion,    *)
(* the console, the work queue, and Drivers, which is all of them.  Each   *)
(* has an inductive invariant of its own; a behaviour of Drivers is a      *)
(* behaviour of each part, except that the pipe is built on the wait queue *)
(* that others use too.                                                    *)
(***************************************************************************)
EXTENDS Drivers, ListProofs, FiniteSetTheorems

-----------------------------------------------------------------------------
(* The wait queue, for any threads and any number of queues.               *)

PipeLabels == P!Inside \cup {"out", "take", "body", "poke", "sleep", "tell",
                             "release", "close", "eof", "epipe", "gone"}

\* Nodes are in the list of the thread's own queue, while it is inside; a thread that
\* sleeps has one.
NodesInv ==
  /\ \A q \in Queues : IsInjective(wq[q].nodes)
  /\ \A q \in Queues : \A t \in ToSet(wq[q].nodes) : ppc[t] \in P!Inside /\ at[t] = q
  /\ \A t \in Threads : ppc[t] = "asleep" => t \in ToSet(wq[at[t]].nodes)

WaitInv == P!WqTypeOK /\ ppc \in [Threads -> PipeLabels] /\ NodesInv

\* The invariant is what NodesLive says, with sets for positions.
LEMMA WaitInvIsLive ==
  ASSUME WaitInv
  PROVE  P!NodesLive
<1>1. ASSUME NEW q \in Queues, NEW i \in DOMAIN wq[q].nodes, NEW j \in DOMAIN wq[q].nodes
      PROVE  LET t == wq[q].nodes[i]
             IN  /\ ppc[t] \in P!Inside /\ at[t] = q
                 /\ wq[q].nodes[j] = t => i = j
  <2>1. wq[q].nodes \in Seq(Threads) /\ IsInjective(wq[q].nodes)
    BY DEF WaitInv, NodesInv, P!WqTypeOK
  <2>2. wq[q].nodes[i] \in ToSet(wq[q].nodes)
    BY <2>1 DEF ToSet
  <2> QED BY <2>1, <2>2 DEF WaitInv, NodesInv, IsInjective
<1>2. ASSUME NEW t \in Threads, ppc[t] = "asleep" PROVE t \in P!ToSet(wq[at[t]].nodes)
  BY <1>2 DEF WaitInv, NodesInv, ToSet, P!ToSet
<1> QED BY <1>1, <1>2 DEF P!NodesLive

\* A thread moves outside rt_wqueue_wait.
LEMMA OutsideStep ==
  ASSUME WaitInv, NEW t \in Threads, ppc[t] \notin P!Inside,
         NEW l \in PipeLabels \ P!Inside,
         ppc' = [ppc EXCEPT ![t] = l], UNCHANGED <<wq, at, ptimer>>
  PROVE  WaitInv'
<1>1. \A u \in Threads : u # t => ppc'[u] = ppc[u]
  BY DEF WaitInv
<1>2. l # "asleep" /\ ppc[t] # "asleep"
  BY DEF P!Inside
<1>3. P!WqTypeOK'
  BY <1>1, <1>2 DEF WaitInv, P!WqTypeOK
<1>4. ASSUME NEW q \in Queues, NEW u \in ToSet(wq[q].nodes) PROVE u # t /\ u \in Threads
  <2>1. wq[q].nodes \in Seq(Threads)
    BY DEF WaitInv, P!WqTypeOK
  <2> QED BY <2>1, ElementsIn DEF WaitInv, NodesInv
<1>5. NodesInv'
  BY <1>1, <1>2, <1>4 DEF WaitInv, NodesInv
<1> QED BY <1>3, <1>5 DEF WaitInv

\* The flag is cleared, by WaitNow or by Clean, and nothing else changes but a label.
LEMMA FlagStep ==
  ASSUME WaitInv, NEW q \in Queues, NEW t \in Threads, NEW l \in PipeLabels,
         \/ ppc[t] \notin P!Inside /\ l \notin P!Inside
         \/ ppc[t] = "awake" /\ l = "unlink",
         wq' = [wq EXCEPT ![q].flag = FALSE],
         ppc' = [ppc EXCEPT ![t] = l], UNCHANGED <<at, ptimer>>
  PROVE  WaitInv'
<1>1. \A u \in Threads : u # t => ppc'[u] = ppc[u]
  BY DEF WaitInv
<1>2. l # "asleep" /\ ppc[t] # "asleep"
  BY DEF P!Inside
<1>3. wq' \in [Queues -> [flag : BOOLEAN, nodes : Seq(Threads)]]
      /\ \A r \in Queues : wq'[r].nodes = wq[r].nodes
  BY DEF WaitInv, P!WqTypeOK
<1>4. P!WqTypeOK'
  BY <1>1, <1>2, <1>3 DEF WaitInv, P!WqTypeOK
<1>5. ASSUME NEW r \in Queues, NEW u \in ToSet(wq[r].nodes)
      PROVE  u \in Threads /\ ppc'[u] \in P!Inside
  <2>1. wq[r].nodes \in Seq(Threads)
    BY DEF WaitInv, P!WqTypeOK
  <2> QED BY <1>1, <2>1, ElementsIn DEF WaitInv, NodesInv, P!Inside
<1>6. at \in [Threads -> Queues]
  BY DEF WaitInv, P!WqTypeOK
<1>7. NodesInv'
  BY <1>1, <1>2, <1>3, <1>5, <1>6 DEF WaitInv, NodesInv
<1> QED BY <1>4, <1>7 DEF WaitInv

\* rt_wqueue_wait: the node goes into the list.
LEMMA WaitBlockStep ==
  ASSUME WaitInv, NEW t \in Threads, NEW q \in Queues, NEW finite \in BOOLEAN,
         NEW from \in PipeLabels \ P!Inside, P!WaitBlock(t, q, finite, from)
  PROVE  WaitInv'
<1> DEFINE n == wq[q].nodes
<1>1. n \in Seq(Threads) /\ IsInjective(n) /\ at \in [Threads -> Queues]
  BY DEF WaitInv, NodesInv, P!WqTypeOK
<1>2. \A r \in Queues : t \notin ToSet(wq[r].nodes)
  BY DEF WaitInv, NodesInv, P!WaitBlock
<1>3. /\ Append(n, t) \in Seq(Threads) /\ IsInjective(Append(n, t))
      /\ ToSet(Append(n, t)) = ToSet(n) \cup {t}
  BY <1>1, <1>2, AppendProps
<1>4. /\ wq' \in [Queues -> [flag : BOOLEAN, nodes : Seq(Threads)]]
      /\ wq'[q].nodes = Append(n, t)
      /\ \A r \in Queues : r # q => wq'[r].nodes = wq[r].nodes
  BY <1>3 DEF WaitInv, P!WqTypeOK, P!WaitBlock
<1>5. /\ at' \in [Threads -> Queues] /\ at'[t] = q
      /\ \A u \in Threads : u # t => at'[u] = at[u]
  BY <1>1 DEF P!WaitBlock
<1>6. /\ ppc' \in [Threads -> PipeLabels] /\ ppc'[t] = "asleep"
      /\ \A u \in Threads : u # t => ppc'[u] = ppc[u]
  BY DEF WaitInv, P!WaitBlock, P!Goto, PipeLabels, P!Inside
<1>7. ptimer' \subseteq {u \in Threads : ppc'[u] = "asleep"}
  BY <1>6 DEF WaitInv, P!WqTypeOK, P!WaitBlock
<1>8. \A r \in Queues : \A u \in ToSet(wq[r].nodes) : u \in Threads
  <2>1. \A r \in Queues : wq[r].nodes \in Seq(Threads)
    BY DEF WaitInv, P!WqTypeOK
  <2> QED BY <2>1, ElementsIn
<1>9. "asleep" \in P!Inside
  BY DEF P!Inside
<1> HIDE DEF n
<1>10. \A r \in Queues : IsInjective(wq'[r].nodes)
  BY <1>1, <1>3, <1>4 DEF WaitInv, NodesInv
<1>11. \A r \in Queues : ToSet(wq'[r].nodes) = IF r = q THEN ToSet(n) \cup {t} ELSE ToSet(wq[r].nodes)
  BY <1>3, <1>4
<1>12. ToSet(n) = ToSet(wq[q].nodes)
  BY DEF n
<1>13. \A r \in Queues : \A u \in ToSet(wq'[r].nodes) : ppc'[u] \in P!Inside /\ at'[u] = r
  BY <1>2, <1>5, <1>6, <1>8, <1>9, <1>11, <1>12 DEF WaitInv, NodesInv
<1>14. \A u \in Threads : ppc'[u] = "asleep" => u \in ToSet(wq'[at'[u]].nodes)
  BY <1>1, <1>5, <1>6, <1>11, <1>12 DEF WaitInv, NodesInv
<1> QED BY <1>4, <1>5, <1>6, <1>7, <1>10, <1>13, <1>14 DEF WaitInv, NodesInv, P!WqTypeOK

\* _thread_timeout: the node stays.
LEMMA TimeoutStep ==
  ASSUME WaitInv, NEW t \in Threads, P!Timeout(t)
  PROVE  WaitInv'
<1>1. /\ ppc' \in [Threads -> PipeLabels] /\ ppc'[t] = "awake" /\ ppc[t] = "asleep"
      /\ \A u \in Threads : u # t => ppc'[u] = ppc[u]
  BY DEF WaitInv, P!Timeout, P!Goto, PipeLabels, P!Inside
<1>2. P!WqTypeOK'
  BY <1>1 DEF WaitInv, P!WqTypeOK, P!Timeout
<1>3. \A r \in Queues : \A u \in ToSet(wq[r].nodes) : u \in Threads
  <2>1. \A r \in Queues : wq[r].nodes \in Seq(Threads)
    BY DEF WaitInv, P!WqTypeOK
  <2> QED BY <2>1, ElementsIn
<1>4. wq' = wq /\ at' = at /\ "awake" \in P!Inside
  BY DEF P!Timeout, P!Inside
<1>5. NodesInv'
  BY <1>1, <1>3, <1>4 DEF WaitInv, NodesInv
<1> QED BY <1>1, <1>2, <1>5 DEF WaitInv

\* RemoveFirst is the one that ListProofs is about.
LEMMA SameRemove ==
  ASSUME NEW s, NEW e
  PROVE  P!RemoveFirst(s, e) = RemoveFirst(s, e)
BY DEF P!RemoveFirst, P!SelectInSeq, P!RemoveAt, P!Min, RemoveFirst, SelectInSeq, RemoveAt, Min

\* rt_wqueue_remove: the thread that leaves has no node any more.
LEMMA UnlinkStep ==
  ASSUME WaitInv, NEW t \in Threads, NEW to \in PipeLabels \ P!Inside, P!Unlink(t, to)
  PROVE  WaitInv'
<1> DEFINE q == at[t]
           n == wq[q].nodes
<1>1. at \in [Threads -> Queues] /\ q \in Queues /\ n \in Seq(Threads) /\ IsInjective(n)
  BY DEF WaitInv, NodesInv, P!WqTypeOK
<1>2. /\ RemoveFirst(n, t) \in Seq(Threads) /\ IsInjective(RemoveFirst(n, t))
      /\ ToSet(RemoveFirst(n, t)) = ToSet(n) \ {t}
  BY <1>1, RemoveFirstProps
<1>3. P!RemoveFirst(n, t) = RemoveFirst(n, t)
  BY SameRemove
<1>4. wq' = [wq EXCEPT ![q].nodes = RemoveFirst(n, t)] /\ at' = at /\ ptimer' = ptimer
  BY <1>3 DEF P!Unlink
<1>5. /\ wq' \in [Queues -> [flag : BOOLEAN, nodes : Seq(Threads)]]
      /\ wq'[q].nodes = RemoveFirst(n, t)
      /\ \A r \in Queues : r # q => wq'[r].nodes = wq[r].nodes
  BY <1>1, <1>2, <1>4 DEF WaitInv, P!WqTypeOK
<1>6. /\ ppc' \in [Threads -> PipeLabels] /\ ppc'[t] = to /\ ppc[t] = "unlink"
      /\ \A u \in Threads : u # t => ppc'[u] = ppc[u]
  BY DEF WaitInv, P!Unlink, P!Goto
<1>7. to # "asleep"
  BY DEF P!Inside
<1>8. \A r \in Queues : \A u \in ToSet(wq[r].nodes) : u \in Threads
  <2>1. \A r \in Queues : wq[r].nodes \in Seq(Threads)
    BY DEF WaitInv, P!WqTypeOK
  <2> QED BY <2>1, ElementsIn
<1>9. ptimer' \subseteq {u \in Threads : ppc'[u] = "asleep"}
  BY <1>4, <1>6 DEF WaitInv, P!WqTypeOK
<1>10. \A r \in Queues : IsInjective(wq'[r].nodes)
  BY <1>1, <1>2, <1>5 DEF WaitInv, NodesInv
<1>11. \A r \in Queues : ToSet(wq'[r].nodes) = ToSet(wq[r].nodes) \ {t}
  <2>1. \A r \in Queues : r # q => t \notin ToSet(wq[r].nodes)
    BY DEF WaitInv, NodesInv
  <2> QED BY <1>2, <1>5, <2>1
<1> HIDE DEF q, n
<1>12. \A r \in Queues : \A u \in ToSet(wq'[r].nodes) : ppc'[u] \in P!Inside /\ at'[u] = r
  BY <1>4, <1>6, <1>8, <1>11 DEF WaitInv, NodesInv
<1>13. \A u \in Threads : ppc'[u] = "asleep" => u \in ToSet(wq'[at'[u]].nodes)
  BY <1>1, <1>4, <1>6, <1>7, <1>11 DEF WaitInv, NodesInv
<1> QED BY <1>1, <1>4, <1>5, <1>6, <1>9, <1>10, <1>12, <1>13 DEF WaitInv, NodesInv, P!WqTypeOK

\* What rt_wqueue_wakeup does, called by a thread that moves outside rt_wqueue_wait.
Outside(p) ==
  /\ p \in [Threads -> PipeLabels]
  /\ \A t \in Threads : p[t] = ppc[t] \/ {p[t], ppc[t]} \cap P!Inside = {}

LEMMA WakeupEffect ==
  ASSUME WaitInv, NEW q \in Queues, NEW p, Outside(p), P!Wakeup(q, p)
  PROVE  /\ wq' \in [Queues -> [flag : BOOLEAN, nodes : Seq(Threads)]]
         /\ wq'[q].flag /\ \A r \in Queues : r # q => wq'[r] = wq[r]
         /\ at' = at
         /\ wq[q].nodes = <<>> =>
               wq'[q].nodes = <<>> /\ ppc' = p /\ ptimer' = ptimer
         /\ wq[q].nodes # <<>> =>
               LET h == Head(wq[q].nodes)
               IN  /\ h \in ToSet(wq[q].nodes) /\ h \in Threads
                   /\ wq'[q].nodes = Tail(wq[q].nodes)
                   /\ ppc' = IF p[h] = "asleep" THEN [p EXCEPT ![h] = "awake"] ELSE p
                   /\ ptimer' = IF p[h] = "asleep" THEN ptimer \ {h} ELSE ptimer
<1>1. wq \in [Queues -> [flag : BOOLEAN, nodes : Seq(Threads)]] /\ wq[q].nodes \in Seq(Threads)
  BY DEF WaitInv, P!WqTypeOK
<1>2. wq' = [wq EXCEPT ![q].flag = TRUE,
                       ![q].nodes = IF @ = <<>> THEN @ ELSE Tail(@)]
  BY DEF P!Wakeup
<1>3. CASE wq[q].nodes = <<>>
  <2>1. /\ wq' \in [Queues -> [flag : BOOLEAN, nodes : Seq(Threads)]]
        /\ wq'[q].flag /\ \A r \in Queues : r # q => wq'[r] = wq[r]
        /\ wq'[q].nodes = <<>>
    BY <1>1, <1>2, <1>3
  <2>2. ppc' = p /\ ptimer' = ptimer /\ at' = at
    BY <1>3 DEF P!Wakeup
  <2> QED BY <1>1, <1>3, <2>1, <2>2
<1>4. CASE wq[q].nodes # <<>>
  <2>1. Tail(wq[q].nodes) \in Seq(Threads)
    BY <1>1, <1>4
  <2>3. /\ wq' \in [Queues -> [flag : BOOLEAN, nodes : Seq(Threads)]]
        /\ wq'[q].flag /\ \A r \in Queues : r # q => wq'[r] = wq[r]
        /\ wq'[q].nodes = Tail(wq[q].nodes)
    BY <1>1, <1>2, <1>4, <2>1
  <2>4. Head(wq[q].nodes) \in ToSet(wq[q].nodes) /\ Head(wq[q].nodes) \in Threads
    BY <1>1, <1>4, HeadIn
  <2>5. /\ at' = at
        /\ ppc' = IF p[Head(wq[q].nodes)] = "asleep"
                    THEN [p EXCEPT ![Head(wq[q].nodes)] = "awake"] ELSE p
        /\ ptimer' = IF p[Head(wq[q].nodes)] = "asleep"
                       THEN ptimer \ {Head(wq[q].nodes)} ELSE ptimer
    BY <1>4 DEF P!Wakeup
  <2> QED BY <1>4, <2>3, <2>4, <2>5
<1> QED BY <1>3, <1>4

LEMMA WakeupStep ==
  ASSUME WaitInv, NEW q \in Queues, NEW p, Outside(p), P!Wakeup(q, p)
  PROVE  WaitInv'
<1>1. /\ wq' \in [Queues -> [flag : BOOLEAN, nodes : Seq(Threads)]]
      /\ \A r \in Queues : r # q => wq'[r] = wq[r]
      /\ at' = at
  BY WakeupEffect
<1>2. /\ at \in [Threads -> Queues] /\ ptimer \subseteq {t \in Threads : ppc[t] = "asleep"}
      /\ ppc \in [Threads -> PipeLabels]
      /\ wq[q].nodes \in Seq(Threads)
  BY DEF WaitInv, P!WqTypeOK
<1>3. \A t \in Threads : p[t] = "asleep" <=> ppc[t] = "asleep"
  BY DEF Outside, P!Inside
<1>4. \A r \in Queues : \A u \in ToSet(wq[r].nodes) : u \in Threads /\ p[u] \in P!Inside /\ at[u] = r
  <2>1. \A r \in Queues : wq[r].nodes \in Seq(Threads)
    BY DEF WaitInv, P!WqTypeOK
  <2>2. \A r \in Queues : \A u \in ToSet(wq[r].nodes) : u \in Threads
    BY <2>1, ElementsIn
  <2> QED BY <2>2 DEF WaitInv, NodesInv, Outside
<1>5. CASE wq[q].nodes = <<>>
  <2>1. wq'[q].nodes = wq[q].nodes /\ ppc' = p /\ ptimer' = ptimer
    BY <1>5, WakeupEffect
  <2>2. \A r \in Queues : wq'[r].nodes = wq[r].nodes
    BY <1>1, <2>1
  <2>3. NodesInv'
    BY <1>1, <1>2, <1>3, <1>4, <2>1, <2>2 DEF WaitInv, NodesInv
  <2> QED BY <1>1, <1>2, <1>3, <2>1, <2>3 DEF WaitInv, P!WqTypeOK, Outside
<1>6. CASE wq[q].nodes # <<>>
  <2> DEFINE h == Head(wq[q].nodes)
  <2>1. /\ h \in ToSet(wq[q].nodes) /\ h \in Threads
        /\ wq'[q].nodes = Tail(wq[q].nodes)
        /\ ppc' = IF p[h] = "asleep" THEN [p EXCEPT ![h] = "awake"] ELSE p
        /\ ptimer' = IF p[h] = "asleep" THEN ptimer \ {h} ELSE ptimer
    BY <1>6, WakeupEffect
  <2>2. /\ IsInjective(wq'[q].nodes)
        /\ ToSet(wq'[q].nodes) = ToSet(wq[q].nodes) \ {h}
    <3>1. IsInjective(wq[q].nodes)
      BY DEF WaitInv, NodesInv
    <3> QED BY <1>2, <1>6, <2>1, <3>1, TailProps
  <2> HIDE DEF h
  <2>3. ppc' \in [Threads -> PipeLabels]
    BY <2>1 DEF Outside, PipeLabels, P!Inside
  <2>4. \A u \in Threads : /\ u # h => ppc'[u] = p[u]
                           /\ ppc'[u] = "asleep" <=> u # h /\ ppc[u] = "asleep"
                           /\ p[u] \in P!Inside => ppc'[u] \in P!Inside
    BY <1>3, <2>1 DEF Outside, P!Inside
  <2>5. \A r \in Queues : IsInjective(wq'[r].nodes)
    BY <1>1, <2>2 DEF WaitInv, NodesInv
  <2>6. \A r \in Queues : ToSet(wq'[r].nodes) = ToSet(wq[r].nodes) \ {h}
    <3>1. \A r \in Queues : r # q => h \notin ToSet(wq[r].nodes)
      BY <2>1 DEF WaitInv, NodesInv
    <3> QED BY <1>1, <2>2, <3>1
  <2>7. \A r \in Queues : \A u \in ToSet(wq'[r].nodes) : ppc'[u] \in P!Inside /\ at'[u] = r
    BY <1>1, <1>4, <2>4, <2>6
  <2>8. \A u \in Threads : ppc'[u] = "asleep" => u \in ToSet(wq'[at'[u]].nodes)
    BY <1>1, <1>2, <2>4, <2>6 DEF WaitInv, NodesInv
  <2>9. ptimer' \subseteq {u \in Threads : ppc'[u] = "asleep"}
    BY <1>2, <1>3, <2>1, <2>4
  <2> QED BY <1>1, <1>2, <2>3, <2>5, <2>7, <2>8, <2>9 DEF WaitInv, NodesInv, P!WqTypeOK
<1> QED BY <1>5, <1>6

LEMMA WaitInvStutter ==
  ASSUME WaitInv, UNCHANGED P!wqVars
  PROVE  WaitInv'
BY DEF WaitInv, NodesInv, P!WqTypeOK, P!wqVars

LEMMA WaitInitInv ==
  ASSUME P!WqInit
  PROVE  WaitInv
<1>1. \A q \in Queues : wq[q].nodes = <<>> /\ IsInjective(wq[q].nodes) /\ ToSet(wq[q].nodes) = {}
  BY DEF P!WqInit, IsInjective, ToSet
<1>2. \A t \in Threads : ppc[t] = "out"
  BY DEF P!WqInit
<1>3. P!WqTypeOK
  BY DEF P!WqInit, P!WqTypeOK
<1>4. ppc \in [Threads -> PipeLabels]
  BY DEF P!WqInit, PipeLabels
<1> QED BY <1>1, <1>2, <1>3, <1>4 DEF WaitInv, NodesInv

LEMMA WaitNextInv ==
  ASSUME P!WaitQueueAssumption, WaitInv, P!WqNext
  PROVE  WaitInv'
<1>0. "out" \in PipeLabels \ P!Inside /\ "unlink" \in PipeLabels
  BY DEF PipeLabels, P!Inside
<1>1. ASSUME NEW t \in Threads, NEW q \in Queues, P!WaitNow(t, q, "out", "out") PROVE WaitInv'
  <2>1. /\ wq' = [wq EXCEPT ![q].flag = FALSE] /\ ppc[t] = "out"
        /\ ppc' = [ppc EXCEPT ![t] = "out"] /\ UNCHANGED <<at, ptimer>>
    BY <1>1 DEF P!WaitNow, P!Goto
  <2> QED BY <1>0, <2>1, FlagStep
<1>2. ASSUME NEW t \in Threads, NEW q \in Queues, NEW finite \in Finite,
             P!WaitBlock(t, q, finite, "out")
      PROVE  WaitInv'
  BY <1>0, <1>2, WaitBlockStep DEF P!WaitQueueAssumption
<1>3. ASSUME NEW t \in Threads, P!Timeout(t) PROVE WaitInv'
  BY <1>3, TimeoutStep
<1>4. ASSUME NEW t \in Threads, P!Clean(t) PROVE WaitInv'
  <2>1. /\ wq' = [wq EXCEPT ![at[t]].flag = FALSE] /\ ppc[t] = "awake"
        /\ ppc' = [ppc EXCEPT ![t] = "unlink"] /\ UNCHANGED <<at, ptimer>>
    BY <1>4 DEF P!Clean, P!Goto
  <2>2. at[t] \in Queues
    BY DEF WaitInv, P!WqTypeOK
  <2> QED BY <1>0, <2>1, <2>2, FlagStep
<1>5. ASSUME NEW t \in Threads, P!Unlink(t, "out") PROVE WaitInv'
  BY <1>0, <1>5, UnlinkStep
<1>6. ASSUME NEW q \in Queues, P!Wakeup(q, ppc) PROVE WaitInv'
  BY <1>6, WakeupStep DEF Outside, WaitInv
<1> QED BY <1>1, <1>2, <1>3, <1>4, <1>5, <1>6 DEF P!WqNext

\* rt_wqueue_wait: a node is in one list and once, and only while its thread, on whose
\* stack it is, is still inside; a thread that sleeps can be found.  So for any threads
\* and queues, with time limits that expire before or after a wakeup.
THEOREM NodesStayLive ==
  ASSUME P!WaitQueueAssumption
  PROVE  P!WqSpec => [](P!WqTypeOK /\ P!NodesLive)
<1>1. P!WqInit => WaitInv
  BY WaitInitInv
<1>2. WaitInv /\ [P!WqNext]_(P!wqVars) => WaitInv'
  BY WaitNextInv, WaitInvStutter
<1>3. WaitInv => P!WqTypeOK /\ P!NodesLive
  BY WaitInvIsLive DEF WaitInv
<1> QED BY <1>1, <1>2, <1>3, PTL DEF P!WqSpec


-----------------------------------------------------------------------------
(* The pipe, for any readers, writers, capacity and sizes of calls.        *)

PipeTypes ==
  /\ fifo \in 0 .. Capacity
  /\ lock \in Threads \cup {Nobody} /\ open \subseteq Threads
  /\ pleft \in [Threads -> Nat] /\ round \subseteq Writers /\ nonblock \subseteq Threads

\* A thread waits in the queue of its own side, and in a call its descriptor is open.
PipeInv ==
  /\ WaitInv /\ PipeTypes
  /\ \A t \in Threads : at[t] = P!Mine(t)
  /\ \A t \in Threads : ppc[t] \in {"eof", "epipe", "gone"} \/ t \in open

Side(q) == {t \in Threads : P!Mine(t) = q}

\* What the threads at queue q wait for
Wants(q) == IF q = "reader" THEN fifo > 0 ELSE fifo < Capacity

\* From the moment a thread decides to sleep, what it waits for is announced by the
\* flag of its queue, as long as it is awake, or about to be by the other side.
Told(q) ==
  \A t \in Side(q) : ppc[t] \in {"poke", "sleep", "asleep"} /\ Wants(q) =>
     \/ ppc[t] # "asleep" /\ wq[q].flag
     \/ \E u \in Threads \ Side(q) : ppc[u] \in {"poke", "tell"}

Single(q) == \A t, u \in Side(q) : t = u

LEMMA SidesAreQueues ==
  ASSUME P!PipeAssumption
  PROVE  /\ \A t \in Threads : P!Mine(t) \in Queues /\ P!Theirs(t) \in Queues
                               /\ P!Theirs(t) # P!Mine(t)
         /\ Side("reader") = Readers /\ Side("writer") = Writers
         /\ Threads \ Side("reader") = Writers /\ Threads \ Side("writer") = Readers
BY DEF P!PipeAssumption, P!Mine, P!Theirs, Side

\* A step outside rt_wqueue_wait, of a call, open or close.
LEMMA ToldOutside ==
  ASSUME WaitInv, NEW q, Told(q), NEW t \in Threads, NEW l \in PipeLabels,
         ppc' = [ppc EXCEPT ![t] = l], wq' = wq,
         t \in Side(q) => l \notin {"sleep", "asleep"} /\ (l = "poke" => ~Wants(q)'),
         t \notin Side(q) => ppc[t] \notin {"poke", "tell"},
         \/ t \notin Side(q) /\ l \in {"poke", "tell"}
         \/ Wants(q)' => Wants(q)
         \/ \A u \in Side(q) : ppc[u] \notin {"poke", "sleep", "asleep"}
  PROVE  Told(q)'
<1>1. /\ ppc'[t] = l
      /\ \A u \in Threads : u # t => ppc'[u] = ppc[u]
  BY DEF WaitInv
<1>2. Side(q)' = Side(q) /\ Side(q) \subseteq Threads
  BY DEF Side, P!Mine
<1> SUFFICES ASSUME NEW u \in Side(q), ppc'[u] \in {"poke", "sleep", "asleep"}, Wants(q)'
             PROVE  \/ ppc'[u] # "asleep" /\ wq'[q].flag
                    \/ \E v \in Threads \ Side(q) : ppc'[v] \in {"poke", "tell"}
  BY <1>2 DEF Told
<1>3. u # t /\ ppc'[u] = ppc[u]
  BY <1>1, <1>2
<1>4. CASE t \notin Side(q) /\ l \in {"poke", "tell"}
  BY <1>1, <1>4
<1>5. CASE Wants(q)
  <2>1. \/ ppc[u] # "asleep" /\ wq[q].flag
        \/ \E v \in Threads \ Side(q) : ppc[v] \in {"poke", "tell"}
    BY <1>3, <1>5 DEF Told
  <2>2. \A v \in Threads \ Side(q) : ppc[v] \in {"poke", "tell"} => ppc'[v] = ppc[v]
    BY <1>1
  <2> QED BY <1>3, <2>1, <2>2
<1> QED BY <1>3, <1>4, <1>5

\* rt_wqueue_wakeup of the only thread that may wait in a queue, or of other threads.
LEMMA WokenOf ==
  ASSUME WaitInv, NEW q \in Queues, NEW p, Outside(p), P!Wakeup(q, p)
  PROVE  /\ \A u \in Threads : \/ ppc'[u] = p[u]
                               \/ at[u] = q /\ p[u] = "asleep" /\ ppc'[u] = "awake"
         /\ \A u \in Threads : at[u] = q /\ (\A v \in Threads : at[v] = q => v = u)
                                 => ppc'[u] # "asleep"
<1>1. CASE wq[q].nodes = <<>>
  <2>1. ppc' = p
    BY <1>1, WakeupEffect
  <2>2. ToSet(wq[q].nodes) = {}
    BY <1>1 DEF ToSet
  <2>3. \A u \in Threads : at[u] = q => ppc[u] # "asleep"
    BY <2>2 DEF WaitInv, NodesInv
  <2> QED BY <2>1, <2>3 DEF Outside, P!Inside
<1>2. CASE wq[q].nodes # <<>>
  <2> DEFINE h == Head(wq[q].nodes)
  <2>1. /\ h \in ToSet(wq[q].nodes) /\ h \in Threads
        /\ ppc' = IF p[h] = "asleep" THEN [p EXCEPT ![h] = "awake"] ELSE p
    BY <1>2, WakeupEffect
  <2>2. at[h] = q
    BY <2>1 DEF WaitInv, NodesInv
  <2> HIDE DEF h
  <2>3. \A u \in Threads : \/ ppc'[u] = p[u] /\ (u = h => p[h] # "asleep")
                           \/ u = h /\ p[u] = "asleep" /\ ppc'[u] = "awake"
    BY <2>1 DEF Outside
  <2> QED BY <2>1, <2>2, <2>3
<1> QED BY <1>1, <1>2

LEMMA ToldWakeup ==
  ASSUME WaitInv, \A t \in Threads : at[t] = P!Mine(t),
         NEW q \in Queues, Single(q), NEW p, Outside(p), P!Wakeup(q, p)
  PROVE  Told(q)'
<1>1. \A u \in Side(q) : ppc'[u] # "asleep"
  BY WokenOf DEF Single, Side
<1>2. wq'[q].flag
  BY WakeupEffect
<1>3. Side(q)' = Side(q)
  BY DEF Side, P!Mine
<1> QED BY <1>1, <1>2, <1>3 DEF Told

LEMMA ToldWakeupOther ==
  ASSUME WaitInv, \A t \in Threads : at[t] = P!Mine(t),
         NEW q \in Queues, NEW r \in Queues, r # q, Told(q),
         NEW t \in Threads, NEW l \in PipeLabels \ P!Inside, ppc[t] \notin P!Inside,
         P!Wakeup(r, [ppc EXCEPT ![t] = l]),
         t \in Side(q) => l # "poke" /\ (l = "sleep" => ppc[t] = "poke"),
         t \notin Side(q) => ppc[t] \notin {"poke", "tell"},
         \/ Wants(q)' => Wants(q)
         \/ \A u \in Side(q) : ppc[u] \notin {"poke", "sleep", "asleep"}
  PROVE  Told(q)'
<1> DEFINE p == [ppc EXCEPT ![t] = l]
<1>1. Outside(p) /\ p[t] = l /\ \A u \in Threads : u # t => p[u] = ppc[u]
  BY DEF Outside, WaitInv
<1>2. P!Wakeup(r, p)
  OBVIOUS
<1> HIDE DEF p
<1>3. \A u \in Threads : \/ ppc'[u] = p[u]
                         \/ u \notin Side(q) /\ p[u] = "asleep" /\ ppc'[u] = "awake"
  BY <1>1, <1>2, WokenOf DEF Side
<1>4. wq'[q] = wq[q]
  BY <1>1, <1>2, WakeupEffect
<1>5. Side(q)' = Side(q) /\ Side(q) \subseteq Threads
  BY DEF Side, P!Mine
<1> SUFFICES ASSUME NEW u \in Side(q), ppc'[u] \in {"poke", "sleep", "asleep"}, Wants(q)'
             PROVE  \/ ppc'[u] # "asleep" /\ wq'[q].flag
                    \/ \E v \in Threads \ Side(q) : ppc'[v] \in {"poke", "tell"}
  BY <1>5 DEF Told
<1>6. ppc'[u] = p[u] /\ ppc[u] \in {"poke", "sleep", "asleep"}
      /\ (ppc'[u] = "asleep" <=> ppc[u] = "asleep")
  <2>1. ppc'[u] = p[u]
    BY <1>3, <1>5
  <2>2. CASE u = t
    <3>1. l = "sleep" /\ ppc[t] = "poke"
      BY <1>1, <2>1, <2>2 DEF P!Inside
    <3> QED BY <1>1, <2>1, <2>2, <3>1
  <2>3. CASE u # t
    BY <1>1, <1>5, <2>1, <2>3
  <2> QED BY <2>2, <2>3
<1>7. Wants(q)
  BY <1>6
<1>8. \/ ppc[u] # "asleep" /\ wq[q].flag
      \/ \E v \in Threads \ Side(q) : ppc[v] \in {"poke", "tell"}
  BY <1>6, <1>7 DEF Told
<1>9. \A v \in Threads \ Side(q) : ppc[v] \in {"poke", "tell"} => ppc'[v] = ppc[v]
  BY <1>1, <1>3
<1> QED BY <1>4, <1>6, <1>8, <1>9

\* rt_wqueue_wait: the flag of its own queue only is cleared, by a thread that does
\* not sleep then; it sleeps if the flag was not set.
LEMMA ToldSleep ==
  ASSUME WaitInv, \A t \in Threads : at[t] = P!Mine(t), NEW q \in Queues, Told(q), Single(q),
         NEW t \in Threads, P!Mine(t) \in Queues, P!Sleep(t)
  PROVE  Told(q)'
<1>1. fifo' = fifo /\ Side(q)' = Side(q) /\ (t \in Side(q) <=> P!Mine(t) = q)
      /\ (Wants(q)' <=> Wants(q)) /\ Side(q) \subseteq Threads
  BY DEF P!Sleep, P!pipeVars, Side, P!Mine, Wants
<1>2. wq \in [Queues -> [flag : BOOLEAN, nodes : Seq(Threads)]] /\ ppc \in [Threads -> PipeLabels]
      /\ at[t] = P!Mine(t)
  BY DEF WaitInv, P!WqTypeOK
<1>3. ASSUME NEW l \in {"asleep", "unlink", "take"}, ppc' = [ppc EXCEPT ![t] = l],
             ppc[t] \notin {"poke", "tell"},
             \/ l = "asleep" /\ ~wq[P!Mine(t)].flag /\ ppc[t] = "sleep"
             \/ l # "asleep",
             \A r \in Queues \ {P!Mine(t)} : wq'[r] = wq[r],
             wq'[P!Mine(t)].flag = wq[P!Mine(t)].flag \/ l # "asleep"
      PROVE  Told(q)'
  <2>1. ppc'[t] = l /\ \A u \in Threads : u # t => ppc'[u] = ppc[u]
    BY <1>2, <1>3
  <2>2. \A v \in Threads \ Side(q) : ppc[v] \in {"poke", "tell"} => ppc'[v] = ppc[v]
    BY <1>3, <2>1
  <2> SUFFICES ASSUME NEW u \in Side(q), ppc'[u] \in {"poke", "sleep", "asleep"}, Wants(q)
               PROVE  \/ ppc'[u] # "asleep" /\ wq'[q].flag
                      \/ \E v \in Threads \ Side(q) : ppc'[v] \in {"poke", "tell"}
    BY <1>1 DEF Told
  <2>3. CASE u = t
    <3>1. ppc[t] = "sleep" /\ ~wq[q].flag
      BY <1>1, <1>3, <2>1, <2>3
    <3>2. \E v \in Threads \ Side(q) : ppc[v] \in {"poke", "tell"}
      BY <2>3, <3>1 DEF Told
    <3> QED BY <2>2, <3>2
  <2>4. CASE u # t
    <3>1. t \notin Side(q)
      BY <2>4 DEF Single
    <3>2. wq'[q] = wq[q] /\ ppc'[u] = ppc[u]
      BY <1>1, <1>3, <2>1, <2>4, <3>1
    <3>3. \/ ppc[u] # "asleep" /\ wq[q].flag
          \/ \E v \in Threads \ Side(q) : ppc[v] \in {"poke", "tell"}
      BY <3>2 DEF Told
    <3> QED BY <2>2, <3>2, <3>3
  <2> QED BY <2>3, <2>4
<1>4. CASE P!WaitNow(t, P!Mine(t), "sleep", "take")
  BY <1>2, <1>3, <1>4 DEF P!WaitNow, P!Goto
<1>5. CASE P!WaitBlock(t, P!Mine(t), FALSE, "sleep")
  BY <1>2, <1>3, <1>5 DEF P!WaitBlock, P!Goto
<1>6. CASE P!Clean(t)
  BY <1>2, <1>3, <1>6 DEF P!Clean, P!Goto
<1>7. CASE P!Unlink(t, "take")
  BY <1>2, <1>3, <1>7 DEF P!Unlink, P!Goto
<1> QED BY <1>4, <1>5, <1>6, <1>7 DEF P!Sleep


Announced == \A q \in Queues : Single(q) => Told(q)

PipeIInv == PipeInv /\ Announced

\* A thread that is not closing has its descriptor open still.
Opened(t, l) ==
  /\ l \in {"eof", "epipe", "gone"} \/ t \in open'
  /\ \A u \in Threads \ {t} : u \in open => u \in open'

\* Nobody begins to wait for what is there, and nobody stops short of telling.
Tells(q, t, l) ==
  /\ t \notin Side(q) => ppc[t] \notin {"poke", "tell"}
  /\ \/ t \notin Side(q) /\ l \in {"poke", "tell"}
     \/ Wants(q)' => Wants(q)
     \/ \A u \in Side(q) : ppc[u] \notin {"poke", "sleep", "asleep"}

Fits(t, l) ==
  \A q \in Queues : /\ Tells(q, t, l)
                    /\ t \in Side(q) => l # "sleep" /\ (l = "poke" => ~Wants(q)')

LEMMA MoveInv ==
  ASSUME P!PipeAssumption, PipeIInv, NEW t \in Threads, ppc[t] \notin P!Inside,
         NEW l \in PipeLabels \ P!Inside, ppc' = [ppc EXCEPT ![t] = l],
         UNCHANGED <<wq, at, ptimer>>, PipeTypes', Opened(t, l), Fits(t, l)
  PROVE  PipeIInv'
<1>1. WaitInv' /\ WaitInv
  BY OutsideStep DEF PipeIInv, PipeInv
<1>2. \A u \in Threads : ppc'[u] = IF u = t THEN l ELSE ppc[u]
  BY DEF PipeIInv, PipeInv, WaitInv
<1>3. PipeInv'
  BY <1>1, <1>2 DEF PipeIInv, PipeInv, Opened, P!Mine
<1>4. l # "asleep"
  BY DEF P!Inside
<1>5. ASSUME NEW q \in Queues, Single(q) PROVE Told(q)'
  <2>1. Told(q)
    BY <1>5 DEF PipeIInv, Announced
  <2>2. \/ t \notin Side(q) /\ l \in {"poke", "tell"}
        \/ Wants(q)' => Wants(q)
        \/ \A u \in Side(q) : ppc[u] \notin {"poke", "sleep", "asleep"}
    BY DEF Fits, Tells
  <2>3. /\ t \in Side(q) => l \notin {"sleep", "asleep"} /\ (l = "poke" => ~Wants(q)')
        /\ t \notin Side(q) => ppc[t] \notin {"poke", "tell"}
    BY <1>4 DEF Fits, Tells
  <2> QED BY <1>1, <2>1, <2>2, <2>3, ToldOutside
<1>6. \A q \in Queues : Single(q)' = Single(q)
  BY DEF Single, Side, P!Mine
<1> QED BY <1>3, <1>5, <1>6 DEF PipeIInv, Announced

LEMMA WakeInv ==
  ASSUME P!PipeAssumption, PipeIInv, NEW t \in Threads, ppc[t] \notin P!Inside,
         NEW l \in PipeLabels \ P!Inside, NEW r \in Queues,
         P!Wakeup(r, [ppc EXCEPT ![t] = l]),
         PipeTypes', Opened(t, l),
         \A q \in Queues \ {r} :
            /\ Tells(q, t, l) /\ ~(t \notin Side(q) /\ l \in {"poke", "tell"})
            /\ t \in Side(q) => l # "poke" /\ (l = "sleep" => ppc[t] = "poke")
  PROVE  PipeIInv'
<1> DEFINE p == [ppc EXCEPT ![t] = l]
<1>1. Outside(p) /\ P!Wakeup(r, p) /\ WaitInv
      /\ \A u \in Threads : p[u] = IF u = t THEN l ELSE ppc[u]
  BY DEF Outside, PipeIInv, PipeInv, WaitInv
<1> HIDE DEF p
<1>2. WaitInv' /\ at' = at
  BY <1>1, WakeupStep, WakeupEffect
<1>3. \A u \in Threads : ppc'[u] = p[u] \/ (p[u] = "asleep" /\ ppc'[u] = "awake")
  BY <1>1, WokenOf
<1>4. \A u \in Threads : ppc'[u] \in {"eof", "epipe", "gone"} \/ u \in open'
  <2>1. \A u \in Threads : p[u] \in {"eof", "epipe", "gone"} \/ u \in open'
    BY <1>1 DEF PipeIInv, PipeInv, Opened
  <2> QED BY <1>3, <2>1
<1>5. PipeInv'
  BY <1>2, <1>4 DEF PipeIInv, PipeInv, P!Mine
<1>6. ASSUME NEW q \in Queues, Single(q) PROVE Told(q)'
  <2>0. \A u \in Threads : at[u] = P!Mine(u)
    BY DEF PipeIInv, PipeInv
  <2>1. CASE q = r
    BY <1>1, <1>6, <2>0, <2>1, ToldWakeup
  <2>2. CASE q # r
    <3>1. Told(q)
      BY <1>6 DEF PipeIInv, Announced
    <3>2. \/ Wants(q)' => Wants(q)
          \/ \A u \in Side(q) : ppc[u] \notin {"poke", "sleep", "asleep"}
      BY <2>2 DEF Tells
    <3>3. /\ t \in Side(q) => l # "poke" /\ (l = "sleep" => ppc[t] = "poke")
          /\ t \notin Side(q) => ppc[t] \notin {"poke", "tell"}
      BY <2>2 DEF Tells
    <3> QED BY <1>1, <2>0, <2>2, <3>1, <3>2, <3>3, ToldWakeupOther
  <2> QED BY <2>1, <2>2
<1>7. \A q \in Queues : Single(q)' = Single(q)
  BY DEF Single, Side, P!Mine
<1> QED BY <1>5, <1>6, <1>7 DEF PipeIInv, Announced

\* The minimum of two.
LEMMA MinOfTwo ==
  ASSUME NEW m \in Nat, NEW n \in Nat
  PROVE  P!Min({m, n}) = IF m <= n THEN m ELSE n
<1>1. \A k \in {m, n} : (\A j \in {m, n} : k <= j) => k = IF m <= n THEN m ELSE n
  OBVIOUS
<1>2. \E k \in {m, n} : \A j \in {m, n} : k <= j
  OBVIOUS
<1> QED BY <1>1, <1>2 DEF P!Min

\* rt_wqueue_wait, called in the loop.
LEMMA SleepInv ==
  ASSUME P!PipeAssumption, PipeIInv, NEW t \in Threads, P!Sleep(t)
  PROVE  PipeIInv'
<1>1. WaitInv /\ at[t] = P!Mine(t) /\ P!Mine(t) \in Queues
      /\ ppc \in [Threads -> PipeLabels]
  BY SidesAreQueues DEF PipeIInv, PipeInv, WaitInv
<1>2. {"sleep", "take"} \subseteq PipeLabels \ P!Inside /\ "unlink" \in PipeLabels
  BY DEF PipeLabels, P!Inside
<1>3. PipeTypes' /\ open' = open
  BY DEF P!Sleep, P!pipeVars, PipeTypes, PipeIInv, PipeInv
<1>4. WaitInv' /\ (\A u \in Threads : at'[u] = at[u])
      /\ \E l \in {"take", "asleep", "unlink"} : ppc' = [ppc EXCEPT ![t] = l]
  <2>1. CASE P!WaitNow(t, P!Mine(t), "sleep", "take")
    BY <1>1, <1>2, <2>1, FlagStep DEF P!WaitNow, P!Goto
  <2>2. CASE P!WaitBlock(t, P!Mine(t), FALSE, "sleep")
    <3>1. WaitInv'
      BY <1>1, <1>2, <2>2, WaitBlockStep
    <3>2. at \in [Threads -> Queues]
      BY <1>1 DEF WaitInv, P!WqTypeOK
    <3> QED BY <1>1, <2>2, <3>1, <3>2 DEF P!WaitBlock, P!Goto
  <2>3. CASE P!Clean(t)
    BY <1>1, <1>2, <2>3, FlagStep DEF P!Clean, P!Goto
  <2>4. CASE P!Unlink(t, "take")
    <3>1. WaitInv'
      BY <1>1, <1>2, <2>4, UnlinkStep
    <3> QED BY <2>4, <3>1 DEF P!Unlink, P!Goto
  <2> QED BY <2>1, <2>2, <2>3, <2>4 DEF P!Sleep
<1>5. t \in open
  <2>1. ppc[t] \in {"sleep", "awake", "unlink"}
    BY DEF P!Sleep, P!WaitNow, P!WaitBlock, P!Clean, P!Unlink
  <2> QED BY <2>1 DEF PipeIInv, PipeInv
<1>6. PipeInv'
  <2>1. \A u \in Threads : ppc'[u] \in {"eof", "epipe", "gone"} \/ u \in open'
    BY <1>1, <1>3, <1>4, <1>5 DEF PipeIInv, PipeInv
  <2>2. \A u \in Threads : at'[u] = P!Mine(u)'
    BY <1>4 DEF PipeIInv, PipeInv, P!Mine
  <2> QED BY <1>3, <1>4, <2>1, <2>2 DEF PipeInv
<1>7. \A q \in Queues : Single(q) => Told(q)'
  BY <1>1, ToldSleep DEF PipeIInv, PipeInv, Announced
<1>8. \A q \in Queues : Single(q)' = Single(q)
  BY DEF Single, Side, P!Mine
<1> QED BY <1>6, <1>7, <1>8 DEF PipeIInv, Announced


\* The constants that the steps need.
LEMMA PipeFacts ==
  ASSUME P!PipeAssumption, PipeIInv
  PROVE  /\ Side("reader") = Readers /\ Side("writer") = Writers
         /\ Threads = Readers \cup Writers /\ Readers \cap Writers = {}
         /\ Queues = {"reader", "writer"} /\ Capacity \in Nat \ {0}
         /\ ppc \in [Threads -> PipeLabels] /\ PipeTypes
         /\ \A t \in Threads : t \in Side(P!Mine(t))
BY SidesAreQueues DEF P!PipeAssumption, PipeIInv, PipeInv, WaitInv, Side

\* The labels of the pipe that are outside rt_wqueue_wait.
LEMMA OutsideLabels ==
  PipeLabels \ P!Inside = {"out", "take", "body", "poke", "sleep", "tell",
                           "release", "close", "eof", "epipe", "gone"}
BY DEF PipeLabels, P!Inside

\* The steps that change neither what is in the buffer nor the wait queues.
LEMMA PlainInv ==
  ASSUME P!PipeAssumption, PipeIInv, NEW t \in Threads,
         ppc[t] \in {"out", "take", "body", "release", "close", "gone", "eof", "epipe"},
         NEW l \in {"out", "take", "body", "tell", "release", "close", "eof", "epipe", "gone"},
         ppc' = [ppc EXCEPT ![t] = l],
         UNCHANGED <<wq, at, ptimer, fifo>>, PipeTypes', Opened(t, l)
  PROVE  PipeIInv'
<1>1. ppc[t] \notin P!Inside /\ l \in PipeLabels \ P!Inside
  BY DEF PipeLabels, P!Inside
<1>2. Fits(t, l)
  BY DEF Fits, Tells, Wants
<1> QED BY <1>1, <1>2, MoveInv

LEMMA CallInv ==
  ASSUME P!PipeAssumption, PipeIInv, NEW t \in Threads, NEW n \in Sizes, P!Call(t, n)
  PROVE  PipeIInv'
<1>1. /\ ppc[t] = "out" /\ ppc' = [ppc EXCEPT ![t] = "take"] /\ t \in open
      /\ UNCHANGED <<wq, at, ptimer, fifo, open>>
  BY DEF P!Call, P!Goto
<1>2. PipeTypes'
  BY PipeFacts DEF P!Call, PipeTypes, P!PipeAssumption
<1> QED BY <1>1, <1>2, PlainInv DEF Opened

LEMMA TakeInv ==
  ASSUME P!PipeAssumption, PipeIInv, NEW t \in Threads, P!Take(t)
  PROVE  PipeIInv'
<1>1. /\ ppc[t] = "take" /\ ppc' = [ppc EXCEPT ![t] = "body"]
      /\ UNCHANGED <<wq, at, ptimer, fifo, open>>
  BY DEF P!Take, P!Goto
<1>2. PipeTypes' /\ t \in open
  BY <1>1, PipeFacts DEF P!Take, PipeTypes, PipeIInv, PipeInv
<1> QED BY <1>1, <1>2, PlainInv DEF Opened

LEMMA CloseStepInv ==
  ASSUME P!PipeAssumption, PipeIInv, NEW t \in Threads,
         P!CloseCall(t) \/ P!Close(t) \/ P!ReadRelease(t)
  PROVE  PipeIInv'
<1>1. CASE P!CloseCall(t)
  <2>1. /\ ppc[t] = "out" /\ ppc' = [ppc EXCEPT ![t] = "close"] /\ t \in open
        /\ UNCHANGED <<wq, at, ptimer, fifo, open>>
    BY <1>1 DEF P!CloseCall, P!Goto, P!pipeVars
  <2>2. PipeTypes'
    BY <1>1, PipeFacts DEF P!CloseCall, PipeTypes, P!pipeVars
  <2> QED BY <2>1, <2>2, PlainInv DEF Opened
<1>2. CASE P!Close(t)
  <2>1. /\ ppc[t] = "close" /\ ppc' = [ppc EXCEPT ![t] = "eof"] /\ open' = open \ {t}
        /\ UNCHANGED <<wq, at, ptimer, fifo>>
    BY <1>2 DEF P!Close, P!Goto
  <2>2. PipeTypes'
    BY <1>2, PipeFacts DEF P!Close, PipeTypes
  <2> QED BY <2>1, <2>2, PlainInv DEF Opened
<1>3. CASE P!ReadRelease(t)
  <2>1. /\ ppc[t] = "release" /\ ppc' = [ppc EXCEPT ![t] = "out"]
        /\ UNCHANGED <<wq, at, ptimer, fifo, open>>
    BY <1>3 DEF P!ReadRelease, P!Unlock, P!Goto
  <2>2. PipeTypes' /\ t \in open
    BY <1>3, <2>1, PipeFacts DEF P!ReadRelease, P!Unlock, PipeTypes, PipeIInv, PipeInv
  <2> QED BY <2>1, <2>2, PlainInv DEF Opened
<1> QED BY <1>1, <1>2, <1>3

\* pipe_fops_read, under the lock.
LEMMA ReadBodyInv ==
  ASSUME P!PipeAssumption, PipeIInv, NEW t \in Threads, P!ReadBody(t)
  PROVE  PipeIInv'
<1> USE PipeFacts
<1>1. /\ t \in Readers /\ ppc[t] = "body" /\ open' = open /\ t \in open
      /\ UNCHANGED <<pleft, round, nonblock>>
  BY DEF P!ReadBody, PipeIInv, PipeInv
<1>2. ppc[t] \notin P!Inside
  BY <1>1 DEF P!Inside
<1>3. CASE fifo' = fifo /\ P!Unlock(t, "out")
  <2>1. ppc' = [ppc EXCEPT ![t] = "out"] /\ UNCHANGED <<wq, at, ptimer, fifo>> /\ lock' = Nobody
    BY <1>3 DEF P!Unlock, P!Goto
  <2>2. PipeTypes'
    BY <1>1, <2>1 DEF PipeTypes
  <2> QED BY <1>1, <2>1, <2>2, PlainInv DEF Opened
<1>4. CASE fifo > 0 /\ fifo' = fifo - P!Min({pleft[t], fifo}) /\ P!Goto(t, "tell")
           /\ UNCHANGED <<wq, at, ptimer, lock>>
  <2>1. fifo \in Nat /\ pleft[t] \in Nat
    BY DEF PipeTypes
  <2>2. fifo' \in 0 .. fifo
    BY <1>4, <2>1, MinOfTwo
  <2>3. PipeTypes'
    BY <1>1, <1>4, <2>2 DEF PipeTypes
  <2>4. ppc' = [ppc EXCEPT ![t] = "tell"] /\ "tell" \in PipeLabels \ P!Inside
    BY <1>4, OutsideLabels DEF P!Goto
  <2>5. \A q \in Queues : Tells(q, t, "tell")
    <3>1. Tells("reader", t, "tell")
      BY <1>1, <2>1, <2>2 DEF Tells, Wants
    <3>2. Tells("writer", t, "tell")
      BY <1>1 DEF Tells
    <3> QED BY <3>1, <3>2
  <2>6. Fits(t, "tell")
    BY <2>5 DEF Fits
  <2>7. Opened(t, "tell")
    BY <1>1 DEF Opened
  <2> QED BY <1>1, <1>2, <1>4, <2>3, <2>4, <2>6, <2>7, MoveInv
<1>5. CASE fifo = 0 /\ P!Unlock(t, "poke") /\ fifo' = fifo
  <2>1. ppc' = [ppc EXCEPT ![t] = "poke"] /\ UNCHANGED <<wq, at, ptimer>> /\ lock' = Nobody
    BY <1>5 DEF P!Unlock, P!Goto
  <2>2. PipeTypes'
    BY <1>1, <1>5, <2>1 DEF PipeTypes
  <2>3. "poke" \in PipeLabels \ P!Inside
    BY OutsideLabels
  <2>4. \A q \in Queues : Tells(q, t, "poke")
    BY <1>1, <1>5 DEF Tells, Wants
  <2>5. \A q \in Queues : t \in Side(q) => ~Wants(q)'
    BY <1>1, <1>5 DEF Wants
  <2>6. Fits(t, "poke")
    BY <2>4, <2>5 DEF Fits
  <2>7. Opened(t, "poke")
    BY <1>1 DEF Opened
  <2> QED BY <1>1, <1>2, <2>1, <2>2, <2>3, <2>6, <2>7, MoveInv
<1> QED BY <1>3, <1>4, <1>5 DEF P!ReadBody

\* pipe_fops_write, under the lock.
LEMMA WriteBodyInv ==
  ASSUME P!PipeAssumption, PipeIInv, NEW t \in Threads, P!WriteBody(t)
  PROVE  PipeIInv'
<1> USE PipeFacts
<1>1. /\ t \in Writers /\ ppc[t] = "body" /\ open' = open /\ t \in open /\ nonblock' = nonblock
  BY DEF P!WriteBody, PipeIInv, PipeInv
<1>2. ppc[t] \notin P!Inside
  BY <1>1 DEF P!Inside
<1>3. CASE P!Unlock(t, IF t \in round THEN "tell" ELSE "out") /\ UNCHANGED <<fifo, pleft, round>>
  <2> DEFINE l == IF t \in round THEN "tell" ELSE "out"
  <2>1. /\ ppc' = [ppc EXCEPT ![t] = l] /\ l \in {"tell", "out"}
        /\ UNCHANGED <<wq, at, ptimer, fifo>> /\ lock' = Nobody
    BY <1>3 DEF P!Unlock, P!Goto
  <2>2. PipeTypes'
    BY <1>1, <1>3, <2>1 DEF PipeTypes
  <2> HIDE DEF l
  <2> QED BY <1>1, <2>1, <2>2, PlainInv DEF Opened
<1>4. CASE \E n \in Nat : /\ n = P!Min({pleft[t], Capacity - fifo})
                          /\ fifo' = fifo + n
                          /\ pleft' = [pleft EXCEPT ![t] = @ - n]
                          /\ P!Unlock(t, IF pleft[t] = n \/ t \in nonblock THEN "tell" ELSE "poke")
                          /\ round' = round \cup {t}
  <2>1. PICK n \in Nat : /\ n = P!Min({pleft[t], Capacity - fifo})
                         /\ fifo' = fifo + n
                         /\ pleft' = [pleft EXCEPT ![t] = @ - n]
                         /\ P!Unlock(t, IF pleft[t] = n \/ t \in nonblock THEN "tell" ELSE "poke")
                         /\ round' = round \cup {t}
    BY <1>4
  <2>2. fifo \in 0 .. Capacity /\ pleft[t] \in Nat /\ Capacity - fifo \in Nat /\ Capacity \in Nat
    BY DEF PipeTypes
  <2>3. n <= pleft[t] /\ n <= Capacity - fifo /\ (n # pleft[t] => n = Capacity - fifo)
    BY <2>1, <2>2, MinOfTwo
  <2>4. fifo' \in fifo .. Capacity /\ (n # pleft[t] => fifo' = Capacity)
    BY <2>1, <2>2, <2>3
  <2>5. pleft' \in [Threads -> Nat]
    BY <2>1, <2>2, <2>3 DEF PipeTypes
  <2> DEFINE l == IF pleft[t] = n \/ t \in nonblock THEN "tell" ELSE "poke"
  <2>6. ppc' = [ppc EXCEPT ![t] = l] /\ UNCHANGED <<wq, at, ptimer>> /\ lock' = Nobody
    BY <2>1 DEF P!Unlock, P!Goto
  <2>7. l \in {"tell", "poke"} /\ (l = "poke" => fifo' = Capacity)
    BY <2>4
  <2> HIDE DEF l
  <2>8. PipeTypes'
    BY <1>1, <2>1, <2>2, <2>4, <2>5, <2>6 DEF PipeTypes
  <2>9. \A q \in Queues : Tells(q, t, l)
    <3>1. Tells("reader", t, l)
      BY <1>1, <2>7 DEF Tells
    <3>2. Tells("writer", t, l)
      BY <1>1, <2>2, <2>4 DEF Tells, Wants
    <3> QED BY <3>1, <3>2
  <2>10. \A q \in Queues : t \in Side(q) => l # "sleep" /\ (l = "poke" => ~Wants(q)')
    BY <1>1, <2>2, <2>7 DEF Wants
  <2>11. l \in PipeLabels \ P!Inside
    BY <2>7, OutsideLabels
  <2>12. Fits(t, l)
    BY <2>9, <2>10 DEF Fits
  <2>13. Opened(t, l)
    BY <1>1 DEF Opened
  <2> QED BY <1>1, <1>2, <2>6, <2>8, <2>11, <2>12, <2>13, MoveInv
<1>5. P!Min({pleft[t], Capacity - fifo}) \in Nat
  <2>1. pleft[t] \in Nat /\ Capacity - fifo \in Nat
    BY DEF PipeTypes
  <2> QED BY <2>1, MinOfTwo
<1> QED BY <1>3, <1>4, <1>5 DEF P!WriteBody

\* The wakeups of the other side, in the loop and after it.
LEMMA TellInv ==
  ASSUME P!PipeAssumption, PipeIInv, NEW t \in Threads,
         P!Poke(t) \/ P!ReadTell(t) \/ P!WriteTell(t)
  PROVE  PipeIInv'
<1> USE PipeFacts
<1>1. PipeTypes' /\ open' = open /\ fifo' = fifo
  BY DEF P!Poke, P!ReadTell, P!WriteTell, P!pipeVars, PipeTypes
<1>2. ASSUME NEW r \in Queues, t \notin Side(r), ppc[t] \in {"poke", "tell"},
             NEW l \in {"sleep", "release", "out"}, l = "sleep" => ppc[t] = "poke",
             P!Wakeup(r, [ppc EXCEPT ![t] = l])
      PROVE  PipeIInv'
  <2>1. l \in PipeLabels \ P!Inside /\ ppc[t] \notin P!Inside
    BY <1>2, OutsideLabels DEF P!Inside
  <2>2. Opened(t, l)
    BY <1>1, <1>2 DEF Opened, PipeIInv, PipeInv
  <2>3. \A q \in Queues \ {r} : t \in Side(q)
    BY <1>2
  <2>4. \A q \in Queues \ {r} :
            /\ Tells(q, t, l) /\ ~(t \notin Side(q) /\ l \in {"poke", "tell"})
            /\ t \in Side(q) => l # "poke" /\ (l = "sleep" => ppc[t] = "poke")
    BY <1>1, <1>2, <2>3 DEF Tells, Wants
  <2> QED BY <1>1, <1>2, <2>1, <2>2, <2>4, WakeInv
<1>3. CASE P!Poke(t)
  <2>1. P!Theirs(t) \in Queues /\ t \notin Side(P!Theirs(t))
    BY DEF P!Theirs
  <2> QED BY <1>2, <1>3, <2>1 DEF P!Poke
<1>4. CASE P!ReadTell(t)
  BY <1>2, <1>4 DEF P!ReadTell
<1>5. CASE P!WriteTell(t)
  BY <1>2, <1>5 DEF P!WriteTell
<1> QED BY <1>3, <1>4, <1>5

\* A thread in rt_wqueue_wait, or about to be, has the pipe open: the buffer is not
\* reset under it.
LEMMA NoneWaitsOnClosed ==
  ASSUME PipeIInv, open = {}
  PROVE  \A t \in Threads : ppc[t] \notin {"poke", "sleep", "asleep"}
BY DEF PipeIInv, PipeInv

\* pipe_fops_close tells the other side, pipe_fops_open.
LEMMA EndsInv ==
  ASSUME P!PipeAssumption, PipeIInv, NEW t \in Threads,
         P!CloseTellReaders(t) \/ P!CloseTellWriters(t) \/ P!Open(t)
  PROVE  PipeIInv'
<1> USE PipeFacts
<1>1. ASSUME NEW r \in Queues, ppc[t] \in {"eof", "epipe"}, NEW l \in {"epipe", "gone"},
             P!Wakeup(r, [ppc EXCEPT ![t] = l]), PipeTypes', open' = open,
             fifo' = fifo \/ open = {}
      PROVE  PipeIInv'
  <2>1. l \in PipeLabels \ P!Inside /\ ppc[t] \notin P!Inside
    BY <1>1, OutsideLabels DEF P!Inside
  <2>2. Opened(t, l)
    BY <1>1 DEF Opened
  <2>3. \A q \in Queues : Tells(q, t, l)
    <3>1. CASE fifo' = fifo
      BY <1>1, <3>1 DEF Tells, Wants
    <3>2. CASE open = {}
      <4>1. \A q \in Queues : \A u \in Side(q) : ppc[u] \notin {"poke", "sleep", "asleep"}
        BY <3>2, NoneWaitsOnClosed DEF Side
      <4> QED BY <1>1, <4>1 DEF Tells
    <3> QED BY <1>1, <3>1, <3>2
  <2>4. \A q \in Queues \ {r} :
            /\ Tells(q, t, l) /\ ~(t \notin Side(q) /\ l \in {"poke", "tell"})
            /\ t \in Side(q) => l # "poke" /\ (l = "sleep" => ppc[t] = "poke")
    BY <2>3
  <2> QED BY <1>1, <2>1, <2>2, <2>4, WakeInv
<1>2. CASE P!CloseTellReaders(t)
  <2>1. PipeTypes' /\ open' = open /\ fifo' = fifo /\ ppc[t] = "eof"
    BY <1>2 DEF P!CloseTellReaders, P!pipeVars, PipeTypes
  <2>2. CASE open \cap Writers = {}
    BY <1>1, <1>2, <2>1, <2>2 DEF P!CloseTellReaders
  <2>3. CASE open \cap Writers # {}
    <3>1. ppc' = [ppc EXCEPT ![t] = "epipe"] /\ UNCHANGED <<wq, at, ptimer>>
      BY <1>2, <2>3 DEF P!CloseTellReaders, P!Goto
    <3> QED BY <2>1, <3>1, PlainInv DEF Opened
  <2> QED BY <2>2, <2>3
<1>3. CASE P!CloseTellWriters(t)
  <2>1. /\ open' = open /\ ppc[t] = "epipe"
        /\ fifo' = IF open = {} THEN 0 ELSE fifo
    BY <1>3 DEF P!CloseTellWriters
  <2>2. PipeTypes'
    BY <1>3, <2>1 DEF P!CloseTellWriters, PipeTypes
  <2>3. CASE open \cap Readers = {}
    BY <1>1, <1>3, <2>1, <2>2, <2>3 DEF P!CloseTellWriters
  <2>4. CASE open \cap Readers # {}
    <3>1. ppc' = [ppc EXCEPT ![t] = "gone"] /\ UNCHANGED <<wq, at, ptimer>>
      BY <1>3, <2>4 DEF P!CloseTellWriters, P!Goto
    <3>2. fifo' = fifo
      BY <2>1, <2>4
    <3> QED BY <2>1, <2>2, <3>1, <3>2, PlainInv DEF Opened
  <2> QED BY <2>3, <2>4
<1>4. CASE P!Open(t)
  <2>1. /\ open' = open \cup {t} /\ ppc[t] = "gone"
        /\ ppc' = [ppc EXCEPT ![t] = "out"] /\ UNCHANGED <<wq, at, ptimer>>
        /\ fifo' = IF open = {} THEN 0 ELSE fifo
    BY <1>4 DEF P!Open, P!Goto
  <2>2. PipeTypes'
    BY <1>4, <2>1 DEF P!Open, PipeTypes
  <2>3. Opened(t, "out")
    BY <2>1 DEF Opened
  <2>4. \A q \in Queues : Tells(q, t, "out")
    <3>1. CASE fifo' = fifo
      BY <2>1, <3>1 DEF Tells, Wants
    <3>2. CASE open = {}
      <4>1. \A q \in Queues : \A u \in Side(q) : ppc[u] \notin {"poke", "sleep", "asleep"}
        BY <3>2, NoneWaitsOnClosed DEF Side
      <4> QED BY <2>1, <4>1 DEF Tells
    <3> QED BY <2>1, <3>1, <3>2
  <2>5. "out" \in PipeLabels \ P!Inside /\ ppc[t] \notin P!Inside
    BY <2>1, OutsideLabels DEF P!Inside
  <2>6. Fits(t, "out")
    BY <2>4 DEF Fits
  <2> QED BY <2>1, <2>2, <2>3, <2>5, <2>6, MoveInv
<1> QED BY <1>2, <1>3, <1>4

\* Every step of the pipe.
LEMMA PipeNextInv ==
  ASSUME P!PipeAssumption, PipeIInv, P!PipeNext
  PROVE  PipeIInv'
<1>1. PICK t \in Threads : \/ P!Step(t) \/ P!Open(t) \/ P!CloseCall(t)
                           \/ \E n \in Sizes : P!Call(t, n)
  BY DEF P!PipeNext
<1>2. CASE P!Step(t)
  BY <1>2, TakeInv, TellInv, SleepInv, ReadBodyInv, WriteBodyInv, CloseStepInv, EndsInv
     DEF P!Step
<1>3. CASE P!Open(t) \/ P!CloseCall(t) \/ \E n \in Sizes : P!Call(t, n)
  BY <1>3, CallInv, CloseStepInv, EndsInv
<1> QED BY <1>1, <1>2, <1>3

LEMMA PipeStutter ==
  ASSUME PipeIInv, UNCHANGED <<P!wqVars, pipeVars>>
  PROVE  PipeIInv'
<1>1. WaitInv'
  BY WaitInvStutter DEF PipeIInv, PipeInv
<1> QED BY <1>1 DEF PipeIInv, PipeInv, PipeTypes, Announced, Told, Wants, Single, Side,
                    P!Mine, P!wqVars, pipeVars

LEMMA PipeInitInv ==
  ASSUME P!PipeAssumption, P!PipeInit
  PROVE  PipeIInv
<1>1. WaitInv
  BY WaitInitInv DEF P!PipeInit
<1>2. ppc = [t \in Threads |-> "out"]
  BY DEF P!PipeInit, P!WqInit
<1>3. PipeInv
  BY <1>1, <1>2 DEF P!PipeInit, PipeInv, PipeTypes, P!PipeAssumption, P!Mine
<1>4. Announced
  BY <1>2 DEF Announced, Told, Side
<1> QED BY <1>3, <1>4 DEF PipeIInv

\* What the invariant says: types, nodes, and the two sides.
LEMMA PipeInvSound ==
  ASSUME P!PipeAssumption, PipeIInv
  PROVE  /\ P!PipeTypeOK /\ P!NodesLive
         /\ Single("reader") /\ Single("writer") => P!SleepersAreTold
<1> USE PipeFacts
<1>1. P!NodesLive
  BY WaitInvIsLive DEF PipeIInv, PipeInv
<1>2. P!PipeTypeOK
  BY DEF PipeIInv, PipeInv, WaitInv, PipeTypes, PipeLabels, P!PipeTypeOK
<1>3. ASSUME Single("reader"), Single("writer") PROVE P!SleepersAreTold
  <2>1. Told("reader") /\ Told("writer")
    BY <1>3 DEF PipeIInv, Announced
  <2>2. Threads \ Side("reader") = Writers /\ Threads \ Side("writer") = Readers
    BY SidesAreQueues
  <2> QED BY <2>1, <2>2 DEF Told, Wants, P!SleepersAreTold
<1> QED BY <1>1, <1>2, <1>3

\* pipe_fops_read and pipe_fops_write, between one reader and one writer: no thread
\* sleeps over data, or over room, that the other side is not about to announce, whatever
\* falls between the decision to sleep and rt_wqueue_wait, however the ends are closed and
\* opened again, for every capacity of the buffer and size of the calls.
THEOREM PipeTellsSleepers ==
  ASSUME P!PipeAssumption, Single("reader"), Single("writer")
  PROVE  P!PipeSpec => [](P!PipeTypeOK /\ P!NodesLive /\ P!SleepersAreTold)
<1>1. P!PipeInit => PipeIInv
  BY PipeInitInv
<1>2. PipeIInv /\ [P!PipeNext]_<<P!wqVars, pipeVars>> => PipeIInv'
  BY PipeNextInv, PipeStutter
<1>3. PipeIInv => P!PipeTypeOK /\ P!NodesLive /\ P!SleepersAreTold
  BY PipeInvSound
<1> QED BY <1>1, <1>2, <1>3, PTL DEF P!PipeSpec, P!pipeVars, pipeVars

-----------------------------------------------------------------------------
(* SerialTx, for a device that one thread at a time writes to, a           *)
(* transmitter of any depth and texts of any length: the writer waits only *)
(* for an interrupt that is still to come, and the completion is used as   *)
(* Completion promises it can be.                                          *)

\* rt_completion_wait asserts that nobody else waits.
OneWriter == \A t, u \in Writers : t = u

Labels == {"out", "top", "char", "wait", "asleep", "awake"}

Types ==
  /\ left \in [Writers -> Seq({"char", "newline"})]
  /\ hw \in 0 .. Depth
  /\ pc \in [Writers -> Labels]
  /\ flag \in BOOLEAN

\* The list holds the writer while it sleeps.
Listed ==
  \/ list = <<>> /\ \A t \in Writers : pc[t] # "asleep"
  \/ \E w \in Writers : list = <<w>> /\ pc[w] = "asleep"

\* A refusal is followed by an interrupt, which is either to come or has set the flag.
Coming == \A t \in Writers :
  /\ pc[t] = "asleep" => hw > 0 /\ ~flag
  /\ pc[t] = "wait" => hw = Depth \/ flag

IInv == Types /\ Listed /\ Coming

-----------------------------------------------------------------------------
\* The steps that leave the completion alone.
Writing(t) ==
  Return(t) \/ PutReturn(t) \/ PutChar(t) \/ \E text \in Texts : Write(t, text)

\* _serial_int_tx: the writer does not sleep before or after such a step; if it goes
\* to wait, putc has refused a character and the transmitter is full.
LEMMA WritingShape ==
  ASSUME TxAssumption, IInv, NEW t \in Writers, Writing(t)
  PROVE  /\ left' \in [Writers -> Seq({"char", "newline"})]
         /\ hw' \in 0 .. Depth
         /\ flag' = flag /\ list' = list
         /\ pc[t] \in {"out", "top", "char"}
         /\ \E l \in {"out", "top", "char", "wait"} :
               pc' = [pc EXCEPT ![t] = l] /\ (l = "wait" => hw' = Depth)
<1> USE DEF TxAssumption, IInv, Types, Goto, cpl
<1>1. CASE Return(t)
  BY <1>1 DEF Return
<1>2. CASE PutReturn(t)
  BY <1>2 DEF PutReturn, Taken, Refused
<1>3. CASE PutChar(t)
  <2>1. left[t] \in Seq({"char", "newline"}) /\ left[t] # <<>>
    BY <1>3 DEF PutChar
  <2>2. Tail(left[t]) \in Seq({"char", "newline"})
    BY <2>1, HeadTailProperties
  <2>3. pc[t] \in {"out", "top", "char"}
    BY <1>3 DEF PutChar
  <2>4. CASE Refused(t)
    BY <2>3, <2>4 DEF Refused
  <2>5. CASE ~Refused(t)
    <3>1. Taken /\ left' = [left EXCEPT ![t] = Tail(@)] /\ pc' = [pc EXCEPT ![t] = "top"]
          /\ flag' = flag /\ list' = list
      BY <1>3, <2>5 DEF PutChar
    <3>2. left' \in [Writers -> Seq({"char", "newline"})]
      BY <2>2, <3>1
    <3> QED BY <2>3, <3>1, <3>2 DEF Taken
  <2> QED BY <2>4, <2>5
<1>4. ASSUME NEW text \in Texts, Write(t, text)
      PROVE  /\ left' \in [Writers -> Seq({"char", "newline"})]
             /\ hw' \in 0 .. Depth
             /\ flag' = flag /\ list' = list
             /\ pc[t] \in {"out", "top", "char"}
             /\ pc' = [pc EXCEPT ![t] = "top"]
  BY <1>4 DEF Write
<1> QED BY <1>1, <1>2, <1>3, <1>4 DEF Writing

\* Such a step leaves an interrupt to come if the writer goes to wait.
LEMMA WritingSound ==
  ASSUME TxAssumption, OneWriter, IInv, NEW t \in Writers, Writing(t)
  PROVE  IInv'
<1>1. PICK l \in {"out", "top", "char", "wait"} :
         pc' = [pc EXCEPT ![t] = l] /\ (l = "wait" => hw' = Depth)
  BY WritingShape
<1>2. /\ left' \in [Writers -> Seq({"char", "newline"})] /\ hw' \in 0 .. Depth
      /\ flag' = flag /\ list' = list /\ pc[t] \in {"out", "top", "char"}
  BY WritingShape
<1>3. \A u \in Writers : u = t
  BY DEF OneWriter
<1>4. pc'[t] = l
  BY <1>1 DEF IInv, Types
<1>5. Types'
  BY <1>1, <1>2 DEF IInv, Types, Labels
<1>6. Listed'
  BY <1>2, <1>3, <1>4 DEF IInv, Listed
<1>7. Coming'
  BY <1>1, <1>2, <1>3, <1>4 DEF Coming
<1> QED BY <1>5, <1>6, <1>7 DEF IInv

\* rt_completion_wait: the flag ends the wait, or nobody else is in the list.
LEMMA WaitSound ==
  ASSUME TxAssumption, OneWriter, IInv, NEW t \in Writers,
         WaitNow(t) \/ WaitBlock(t) \/ WaitReturn(t)
  PROVE  IInv'
<1> USE DEF TxAssumption, OneWriter, IInv, Types, Listed, Coming, Labels, Goto
<1>1. \A u \in Writers : u = t
  OBVIOUS
<1>2. CASE WaitNow(t)
  BY <1>1, <1>2 DEF WaitNow
<1>3. CASE WaitBlock(t)
  <2>1. list = <<>>
    BY <1>1, <1>3 DEF WaitBlock
  <2>2. list' = <<t>>
    BY <1>3, <2>1 DEF WaitBlock
  <2>3. pc' = [pc EXCEPT ![t] = "asleep"] /\ left' = left /\ hw' = hw /\ flag' = flag
        /\ pc[t] = "wait" /\ ~flag
    BY <1>3 DEF WaitBlock
  <2> QED BY <1>1, <2>2, <2>3
<1>4. CASE WaitReturn(t)
  BY <1>1, <1>4 DEF WaitReturn
<1> QED BY <1>2, <1>3, <1>4

\* rt_completion_done in the interrupt: the writer is resumed if it sleeps.
LEMMA TxDoneSound ==
  ASSUME TxAssumption, OneWriter, IInv, TxDone
  PROVE  IInv'
<1> USE DEF TxAssumption, OneWriter, IInv, Types, Listed, Coming, Labels
<1>1. hw' \in 0 .. Depth /\ flag' = TRUE /\ left' = left
  BY DEF TxDone
<1>2. CASE list = <<>>
  <2>1. pc' = pc /\ list' = <<>>
    BY <1>2 DEF TxDone
  <2> QED BY <1>1, <1>2, <2>1
<1>3. CASE list # <<>>
  <2>1. PICK w \in Writers : list = <<w>> /\ pc[w] = "asleep"
    BY <1>3
  <2>2. ~flag
    BY <2>1
  <2>3. pc' = [pc EXCEPT ![w] = "awake"] /\ list' = <<>>
    BY <1>3, <2>1, <2>2 DEF TxDone
  <2>4. \A u \in Writers : pc'[u] = "awake"
    BY <2>3
  <2> QED BY <1>1, <2>3, <2>4
<1> QED BY <1>2, <1>3

\* List, flag and transmitter agree in every state.
LEMMA Inductive ==
  ASSUME TxAssumption, OneWriter
  PROVE  Spec => []IInv
<1>1. Init => IInv
  <2> SUFFICES ASSUME Init PROVE IInv
    OBVIOUS
  <2>1. flag \in BOOLEAN
    BY Zenon DEF Init
  <2>2. /\ left \in [Writers -> Seq({"char", "newline"})]
        /\ hw \in 0 .. Depth
        /\ pc \in [Writers -> Labels]
    BY DEF Init, TxAssumption, Labels
  <2>3. list = <<>> /\ \A t \in Writers : pc[t] = "out"
    BY DEF Init
  <2> QED BY <2>1, <2>2, <2>3 DEF IInv, Types, Listed, Coming
<1>2. IInv /\ [Next]_<<vars, stream>> => IInv'
  <2> SUFFICES ASSUME IInv, [Next]_<<vars, stream>> PROVE IInv'
    OBVIOUS
  <2>1. ASSUME NEW t \in Writers, Step(t) PROVE IInv'
    BY <2>1, WritingSound, WaitSound DEF Step, Writing
  <2>2. ASSUME NEW t \in Writers, NEW text \in Texts, Write(t, text) PROVE IInv'
    BY <2>2, WritingSound DEF Writing
  <2>3. CASE TxDone
    BY <2>3, TxDoneSound
  <2>4. CASE UNCHANGED <<vars, stream>>
    BY <2>4 DEF IInv, Types, Listed, Coming, vars, cpl
  <2> QED BY <2>1, <2>2, <2>3, <2>4 DEF Next
<1> QED BY <1>1, <1>2, PTL DEF Spec

\* A writer that sleeps in rt_completion_wait has an interrupt to come: none is lost
\* between putc's refusal and the wait, however many come, and whatever is written.
THEOREM OutputGoesOn ==
  ASSUME TxAssumption, OneWriter
  PROVE  Spec => [](TypeOK /\ InterruptToCome)
<1>1. IInv => TypeOK /\ InterruptToCome
  <2> SUFFICES ASSUME IInv PROVE TypeOK /\ InterruptToCome
    OBVIOUS
  <2>1. list \in Seq(Writers) /\ ToSet(list) = {t \in Writers : pc[t] = "asleep"}
    <3>1. CASE list = <<>> /\ \A t \in Writers : pc[t] # "asleep"
      <4>1. ToSet(list) = {}
        BY <3>1 DEF ToSet
      <4> QED BY <3>1, <4>1
    <3>2. ASSUME NEW w \in Writers, list = <<w>>, pc[w] = "asleep"
          PROVE  list \in Seq(Writers) /\ ToSet(list) = {t \in Writers : pc[t] = "asleep"}
      <4>1. ToSet(list) = {w}
        BY <3>2 DEF ToSet
      <4> QED BY <3>2, <4>1 DEF OneWriter
    <3> QED BY <3>1, <3>2 DEF IInv, Listed
  <2> QED BY <2>1 DEF IInv, Types, Labels, Coming, TypeOK, InterruptToCome
<1>2. Spec => []IInv
  BY Inductive
<1> QED BY <1>1, <1>2, PTL

-----------------------------------------------------------------------------
(* The use of the completion: each step of SerialTx is a step of           *)
(* Completion, or leaves it alone.                                         *)

\* Where Completion sees a writer
Seen(l) == IF l \in {"asleep", "awake"} THEN l ELSE "out"

\* Completion does not see the steps that leave it alone.
LEMMA WritingIsSilent ==
  ASSUME TxAssumption, IInv, NEW t \in Writers, Writing(t)
  PROVE  Signal!vars' = Signal!vars
<1>1. PICK l \in {"out", "top", "char", "wait"} : pc' = [pc EXCEPT ![t] = l]
  BY WritingShape
<1>2. flag' = flag /\ list' = list /\ pc[t] \in {"out", "top", "char"}
  BY WritingShape
<1>3. \A u \in Writers : Seen(pc'[u]) = Seen(pc[u])
  BY <1>1, <1>2 DEF Seen, IInv, Types
<1> QED BY <1>2, <1>3 DEF Signal!vars, Seen

\* The three ways through rt_completion_wait are those of Completion.
LEMMA WaitIsWait ==
  ASSUME TxAssumption, OneWriter, IInv, NEW t \in Writers
  PROVE  /\ WaitNow(t) => Signal!WaitNow(t)
         /\ WaitBlock(t) => Signal!WaitBlock(t, FALSE)
         /\ WaitReturn(t) => Signal!WaitReturn(t)
<1> USE DEF IInv, Types, Listed, Goto
<1>1. ASSUME WaitNow(t) PROVE Signal!WaitNow(t)
  BY <1>1 DEF WaitNow, Signal!WaitNow
<1>2. ASSUME WaitBlock(t) PROVE Signal!WaitBlock(t, FALSE)
  <2>1. list = <<>>
    BY <1>2 DEF WaitBlock, OneWriter
  <2> QED BY <1>2, <2>1 DEF WaitBlock, Signal!WaitBlock, Signal!Goto
<1>3. ASSUME WaitReturn(t) PROVE Signal!WaitReturn(t)
  BY <1>3 DEF WaitReturn, Signal!WaitReturn, Signal!Goto
<1> QED BY <1>1, <1>2, <1>3

\* The interrupt signals, or finds the flag set already.
LEMMA TxDoneIsDone ==
  ASSUME TxAssumption, OneWriter, IInv, TxDone
  PROVE  Signal!IsrDone \/ Signal!vars' = Signal!vars
<1> USE DEF IInv, Types, Listed
<1>1. CASE flag
  <2>1. pc' = pc /\ list' = list /\ flag' = flag
    BY <1>1 DEF TxDone
  <2> QED BY <2>1 DEF Signal!vars
<1>2. CASE ~flag /\ list = <<>>
  <2>1. pc' = pc /\ list' = list /\ flag' = TRUE
    BY <1>2 DEF TxDone
  <2> QED BY <1>2, <2>1 DEF Signal!IsrDone, Signal!Resume
<1>3. CASE ~flag /\ list # <<>>
  <2>1. PICK w \in Writers : list = <<w>> /\ pc[w] = "asleep"
    BY <1>3
  <2>2. pc' = [pc EXCEPT ![w] = "awake"] /\ list' = Tail(list) /\ flag' = TRUE
    BY <1>3, <2>1 DEF TxDone
  <2>3. Head(list) = w
    BY <2>1
  <2> QED BY <1>3, <2>2, <2>3 DEF Signal!IsrDone, Signal!Resume
<1> QED BY <1>1, <1>2, <1>3

\* serial.c uses its completion as the completion is meant to be used: one waiter at a
\* time, whose wait ends because the flag was set, once for each time it was set.
THEOREM UsesCompletion ==
  ASSUME TxAssumption, OneWriter
  PROVE  Spec => SignalSpec
<1>1. Init => Signal!Init
  BY DEF Init, Signal!Init
<1>2. IInv /\ [Next]_<<vars, stream>> => [Signal!Next]_Signal!vars
  <2> SUFFICES ASSUME IInv, [Next]_<<vars, stream>> PROVE [Signal!Next]_Signal!vars
    OBVIOUS
  <2>1. ASSUME NEW t \in Writers, Step(t) PROVE [Signal!Next]_Signal!vars
    <3>1. CASE Writing(t)
      BY <3>1, WritingIsSilent
    <3>2. CASE WaitNow(t)
      BY <3>2, WaitIsWait DEF Signal!Next
    <3>3. CASE WaitBlock(t)
      BY <3>3, WaitIsWait DEF Signal!Next
    <3>4. CASE WaitReturn(t)
      BY <3>4, WaitIsWait DEF Signal!Next
    <3> QED BY <2>1, <3>1, <3>2, <3>3, <3>4 DEF Step, Writing
  <2>2. ASSUME NEW t \in Writers, NEW text \in Texts, Write(t, text)
        PROVE  [Signal!Next]_Signal!vars
    BY <2>2, WritingIsSilent DEF Writing
  <2>3. CASE TxDone
    BY <2>3, TxDoneIsDone DEF Signal!Next
  <2>4. CASE UNCHANGED <<vars, stream>>
    BY <2>4 DEF Signal!vars, vars, cpl
  <2> QED BY <2>1, <2>2, <2>3, <2>4 DEF Next
<1>3. Spec => []IInv
  BY Inductive
<1> QED BY <1>1, <1>2, <1>3, PTL DEF Spec, SignalSpec, Signal!Spec
-----------------------------------------------------------------------------
(* Completion, for every set of threads that wait and that signal, with    *)
(* time limits or without.  The list and the states of the threads agree:  *)
(* the list is empty and nobody sleeps, or one thread sleeps and the list  *)
(* holds just that one.  From this follows that a completion is not slept  *)
(* through, although rt_completion_done tests the flag with interrupts     *)
(* enabled.                                                                *)

\* What the asserted precondition of rt_completion_wait comes to
OneSleeps ==
  \/ clist = <<>> /\ \A t \in Waiters \cup Callers : cpc[t] # "asleep"
  \/ \E w \in Waiters : /\ clist = <<w>> /\ cpc[w] = "asleep"
                        /\ \A t \in (Waiters \cup Callers) \ {w} : cpc[t] # "asleep"

CplInv == C!TypeOK /\ OneSleeps /\ (cflag => clist = <<>>)

\* The only element of a list, removed, leaves nothing.
LEMMA RemoveOnly ==
  ASSUME NEW w
  PROVE  C!RemoveFirst(<<w>>, w) = <<>>
<1>1. {i \in 1 .. Len(<<w>>) : <<w>>[i] = w} = {1}
  OBVIOUS
<1>2. C!Min({i \in 1 .. Len(<<w>>) : <<w>>[i] = w}) = 1
  BY <1>1 DEF C!Min
<1>3. C!RemoveFirst(<<w>>, w) = C!RemoveAt(<<w>>, 1)
  BY <1>1, <1>2 DEF C!RemoveFirst, C!SelectInSeq
<1> QED BY <1>3 DEF C!RemoveAt

\* rt_completion_done: the thread that sleeps, if one does, is resumed.
LEMMA ResumeSound ==
  ASSUME C!CompletionAssumption, CplInv,
         NEW p \in [Waiters \cup Callers -> {"out", "asleep", "awake", "done"}],
         \A t \in Waiters \cup Callers : (p[t] = "asleep") = (cpc[t] = "asleep"),
         C!Resume(p), clate' = clate, cflag' = TRUE, owed' = TRUE
  PROVE  CplInv'
<1> USE DEF C!CompletionAssumption, CplInv, C!TypeOK, OneSleeps
<1>1. CASE clist = <<>>
  <2>1. cpc' = p /\ clist' = <<>> /\ ctimer' = ctimer
    BY <1>1 DEF C!Resume
  <2> QED BY <1>1, <2>1
<1>2. CASE clist # <<>>
  <2>1. PICK w \in Waiters : /\ clist = <<w>> /\ cpc[w] = "asleep"
                             /\ \A t \in (Waiters \cup Callers) \ {w} : cpc[t] # "asleep"
    BY <1>2
  <2>2. cpc' = [p EXCEPT ![w] = "awake"] /\ clist' = <<>> /\ ctimer' = ctimer \ {w}
    BY <1>2, <2>1 DEF C!Resume
  <2>3. \A t \in Waiters \cup Callers : cpc'[t] # "asleep"
    BY <2>1, <2>2
  <2>4. ctimer' = {}
    BY <2>1, <2>2
  <2>5. cpc' \in [Waiters \cup Callers -> {"out", "asleep", "awake", "done"}]
    BY <2>2
  <2> QED BY <2>2, <2>3, <2>4, <2>5
<1> QED BY <1>1, <1>2

\* Each step of rt_completion_wait, rt_completion_done and the timeout.
LEMMA NextSound ==
  ASSUME C!CompletionAssumption, CplInv, C!Next
  PROVE  CplInv'
<1> USE DEF C!CompletionAssumption, CplInv, C!TypeOK, OneSleeps
<1>1. ASSUME NEW t \in Waiters, C!WaitNow(t) PROVE CplInv'
  BY <1>1 DEF C!WaitNow
<1>2. ASSUME NEW t \in Waiters, NEW finite \in Finite, C!WaitBlock(t, finite) PROVE CplInv'
  <2>1. clist' = <<t>> /\ cpc' = [cpc EXCEPT ![t] = "asleep"] /\ cflag' = cflag /\ ~cflag
    BY <1>2 DEF C!WaitBlock, C!Goto
  <2>2. ctimer = {} /\ ctimer' \subseteq {t}
    BY <1>2 DEF C!WaitBlock
  <2>3. clate' = clate /\ owed' = owed
    BY <1>2 DEF C!WaitBlock
  <2>4. cpc'[t] = "asleep" /\ \A u \in (Waiters \cup Callers) \ {t} : cpc'[u] # "asleep"
    BY <1>2, <2>1 DEF C!WaitBlock
  <2>5. cpc' \in [Waiters \cup Callers -> {"out", "asleep", "awake", "done"}]
    BY <2>1
  <2>6. OneSleeps'
    BY <2>1, <2>4
  <2>7. C!TypeOK'
    BY <2>1, <2>2, <2>3, <2>4, <2>5
  <2> QED BY <2>1, <2>6, <2>7
<1>3. ASSUME NEW t \in Waiters, C!WaitReturn(t) PROVE CplInv'
  <2>1. cpc' = [cpc EXCEPT ![t] = "out"] /\ clist' = clist /\ ctimer' = ctimer /\ cpc[t] = "awake"
    BY <1>3 DEF C!WaitReturn, C!Goto
  <2>2. cflag' = FALSE /\ owed' \in BOOLEAN /\ clate' \subseteq Waiters
    BY <1>3 DEF C!WaitReturn
  <2>3. \A u \in Waiters \cup Callers : (cpc'[u] = "asleep") = (cpc[u] = "asleep")
    BY <2>1
  <2>4. OneSleeps'
    BY <2>1, <2>3
  <2>5. C!TypeOK'
    BY <2>1, <2>2, <2>3
  <2> QED BY <2>2, <2>4, <2>5
<1>4. ASSUME NEW t \in Waiters \cup Callers, C!Timeout(t) PROVE CplInv'
  <2>1. cpc[t] = "asleep" /\ t \in Waiters /\ clist = <<t>>
        /\ \A u \in (Waiters \cup Callers) \ {t} : cpc[u] # "asleep"
    BY <1>4 DEF C!Timeout
  <2>2. clist' = <<>>
    BY <1>4, <2>1, RemoveOnly DEF C!Timeout
  <2>3. cpc' = [cpc EXCEPT ![t] = "awake"] /\ ctimer' = ctimer \ {t}
        /\ clate' = clate \cup {t} /\ cflag' = cflag /\ owed' = owed
    BY <1>4 DEF C!Timeout, C!Goto
  <2>4. \A u \in Waiters \cup Callers : cpc'[u] # "asleep"
    BY <2>1, <2>3
  <2>5. ctimer' = {}
    BY <2>1, <2>3
  <2> QED BY <2>1, <2>2, <2>3, <2>4, <2>5
<1>5. ASSUME NEW t \in Waiters \cup Callers, C!DoneTest(t) PROVE CplInv'
  <2>1. cpc' = [cpc EXCEPT ![t] = "done"] /\ cpc[t] = "out"
        /\ clist' = clist /\ ctimer' = ctimer /\ cflag' = cflag /\ clate' = clate /\ owed' = owed
    BY <1>5 DEF C!DoneTest, C!Goto
  <2>2. \A u \in Waiters \cup Callers : (cpc'[u] = "asleep") = (cpc[u] = "asleep")
    BY <2>1
  <2>3. OneSleeps'
    BY <2>1, <2>2
  <2>4. C!TypeOK'
    BY <2>1, <2>2
  <2> QED BY <2>1, <2>3, <2>4
<1>6. ASSUME NEW t \in Waiters \cup Callers, C!DoneSet(t) PROVE CplInv'
  <2> DEFINE p == [cpc EXCEPT ![t] = "out"]
  <2>1. p \in [Waiters \cup Callers -> {"out", "asleep", "awake", "done"}]
    OBVIOUS
  <2>2. \A u \in Waiters \cup Callers : (p[u] = "asleep") = (cpc[u] = "asleep")
    BY <1>6 DEF C!DoneSet
  <2>3. C!Resume(p) /\ clate' = clate /\ cflag' = TRUE /\ owed' = TRUE
    BY <1>6 DEF C!DoneSet
  <2> HIDE DEF p
  <2> QED BY <2>1, <2>2, <2>3, ResumeSound
<1>7. ASSUME C!IsrDone PROVE CplInv'
  <2>1. C!Resume(cpc) /\ clate' = clate /\ cflag' = TRUE /\ owed' = TRUE
    BY <1>7 DEF C!IsrDone
  <2> QED BY <2>1, ResumeSound
<1> QED BY <1>1, <1>2, <1>3, <1>4, <1>5, <1>6, <1>7 DEF C!Next

\* Nothing changes when nothing happens.
LEMMA StutterSound ==
  ASSUME CplInv, UNCHANGED C!vars
  PROVE  CplInv'
BY DEF CplInv, C!TypeOK, OneSleeps, C!vars

\* The list and the states of the threads agree in every state.
LEMMA CplInductive ==
  ASSUME C!CompletionAssumption
  PROVE  C!Spec => []CplInv
<1>1. C!Init => CplInv
  <2> SUFFICES ASSUME C!Init PROVE CplInv
    OBVIOUS
  <2>1. \A t \in Waiters \cup Callers : cpc[t] = "out"
    BY DEF C!Init
  <2>2. C!TypeOK
    <3>1. cflag \in BOOLEAN /\ owed \in BOOLEAN
      BY Zenon DEF C!Init
    <3>2. clist \in Seq(Waiters)
      BY DEF C!Init
    <3>3. cpc \in [Waiters \cup Callers -> {"out", "asleep", "awake", "done"}]
      BY DEF C!Init
    <3> QED BY <3>1, <3>2, <3>3, Zenon DEF C!Init, C!TypeOK
  <2>3. OneSleeps
    BY <2>1 DEF C!Init, OneSleeps
  <2> QED BY <2>2, <2>3 DEF C!Init, CplInv
<1>2. CplInv /\ [C!Next]_(C!vars) => CplInv'
  BY NextSound, StutterSound
<1> QED BY <1>1, <1>2, PTL DEF C!Spec

\* No wait sleeps through a completion: rt_completion_done finds the thread that
\* sleeps, whatever its test of the flag with interrupts enabled saw, for any number
\* of threads that signal at once, time limits included.
THEOREM CompletionHeard ==
  ASSUME C!CompletionAssumption
  PROVE  C!Spec => [](C!TypeOK /\ C!NoneSleepsThrough)
<1>1. CplInv => C!TypeOK /\ C!NoneSleepsThrough
  <2>1. \A w : <<w>> # <<>>
    OBVIOUS
  <2> QED BY <2>1, Zenon DEF CplInv, OneSleeps, C!NoneSleepsThrough
<1>2. C!Spec => []CplInv
  BY CplInductive
<1> QED BY <1>1, <1>2, PTL

-----------------------------------------------------------------------------
(* What RT_EOK means to a completion's only waiter, who is the only one    *)
(* that clears the flag.                                                   *)

Alone == \A t, u \in Waiters : t = u

\* A flag that is set, and a wakeup that was no timeout, stand for a completion that
\* no wait has returned yet.
OwedInv ==
  /\ cflag => owed
  /\ \A t \in Waiters : cpc[t] = "awake" /\ t \notin clate => owed

\* WaitNow, WaitReturn: the waiter uses up what it is owed, and nobody else does.
LEMMA OwedStep ==
  ASSUME C!CompletionAssumption, Alone, C!TypeOK, OwedInv, [C!Next]_(C!vars)
  PROVE  OwedInv'
<1> USE DEF C!CompletionAssumption, C!TypeOK, OwedInv
<1>1. ASSUME NEW t \in Waiters, C!WaitNow(t) PROVE OwedInv'
  BY <1>1 DEF C!WaitNow, Alone
<1>2. ASSUME NEW t \in Waiters, NEW finite \in Finite, C!WaitBlock(t, finite) PROVE OwedInv'
  BY <1>2 DEF C!WaitBlock, C!Goto
<1>3. ASSUME NEW t \in Waiters, C!WaitReturn(t) PROVE OwedInv'
  BY <1>3 DEF C!WaitReturn, C!Goto, Alone
<1>4. ASSUME NEW t \in Waiters \cup Callers, C!Timeout(t) PROVE OwedInv'
  BY <1>4 DEF C!Timeout, C!Goto
<1>5. ASSUME NEW t \in Waiters \cup Callers, C!DoneTest(t) PROVE OwedInv'
  BY <1>5 DEF C!DoneTest, C!Goto
<1>6. ASSUME NEW t \in Waiters \cup Callers, C!DoneSet(t) PROVE OwedInv'
  BY <1>6 DEF C!DoneSet
<1>7. ASSUME C!IsrDone PROVE OwedInv'
  BY <1>7 DEF C!IsrDone
<1>8. ASSUME UNCHANGED C!vars PROVE OwedInv'
  BY <1>8 DEF C!vars
<1> QED BY <1>1, <1>2, <1>3, <1>4, <1>5, <1>6, <1>7, <1>8 DEF C!Next

\* rt_completion_wait returns RT_EOK once for a completion, if there is one waiter:
\* each return, at once or after a sleep, is for a rt_completion_done that no other
\* return was for, also when timeouts come before or after it.
THEOREM OkOnlyOnce ==
  ASSUME C!CompletionAssumption, Alone
  PROVE  C!Spec => C!OkMeansDone
<1> DEFINE Owing == \A t \in Waiters : C!WaitNow(t) \/ (C!WaitReturn(t) /\ t \notin clate) => owed
<1>1. C!Init => OwedInv
  BY DEF C!Init, OwedInv, C!CompletionAssumption
<1>2. CplInv /\ OwedInv /\ [C!Next]_(C!vars) => OwedInv'
  BY OwedStep DEF CplInv
<1>3. OwedInv /\ [C!Next]_(C!vars) => [Owing]_(C!vars)
  BY DEF OwedInv, C!WaitNow, C!WaitReturn
<1>4. C!Spec => []CplInv
  BY CplInductive
<1> QED BY <1>1, <1>2, <1>3, <1>4, PTL DEF C!Spec, C!OkMeansDone

-----------------------------------------------------------------------------
(* The console's input, for any characters, size of the buffer and maximum *)
(* of the semaphore, and any number of other threads that open the device, *)
(* all of them with RT_DEVICE_FLAG_INT_RX.                                  *)

\* Whoever opens the device asks for the receive interrupt.
InterruptModes == Modes \subseteq {TRUE}

RxRings == [buffer : [S!Places -> Chars], put : S!Places, get : S!Places, full : BOOLEAN]

LEMMA WrapAround ==
  ASSUME NEW B \in Nat \ {0}, NEW g \in 0 .. B - 1, NEW i \in 1 .. B
  PROVE  (g + i - 1) % B = IF g + i - 1 < B THEN g + i - 1 ELSE g + i - 1 - B
OBVIOUS

LEMMA RxFields ==
  ASSUME S!ConsoleAssumption, NEW r \in RxRings
  PROVE  /\ r.buffer \in [S!Places -> Chars] /\ r.put \in 0 .. Bufsz - 1
         /\ r.get \in 0 .. Bufsz - 1 /\ r.full \in BOOLEAN
         /\ Bufsz \in Nat /\ Bufsz >= 2 /\ S!Length(r) \in 0 .. Bufsz - 1
         /\ r.put = IF r.get + S!Length(r) < Bufsz THEN r.get + S!Length(r)
                                                   ELSE r.get + S!Length(r) - Bufsz
BY DEF S!ConsoleAssumption, RxRings, S!Places, S!Length

\* Where the i-th character is.
Spot(r, i) == IF r.get + i - 1 < Bufsz THEN r.get + i - 1 ELSE r.get + i - 1 - Bufsz

\* The input is a sequence of characters.
LEMMA InputSeq ==
  ASSUME S!ConsoleAssumption, NEW r \in RxRings
  PROVE  /\ S!Input(r) \in Seq(Chars) /\ Len(S!Input(r)) = S!Length(r)
         /\ \A i \in 1 .. S!Length(r) : S!Input(r)[i] = r.buffer[Spot(r, i)]
         /\ \A i \in 1 .. Bufsz : Spot(r, i) \in S!Places
<1>1. \A i \in 1 .. Bufsz : /\ (r.get + i - 1) % Bufsz = Spot(r, i)
                            /\ Spot(r, i) \in S!Places
  <2> SUFFICES ASSUME NEW i \in 1 .. Bufsz
               PROVE  /\ (r.get + i - 1) % Bufsz = Spot(r, i)
                      /\ Spot(r, i) \in S!Places
    OBVIOUS
  <2>1. r.get + i - 1 \in 0 .. 2 * Bufsz - 1 /\ Bufsz \in Nat \ {0} /\ r.get \in 0 .. Bufsz - 1
    BY RxFields
  <2>2. (r.get + i - 1) % Bufsz = Spot(r, i)
    <3>1. ASSUME NEW g \in 0 .. Bufsz - 1, g = r.get
          PROVE  (g + i - 1) % Bufsz = IF g + i - 1 < Bufsz THEN g + i - 1 ELSE g + i - 1 - Bufsz
      BY <2>1, WrapAround
    <3> QED BY <2>1, <3>1, Zenon DEF Spot
  <2> QED BY <2>1, <2>2 DEF Spot, S!Places
<1>2. S!Length(r) \in Nat /\ \A i \in 1 .. S!Length(r) : i \in 1 .. Bufsz
  BY RxFields
<1>3. \A i \in 1 .. S!Length(r) : r.buffer[Spot(r, i)] \in Chars
  BY <1>1, <1>2, RxFields
<1>4. S!Input(r) = [i \in 1 .. S!Length(r) |-> r.buffer[Spot(r, i)]]
  BY <1>1, <1>2 DEF S!Input
<1> HIDE DEF RxRings, Spot
<1> QED BY <1>1, <1>2, <1>3, <1>4

\* A sequence with the characters of the input in their places is the input.
LEMMA InputIs ==
  ASSUME S!ConsoleAssumption, NEW r \in RxRings, NEW s \in Seq(Chars), Len(s) = S!Length(r),
         \A i \in 1 .. Len(s) : s[i] = r.buffer[Spot(r, i)]
  PROVE  S!Input(r) = s
<1>1. S!Input(r) \in Seq(Chars) /\ Len(S!Input(r)) = Len(s)
  BY InputSeq
<1>2. \A i \in 1 .. Len(s) : S!Input(r)[i] = s[i]
  BY InputSeq
<1> QED BY <1>1, <1>2, SeqEqual

\* What a character does to the fields of the ring.
LEMMA PutFields ==
  ASSUME S!ConsoleAssumption, NEW r \in RxRings, NEW c \in Chars, NEW n, n = S!Put(r, c)
  PROVE  /\ n \in RxRings
         /\ n.buffer = [r.buffer EXCEPT ![r.put] = c]
         /\ n.put = S!After(r.put)
         /\ n.get = IF S!After(r.put) = r.get THEN S!After(r.get) ELSE r.get
         /\ n.put # n.get
<1>0. /\ r.put \in 0 .. Bufsz - 1 /\ r.get \in 0 .. Bufsz - 1 /\ Bufsz \in Nat /\ Bufsz >= 2
      /\ r.buffer \in [S!Places -> Chars] /\ r.full \in BOOLEAN
  BY RxFields
<1>1. S!After(r.put) \in S!Places /\ S!After(r.get) \in S!Places
      /\ S!After(r.get) # r.get
  BY <1>0 DEF S!After, S!Places
<1>2. /\ n.buffer = [r.buffer EXCEPT ![r.put] = c]
      /\ n.put = S!After(r.put)
      /\ n.get = IF S!After(r.put) = r.get THEN S!After(r.get) ELSE r.get
      /\ n.full = (r.full \/ S!After(r.put) = r.get)
      /\ n = [buffer |-> n.buffer, put |-> n.put, get |-> n.get, full |-> n.full]
  BY DEF S!Put, RxRings
<1>3. n.buffer \in [S!Places -> Chars]
  BY <1>0, <1>2
<1>4. n \in RxRings
  BY <1>0, <1>1, <1>2, <1>3 DEF RxRings
<1> QED BY <1>0, <1>1, <1>2, <1>4

LEMMA PutRing ==
  ASSUME S!ConsoleAssumption, NEW r \in RxRings, NEW c \in Chars
  PROVE  S!Put(r, c) \in RxRings /\ S!Put(r, c).put # S!Put(r, c).get
<1> DEFINE n == S!Put(r, c)
<1>1. n \in RxRings /\ n.put # n.get
  BY PutFields
<1> QED BY <1>1

\* rt_hw_serial_isr: the character goes behind the others, and the oldest one goes if
\* the buffer is full.
LEMMA PutKeepsNewest ==
  ASSUME S!ConsoleAssumption, NEW r \in RxRings, NEW c \in Chars
  PROVE  LET all == Append(S!Input(r), c)
         IN  S!Input(S!Put(r, c)) = IF Len(all) < Bufsz THEN all ELSE Tail(all)
<1> DEFINE n == S!Put(r, c)
           old == S!Input(r)
           all == Append(old, c)
           len == S!Length(r)
<1>1. /\ old \in Seq(Chars) /\ Len(old) = len
      /\ \A i \in 1 .. len : old[i] = r.buffer[Spot(r, i)]
  BY InputSeq
<1>2. /\ all \in Seq(Chars) /\ Len(all) = len + 1 /\ all[len + 1] = c
      /\ \A i \in 1 .. len : all[i] = r.buffer[Spot(r, i)]
  BY <1>1
<1>3. /\ n \in RxRings
      /\ n.buffer = [r.buffer EXCEPT ![r.put] = c]
      /\ n.put = S!After(r.put)
      /\ n.get = IF S!After(r.put) = r.get THEN S!After(r.get) ELSE r.get
  BY PutFields
<1>4. /\ r.put \in 0 .. Bufsz - 1 /\ r.get \in 0 .. Bufsz - 1 /\ len \in 0 .. Bufsz - 1
      /\ r.put = Spot(r, len + 1) /\ Bufsz \in Nat /\ Bufsz >= 2
      /\ r.buffer \in [S!Places -> Chars]
  BY RxFields DEF Spot
<1>5. \A i \in 1 .. len + 1 : /\ Spot(r, i) \in S!Places
                              /\ i # len + 1 => Spot(r, i) # r.put
  <2>1. \A i \in 1 .. len + 1 : i \in 1 .. Bufsz
    BY <1>4
  <2>2. \A i \in 1 .. len + 1 : Spot(r, i) \in S!Places
    BY <2>1, InputSeq
  <2>3. \A i \in 1 .. len + 1 : i # len + 1 => Spot(r, i) # r.put
    <3> HIDE DEF len
    <3> QED BY <1>4 DEF Spot
  <2> QED BY <2>2, <2>3
<1>6. \A i \in 1 .. len + 1 : n.buffer[Spot(r, i)] = all[i]
  BY <1>2, <1>3, <1>4, <1>5
<1> HIDE DEF n, old, all, len
<1>7. CASE len + 1 < Bufsz
  <2>1. n.get = r.get
    BY <1>3, <1>4, <1>7 DEF S!After, Spot
  <2>2. S!Length(n) = len + 1
    BY <1>3, <1>4, <1>7, <2>1 DEF S!After, Spot, S!Length
  <2>3. \A i \in 1 .. len + 1 : Spot(n, i) = Spot(r, i)
    BY <2>1 DEF Spot
  <2>4. S!Input(n) = all
    BY <1>2, <1>3, <1>6, <2>2, <2>3, InputIs
  <2> QED BY <1>2, <1>7, <2>4 DEF n, all, old
<1>8. CASE len + 1 = Bufsz
  <2>1. n.get = S!After(r.get)
    BY <1>3, <1>4, <1>8 DEF S!After, Spot
  <2>2. S!Length(n) = len
    BY <1>3, <1>4, <1>8, <2>1 DEF S!After, Spot, S!Length
  <2>3. /\ Tail(all) \in Seq(Chars) /\ Len(Tail(all)) = len
        /\ \A i \in 1 .. len : Tail(all)[i] = all[i + 1]
    BY <1>2, <1>4
  <2>4. \A i \in 1 .. len : Spot(n, i) = Spot(r, i + 1)
    BY <1>4, <2>1 DEF Spot, S!After
  <2>5. \A i \in 1 .. len : i + 1 \in 1 .. len + 1
    BY <1>4
  <2>6. \A i \in 1 .. Len(Tail(all)) : Tail(all)[i] = n.buffer[Spot(n, i)]
    BY <1>6, <2>3, <2>4, <2>5
  <2>7. S!Input(n) = Tail(all)
    BY <1>3, <2>2, <2>3, <2>6, InputIs
  <2> QED BY <1>2, <1>8, <2>7 DEF n, all, old
<1> QED BY <1>4, <1>7, <1>8

\* _serial_int_rx: the oldest character is taken.
LEMMA ReadTakesOldest ==
  ASSUME S!ConsoleAssumption, NEW r \in RxRings, r.put # r.get,
         NEW n, n = [r EXCEPT !.get = S!After(@), !.full = FALSE]
  PROVE  /\ n \in RxRings /\ n.full = FALSE
         /\ S!Input(r) # <<>> /\ S!Input(n) = Tail(S!Input(r))
<1> DEFINE old == S!Input(r)
           len == S!Length(r)
<1>1. /\ old \in Seq(Chars) /\ Len(old) = len
      /\ \A i \in 1 .. len : old[i] = r.buffer[Spot(r, i)]
  BY InputSeq
<1>2. /\ r.put \in 0 .. Bufsz - 1 /\ r.get \in 0 .. Bufsz - 1 /\ len \in 0 .. Bufsz - 1
      /\ r.put = Spot(r, len + 1) /\ Bufsz \in Nat /\ Bufsz >= 2
  BY RxFields DEF Spot
<1>3. S!After(r.get) \in S!Places
  BY <1>2 DEF S!After, S!Places
<1>4. /\ n \in RxRings /\ n.full = FALSE /\ n.get = S!After(r.get)
      /\ n.put = r.put /\ n.buffer = r.buffer
  BY <1>3 DEF RxRings
<1> HIDE DEF old, len
<1>5. len # 0
  BY <1>2 DEF Spot
<1>6. S!Length(n) = len - 1
  BY <1>2, <1>4, <1>5 DEF S!After, Spot, S!Length
<1>7. /\ old # <<>> /\ Tail(old) \in Seq(Chars) /\ Len(Tail(old)) = len - 1
      /\ \A i \in 1 .. len - 1 : Tail(old)[i] = old[i + 1]
  BY <1>1, <1>2, <1>5
<1>8. \A i \in 1 .. len - 1 : Spot(n, i) = Spot(r, i + 1) /\ i + 1 \in 1 .. len
  BY <1>2, <1>4 DEF Spot, S!After
<1>9. \A i \in 1 .. Len(Tail(old)) : Tail(old)[i] = n.buffer[Spot(n, i)]
  BY <1>1, <1>4, <1>7, <1>8
<1>10. S!Input(n) = Tail(old)
  BY <1>4, <1>6, <1>7, <1>9, InputIs
<1> QED BY <1>4, <1>7, <1>10 DEF old

-----------------------------------------------------------------------------
\* A ring that is full holds something.
FullHolds == rx.full => rx.put # rx.get

\* The reference count counts those who have the device open, and while somebody has,
\* the receive interrupt is asked for.
Counted ==
  /\ IsFiniteSet(held)
  /\ ref = Cardinality(held) + (IF shell = "boot" THEN 0 ELSE 1)
  /\ (mode <=> ref # 0) /\ (on => ref # 0)

\* The shell waits for what is in the buffer only if nobody has signalled it, and the
\* interrupt handler is then about to.
Heard ==
  /\ shell \in {"read", "take"} => ind
  /\ shell = "take" /\ sem = 0 /\ ~isr => rx.put = rx.get

ConInv == S!TypeOK /\ FullHolds /\ Counted /\ Heard

LEMMA EmptyLength ==
  ASSUME S!ConsoleAssumption, NEW r \in RxRings
  PROVE  S!Length(r) = 0 <=> r.put = r.get
BY RxFields DEF S!Length

LEMMA EmptyRingOk ==
  ASSUME S!ConsoleAssumption
  PROVE  S!EmptyRing \in RxRings /\ S!EmptyRing.put = S!EmptyRing.get /\ S!EmptyRing.full = FALSE
<1>1. (CHOOSE c \in Chars : TRUE) \in Chars
  BY DEF S!ConsoleAssumption
<1>2. 0 \in S!Places
  BY DEF S!ConsoleAssumption, S!Places
<1> QED BY <1>1, <1>2 DEF S!EmptyRing, RxRings

\* rt_device_open.
LEMMA OpenFields ==
  ASSUME S!ConsoleAssumption, InterruptModes, ConInv, S!Open(TRUE)
  PROVE  /\ ref' = ref + 1 /\ mode' = TRUE /\ on' = TRUE
         /\ rx' \in RxRings /\ FullHolds' /\ (rx.put = rx.get => rx'.put = rx'.get)
<1>1. rx \in RxRings
  BY DEF ConInv, S!TypeOK, RxRings
<1> QED BY <1>1, EmptyRingOk DEF S!Open, ConInv, FullHolds, S!TypeOK

LEMMA ConInitInv ==
  ASSUME S!ConsoleAssumption, S!Init
  PROVE  ConInv
<1>1. rx \in RxRings /\ rx.put = rx.get /\ rx.full = FALSE
  BY EmptyRingOk DEF S!Init
<1>2. S!TypeOK
  <2>1. ref \in Nat /\ sem \in 0 .. SemMax /\ held \subseteq Others
    BY DEF S!Init, S!ConsoleAssumption
  <2>2. mode \in BOOLEAN /\ on \in BOOLEAN /\ ind \in BOOLEAN /\ isr \in BOOLEAN
    BY Zenon DEF S!Init
  <2>3. shell \in {"boot", "bind", "read", "take"}
    BY DEF S!Init
  <2> QED BY <1>1, <2>1, <2>2, <2>3 DEF S!TypeOK, RxRings
<1>3. IsFiniteSet(held) /\ Cardinality(held) = 0
  BY FS_EmptySet DEF S!Init
<1> QED BY <1>1, <1>2, <1>3 DEF S!Init, ConInv, FullHolds, Counted, Heard

LEMMA ConNextInv ==
  ASSUME S!ConsoleAssumption, InterruptModes, ConInv, S!Next
  PROVE  ConInv'
<1>0. /\ rx \in RxRings /\ SemMax \in Nat \ {0} /\ Modes \subseteq {TRUE}
      /\ IsFiniteSet(held) /\ Cardinality(held) \in Nat
  BY FS_CardinalityType DEF ConInv, S!TypeOK, RxRings, S!ConsoleAssumption, InterruptModes, Counted
<1>1. ASSUME NEW t \in Others, S!OtherClose(t) PROVE ConInv'
  <2>1. /\ t \in held /\ held' = held \ {t} /\ ref' = ref - 1
        /\ on' = (on /\ ~(ref = 1 /\ mode)) /\ mode' = (mode /\ ref # 1)
        /\ UNCHANGED <<rx, ind, sem, shell, isr>>
    BY <1>1 DEF S!OtherClose, S!Close, S!shellVars
  <2>2. IsFiniteSet(held') /\ Cardinality(held') = Cardinality(held) - 1 /\ Cardinality(held') \in Nat
    BY <1>0, <2>1, FS_RemoveElement, FS_CardinalityType
  <2>3. ref' \in Nat /\ ref' = Cardinality(held') + (IF shell' = "boot" THEN 0 ELSE 1)
        /\ (ref' # 0 <=> ref # 1) /\ ref # 0
    BY <1>0, <2>1, <2>2 DEF ConInv, Counted
  <2>4. mode /\ (mode' <=> ref' # 0) /\ (on' => ref' # 0) /\ mode' \in BOOLEAN /\ on' \in BOOLEAN
    BY <2>1, <2>3, Zenon DEF ConInv, Counted, S!TypeOK
  <2>5. Counted'
    BY <2>2, <2>3, <2>4 DEF Counted
  <2> QED BY <2>1, <2>3, <2>4, <2>5 DEF ConInv, FullHolds, Heard, S!TypeOK
<1>2. ASSUME NEW t \in Others, NEW int \in Modes, S!OtherOpen(t, int) PROVE ConInv'
  <2>1. /\ t \notin held /\ held' = held \cup {t} /\ S!Open(TRUE)
        /\ UNCHANGED <<ind, sem, shell, isr>>
    BY <1>0, <1>2 DEF S!OtherOpen, S!shellVars
  <2>2. /\ ref' = ref + 1 /\ mode' = TRUE /\ on' = TRUE
        /\ rx' \in RxRings /\ FullHolds' /\ (rx.put = rx.get => rx'.put = rx'.get)
    BY <2>1, OpenFields
  <2>3. IsFiniteSet(held') /\ Cardinality(held') = Cardinality(held) + 1
    BY <1>0, <2>1, FS_AddElement
  <2>4. Counted' /\ ref' \in Nat
    BY <1>0, <2>1, <2>2, <2>3 DEF ConInv, Counted, S!TypeOK
  <2> QED BY <2>1, <2>2, <2>4 DEF ConInv, Heard, S!TypeOK, RxRings
<1>3. ASSUME NEW c \in Chars, S!RxChar(c) PROVE ConInv'
  <2>0. S!Put(rx, c) \in RxRings /\ S!Put(rx, c).put # S!Put(rx, c).get
    BY <1>0, PutRing
  <2>1. rx' \in RxRings /\ rx'.put # rx'.get
    BY <1>3, <2>0, Zenon DEF S!RxChar
  <2> QED BY <1>3, <2>1 DEF S!RxChar, S!devVars, S!shellVars, ConInv, FullHolds, Counted, Heard,
                        S!TypeOK, RxRings
<1>4. CASE S!RxIndicate
  <2>1. /\ sem' = (IF ind /\ S!Length(rx) # 0 /\ sem < SemMax THEN sem + 1 ELSE sem)
        /\ isr' = FALSE /\ UNCHANGED <<ref, mode, on, rx, ind, shell, held>>
    BY <1>4 DEF S!RxIndicate, S!Indication, S!devVars
  <2>2. sem \in 0 .. SemMax
    BY DEF ConInv, S!TypeOK
  <2>3. sem' \in 0 .. SemMax /\ (sem' = 0 /\ ind => rx.put = rx.get)
    BY <1>0, <2>1, <2>2, EmptyLength
  <2> QED BY <2>1, <2>3 DEF ConInv, FullHolds, Counted, Heard, S!TypeOK
<1>5. CASE S!ShellOpen
  <2>1. /\ shell = "boot" /\ shell' = "bind" /\ S!Open(TRUE)
        /\ UNCHANGED <<ind, sem, isr, held>>
    BY <1>5 DEF S!ShellOpen
  <2>2. /\ ref' = ref + 1 /\ mode' = TRUE /\ on' = TRUE /\ rx' \in RxRings /\ FullHolds'
    BY <2>1, OpenFields
  <2>3. Counted' /\ ref' \in Nat
    BY <1>0, <2>1, <2>2 DEF ConInv, Counted, S!TypeOK
  <2> QED BY <2>1, <2>2, <2>3 DEF ConInv, Heard, S!TypeOK, RxRings
<1>6. CASE S!ShellBind
  BY <1>6 DEF S!ShellBind, S!devVars, ConInv, FullHolds, Counted, Heard, S!TypeOK
<1>7. CASE S!ShellRead
  <2>1. rx.put # rx.get
    BY <1>7 DEF S!ShellRead, S!Nothing, ConInv, FullHolds
  <2>2. rx' \in RxRings /\ rx'.full = FALSE
    BY <1>0, <1>7, <2>1, ReadTakesOldest DEF S!ShellRead
  <2> QED BY <1>7, <2>2 DEF S!ShellRead, S!devVars, S!shellVars, ConInv, FullHolds, Counted, Heard,
                        S!TypeOK, RxRings
<1>8. CASE S!ShellReadNone
  <2>1. mode
    BY <1>0, <1>8 DEF S!ShellReadNone, ConInv, Counted
  <2> QED BY <1>8, <2>1 DEF S!ShellReadNone, S!Nothing, S!devVars, ConInv, FullHolds, Counted, Heard, S!TypeOK
<1>9. CASE S!ShellTake
  BY <1>0, <1>9 DEF S!ShellTake, S!devVars, ConInv, FullHolds, Counted, Heard, S!TypeOK
<1> QED BY <1>1, <1>2, <1>3, <1>4, <1>5, <1>6, <1>7, <1>8, <1>9 DEF S!Next, S!Shell

LEMMA ConStutter ==
  ASSUME ConInv, UNCHANGED S!vars
  PROVE  ConInv'
BY DEF ConInv, FullHolds, Counted, Heard, S!TypeOK, S!vars, S!devVars, S!shellVars

LEMMA ConInvSound ==
  ASSUME S!ConsoleAssumption, ConInv
  PROVE  S!TypeOK /\ S!NoMissedInput /\ S!ClosedIsQuiet
<1>1. rx \in RxRings
  BY DEF ConInv, S!TypeOK, RxRings
<1> QED BY <1>1, EmptyLength DEF ConInv, Counted, Heard, S!NoMissedInput, S!ClosedIsQuiet

\* What NewestKept says of one step.
LEMMA StepKeepsNewest ==
  ASSUME S!ConsoleAssumption, ConInv
  PROVE  /\ \A c \in Chars : S!RxChar(c) =>
               LET all == Append(S!Input(rx), c)
               IN  S!Input(rx') = IF Len(all) < Bufsz THEN all ELSE Tail(all)
         /\ S!ShellRead => S!Input(rx) # <<>> /\ S!Input(rx') = Tail(S!Input(rx))
<1>1. rx \in RxRings
  BY DEF ConInv, S!TypeOK, RxRings
<1>2. ASSUME NEW c \in Chars, S!RxChar(c)
      PROVE  LET all == Append(S!Input(rx), c)
             IN  S!Input(rx') = IF Len(all) < Bufsz THEN all ELSE Tail(all)
  <2>1. rx' = S!Put(rx, c)
    BY <1>2 DEF S!RxChar
  <2> QED BY <1>1, <2>1, PutKeepsNewest
<1>3. ASSUME S!ShellRead PROVE S!Input(rx) # <<>> /\ S!Input(rx') = Tail(S!Input(rx))
  <2>1. rx.put # rx.get /\ rx' = [rx EXCEPT !.get = S!After(@), !.full = FALSE]
    BY <1>3 DEF S!ShellRead, S!Nothing, ConInv, FullHolds
  <2> QED BY <1>1, <2>1, ReadTakesOldest
<1> QED BY <1>2, <1>3

\* finsh_getchar does not sleep over input that is in the buffer, whatever falls between
\* its test of the buffer and rt_sem_take, and the last to close the device leaves no
\* interrupt enabled: for any buffer, any maximum of the semaphore, and any number of
\* other threads that open and close the device with RT_DEVICE_FLAG_INT_RX.
THEOREM ConsoleHears ==
  ASSUME S!ConsoleAssumption, InterruptModes
  PROVE  S!Spec => [](S!TypeOK /\ S!NoMissedInput /\ S!ClosedIsQuiet)
<1>1. S!Init => ConInv
  BY ConInitInv
<1>2. ConInv /\ [S!Next]_(S!vars) => ConInv'
  BY ConNextInv, ConStutter
<1>3. ConInv => S!TypeOK /\ S!NoMissedInput /\ S!ClosedIsQuiet
  BY ConInvSound
<1> QED BY <1>1, <1>2, <1>3, PTL DEF S!Spec

\* rt_hw_serial_isr and _serial_int_rx: the ring is a queue that gives up its oldest
\* character when it is full, for a buffer of any size; is_full does not bring back what
\* was read.
THEOREM RingKeepsNewest ==
  ASSUME S!ConsoleAssumption, InterruptModes
  PROVE  S!Spec => S!NewestKept
<1> DEFINE Kept1 ==
      /\ \A c \in Chars : S!RxChar(c) =>
            LET all == Append(S!Input(rx), c)
            IN  S!Input(rx') = IF Len(all) < Bufsz THEN all ELSE Tail(all)
      /\ S!ShellRead => S!Input(rx) # <<>> /\ S!Input(rx') = Tail(S!Input(rx))
<1>1. S!Init => ConInv
  BY ConInitInv
<1>2. ConInv /\ [S!Next]_(S!vars) => ConInv'
  BY ConNextInv, ConStutter
<1>3. ConInv => [Kept1]_(S!vars)
  BY StepKeepsNewest
<1> QED BY <1>1, <1>2, <1>3, PTL DEF S!Spec, S!NewestKept

-----------------------------------------------------------------------------
(* The work queue, for any works, callers and habits.                      *)

\* ListedOnce: a work is in one list, once.  What executes is not pending.
WorkListed ==
  /\ IsInjective(ready)
  /\ ToSet(ready) \cap delayed = {}
  /\ pending \subseteq ToSet(ready) /\ current \notin pending

\* A work that is being submitted has a timer that is an object, and no other work has;
\* what is in the delayed list is being submitted.
Timers ==
  /\ \A w \in Works : delay[w] = "none" <=> w \notin submitting
  /\ delayed \subseteq submitting

Expiring ==
  /\ handler = "idle" <=> expired = NoWork
  /\ \A c \in Callers : wpc[c] = "start" => arg[c] \in Works

\* AcceptedIsKept, and the work that executes is not accepted anew.
Kept ==
  "reentrant" \notin habits =>
    /\ current \notin due
    /\ \A w \in due :
         \/ w \in ToSet(ready)
         \/ /\ w \in delayed
            /\ \/ delay[w] = "on" \/ expired = w
               \/ \E c \in Callers : wpc[c] = "start" /\ arg[c] = w

\* NoAssertFails: a service or the timeout handler finds what it started with, and a work
\* that waits for its delay is bound to the queue and not in its list.
Undisturbed ==
  habits = {} =>
    /\ handler # "stuck" /\ \A c \in Callers : wpc[c] # "stuck"
    /\ handler # "idle" => /\ \A c \in Callers : wpc[c] \notin {"start", "take"}
                           /\ delay[expired] # "none"
    /\ handler = "read" => expired \in bound
    /\ \A c \in Callers : wpc[c] = "start" => delay[arg[c]] # "none"
    /\ submitting \subseteq bound /\ submitting \cap ToSet(ready) = {}

WorkCore ==
  /\ W!WqTypeOK /\ WorkListed /\ W!WorkIsSeen
  /\ Timers /\ Expiring /\ Kept /\ Undisturbed

\* Without preemption a caller goes through its service alone, and
\* rt_workqueue_cancel_all_work finds in its lists what it tested.
Busy(c) == wpc[c] \in {"start", "take"} \cup W!Draining

OneAtATime ==
  habits = {} =>
    /\ \A c, d \in Callers : Busy(c) /\ Busy(d) => c = d
    /\ handler \in {"read", "run"} => \A c \in Callers : ~Busy(c)
    /\ W!FirstEntryExists

WorkInv == WorkCore /\ OneAtATime

LEMMA SameLists ==
  /\ \A s : W!ToSet(s) = ToSet(s) /\ W!IsInjective(s) = IsInjective(s)
  /\ \A s, e : W!RemoveFirst(s, e) = RemoveFirst(s, e)
<1>1. \A s : W!ToSet(s) = ToSet(s)
  BY DEF ToSet, W!ToSet
<1>2. \A s : W!IsInjective(s) = IsInjective(s)
  BY DEF IsInjective, W!IsInjective
<1>3. \A s, e : W!RemoveFirst(s, e) = RemoveFirst(s, e)
  BY DEF W!RemoveFirst, W!SelectInSeq, W!RemoveAt, W!Min, RemoveFirst, SelectInSeq, RemoveAt, Min
<1> QED BY <1>1, <1>2, <1>3

\* The work list with a work taken out, put last or put first.
LEMMA WorkLists ==
  ASSUME WorkCore
  PROVE  /\ \A w \in Works : LET rest == W!Rest(w) IN
              /\ rest \in Seq(Works) /\ IsInjective(rest) /\ ToSet(rest) = ToSet(ready) \ {w}
              /\ Append(rest, w) \in Seq(Works) /\ IsInjective(Append(rest, w))
              /\ ToSet(Append(rest, w)) = ToSet(ready) \cup {w}
              /\ <<w>> \o rest \in Seq(Works) /\ IsInjective(<<w>> \o rest)
              /\ ToSet(<<w>> \o rest) = ToSet(ready) \cup {w}
              /\ ready = <<>> => rest = <<>>
         /\ ToSet(ready) \subseteq Works
         /\ ready # <<>> => /\ Head(ready) \in ToSet(ready) /\ Tail(ready) \in Seq(Works)
                            /\ IsInjective(Tail(ready))
                            /\ ToSet(Tail(ready)) = ToSet(ready) \ {Head(ready)}
<1>0. ready \in Seq(Works) /\ IsInjective(ready)
  BY DEF WorkCore, WorkListed, W!WqTypeOK
<1>1. ASSUME NEW w \in Works
      PROVE  LET rest == W!Rest(w) IN
              /\ rest \in Seq(Works) /\ IsInjective(rest) /\ ToSet(rest) = ToSet(ready) \ {w}
              /\ Append(rest, w) \in Seq(Works) /\ IsInjective(Append(rest, w))
              /\ ToSet(Append(rest, w)) = ToSet(ready) \cup {w}
              /\ <<w>> \o rest \in Seq(Works) /\ IsInjective(<<w>> \o rest)
              /\ ToSet(<<w>> \o rest) = ToSet(ready) \cup {w}
              /\ ready = <<>> => rest = <<>>
  <2> DEFINE rest == W!Rest(w)
  <2>1. rest = RemoveFirst(ready, w)
    BY SameLists DEF W!Rest
  <2> HIDE DEF rest
  <2>2. rest \in Seq(Works) /\ IsInjective(rest) /\ ToSet(rest) = ToSet(ready) \ {w}
    BY <1>0, <2>1, RemoveFirstProps
  <2>3. /\ Append(rest, w) \in Seq(Works) /\ IsInjective(Append(rest, w))
        /\ ToSet(Append(rest, w)) = ToSet(rest) \cup {w}
    BY <2>2, AppendProps
  <2>4. /\ InsertAt(rest, 1, w) \in Seq(Works) /\ IsInjective(InsertAt(rest, 1, w))
        /\ ToSet(InsertAt(rest, 1, w)) = ToSet(rest) \cup {w}
    <3>1. 1 \in 1 .. Len(rest) + 1 /\ w \notin ToSet(rest)
      BY <2>2
    <3> QED BY <2>2, <3>1, InsertAtProps
  <2>5. InsertAt(rest, 1, w) = <<w>> \o rest
    BY <2>2, FrontInsert
  <2>6. ready = <<>> => rest = <<>>
    BY <1>0, <2>2, EmptyList
  <2> QED BY <2>2, <2>3, <2>4, <2>5, <2>6 DEF rest
<1>2. ready # <<>> => Head(ready) \in ToSet(ready) /\ Tail(ready) \in Seq(Works)
                      /\ IsInjective(Tail(ready))
                      /\ ToSet(Tail(ready)) = ToSet(ready) \ {Head(ready)}
  BY <1>0, HeadIn, TailProps
<1> QED BY <1>0, <1>1, <1>2, ElementsIn

\* Steps between sections that leave the lists and most flags alone.
LEMMA QuietInv ==
  ASSUME W!WorkAssumption, WorkCore,
         UNCHANGED <<ready, delayed, pending, submitting, bound, due, habits>>,
         \/ \E c \in Callers : W!StartDelay(c) \/ W!TakeSem(c)
                               \/ W!CancelAll(c) \/ W!DrainTest(c)
                               \/ \E w \in Works : W!CancelSync(c, w)
         \/ W!WorkReturns \/ W!Ack \/ W!HandlerRead
         \/ \E w \in Works : W!Expire(w)
  PROVE  WorkCore'
<1> USE DEF WorkCore, W!WqTypeOK, W!Draining
<1>1. ASSUME NEW c \in Callers, W!StartDelay(c) PROVE WorkCore'
  <2>1. /\ wpc[c] = "start" /\ arg[c] \in Works /\ arg' = [arg EXCEPT ![c] = NoWork]
        /\ \/ delay[arg[c]] = "none" /\ wpc' = [wpc EXCEPT ![c] = "stuck"] /\ delay' = delay
           \/ /\ delay[arg[c]] # "none" /\ wpc' = [wpc EXCEPT ![c] = "run"]
              /\ delay' = [delay EXCEPT ![arg[c]] = "on"]
        /\ UNCHANGED <<current, worker, handler, expired>>
    BY <1>1 DEF W!StartDelay, W!lists, Expiring
  <2>2. W!WqTypeOK' /\ W!WorkIsSeen' /\ WorkListed'
    BY <2>1 DEF W!WorkIsSeen, WorkListed
  <2>3. Timers'
    BY <2>1 DEF Timers
  <2>4. Expiring'
    BY <2>1 DEF Expiring
  <2>5. Kept'
    BY <2>1 DEF Kept, Timers
  <2>6. Undisturbed'
    <3> SUFFICES ASSUME habits = {} PROVE Undisturbed'
      BY DEF Undisturbed
    <3>1. /\ delay[arg[c]] # "none" /\ wpc' = [wpc EXCEPT ![c] = "run"]
          /\ delay' = [delay EXCEPT ![arg[c]] = "on"] /\ handler = "idle"
      BY <2>1 DEF Undisturbed
    <3>2. \A d \in Callers : wpc'[d] = "start" => arg'[d] = arg[d] /\ arg[d] \in Works /\ wpc[d] = "start"
      BY <2>1, <3>1 DEF Expiring
    <3> QED BY <2>1, <3>1, <3>2 DEF Undisturbed
  <2> QED BY <2>2, <2>3, <2>4, <2>5, <2>6
<1>2. ASSUME NEW c \in Callers, W!TakeSem(c) PROVE WorkCore'
  <2>1. /\ wpc[c] = "take" /\ wpc' = [wpc EXCEPT ![c] = "sync"]
        /\ UNCHANGED <<current, worker, handler, expired, delay, arg>>
    BY <1>2 DEF W!TakeSem, W!lists, W!flags
  <2> QED BY <2>1 DEF WorkListed, W!WorkIsSeen, Timers, Expiring, Kept, Undisturbed
<1>3. ASSUME NEW c \in Callers, NEW w \in Works, W!CancelSync(c, w) PROVE WorkCore'
  <2>1. /\ wpc[c] = "run" /\ wpc' = [wpc EXCEPT ![c] = "take"] /\ arg' = [arg EXCEPT ![c] = w]
        /\ UNCHANGED <<current, worker, handler, expired, delay>>
        /\ habits = {} => handler \in {"idle", "stuck"}
    BY <1>3 DEF W!CancelSync, W!lists, W!flags, W!Calm
  <2> QED BY <2>1 DEF WorkListed, W!WorkIsSeen, Timers, Expiring, Kept, Undisturbed
<1>8. ASSUME NEW c \in Callers, W!CancelAll(c) \/ W!DrainTest(c) PROVE WorkCore'
  <2>1. /\ wpc[c] \in {"run", "drain", "sweep"}
        /\ \E l \in {"run"} \cup W!Draining : wpc' = [wpc EXCEPT ![c] = l]
        /\ UNCHANGED <<current, worker, handler, expired, delay, arg>>
    BY <1>8 DEF W!CancelAll, W!DrainTest, W!lists, W!flags
  <2> QED BY <2>1 DEF WorkListed, W!WorkIsSeen, Timers, Expiring, Kept, Undisturbed
<1>4. CASE W!WorkReturns
  <2>1. /\ current' = NoWork /\ worker' = "ack"
        /\ UNCHANGED <<handler, expired, delay, wpc, arg>>
    BY <1>4 DEF W!WorkReturns, W!lists, W!flags
  <2> QED BY <2>1 DEF WorkListed, W!WorkIsSeen, Timers, Expiring, Kept, Undisturbed, W!WorkAssumption
<1>5. CASE W!Ack
  <2>1. /\ worker = "ack" /\ worker' = "look"
        /\ wpc' = [c \in Callers |-> IF wpc[c] = "sync" THEN "run" ELSE wpc[c]]
        /\ arg' = [c \in Callers |-> IF wpc[c] = "sync" THEN NoWork ELSE arg[c]]
        /\ UNCHANGED <<current, handler, expired, delay>>
    BY <1>5 DEF W!Ack, W!lists, W!flags
  <2> QED BY <2>1 DEF WorkListed, W!WorkIsSeen, Timers, Expiring, Kept, Undisturbed
<1>6. CASE W!HandlerRead
  <2>1. /\ handler = "read" /\ handler' = (IF expired \in bound THEN "run" ELSE "stuck")
        /\ UNCHANGED <<current, worker, expired, delay, wpc, arg>>
    BY <1>6 DEF W!HandlerRead, W!lists, W!flags
  <2> QED BY <2>1 DEF WorkListed, W!WorkIsSeen, Timers, Expiring, Kept, Undisturbed
<1>7. ASSUME NEW w \in Works, W!Expire(w) PROVE WorkCore'
  <2>1. /\ handler = "idle" /\ delay[w] = "on" /\ delay' = [delay EXCEPT ![w] = "idle"]
        /\ handler' = "read" /\ expired' = w
        /\ UNCHANGED <<current, worker, wpc, arg>>
        /\ habits = {} => \A c \in Callers : wpc[c] \notin {"start", "take"}
    BY <1>7 DEF W!Expire, W!lists, W!Calm
  <2>2. W!WqTypeOK' /\ W!WorkIsSeen' /\ WorkListed'
    BY <2>1 DEF W!WorkIsSeen, WorkListed
  <2>3. Timers' /\ Expiring'
    BY <2>1 DEF Timers, Expiring, W!WorkAssumption
  <2>4. Kept'
    BY <2>1 DEF Kept, Expiring, W!WorkAssumption
  <2>5. Undisturbed'
    BY <2>1 DEF Undisturbed, Timers
  <2> QED BY <2>2, <2>3, <2>4, <2>5
<1> QED BY <1>1, <1>2, <1>3, <1>4, <1>5, <1>6, <1>7, <1>8

\* WakeWorker: the worker is not suspended any more, or it works.
LEMMA WakeFields ==
  ASSUME W!WqTypeOK, W!WakeWorker
  PROVE  /\ worker' \in {"look", "work", "ack"}
         /\ (worker' = "work") = (current # NoWork)
BY DEF W!WakeWorker, W!WqTypeOK

\* A work goes into the list: rt_workqueue_dowork, rt_workqueue_urgent_work.
LEMMA SubmitInv ==
  ASSUME W!WorkAssumption, WorkCore, NEW w \in Works, W!Submit(w) \/ W!Urgent(w), habits' = habits
  PROVE  WorkCore'
<1> USE DEF WorkCore, W!WqTypeOK, W!Draining
<1>1. /\ delayed' = delayed \ {w}
      /\ worker' \in {"look", "work", "ack"} /\ (worker' = "work") = (current # NoWork)
      /\ UNCHANGED <<current, submitting, delay, handler, expired, wpc, arg>>
      /\ \/ /\ current # w \/ "reentrant" \in habits
            /\ ready' \in Seq(Works) /\ IsInjective(ready') /\ ToSet(ready') = ToSet(ready) \cup {w}
            /\ pending' = pending \/ (current # w /\ pending' = pending \cup {w})
            /\ bound' \in {bound, bound \cup {w}}
            /\ due' = due \cup {w}
         \/ /\ "reentrant" \in habits
            /\ ready' \in Seq(Works) /\ IsInjective(ready') /\ ToSet(ready') = ToSet(ready) \ {w}
            /\ pending' = pending \ {w} /\ bound' = bound /\ due' = due
      /\ habits = {} => w \notin submitting
  BY WakeFields, WorkLists DEF W!Submit, W!Urgent, W!MaySubmit, W!flags
<1>2. W!WqTypeOK' /\ W!WorkIsSeen'
  BY <1>1 DEF W!WorkIsSeen
<1>3. WorkListed'
  BY <1>1 DEF WorkListed
<1>4. Timers' /\ Expiring'
  BY <1>1 DEF Timers, Expiring
<1>5. Kept'
  BY <1>1 DEF Kept
<1>6. Undisturbed'
  BY <1>1 DEF Undisturbed
<1> QED BY <1>2, <1>3, <1>4, <1>5, <1>6

\* rt_workqueue_submit_work with a delay.
LEMMA SubmitDelayedInv ==
  ASSUME W!WorkAssumption, WorkCore, NEW c \in Callers, NEW w \in Works,
         W!SubmitDelayed(c, w), habits' = habits
  PROVE  WorkCore'
<1> USE DEF WorkCore, W!WqTypeOK, W!Draining
<1>1. /\ delayed' = delayed \cup {w} /\ pending' = pending \ {w}
      /\ ready' = W!Rest(w) /\ submitting' = submitting \cup {w} /\ bound' = bound \cup {w}
      /\ due' = due \cup {w} /\ UNCHANGED <<current, worker, handler, expired>>
      /\ wpc[c] = "run" /\ wpc' = [wpc EXCEPT ![c] = "start"] /\ arg' = [arg EXCEPT ![c] = w]
      /\ current # w \/ "reentrant" \in habits
      /\ habits = {} => handler \in {"idle", "stuck"}
  BY DEF W!SubmitDelayed, W!MaySubmit, W!Calm
<1>2. ready' \in Seq(Works) /\ IsInjective(ready') /\ ToSet(ready') = ToSet(ready) \ {w}
      /\ (ready = <<>> => ready' = <<>>)
  BY <1>1, WorkLists
<1>3. delay' = [delay EXCEPT ![w] = "idle"]
  BY DEF W!SubmitDelayed, Timers
<1>4. W!WqTypeOK' /\ W!WorkIsSeen'
  BY <1>1, <1>2, <1>3 DEF W!WorkIsSeen
<1>5. WorkListed'
  BY <1>1, <1>2 DEF WorkListed
<1>6. Timers' /\ Expiring'
  BY <1>1, <1>3 DEF Timers, Expiring
<1>7. Kept'
  <2> SUFFICES ASSUME "reentrant" \notin habits, NEW u \in due \cup {w}, u \notin ToSet(ready')
               PROVE  /\ u \in delayed'
                      /\ \/ delay'[u] = "on" \/ expired' = u
                         \/ \E d \in Callers : wpc'[d] = "start" /\ arg'[d] = u
    BY <1>1 DEF Kept
  <2>1. CASE u = w
    BY <1>1, <2>1
  <2>2. CASE u # w
    <3>1. u \in due /\ u \in Works /\ u \notin ToSet(ready)
      BY <1>2, <2>2
    <3>2. u \in delayed /\ (\/ delay[u] = "on" \/ expired = u
                            \/ \E d \in Callers : wpc[d] = "start" /\ arg[d] = u)
      BY <3>1 DEF Kept
    <3>3. \A d \in Callers : wpc[d] = "start" => wpc'[d] = "start" /\ arg'[d] = arg[d]
      BY <1>1
    <3> QED BY <1>1, <1>3, <2>2, <3>1, <3>2, <3>3
  <2> QED BY <2>1, <2>2
<1>8. Undisturbed'
  <2> SUFFICES ASSUME habits = {} PROVE Undisturbed'
    BY <1>1 DEF Undisturbed
  <2>1. handler = "idle"
    BY <1>1 DEF Undisturbed
  <2>2. \A d \in Callers : wpc'[d] = "start" => d = c \/ (wpc[d] = "start" /\ arg'[d] = arg[d])
    BY <1>1
  <2>3. \A d \in Callers : wpc'[d] = "start" => delay'[arg'[d]] # "none"
    BY <1>1, <1>3, <2>2 DEF Undisturbed, Expiring
  <2> QED BY <1>1, <1>2, <2>1, <2>3 DEF Undisturbed
<1> QED BY <1>4, <1>5, <1>6, <1>7, <1>8

\* _workqueue_cancel_work of some works.
LEMMA CancelWorksInv ==
  ASSUME W!WorkAssumption, WorkCore, NEW Q \in SUBSET Works, NEW rest \in Seq(Works),
         IsInjective(rest), ToSet(rest) = ToSet(ready) \ Q, ready = <<>> => rest = <<>>,
         W!CancelWorks(Q, rest), UNCHANGED <<arg, habits>>,
         wpc' \in [Callers -> {"run", "start", "take", "sync", "stuck"} \cup W!Draining],
         \A c \in Callers : wpc'[c] = "start" <=> wpc[c] = "start",
         habits = {} => /\ handler \in {"idle", "stuck"}
                        /\ \A c \in Callers : wpc'[c] \notin {"start", "stuck"}
  PROVE  WorkCore'
<1> USE DEF WorkCore, W!WqTypeOK, W!Draining
<1>1. /\ ready' = rest /\ delayed' = delayed \ Q
      /\ pending' = pending \ Q /\ submitting' = submitting \ Q /\ bound' = bound \ Q
      /\ delay' = [w \in Works |-> IF w \in Q \cap submitting THEN "none" ELSE delay[w]]
      /\ due' = due \ Q
      /\ UNCHANGED <<current, worker, handler, expired>>
  BY DEF W!CancelWorks
<1>3. W!WqTypeOK' /\ W!WorkIsSeen'
  BY <1>1 DEF W!WorkIsSeen
<1>4. WorkListed'
  BY <1>1 DEF WorkListed
<1>5. Timers' /\ Expiring'
  BY <1>1 DEF Timers, Expiring
<1>6. Kept'
  BY <1>1 DEF Kept
<1>7. Undisturbed'
  BY <1>1 DEF Undisturbed
<1> QED BY <1>3, <1>4, <1>5, <1>6, <1>7

LEMMA CancelInv ==
  ASSUME W!WorkAssumption, WorkCore, habits' = habits, NEW w \in Works, W!Cancel(w)
  PROVE  WorkCore'
<1>1. W!Calm /\ W!CancelWorks({w}, W!Rest(w)) /\ UNCHANGED <<wpc, arg>>
  BY DEF W!Cancel
<1>2. /\ W!Rest(w) \in Seq(Works) /\ IsInjective(W!Rest(w))
      /\ ToSet(W!Rest(w)) = ToSet(ready) \ {w} /\ (ready = <<>> => W!Rest(w) = <<>>)
  BY WorkLists
<1>3. habits = {} => /\ handler \in {"idle", "stuck"}
                     /\ \A c \in Callers : wpc[c] \notin {"start", "stuck"}
  BY <1>1 DEF W!Calm, WorkCore, Undisturbed, W!WqTypeOK
<1>4. wpc' \in [Callers -> {"run", "start", "take", "sync", "stuck"} \cup W!Draining]
  BY <1>1 DEF WorkCore, W!WqTypeOK
<1> QED BY <1>1, <1>2, <1>3, <1>4, CancelWorksInv

\* rt_workqueue_cancel_all_work cancels the first work of a list.
LEMMA DrainDropInv ==
  ASSUME W!WorkAssumption, WorkInv, habits' = habits, NEW c \in Callers, W!DrainDrop(c)
  PROVE  WorkCore'
<1> USE DEF W!Draining
<1>1. WorkCore /\ W!WqTypeOK
  BY DEF WorkInv, WorkCore
<1>2. /\ wpc[c] \in {"drop", "pick"} /\ arg' = arg
      /\ \E l \in {"drain", "sweep", "stuck"} : wpc' = [wpc EXCEPT ![c] = l]
  BY DEF W!DrainDrop
<1>3. habits = {} => /\ handler \in {"idle", "stuck"}
                     /\ \A d \in Callers : wpc'[d] # "start"
                     /\ \A d \in Callers : d # c => wpc'[d] # "stuck"
  BY <1>1, <1>2 DEF WorkInv, OneAtATime, Busy, WorkCore, Undisturbed, W!WqTypeOK
<1>4. /\ wpc' \in [Callers -> {"run", "start", "take", "sync", "stuck"} \cup W!Draining]
      /\ \A d \in Callers : wpc'[d] = "start" <=> wpc[d] = "start"
  BY <1>1, <1>2 DEF W!WqTypeOK
<1>5. ASSUME ready # <<>>, W!CancelWorks({Head(ready)}, Tail(ready)), wpc'[c] = "drain"
      PROVE  WorkCore'
  <2>1. /\ Head(ready) \in Works /\ Tail(ready) \in Seq(Works) /\ IsInjective(Tail(ready))
        /\ ToSet(Tail(ready)) = ToSet(ready) \ {Head(ready)}
    BY <1>1, <1>5, WorkLists
  <2> QED BY <1>1, <1>2, <1>3, <1>4, <1>5, <2>1, CancelWorksInv
<1>6. ASSUME NEW w \in delayed, W!CancelWorks({w}, W!Rest(w)), wpc'[c] = "sweep"
      PROVE  WorkCore'
  <2>1. w \in Works
    BY <1>1 DEF W!WqTypeOK
  <2>2. /\ W!Rest(w) \in Seq(Works) /\ IsInjective(W!Rest(w))
        /\ ToSet(W!Rest(w)) = ToSet(ready) \ {w} /\ (ready = <<>> => W!Rest(w) = <<>>)
    BY <1>1, <2>1, WorkLists
  <2> QED BY <1>1, <1>2, <1>3, <1>4, <1>6, <2>1, <2>2, CancelWorksInv
<1>7. ASSUME wpc'[c] = "stuck",
             UNCHANGED <<ready, delayed, current, pending, submitting, bound, delay, worker,
                         handler, expired, due>>,
             \/ wpc[c] = "drop" /\ ready = <<>>
             \/ wpc[c] = "pick" /\ delayed = {}
      PROVE  WorkCore'
  <2>1. habits # {}
    BY <1>7 DEF WorkInv, OneAtATime, W!FirstEntryExists
  <2> QED BY <1>1, <1>2, <1>4, <1>7, <2>1
          DEF WorkCore, W!WqTypeOK, WorkListed, W!WorkIsSeen, Timers, Expiring, Kept, Undisturbed
<1> QED BY <1>1, <1>2, <1>5, <1>6, <1>7 DEF W!DrainDrop, W!WqTypeOK, W!lists, W!flags

\* The worker takes the first work.
LEMMA LookInv ==
  ASSUME W!WorkAssumption, WorkCore, W!Look, habits' = habits
  PROVE  WorkCore'
<1> USE DEF WorkCore, W!WqTypeOK, W!Draining
<1>1. /\ worker = "look" /\ UNCHANGED <<delayed, submitting, delay, handler, expired, wpc, arg>>
      /\ habits = {} => /\ handler \in {"idle", "stuck"}
                        /\ \A c \in Callers : wpc[c] \notin {"start", "take"}
  BY DEF W!Look, W!Calm
<1>2. CASE ready = <<>>
  <2>1. worker' = "parked" /\ UNCHANGED <<ready, current, pending, bound, due>>
    BY <1>2 DEF W!Look
  <2> QED BY <1>1, <1>2, <2>1 DEF W!WorkIsSeen, WorkListed, Timers, Expiring, Kept, Undisturbed
<1>3. CASE ready # <<>>
  <2> DEFINE h == Head(ready)
  <2>1. /\ ready' = Tail(ready) /\ current' = h /\ pending' = pending \ {h}
        /\ bound' = bound \ {h} /\ due' = due \ {h} /\ worker' = "work"
    BY <1>3 DEF W!Look
  <2>2. /\ h \in ToSet(ready) /\ h \in Works /\ Tail(ready) \in Seq(Works)
        /\ IsInjective(Tail(ready)) /\ ToSet(Tail(ready)) = ToSet(ready) \ {h}
    BY <1>3, WorkLists
  <2> HIDE DEF h
  <2>3. /\ ready' \in Seq(Works) /\ IsInjective(ready') /\ ToSet(ready') = ToSet(ready) \ {h}
    BY <2>1, <2>2
  <2>4. W!WqTypeOK' /\ W!WorkIsSeen'
    BY <1>1, <2>1, <2>2, <2>3, h # NoWork DEF W!WorkIsSeen, W!WorkAssumption
  <2>5. WorkListed'
    BY <1>1, <2>1, <2>3 DEF WorkListed
  <2>6. Timers' /\ Expiring' /\ Kept'
    BY <1>1, <2>1, <2>3 DEF Timers, Expiring, Kept
  <2>7. Undisturbed'
    BY <1>1, <2>1, <2>2, <2>3 DEF Undisturbed
  <2> QED BY <2>4, <2>5, <2>6, <2>7
<1> QED BY <1>2, <1>3

\* _delayed_work_timeout_handler.
LEMMA HandlerRunInv ==
  ASSUME W!WorkAssumption, WorkCore, W!HandlerRun, habits' = habits
  PROVE  WorkCore'
<1> USE DEF WorkCore, W!WqTypeOK, W!Draining
<1> DEFINE e == expired
<1>1. handler = "run" /\ e \in Works /\ UNCHANGED <<current, bound, wpc, arg, due>>
  BY DEF W!HandlerRun, Expiring
<1>2. CASE delay[e] = "none"
  <2>1. handler' = "stuck" /\ UNCHANGED <<ready, delayed, pending, submitting, delay, worker, expired>>
    BY <1>2 DEF W!HandlerRun, W!lists
  <2> QED BY <1>1, <1>2, <2>1 DEF W!WorkIsSeen, WorkListed, Timers, Expiring, Kept, Undisturbed
<1>3. CASE delay[e] # "none"
  <2>1. /\ delay' = [delay EXCEPT ![e] = "none"] /\ submitting' = submitting \ {e}
        /\ delayed' = delayed \ {e} /\ handler' = "idle" /\ expired' = NoWork
        /\ \/ /\ current # e /\ ready' = Append(W!Rest(e), e) /\ pending' = pending \cup {e}
           \/ /\ current = e /\ ready' = W!Rest(e) /\ pending' = pending
        /\ W!WakeWorker
    BY <1>3 DEF W!HandlerRun
  <2>2. /\ \/ /\ current # e /\ ToSet(ready') = ToSet(ready) \cup {e} /\ pending' = pending \cup {e}
           \/ /\ current = e /\ ToSet(ready') = ToSet(ready) \ {e} /\ pending' = pending
        /\ ready' \in Seq(Works) /\ IsInjective(ready')
    BY <1>1, <2>1, WorkLists
  <2>3. worker' \in {"look", "work", "ack"} /\ (worker' = "work") = (current # NoWork)
    BY <2>1, WakeFields
  <2> HIDE DEF e
  <2>4. W!WqTypeOK' /\ W!WorkIsSeen'
    BY <1>1, <2>1, <2>2, <2>3 DEF W!WorkIsSeen
  <2>5. WorkListed'
    BY <1>1, <2>1, <2>2 DEF WorkListed
  <2>6. Timers' /\ Expiring'
    BY <1>1, <2>1 DEF Timers, Expiring
  <2>7. Kept'
    BY <1>1, <2>1, <2>2 DEF Kept, e
  <2>8. Undisturbed'
    BY <1>1, <2>1, <2>2 DEF Undisturbed
  <2> QED BY <2>4, <2>5, <2>6, <2>7, <2>8
<1> QED BY <1>2, <1>3

LEMMA WorkInitInv ==
  ASSUME W!WorkAssumption, W!WqInit
  PROVE  WorkInv
<1>1. IsInjective(<<>>) /\ ToSet(<<>>) = {}
  BY DEF IsInjective, ToSet
<1> QED BY <1>1 DEF W!WqInit, WorkInv, WorkCore, W!WqTypeOK, WorkListed, W!WorkIsSeen, Timers,
                    Expiring, Kept, Undisturbed, OneAtATime, Busy, W!Draining, W!FirstEntryExists

\* Without preemption no service begins while another one is under way, and nobody but the
\* service itself moves on then.
LEMMA AloneInv ==
  ASSUME W!WorkAssumption, WorkInv, W!WqNext
  PROVE  OneAtATime'
<1> USE DEF WorkInv, WorkCore, OneAtATime, Busy, W!Draining, W!FirstEntryExists, W!WqTypeOK
<1> SUFFICES ASSUME habits = {} PROVE OneAtATime'
  BY DEF W!WqNext
<1>1. W!Calm => \A c \in Callers : ~Busy(c)
  BY DEF W!Calm
<1>2. ASSUME NEW w \in Works, W!Submit(w) \/ W!Urgent(w) \/ W!Cancel(w) PROVE OneAtATime'
  BY <1>1, <1>2 DEF W!Submit, W!Urgent, W!Cancel, W!CancelWorks
<1>3. ASSUME NEW c \in Callers,
             \/ \E w \in Works : W!SubmitDelayed(c, w) \/ W!CancelSync(c, w)
             \/ W!CancelAll(c)
      PROVE  OneAtATime'
  <2>1. /\ \A d \in Callers : ~Busy(d)
        /\ \E l \in {"start", "take", "drain"} : wpc' = [wpc EXCEPT ![c] = l]
        /\ handler \notin {"read", "run"} /\ handler' = handler
    BY <1>1, <1>3 DEF W!SubmitDelayed, W!CancelSync, W!CancelAll, W!Calm
  <2> QED BY <2>1
<1>4. ASSUME NEW c \in Callers, W!StartDelay(c) \/ W!TakeSem(c) PROVE OneAtATime'
  <2>1. /\ Busy(c) /\ wpc[c] \notin W!Draining /\ handler' = handler
        /\ \E l \in {"stuck", "run", "sync"} : wpc' = [wpc EXCEPT ![c] = l]
    BY <1>4 DEF W!StartDelay, W!TakeSem
  <2> QED BY <2>1
<1>5. ASSUME NEW c \in Callers, W!DrainTest(c) PROVE OneAtATime'
  <2>1. /\ Busy(c) /\ UNCHANGED <<ready, delayed, handler>>
        /\ \E l \in {"run"} \cup W!Draining :
              /\ wpc' = [wpc EXCEPT ![c] = l]
              /\ (l = "drop" => ready # <<>>) /\ (l = "pick" => delayed # {})
    BY <1>5 DEF W!DrainTest, W!lists
  <2> QED BY <2>1
<1>6. ASSUME NEW c \in Callers, W!DrainDrop(c) PROVE OneAtATime'
  <2>1. /\ Busy(c) /\ handler' = handler
        /\ \E l \in {"drain", "sweep", "stuck"} : wpc' = [wpc EXCEPT ![c] = l]
    BY <1>6 DEF W!DrainDrop, W!CancelWorks
  <2>2. \A d \in Callers : d # c => ~Busy(d)
    BY <2>1
  <2> QED BY <2>1, <2>2
<1>7. CASE W!Look \/ W!WorkReturns \/ W!Ack
  <2>1. /\ \A c \in Callers : ~Busy(c) /\ wpc'[c] \in {"run", wpc[c]}
        /\ handler' = handler
    BY <1>1, <1>7 DEF W!Look, W!WorkReturns, W!Ack
  <2> QED BY <2>1
<1>8. ASSUME NEW w \in Works, W!Expire(w) PROVE OneAtATime'
  BY <1>1, <1>8 DEF W!Expire
<1>9. CASE W!HandlerRead \/ W!HandlerRun
  <2>1. handler \in {"read", "run"} /\ wpc' = wpc
    BY <1>9 DEF W!HandlerRead, W!HandlerRun
  <2> QED BY <2>1
<1> QED BY <1>2, <1>3, <1>4, <1>5, <1>6, <1>7, <1>8, <1>9
        DEF W!WqNext, W!Services, W!Proceed, W!WorkerStep, W!HandlerStep

LEMMA WorkNextInv ==
  ASSUME W!WorkAssumption, WorkInv, W!WqNext
  PROVE  WorkInv'
<1>1. habits' = habits /\ WorkCore
  BY DEF W!WqNext, WorkInv
<1>2. ASSUME NEW w \in Works, W!Submit(w) \/ W!Urgent(w) PROVE WorkCore'
  BY <1>1, <1>2, SubmitInv
<1>3. ASSUME NEW w \in Works, NEW c \in Callers, W!SubmitDelayed(c, w) PROVE WorkCore'
  BY <1>1, <1>3, SubmitDelayedInv
<1>4. ASSUME NEW w \in Works, W!Cancel(w) PROVE WorkCore'
  BY <1>1, <1>4, CancelInv
<1>5. ASSUME W!Look PROVE WorkCore'
  BY <1>1, <1>5, LookInv
<1>6. ASSUME W!HandlerRun PROVE WorkCore'
  BY <1>1, <1>6, HandlerRunInv
<1>7. ASSUME \/ \E c \in Callers : W!StartDelay(c) \/ W!TakeSem(c)
                                   \/ W!CancelAll(c) \/ W!DrainTest(c)
                                   \/ \E w \in Works : W!CancelSync(c, w)
             \/ W!WorkReturns \/ W!Ack \/ W!HandlerRead
             \/ \E w \in Works : W!Expire(w)
      PROVE  WorkCore'
  <2>1. UNCHANGED <<ready, delayed, pending, submitting, bound, due>>
    BY <1>7 DEF W!StartDelay, W!TakeSem, W!CancelSync, W!CancelAll, W!DrainTest, W!WorkReturns,
                W!Ack, W!HandlerRead, W!Expire, W!lists, W!flags
  <2> QED BY <1>1, <1>7, <2>1, QuietInv
<1>8. ASSUME NEW c \in Callers, W!DrainDrop(c) PROVE WorkCore'
  BY <1>1, <1>8, DrainDropInv
<1>9. WorkCore'
  BY <1>2, <1>3, <1>4, <1>5, <1>6, <1>7, <1>8
     DEF W!WqNext, W!Services, W!Proceed, W!WorkerStep, W!HandlerStep
<1> QED BY <1>9, AloneInv DEF WorkInv

LEMMA WorkStutter ==
  ASSUME WorkInv, UNCHANGED wVars
  PROVE  WorkInv'
BY DEF wVars, WorkInv, WorkCore, W!WqTypeOK, WorkListed, W!WorkIsSeen, Timers, Expiring, Kept,
       Undisturbed, OneAtATime, Busy, W!FirstEntryExists

LEMMA WorkInvSound ==
  ASSUME WorkInv
  PROVE  W!WqTypeOK /\ W!ListedOnce /\ W!WorkIsSeen /\ W!AcceptedIsKept /\ W!NoAssertFails
<1>1. W!ListedOnce
  BY SameLists DEF WorkInv, WorkCore, WorkListed, W!ListedOnce
<1>2. W!AcceptedIsKept
  BY SameLists DEF WorkInv, WorkCore, Kept, W!AcceptedIsKept
<1>3. W!NoAssertFails
  BY DEF WorkInv, WorkCore, Undisturbed, OneAtATime, W!NoAssertFails, W!HandlerSound, W!CallersSound
<1> QED BY <1>1, <1>2, <1>3 DEF WorkInv, WorkCore

\* workqueue.c, for any works, callers and habits: a work is in one list, once; the worker
\* is not suspended while there is work; what was accepted stays in a list until it starts
\* or is cancelled; and for callers that keep to what the code expects no RT_ASSERT fails and
\* rt_workqueue_cancel_all_work takes no list head for a work.
THEOREM WorkIsKept ==
  ASSUME W!WorkAssumption
  PROVE  W!WqSpec => [](/\ W!WqTypeOK /\ W!ListedOnce /\ W!WorkIsSeen
                        /\ W!AcceptedIsKept /\ W!NoAssertFails)
<1>1. W!WqInit => WorkInv
  BY WorkInitInv
<1>2. WorkInv /\ [W!WqNext]_<<W!wqVars, habits>> => WorkInv'
  BY WorkNextInv, WorkStutter DEF wVars, W!wqVars, W!lists, W!flags, W!threads
<1>3. WorkInv => /\ W!WqTypeOK /\ W!ListedOnce /\ W!WorkIsSeen
                 /\ W!AcceptedIsKept /\ W!NoAssertFails
  BY WorkInvSound
<1> QED BY <1>1, <1>2, <1>3, PTL DEF W!WqSpec

-----------------------------------------------------------------------------
(* Drivers.                                                                *)

\* A behaviour of all the parts is a behaviour of each.
LEMMA PartsSpecs ==
  DriversSpec => Spec /\ C!Spec /\ S!Spec /\ W!WqSpec
<1>1. DriversInit => Init /\ C!Init /\ S!Init /\ W!WqInit
  BY DEF DriversInit
<1>2. [DriversNext]_allVars => /\ [Next]_<<vars, stream>> /\ [C!Next]_(C!vars)
                               /\ [S!Next]_(S!vars) /\ [W!WqNext]_<<W!wqVars, habits>>
  <2>1. InWaitQueue(P!WqNext) \/ InPipe(P!PipeNext) \/ UNCHANGED allVars =>
          UNCHANGED <<tVars, cVars, sVars, wVars>>
    BY DEF InWaitQueue, InPipe, allVars
  <2>2. InCompletion(C!Next) => C!Next /\ UNCHANGED <<tVars, sVars, wVars>>
    BY DEF InCompletion
  <2>3. InSerial(Next) => Next /\ UNCHANGED <<cVars, sVars, wVars>>
    BY DEF InSerial
  <2>4. InConsole(S!Next) => S!Next /\ UNCHANGED <<cVars, tVars, wVars>>
    BY DEF InConsole
  <2>5. InWork(W!WqNext) => W!WqNext /\ UNCHANGED <<cVars, tVars, sVars>>
    BY DEF InWork
  <2>6. /\ UNCHANGED tVars => UNCHANGED <<vars, stream>>
        /\ UNCHANGED cVars => UNCHANGED C!vars
        /\ UNCHANGED sVars => UNCHANGED S!vars
        /\ UNCHANGED wVars => UNCHANGED <<W!wqVars, habits>>
    BY DEF tVars, cVars, sVars, wVars, C!vars, S!vars, S!devVars, S!shellVars,
           W!wqVars, W!lists, W!flags, W!threads
  <2>7. [DriversNext]_allVars =>
          \/ InWaitQueue(P!WqNext) \/ InPipe(P!PipeNext) \/ UNCHANGED allVars
          \/ InCompletion(C!Next) \/ InSerial(Next) \/ InConsole(S!Next) \/ InWork(W!WqNext)
    BY DEF DriversNext
  <2> QED BY <2>1, <2>2, <2>3, <2>4, <2>5, <2>6, <2>7, Zenon
<1> QED BY <1>1, <1>2, PTL DEF DriversSpec, Spec, C!Spec, S!Spec, W!WqSpec

\* The wait queue is used by the pipe or by others.
WaitParts ==
  /\ part \in {"waitqueue", "pipe", "completion", "serial", "console", "work"}
  /\ WaitInv /\ (part = "pipe" => PipeIInv)

LEMMA WaitPartsStay ==
  DriversSpec => []WaitParts
<1> USE PartsAssumption
<1>1. DriversInit => WaitParts
  BY WaitInitInv, PipeInitInv DEF DriversInit, WaitParts, P!PipeInit
<1>2. WaitParts /\ [DriversNext]_allVars => WaitParts'
  <2> SUFFICES ASSUME WaitParts, [DriversNext]_allVars PROVE WaitParts'
    OBVIOUS
  <2>1. CASE InWaitQueue(P!WqNext)
    BY <2>1, WaitNextInv DEF InWaitQueue, WaitParts
  <2>2. CASE InPipe(P!PipeNext)
    <3>1. PipeIInv' /\ part' = part /\ part = "pipe"
      BY <2>2, PipeNextInv DEF InPipe, WaitParts
    <3> QED BY <3>1 DEF WaitParts, PipeIInv, PipeInv
  <2>3. CASE UNCHANGED <<part, pVars>>
    <3>1. UNCHANGED P!wqVars /\ UNCHANGED <<P!wqVars, pipeVars>> /\ part' = part
      BY <2>3 DEF pVars, P!wqVars, pipeVars
    <3> QED BY <3>1, WaitInvStutter, PipeStutter DEF WaitParts
  <2> QED BY <2>1, <2>2, <2>3
          DEF DriversNext, InCompletion, InSerial, InConsole, InWork, allVars
<1> QED BY <1>1, <1>2, PTL DEF DriversSpec

\* The types of all drivers; the nodes of rt_wqueue_wait; the interrupt of a closed
\* device; and the lists, the promises and the assertions of the work queue.
THEOREM DriversAreSound ==
  ASSUME OneWriter, InterruptModes
  PROVE  DriversSpec => []DriversSound
<1> USE PartsAssumption
<1>1. WaitParts => /\ P!WqTypeOK /\ P!NodesLive /\ (part = "pipe" => P!PipeTypeOK)
                   /\ part \in {"waitqueue", "pipe", "completion", "serial", "console", "work"}
  BY WaitInvIsLive, PipeInvSound DEF WaitParts, WaitInv
<1>2. /\ P!WqTypeOK /\ P!NodesLive /\ (part = "pipe" => P!PipeTypeOK)
      /\ part \in {"waitqueue", "pipe", "completion", "serial", "console", "work"}
      /\ C!TypeOK /\ TypeOK /\ S!TypeOK /\ W!WqTypeOK
      => TypeOfPart
  BY Zenon DEF TypeOfPart
<1>3. Spec => []TypeOK
  BY OutputGoesOn, PTL
<1>4. C!Spec => []C!TypeOK
  BY CompletionHeard, PTL
<1>5. S!Spec => [](S!TypeOK /\ S!ClosedIsQuiet)
  BY ConsoleHears, PTL
<1>6. W!WqSpec => [](W!WqTypeOK /\ W!ListedOnce /\ W!AcceptedIsKept /\ W!NoAssertFails)
  BY WorkIsKept, PTL
<1> QED BY <1>1, <1>2, <1>3, <1>4, <1>5, <1>6, PartsSpecs, WaitPartsStay, PTL DEF DriversSound

\* No lost wakeup in any driver, between one reader and one writer of a pipe, for one
\* writer of the serial device at a time.
THEOREM NobodyOversleeps ==
  ASSUME Single("reader"), Single("writer"), OneWriter, InterruptModes
  PROVE  DriversSpec => []NobodySleepsInVain
<1> USE PartsAssumption
<1>1. WaitParts => (part = "pipe" => P!SleepersAreTold)
  BY PipeInvSound DEF WaitParts
<1>2. /\ (part = "pipe" => P!SleepersAreTold)
      /\ C!NoneSleepsThrough /\ InterruptToCome /\ S!NoMissedInput /\ W!WorkIsSeen
      => NobodySleepsInVain
  BY Zenon DEF NobodySleepsInVain
<1>3. Spec => []InterruptToCome
  BY OutputGoesOn, PTL
<1>4. C!Spec => []C!NoneSleepsThrough
  BY CompletionHeard, PTL
<1>5. S!Spec => []S!NoMissedInput
  BY ConsoleHears, PTL
<1>6. W!WqSpec => []W!WorkIsSeen
  BY WorkIsKept, PTL
<1> QED BY <1>1, <1>2, <1>3, <1>4, <1>5, <1>6, PartsSpecs, WaitPartsStay, PTL

\* What the steps of the parts may do, wherever the parts are used: RT_EOK of
\* rt_completion_wait, the console's ring, and the completion of serial.c.
THEOREM DriversKeepWord ==
  ASSUME Alone, OneWriter, InterruptModes
  PROVE  DriversSpec => OkMeansDone /\ NewestKept /\ SignalSpec
<1> USE PartsAssumption
<1>1. Spec => SignalSpec
  BY UsesCompletion
<1>2. C!Spec => C!OkMeansDone
  BY OkOnlyOnce
<1>3. S!Spec => S!NewestKept
  BY RingKeepsNewest
<1> QED BY <1>1, <1>2, <1>3, PartsSpecs, PTL DEF OkMeansDone, NewestKept
=============================================================================
