---------------------------- MODULE TimerProofs -----------------------------
(***************************************************************************)
(* Theorems about SoftTimer and HardTimer, for every set of timers, every  *)
(* width of the tick and every set of periods: the machine word            *)
(* timeout_tick stands for the time a timer has still to run, a list is in *)
(* the order of the timeouts, what is active is linked, nothing fires      *)
(* early, the timer thread neither parks while there is a timer nor sleeps *)
(* past the first one, and the tick interrupt leaves nothing that is due.  *)
(***************************************************************************)
EXTENDS Services, ListProofs

-----------------------------------------------------------------------------
(* Ticks that wrap around at W.                                            *)

\* Division leaves a remainder.
LEMMA Divided ==
  ASSUME NEW a \in Int, NEW m \in Nat \ {0}
  PROVE  \E d \in Int, r \in 0 .. m - 1 : a = m * d + r /\ r = a % m
<1>1. a % m \in 0 .. m - 1 /\ a = m * (a \div m) + (a % m) /\ a \div m \in Int
  OBVIOUS
<1> QED BY <1>1

\* Division leaves one remainder.
LEMMA Remainder ==
  ASSUME NEW a \in Int, NEW m \in Nat \ {0}, NEW d \in Int, NEW r \in 0 .. m - 1,
         a = m * d + r
  PROVE  a % m = r
<1>1. PICK e \in Int, s \in 0 .. m - 1 : a = m * e + s /\ s = a % m
  BY Divided
<1>2. m * (d - e) = s - r
  BY <1>1
<1>3. ASSUME NEW x \in Int, m * x < m, -m < m * x PROVE x = 0
  BY <1>3
<1>4. m * (d - e) < m /\ -m < m * (d - e)
  BY <1>1, <1>2
<1>5. d - e = 0
  BY <1>3, <1>4
<1>6. s - r = m * 0
  BY <1>2, <1>5
<1>7. s = r
  BY <1>6
<1> QED BY <1>1, <1>7

\* The difference of two words, as a word, is that of the numbers they stand for.
LEMMA Difference ==
  ASSUME NEW x \in Int, NEW y \in Int, NEW m \in Nat \ {0}
  PROVE  ((x % m) - (y % m)) % m = (x - y) % m
<1>1. PICK c \in Int, r \in 0 .. m - 1 : x = m * c + r /\ r = x % m
  BY Divided
<1>2. PICK d \in Int, s \in 0 .. m - 1 : y = m * d + s /\ s = y % m
  BY Divided
<1>3. r - s \in Int
  OBVIOUS
<1>4. PICK q \in Int, z \in 0 .. m - 1 : r - s = m * q + z /\ z = (r - s) % m
  BY <1>3, Divided
<1>5. x - y = m * (c - d + q) + z
  <2>1. ASSUME NEW v \in Int, NEW w \in Int, x = v + r, y = w + s
        PROVE  x - y = (v - w) + (r - s)
    BY <2>1
  <2>2. m * c \in Int /\ m * d \in Int
    OBVIOUS
  <2>3. x = m * c + r /\ y = m * d + s
    BY <1>1, <1>2
  <2>4. x - y = (m * c - m * d) + (r - s)
    BY <2>1, <2>2, <2>3
  <2>5. m * (c - d + q) = (m * c - m * d) + m * q
    OBVIOUS
  <2>6. ASSUME NEW f \in Int, NEW g \in Int, x - y = f + (r - s), r - s = g + z
        PROVE  x - y = (f + g) + z
    BY <2>6
  <2>7. m * c - m * d \in Int /\ m * q \in Int
    OBVIOUS
  <2>8. r - s = m * q + z
    BY <1>4
  <2>9. x - y = ((m * c - m * d) + m * q) + z
    BY <2>4, <2>6, <2>7, <2>8
  <2> QED BY <2>5, <2>9
<1>6. x - y \in Int /\ c - d + q \in Int
  OBVIOUS
<1>7. (x - y) % m = z
  BY <1>5, <1>6, Remainder
<1>8. (x % m) - (y % m) = r - s
  BY <1>1, <1>2
<1> QED BY <1>4, <1>7, <1>8

\* One turn of the counter makes no difference.
LEMMA OneTurn ==
  ASSUME NEW a \in Int, NEW m \in Nat \ {0}
  PROVE  (a + m) % m = a % m
<1>1. PICK d \in Int, r \in 0 .. m - 1 : a = m * d + r
  BY Divided
<1>2. a + m = m * (d + 1) + r /\ d + 1 \in Int
  BY <1>1
<1>3. a % m = r
  BY <1>1, Remainder
<1>4. (a + m) % m = r
  BY <1>1, <1>2, Remainder
<1> QED BY <1>3, <1>4

\* A tick within the first turn, or the one before it or after it.
LEMMA NearTicks ==
  ASSUME NEW a \in Int
  PROVE  /\ 0 <= a /\ a < W => a % W = a
         /\ W <= a /\ a < 2 * W => a % W = a - W
         /\ -W <= a /\ a < 0 => a % W = a + W
         /\ a % W \in 0 .. W - 1
<1> W \in Nat \ {0}
  BY TimerAssumption
<1>1. ASSUME 0 <= a, a < W PROVE a % W = a
  BY <1>1, Remainder, a = W * 0 + a
<1>2. ASSUME W <= a, a < 2 * W PROVE a % W = a - W
  BY <1>2, Remainder, a = W * 1 + (a - W)
<1>3. ASSUME -W <= a, a < 0 PROVE a % W = a + W
  BY <1>3, Remainder, a = W * (-1) + (a + W)
<1>4. a % W \in 0 .. W - 1
  OBVIOUS
<1> QED BY <1>1, <1>2, <1>3, <1>4

\* RT_TICK_MAX / 2 is less than half of a turn.
LEMMA HalfTurn == HALF \in Nat /\ 2 * HALF < W
BY TimerAssumption DEF HALF

-----------------------------------------------------------------------------
(* Timer lists.                                                            *)

Fields == [live : BOOLEAN, active : BOOLEAN, periodic : BOOLEAN,
           init : Times \cup {0}, timeout : Ticks]

\* A linked timer has less than RT_TICK_MAX / 2 to run, and its timeout_tick is the
\* tick at which that time is over, however often the tick has wrapped around.
Deadline(t) == left[t] < HALF /\ tm[t].timeout = (tick + left[t]) % W

\* What the timer lists keep between any two critical sections: what is linked is
\* active, and linked once; the timer whose timeout function is called is unlinked.
TimersInv ==
  /\ TimersTypeOK
  /\ IsInjective(list) /\ IsInjective(order) /\ ToSet(order) = ToSet(list)
  /\ temp \notin ToSet(list)
  /\ temp # NoTimer => tm[temp].live
  /\ \A t \in Timers : tm[t].active => tm[t].live
  /\ \A t \in Timers : tm[t].live => tm[t].init \in Times
  /\ \A t \in ToSet(list) : tm[t].active /\ Deadline(t)

\* current_tick - timeout_tick < RT_TICK_MAX / 2: only when no time is left.
LEMMA ReachedOnTime ==
  ASSUME NEW t \in Timers, left \in [Timers -> Int], tick \in Ticks, Deadline(t),
         Reached(tick, tm[t].timeout)
  PROVE  left[t] <= 0
<1>1. tick \in 0 .. W - 1 /\ left[t] \in Int /\ left[t] < HALF /\ W \in Nat \ {0}
  BY TimerAssumption DEF Ticks, Deadline
<1>2. ASSUME left[t] > 0 PROVE FALSE
  <2>1. PICK e \in Int : e = tick + left[t]
    BY <1>1
  <2>2. e % W = e \/ e % W = e - W
    BY <1>1, <1>2, <2>1, HalfTurn, NearTicks
  <2>3. PICK d \in Int : d = tick - (e % W)
    BY <1>1, <2>1, <2>2
  <2>4. d = -left[t] \/ d = W - left[t]
    BY <1>1, <2>1, <2>2, <2>3
  <2>5. d % W = W - left[t]
    <3>1. /\ 0 <= d /\ d < W => d % W = d
          /\ -W <= d /\ d < 0 => d % W = d + W
      BY NearTicks
    <3>2. 0 < left[t] /\ left[t] < W
      BY <1>1, <1>2, HalfTurn
    <3> QED BY <1>1, <2>4, <3>1, <3>2
  <2>6. d % W < HALF
    BY <2>1, <2>3 DEF Reached, Deadline
  <2> QED BY <1>1, <2>5, <2>6, HalfTurn
<1> QED BY <1>1, <1>2

\* _timer_remove leaves a list without the timer.
LEMMA Unlinked ==
  ASSUME TimersInv, NEW t
  PROVE  /\ Without(list, t) \in Seq(Timers) /\ Without(order, t) \in Seq(Timers)
         /\ IsInjective(Without(list, t)) /\ IsInjective(Without(order, t))
         /\ ToSet(Without(list, t)) = ToSet(list) \ {t}
         /\ ToSet(Without(order, t)) = ToSet(list) \ {t}
BY RemoveFirstProps DEF TimersInv, TimersTypeOK, Without

\* The place for a timer is before the first one that is later, or behind them all.
LEMMA PlaceInList ==
  ASSUME NEW s \in Seq(Timers), NEW timeout
  PROVE  /\ Place(s, timeout) \in 1 .. Len(s) + 1
         /\ \A n \in 1 .. Len(s) :
               n < Place(s, timeout) => ~Later(tm[s[n]].timeout, timeout)
         /\ \A n \in 1 .. Len(s) :
               n = Place(s, timeout) => Later(tm[s[n]].timeout, timeout)
<1> DEFINE places == {i \in 1 .. Len(s) : Later(tm[s[i]].timeout, timeout)} \cup {Len(s) + 1}
<1>1. places \subseteq Nat /\ places # {} /\ places \subseteq 1 .. Len(s) + 1
  OBVIOUS
<1>2. Min(places) \in places /\ \A y \in places : Min(places) <= y
  BY <1>1, MinProps
<1>3. PICK p \in 1 .. Len(s) + 1 : p = Min(places) /\ p \in places
  BY <1>1, <1>2
<1>4. ASSUME NEW n \in 1 .. Len(s), n < p PROVE ~Later(tm[s[n]].timeout, timeout)
  <2>1. ASSUME n \in places PROVE p <= n
    BY <1>2, <1>3, <2>1, Zenon
  <2>2. ~(p <= n)
    BY <1>4
  <2> QED BY <2>1, <2>2
<1>5. \A n \in 1 .. Len(s) : n = p => Later(tm[s[n]].timeout, timeout)
  BY <1>3
<1> QED BY <1>3, <1>4, <1>5 DEF Place

\* rt_timer_start
LEMMA StartSound ==
  ASSUME TimersInv, NEW t \in Timers, tm[t].live, StartTimer(t), tick' = tick
  PROVE  /\ TimersInv' /\ ToSet(list)' = ToSet(list) \cup {t}
         /\ tm[t].init \in Times /\ left'[t] = tm[t].init
         /\ \A u \in Timers : u # t => tm'[u] = tm[u] /\ left'[u] = left[u]
         /\ temp' = IF temp = t THEN NoTimer ELSE temp
<1> DEFINE rest    == Without(list, t)
           timeout == (tick + tm[t].init) % W
           place   == Place(rest, timeout)
<1>1. /\ tm' = [tm EXCEPT ![t].active = TRUE, ![t].timeout = timeout]
      /\ list' = InsertAt(rest, place, t)
      /\ temp' = IF temp = t THEN NoTimer ELSE temp
      /\ left' = [left EXCEPT ![t] = tm[t].init]
      /\ order' = Append(Without(order, t), t)
  BY DEF StartTimer
<1>2. tm \in [Timers -> Fields] /\ tick \in 0 .. W - 1 /\ left \in [Timers -> Int]
      /\ temp \in Timers \cup {NoTimer}
  BY DEF TimersInv, TimersTypeOK, Fields, Ticks
<1>3. tm[t].init \in Times /\ tm[t].init \in 0 .. HALF - 1 /\ tm[t].init \in Int
  <2>1. tm[t].init \in Times /\ Times \subseteq 0 .. HALF - 1
    BY TimerAssumption DEF TimersInv
  <2>2. tm[t].init \in 0 .. HALF - 1
    BY <2>1, Zenon
  <2>3. tm[t].init \in Int
    BY <2>2, HalfTurn
  <2> QED BY <2>1, <2>2, <2>3
<1>4. timeout \in Ticks
  <2>1. tick + tm[t].init \in Int /\ W \in Nat \ {0}
    BY <1>2, <1>3, TimerAssumption
  <2> QED BY <2>1, NearTicks DEF Ticks
<1>5. tm' \in [Timers -> Fields]
  BY <1>1, <1>2, <1>4 DEF Fields
<1>6. /\ list' \in Seq(Timers) /\ IsInjective(list') /\ ToSet(list') = ToSet(list) \cup {t}
  <2>1. place \in 1 .. Len(rest) + 1
    BY Unlinked, PlaceInList
  <2>2. rest \in Seq(Timers) /\ IsInjective(rest) /\ t \notin ToSet(rest)
        /\ ToSet(rest) = ToSet(list) \ {t}
    BY Unlinked
  <2> HIDE DEF rest, place
  <2>3. /\ InsertAt(rest, place, t) \in Seq(Timers)
        /\ ToSet(InsertAt(rest, place, t)) = ToSet(rest) \cup {t}
        /\ IsInjective(InsertAt(rest, place, t))
    BY <2>1, <2>2, InsertAtProps
  <2> QED BY <1>1, <2>2, <2>3
<1>7. order' \in Seq(Timers) /\ IsInjective(order') /\ ToSet(order') = ToSet(list) \cup {t}
  BY <1>1, Unlinked, AppendProps
<1> HIDE DEF rest, place
<1>8. \A u \in Timers : u # t => tm'[u] = tm[u] /\ left'[u] = left[u]
  BY <1>1, <1>2
<1>9. /\ tm'[t].active /\ tm'[t].live /\ tm'[t].init = tm[t].init
      /\ tm'[t].timeout = timeout /\ left'[t] = tm[t].init
  BY <1>1, <1>2 DEF Fields
<1>10. left' \in [Timers -> Int] /\ temp' \in Timers \cup {NoTimer}
       /\ (temp' = NoTimer \/ temp' = temp) /\ temp' # t
  BY <1>1, <1>2, <1>3, TimerAssumption
<1> HIDE DEF timeout
<1>11. TimersTypeOK'
  BY <1>2, <1>4, <1>5, <1>6, <1>7, <1>10 DEF TimersTypeOK, Fields, Ticks
<1>12. \A u \in ToSet(list') : tm'[u].active /\ Deadline(u)'
  <2>1. ASSUME NEW u \in ToSet(list), u # t PROVE tm'[u].active /\ Deadline(u)'
    <3>1. u \in Timers
      BY ElementsIn DEF TimersInv, TimersTypeOK
    <3>2. tm[u].active /\ Deadline(u)
      BY DEF TimersInv
    <3> QED BY <1>8, <2>1, <3>1, <3>2 DEF Deadline
  <2>2. tm'[t].active /\ Deadline(t)'
    <3>1. left'[t] < HALF
      BY <1>3, <1>9, HalfTurn
    <3> QED BY <1>9, <3>1 DEF Deadline, timeout
  <2> QED BY <1>6, <2>1, <2>2
<1>13. \A u \in Timers : /\ tm'[u].active => tm'[u].live
                         /\ tm'[u].live => tm'[u].init \in Times
  BY <1>3, <1>8, <1>9 DEF TimersInv
<1>14. temp' \notin ToSet(list') /\ (temp' # NoTimer => tm'[temp'].live)
  <2>1. CASE temp' = NoTimer
    <3>1. ToSet(list') \subseteq Timers
      BY <1>6, ElementsIn
    <3> QED BY <2>1, <3>1, TimerAssumption
  <2>2. CASE temp' = temp /\ temp # NoTimer
    BY <1>2, <1>6, <1>8, <1>10, <2>2 DEF TimersInv
  <2> QED BY <1>10, <2>1, <2>2
<1>15. TimersInv'
  BY <1>6, <1>7, <1>11, <1>12, <1>13, <1>14 DEF TimersInv
<1> QED BY <1>1, <1>3, <1>6, <1>8, <1>9, <1>15

\* A timer is unlinked, whatever becomes of its fields.
LEMMA UnlinkSound ==
  ASSUME TimersInv, NEW t \in Timers, tick' = tick,
         list' = Without(list, t), order' = Without(order, t), left' = [left EXCEPT ![t] = 0],
         tm' \in [Timers -> Fields], \A u \in Timers : u # t => tm'[u] = tm[u],
         tm'[t].active => tm'[t].live, tm'[t].live => tm'[t].init \in Times,
         temp' \in Timers \cup {NoTimer}, temp' \notin ToSet(list) \ {t},
         temp' # NoTimer => tm'[temp'].live
  PROVE  TimersInv' /\ ToSet(list)' = ToSet(list) \ {t}
<1>1. /\ list' \in Seq(Timers) /\ IsInjective(list') /\ ToSet(list') = ToSet(list) \ {t}
      /\ order' \in Seq(Timers) /\ IsInjective(order') /\ ToSet(order') = ToSet(list) \ {t}
  BY Unlinked
<1>2. left' \in [Timers -> Int] /\ \A u \in Timers : u # t => left'[u] = left[u]
  BY DEF TimersInv, TimersTypeOK
<1>3. TimersTypeOK'
  BY <1>1, <1>2 DEF TimersInv, TimersTypeOK, Fields, Ticks
<1>4. ASSUME NEW u \in ToSet(list), u # t PROVE tm'[u].active /\ Deadline(u)'
  <2>1. u \in Timers
    BY ElementsIn DEF TimersInv, TimersTypeOK
  <2>2. tm[u].active /\ Deadline(u)
    BY DEF TimersInv
  <2> QED BY <1>2, <1>4, <2>1, <2>2 DEF Deadline
<1>5. \A u \in ToSet(list') : tm'[u].active /\ Deadline(u)'
  BY <1>1, <1>4
<1>6. \A u \in Timers : /\ tm'[u].active => tm'[u].live
                        /\ tm'[u].live => tm'[u].init \in Times
  BY DEF TimersInv
<1>7. temp' \notin ToSet(list')
  BY <1>1
<1> QED BY <1>1, <1>3, <1>5, <1>6, <1>7 DEF TimersInv

\* The fields of a timer change, but not those that a linked timer depends on.
LEMMA FieldsSound ==
  ASSUME TimersInv, NEW t \in Timers, UNCHANGED <<list, temp, tick, left, order>>,
         tm' \in [Timers -> Fields], \A u \in Timers : u # t => tm'[u] = tm[u],
         tm'[t].active = tm[t].active,
         tm'[t].timeout = tm[t].timeout \/ t \notin ToSet(list),
         tm[t].live => tm'[t].live, tm'[t].live => tm'[t].init \in Times
  PROVE  TimersInv'
<1>1. TimersTypeOK'
  BY DEF TimersInv, TimersTypeOK, Fields, Ticks
<1>2. ASSUME NEW u \in ToSet(list) PROVE tm'[u].active /\ Deadline(u)'
  <2>1. u \in Timers
    BY ElementsIn DEF TimersInv, TimersTypeOK
  <2>2. tm[u].active /\ Deadline(u)
    BY DEF TimersInv
  <2> QED BY <2>1, <2>2 DEF Deadline
<1>3. \A u \in Timers : /\ tm'[u].active => tm'[u].live
                        /\ tm'[u].live => tm'[u].init \in Times
  BY DEF TimersInv
<1>4. temp' # NoTimer => tm'[temp'].live
  BY DEF TimersInv, TimersTypeOK
<1> QED BY <1>1, <1>2, <1>3, <1>4 DEF TimersInv

\* A deadline stays where it is while the tick moves towards it.
LEMMA SameTimeout ==
  ASSUME tick \in 0 .. W - 1, NEW n \in Int, tick' = (tick + 1) % W
  PROVE  (tick' + (n - 1)) % W = (tick + n) % W
<1>1. tick' = IF tick = W - 1 THEN 0 ELSE tick + 1
  <2>1. PICK e \in Int : e = tick + 1 /\ 0 < e /\ e <= W
    BY TimerAssumption
  <2>2. e % W = IF e = W THEN 0 ELSE e
    BY TimerAssumption, <2>1, NearTicks
  <2> QED BY TimerAssumption, <2>1, <2>2
<1>2. CASE tick = W - 1
  <2>1. tick + n = (n - 1) + W /\ tick' + (n - 1) = n - 1 /\ n - 1 \in Int
    BY <1>1, <1>2, TimerAssumption
  <2> QED BY <2>1, OneTurn, TimerAssumption
<1>3. CASE tick # W - 1
  <2>1. tick' + (n - 1) = tick + n
    BY <1>1, <1>3
  <2> QED BY <2>1
<1> QED BY <1>2, <1>3

\* One tick goes by: every linked timer has one tick less to run, and the tick at
\* which it expires stays the same.
LEMMA AdvanceSound ==
  ASSUME TimersInv, Advance, UNCHANGED <<tm, list, temp, order>>
  PROVE  TimersInv'
<1>1. tick \in 0 .. W - 1 /\ left \in [Timers -> Int] /\ ToSet(list) \subseteq Timers
  BY ElementsIn DEF TimersInv, TimersTypeOK, Ticks
<1>2. W \in Nat \ {0}
  BY TimerAssumption
<1>3. tick' \in Ticks
  <2>1. PICK e \in Int : e = tick + 1
    BY <1>1
  <2>2. e % W \in 0 .. W - 1
    BY <1>2, <2>1
  <2> QED BY <2>1, <2>2 DEF Advance, Ticks
<1>4. /\ left' \in [Timers -> Int]
      /\ \A u \in ToSet(list) : left'[u] = left[u] - 1
  BY <1>1 DEF Advance
<1>5. TimersTypeOK'
  BY <1>3, <1>4 DEF TimersInv, TimersTypeOK, Ticks
<1>6. ASSUME NEW u \in ToSet(list) PROVE Deadline(u)'
  <2>1. left[u] < HALF /\ tm[u].timeout = (tick + left[u]) % W /\ left[u] \in Int
    BY <1>1 DEF TimersInv, Deadline
  <2>2. left'[u] < HALF
    BY <1>4, <2>1, HalfTurn
  <2>3. (tick' + (left[u] - 1)) % W = (tick + left[u]) % W
    BY <1>1, <2>1, SameTimeout DEF Advance
  <2> QED BY <1>4, <2>1, <2>2, <2>3 DEF Deadline
<1> QED BY <1>5, <1>6 DEF TimersInv

\* What becomes of the lists when timers are unlinked only.
Removed(t) ==
  /\ list' = Without(list, t) /\ order' = Without(order, t)
  /\ left' = [left EXCEPT ![t] = 0]

\* rt_timer_stop
LEMMA StopSound ==
  ASSUME TimersInv, NEW t \in Timers, StopTimer(t), tick' = tick
  PROVE  /\ TimersInv' /\ Removed(t) /\ ToSet(list)' = ToSet(list) \ {t}
         /\ ~tm'[t].active
         /\ \A u \in Timers : /\ u # t => tm'[u].active = tm[u].active
                              /\ tm'[u].periodic = tm[u].periodic
<1>1. /\ tm' = [tm EXCEPT ![t].active = FALSE, ![t].timeout = 0]
      /\ temp' = IF temp = t THEN NoTimer ELSE temp
      /\ Removed(t)
  BY DEF StopTimer, UnlinkTimer, Removed
<1>2. tm \in [Timers -> Fields] /\ 0 \in Ticks
  BY TimerAssumption DEF TimersInv, TimersTypeOK, Fields, Ticks
<1>3. /\ tm' \in [Timers -> Fields] /\ \A u \in Timers : u # t => tm'[u] = tm[u]
      /\ tm'[t].active = FALSE /\ tm'[t].live = tm[t].live /\ tm'[t].init = tm[t].init
      /\ tm'[t].periodic = tm[t].periodic
  BY <1>1, <1>2 DEF Fields
<1>4. tm'[t].live => tm'[t].init \in Times
  BY <1>3 DEF TimersInv
<1>5. /\ temp' \in Timers \cup {NoTimer} /\ temp' \notin ToSet(list) \ {t}
      /\ temp' # NoTimer => tm'[temp'].live
  <2>1. temp \in Timers \cup {NoTimer} /\ temp \notin ToSet(list)
        /\ (temp # NoTimer => tm[temp].live)
    BY DEF TimersInv, TimersTypeOK
  <2>2. NoTimer \notin ToSet(list)
    BY ElementsIn, TimerAssumption DEF TimersInv, TimersTypeOK
  <2> QED BY <1>1, <1>3, <2>1, <2>2
<1>6. TimersInv' /\ ToSet(list)' = ToSet(list) \ {t}
  BY <1>1, <1>3, <1>4, <1>5, UnlinkSound DEF Removed
<1>7. \A u \in Timers : /\ u # t => tm'[u].active = tm[u].active
                        /\ tm'[u].periodic = tm[u].periodic
  BY <1>3
<1> QED BY <1>1, <1>3, <1>6, <1>7

\* rt_timer_detach, rt_timer_delete
LEMMA DetachSound ==
  ASSUME TimersInv, NEW t \in Timers, DetachTimer(t), tick' = tick
  PROVE  /\ TimersInv' /\ Removed(t) /\ ToSet(list)' = ToSet(list) \ {t}
         /\ ~tm'[t].active /\ \A u \in Timers : u # t => tm'[u] = tm[u]
<1>1. /\ tm' = [tm EXCEPT ![t] = NoFields]
      /\ temp' = IF temp = t THEN NoTimer ELSE temp
      /\ Removed(t)
  BY DEF DetachTimer, Removed
<1>2. tm \in [Timers -> Fields] /\ NoFields \in Fields /\ ~NoFields.active /\ ~NoFields.live
  BY TimerAssumption DEF TimersInv, TimersTypeOK, Fields, NoFields, Ticks
<1>3. /\ tm' \in [Timers -> Fields] /\ \A u \in Timers : u # t => tm'[u] = tm[u]
      /\ ~tm'[t].active /\ ~tm'[t].live
  BY <1>1, <1>2
<1>4. /\ temp' \in Timers \cup {NoTimer} /\ temp' \notin ToSet(list) \ {t}
      /\ temp' # NoTimer => tm'[temp'].live
  <2>1. temp \in Timers \cup {NoTimer} /\ temp \notin ToSet(list)
        /\ (temp # NoTimer => tm[temp].live)
    BY DEF TimersInv, TimersTypeOK
  <2>2. NoTimer \notin ToSet(list)
    BY ElementsIn, TimerAssumption DEF TimersInv, TimersTypeOK
  <2> QED BY <1>1, <1>3, <2>1, <2>2
<1>5. TimersInv' /\ ToSet(list)' = ToSet(list) \ {t}
  BY <1>1, <1>3, <1>4, UnlinkSound DEF Removed
<1> QED BY <1>1, <1>3, <1>5

\* rt_timer_init, rt_timer_create: a timer that is not an object is not linked.
LEMMA InitSound ==
  ASSUME TimersInv, NEW t \in Timers, NEW time \in Times, NEW periodic \in BOOLEAN,
         InitTimer(t, time, periodic), tick' = tick
  PROVE  /\ TimersInv' /\ t \notin ToSet(list) /\ t # temp
         /\ \A u \in Timers : /\ tm'[u].active = tm[u].active
                              /\ u # t => tm'[u].periodic = tm[u].periodic
<1> DEFINE f == [live |-> TRUE, active |-> FALSE, periodic |-> periodic,
                 init |-> time, timeout |-> 0]
<1>1. /\ tm' = [tm EXCEPT ![t] = f] /\ ~tm[t].live
      /\ UNCHANGED <<list, temp, left, order>>
  BY DEF InitTimer
<1>2. tm \in [Timers -> Fields] /\ f \in Fields
  BY TimerAssumption DEF TimersInv, TimersTypeOK, Fields, Ticks
<1>3. tm[t].active = FALSE /\ t \notin ToSet(list) /\ t # temp
  BY <1>1, <1>2, TimerAssumption DEF TimersInv, Fields
<1>4. /\ tm' \in [Timers -> Fields] /\ \A u \in Timers : u # t => tm'[u] = tm[u]
      /\ tm'[t].active = FALSE /\ tm'[t].live /\ tm'[t].init = time
  BY <1>1, <1>2
<1>5. TimersInv'
  BY <1>1, <1>3, <1>4, FieldsSound
<1>6. \A u \in Timers : /\ tm'[u].active = tm[u].active
                        /\ u # t => tm'[u].periodic = tm[u].periodic
  BY <1>3, <1>4
<1> QED BY <1>3, <1>5, <1>6

\* rt_timer_control
LEMMA SetSound ==
  ASSUME TimersInv, NEW t \in Timers, tm[t].live, NEW time \in Times, NEW periodic \in BOOLEAN,
         SetTimer(t, time, periodic), tick' = tick
  PROVE  /\ TimersInv'
         /\ \A u \in Timers : /\ tm'[u].active = tm[u].active
                              /\ u # t => tm'[u].periodic = tm[u].periodic
                              /\ u = temp /\ ~SetBusy => tm'[u].periodic = tm[u].periodic
<1>1. /\ tm' = [tm EXCEPT ![t].init = time, ![t].periodic = periodic]
      /\ UNCHANGED <<list, temp, left, order>>
      /\ t = temp /\ periodic # tm[t].periodic => SetBusy
  BY DEF SetTimer
<1>2. tm \in [Timers -> Fields]
  BY DEF TimersInv, TimersTypeOK, Fields
<1>3. /\ tm' \in [Timers -> Fields] /\ \A u \in Timers : u # t => tm'[u] = tm[u]
      /\ tm'[t].active = tm[t].active /\ tm'[t].live = tm[t].live /\ tm'[t].init = time
      /\ tm'[t].timeout = tm[t].timeout /\ tm'[t].periodic = periodic
  BY <1>1, <1>2 DEF Fields
<1>4. TimersInv'
  BY <1>1, <1>3, FieldsSound
<1>5. \A u \in Timers : /\ tm'[u].active = tm[u].active
                        /\ u # t => tm'[u].periodic = tm[u].periodic
                        /\ u = temp /\ ~SetBusy => tm'[u].periodic = tm[u].periodic
  BY <1>1, <1>3
<1> QED BY <1>4, <1>5

\* The check functions take the first timer off the list if its timeout is reached:
\* it has no time left to run.
LEMMA TakeSound ==
  ASSUME TimersInv, NEW t \in Timers, TakeExpired(t), tick' = tick
  PROVE  /\ TimersInv' /\ Removed(t) /\ ToSet(list)' = ToSet(list) \ {t}
         /\ temp' = t /\ t \in ToSet(list) /\ left[t] <= 0
         /\ tm'[t].active = tm'[t].periodic /\ \A u \in Timers : u # t => tm'[u] = tm[u]
<1>1. /\ list # <<>> /\ t = Head(list) /\ Reached(tick, tm[t].timeout)
      /\ tm' = IF ~tm[t].periodic THEN [tm EXCEPT ![t].active = FALSE, ![t].timeout = 0] ELSE tm
      /\ temp' = t
      /\ Removed(t)
  BY DEF TakeExpired, UnlinkTimer, Removed
<1>2. tm \in [Timers -> Fields] /\ 0 \in Ticks /\ t \in ToSet(list)
  BY <1>1, HeadIn, TimerAssumption DEF TimersInv, TimersTypeOK, Fields, Ticks
<1>3. tm[t].active = TRUE /\ tm[t].live = TRUE /\ Deadline(t)
  BY <1>2 DEF TimersInv, Fields
<1>4. /\ tm' \in [Timers -> Fields] /\ \A u \in Timers : u # t => tm'[u] = tm[u]
      /\ tm'[t].active = tm'[t].periodic /\ tm'[t].live = tm[t].live /\ tm'[t].init = tm[t].init
  BY <1>1, <1>2, <1>3 DEF Fields
<1>5. TimersInv' /\ ToSet(list)' = ToSet(list) \ {t}
  <2>1. tm'[t].live => tm'[t].init \in Times
    BY <1>4 DEF TimersInv
  <2> QED BY <1>1, <1>3, <1>4, <2>1, UnlinkSound DEF Removed
<1>6. left[t] <= 0
  BY <1>1, <1>3, ReachedOnTime DEF TimersInv, TimersTypeOK
<1> QED BY <1>1, <1>2, <1>4, <1>5, <1>6

-----------------------------------------------------------------------------
(* The order of a list: by deadline, and by start among equal ones.        *)

\* Timer u is due before v, or was started before v and is due at the same time.
Earlier == {p \in Timers \X Timers :
              \/ left[p[1]] < left[p[2]]
              \/ /\ left[p[1]] = left[p[2]]
                 /\ Index(order, p[1]) < Index(order, p[2])}

\* The list is in that order.
LEMMA StableIsSorted ==
  ASSUME list \in Seq(Timers)
  PROVE  StableOrder <=> SortedBy(list, Earlier)
<1>1. \A i, j \in 1 .. Len(list) :
        <<list[i], list[j]>> \in Earlier <=>
          \/ left[list[i]] < left[list[j]]
          \/ /\ left[list[i]] = left[list[j]]
             /\ Index(order, list[i]) < Index(order, list[j])
  BY DEF Earlier
<1> QED BY <1>1 DEF StableOrder, SortedBy

\* What Index finds in a list that holds nothing twice.
LEMMA IndexFinds ==
  ASSUME NEW S, NEW s \in Seq(S), IsInjective(s), NEW i \in 1 .. Len(s)
  PROVE  Index(s, s[i]) = i
<1>1. \A j \in 1 .. Len(s) : s[j] = s[i] => j = i
  BY DEF IsInjective
<1>2. Index(s, s[i]) \in 1 .. Len(s) /\ s[Index(s, s[i])] = s[i]
  BY DEF Index
<1> QED BY <1>1, <1>2

\* Who was started first does not change when another timer is unlinked.
LEMMA IndexRemoved ==
  ASSUME NEW S, NEW s \in Seq(S), IsInjective(s), NEW e,
         NEW a \in ToSet(s), NEW b \in ToSet(s), a # e, b # e, Index(s, a) < Index(s, b)
  PROVE  /\ Index(RemoveFirst(s, e), a) < Index(RemoveFirst(s, e), b)
         /\ a \in ToSet(RemoveFirst(s, e)) /\ b \in ToSet(RemoveFirst(s, e))
<1> DEFINE R == {p \in S \X S : Index(s, p[1]) < Index(s, p[2])}
           r == RemoveFirst(s, e)
<1>1. SortedBy(s, R)
  <2> SUFFICES ASSUME NEW i \in 1 .. Len(s), NEW j \in 1 .. Len(s), i < j
               PROVE  <<s[i], s[j]>> \in R
    BY DEF SortedBy
  <2>1. Index(s, s[i]) = i /\ Index(s, s[j]) = j
    BY IndexFinds
  <2> QED BY <2>1
<1>2. SortedBy(r, R)
  BY <1>1, RemoveSorted
<1>3. r \in Seq(S) /\ IsInjective(r) /\ ToSet(r) = ToSet(s) \ {e}
  BY RemoveFirstProps
<1> HIDE DEF r
<1>4. a \in ToSet(r) /\ b \in ToSet(r)
  BY <1>3
<1>5. PICK i \in 1 .. Len(r) : r[i] = a
  BY <1>3, <1>4 DEF ToSet
<1>6. PICK j \in 1 .. Len(r) : r[j] = b
  BY <1>3, <1>4 DEF ToSet
<1>7. Index(r, a) = i /\ Index(r, b) = j
  BY <1>3, <1>5, <1>6, IndexFinds
<1>8. Index(s, a) \in 1 .. Len(s) /\ Index(s, b) \in 1 .. Len(s)
  BY DEF Index, ToSet
<1>9. ~ (j < i)
  <2> SUFFICES ASSUME j < i PROVE FALSE
    OBVIOUS
  <2>1. <<b, a>> \in R
    BY <1>2, <1>5, <1>6 DEF SortedBy
  <2> QED BY <1>8, <2>1
<1>10. i # j
  BY <1>5, <1>6, <1>8
<1>11. i < j
  BY <1>9, <1>10
<1> QED BY <1>7, <1>11, <1>4 DEF r

\* The timer that is started last comes last among equals.
LEMMA IndexAppended ==
  ASSUME NEW S, NEW s \in Seq(S), IsInjective(s), NEW e \in S, e \notin ToSet(s),
         NEW a \in ToSet(s)
  PROVE  /\ Index(Append(s, e), a) = Index(s, a)
         /\ Index(Append(s, e), a) < Index(Append(s, e), e)
<1> DEFINE r == Append(s, e)
<1>1. /\ r \in Seq(S) /\ Len(r) = Len(s) + 1 /\ r[Len(s) + 1] = e
      /\ \A i \in 1 .. Len(s) : r[i] = s[i]
  OBVIOUS
<1>2. IsInjective(r)
  BY AppendProps
<1>3. PICK i \in 1 .. Len(s) : s[i] = a
  BY DEF ToSet
<1> HIDE DEF r
<1>4. Index(s, a) = i
  BY <1>3, IndexFinds
<1>5. i \in 1 .. Len(r) /\ r[i] = a
  BY <1>1, <1>3
<1>6. Index(r, a) = i
  BY <1>1, <1>2, <1>5, IndexFinds
<1>7. Len(s) + 1 \in 1 .. Len(r)
  BY <1>1
<1>8. Index(r, e) = Len(s) + 1
  BY <1>1, <1>2, <1>7, IndexFinds
<1> QED BY <1>4, <1>6, <1>8 DEF r

\* Timers that are linked before and after a step keep their order if what they have
\* still to run differs as much as before, and none of them was started anew.
LEMMA EarlierKept ==
  ASSUME NEW a \in Timers, NEW b \in Timers, <<a, b>> \in Earlier,
         left \in [Timers -> Int], NEW d \in Int, left'[a] = left[a] - d, left'[b] = left[b] - d,
         Index(order, a) < Index(order, b) => Index(order', a) < Index(order', b)
  PROVE  <<a, b>> \in Earlier'
BY DEF Earlier

\* The order survives that a timer is unlinked.
LEMMA RemovedStable ==
  ASSUME TimersInv, StableOrder, NEW t \in Timers, Removed(t)
  PROVE  StableOrder'
<1>1. list \in Seq(Timers) /\ order \in Seq(Timers) /\ left \in [Timers -> Int]
      /\ IsInjective(list) /\ IsInjective(order) /\ ToSet(order) = ToSet(list)
      /\ ToSet(list) \subseteq Timers
  BY ElementsIn DEF TimersInv, TimersTypeOK
<1>2. SortedBy(list, Earlier)
  BY <1>1, StableIsSorted
<1>3. /\ list' = RemoveFirst(list, t) /\ order' = RemoveFirst(order, t)
      /\ left' = [left EXCEPT ![t] = 0]
  BY DEF Removed, Without
<1>4. list' \in Seq(Timers) /\ ToSet(list') = ToSet(list) \ {t}
  BY <1>1, <1>3, RemoveFirstProps
<1>5. SortedBy(list', Earlier)
  BY <1>1, <1>2, <1>3, RemoveSorted
<1>6. ASSUME NEW a \in ToSet(list'), NEW b \in ToSet(list'), <<a, b>> \in Earlier
      PROVE  <<a, b>> \in Earlier'
  <2>1. a \in ToSet(list) /\ b \in ToSet(list) /\ a # t /\ b # t /\ a \in Timers /\ b \in Timers
    BY <1>1, <1>4
  <2>2. left'[a] = left[a] - 0 /\ left'[b] = left[b] - 0
    BY <1>1, <1>3, <2>1
  <2>3. Index(order, a) < Index(order, b) => Index(order', a) < Index(order', b)
    BY <1>1, <1>3, <2>1, IndexRemoved
  <2> QED BY <1>1, <1>6, <2>1, <2>2, <2>3, EarlierKept
<1>7. SortedBy(list', Earlier')
  <2>1. \A i \in 1 .. Len(list') : list'[i] \in ToSet(list')
    BY DEF ToSet
  <2> QED BY <1>5, <1>6, <2>1 DEF SortedBy
<1> QED BY <1>7 DEF StableOrder, SortedBy, Earlier

\* The order survives a tick.
LEMMA AdvanceStable ==
  ASSUME TimersInv, StableOrder, Advance, UNCHANGED <<tm, list, temp, order>>
  PROVE  StableOrder'
<1>1. list \in Seq(Timers) /\ left \in [Timers -> Int] /\ ToSet(list) \subseteq Timers
  BY ElementsIn DEF TimersInv, TimersTypeOK
<1>2. ASSUME NEW i \in 1 .. Len(list), NEW j \in 1 .. Len(list), i < j
      PROVE  \/ left'[list[i]] < left'[list[j]]
             \/ /\ left'[list[i]] = left'[list[j]]
                /\ Index(order, list[i]) < Index(order, list[j])
  <2>1. PICK a \in ToSet(list), b \in ToSet(list) : a = list[i] /\ b = list[j]
    BY DEF ToSet
  <2>2. left'[a] = left[a] - 1 /\ left'[b] = left[b] - 1 /\ left[a] \in Int /\ left[b] \in Int
    BY <1>1 DEF Advance
  <2>3. left[a] < left[b] \/ (left[a] = left[b] /\ Index(order, a) < Index(order, b))
    BY <1>2, <2>1 DEF StableOrder
  <2> QED BY <2>1, <2>2, <2>3
<1> QED BY <1>2 DEF StableOrder

\* Timer t has its timeout soon enough after the timers that are late for the
\* comparison of ticks to be a comparison of times.
Comparable(t) == \A u \in ToSet(list) : HALF - W <= left[u] - tm[t].init

\* The test of rt_timer_start: the tick that u expires at is later than that of t.
LEMMA LaterIsLater ==
  ASSUME TimersInv, NEW t \in Timers, tm[t].live, Comparable(t), NEW u \in ToSet(list)
  PROVE  Later(tm[u].timeout, (tick + tm[t].init) % W) <=> left[u] > tm[t].init
<1>1. /\ tick \in 0 .. W - 1 /\ left[u] \in Int /\ W \in Nat \ {0} /\ left[u] < HALF
      /\ tm[u].timeout = (tick + left[u]) % W /\ HALF - W <= left[u] - tm[t].init
  BY ElementsIn, TimerAssumption DEF TimersInv, TimersTypeOK, Ticks, Deadline, Comparable
<1>2. tm[t].init \in 0 .. HALF - 1 /\ tm[t].init \in Nat
  <2>1. tm[t].init \in Times /\ Times \subseteq 0 .. HALF - 1
    BY TimerAssumption DEF TimersInv
  <2>2. tm[t].init \in 0 .. HALF - 1
    BY <2>1, Zenon
  <2> QED BY <2>2, HalfTurn
<1>3. PICK x \in Int, y \in Int : x = tick + left[u] /\ y = tick + tm[t].init
  BY <1>1, <1>2
<1>4. ((x % W) - (y % W)) % W = (x - y) % W
  BY <1>1, Difference
<1>5. x - y = left[u] - tm[t].init
  BY <1>1, <1>2, <1>3
<1>6. PICK g \in Int : g = left[u] - tm[t].init
  BY <1>1, <1>2
<1>7. /\ 0 <= g /\ g < W => g % W = g
      /\ -W <= g /\ g < 0 => g % W = g + W
  BY NearTicks
<1>8. HALF - W <= g /\ g < HALF
  BY <1>1, <1>2, <1>6, HalfTurn
<1>9. (g % W # 0 /\ g % W < HALF) <=> g > 0
  BY <1>1, <1>7, <1>8, HalfTurn
<1> QED BY <1>1, <1>2, <1>3, <1>4, <1>5, <1>6, <1>9 DEF Later

\* rt_timer_start links a timer where the order wants it: behind the timers that are
\* due before it or at the same time, and before those that are due later.
LEMMA StartStable ==
  ASSUME TimersInv, StableOrder, NEW t \in Timers, tm[t].live, Comparable(t), StartTimer(t),
         tick' = tick
  PROVE  StableOrder'
<1>1. PICK rest : rest = RemoveFirst(list, t)
  OBVIOUS
<1>2. PICK timeout : timeout = (tick + tm[t].init) % W
  OBVIOUS
<1>3. PICK place : place = Place(rest, timeout)
  OBVIOUS
<1>4. /\ list' = InsertAt(rest, place, t) /\ left' = [left EXCEPT ![t] = tm[t].init]
      /\ order' = Append(RemoveFirst(order, t), t)
  BY <1>1, <1>2, <1>3 DEF StartTimer, Without
<1>5. list \in Seq(Timers) /\ order \in Seq(Timers) /\ left \in [Timers -> Int]
      /\ IsInjective(list) /\ IsInjective(order) /\ ToSet(order) = ToSet(list)
      /\ ToSet(list) \subseteq Timers
  BY ElementsIn DEF TimersInv, TimersTypeOK
<1>6. rest \in Seq(Timers) /\ ToSet(rest) = ToSet(list) \ {t}
  BY <1>1, <1>5, RemoveFirstProps
<1>7. /\ place \in 1 .. Len(rest) + 1
      /\ \A n \in 1 .. Len(rest) : n < place => ~Later(tm[rest[n]].timeout, timeout)
      /\ \A n \in 1 .. Len(rest) : n = place => Later(tm[rest[n]].timeout, timeout)
  BY <1>3, <1>6, PlaceInList
<1>8. \A n \in 1 .. Len(rest) : rest[n] \in ToSet(list) /\ rest[n] # t /\ rest[n] \in Timers
  <2>1. \A n \in 1 .. Len(rest) : rest[n] \in ToSet(rest)
    BY DEF ToSet
  <2> QED BY <1>5, <1>6, <2>1
<1>9. tm[t].init \in Int
  <2>1. tm[t].init \in Times /\ Times \subseteq 0 .. HALF - 1
    BY TimerAssumption DEF TimersInv
  <2>2. tm[t].init \in 0 .. HALF - 1
    BY <2>1, Zenon
  <2> QED BY <2>2, HalfTurn
<1>10. \A n \in 1 .. Len(rest) :
         Later(tm[rest[n]].timeout, timeout) <=> left[rest[n]] > tm[t].init
  BY <1>2, <1>8, LaterIsLater
<1>11. SortedBy(rest, Earlier)
  BY <1>1, <1>5, StableIsSorted, RemoveSorted
<1>12. \A u \in Timers : u # t => left'[u] = left[u]
  BY <1>4, <1>5
<1>13. left'[t] = tm[t].init
  BY <1>4, <1>5
<1>14. PICK without \in Seq(Timers) :
         /\ without = RemoveFirst(order, t) /\ IsInjective(without)
         /\ ToSet(without) = ToSet(list) \ {t}
  BY <1>5, RemoveFirstProps
<1>15. ASSUME NEW a \in ToSet(list), a # t
       PROVE  Index(order', a) = Index(without, a) /\ Index(order', a) < Index(order', t)
  BY <1>4, <1>14, <1>15, IndexAppended
<1>16. ASSUME NEW a \in ToSet(list), NEW b \in ToSet(list), a # t, b # t, <<a, b>> \in Earlier
       PROVE  <<a, b>> \in Earlier'
  <2>1. left'[a] = left[a] - 0 /\ left'[b] = left[b] - 0 /\ a \in Timers /\ b \in Timers
    BY <1>5, <1>12, <1>16
  <2>2. Index(order, a) < Index(order, b) => Index(without, a) < Index(without, b)
    BY <1>5, <1>14, <1>16, IndexRemoved
  <2>3. Index(order, a) < Index(order, b) => Index(order', a) < Index(order', b)
    BY <1>15, <1>16, <2>2
  <2> QED BY <1>5, <1>16, <2>1, <2>3, EarlierKept
<1>17. SortedBy(rest, Earlier')
  BY <1>8, <1>11, <1>16 DEF SortedBy
<1>18. ASSUME NEW n \in 1 .. Len(rest), n < place PROVE <<rest[n], t>> \in Earlier'
  <2>1. left'[rest[n]] <= left'[t] /\ left'[rest[n]] \in Int /\ left'[t] \in Int
    BY <1>5, <1>7, <1>8, <1>9, <1>10, <1>12, <1>13, <1>18
  <2>2. Index(order', rest[n]) < Index(order', t)
    BY <1>8, <1>15
  <2> QED BY <1>8, <2>1, <2>2 DEF Earlier
<1>19. ASSUME NEW n \in 1 .. Len(rest), n >= place PROVE <<t, rest[n]>> \in Earlier'
  <2>1. PICK p \in 1 .. Len(rest) : p = place
    BY <1>7, <1>19
  <2>2. left[rest[p]] > tm[t].init
    BY <1>7, <1>10, <2>1
  <2>3. left[rest[p]] <= left[rest[n]]
    <3>1. CASE n = p
      BY <1>5, <1>8, <3>1
    <3>2. CASE p < n
      <4>1. <<rest[p], rest[n]>> \in Earlier
        BY <1>11, <3>2 DEF SortedBy
      <4> QED BY <1>5, <1>8, <4>1 DEF Earlier
    <3> QED BY <1>19, <2>1, <3>1, <3>2
  <2>4. left'[t] < left'[rest[n]]
    <3>1. left'[t] = tm[t].init /\ left'[rest[n]] = left[rest[n]]
      BY <1>8, <1>12, <1>13
    <3>2. left[rest[p]] \in Int /\ left[rest[n]] \in Int
      BY <1>5, <1>8
    <3> QED BY <1>9, <2>2, <2>3, <3>1, <3>2
  <2> QED BY <1>8, <2>4 DEF Earlier
<1>20. SortedBy(list', Earlier')
  <2>1. PICK R : R = Earlier'
    OBVIOUS
  <2>2. SortedBy(InsertAt(rest, place, t), R)
    BY <1>6, <1>7, <1>17, <1>18, <1>19, <2>1, InsertSorted
  <2> QED BY <1>4, <2>1, <2>2
<1> QED BY <1>20 DEF StableOrder, SortedBy, Earlier

-----------------------------------------------------------------------------
(* The timer thread.                                                       *)

\* Unless the mode of a timer changes in its timeout function, an active timer is
\* linked, or it is periodic and its timeout function is being called.
Served ==
  /\ \A t \in Timers : tm[t].active => t \in ToSet(list) \/ t = temp
  /\ temp # NoTimer => tm[temp].active = tm[temp].periodic

\* Unless timers are started while the timer thread is about to park, it parks when
\* there is no timer.
Parks == at = "park" \/ stat = "parked" => list = <<>>

ThreadTypes ==
  /\ at \in {"next", "peeked", "park", "delay", "check", "call"}
  /\ cur \in Timers \cup {NoTimer}
  /\ next \in Ticks
  /\ stat \in {"ready", "parked", "asleep"}
  /\ wake \in Nat
  /\ busy \in BOOLEAN
  /\ slip \in 0 .. MaxSlip

\* Where the timer thread waits, and what that says of the lists.
SoftInv ==
  /\ TimersInv /\ ThreadTypes
  /\ busy <=> at = "call"
  /\ at = "call" => cur \in Timers
  /\ temp # NoTimer => at = "call" /\ temp = cur
  /\ at \in {"next", "peeked", "park", "delay"} => stat = "ready"
  /\ stat = "parked" => at = "check"
  /\ stat = "asleep" \/ at = "delay" => 0 < HALF
  /\ ~SetBusy => Served
  /\ ~Preempts => Parks

\* The timer lists are empty at first.
LEMMA SoftInitial == SoftInit => SoftInv
<1> SUFFICES ASSUME SoftInit PROVE SoftInv
  OBVIOUS
<1>1. /\ tm = [t \in Timers |-> NoFields] /\ list = <<>> /\ temp = NoTimer
      /\ tick = 0 /\ left = [t \in Timers |-> 0] /\ order = <<>>
  BY DEF SoftInit, TimersInit
<1>2. NoFields \in Fields /\ 0 \in Ticks /\ ~NoFields.live /\ ~NoFields.active
  BY TimerAssumption DEF Fields, NoFields, Ticks
<1>3. ToSet(<<>>) = {} /\ IsInjective(<<>>)
  BY DEF ToSet, IsInjective
<1>4. TimersInv
  BY <1>1, <1>2, <1>3 DEF TimersInv, TimersTypeOK, Fields
<1>5. ThreadTypes
  <2>1. busy \in BOOLEAN
    BY Zenon DEF SoftInit
  <2>2. 0 \in 0 .. MaxSlip
    BY SoftAssumption
  <2> QED BY <1>2, <2>1, <2>2 DEF SoftInit, ThreadTypes
<1> QED BY <1>1, <1>2, <1>3, <1>4, <1>5 DEF SoftInit, SoftInv, Served, Parks

\* _timer_list_next_timeout, rt_thread_suspend, the reading of the tick, rt_thread_delay
\* and the end of rt_soft_timer_check leave the lists alone.
LEMMA ThreadMoves ==
  ASSUME SoftInv, NextTimeout \/ Park \/ ReadTick \/ Delay \/ CheckDone
  PROVE  SoftInv'
<1> USE DEF SoftInv
<1>1. UNCHANGED timerVars
  BY DEF NextTimeout, Park, ReadTick, Delay, CheckDone
<1>2. TimersInv'
  BY <1>1 DEF TimersInv, TimersTypeOK, Deadline, timerVars
<1>3. Served => Served'
  BY <1>1 DEF Served, timerVars
<1>4. tm \in [Timers -> Fields] /\ 0 \in Ticks /\ tick \in Ticks
  BY TimerAssumption DEF TimersInv, TimersTypeOK, Fields, Ticks
<1>5. CASE NextTimeout
  <2>1. list # <<>> => tm[Head(list)].timeout \in Ticks
    BY <1>4, HeadIn DEF TimersInv, TimersTypeOK, Fields
  <2>2. next' \in Ticks
    BY <1>4, <1>5, <2>1 DEF NextTimeout
  <2>3. ThreadTypes'
    BY <1>5, <2>2 DEF NextTimeout, ThreadTypes
  <2> QED BY <1>2, <1>3, <1>5, <2>3 DEF NextTimeout, Runs, Parks, timerVars
<1>6. CASE Park
  BY <1>2, <1>3, <1>6 DEF Park, Runs, Parks, ThreadTypes, timerVars
<1>7. CASE ReadTick
  <2>1. (next - tick) % W \in Ticks /\ 0 <= (next - tick) % W
    <3>1. next - tick \in Int
      BY <1>4, TimerAssumption DEF ThreadTypes, Ticks
    <3> QED BY <3>1, NearTicks DEF Ticks
  <2>2. next' \in Ticks /\ at' \in {"delay", "check"}
    BY <1>4, <1>7, <2>1 DEF ReadTick
  <2>5. at' = "delay" => 0 < HALF
    BY <1>7, <2>1, HalfTurn DEF ReadTick, Ticks
  <2>3. slip' = 0 /\ UNCHANGED <<timerVars, cur, stat, wake, busy>> /\ Runs("peeked")
    BY <1>7 DEF ReadTick
  <2>4. ThreadTypes'
    BY <2>2, <2>3, SoftAssumption DEF ThreadTypes
  <2> QED BY <1>2, <1>3, <2>2, <2>3, <2>4, <2>5 DEF Runs, Parks, timerVars
<1>8. CASE Delay
  <2>1. 0 < HALF
    BY <1>8 DEF Delay, Runs
  <2>2. next \in Nat
    BY TimerAssumption DEF ThreadTypes, Ticks
  <2> QED BY <1>2, <1>3, <1>4, <1>8, <2>1, <2>2 DEF Delay, Runs, Parks, ThreadTypes, timerVars
<1>9. CASE CheckDone
  BY <1>2, <1>3, <1>9, SoftAssumption DEF CheckDone, Runs, Parks, ThreadTypes, timerVars
<1> QED BY <1>5, <1>6, <1>7, <1>8, <1>9

\* A linked timer that is unlinked is the only one that is not served any more.
LEMMA FireKeeps ==
  ASSUME SoftInv, Fire
  PROVE  /\ SoftInv'
         /\ \E t \in Timers : cur' = t /\ left[t] <= 0 /\ Removed(t)
                              /\ ToSet(list)' = ToSet(list) \ {t}
<1> USE DEF SoftInv
<1>1. PICK t \in Timers : TakeExpired(t) /\ cur' = t
  BY DEF Fire
<1>2. /\ Runs("check") /\ at' = "call" /\ busy' = TRUE /\ slip' = 0
      /\ UNCHANGED <<tick, next, stat, wake>>
  BY DEF Fire
<1>3. /\ TimersInv' /\ Removed(t) /\ ToSet(list)' = ToSet(list) \ {t}
      /\ temp' = t /\ t \in ToSet(list) /\ left[t] <= 0
      /\ tm'[t].active = tm'[t].periodic /\ \A u \in Timers : u # t => tm'[u] = tm[u]
  BY <1>1, <1>2, TakeSound
<1>4. ThreadTypes'
  <2>1. busy' \in BOOLEAN
    BY <1>2, Zenon
  <2>2. slip' \in 0 .. MaxSlip
    BY <1>2, SoftAssumption
  <2>3. next' \in Ticks
    BY <1>2 DEF ThreadTypes, Ticks
  <2> QED BY <1>1, <1>2, <2>1, <2>2, <2>3 DEF ThreadTypes
<1>5. temp = NoTimer
  BY <1>2 DEF Runs
<1>6. Served => Served'
  BY <1>3, <1>5, TimerAssumption DEF Served
<1>7. Parks'
  BY <1>2 DEF Parks, Runs
<1>8. SoftInv'
  BY <1>1, <1>2, <1>3, <1>4, <1>6, <1>7 DEF Runs
<1> QED BY <1>1, <1>3, <1>8

\* rt_timer_start: a timer that is active is linked.
LEMMA StartServes ==
  ASSUME TimersInv, Served, NEW t \in Timers, tm[t].live, StartTimer(t), tick' = tick
  PROVE  Served'
<1>1. /\ ToSet(list)' = ToSet(list) \cup {t}
      /\ \A u \in Timers : u # t => tm'[u] = tm[u]
      /\ temp' = IF temp = t THEN NoTimer ELSE temp
  BY StartSound
<1>2. temp \in Timers \cup {NoTimer}
  BY DEF TimersInv, TimersTypeOK
<1> QED BY <1>1, <1>2 DEF Served

\* After a timeout function, a periodic timer that was left alone starts again.
LEMMA ReturnStarts ==
  ASSUME SoftInv, CallbackReturn
  PROVE  /\ cur \in Timers /\ tick' = tick
         /\ \/ tm[cur].live /\ StartTimer(cur)
            \/ /\ UNCHANGED <<tm, list, left, order>> /\ temp' = NoTimer
               /\ ~(temp # NoTimer /\ tm[cur].periodic /\ tm[cur].active)
<1>1. /\ at = "call" /\ cur \in Timers /\ tick' = tick /\ Restart(cur)
      /\ tm[cur].active => tm[cur].live
  BY DEF SoftInv, TimersInv, CallbackReturn, Runs
<1>2. CASE temp # NoTimer /\ tm[cur].periodic /\ tm[cur].active
  BY <1>1, <1>2 DEF Restart
<1>3. CASE ~(temp # NoTimer /\ tm[cur].periodic /\ tm[cur].active)
  BY <1>1, <1>3 DEF Restart
<1> QED BY <1>2, <1>3

\* The end of a timeout function.
LEMMA ReturnKeeps ==
  ASSUME SoftInv, CallbackReturn
  PROVE  SoftInv'
<1> USE DEF SoftInv
<1>1. /\ Runs("call") /\ busy' = FALSE /\ at' = "check" /\ cur' = NoTimer
      /\ UNCHANGED <<tick, next, stat, wake, slip>>
  BY DEF CallbackReturn
<1>2. PICK t \in Timers : t = cur
  BY <1>1 DEF Runs
<1>3. ThreadTypes'
  <2>1. busy' \in BOOLEAN
    BY <1>1, Zenon
  <2>2. next' \in Ticks
    BY <1>1 DEF ThreadTypes, Ticks
  <2> QED BY <1>1, <2>1, <2>2 DEF ThreadTypes
<1>4. /\ TimersInv' /\ temp' = NoTimer /\ (~SetBusy => Served')
  <2>1. CASE tm[t].live /\ StartTimer(t)
    <3>1. TimersInv' /\ temp' = IF temp = t THEN NoTimer ELSE temp
      BY <1>1, <2>1, StartSound
    <3>2. Served => Served'
      BY <1>1, <2>1, StartServes
    <3> QED BY <1>2, <3>1, <3>2
  <2>2. CASE /\ UNCHANGED <<tm, list, left, order>> /\ temp' = NoTimer
             /\ ~(temp # NoTimer /\ tm[t].periodic /\ tm[t].active)
    <3>1. TimersTypeOK'
      BY <1>1, <2>2 DEF TimersInv, TimersTypeOK, Ticks
    <3>2. NoTimer \notin ToSet(list)
      BY ElementsIn, TimerAssumption DEF TimersInv, TimersTypeOK
    <3>3. TimersInv'
      BY <1>1, <2>2, <3>1, <3>2 DEF TimersInv, Deadline
    <3>4. Served => Served'
      BY <1>2, <2>2 DEF Served, TimersInv, TimersTypeOK
    <3> QED BY <2>2, <3>3, <3>4
  <2> QED BY <1>2, <2>1, <2>2, ReturnStarts
<1> QED BY <1>1, <1>3, <1>4 DEF Runs, Parks

\* The timeout function sleeps.
LEMMA BlockKeeps ==
  ASSUME SoftInv, NEW ticks \in Times, CallbackBlocks(ticks)
  PROVE  SoftInv'
<1> USE DEF SoftInv
<1>1. /\ at = "call" /\ stat' = "asleep" /\ wake' = ticks
      /\ UNCHANGED <<timerVars, at, cur, next, busy, slip>>
  BY DEF CallbackBlocks, Runs
<1>2. ticks \in Nat /\ 0 < HALF
  <2>1. ticks \in 0 .. HALF - 1
    BY TimerAssumption, Zenon
  <2> QED BY <2>1, HalfTurn
<1>3. TimersInv' /\ (Served => Served')
  BY <1>1 DEF TimersInv, TimersTypeOK, Deadline, Served, timerVars
<1>4. ThreadTypes'
  BY <1>1, <1>2 DEF ThreadTypes, Ticks
<1> QED BY <1>1, <1>2, <1>3, <1>4 DEF Parks, timerVars

\* rt_timer_start
LEMMA StartKeeps ==
  ASSUME SoftInv, NEW t \in Timers, Start(t)
  PROVE  SoftInv'
<1> USE DEF SoftInv
<1>1. /\ tm[t].live /\ StartTimer(t) /\ WakeThread
      /\ Preempts \/ stat # "ready" \/ at = "call"
      /\ UNCHANGED <<tick, at, cur, next, busy, slip>>
  BY DEF Start
<1>2. /\ TimersInv' /\ temp' = IF temp = t THEN NoTimer ELSE temp
  BY <1>1, StartSound
<1>3. Served => Served'
  BY <1>1, StartServes
<1>4. IF ~busy THEN stat' = "ready" /\ wake' = 0 ELSE UNCHANGED <<stat, wake>>
  BY <1>1 DEF WakeThread
<1>5. ThreadTypes'
  BY <1>1, <1>4 DEF ThreadTypes, Ticks
<1>6. ~Preempts => Parks'
  <2> SUFFICES ASSUME ~Preempts PROVE ~(at' = "park" \/ stat' = "parked")
    BY DEF Parks
  <2>1. at' # "park"
    BY <1>1
  <2>2. stat' # "parked"
    BY <1>4
  <2> QED BY <2>1, <2>2
<1> QED BY <1>1, <1>2, <1>3, <1>4, <1>5, <1>6

\* rt_timer_stop, rt_timer_detach, rt_timer_delete, rt_timer_init and rt_timer_control
\* leave the timer thread alone.
LEMMA ServiceKeeps ==
  ASSUME SoftInv, NEW t \in Timers,
         \/ Stop(t) \/ Detach(t)
         \/ \E time \in Times, periodic \in BOOLEAN :
               InitAgain(t, time, periodic) \/ Control(t, time, periodic)
  PROVE  /\ SoftInv' /\ UNCHANGED <<tick, softVars>>
         /\ \/ Removed(t) /\ ToSet(list)' = ToSet(list) \ {t}
            \/ UNCHANGED <<list, left, order>>
<1> USE DEF SoftInv
<1>0. UNCHANGED <<tick, softVars>>
  BY DEF Stop, Detach, InitAgain, Control
<1>1. ASSUME TimersInv', temp' = temp \/ temp' = NoTimer, ~SetBusy => Served',
             ToSet(list)' \subseteq ToSet(list)
      PROVE  SoftInv'
  <2>1. ThreadTypes'
    BY <1>0 DEF ThreadTypes, softVars, Ticks
  <2>2. Parks => Parks'
    <3>1. list \in Seq(Timers) /\ list' \in Seq(Timers)
      BY <1>1 DEF TimersInv, TimersTypeOK
    <3>2. list = <<>> <=> ToSet(list) = {}
      BY <3>1, EmptyList
    <3>3. list' = <<>> <=> ToSet(list') = {}
      BY <3>1, EmptyList
    <3> QED BY <1>0, <1>1, <3>2, <3>3 DEF Parks, softVars
  <2> QED BY <1>0, <1>1, <2>1, <2>2 DEF softVars
<1>2. CASE Stop(t)
  <2>1. tm[t].active /\ StopTimer(t)
    BY <1>2 DEF Stop
  <2>2. /\ TimersInv' /\ Removed(t) /\ ToSet(list)' = ToSet(list) \ {t}
        /\ ~tm'[t].active
        /\ \A u \in Timers : /\ u # t => tm'[u].active = tm[u].active
                             /\ tm'[u].periodic = tm[u].periodic
    BY <1>0, <2>1, StopSound
  <2>3. temp' = (IF temp = t THEN NoTimer ELSE temp) /\ temp \in Timers \cup {NoTimer}
    BY <2>1 DEF StopTimer, TimersInv, TimersTypeOK
  <2>4. Served => Served'
    BY <2>2, <2>3 DEF Served
  <2> QED BY <1>0, <1>1, <2>2, <2>3, <2>4
<1>3. CASE Detach(t)
  <2>1. DetachTimer(t)
    BY <1>3 DEF Detach
  <2>2. /\ TimersInv' /\ Removed(t) /\ ToSet(list)' = ToSet(list) \ {t}
        /\ ~tm'[t].active /\ \A u \in Timers : u # t => tm'[u] = tm[u]
    BY <1>0, <2>1, DetachSound
  <2>3. temp' = (IF temp = t THEN NoTimer ELSE temp) /\ temp \in Timers \cup {NoTimer}
    BY <2>1 DEF DetachTimer, TimersInv, TimersTypeOK
  <2>4. Served => Served'
    BY <2>2, <2>3 DEF Served
  <2> QED BY <1>0, <1>1, <2>2, <2>3, <2>4
<1>4. ASSUME NEW time \in Times, NEW periodic \in BOOLEAN, InitAgain(t, time, periodic)
      PROVE  SoftInv' /\ UNCHANGED <<list, left, order>>
  <2>1. InitTimer(t, time, periodic) /\ UNCHANGED <<list, temp, left, order>>
    BY <1>4 DEF InitAgain, InitTimer
  <2>2. /\ TimersInv' /\ t # temp
        /\ \A u \in Timers : /\ tm'[u].active = tm[u].active
                             /\ u # t => tm'[u].periodic = tm[u].periodic
    BY <1>0, <2>1, InitSound
  <2>3. temp \in Timers \cup {NoTimer}
    BY DEF TimersInv, TimersTypeOK
  <2>4. Served => Served'
    BY <2>1, <2>2, <2>3 DEF Served
  <2> QED BY <1>1, <2>1, <2>2, <2>4
<1>5. ASSUME NEW time \in Times, NEW periodic \in BOOLEAN, Control(t, time, periodic)
      PROVE  SoftInv' /\ UNCHANGED <<list, left, order>>
  <2>1. tm[t].live /\ SetTimer(t, time, periodic) /\ UNCHANGED <<list, temp, left, order>>
    BY <1>5 DEF Control, SetTimer
  <2>2. /\ TimersInv'
        /\ \A u \in Timers : /\ tm'[u].active = tm[u].active
                             /\ u # t => tm'[u].periodic = tm[u].periodic
                             /\ u = temp /\ ~SetBusy => tm'[u].periodic = tm[u].periodic
    BY <1>0, <2>1, SetSound
  <2>3. temp \in Timers \cup {NoTimer}
    BY DEF TimersInv, TimersTypeOK
  <2>4. ~SetBusy => Served'
    BY <2>1, <2>2, <2>3 DEF Served
  <2> QED BY <1>1, <2>1, <2>2, <2>4
<1> QED BY <1>0, <1>2, <1>3, <1>4, <1>5, StopSound, DetachSound DEF Stop, Detach

\* The tick interrupt: a timer thread that has slept long enough gets ready.
LEMMA TickKeeps ==
  ASSUME SoftInv, Tick
  PROVE  SoftInv'
<1> USE DEF SoftInv
<1>1. /\ Advance /\ UNCHANGED <<tm, list, temp, order, at, cur, next, busy>>
      /\ InWindow => slip < MaxSlip
      /\ slip' = IF InWindow THEN slip + 1 ELSE slip
      /\ IF stat = "asleep" /\ wake <= 1
           THEN stat' = "ready" /\ wake' = 0
           ELSE stat' = stat /\ wake' = IF stat = "asleep" THEN wake - 1 ELSE wake
  BY DEF Tick
<1>2. TimersInv'
  BY <1>1, AdvanceSound
<1>3. ThreadTypes'
  <2>1. slip' \in 0 .. MaxSlip
    BY <1>1, SoftAssumption DEF ThreadTypes
  <2>2. wake' \in Nat /\ stat' \in {"ready", "parked", "asleep"}
    BY <1>1 DEF ThreadTypes
  <2> QED BY <1>1, <2>1, <2>2 DEF ThreadTypes, Ticks
<1>4. Served => Served'
  BY <1>1 DEF Served
<1>5. Parks => Parks'
  BY <1>1 DEF Parks
<1> QED BY <1>1, <1>2, <1>3, <1>4, <1>5

\* Nothing changes when nothing happens.
LEMMA SoftStutter ==
  ASSUME SoftInv, UNCHANGED <<timerVars, softVars>>
  PROVE  SoftInv'
<1>1. TimersInv'
  BY DEF SoftInv, TimersInv, TimersTypeOK, Deadline, timerVars
<1>2. ThreadTypes'
  BY DEF SoftInv, ThreadTypes, softVars, Ticks
<1> QED BY <1>1, <1>2 DEF SoftInv, Served, Parks, timerVars, softVars

\* Every step of the timer thread, of the services and of the tick interrupt.
LEMMA SoftStep ==
  ASSUME SoftInv, [SoftNext]_<<timerVars, softVars>>
  PROVE  SoftInv'
<1>1. ASSUME ThreadStep PROVE SoftInv'
  BY <1>1, ThreadMoves, FireKeeps, ReturnKeeps DEF ThreadStep
<1>2. ASSUME Service PROVE SoftInv'
  BY <1>2, StartKeeps, ServiceKeeps DEF Service
<1>3. ASSUME Tick PROVE SoftInv'
  BY <1>3, TickKeeps
<1>4. ASSUME NEW ticks \in Times, CallbackBlocks(ticks) PROVE SoftInv'
  BY <1>4, BlockKeeps
<1> QED BY <1>1, <1>2, <1>3, <1>4, SoftStutter DEF SoftNext

\* Ticks wrap around, timers are started, stopped and deleted at any time, also by
\* their own timeout functions: the lists and the timer thread stay consistent.
THEOREM SoftInvariance == SoftSpec => []SoftInv
<1>1. SoftInv /\ [SoftNext]_<<timerVars, softVars>> => SoftInv'
  BY SoftStep
<1> QED BY SoftInitial, <1>1, PTL DEF SoftSpec

\* "no software timer exist, suspend self": the timer thread parks only while there is
\* no timer, provided that nobody starts a timer between its look at the list and its
\* rt_thread_suspend.
THEOREM ParksWithoutTimers ==
  ASSUME ~Preempts
  PROVE  SoftSpec => []ParkedWithoutTimers
<1>1. SoftInv => ParkedWithoutTimers
  BY DEF SoftInv, Parks, ParkedWithoutTimers
<1> QED BY <1>1, SoftInvariance, PTL

\* What the invariant says of active timers.
LEMMA SoftLinked ==
  ASSUME ~SetBusy, SoftInv
  PROVE  SoftTypeOK /\ ActiveIsLinked
<1>1. SoftTypeOK
  BY DEF SoftInv, TimersInv, ThreadTypes, SoftTypeOK
<1>2. \A t \in ToSet(list) : tm[t].active /\ tm[t].live
  BY ElementsIn DEF SoftInv, TimersInv, TimersTypeOK
<1> QED BY <1>1, <1>2 DEF SoftInv, TimersInv, Served, ActiveIsLinked

\* RT_TIMER_FLAG_ACTIVATED tells the truth, whatever a timeout function and others do
\* to a timer, short of changing its mode while its timeout function runs.
THEOREM ActiveTimersLinked ==
  ASSUME ~SetBusy
  PROVE  SoftSpec => [](SoftTypeOK /\ ActiveIsLinked)
<1>1. SoftInv => SoftTypeOK /\ ActiveIsLinked
  BY SoftLinked
<1> QED BY <1>1, SoftInvariance, PTL

\* A timeout function is called when the time of its timer is over.
LEMMA SoftFiresDue ==
  ASSUME SoftInv, SoftNext, at = "check", at' = "call"
  PROVE  \A t \in Timers : cur' = t => left[t] <= 0
<1>1. CASE Fire
  BY <1>1, FireKeeps
<1>2. ~ (ThreadStep /\ ~Fire)
  BY DEF ThreadStep, NextTimeout, Park, ReadTick, Delay, CallbackReturn, CheckDone, Runs
<1>3. ~Tick /\ ~(\E ticks \in Times : CallbackBlocks(ticks))
  BY DEF Tick, CallbackBlocks
<1>4. ~Service
  BY DEF Service, Start, Stop, Detach, InitAgain, Control, softVars
<1> QED BY <1>1, <1>2, <1>3, <1>4 DEF SoftNext

\* rt_soft_timer_check calls no timeout function early, for any width of the tick and
\* any wrap-around, because no timer is given RT_TICK_MAX / 2 ticks.
THEOREM SoftTimersNotEarly == SoftSpec => NeverEarly
<1> DEFINE Early == \A t \in Timers : at = "check" /\ at' = "call" /\ cur' = t => left[t] <= 0
<1>1. SoftInv /\ [SoftNext]_<<timerVars, softVars>> => [Early]_<<timerVars, softVars>>
  BY SoftFiresDue DEF Early
<1> QED BY <1>1, SoftInvariance, PTL DEF SoftSpec, NeverEarly

\* A timeout function that sleeps is woken by the tick.
LEMMA TickWakes ==
  ASSUME SoftInv, SoftNext, busy, stat = "asleep", stat' = "ready"
  PROVE  tick' # tick
<1>1. CASE Tick
  <2>1. 0 < HALF /\ tick \in 0 .. W - 1 /\ W \in Nat \ {0}
    BY TimerAssumption DEF SoftInv, TimersInv, TimersTypeOK, Ticks
  <2>2. tick' = (tick + 1) % W
    BY <1>1 DEF Tick, Advance
  <2>3. PICK e \in Int : e = tick + 1
    BY <2>1
  <2>4. /\ 0 <= e /\ e < W => e % W = e
        /\ W <= e /\ e < 2 * W => e % W = e - W
    BY NearTicks
  <2> QED BY <2>1, <2>2, <2>3, <2>4, HalfTurn
<1>2. ~ThreadStep /\ ~(\E ticks \in Times : CallbackBlocks(ticks))
  BY DEF ThreadStep, NextTimeout, Park, ReadTick, Delay, Fire, CallbackReturn, CheckDone,
         CallbackBlocks, Runs
<1>3. ~Service
  BY DEF Service, Start, WakeThread, Stop, Detach, InitAgain, Control, softVars
<1> QED BY <1>1, <1>2, <1>3 DEF SoftNext

\* rt_timer_start does not cut the sleep of a timeout function short: only the tick
\* interrupt ends it.
THEOREM CallbackSleeps == SoftSpec => CallbackWaits
<1> DEFINE Waits == busy /\ stat = "asleep" /\ stat' = "ready" => tick' # tick
<1>1. SoftInv /\ [SoftNext]_<<timerVars, softVars>> => [Waits]_<<timerVars, softVars>>
  BY TickWakes DEF Waits
<1> QED BY <1>1, SoftInvariance, PTL DEF SoftSpec, CallbackWaits

-----------------------------------------------------------------------------
(* How late timers get, and how long the timer thread sleeps.              *)

\* The latest that a linked timer gets if no timer and no timeout function is given
\* more than T ticks: the timer thread runs MaxLate ticks late, loses MaxSlip ticks
\* before it sleeps, and sleeps for T ticks in a timeout function.
Late(T) == T + MaxLate + MaxSlip + 1

\* Periods and delays leave room to tell a timeout that has passed from one to come: a
\* timer may be late when another is peeked at, and the thread late when it goes on.
EnoughRoom(T) == T \in Nat /\ (\A time \in Times : time <= T) /\ HALF + 2 * Late(T) + T <= W

\* What a linked timer has still to run, by what the timer thread is doing.
InTime(u, T) ==
  /\ -Late(T) <= left[u] /\ left[u] <= T
  /\ busy /\ stat = "asleep" => -Late(T) < left[u] /\ -Late(T) <= left[u] - wake
  /\ at = "delay" => next <= left[u] + slip
  /\ ~busy /\ stat = "asleep" => wake <= left[u] + slip

\* The timeout that the timer thread has read was the first, and is it still unless the
\* timer has been stopped.
Peeked(T) ==
  at = "peeked" => \E n \in Int :
    /\ next = (tick + n) % W
    /\ \A u \in ToSet(list) : n <= left[u] /\ left[u] <= n + T + Late(T)

Timing(T) ==
  /\ StableOrder
  /\ busy /\ stat = "asleep" => wake <= T
  /\ \A u \in ToSet(list) : InTime(u, T)
  /\ Peeked(T)

\* What EnoughRoom means for the arithmetic of the steps.
LEMMA RoomFacts ==
  ASSUME NEW T, EnoughRoom(T)
  PROVE  /\ T \in Nat /\ Late(T) \in Nat /\ Late(T) = T + MaxLate + MaxSlip + 1
         /\ MaxLate \in Nat /\ MaxSlip \in Nat /\ W \in Nat \ {0} /\ HALF \in Nat
         /\ HALF + 2 * Late(T) + T <= W
         /\ \A time \in Times : time \in Nat /\ time <= T
<1>1. T \in Nat /\ HALF + 2 * Late(T) + T <= W /\ \A time \in Times : time <= T
  BY DEF EnoughRoom
<1>2. MaxLate \in Nat /\ MaxSlip \in Nat
  BY SoftAssumption
<1>3. \A time \in Times : time \in 0 .. HALF - 1
  BY TimerAssumption, Zenon
<1>4. \A time \in Times : time \in Nat
  BY <1>3, HalfTurn
<1> QED BY <1>1, <1>2, <1>4, HalfTurn, TimerAssumption DEF Late

\* Types of what the steps count with.
LEMMA TimeTypes ==
  ASSUME SoftInv
  PROVE  /\ \A u \in ToSet(list) : left[u] \in Int /\ u \in Timers
         /\ wake \in Nat /\ slip \in Nat /\ slip <= MaxSlip /\ tick \in 0 .. W - 1
         /\ next \in 0 .. W - 1 /\ list \in Seq(Timers) /\ left \in [Timers -> Int]
BY ElementsIn, SoftAssumption DEF SoftInv, TimersInv, TimersTypeOK, ThreadTypes, Ticks

\* There are no timers at first.
LEMMA TimingInit ==
  ASSUME NEW T
  PROVE  SoftInit => Timing(T)
<1>1. ToSet(<<>>) = {}
  BY DEF ToSet
<1> QED BY <1>1 DEF SoftInit, TimersInit, Timing, StableOrder, Peeked

\* A timer that is unlinked disturbs none of the others.
LEMMA RemovedTiming ==
  ASSUME NEW T, SoftInv, Timing(T), NEW t \in Timers, Removed(t),
         ToSet(list)' = ToSet(list) \ {t}
  PROVE  /\ StableOrder'
         /\ \A u \in ToSet(list)' : u \in ToSet(list) /\ left'[u] = left[u]
<1>1. StableOrder'
  BY RemovedStable DEF SoftInv, Timing
<1>2. \A u \in ToSet(list)' : u \in ToSet(list) /\ left'[u] = left[u]
  BY TimeTypes DEF Removed
<1> QED BY <1>1, <1>2

\* rt_timer_start finds the right place, and disturbs no other timer.
LEMMA StartTiming ==
  ASSUME NEW T, EnoughRoom(T), SoftInv, Timing(T), NEW t \in Timers, tm[t].live, StartTimer(t),
         tick' = tick
  PROVE  /\ StableOrder'
         /\ \A u \in ToSet(list)' : \/ u \in ToSet(list) /\ left'[u] = left[u]
                                    \/ left'[u] \in Nat /\ left'[u] <= T
<1>1. /\ ToSet(list)' = ToSet(list) \cup {t}
      /\ tm[t].init \in Times /\ left'[t] = tm[t].init
      /\ \A u \in Timers : u # t => left'[u] = left[u]
  BY StartSound DEF SoftInv
<1>2. tm[t].init \in Nat /\ tm[t].init <= T
  BY <1>1, RoomFacts
<1>3. Comparable(t)
  <2> SUFFICES ASSUME NEW u \in ToSet(list) PROVE HALF - W <= left[u] - tm[t].init
    BY DEF Comparable
  <2>1. -Late(T) <= left[u] /\ left[u] \in Int
    BY TimeTypes DEF Timing, InTime
  <2> QED BY <1>2, <2>1, RoomFacts
<1>4. StableOrder'
  BY <1>3, StartStable DEF SoftInv, Timing
<1>5. \A u \in ToSet(list) : u \in Timers
  BY TimeTypes
<1> QED BY <1>1, <1>2, <1>4, <1>5

\* The first timer of the list is the first to expire.
LEMMA FirstExpires ==
  ASSUME TimersInv, StableOrder, list # <<>>
  PROVE  /\ Head(list) \in ToSet(list)
         /\ \A u \in ToSet(list) : left[Head(list)] <= left[u]
<1>1. list \in Seq(Timers) /\ left \in [Timers -> Int]
  BY DEF TimersInv, TimersTypeOK
<1>2. Head(list) = list[1] /\ 1 \in 1 .. Len(list) /\ Head(list) \in ToSet(list)
  BY <1>1, HeadIn
<1>3. ASSUME NEW i \in 1 .. Len(list) PROVE left[Head(list)] <= left[list[i]]
  <2>1. left[list[1]] \in Int /\ left[list[i]] \in Int
    BY <1>1, <1>2
  <2>2. CASE i = 1
    BY <1>2, <2>1, <2>2
  <2>3. CASE 1 < i
    <3>1. \/ left[list[1]] < left[list[i]]
          \/ left[list[1]] = left[list[i]]
      BY <1>2, <2>3 DEF StableOrder
    <3> QED BY <1>2, <2>1, <3>1
  <2> QED BY <2>2, <2>3
<1> QED BY <1>2, <1>3 DEF ToSet

\* _timer_list_next_timeout
LEMMA NextTimeoutInTime ==
  ASSUME NEW T, EnoughRoom(T), SoftInv, Timing(T), NextTimeout
  PROVE  Timing(T)'
<1>1. /\ at = "next" /\ stat = "ready"
      /\ at' = IF list = <<>> THEN "park" ELSE "peeked"
      /\ next' = IF list = <<>> THEN 0 ELSE tm[Head(list)].timeout
      /\ UNCHANGED <<tm, list, temp, tick, left, order, cur, stat, wake, busy, slip>>
  BY DEF NextTimeout, Runs, timerVars
<1>2. StableOrder' /\ \A u \in ToSet(list') : InTime(u, T)'
  BY <1>1 DEF Timing, StableOrder, InTime
<1>3. Peeked(T)'
  <2>1. CASE list = <<>>
    BY <1>1, <2>1 DEF Peeked
  <2>2. CASE list # <<>>
    <3>1. /\ Head(list) \in ToSet(list)
          /\ \A u \in ToSet(list) : left[Head(list)] <= left[u]
      BY <2>2, FirstExpires DEF SoftInv, Timing
    <3>2. PICK n \in Int : n = left[Head(list)] /\ -Late(T) <= n
      BY <3>1, TimeTypes DEF Timing, InTime
    <3>3. next' = (tick + n) % W
      BY <1>1, <2>2, <3>1, <3>2 DEF SoftInv, TimersInv, Deadline
    <3>4. \A u \in ToSet(list) : n <= left[u] /\ left[u] <= n + T + Late(T)
      <4> TAKE u \in ToSet(list)
      <4>1. left[u] \in Int /\ left[u] <= T /\ n <= left[u]
        BY <3>1, <3>2, TimeTypes DEF Timing, InTime
      <4> QED BY <3>2, <4>1, RoomFacts
    <3> QED BY <1>1, <3>3, <3>4 DEF Peeked
  <2> QED BY <2>1, <2>2
<1> QED BY <1>1, <1>2, <1>3 DEF Timing

\* next_timeout - current_tick is what the first timer has still to run.
LEMMA StillToRun ==
  ASSUME tick \in 0 .. W - 1, NEW n \in Int, next = (tick + n) % W
  PROVE  (next - tick) % W = n % W
<1>1. PICK x \in Int, y \in Int : x = tick + n /\ y = tick
  OBVIOUS
<1>2. y % W = y
  <2>1. 0 <= y /\ y < W => y % W = y
    BY NearTicks
  <2> QED BY <1>1, <2>1, TimerAssumption
<1>3. ((x % W) - (y % W)) % W = (x - y) % W
  BY TimerAssumption, Difference
<1>4. x - y = n
  BY <1>1
<1> QED BY <1>1, <1>2, <1>3, <1>4

\* The timer thread is about to sleep for no longer than any timer has still to run.
LEMMA ReadTickInTime ==
  ASSUME NEW T, EnoughRoom(T), SoftInv, Timing(T), ReadTick
  PROVE  Timing(T)'
<1>1. /\ at = "peeked" /\ stat = "ready" /\ at' \in {"delay", "check"} /\ slip' = 0
      /\ at' = "delay" => (next - tick) % W < HALF /\ next' = (next - tick) % W
      /\ UNCHANGED <<tm, list, temp, tick, left, order, cur, stat, wake, busy>>
  BY DEF ReadTick, Runs, timerVars
<1>2. PICK n \in Int :
        /\ next = (tick + n) % W
        /\ \A u \in ToSet(list) : n <= left[u] /\ left[u] <= n + T + Late(T)
  BY <1>1 DEF Timing, Peeked
<1>3. (next - tick) % W = n % W
  BY <1>2, TimeTypes, StillToRun
<1>4. ASSUME NEW u \in ToSet(list), at' = "delay" PROVE next' <= left[u] + slip'
  <2>1. left[u] \in Int /\ -Late(T) <= left[u] /\ left[u] <= T
        /\ n <= left[u] /\ left[u] <= n + T + Late(T)
    BY <1>2, TimeTypes DEF Timing, InTime
  <2>2. -W <= n /\ n < W /\ n + W >= HALF
    BY <2>1, RoomFacts
  <2>3. /\ 0 <= n /\ n < W => n % W = n
        /\ -W <= n /\ n < 0 => n % W = n + W
    BY NearTicks
  <2>4. next' = n % W /\ n % W < HALF
    BY <1>1, <1>3, <1>4
  <2>5. next' = n
    BY <2>2, <2>3, <2>4, RoomFacts
  <2> QED BY <1>1, <2>1, <2>5
<1>5. \A u \in ToSet(list') : InTime(u, T)'
  BY <1>1, <1>4 DEF Timing, InTime
<1> QED BY <1>1, <1>5 DEF Timing, StableOrder, Peeked

\* rt_thread_suspend, rt_thread_delay and the end of rt_soft_timer_check
LEMMA WaitsInTime ==
  ASSUME NEW T, SoftInv, Timing(T), Park \/ Delay \/ CheckDone
  PROVE  Timing(T)'
<1>1. UNCHANGED <<tm, list, temp, tick, left, order, busy>>
  BY DEF Park, Delay, CheckDone, timerVars
<1>2. StableOrder'
  BY <1>1 DEF Timing, StableOrder
<1>3. CASE Park
  BY <1>1, <1>2, <1>3 DEF Park, Timing, InTime, Peeked
<1>4. CASE Delay
  <2>1. at = "delay" /\ at' = "check" /\ wake' = next /\ slip' = slip /\ ~busy
    BY <1>4 DEF Delay, Runs, SoftInv
  <2> QED BY <1>1, <1>2, <2>1 DEF Timing, InTime, Peeked
<1>5. CASE CheckDone
  <2>1. stat = "ready" /\ stat' = "ready" /\ at' = "next"
    BY <1>5 DEF CheckDone, Runs
  <2> QED BY <1>1, <1>2, <2>1 DEF Timing, InTime, Peeked
<1> QED BY <1>3, <1>4, <1>5

\* rt_soft_timer_check calls a timeout function.
LEMMA FireInTime ==
  ASSUME NEW T, SoftInv, Timing(T), Fire
  PROVE  Timing(T)'
<1>1. stat = "ready" /\ stat' = "ready" /\ at' = "call"
  BY DEF Fire, Runs
<1>2. PICK t \in Timers : Removed(t) /\ ToSet(list)' = ToSet(list) \ {t}
  BY FireKeeps
<1>3. /\ StableOrder'
      /\ \A u \in ToSet(list)' : u \in ToSet(list) /\ left'[u] = left[u]
  BY <1>2, RemovedTiming
<1> QED BY <1>1, <1>3 DEF Timing, InTime, Peeked

\* The timeout function returns.
LEMMA ReturnInTime ==
  ASSUME NEW T, EnoughRoom(T), SoftInv, Timing(T), CallbackReturn
  PROVE  Timing(T)'
<1>1. stat = "ready" /\ stat' = "ready" /\ at' = "check" /\ cur \in Timers /\ tick' = tick
  BY ReturnStarts DEF CallbackReturn, Runs
<1>2. CASE tm[cur].live /\ StartTimer(cur)
  <2>1. /\ StableOrder'
        /\ \A u \in ToSet(list)' : \/ u \in ToSet(list) /\ left'[u] = left[u]
                                   \/ left'[u] \in Nat /\ left'[u] <= T
    BY <1>1, <1>2, StartTiming
  <2>2. \A u \in ToSet(list)' : -Late(T) <= left'[u] /\ left'[u] <= T
    BY <2>1, RoomFacts DEF Timing, InTime
  <2> QED BY <1>1, <2>1, <2>2 DEF Timing, InTime, Peeked
<1>3. CASE UNCHANGED <<tm, list, left, order>>
  BY <1>1, <1>3 DEF Timing, StableOrder, InTime, Peeked
<1> QED BY <1>2, <1>3, ReturnStarts

\* The timeout function sleeps.
LEMMA BlockInTime ==
  ASSUME NEW T, EnoughRoom(T), SoftInv, Timing(T), NEW ticks \in Times, CallbackBlocks(ticks)
  PROVE  Timing(T)'
<1>1. /\ at = "call" /\ busy /\ stat' = "asleep" /\ wake' = ticks
      /\ \A u \in ToSet(list) : left[u] > -MaxLate
      /\ UNCHANGED <<tm, list, temp, tick, left, order, at, cur, next, busy, slip>>
  BY DEF CallbackBlocks, OnTime, Runs, SoftInv, timerVars
<1>2. ticks \in Nat /\ ticks <= T
  BY RoomFacts
<1>3. ASSUME NEW u \in ToSet(list) PROVE InTime(u, T)'
  <2>1. left[u] \in Int /\ left[u] > -MaxLate /\ left[u] <= T
    BY <1>1, TimeTypes DEF Timing, InTime
  <2>2. -Late(T) < left[u] /\ -Late(T) <= left[u] /\ -Late(T) <= left[u] - ticks
    BY <1>2, <2>1, RoomFacts
  <2>3. at' # "delay" /\ busy' /\ left'[u] = left[u] /\ wake' = ticks
    BY <1>1
  <2> QED BY <2>1, <2>2, <2>3 DEF InTime
<1> QED BY <1>1, <1>2, <1>3 DEF Timing, StableOrder, Peeked

\* rt_timer_start wakes a timer thread that sleeps until the next timeout.
LEMMA StartInTime ==
  ASSUME NEW T, EnoughRoom(T), ~Preempts, SoftInv, Timing(T), NEW t \in Timers, Start(t)
  PROVE  Timing(T)'
<1>1. /\ tm[t].live /\ StartTimer(t) /\ (stat # "ready" \/ at = "call")
      /\ UNCHANGED <<tick, at, cur, next, busy, slip>>
      /\ IF ~busy THEN stat' = "ready" /\ wake' = 0 ELSE UNCHANGED <<stat, wake>>
  BY DEF Start, WakeThread
<1>2. at' \notin {"peeked", "delay"}
  BY <1>1 DEF SoftInv
<1>3. /\ StableOrder'
      /\ \A u \in ToSet(list)' : \/ u \in ToSet(list) /\ left'[u] = left[u]
                                 \/ left'[u] \in Nat /\ left'[u] <= T
  BY <1>1, StartTiming
<1>4. ASSUME NEW u \in ToSet(list)' PROVE InTime(u, T)'
  <2>1. CASE u \in ToSet(list) /\ left'[u] = left[u]
    BY <1>1, <1>2, <2>1 DEF Timing, InTime
  <2>2. CASE left'[u] \in Nat /\ left'[u] <= T
    <3>1. -Late(T) <= left'[u] /\ -Late(T) < left'[u]
      BY <2>2, RoomFacts
    <3>2. busy' /\ stat' = "asleep" => -Late(T) <= left'[u] - wake'
      <4> SUFFICES ASSUME busy', stat' = "asleep" PROVE -Late(T) <= left'[u] - wake'
        OBVIOUS
      <4>1. wake' <= T /\ wake' \in Nat
        BY <1>1, TimeTypes DEF Timing
      <4> QED BY <2>2, <4>1, RoomFacts
    <3>3. ~(~busy' /\ stat' = "asleep")
      BY <1>1
    <3> QED BY <1>2, <2>2, <3>1, <3>2, <3>3 DEF InTime
  <2> QED BY <1>3, <2>1, <2>2
<1>5. busy' /\ stat' = "asleep" => wake' <= T
  BY <1>1 DEF Timing
<1> QED BY <1>2, <1>3, <1>4, <1>5 DEF Timing, Peeked

\* The other services take timers off the list, or leave it alone.
LEMMA ServiceInTime ==
  ASSUME NEW T, SoftInv, Timing(T), NEW t \in Timers, UNCHANGED <<tick, softVars>>,
         \/ Removed(t) /\ ToSet(list)' = ToSet(list) \ {t}
         \/ UNCHANGED <<list, left, order>>
  PROVE  Timing(T)'
<1>1. /\ StableOrder'
      /\ \A u \in ToSet(list)' : u \in ToSet(list) /\ left'[u] = left[u]
  BY RemovedTiming DEF Timing, StableOrder
<1>2. \A u \in ToSet(list)' : InTime(u, T)'
  BY <1>1 DEF Timing, InTime, softVars
<1>3. Peeked(T)'
  BY <1>1 DEF Timing, Peeked, softVars
<1> QED BY <1>1, <1>2, <1>3 DEF Timing, softVars

\* The tick interrupt: what is linked has one tick less to run.
LEMMA TickInTime ==
  ASSUME NEW T, EnoughRoom(T), ~Preempts, SoftInv, Timing(T), Tick
  PROVE  Timing(T)'
<1>1. /\ stat = "ready" => \A u \in ToSet(list) : left[u] > -MaxLate
      /\ tick' = (tick + 1) % W
      /\ UNCHANGED <<tm, list, temp, order, at, cur, next, busy>>
  BY DEF Tick, OnTime, Advance
<1>2. \A u \in ToSet(list) : left'[u] = left[u] - 1
  BY TimeTypes DEF Tick, Advance
<1>3. StableOrder'
  BY <1>1, AdvanceStable DEF SoftInv, Timing, Tick
<1>4. busy' /\ stat' = "asleep" => wake' <= T
  <2> SUFFICES ASSUME busy', stat' = "asleep" PROVE wake' <= T
    OBVIOUS
  <2>1. busy /\ stat = "asleep" /\ wake' = wake - 1
    BY <1>1 DEF Tick
  <2>2. wake <= T /\ wake \in Nat
    BY <2>1, TimeTypes DEF Timing
  <2> QED BY <2>1, <2>2, RoomFacts
<1>5. ASSUME NEW u \in ToSet(list) PROVE InTime(u, T)'
  <2>1. /\ left[u] \in Int /\ -Late(T) <= left[u] /\ left[u] <= T
        /\ left'[u] = left[u] - 1
    BY <1>2, <1>5, TimeTypes DEF Timing, InTime
  <2>2. /\ busy /\ stat = "asleep" => -Late(T) < left[u] /\ -Late(T) <= left[u] - wake
        /\ at = "delay" => next <= left[u] + slip
        /\ ~busy /\ stat = "asleep" => wake <= left[u] + slip
    BY <1>5 DEF Timing, InTime
  <2>3. left'[u] <= T
    BY <2>1, RoomFacts
  <2>4. CASE stat = "ready"
    <3>1. stat' = "ready" /\ left[u] > -MaxLate
      BY <1>1, <1>5, <2>4 DEF Tick
    <3>2. -Late(T) <= left'[u]
      BY <2>1, <3>1, RoomFacts
    <3>3. ASSUME at' = "delay" PROVE next' <= left'[u] + slip'
      <4>1. at = "delay" /\ next' = next /\ slip' = slip + 1
        BY <1>1, <2>4, <3>3 DEF Tick, InWindow
      <4>2. next \in Int /\ slip \in Int
        BY TimeTypes, TimerAssumption
      <4> QED BY <2>1, <2>2, <4>1, <4>2
    <3> QED BY <2>3, <3>1, <3>2, <3>3 DEF InTime
  <2>5. CASE stat = "asleep"
    <3>1. /\ at' \notin {"peeked", "delay"} /\ slip' = slip /\ (busy' <=> busy)
          /\ wake <= 1 => stat' = "ready"
          /\ ~(wake <= 1) => stat' = "asleep" /\ wake' = wake - 1
      BY <1>1, <2>5 DEF Tick, InWindow, SoftInv
    <3>2. wake \in Nat /\ slip \in Nat /\ slip <= MaxSlip
      BY TimeTypes
    <3>3. CASE busy
      <4>1. -Late(T) <= left'[u]
        BY <2>1, <2>2, <2>5, <3>3, RoomFacts
      <4>2. ~(wake <= 1) => -Late(T) < left'[u] /\ -Late(T) <= left'[u] - (wake - 1)
        BY <2>1, <2>2, <2>5, <3>2, <3>3, RoomFacts
      <4> QED BY <2>3, <3>1, <3>3, <4>1, <4>2 DEF InTime
    <3>4. CASE ~busy
      <4>1. -Late(T) <= left'[u]
        BY <2>1, <2>2, <2>5, <3>2, <3>4, RoomFacts
      <4>2. wake - 1 <= left'[u] + slip
        BY <2>1, <2>2, <2>5, <3>2, <3>4
      <4> QED BY <2>3, <3>1, <3>4, <4>1, <4>2 DEF InTime
    <3> QED BY <3>3, <3>4
  <2>6. stat # "parked"
    <3>1. ToSet(<<>>) = {}
      BY DEF ToSet
    <3> QED BY <3>1, <1>5 DEF SoftInv, Parks
  <2> QED BY <2>4, <2>5, <2>6 DEF SoftInv, ThreadTypes
<1>6. Peeked(T)'
  <2> SUFFICES ASSUME at' = "peeked"
               PROVE  \E n \in Int :
                        /\ next' = (tick' + n) % W
                        /\ \A u \in ToSet(list)' : n <= left'[u] /\ left'[u] <= n + T + Late(T)
    BY DEF Peeked
  <2>1. PICK n \in Int :
          /\ next = (tick + n) % W
          /\ \A u \in ToSet(list) : n <= left[u] /\ left[u] <= n + T + Late(T)
    BY <1>1 DEF Timing, Peeked
  <2>2. PICK m \in Int : m = n - 1
    OBVIOUS
  <2>3. next' = (tick' + m) % W
    BY <1>1, <2>1, <2>2, TimeTypes, SameTimeout
  <2>4. ASSUME NEW u \in ToSet(list) PROVE m <= left'[u] /\ left'[u] <= m + T + Late(T)
    <3>1. left[u] \in Int /\ left'[u] = left[u] - 1
      BY <1>2, TimeTypes
    <3> QED BY <2>1, <2>2, <3>1, RoomFacts
  <2> QED BY <1>1, <2>3, <2>4
<1> QED BY <1>1, <1>3, <1>4, <1>5, <1>6 DEF Timing

\* Nothing gets late when nothing happens.
LEMMA TimingStutter ==
  ASSUME NEW T, Timing(T), UNCHANGED <<timerVars, softVars>>
  PROVE  Timing(T)'
<1>1. StableOrder'
  BY DEF Timing, StableOrder, timerVars
<1>2. \A u \in ToSet(list') : InTime(u, T)'
  BY DEF Timing, InTime, timerVars, softVars
<1> QED BY <1>1, <1>2 DEF Timing, Peeked, timerVars, softVars

\* Every step of the timer thread, of the services and of the tick interrupt.
LEMMA TimingNext ==
  ASSUME NEW T, EnoughRoom(T), ~Preempts, SoftInv, Timing(T), [SoftNext]_<<timerVars, softVars>>
  PROVE  Timing(T)'
<1>1. ASSUME ThreadStep PROVE Timing(T)'
  BY <1>1, NextTimeoutInTime, ReadTickInTime, WaitsInTime, FireInTime, ReturnInTime
     DEF ThreadStep
<1>2. ASSUME Service PROVE Timing(T)'
  <2>1. PICK t \in Timers :
          \/ Start(t) \/ Stop(t) \/ Detach(t)
          \/ \E time \in Times, periodic \in BOOLEAN :
                InitAgain(t, time, periodic) \/ Control(t, time, periodic)
    BY <1>2 DEF Service
  <2>2. CASE Start(t)
    BY <2>2, StartInTime
  <2>3. CASE ~Start(t)
    BY <2>1, <2>3, ServiceKeeps, ServiceInTime
  <2> QED BY <2>2, <2>3
<1>3. ASSUME NEW ticks \in Times, CallbackBlocks(ticks) PROVE Timing(T)'
  BY <1>3, BlockInTime
<1> QED BY <1>1, <1>2, <1>3, TickInTime, TimingStutter DEF SoftNext

\* The first timer is the next to expire, and the timer thread is told so.
LEMMA TimelyWakeup ==
  ASSUME NEW T, SoftInv, Timing(T)
  PROVE  StableOrder /\ NoOversleep
<1> SUFFICES ASSUME stat = "asleep", ~busy, list # <<>>
             PROVE  wake <= left[Head(list)] + slip
  BY DEF NoOversleep, Timing
<1>1. Head(list) \in ToSet(list)
  BY FirstExpires DEF SoftInv, Timing
<1> QED BY <1>1 DEF Timing, InTime

\* The list of soft timers is in the order of the timeouts, first started first, and the
\* timer thread never sleeps past the first of them, whatever is started, stopped or
\* reset while it sleeps and wherever the tick wraps around: so long as periods and
\* delays leave room in half the range of the tick, and no timer is started between the
\* timer thread's look at the list and its going to sleep.
THEOREM TimersInOrder ==
  ASSUME NEW CONSTANT T, EnoughRoom(T), ~Preempts
  PROVE  SoftSpec => [](StableOrder /\ NoOversleep)
<1>1. SoftInv /\ Timing(T) => StableOrder /\ NoOversleep
  BY TimelyWakeup
<1>2. SoftInit => Timing(T)
  BY TimingInit
<1>3. SoftInv /\ Timing(T) /\ [SoftNext]_<<timerVars, softVars>> => Timing(T)'
  BY TimingNext
<1> QED BY <1>1, <1>2, <1>3, SoftInvariance, PTL DEF SoftSpec

-----------------------------------------------------------------------------
(* The hard timers.  HardTimer has lists of its own, on the same           *)
(* operations; the lemmas on lists serve both.                             *)

\* Lists that HardTimer unlinks timers from.
LEMMA SameLists ==
  ASSUME NEW s, NEW t, NEW i
  PROVE  /\ Hard!Without(s, t) = Without(s, t)
         /\ Hard!InsertAt(s, i, t) = InsertAt(s, i, t)
         /\ Hard!Place(s, i) = Place(s, i)
BY DEF Hard!Without, Without, Hard!InsertAt, InsertAt, Hard!Place, Place, Hard!RemoveFirst,
       RemoveFirst, Hard!SelectInSeq, SelectInSeq, Hard!RemoveAt, RemoveAt, Hard!Min, Min,
       Hard!Later, Later, Hard!HALF, HALF

\* rt_timer_start does the same with hard timers.
LEMMA SameStart ==
  ASSUME NEW t, Hard!StartTimer(t)
  PROVE  StartTimer(t)
<1>1. PICK rest : rest = Without(list, t) /\ rest = Hard!Without(list, t)
  BY SameLists
<1>2. PICK others : others = Without(order, t) /\ others = Hard!Without(order, t)
  BY SameLists
<1>3. PICK timeout : timeout = (tick + tm[t].init) % W
  OBVIOUS
<1>4. PICK new : /\ new = InsertAt(rest, Place(rest, timeout), t)
                 /\ new = Hard!InsertAt(rest, Hard!Place(rest, timeout), t)
  BY SameLists
<1> QED BY <1>1, <1>2, <1>3, <1>4, Zenon DEF Hard!StartTimer, StartTimer

\* So do the other services and the check of the first timer.
LEMMA SameOperations ==
  ASSUME NEW t
  PROVE  /\ Hard!StopTimer(t) => StopTimer(t)
         /\ Hard!DetachTimer(t) => DetachTimer(t)
         /\ Hard!TakeExpired(t) => TakeExpired(t)
         /\ \A time, periodic : /\ Hard!InitTimer(t, time, periodic) => InitTimer(t, time, periodic)
                                /\ Hard!SetTimer(t, time, periodic) => SetTimer(t, time, periodic)
<1>1. \A stop : Hard!UnlinkTimer(t, stop) => UnlinkTimer(t, stop)
  BY SameLists, Zenon DEF Hard!UnlinkTimer, UnlinkTimer
<1>2. Hard!NoFields = NoFields /\ \A now, timeout : Hard!Reached(now, timeout) = Reached(now, timeout)
  BY DEF Hard!NoFields, NoFields, Hard!Reached, Reached, Hard!HALF, HALF
<1> QED BY <1>1, <1>2, SameLists, Zenon
        DEF Hard!StopTimer, StopTimer, Hard!DetachTimer, DetachTimer, Hard!TakeExpired,
            TakeExpired, Hard!InitTimer, InitTimer, Hard!SetTimer, SetTimer

\* The passing of a tick, and what is said of a list.
LEMMA SameProperties ==
  /\ Hard!Advance => Advance
  /\ Hard!NothingExpired => NothingExpired
  /\ TimersTypeOK => Hard!TimersTypeOK
  /\ StableOrder => Hard!StableOrder
  /\ ActiveIsLinked => Hard!ActiveIsLinked
BY Zenon DEF Hard!Advance, Advance, Hard!NothingExpired, NothingExpired, Hard!Reached, Reached,
             Hard!HALF, HALF, Hard!TimersTypeOK, TimersTypeOK, Hard!Ticks, Ticks,
             Hard!StableOrder, StableOrder, Hard!Index, Index, Hard!ActiveIsLinked,
             ActiveIsLinked, Hard!ToSet, ToSet, Hard!IsInjective, IsInjective

\* No linked timer is overdue.
NoneLate == \A u \in ToSet(list) : 0 <= left[u]

\* What a service that works on timer t does to the lists.
Settled(t) ==
  /\ TimersInv'
  /\ ~SetBusy /\ Served => Served'
  /\ 0 \notin Times /\ StableOrder /\ NoneLate =>
       /\ StableOrder'
       /\ \A u \in ToSet(list)' : \/ u \in ToSet(list) /\ left'[u] = left[u]
                                  \/ 0 < left'[u]
  /\ temp' = temp \/ temp' = NoTimer

\* A timer is started after timers that are not late.
LEMMA StartSettles ==
  ASSUME TimersInv, NEW t \in Timers, tm[t].live, StartTimer(t), tick' = tick
  PROVE  Settled(t)
<1>1. /\ TimersInv' /\ ToSet(list)' = ToSet(list) \cup {t}
      /\ tm[t].init \in Times /\ left'[t] = tm[t].init
      /\ \A u \in Timers : u # t => left'[u] = left[u]
      /\ temp' = IF temp = t THEN NoTimer ELSE temp
  BY StartSound
<1>2. Served => Served'
  BY StartServes
<1>3. ASSUME 0 \notin Times, StableOrder, NoneLate
      PROVE  /\ StableOrder'
             /\ \A u \in ToSet(list)' : \/ u \in ToSet(list) /\ left'[u] = left[u]
                                        \/ 0 < left'[u]
  <2>1. tm[t].init \in 0 .. HALF - 1
    BY <1>1, TimerAssumption, Zenon
  <2>2. tm[t].init \in Nat /\ 0 < tm[t].init /\ tm[t].init < HALF
    BY <1>1, <1>3, <2>1, HalfTurn
  <2>3. \A u \in ToSet(list) : left[u] \in Int /\ u \in Timers
    BY ElementsIn DEF TimersInv, TimersTypeOK
  <2>4. Comparable(t)
    BY <1>3, <2>2, <2>3, HalfTurn, TimerAssumption DEF Comparable, NoneLate
  <2>5. StableOrder'
    BY <1>3, <2>4, StartStable
  <2> QED BY <1>1, <2>2, <2>3, <2>5
<1> QED BY <1>1, <1>2, <1>3 DEF Settled

\* A timer is taken off the list.
LEMMA RemovalSettles ==
  ASSUME TimersInv, NEW t \in Timers, Removed(t), ToSet(list)' = ToSet(list) \ {t}, StableOrder
  PROVE  /\ StableOrder'
         /\ \A u \in ToSet(list)' : u \in ToSet(list) /\ left'[u] = left[u]
<1>1. StableOrder'
  BY RemovedStable
<1>2. \A u \in ToSet(list) : u \in Timers
  BY ElementsIn DEF TimersInv, TimersTypeOK
<1>3. left \in [Timers -> Int]
  BY DEF TimersInv, TimersTypeOK
<1> QED BY <1>1, <1>2, <1>3 DEF Removed

\* rt_timer_stop
LEMMA StopSettles ==
  ASSUME TimersInv, NEW t \in Timers, StopTimer(t), tick' = tick
  PROVE  Settled(t)
<1>1. /\ TimersInv' /\ Removed(t) /\ ToSet(list)' = ToSet(list) \ {t} /\ ~tm'[t].active
      /\ \A u \in Timers : /\ u # t => tm'[u].active = tm[u].active
                           /\ tm'[u].periodic = tm[u].periodic
  BY StopSound
<1>2. temp' = (IF temp = t THEN NoTimer ELSE temp) /\ temp \in Timers \cup {NoTimer}
  BY DEF StopTimer, TimersInv, TimersTypeOK
<1>3. Served => Served'
  BY <1>1, <1>2 DEF Served
<1> QED BY <1>1, <1>2, <1>3, RemovalSettles DEF Settled

\* rt_timer_detach, rt_timer_delete
LEMMA DetachSettles ==
  ASSUME TimersInv, NEW t \in Timers, DetachTimer(t), tick' = tick
  PROVE  Settled(t)
<1>1. /\ TimersInv' /\ Removed(t) /\ ToSet(list)' = ToSet(list) \ {t} /\ ~tm'[t].active
      /\ \A u \in Timers : u # t => tm'[u] = tm[u]
  BY DetachSound
<1>2. temp' = (IF temp = t THEN NoTimer ELSE temp) /\ temp \in Timers \cup {NoTimer}
  BY DEF DetachTimer, TimersInv, TimersTypeOK
<1>3. Served => Served'
  BY <1>1, <1>2 DEF Served
<1> QED BY <1>1, <1>2, <1>3, RemovalSettles DEF Settled

\* rt_timer_init and rt_timer_control
LEMMA FieldsSettle ==
  ASSUME TimersInv, NEW t \in Timers, NEW time \in Times, NEW periodic \in BOOLEAN,
         InitTimer(t, time, periodic) \/ (tm[t].live /\ SetTimer(t, time, periodic)),
         tick' = tick
  PROVE  Settled(t)
<1>1. UNCHANGED <<list, temp, left, order>> /\ temp \in Timers \cup {NoTimer}
  BY DEF InitTimer, SetTimer, TimersInv, TimersTypeOK
<1>2. CASE InitTimer(t, time, periodic)
  <2>1. /\ TimersInv' /\ t # temp
        /\ \A u \in Timers : /\ tm'[u].active = tm[u].active
                             /\ u # t => tm'[u].periodic = tm[u].periodic
    BY <1>2, InitSound
  <2>2. Served => Served'
    BY <1>1, <2>1 DEF Served
  <2> QED BY <1>1, <2>1, <2>2 DEF Settled, StableOrder
<1>3. CASE tm[t].live /\ SetTimer(t, time, periodic)
  <2>1. /\ TimersInv'
        /\ \A u \in Timers : /\ tm'[u].active = tm[u].active
                             /\ u # t => tm'[u].periodic = tm[u].periodic
                             /\ u = temp /\ ~SetBusy => tm'[u].periodic = tm[u].periodic
    BY <1>3, SetSound
  <2>2. ~SetBusy /\ Served => Served'
    BY <1>1, <2>1 DEF Served
  <2> QED BY <1>1, <2>1, <2>2 DEF Settled, StableOrder
<1> QED BY <1>2, <1>3

\* Where the interrupt is, and what that says of the lists: if no timer is given zero
\* ticks, nothing is overdue, and outside of the interrupt nothing is due.
HardInv ==
  /\ TimersInv
  /\ isr \in {"off", "check", "call"}
  /\ cur \in Timers \cup {NoTimer} /\ stopping \in Timers \cup {NoTimer}
  /\ isr = "call" => cur \in Timers
  /\ temp # NoTimer => isr = "call" /\ temp = cur
  /\ stopping # NoTimer => tm[stopping].live
  /\ ~SetBusy => Served
  /\ 0 \notin Times =>
       /\ StableOrder /\ NoneLate
       /\ isr = "off" => \A u \in ToSet(list) : 0 < left[u]

\* There are no timers at first.
LEMMA HardInitial == Hard!HardInit => HardInv
<1> SUFFICES ASSUME Hard!HardInit PROVE HardInv
  OBVIOUS
<1>1. /\ tm = [t \in Timers |-> NoFields] /\ list = <<>> /\ temp = NoTimer /\ tick = 0
      /\ left = [t \in Timers |-> 0] /\ order = <<>>
      /\ isr = "off" /\ cur = NoTimer /\ stopping = NoTimer
  BY DEF Hard!HardInit, Hard!TimersInit, Hard!NoFields, NoFields
<1>2. NoFields \in Fields /\ 0 \in Ticks /\ ~NoFields.live /\ ~NoFields.active
  BY TimerAssumption DEF Fields, NoFields, Ticks
<1>3. ToSet(<<>>) = {} /\ IsInjective(<<>>)
  BY DEF ToSet, IsInjective
<1>4. TimersInv
  BY <1>1, <1>2, <1>3 DEF TimersInv, TimersTypeOK, Fields
<1> QED BY <1>1, <1>2, <1>3, <1>4 DEF HardInv, Served, StableOrder, NoneLate

\* A service that does not touch the timer another thread is about to stop.
LEMMA ServiceSettled ==
  ASSUME HardInv, NEW t \in Timers, Settled(t), UNCHANGED <<isr, cur>>,
         stopping' = NoTimer \/ (stopping' = stopping /\ tm'[stopping].live)
  PROVE  HardInv'
<1>1. 0 \notin Times =>
        /\ StableOrder' /\ NoneLate'
        /\ isr' = "off" => \A u \in ToSet(list)' : 0 < left'[u]
  <2> SUFFICES ASSUME 0 \notin Times
               PROVE  /\ StableOrder' /\ NoneLate'
                      /\ isr' = "off" => \A u \in ToSet(list)' : 0 < left'[u]
    OBVIOUS
  <2>1. /\ StableOrder'
        /\ \A u \in ToSet(list)' : \/ u \in ToSet(list) /\ left'[u] = left[u]
                                   \/ 0 < left'[u]
    BY DEF HardInv, Settled
  <2>2. \A u \in ToSet(list)' : left'[u] \in Int
    BY ElementsIn DEF Settled, TimersInv, TimersTypeOK
  <2>3. \A u \in ToSet(list)' : 0 <= left'[u] /\ (isr' = "off" => 0 < left'[u])
    BY <2>1, <2>2 DEF HardInv, NoneLate
  <2> QED BY <2>1, <2>3 DEF NoneLate
<1> QED BY <1>1 DEF HardInv, Settled

\* Whether timers exist after a service.
LEMMA LiveKept ==
  ASSUME TimersInv, NEW t \in Timers, NEW u \in Timers, tm[u].live
  PROVE  /\ StartTimer(t) => tm'[u].live
         /\ StopTimer(t) => tm'[u].live
         /\ DetachTimer(t) /\ u # t => tm'[u].live
         /\ \A time, periodic : InitTimer(t, time, periodic) \/ SetTimer(t, time, periodic) =>
              tm'[u].live
<1>1. tm \in [Timers -> Fields]
  BY DEF TimersInv, TimersTypeOK, Fields
<1>2. StartTimer(t) => tm'[u].live
  BY <1>1 DEF StartTimer, Fields
<1>3. StopTimer(t) => tm'[u].live
  BY <1>1 DEF StopTimer, UnlinkTimer, Fields
<1>4. DetachTimer(t) /\ u # t => tm'[u].live
  BY <1>1 DEF DetachTimer
<1>5. ASSUME NEW time, NEW periodic, InitTimer(t, time, periodic) \/ SetTimer(t, time, periodic)
      PROVE  tm'[u].live
  BY <1>1, <1>5 DEF InitTimer, SetTimer, Fields
<1> QED BY <1>2, <1>3, <1>4, <1>5

\* The services of threads and of timeout functions.
LEMMA HardServices ==
  ASSUME HardInv, Hard!Service \/ Hard!StopEnd
  PROVE  HardInv'
<1> USE DEF HardInv
<1>1. ASSUME NEW t \in Timers, Hard!Start(t) PROVE HardInv'
  <2>1. tm[t].live /\ StartTimer(t) /\ UNCHANGED <<tick, isr, cur, stopping>>
    BY <1>1, SameStart DEF Hard!Start, Hard!hardVars
  <2> QED BY <2>1, StartSettles, ServiceSettled, LiveKept
<1>2. ASSUME NEW t \in Timers, Hard!StopInCallback(t) PROVE HardInv'
  <2>1. StopTimer(t) /\ UNCHANGED <<tick, isr, cur, stopping>>
    BY <1>2, SameOperations DEF Hard!StopInCallback, Hard!hardVars
  <2> QED BY <2>1, StopSettles, ServiceSettled, LiveKept
<1>3. ASSUME NEW t \in Timers, Hard!StopTest(t) PROVE HardInv'
  <2>1. tm[t].active /\ stopping' = t /\ UNCHANGED <<tm, list, temp, tick, left, order, isr, cur>>
    BY <1>3 DEF Hard!StopTest, Hard!timerVars
  <2>2. TimersInv'
    BY <2>1 DEF TimersInv, TimersTypeOK, Deadline
  <2> QED BY <2>1, <2>2 DEF TimersInv, Served, StableOrder, NoneLate
<1>4. ASSUME NEW t \in Timers, Hard!Detach(t) PROVE HardInv'
  <2>1. DetachTimer(t) /\ t # stopping /\ UNCHANGED <<tick, isr, cur, stopping>>
    BY <1>4, SameOperations DEF Hard!Detach, Hard!hardVars
  <2> QED BY <2>1, DetachSettles, ServiceSettled, LiveKept
<1>5. ASSUME NEW t \in Timers, NEW time \in Times, NEW periodic \in BOOLEAN,
             Hard!InitAgain(t, time, periodic) \/ Hard!Control(t, time, periodic)
      PROVE  HardInv'
  <2>1. /\ \/ InitTimer(t, time, periodic)
           \/ tm[t].live /\ SetTimer(t, time, periodic)
        /\ UNCHANGED <<tick, isr, cur, stopping>>
    BY <1>5, SameOperations DEF Hard!InitAgain, Hard!Control, Hard!hardVars
  <2> QED BY <2>1, FieldsSettle, ServiceSettled, LiveKept
<1>6. ASSUME Hard!StopEnd PROVE HardInv'
  <2>1. stopping \in Timers /\ StopTimer(stopping) /\ stopping' = NoTimer
        /\ UNCHANGED <<tick, isr, cur>>
    BY <1>6, SameOperations DEF Hard!StopEnd
  <2> QED BY <2>1, StopSettles, ServiceSettled
<1> QED BY <1>1, <1>2, <1>3, <1>4, <1>5, <1>6 DEF Hard!Service

\* The tick interrupt calls the timeout function of a timer that is due.
LEMMA HardFires ==
  ASSUME HardInv, Hard!Fire
  PROVE  /\ HardInv' /\ isr = "check"
         /\ \E t \in Timers : cur' = t /\ left[t] <= 0
<1> USE DEF HardInv
<1>1. PICK t \in Timers : TakeExpired(t) /\ cur' = t
  BY SameOperations DEF Hard!Fire
<1>2. isr = "check" /\ isr' = "call" /\ UNCHANGED <<tick, stopping>>
  BY DEF Hard!Fire
<1>3. /\ TimersInv' /\ Removed(t) /\ ToSet(list)' = ToSet(list) \ {t}
      /\ temp' = t /\ t \in ToSet(list) /\ left[t] <= 0
      /\ tm'[t].active = tm'[t].periodic /\ \A u \in Timers : u # t => tm'[u] = tm[u]
  BY <1>1, <1>2, TakeSound
<1>4. temp = NoTimer /\ (Served => Served')
  BY <1>2, <1>3, TimerAssumption DEF Served
<1>5. stopping # NoTimer => tm'[stopping].live
  BY <1>3 DEF TimersInv
<1>6. 0 \notin Times => StableOrder' /\ NoneLate'
  BY <1>3, RemovalSettles DEF NoneLate
<1> QED BY <1>1, <1>2, <1>3, <1>4, <1>5, <1>6

\* The timeout function returns, and a periodic timer starts again.
LEMMA HardReturns ==
  ASSUME HardInv, Hard!CallbackReturn
  PROVE  HardInv'
<1> USE DEF HardInv
<1>1. PICK t \in Timers : t = cur
  BY DEF Hard!CallbackReturn
<1>2. /\ isr = "call" /\ isr' = "check" /\ cur' = NoTimer /\ UNCHANGED <<tick, stopping>>
      /\ Hard!Restart(t)
  BY <1>1 DEF Hard!CallbackReturn
<1>3. CASE tm[t].live /\ StartTimer(t)
  <2>1. Settled(t) /\ temp' = NoTimer
    BY <1>1, <1>2, <1>3, StartSettles, StartSound
  <2>2. 0 \notin Times => StableOrder' /\ NoneLate'
    <3>1. \A u \in ToSet(list)' : left'[u] \in Int
      BY <2>1, ElementsIn DEF Settled, TimersInv, TimersTypeOK
    <3> QED BY <2>1, <3>1 DEF Settled, NoneLate
  <2>3. stopping # NoTimer => tm'[stopping].live
    BY <1>3, LiveKept
  <2> QED BY <1>2, <2>1, <2>2, <2>3 DEF Settled
<1>4. CASE /\ UNCHANGED <<tm, list, left, order>> /\ temp' = NoTimer
           /\ ~(temp # NoTimer /\ tm[t].periodic /\ tm[t].active)
  <2>1. TimersTypeOK'
    BY <1>2, <1>4 DEF TimersInv, TimersTypeOK, Ticks
  <2>2. NoTimer \notin ToSet(list)
    BY ElementsIn, TimerAssumption DEF TimersInv, TimersTypeOK
  <2>3. TimersInv'
    BY <1>2, <1>4, <2>1, <2>2 DEF TimersInv, Deadline
  <2>4. Served => Served'
    BY <1>1, <1>4 DEF Served, TimersInv, TimersTypeOK
  <2> QED BY <1>2, <1>4, <2>3, <2>4 DEF StableOrder, NoneLate
<1>5. tm[t].active => tm[t].live
  BY DEF TimersInv
<1> QED BY <1>2, <1>3, <1>4, <1>5, SameStart DEF Hard!Restart

\* One tick goes by before the interrupt looks at the list.
LEMMA HardTicks ==
  ASSUME HardInv, Hard!Tick
  PROVE  HardInv'
<1> USE DEF HardInv
<1>1. /\ Advance /\ isr = "off" /\ isr' = "check"
      /\ UNCHANGED <<tm, list, temp, order, cur, stopping>>
  BY SameProperties DEF Hard!Tick
<1>2. TimersInv'
  BY <1>1, AdvanceSound
<1>3. 0 \notin Times => StableOrder' /\ NoneLate'
  <2>1. \A u \in ToSet(list) : left'[u] = left[u] - 1 /\ left[u] \in Int
    BY <1>1, ElementsIn DEF Advance, TimersInv, TimersTypeOK
  <2> QED BY <1>1, <2>1, AdvanceStable DEF NoneLate
<1> QED BY <1>1, <1>2, <1>3 DEF Served

\* A timer that has no time left is found.
LEMMA DueIsReached ==
  ASSUME TimersInv, NEW t \in ToSet(list), left[t] = 0
  PROVE  Reached(tick, tm[t].timeout)
<1>1. tick \in 0 .. W - 1 /\ 0 < HALF /\ tm[t].timeout = (tick + 0) % W /\ W \in Nat \ {0}
  BY TimerAssumption DEF TimersInv, TimersTypeOK, Ticks, Deadline
<1>2. PICK now \in Int : now = tick /\ 0 <= now /\ now < W
  BY <1>1
<1>3. now % W = now /\ 0 % W = 0
  <2>1. 0 <= now /\ now < W => now % W = now
    BY <1>1, NearTicks
  <2>2. 0 <= 0 /\ 0 < W => 0 % W = 0
    BY <1>1, NearTicks
  <2> QED BY <1>1, <1>2, <2>1, <2>2
<1>4. tm[t].timeout = now /\ tick - tm[t].timeout = 0
  BY <1>1, <1>2, <1>3
<1> QED BY <1>1, <1>3, <1>4 DEF Reached

\* The interrupt ends when no timer is due.
LEMMA HardCheckDone ==
  ASSUME HardInv, Hard!CheckDone
  PROVE  HardInv'
<1> USE DEF HardInv
<1>1. /\ NothingExpired /\ isr = "check" /\ isr' = "off"
      /\ UNCHANGED <<tm, list, temp, tick, left, order, cur, stopping>>
  BY SameProperties DEF Hard!CheckDone, Hard!timerVars
<1>2. TimersInv'
  BY <1>1 DEF TimersInv, TimersTypeOK, Deadline
<1>3. ASSUME 0 \notin Times, NEW u \in ToSet(list) PROVE 0 < left[u]
  <2>1. list # <<>>
    <3>1. ToSet(<<>>) = {}
      BY DEF ToSet
    <3> QED BY <1>3, <3>1
  <2>2. Head(list) \in ToSet(list) /\ left[Head(list)] <= left[u]
    BY <1>3, <2>1, FirstExpires
  <2>3. left[Head(list)] # 0
    BY <1>1, <2>1, <2>2, DueIsReached DEF NothingExpired
  <2>4. 0 <= left[Head(list)] /\ left[Head(list)] \in Int /\ left[u] \in Int
    BY <1>3, <2>2, ElementsIn DEF NoneLate, TimersInv, TimersTypeOK
  <2> QED BY <2>2, <2>3, <2>4
<1> QED BY <1>1, <1>2, <1>3 DEF Served, StableOrder, NoneLate

\* Every step of the interrupt and of the services.
LEMMA HardStep ==
  ASSUME HardInv, [Hard!HardNext]_<<Hard!timerVars, Hard!hardVars>>
  PROVE  HardInv'
<1>1. CASE UNCHANGED <<Hard!timerVars, Hard!hardVars>>
  <2>1. UNCHANGED <<tm, list, temp, tick, left, order, isr, cur, stopping>>
    BY <1>1 DEF Hard!timerVars, Hard!hardVars
  <2>2. TimersInv'
    BY <2>1 DEF HardInv, TimersInv, TimersTypeOK, Deadline
  <2> QED BY <2>1, <2>2 DEF HardInv, Served, StableOrder, NoneLate
<1> QED BY <1>1, HardServices, HardFires, HardReturns, HardTicks, HardCheckDone
        DEF Hard!HardNext, Hard!InTick

\* rt_timer_check and the services of hard timers keep their lists consistent, wherever
\* the tick wraps around, whatever the timeout functions do to timers, and whatever
\* happens between the two halves of rt_timer_stop.
THEOREM HardInvariance == Hard!HardSpec => []HardInv
<1>1. HardInv /\ [Hard!HardNext]_<<Hard!timerVars, Hard!hardVars>> => HardInv'
  BY HardStep
<1> QED BY HardInitial, <1>1, PTL DEF Hard!HardSpec

\* What the invariant says of the list and of active timers.
LEMMA HardSettled ==
  ASSUME 0 \notin Times, HardInv
  PROVE  StableOrder /\ Hard!NoneOverdue
BY DEF HardInv, Hard!NoneOverdue, Hard!ToSet, ToSet

LEMMA HardLinked ==
  ASSUME ~SetBusy, HardInv
  PROVE  Hard!HardTypeOK /\ ActiveIsLinked
<1>1. Hard!HardTypeOK
  BY SameProperties DEF HardInv, TimersInv, Hard!HardTypeOK
<1>2. \A t \in ToSet(list) : tm[t].active /\ tm[t].live
  BY ElementsIn DEF HardInv, TimersInv, TimersTypeOK
<1> QED BY <1>1, <1>2 DEF HardInv, TimersInv, Served, ActiveIsLinked

\* The interrupt calls a timeout function when the time of its timer is over.
LEMMA HardFiresDue ==
  ASSUME HardInv, Hard!HardNext, isr = "check", isr' = "call"
  PROVE  \A t \in Timers : cur' = t => left[t] <= 0
<1>1. Hard!Fire
  BY DEF Hard!HardNext, Hard!Service, Hard!Start, Hard!StopInCallback, Hard!StopTest,
         Hard!StopEnd, Hard!Detach, Hard!InitAgain, Hard!Control, Hard!Tick, Hard!InTick,
         Hard!CallbackReturn, Hard!CheckDone, Hard!hardVars
<1> QED BY <1>1, HardFires

\* rt_timer_check forgets no timer: once the tick interrupt is over none is due, and the
\* list is in the order of the timeouts, first started first; for periods up to half of
\* the range of the tick, if none is zero.
THEOREM NoHardTimerForgotten ==
  ASSUME 0 \notin Times
  PROVE  Hard!HardSpec => [](Hard!StableOrder /\ Hard!NoneOverdue)
<1>1. HardInv => Hard!StableOrder /\ Hard!NoneOverdue
  BY HardSettled, SameProperties
<1> QED BY <1>1, HardInvariance, PTL

\* RT_TIMER_FLAG_ACTIVATED tells the truth of hard timers too.
THEOREM ActiveHardTimersLinked ==
  ASSUME ~SetBusy
  PROVE  Hard!HardSpec => [](Hard!HardTypeOK /\ Hard!ActiveIsLinked)
<1>1. HardInv => Hard!HardTypeOK /\ Hard!ActiveIsLinked
  BY HardLinked, SameProperties
<1> QED BY <1>1, HardInvariance, PTL

\* rt_timer_check calls no timeout function early.
THEOREM HardTimersNotEarly == Hard!HardSpec => Hard!NeverEarly
<1> DEFINE Early == \A t \in Timers : isr = "check" /\ isr' = "call" /\ cur' = t => left[t] <= 0
<1>1. HardInv /\ [Hard!HardNext]_<<Hard!timerVars, Hard!hardVars>>
        => [Early]_<<Hard!timerVars, Hard!hardVars>>
  BY HardFiresDue DEF Early
<1> QED BY <1>1, HardInvariance, PTL DEF Hard!HardSpec, Hard!NeverEarly

-----------------------------------------------------------------------------
(* Soft and hard timers side by side.                                      *)

\* The lists of the part that runs; soft timers rest while others run.
PartInv ==
  /\ part # "hard" => SoftInv
  /\ part = "hard" => HardInv /\ stat = "ready"
  /\ part \in {"soft", "hard", "heap"}

\* How long the timer thread sleeps, if it runs.
PartTiming(T) == part # "hard" => Timing(T)

\* A step of all services is a step of one, which leaves what others have of their own.
LEMMA PartSteps ==
  ASSUME [ServicesNext]_allVars
  PROVE  /\ part' = part
         /\ part # "hard" => [SoftNext]_<<timerVars, softVars>> /\ isr' = isr
         /\ part = "hard" => /\ [Hard!HardNext]_<<Hard!timerVars, Hard!hardVars>>
                             /\ UNCHANGED <<at, stat>>
<1>1. CASE UNCHANGED allVars
  BY <1>1 DEF allVars, timerVars, softVars, hardVars, Hard!timerVars, Hard!hardVars
<1>2. CASE InSoft(SoftNext)
  BY <1>2 DEF InSoft, hardVars
<1>3. CASE InHard(Hard!HardNext)
  BY <1>3 DEF InHard, SoftOnly
<1>4. CASE InHeap(HeapNext)
  BY <1>4 DEF InHeap, timerVars, softVars, hardVars
<1> QED BY <1>1, <1>2, <1>3, <1>4 DEF ServicesNext

\* Timers of either kind are consistent at first, and every step of a service keeps
\* them so.
THEOREM PartsInvariance == ServicesSpec => []PartInv
<1>1. ServicesInit => PartInv
  <2> SUFFICES ASSUME ServicesInit PROVE PartInv
    OBVIOUS
  <2>1. SoftInit /\ Hard!HardInit /\ part \in {"soft", "hard", "heap"}
    BY PartsAssumption DEF ServicesInit
  <2>2. stat = "ready"
    BY <2>1 DEF SoftInit
  <2> QED BY <2>1, <2>2, SoftInitial, HardInitial DEF PartInv
<1>2. PartInv /\ [ServicesNext]_allVars => PartInv'
  <2> SUFFICES ASSUME PartInv, [ServicesNext]_allVars PROVE PartInv'
    OBVIOUS
  <2>1. part' = part /\ part \in {"soft", "hard", "heap"}
    BY PartSteps DEF PartInv
  <2>2. CASE part # "hard"
    BY <2>1, <2>2, PartSteps, SoftStep DEF PartInv
  <2>3. CASE part = "hard"
    BY <2>1, <2>3, PartSteps, HardStep DEF PartInv
  <2> QED BY <2>2, <2>3
<1> QED BY <1>1, <1>2, PTL DEF ServicesSpec

\* The timer thread is in time, whatever else runs.
LEMMA PartInTime ==
  ASSUME NEW CONSTANT T, EnoughRoom(T), ~Preempts
  PROVE  ServicesSpec => []PartTiming(T)
<1>1. ServicesInit => PartTiming(T)
  BY TimingInit DEF ServicesInit, PartTiming
<1>2. PartInv /\ PartTiming(T) /\ [ServicesNext]_allVars => PartTiming(T)'
  <2> SUFFICES ASSUME PartInv, PartTiming(T), [ServicesNext]_allVars, part' # "hard"
               PROVE  Timing(T)'
    BY DEF PartTiming
  <2>1. part # "hard" /\ [SoftNext]_<<timerVars, softVars>>
    BY PartSteps
  <2> QED BY <2>1, TimingNext DEF PartInv, PartTiming
<1> QED BY <1>1, <1>2, PartsInvariance, PTL DEF ServicesSpec

\* Soft or hard, the list is in the order of the timeouts, first started first, the flag
\* RT_TIMER_FLAG_ACTIVATED tells the truth, the tick interrupt leaves no timer that is
\* due, and the variables keep their types.
THEOREM TimersAreSound ==
  ASSUME NEW CONSTANT T, EnoughRoom(T), ~Preempts, ~SetBusy, 0 \notin Times
  PROVE  ServicesSpec => []TimersSound
<1>1. PartInv /\ PartTiming(T) => TimersSound
  <2> SUFFICES ASSUME PartInv, PartTiming(T) PROVE TimersSound
    OBVIOUS
  <2>1. CASE part # "hard"
    BY <2>1, SoftLinked, TimelyWakeup DEF PartInv, PartTiming, TimersSound, TypeOfPart
  <2>2. CASE part = "hard"
    BY <2>2, HardLinked, HardSettled DEF PartInv, TimersSound, TypeOfPart
  <2> QED BY <2>1, <2>2
<1> QED BY <1>1, PartsInvariance, PartInTime, PTL

\* rt_timer_check and rt_soft_timer_check call no timeout function early, and a timeout
\* function that sleeps is left asleep, for any width of the tick and any wrap-around.
THEOREM NoTimerEarly == ServicesSpec => NothingEarly
<1> DEFINE Early == \A t \in Timers : at = "check" /\ at' = "call" /\ cur' = t => left[t] <= 0
           HardEarly == \A t \in Timers : isr = "check" /\ isr' = "call" /\ cur' = t
                                            => left[t] <= 0
           Waits == busy /\ stat = "asleep" /\ stat' = "ready" => tick' # tick
<1>1. PartInv /\ [ServicesNext]_allVars => /\ [Early]_<<timerVars, softVars>>
                                          /\ [Waits]_<<timerVars, softVars>>
  <2> SUFFICES ASSUME PartInv, [ServicesNext]_allVars
               PROVE  [Early /\ Waits]_<<timerVars, softVars>>
    OBVIOUS
  <2>1. CASE part # "hard"
    BY <2>1, PartSteps, SoftFiresDue, TickWakes DEF PartInv, Early, Waits
  <2>2. CASE part = "hard"
    <3>1. at' = at /\ stat = "ready"
      BY <2>2, PartSteps DEF PartInv
    <3> QED BY <3>1 DEF Early, Waits
  <2> QED BY <2>1, <2>2
<1>2. PartInv /\ [ServicesNext]_allVars => [HardEarly]_<<Hard!timerVars, Hard!hardVars>>
  <2> SUFFICES ASSUME PartInv, [ServicesNext]_allVars, isr = "check", isr' = "call"
               PROVE  HardEarly \/ UNCHANGED <<Hard!timerVars, Hard!hardVars>>
    BY DEF HardEarly
  <2>1. part = "hard"
    BY PartSteps
  <2> QED BY <2>1, PartSteps, HardFiresDue DEF PartInv, HardEarly
<1> QED BY <1>1, <1>2, PartsInvariance, PTL
        DEF ServicesSpec, NothingEarly, NeverEarly, Hard!NeverEarly, CallbackWaits

\* Among all services too, the timer thread parks only while there is no timer.
THEOREM NobodyParksInVain ==
  ASSUME ~Preempts
  PROVE  ServicesSpec => []ParkedWithoutTimers
<1>1. PartInv => ParkedWithoutTimers
  BY DEF PartInv, SoftInv, Parks, ParkedWithoutTimers
<1> QED BY <1>1, PartsInvariance, PTL

\* And it never sleeps past the first timeout.
THEOREM NobodySleepsPast ==
  ASSUME NEW CONSTANT T, EnoughRoom(T), ~Preempts
  PROVE  ServicesSpec => []NoOversleep
<1>1. PartInv /\ PartTiming(T) => NoOversleep
  <2>1. part = "hard" /\ PartInv => NoOversleep
    BY DEF PartInv, NoOversleep
  <2> QED BY <2>1, TimelyWakeup DEF PartInv, PartTiming
<1> QED BY <1>1, PartsInvariance, PartInTime, PTL
=============================================================================
