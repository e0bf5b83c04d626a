----------------------------- MODULE HeapProofs -----------------------------
(***************************************************************************)
(* Theorems about SmallMem, for a heap of any size, any size of an item's  *)
(* header, and any sizes and alignments that are requested, on its own and *)
(* beside the timers.                                                      *)
(***************************************************************************)
EXTENDS Services, WellFoundedInduction, TLAPS

-----------------------------------------------------------------------------
(* The least number of a set.                                              *)

Smaller == {ss \in Nat \X Nat : ss[1] < ss[2]}

\* Every set of numbers that is not empty has a least element.
LEMMA Least ==
  ASSUME NEW S, S \subseteq Nat, S # {}
  PROVE  \E m \in S : \A n \in S : m <= n
<1>1. IsWellFoundedOn(Smaller, Nat)
  BY NatLessThanWellFounded, Zenon DEF OpToRel, Smaller
<1>2. PICK m \in S : \A n \in S : <<n, m>> \notin Smaller
  BY <1>1, WFMin
<1>3. ASSUME NEW n \in S PROVE m <= n
  <2>1. n \in Nat /\ m \in Nat
    OBVIOUS
  <2>2. <<n, m>> \in Nat \X Nat /\ <<n, m>>[1] = n /\ <<n, m>>[2] = m
    BY <2>1
  <2>3. ~(n < m)
    BY <1>2, <2>2 DEF Smaller
  <2> QED BY <2>1, <2>3
<1> QED BY <1>3

-----------------------------------------------------------------------------
(* What the items of a heap are like, among any items `it`.                *)

Maps ==
  [Offsets -> [kind : {"none", "free", "used"}, next : Offsets, prev : Offsets]]

Is(it, p) == it[p].kind # "none"

\* What Tiled says of item p ...
Follows(it, p) ==
  /\ it[p].next >= p + H /\ Is(it, it[p].next)
  /\ it[p].next # End => it[it[p].next].prev = p
  /\ \A q \in Offsets : p < q /\ q < it[p].next => ~Is(it, q)

\* ... and that it is the one that follows the item its prev names
Precedes(it, p) ==
  /\ it[p].prev < p /\ Is(it, it[p].prev)
  /\ it[it[p].prev].next = p

Tiling(it) ==
  /\ it \in Maps
  /\ Is(it, 0) /\ it[0].prev = 0 /\ it[End].kind = "used"
  /\ \A p \in Offsets \ {End} : Is(it, p) => Follows(it, p)
  /\ \A p \in Offsets \ {0, End} : Is(it, p) => Precedes(it, p)
  /\ \A p \in Offsets : ~Is(it, p) => it[p].next = 0

\* low is the lowest free item, or heap_end.
Lowest(it, low) ==
  /\ low \in Offsets
  /\ low = End \/ it[low].kind = "free"
  /\ \A o \in Offsets : o < low => it[o].kind # "free"

Weight(it, p) == IF it[p].kind = "used" THEN it[p].next - p ELSE 0

\* f[p] is what the used items from p on take up; for all items it is u.
Counts(it, f) ==
  /\ f \in [Offsets -> Int]
  /\ f[End] = 0
  /\ \A p \in Offsets \ {End} : Is(it, p) => f[p] = f[it[p].next] + Weight(it, p)

TakesUp(it, u) == \E f : Counts(it, f) /\ f[0] = u

\* The used items of it2 are those of it, where they were.
SameUsed(it, it2) ==
  \A o \in Offsets : /\ it2[o].kind = "used" <=> it[o].kind = "used"
                     /\ it[o].kind = "used" => it2[o].next = it[o].next

LEMMA Numbers ==
  ASSUME HeapAssumption
  PROVE  /\ H \in Nat /\ H > 0 /\ MIN \in Nat /\ MIN > 0 /\ MemSize \in Nat /\ Base \in Nat
         /\ End \in Nat /\ End = MemSize + H /\ End > 0
         /\ Offsets \subseteq Nat /\ 0 \in Offsets /\ End \in Offsets
         /\ \A p : p \in Offsets <=> p \in Nat /\ p <= End
BY DEF HeapAssumption, End, Offsets

\* The fields of an item
LEMMA Fields ==
  ASSUME NEW it \in Maps, NEW p \in Offsets
  PROVE  /\ it[p].kind \in {"none", "free", "used"}
         /\ it[p].next \in Offsets /\ it[p].prev \in Offsets
BY DEF Maps

\* An item of a tiled heap and the one that follows it.
LEMMA ItemFacts ==
  ASSUME HeapAssumption, NEW it, Tiling(it), NEW p \in Offsets \ {End}, Is(it, p)
  PROVE  /\ it[p].next \in Offsets /\ it[p].next > p /\ it[p].next >= p + H
         /\ Is(it, it[p].next) /\ it \in Maps
<1>1. it \in Maps /\ Follows(it, p)
  BY DEF Tiling
<1>2. it[p].next \in Offsets
  BY <1>1, Fields
<1>3. p \in Nat /\ it[p].next \in Nat /\ H \in Nat /\ H > 0
  BY <1>2, Numbers
<1> QED BY <1>1, <1>2, <1>3 DEF Follows

-----------------------------------------------------------------------------
(* An item changes between used and free.                                  *)

Marked(it, p, kind) == [it EXCEPT ![p].kind = kind]

\* m is what that leaves, field by field.
HasMark(it, p, kind, m) ==
  /\ m \in Maps
  /\ \A o \in Offsets : /\ m[o].next = it[o].next
                        /\ m[o].prev = it[o].prev
                        /\ m[o].kind = IF o = p THEN kind ELSE it[o].kind

LEMMA MarkShape ==
  ASSUME NEW it \in Maps, NEW p \in Offsets, NEW kind \in {"free", "used"}
  PROVE  HasMark(it, p, kind, Marked(it, p, kind))
BY DEF Maps, Marked, HasMark

LEMMA MarkTiling ==
  ASSUME HeapAssumption, NEW it, Tiling(it), NEW p \in Offsets \ {End}, Is(it, p),
         NEW kind \in {"free", "used"}
  PROVE  Tiling(Marked(it, p, kind))
<1>1. it \in Maps /\ p \in Offsets
  BY DEF Tiling
<1>2. PICK m \in Maps :
        /\ m = Marked(it, p, kind)
        /\ \A o \in Offsets :
             /\ m[o].next = it[o].next
             /\ m[o].prev = it[o].prev
             /\ m[o].kind = IF o = p THEN kind ELSE it[o].kind
  <2>1. HasMark(it, p, kind, Marked(it, p, kind))
    BY <1>1, MarkShape
  <2> QED BY <2>1 DEF HasMark
<1>3. \A o \in Offsets : Is(m, o) <=> Is(it, o)
  BY <1>2 DEF Is
<1>4. 0 \in Offsets /\ End \in Offsets
  BY Numbers
<1>5. Is(m, 0) /\ m[0].prev = 0 /\ m[End].kind = "used"
  BY <1>2, <1>3, <1>4 DEF Tiling
<1>6. ASSUME NEW o \in Offsets \ {End}, Is(m, o) PROVE Follows(m, o)
  <2>1. Follows(it, o) /\ it[o].next \in Offsets
    BY <1>1, <1>3, <1>6, Fields DEF Tiling
  <2> QED BY <1>2, <1>3, <2>1 DEF Follows
<1>7. ASSUME NEW o \in Offsets \ {0, End}, Is(m, o) PROVE Precedes(m, o)
  <2>1. Precedes(it, o) /\ it[o].prev \in Offsets
    BY <1>1, <1>3, <1>7, Fields DEF Tiling
  <2> QED BY <1>2, <1>3, <2>1 DEF Precedes
<1>8. \A o \in Offsets : ~Is(m, o) => m[o].next = 0
  BY <1>2, <1>3 DEF Tiling
<1> QED BY <1>2, <1>5, <1>6, <1>7, <1>8 DEF Tiling


\* Only the weight of that item changes what the used items take up.
LEMMA MarkCounts ==
  ASSUME HeapAssumption, NEW it, Tiling(it), NEW p \in Offsets \ {End}, Is(it, p),
         NEW kind \in {"free", "used"}, NEW u \in Int, TakesUp(it, u)
  PROVE  TakesUp(Marked(it, p, kind),
                 u + (Weight(Marked(it, p, kind), p) - Weight(it, p)))
<1>1. it \in Maps /\ p \in Offsets
  BY DEF Tiling
<1>2. PICK f : Counts(it, f) /\ f[0] = u
  BY DEF TakesUp
<1>3. PICK m : m = Marked(it, p, kind)
  OBVIOUS
<1>4. \A o \in Offsets :
        /\ m[o].next = it[o].next
        /\ m[o].kind = IF o = p THEN kind ELSE it[o].kind
  <2>1. HasMark(it, p, kind, m)
    BY <1>1, <1>3, MarkShape
  <2> QED BY <2>1 DEF HasMark
<1>5. \A o \in Offsets : Weight(m, o) \in Int /\ Weight(it, o) \in Int
  BY <1>1, <1>4, Fields, Numbers DEF Weight
<1>6. PICK w \in Int : w = Weight(m, p) - Weight(it, p)
  BY <1>1, <1>5
<1> DEFINE h == [o \in Offsets |-> IF o <= p THEN f[o] + w ELSE f[o]]
<1>7. f \in [Offsets -> Int] /\ h \in [Offsets -> Int]
  <2>1. f \in [Offsets -> Int]
    BY <1>2 DEF Counts
  <2>2. \A o \in Offsets : f[o] \in Int /\ f[o] + w \in Int
    BY <2>1
  <2> QED BY <2>1, <2>2
<1>8. /\ 0 \in Offsets /\ End \in Offsets /\ ~(End <= p) /\ 0 <= p
  BY <1>1, Numbers
<1>9. h[End] = 0 /\ h[0] = u + w
  BY <1>2, <1>8 DEF Counts
<1>10. ASSUME NEW o \in Offsets \ {End}, Is(m, o)
      PROVE  h[o] = h[m[o].next] + Weight(m, o)
  <2>1. Is(it, o)
    BY <1>1, <1>4, <1>10 DEF Is
  <2>2. PICK n \in Offsets : n = it[o].next /\ n > o /\ n = m[o].next
    BY <1>4, <2>1, ItemFacts
  <2>3. f[o] = f[n] + Weight(it, o)
    BY <1>2, <2>1, <2>2 DEF Counts
  <2>4. o \in Nat /\ n \in Nat /\ p \in Nat
    BY <1>1, <2>2, Numbers
  <2>5. ~(o < p /\ p < n)
    <3>1. Follows(it, o)
      BY <2>1 DEF Tiling
    <3> QED BY <1>1, <2>2, <3>1 DEF Follows
  <2>6. CASE o = p
    <3>1. w = Weight(m, o) - Weight(it, o) /\ Weight(m, o) \in Int /\ Weight(it, o) \in Int
      BY <1>6, <1>5, <2>6
    <3>2. h[o] = f[o] + w /\ h[n] = f[n]
      BY <2>2, <2>4, <2>6
    <3>3. f[o] \in Int /\ f[n] \in Int
      BY <1>7
    <3> HIDE DEF h
    <3> QED BY <2>2, <2>3, <3>1, <3>2, <3>3
  <2>7. CASE o # p
    <3>1. Weight(m, o) = Weight(it, o)
      BY <1>4, <2>2, <2>7 DEF Weight
    <3>2. CASE o < p
      <4>1. h[o] = f[o] + w /\ h[n] = f[n] + w
        BY <2>4, <2>5, <3>2
      <4>2. f[o] \in Int /\ f[n] \in Int /\ Weight(it, o) \in Int
        BY <1>7, <1>5
      <4> HIDE DEF h
      <4> QED BY <2>2, <2>3, <3>1, <4>1, <4>2
    <3>3. CASE ~(o < p)
      <4>1. h[o] = f[o] /\ h[n] = f[n]
        BY <2>2, <2>4, <2>7, <3>3
      <4> QED BY <2>2, <2>3, <3>1, <4>1
    <3> QED BY <3>2, <3>3
  <2> QED BY <2>6, <2>7
<1>11. Counts(m, h)
  BY <1>7, <1>9, <1>10 DEF Counts
<1> QED BY <1>3, <1>6, <1>9, <1>11 DEF TakesUp

-----------------------------------------------------------------------------
(* Two free items that are adjacent become one.                            *)

\* q is free and follows the free item p.
Adjacent(it, p, q) ==
  /\ p \in Offsets \ {End} /\ q \in Offsets \ {End}
  /\ it[p].kind = "free" /\ it[q].kind = "free" /\ it[p].next = q

\* m is what Merge leaves, field by field.
Merged(it, p, q, m) ==
  /\ m \in Maps
  /\ \A o \in Offsets :
       /\ m[o].kind = IF o = q THEN "none" ELSE it[o].kind
       /\ m[o].next = IF o = p THEN it[q].next ELSE IF o = q THEN 0 ELSE it[o].next
       /\ m[o].prev = IF o = q THEN 0 ELSE IF o = it[q].next THEN p ELSE it[o].prev

LEMMA AdjacentFacts ==
  ASSUME HeapAssumption, NEW it, Tiling(it), NEW p, NEW q, Adjacent(it, p, q)
  PROVE  /\ it \in Maps /\ p \in Offsets /\ q \in Offsets
         /\ p \in Nat /\ q \in Nat /\ it[q].next \in Nat /\ H \in Nat
         /\ Is(it, p) /\ Is(it, q) /\ Is(it, it[q].next)
         /\ it[q].next \in Offsets
         /\ q >= p + H /\ it[q].next >= q + H /\ p < q /\ q < it[q].next
<1>1. /\ it \in Maps /\ p \in Offsets \ {End} /\ q \in Offsets \ {End}
      /\ Is(it, p) /\ Is(it, q) /\ it[p].next = q
  BY DEF Tiling, Adjacent, Is
<1>2. q > p /\ q >= p + H
  BY <1>1, ItemFacts
<1>3. it[q].next \in Offsets /\ it[q].next > q /\ it[q].next >= q + H /\ Is(it, it[q].next)
  BY <1>1, ItemFacts
<1>4. p \in Nat /\ q \in Nat /\ it[q].next \in Nat /\ H \in Nat
  BY <1>1, <1>3, Numbers
<1> QED BY <1>1, <1>2, <1>3, <1>4

LEMMA MergeShape ==
  ASSUME HeapAssumption, NEW it, Tiling(it), NEW p, NEW q, Adjacent(it, p, q)
  PROVE  Merged(it, p, q, Merge(it, p, q))
<1>1. PICK n \in Offsets : n = it[q].next /\ p # q /\ n # q /\ n # p
  BY AdjacentFacts
<1>2. it \in Maps /\ p \in Offsets /\ q \in Offsets
  BY AdjacentFacts
<1> DEFINE m == Merge(it, p, q)
<1>3. m = [o \in Offsets |->
             CASE o = p -> [it[p] EXCEPT !.next = n]
               [] o = q -> NoItem
               [] o = n -> [it[n] EXCEPT !.prev = p]
               [] OTHER -> it[o]]
  BY <1>1 DEF Merge
<1> HIDE DEF m
<1>4. 0 \in Offsets
  BY Numbers
<1>5. ASSUME NEW o \in Offsets
      PROVE  /\ m[o] \in [kind : {"none", "free", "used"}, next : Offsets, prev : Offsets]
             /\ m[o].kind = IF o = q THEN "none" ELSE it[o].kind
             /\ m[o].next = IF o = p THEN n ELSE IF o = q THEN 0 ELSE it[o].next
             /\ m[o].prev = IF o = q THEN 0 ELSE IF o = n THEN p ELSE it[o].prev
  <2>1. it[o] \in [kind : {"none", "free", "used"}, next : Offsets, prev : Offsets]
    BY <1>2 DEF Maps
  <2>2. CASE o = p
    <3>1. m[o] = [it[o] EXCEPT !.next = n]
      BY <1>1, <1>3, <2>2
    <3> QED BY <1>1, <2>1, <2>2, <3>1
  <2>3. CASE o = q
    <3>1. m[o] = NoItem
      BY <1>1, <1>3, <2>3
    <3> QED BY <1>1, <1>4, <2>3, <3>1 DEF NoItem
  <2>4. CASE o = n
    <3>1. m[o] = [it[o] EXCEPT !.prev = p]
      BY <1>1, <1>3, <2>4
    <3> QED BY <1>1, <1>2, <2>1, <2>4, <3>1
  <2>5. CASE o # p /\ o # q /\ o # n
    <3>1. m[o] = it[o]
      BY <1>3, <2>5
    <3> QED BY <2>1, <2>5, <3>1
  <2> QED BY <2>2, <2>3, <2>4, <2>5
<1>6. m \in Maps
  BY <1>3, <1>5 DEF Maps
<1> QED BY <1>1, <1>5, <1>6 DEF Merged, m

LEMMA MergeTiling ==
  ASSUME HeapAssumption, NEW it, Tiling(it), NEW p, NEW q, Adjacent(it, p, q)
  PROVE  Tiling(Merge(it, p, q))
<1>1. PICK n \in Offsets :
        /\ n = it[q].next /\ Is(it, p) /\ Is(it, q) /\ Is(it, n)
        /\ p \in Nat /\ q \in Nat /\ n \in Nat /\ H \in Nat
        /\ q >= p + H /\ n >= q + H /\ p < q /\ q < n
  BY AdjacentFacts
<1>2. /\ it \in Maps /\ p \in Offsets \ {End} /\ q \in Offsets \ {End}
      /\ it[p].kind = "free" /\ it[q].kind = "free" /\ it[p].next = q
  BY DEF Tiling, Adjacent
<1>3. PICK m : m = Merge(it, p, q) /\ m \in Maps
  BY MergeShape DEF Merged
<1>4. \A o \in Offsets :
        /\ m[o].kind = IF o = q THEN "none" ELSE it[o].kind
        /\ m[o].next = IF o = p THEN n ELSE IF o = q THEN 0 ELSE it[o].next
        /\ m[o].prev = IF o = q THEN 0 ELSE IF o = n THEN p ELSE it[o].prev
  BY <1>1, <1>3, MergeShape DEF Merged
<1>5. 0 \in Offsets /\ End \in Offsets /\ q # 0 /\ n # 0
  BY <1>1, Numbers
<1>6. \A o \in Offsets : Is(m, o) <=> o # q /\ Is(it, o)
  BY <1>4 DEF Is
<1>7. Is(m, 0) /\ m[0].prev = 0 /\ m[End].kind = "used"
  <2>1. Is(it, 0) /\ it[0].prev = 0 /\ it[End].kind = "used"
    BY DEF Tiling
  <2> QED BY <1>2, <1>4, <1>5, <1>6, <2>1
<1>8. ASSUME NEW o \in Offsets \ {End}, Is(m, o) PROVE Follows(m, o)
  <2>1. PICK k \in Offsets : k = it[o].next
    BY <1>2, Fields
  <2>2. /\ o # q /\ o \in Offsets
        /\ k >= o + H /\ Is(it, k) /\ (k # End => it[k].prev = o)
        /\ \A x \in Offsets : o < x /\ x < k => ~Is(it, x)
    BY <1>6, <1>8, <2>1 DEF Tiling, Follows
  <2>3. /\ n # End => it[n].prev = q
        /\ \A x \in Offsets : p < x /\ x < q => ~Is(it, x)
        /\ \A x \in Offsets : q < x /\ x < n => ~Is(it, x)
        /\ it[q].prev = p
    BY <1>1, <1>2 DEF Tiling, Follows
  <2>4. CASE o = p
    <3>1. m[o].next = n /\ Is(m, n)
      BY <1>1, <1>4, <1>6, <2>4
    <3>2. m[n].prev = o
      BY <1>1, <1>4, <2>4
    <3>3. n >= o + H
      BY <1>1, <2>4
    <3>4. \A x \in Offsets : o < x /\ x < n => ~Is(m, x)
      <4>1. \A x \in Offsets : x \in Nat
        BY Numbers
      <4>2. ASSUME NEW x \in Offsets, o < x, x < n PROVE x = q \/ x < q \/ q < x
        BY <1>1, <4>1
      <4> QED BY <1>6, <2>3, <2>4, <4>2
    <3> QED BY <3>1, <3>2, <3>3, <3>4 DEF Follows
  <2>5. CASE o # p
    <3>1. k # q
      BY <1>2, <2>2, <2>3, <2>5
    <3>2. k # n \/ n = End
      BY <2>2, <2>3
    <3>3. m[o].next = k /\ Is(m, k) /\ (k # End => m[k].prev = o)
      BY <1>4, <1>6, <2>1, <2>2, <2>5, <3>1, <3>2
    <3>4. \A x \in Offsets : o < x /\ x < k => ~Is(m, x)
      BY <1>6, <2>2
    <3> QED BY <2>2, <3>3, <3>4 DEF Follows
  <2> QED BY <2>4, <2>5
<1>9. ASSUME NEW o \in Offsets \ {0, End}, Is(m, o) PROVE Precedes(m, o)
  <2>1. PICK b \in Offsets : b = it[o].prev
    BY <1>2, Fields
  <2>2. o # q /\ o \in Offsets /\ b < o /\ Is(it, b) /\ it[b].next = o
    BY <1>6, <1>9, <2>1 DEF Tiling, Precedes
  <2>3. CASE o = n
    <3>1. m[o].prev = p /\ m[p].next = o /\ Is(m, p) /\ p < o
      BY <1>1, <1>2, <1>4, <1>6, <2>2, <2>3
    <3> QED BY <3>1 DEF Precedes
  <2>4. CASE o # n
    <3>1. b # q /\ b # p
      BY <1>1, <1>2, <2>2, <2>4
    <3>2. m[o].prev = b /\ m[b].next = o /\ Is(m, b)
      BY <1>4, <1>6, <2>1, <2>2, <2>4, <3>1
    <3> QED BY <2>2, <3>2 DEF Precedes
  <2> QED BY <2>3, <2>4
<1>10. \A o \in Offsets : ~Is(m, o) => m[o].next = 0
  <2>1. \A o \in Offsets : ~Is(it, o) => it[o].next = 0
    BY DEF Tiling
  <2> QED BY <1>1, <1>4, <1>6, <2>1
<1> QED BY <1>3, <1>7, <1>8, <1>9, <1>10 DEF Tiling

LEMMA MergeCounts ==
  ASSUME HeapAssumption, NEW it, Tiling(it), NEW p, NEW q, Adjacent(it, p, q),
         NEW u, TakesUp(it, u)
  PROVE  TakesUp(Merge(it, p, q), u)
<1>1. PICK f : Counts(it, f) /\ f[0] = u
  BY DEF TakesUp
<1>2. PICK n \in Offsets :
        n = it[q].next /\ it \in Maps /\ p \in Offsets /\ q \in Offsets
          /\ Is(it, p) /\ Is(it, q) /\ p # q
  BY AdjacentFacts
<1>3. /\ p \in Offsets \ {End} /\ q \in Offsets \ {End}
      /\ it[p].kind = "free" /\ it[q].kind = "free" /\ it[p].next = q
  BY DEF Adjacent
<1>4. PICK m : m = Merge(it, p, q)
  OBVIOUS
<1>5. \A o \in Offsets :
        /\ m[o].kind = IF o = q THEN "none" ELSE it[o].kind
        /\ m[o].next = IF o = p THEN n ELSE IF o = q THEN 0 ELSE it[o].next
  BY <1>2, <1>4, MergeShape DEF Merged
<1>6. ASSUME NEW o \in Offsets \ {End}, Is(m, o)
      PROVE  f[o] = f[m[o].next] + Weight(m, o)
  <2>1. o \in Offsets /\ o # q /\ Is(it, o)
    BY <1>5, <1>6 DEF Is
  <2>2. f[o] = f[it[o].next] + Weight(it, o)
    BY <1>1, <2>1 DEF Counts
  <2>3. CASE o = p
    <3>1. f[p] = f[q] + 0 /\ f[q] = f[n] + 0
      BY <1>1, <1>2, <1>3 DEF Counts, Weight
    <3>2. Weight(m, o) = 0 /\ m[o].next = n
      BY <1>3, <1>5, <2>1, <2>3 DEF Weight
    <3>3. f[q] \in Int /\ f[n] \in Int
      BY <1>1, <1>2 DEF Counts
    <3> QED BY <2>3, <3>1, <3>2, <3>3
  <2>4. CASE o # p
    <3>1. m[o].next = it[o].next /\ Weight(m, o) = Weight(it, o)
      BY <1>5, <2>1, <2>4 DEF Weight
    <3> QED BY <2>2, <3>1
  <2> QED BY <2>3, <2>4
<1>7. Counts(m, f)
  BY <1>1, <1>6 DEF Counts
<1> QED BY <1>1, <1>4, <1>7 DEF TakesUp

LEMMA MergeLowest ==
  ASSUME HeapAssumption, NEW it, Tiling(it), NEW p, NEW q, Adjacent(it, p, q),
         NEW low, Lowest(it, low)
  PROVE  Lowest(Merge(it, p, q), low) /\ low # q
<1>1. /\ \A o \in Offsets : Merge(it, p, q)[o].kind = IF o = q THEN "none" ELSE it[o].kind
      /\ q \in Offsets /\ p \in Offsets /\ p < q /\ it[p].kind = "free"
  BY MergeShape, AdjacentFacts DEF Merged, Adjacent
<1>2. low # q
  BY <1>1 DEF Lowest
<1> QED BY <1>1, <1>2 DEF Lowest

LEMMA MergeUsed ==
  ASSUME HeapAssumption, NEW it, Tiling(it), NEW p, NEW q, Adjacent(it, p, q)
  PROVE  SameUsed(it, Merge(it, p, q))
BY MergeShape DEF Merged, Adjacent, SameUsed

-----------------------------------------------------------------------------
(* plug_holes.                                                             *)

\* Free items are never adjacent, ...
NoHole(it) ==
  \A o \in Offsets \ {End} : it[o].kind = "free" => it[it[o].next].kind = "used"

\* ... except for the one before p, ...
HoleBefore(it, p) ==
  \A o \in Offsets \ {End} :
     it[o].kind = "free" /\ it[o].next # p => it[it[o].next].kind = "used"

\* ... or for it and the one after p.
HolesAround(it, p) ==
  \A o \in Offsets \ {End} :
     it[o].kind = "free" /\ o # p /\ it[o].next # p => it[it[o].next].kind = "used"

\* The hole after p is plugged.
LEMMA MergeForward ==
  ASSUME HeapAssumption, NEW it, Tiling(it), NEW p, NEW q, Adjacent(it, p, q),
         HolesAround(it, p)
  PROVE  HoleBefore(Merge(it, p, q), p)
<1>1. PICK n \in Offsets :
        /\ n = it[q].next /\ it \in Maps /\ p \in Offsets /\ q \in Offsets
        /\ p \in Nat /\ q \in Nat /\ n \in Nat /\ p < q /\ q < n
  BY AdjacentFacts
<1>2. /\ p \in Offsets \ {End} /\ q \in Offsets \ {End}
      /\ it[p].kind = "free" /\ it[q].kind = "free" /\ it[p].next = q
  BY DEF Adjacent
<1>3. PICK m : m = Merge(it, p, q)
  OBVIOUS
<1>4. \A o \in Offsets :
        /\ m[o].kind = IF o = q THEN "none" ELSE it[o].kind
        /\ m[o].next = IF o = p THEN n ELSE IF o = q THEN 0 ELSE it[o].next
  BY <1>1, <1>3, MergeShape DEF Merged
<1>5. it[n].kind = "used"
  BY <1>1, <1>2 DEF HolesAround
<1>6. ASSUME NEW o \in Offsets \ {End}, m[o].kind = "free", m[o].next # p
      PROVE  m[m[o].next].kind = "used"
  <2>1. o \in Offsets /\ o # q /\ it[o].kind = "free"
    BY <1>4, <1>6
  <2>2. CASE o = p
    BY <1>1, <1>4, <1>5, <2>2
  <2>3. CASE o # p
    <3>1. PICK k \in Offsets : k = it[o].next
      BY <1>1, <2>1, Fields
    <3>2. it[k].kind = "used" /\ m[o].next = k
      BY <1>4, <1>6, <2>1, <2>3, <3>1 DEF HolesAround
    <3> QED BY <1>2, <1>4, <3>2
  <2> QED BY <2>2, <2>3
<1> QED BY <1>3, <1>6 DEF HoleBefore

\* The hole before p is plugged.
LEMMA MergeBackward ==
  ASSUME HeapAssumption, NEW it, Tiling(it), NEW b, NEW p, Adjacent(it, b, p),
         HoleBefore(it, p)
  PROVE  NoHole(Merge(it, b, p))
<1>1. PICK n \in Offsets :
        /\ n = it[p].next /\ it \in Maps /\ b \in Offsets /\ p \in Offsets
        /\ b \in Nat /\ p \in Nat /\ n \in Nat /\ b < p /\ p < n
        /\ Is(it, b) /\ Is(it, p)
  BY AdjacentFacts
<1>2. /\ b \in Offsets \ {End} /\ p \in Offsets \ {End}
      /\ it[b].kind = "free" /\ it[p].kind = "free" /\ it[b].next = p
  BY DEF Adjacent
<1>3. PICK m : m = Merge(it, b, p)
  OBVIOUS
<1>4. \A o \in Offsets :
        /\ m[o].kind = IF o = p THEN "none" ELSE it[o].kind
        /\ m[o].next = IF o = b THEN n ELSE IF o = p THEN 0 ELSE it[o].next
  BY <1>1, <1>3, MergeShape DEF Merged
<1>5. it[n].kind = "used"
  BY <1>1, <1>2 DEF HoleBefore
<1>6. ASSUME NEW o \in Offsets \ {End}, m[o].kind = "free"
      PROVE  m[m[o].next].kind = "used"
  <2>1. o \in Offsets /\ o # p /\ it[o].kind = "free" /\ Is(it, o)
    BY <1>4, <1>6 DEF Is
  <2>2. CASE o = b
    BY <1>1, <1>4, <1>5, <2>2
  <2>3. CASE o # b
    <3>1. PICK k \in Offsets : k = it[o].next /\ (k # End => it[k].prev = o)
      BY <1>1, <2>1, Fields DEF Tiling, Follows
    <3>2. it[p].prev = b
      BY <1>1, <1>2 DEF Tiling, Follows
    <3>3. k # p
      BY <1>2, <2>3, <3>1, <3>2
    <3>4. it[k].kind = "used" /\ m[o].next = k
      BY <1>4, <2>1, <2>3, <3>1, <3>3 DEF HoleBefore
    <3> QED BY <1>2, <1>4, <3>4
  <2> QED BY <2>2, <2>3
<1> QED BY <1>3, <1>6 DEF NoHole

\* plug_holes leaves no holes, if there are none but around p; what is used stays
\* where it is.
LEMMA PlugSound ==
  ASSUME HeapAssumption, NEW it, Tiling(it), NEW p \in Offsets \ {End},
         it[p].kind = "free", HolesAround(it, p),
         NEW low, Lowest(it, low), PlugHoles(it, low, p)
  PROVE  /\ Tiling(items') /\ Lowest(items', lfree') /\ NoHole(items')
         /\ SameUsed(it, items')
         /\ \A u : TakesUp(it, u) => TakesUp(items', u)
<1> DEFINE n    == Forward(it, p)
           it1  == IF n # p THEN Merge(it, p, n) ELSE it
           low1 == IF n # p /\ low = n THEN p ELSE low
           b    == Backward(it1, p)
<1>1. /\ items' = IF b # p THEN Merge(it1, b, p) ELSE it1
      /\ lfree' = IF b # p /\ low1 = p THEN b ELSE low1
  BY DEF PlugHoles
<1>2. it \in Maps /\ p \in Offsets /\ Is(it, p)
  BY DEF Tiling, Is
<1>3. /\ Tiling(it1) /\ Lowest(it1, low1) /\ HoleBefore(it1, p)
      /\ it1[p].kind = "free" /\ SameUsed(it, it1)
      /\ \A u : TakesUp(it, u) => TakesUp(it1, u)
  <2>1. PICK k \in Offsets : k = it[p].next /\ Is(it, k) /\ k > p
    BY <1>2, ItemFacts
  <2>2. k # p
    BY <1>2, <2>1, Numbers
  <2>3. n = IF it[k].kind = "free" /\ k # End THEN k ELSE p
    BY <2>1, <2>2 DEF Forward
  <2>4. CASE it[k].kind = "free" /\ k # End
    <3>1. Adjacent(it, p, k)
      BY <2>1, <2>4 DEF Adjacent
    <3>2. n = k /\ it1 = Merge(it, p, k)
      BY <2>2, <2>3, <2>4
    <3>3. low # k /\ Lowest(Merge(it, p, k), low)
      BY <3>1, MergeLowest
    <3>4. low1 = low
      BY <3>2, <3>3
    <3>5. Merge(it, p, k)[p].kind = "free"
      BY <1>2, <2>2, <3>1, MergeShape DEF Merged
    <3> HIDE DEF n, it1, low1, b
    <3> QED BY <3>1, <3>2, <3>3, <3>4, <3>5, MergeTiling, MergeForward, MergeUsed, MergeCounts
  <2>5. CASE ~(it[k].kind = "free" /\ k # End)
    <3>1. it1 = it /\ low1 = low
      BY <2>3, <2>5
    <3>2. it[k].kind = "used"
      BY <1>2, <2>1, <2>5, Fields DEF Tiling, Is
    <3>3. HoleBefore(it, p)
      BY <2>1, <3>2 DEF HolesAround, HoleBefore
    <3>4. SameUsed(it, it)
      BY DEF SameUsed
    <3> HIDE DEF n, it1, low1, b
    <3> QED BY <3>1, <3>3, <3>4
  <2> QED BY <2>4, <2>5
<1>4. PICK i, l : i = it1 /\ l = low1
  OBVIOUS
<1>5. /\ items' = IF Backward(i, p) # p THEN Merge(i, Backward(i, p), p) ELSE i
      /\ lfree' = IF Backward(i, p) # p /\ l = p THEN Backward(i, p) ELSE l
  BY <1>1, <1>4
<1>6. /\ Tiling(i) /\ Lowest(i, l) /\ HoleBefore(i, p)
      /\ i[p].kind = "free" /\ SameUsed(it, i)
      /\ \A u : TakesUp(it, u) => TakesUp(i, u)
  BY <1>3, <1>4
<1> HIDE DEF n, it1, low1, b
<1>7. PICK c \in Offsets : c = i[p].prev
  BY <1>2, <1>6, Fields DEF Tiling
<1>8. Backward(i, p) = IF c # p /\ i[c].kind = "free" THEN c ELSE p
  BY <1>7 DEF Backward
<1>9. Is(i, p)
  BY <1>6 DEF Is
<1>10. CASE c # p /\ i[c].kind = "free"
  <2>1. p # 0
    BY <1>6, <1>7, <1>10 DEF Tiling
  <2>2. c < p /\ i[c].next = p
    BY <1>6, <1>7, <1>9, <2>1 DEF Tiling, Precedes
  <2>3. c # End
    BY <1>2, <2>2, Numbers
  <2>4. Adjacent(i, c, p)
    BY <1>6, <1>10, <2>2, <2>3 DEF Adjacent
  <2>5. items' = Merge(i, c, p)
    BY <1>5, <1>8, <1>10
  <2>6. Lowest(Merge(i, c, p), l) /\ l # p
    BY <1>6, <2>4, MergeLowest
  <2>7. lfree' = l
    BY <1>5, <1>8, <1>10, <2>6
  <2>8. SameUsed(i, items')
    BY <1>6, <2>4, <2>5, MergeUsed
  <2>9. SameUsed(it, items')
    BY <1>6, <2>8 DEF SameUsed
  <2> QED BY <1>6, <2>4, <2>5, <2>6, <2>7, <2>9, MergeTiling, MergeBackward, MergeCounts
<1>11. CASE ~(c # p /\ i[c].kind = "free")
  <2>1. items' = i /\ lfree' = l
    BY <1>5, <1>8, <1>11
  <2>2. ASSUME NEW o \in Offsets \ {End}, i[o].kind = "free" PROVE i[i[o].next].kind = "used"
    <3>1. CASE i[o].next = p
      <4>1. Is(i, o) /\ Follows(i, o)
        BY <1>6, <2>2 DEF Tiling, Is
      <4>2. i[p].prev = o
        BY <3>1, <4>1 DEF Follows
      <4>3. o \in Nat /\ i[o].next >= o + H /\ H \in Nat /\ H > 0
        BY <4>1, Numbers DEF Follows
      <4>4. o # p
        BY <3>1, <4>3
      <4> QED BY <1>7, <1>11, <2>2, <4>2, <4>4
    <3>2. CASE i[o].next # p
      BY <1>6, <2>2, <3>2 DEF HoleBefore
    <3> QED BY <3>1, <3>2
  <2>3. NoHole(i)
    BY <2>2 DEF NoHole
  <2> QED BY <1>6, <2>1, <2>3
<1> QED BY <1>10, <1>11

-----------------------------------------------------------------------------
(* An item gives up what lies beyond a size.                               *)

\* Item p has room for `size` units and for another item.
Splittable(it, p, size) ==
  /\ p \in Offsets \ {End} /\ Is(it, p)
  /\ size \in Nat \ {0}
  /\ (p + H + size) + H <= it[p].next

\* s is what Split leaves, field by field, if it creates an item at p2.
HasSplit(it, p, p2, s) ==
  /\ s \in Maps
  /\ \A o \in Offsets :
       /\ s[o].kind = IF o = p2 THEN "free" ELSE it[o].kind
       /\ s[o].next = IF o = p THEN p2 ELSE IF o = p2 THEN it[p].next ELSE it[o].next
       /\ s[o].prev = IF o = p2 THEN p
                      ELSE IF o = it[p].next /\ o # End THEN p2 ELSE it[o].prev

LEMMA SplitFacts ==
  ASSUME HeapAssumption, NEW it, Tiling(it), NEW p, NEW size, Splittable(it, p, size)
  PROVE  \E n \in Offsets, p2 \in Offsets :
           /\ n = it[p].next /\ p2 = p + H + size
           /\ it \in Maps /\ p \in Offsets /\ Is(it, n) /\ ~Is(it, p2)
           /\ p \in Nat /\ n \in Nat /\ p2 \in Nat /\ H \in Nat /\ size \in Nat
           /\ p2 >= p + H /\ n >= p2 + H /\ p < p2 /\ p2 < n
           /\ p # p2 /\ p2 # n /\ p # n /\ p2 # End
<1>1. /\ it \in Maps /\ p \in Offsets \ {End} /\ Is(it, p)
      /\ size \in Nat /\ size > 0
  BY DEF Splittable, Tiling
<1>2. PICK n \in Offsets : n = it[p].next /\ Is(it, n)
  BY <1>1, ItemFacts
<1>3. /\ p \in Nat /\ n \in Nat /\ H \in Nat /\ H > 0 /\ End \in Nat /\ n <= End
  BY <1>1, <1>2, Numbers
<1>4. PICK p2 \in Nat : p2 = p + H + size
  BY <1>1, <1>3
<1>5. p2 + H <= n
  BY <1>2, <1>4 DEF Splittable
<1>6. /\ p2 >= p + H /\ n >= p2 + H /\ p < p2 /\ p2 < n /\ p2 <= End /\ p2 # End
  BY <1>1, <1>3, <1>4, <1>5
<1>7. p2 \in Offsets
  BY <1>6, Numbers
<1>8. ~Is(it, p2)
  BY <1>1, <1>2, <1>6, <1>7 DEF Tiling, Follows
<1>9. p # p2 /\ p2 # n /\ p # n
  BY <1>3, <1>6
<1> QED BY <1>1, <1>2, <1>3, <1>4, <1>6, <1>7, <1>8, <1>9

LEMMA SplitShape ==
  ASSUME HeapAssumption, NEW it, Tiling(it), NEW p, NEW size, Splittable(it, p, size)
  PROVE  HasSplit(it, p, p + H + size, Split(it, p, size))
<1>1. PICK n \in Offsets, p2 \in Offsets :
        /\ n = it[p].next /\ p2 = p + H + size
        /\ it \in Maps /\ p \in Offsets
        /\ p # p2 /\ p2 # n /\ p # n /\ p2 # End
  BY SplitFacts
<1>2. PICK s : s = Split(it, p, size)
  OBVIOUS
<1>3. s = [q \in Offsets |->
             CASE q = p  -> [it[p] EXCEPT !.next = p2]
               [] q = p2 -> [kind |-> "free", next |-> n, prev |-> p]
               [] q = n /\ n # End -> [it[n] EXCEPT !.prev = p2]
               [] OTHER  -> it[q]]
  BY <1>1, <1>2 DEF Split
<1>4. ASSUME NEW o \in Offsets
      PROVE  /\ s[o] \in [kind : {"none", "free", "used"}, next : Offsets, prev : Offsets]
             /\ s[o].kind = IF o = p2 THEN "free" ELSE it[o].kind
             /\ s[o].next = IF o = p THEN p2 ELSE IF o = p2 THEN n ELSE it[o].next
             /\ s[o].prev = IF o = p2 THEN p
                            ELSE IF o = n /\ o # End THEN p2 ELSE it[o].prev
  <2>1. it[o] \in [kind : {"none", "free", "used"}, next : Offsets, prev : Offsets]
    BY <1>1 DEF Maps
  <2>2. CASE o = p
    <3>1. s[o] = [it[o] EXCEPT !.next = p2]
      BY <1>1, <1>3, <2>2
    <3> QED BY <1>1, <2>1, <2>2, <3>1
  <2>3. CASE o = p2
    <3>1. s[o] = [kind |-> "free", next |-> n, prev |-> p]
      BY <1>1, <1>3, <2>3
    <3> QED BY <1>1, <2>3, <3>1
  <2>4. CASE o = n /\ n # End
    <3>1. s[o] = [it[o] EXCEPT !.prev = p2]
      BY <1>1, <1>3, <2>4
    <3> QED BY <1>1, <2>1, <2>4, <3>1
  <2>5. CASE o # p /\ o # p2 /\ ~(o = n /\ n # End)
    <3>1. s[o] = it[o]
      BY <1>3, <2>5
    <3> QED BY <1>1, <2>1, <2>5, <3>1
  <2> QED BY <2>2, <2>3, <2>4, <2>5
<1>5. s \in Maps
  BY <1>3, <1>4 DEF Maps
<1> QED BY <1>1, <1>2, <1>4, <1>5 DEF HasSplit

LEMMA SplitTiling ==
  ASSUME HeapAssumption, NEW it, Tiling(it), NEW p, NEW size, Splittable(it, p, size)
  PROVE  Tiling(Split(it, p, size))
<1>1. PICK n \in Offsets, p2 \in Offsets :
        /\ n = it[p].next /\ p2 = p + H + size
        /\ it \in Maps /\ p \in Offsets /\ Is(it, n) /\ ~Is(it, p2)
        /\ p \in Nat /\ n \in Nat /\ p2 \in Nat /\ H \in Nat
        /\ p2 >= p + H /\ n >= p2 + H /\ p < p2 /\ p2 < n
        /\ p # p2 /\ p2 # n /\ p # n /\ p2 # End
  BY SplitFacts
<1>2. p \in Offsets \ {End} /\ Is(it, p)
  BY DEF Splittable
<1>3. PICK s \in Maps : s = Split(it, p, size)
  BY SplitShape DEF HasSplit
<1>4. \A o \in Offsets :
        /\ s[o].kind = IF o = p2 THEN "free" ELSE it[o].kind
        /\ s[o].next = IF o = p THEN p2 ELSE IF o = p2 THEN n ELSE it[o].next
        /\ s[o].prev = IF o = p2 THEN p
                       ELSE IF o = n /\ o # End THEN p2 ELSE it[o].prev
  BY <1>1, <1>3, SplitShape DEF HasSplit
<1>5. 0 \in Offsets /\ End \in Offsets /\ p2 # 0 /\ n # 0 /\ \A x \in Offsets : x \in Nat
  BY <1>1, Numbers
<1>6. \A o \in Offsets : Is(s, o) <=> o = p2 \/ Is(it, o)
  BY <1>4 DEF Is
<1>7. Is(s, 0) /\ s[0].prev = 0 /\ s[End].kind = "used"
  <2>1. Is(it, 0) /\ it[0].prev = 0 /\ it[End].kind = "used"
    BY DEF Tiling
  <2> QED BY <1>1, <1>4, <1>5, <1>6, <2>1
<1>8. /\ n # End => it[n].prev = p
      /\ \A x \in Offsets : p < x /\ x < n => ~Is(it, x)
  BY <1>1, <1>2 DEF Tiling, Follows
<1>9. ASSUME NEW o \in Offsets \ {End}, Is(s, o) PROVE Follows(s, o)
  <2>1. CASE o = p
    <3>1. s[o].next = p2 /\ Is(s, p2) /\ s[p2].prev = o
      BY <1>1, <1>4, <1>6, <2>1
    <3>2. \A x \in Offsets : o < x /\ x < p2 => ~Is(s, x)
      <4>1. ASSUME NEW x \in Offsets, o < x, x < p2 PROVE x < n /\ x # p2
        BY <1>1, <1>5, <4>1
      <4> QED BY <1>6, <1>8, <2>1, <4>1
    <3> QED BY <1>1, <2>1, <3>1, <3>2 DEF Follows
  <2>2. CASE o = p2
    <3>1. s[o].next = n /\ Is(s, n) /\ (n # End => s[n].prev = o)
      BY <1>1, <1>4, <1>6, <2>2
    <3>2. \A x \in Offsets : o < x /\ x < n => ~Is(s, x)
      <4>1. ASSUME NEW x \in Offsets, o < x, x < n PROVE p < x /\ x # p2
        BY <1>1, <1>5, <2>2, <4>1
      <4> QED BY <1>6, <1>8, <4>1
    <3> QED BY <1>1, <2>2, <3>1, <3>2 DEF Follows
  <2>3. CASE o # p /\ o # p2
    <3>1. PICK k \in Offsets : k = it[o].next
      BY <1>1, Fields
    <3>2. /\ Is(it, o) /\ k >= o + H /\ Is(it, k) /\ (k # End => it[k].prev = o)
          /\ \A x \in Offsets : o < x /\ x < k => ~Is(it, x)
      BY <1>6, <1>9, <2>3, <3>1 DEF Tiling, Follows
    <3>3. k # p2 /\ (k # n \/ n = End)
      BY <1>1, <1>8, <2>3, <3>2
    <3>4. s[o].next = k /\ Is(s, k) /\ (k # End => s[k].prev = o)
      BY <1>4, <1>6, <2>3, <3>1, <3>2, <3>3
    <3>5. ~(o < p2 /\ p2 < k)
      <4>1. ~(o < p /\ p < k) /\ ~(p < o /\ o < n)
        BY <1>2, <1>8, <3>2
      <4> QED BY <1>1, <1>5, <2>3, <4>1
    <3>6. \A x \in Offsets : o < x /\ x < k => ~Is(s, x)
      BY <1>6, <3>2, <3>5
    <3> QED BY <3>2, <3>4, <3>6 DEF Follows
  <2> QED BY <2>1, <2>2, <2>3
<1>10. ASSUME NEW o \in Offsets \ {0, End}, Is(s, o) PROVE Precedes(s, o)
  <2>1. CASE o = p2
    <3>1. s[o].prev = p /\ s[p].next = o /\ Is(s, p) /\ p < o
      BY <1>1, <1>2, <1>4, <1>6, <2>1
    <3> QED BY <3>1 DEF Precedes
  <2>2. CASE o = n
    <3>1. s[o].prev = p2 /\ s[p2].next = o /\ Is(s, p2) /\ p2 < o
      BY <1>1, <1>4, <1>6, <1>10, <2>2
    <3> QED BY <3>1 DEF Precedes
  <2>3. CASE o # p2 /\ o # n
    <3>1. PICK b \in Offsets : b = it[o].prev
      BY <1>1, Fields
    <3>2. b < o /\ Is(it, b) /\ it[b].next = o
      BY <1>6, <1>10, <2>3, <3>1 DEF Tiling, Precedes
    <3>3. b # p /\ b # p2
      BY <1>1, <2>3, <3>2
    <3>4. s[o].prev = b /\ s[b].next = o /\ Is(s, b)
      BY <1>4, <1>6, <2>3, <3>1, <3>2, <3>3
    <3> QED BY <3>2, <3>4 DEF Precedes
  <2> QED BY <2>1, <2>2, <2>3
<1>11. \A o \in Offsets : ~Is(s, o) => s[o].next = 0
  <2>1. \A o \in Offsets : ~Is(it, o) => it[o].next = 0
    BY DEF Tiling
  <2> QED BY <1>2, <1>4, <1>6, <2>1
<1> QED BY <1>3, <1>7, <1>9, <1>10, <1>11 DEF Tiling

\* What p gives up, if it is used, is counted no longer.
LEMMA SplitCounts ==
  ASSUME HeapAssumption, NEW it, Tiling(it), NEW p, NEW size, Splittable(it, p, size),
         NEW u \in Int, TakesUp(it, u)
  PROVE  TakesUp(Split(it, p, size),
                 u - (IF it[p].kind = "used" THEN it[p].next - (p + H + size) ELSE 0))
<1>1. PICK n \in Offsets, p2 \in Offsets :
        /\ n = it[p].next /\ p2 = p + H + size
        /\ it \in Maps /\ p \in Offsets /\ ~Is(it, p2)
        /\ p \in Nat /\ n \in Nat /\ p2 \in Nat
        /\ p < p2 /\ p2 < n
        /\ p # p2 /\ p2 # n /\ p # n /\ p2 # End
  BY SplitFacts
<1>2. p \in Offsets \ {End} /\ Is(it, p)
  BY DEF Splittable
<1>3. PICK f : Counts(it, f) /\ f[0] = u
  BY DEF TakesUp
<1>4. PICK s : s = Split(it, p, size)
  OBVIOUS
<1>5. \A o \in Offsets :
        /\ s[o].kind = IF o = p2 THEN "free" ELSE it[o].kind
        /\ s[o].next = IF o = p THEN p2 ELSE IF o = p2 THEN n ELSE it[o].next
  BY <1>1, <1>4, SplitShape DEF HasSplit
<1>6. PICK c \in Int : c = IF it[p].kind = "used" THEN n - p2 ELSE 0
  BY <1>1
<1> DEFINE h == [o \in Offsets |->
                   IF o <= p THEN f[o] - c ELSE IF o = p2 THEN f[n] ELSE f[o]]
<1>7. f \in [Offsets -> Int] /\ h \in [Offsets -> Int]
  <2>1. f \in [Offsets -> Int]
    BY <1>3 DEF Counts
  <2>2. \A o \in Offsets : f[o] \in Int /\ f[o] - c \in Int
    BY <2>1
  <2> QED BY <1>1, <2>1, <2>2
<1>8. 0 \in Offsets /\ End \in Offsets /\ ~(End <= p) /\ 0 <= p
  BY <1>2, Numbers
<1>9. h[End] = 0 /\ h[0] = u - c
  BY <1>1, <1>3, <1>8 DEF Counts
<1>10. h[p] = f[p] - c /\ h[p2] = f[n] /\ h[n] = f[n]
  <2>1. ~(p2 <= p) /\ ~(n <= p) /\ p <= p
    BY <1>1
  <2> QED BY <1>1, <2>1
<1>11. f[p] \in Int /\ f[n] \in Int
  BY <1>1, <1>7
<1>12. ASSUME NEW o \in Offsets \ {End}, Is(s, o)
       PROVE  h[o] = h[s[o].next] + Weight(s, o)
  <2>1. CASE o = p
    <3>1. f[p] = f[n] + Weight(it, p)
      BY <1>1, <1>2, <1>3 DEF Counts
    <3>2. s[o].next = p2 /\ s[o].kind = it[p].kind
      BY <1>1, <1>5, <2>1
    <3>3. Weight(it, p) - c = Weight(s, o) /\ Weight(it, p) \in Int /\ Weight(s, o) \in Int
      BY <1>1, <1>6, <2>1, <3>2 DEF Weight
    <3> HIDE DEF h
    <3> QED BY <1>10, <1>11, <2>1, <3>1, <3>2, <3>3
  <2>2. CASE o = p2
    <3>1. s[o].next = n /\ Weight(s, o) = 0
      BY <1>1, <1>5, <2>2 DEF Weight
    <3> HIDE DEF h
    <3> QED BY <1>10, <1>11, <2>2, <3>1
  <2>3. CASE o # p /\ o # p2
    <3>1. o \in Offsets /\ Is(it, o)
      BY <1>5, <1>12, <2>3 DEF Is
    <3>2. PICK k \in Offsets : k = it[o].next /\ k > o /\ Is(it, k)
      BY <3>1, ItemFacts
    <3>3. k # p2 /\ s[o].next = k /\ Weight(s, o) = Weight(it, o)
      BY <1>1, <1>5, <2>3, <3>1, <3>2 DEF Weight
    <3>4. f[o] = f[k] + Weight(it, o)
      BY <1>3, <3>1, <3>2 DEF Counts
    <3>5. o \in Nat /\ k \in Nat
      BY <3>1, <3>2, Numbers
    <3>6. ~(o < p /\ p < k)
      BY <1>2, <3>1, <3>2 DEF Tiling, Follows
    <3>7. f[o] \in Int /\ f[k] \in Int /\ Weight(it, o) \in Int
      BY <1>7, <3>1, <3>2, <3>5 DEF Weight
    <3>8. CASE o < p
      <4>1. o <= p /\ k <= p
        BY <1>1, <3>5, <3>6, <3>8
      <4>2. h[o] = f[o] - c /\ h[k] = f[k] - c
        BY <3>1, <3>2, <4>1
      <4> HIDE DEF h
      <4> QED BY <3>3, <3>4, <3>7, <4>2
    <3>9. CASE ~(o < p)
      <4>1. ~(o <= p) /\ ~(k <= p)
        BY <1>1, <2>3, <3>2, <3>5, <3>9
      <4>2. h[o] = f[o] /\ h[k] = f[k]
        BY <2>3, <3>1, <3>2, <3>3, <4>1
      <4> HIDE DEF h
      <4> QED BY <3>3, <3>4, <4>2
    <3> QED BY <3>8, <3>9
  <2> QED BY <2>1, <2>2, <2>3
<1>13. Counts(s, h)
  BY <1>7, <1>9, <1>12 DEF Counts
<1> HIDE DEF h
<1> QED BY <1>1, <1>4, <1>6, <1>9, <1>13 DEF TakesUp

-----------------------------------------------------------------------------
(* The lowest free item.                                                   *)

LEMMA LowestFreeSound ==
  ASSUME HeapAssumption, NEW it, Tiling(it), NEW p \in Offsets,
         \A o \in Offsets : o < p => it[o].kind # "free"
  PROVE  Lowest(it, LowestFree(it, p))
<1> DEFINE S == {q \in Offsets : q >= p /\ (it[q].kind = "free" \/ q = End)}
<1>1. Offsets \subseteq Nat /\ End \in Offsets /\ End >= p
  BY Numbers
<1>2. S \subseteq Nat /\ S # {}
  BY <1>1
<1>3. PICK q \in S : \A o \in S : q <= o
  BY <1>2, Least
<1>4. \A o \in Offsets : p <= o /\ o < q => it[o].kind # "free"
  <2>1. ASSUME NEW o \in Offsets, p <= o, o < q, it[o].kind = "free" PROVE FALSE
    <3>1. o \in S
      BY <1>1, <2>1
    <3>2. q <= o /\ q \in Nat /\ o \in Nat
      BY <1>1, <1>3, <3>1
    <3> QED BY <2>1, <3>2
  <2> QED BY <2>1
<1>5. \E x \in Offsets :
        /\ x >= p /\ (it[x].kind = "free" \/ x = End)
        /\ \A o \in Offsets : p <= o /\ o < x => it[o].kind # "free"
  BY <1>3, <1>4
<1>6. PICK x : x = LowestFree(it, p)
  OBVIOUS
<1>7. /\ x \in Offsets
      /\ x >= p /\ (it[x].kind = "free" \/ x = End)
      /\ \A o \in Offsets : p <= o /\ o < x => it[o].kind # "free"
  BY <1>5, <1>6 DEF LowestFree
<1>8. ASSUME NEW o \in Offsets, o < x PROVE it[o].kind # "free"
  <2>1. o \in Nat /\ p \in Nat
    BY <1>1
  <2>2. o < p \/ p <= o
    BY <2>1
  <2> QED BY <1>7, <1>8, <2>2
<1> QED BY <1>6, <1>7, <1>8 DEF Lowest

-----------------------------------------------------------------------------
(* Along the items, from heap_end back to the first one.                   *)

\* What holds of heap_end, and of every item when it holds of the one that
\* follows it, holds of all of them.
LEMMA Backwards ==
  ASSUME HeapAssumption, NEW it, Tiling(it), NEW P, End \in P,
         \A p \in Offsets \ {End} : Is(it, p) /\ it[p].next \in P => p \in P
  PROVE  \A p \in Offsets : Is(it, p) => p \in P
<1> DEFINE S == {d \in Nat : \E p \in Offsets : d = End - p /\ Is(it, p) /\ p \notin P}
<1>1. SUFFICES ASSUME NEW p \in Offsets, Is(it, p), p \notin P PROVE FALSE
  OBVIOUS
<1>2. p \in Nat /\ End \in Nat /\ End - p \in Nat
  BY Numbers
<1>3. S \subseteq Nat /\ S # {}
  BY <1>1, <1>2
<1>4. PICK d \in S : \A e \in S : d <= e
  BY <1>3, Least
<1>5. PICK q \in Offsets : d = End - q /\ Is(it, q) /\ q \notin P
  BY <1>4
<1>6. q # End
  BY <1>5
<1>7. PICK n \in Offsets : n = it[q].next /\ n > q /\ Is(it, n)
  BY <1>5, <1>6, ItemFacts
<1>8. n \notin P
  BY <1>5, <1>6, <1>7
<1>9. q \in Nat /\ n \in Nat /\ n <= End /\ End - n \in Nat
  BY <1>5, <1>7, Numbers
<1>10. End - n \in S
  BY <1>7, <1>8, <1>9
<1>11. d <= End - n
  BY <1>4, <1>10
<1> HIDE DEF S
<1> QED BY <1>2, <1>5, <1>7, <1>9, <1>11

\* Used items take up no more than the heap.
LEMMA TakesUpBound ==
  ASSUME HeapAssumption, NEW it, Tiling(it), NEW u \in Int, TakesUp(it, u)
  PROVE  u \in 0 .. End
<1>1. PICK f : Counts(it, f) /\ f[0] = u
  BY DEF TakesUp
<1> DEFINE P == {p \in Offsets : 0 <= f[p] /\ f[p] <= End - p}
<1>2. End \in P
  BY <1>1, Numbers DEF Counts
<1>3. ASSUME NEW p \in Offsets \ {End}, Is(it, p), it[p].next \in P PROVE p \in P
  <2>1. PICK n \in Offsets : n = it[p].next /\ n > p
    BY <1>3, ItemFacts
  <2>2. f[p] = f[n] + Weight(it, p) /\ f[n] \in Int /\ f[p] \in Int
    BY <1>1, <1>3, <2>1 DEF Counts
  <2>3. 0 <= f[n] /\ f[n] <= End - n
    BY <1>3, <2>1
  <2>4. n \in Nat /\ p \in Nat /\ End \in Nat
    BY <2>1, Numbers
  <2>5. Weight(it, p) \in Int /\ 0 <= Weight(it, p) /\ Weight(it, p) <= n - p
    BY <2>1, <2>4 DEF Weight
  <2>6. 0 <= f[p] /\ f[p] <= End - p
    BY <2>1, <2>2, <2>3, <2>4, <2>5
  <2> QED BY <2>6
<1>4. 0 \in Offsets /\ Is(it, 0) /\ End \in Nat
  BY Numbers DEF Tiling
<1> HIDE DEF P
<1>5. 0 \in P
  BY <1>2, <1>3, <1>4, Backwards
<1>6. 0 <= u /\ u <= End
  BY <1>1, <1>4, <1>5 DEF P
<1> QED BY <1>4, <1>6

-----------------------------------------------------------------------------
(* The account: Total[0] of the items is what TakesUp says.                *)

\* Total satisfies its definition: what the used items take up is one function
\* that does.
LEMMA TotalDefined ==
  ASSUME HeapAssumption, Tiling(items), NEW u \in Int, TakesUp(items, u)
  PROVE  \A p \in Offsets :
           Total[p] = IF p = End THEN 0
                      ELSE Total[items[p].next]
                             + IF items[p].kind = "used" THEN items[p].next - p ELSE 0
<1>1. PICK f : Counts(items, f) /\ f[0] = u
  BY DEF TakesUp
<1> DEFINE g == [p \in Offsets |-> IF Is(items, p) THEN f[p] ELSE f[0]]
           F(t) == [p \in Offsets |->
                      IF p = End THEN 0
                      ELSE t[items[p].next]
                             + IF items[p].kind = "used" THEN items[p].next - p ELSE 0]
<1>2. items \in Maps /\ 0 \in Offsets /\ End \in Offsets /\ Is(items, 0) /\ Is(items, End)
  BY Numbers DEF Tiling, Is
<1>3. ASSUME NEW p \in Offsets PROVE g[p] = F(g)[p]
  <2>1. CASE p = End
    BY <1>1, <1>2, <2>1 DEF Counts
  <2>2. CASE p # End /\ Is(items, p)
    <3>1. PICK n \in Offsets : n = items[p].next /\ Is(items, n)
      BY <2>2, ItemFacts
    <3>2. f[p] = f[n] + Weight(items, p)
      BY <1>1, <2>2, <3>1 DEF Counts
    <3>3. g[n] = f[n] /\ g[p] = f[p]
      BY <2>2, <3>1
    <3>4. F(g)[p] = g[n] + Weight(items, p)
      BY <2>2, <3>1 DEF Weight
    <3> QED BY <3>2, <3>3, <3>4
  <2>3. CASE p # End /\ ~Is(items, p)
    <3>1. items[p].next = 0 /\ items[p].kind # "used"
      BY <2>3 DEF Tiling, Is
    <3>2. g[p] = f[0] /\ g[0] = f[0]
      BY <1>2, <2>3
    <3>3. F(g)[p] = g[0] + 0
      BY <2>3, <3>1
    <3>4. f[0] \in Int
      BY <1>1
    <3> HIDE DEF g, F
    <3> QED BY <3>2, <3>3, <3>4
  <2> QED BY <2>1, <2>2, <2>3
<1>4. g = F(g)
  <2>1. g = [p \in Offsets |-> g[p]] /\ F(g) = [p \in Offsets |-> F(g)[p]]
    OBVIOUS
  <2> HIDE DEF g, F
  <2> QED BY <1>3, <2>1
<1>5. \E t : t = F(t)
  BY <1>4
<1>6. Total = CHOOSE t : t = F(t)
  BY DEF Total
<1>7. Total = F(Total)
  <2> HIDE DEF F
  <2> QED BY <1>5, <1>6
<1>8. ASSUME NEW p \in Offsets PROVE F(Total)[p] = IF p = End THEN 0
                      ELSE Total[items[p].next]
                             + IF items[p].kind = "used" THEN items[p].next - p ELSE 0
  OBVIOUS
<1> HIDE DEF F
<1> QED BY <1>7, <1>8

LEMMA TotalIs ==
  ASSUME HeapAssumption, Tiling(items), NEW u \in Int, TakesUp(items, u)
  PROVE  u = Total[0]
<1>1. PICK f : Counts(items, f) /\ f[0] = u
  BY DEF TakesUp
<1> DEFINE P == {p \in Offsets : f[p] = Total[p]}
<1>2. End \in Offsets /\ 0 \in Offsets /\ Is(items, 0)
  BY Numbers DEF Tiling
<1>3. End \in P
  BY <1>1, <1>2, TotalDefined DEF Counts
<1>4. ASSUME NEW p \in Offsets \ {End}, Is(items, p), items[p].next \in P PROVE p \in P
  <2>1. PICK n \in Offsets : n = items[p].next
    BY <1>4, ItemFacts
  <2>2. f[p] = f[n] + Weight(items, p)
    BY <1>1, <1>4, <2>1 DEF Counts
  <2>3. Total[p] = Total[n] + Weight(items, p)
    BY <2>1, TotalDefined DEF Weight
  <2>4. f[n] = Total[n]
    BY <1>4, <2>1
  <2> QED BY <2>2, <2>3, <2>4
<1> HIDE DEF P
<1>5. 0 \in P
  BY <1>2, <1>3, <1>4, Backwards
<1> QED BY <1>1, <1>5 DEF P

-----------------------------------------------------------------------------
(* Blocks are taken and released.                                          *)

\* Items that are sound: they tile the heap, low is the lowest free one, free ones
\* are never adjacent, and the used ones take up u.
SoundItems(it, low, u) ==
  /\ Tiling(it) /\ Lowest(it, low) /\ NoHole(it)
  /\ u \in Int /\ TakesUp(it, u)

\* But for p, the used items of it2 are those of it, where they were.
OthersUsed(it, it2, p) ==
  \A o \in Offsets : o # p =>
     /\ it2[o].kind = "used" <=> it[o].kind = "used"
     /\ it[o].kind = "used" => it2[o].next = it[o].next

\* A free item that is split if it is large enough for another one.
LEMMA Trimmed ==
  ASSUME HeapAssumption, SoundItems(items, lfree, used), NEW p \in Offsets \ {End},
         NEW size \in Nat \ {0}, items[p].kind = "free", Room(items, p) >= size,
         NEW s, s = IF Room(items, p) >= size + H + MIN THEN Split(items, p, size) ELSE items
  PROVE  /\ Tiling(s) /\ TakesUp(s, used) /\ Lowest(s, lfree)
         /\ s[p].kind = "free" /\ s[p].next >= p + H + size
         /\ OthersUsed(items, s, p)
         /\ \A o \in Offsets \ {End} :
              o # p /\ s[o].kind = "free" => s[s[o].next].kind = "used" /\ s[o].next # p
<1>1. /\ Tiling(items) /\ TakesUp(items, used) /\ Lowest(items, lfree) /\ used \in Int
      /\ items \in Maps /\ NoHole(items) /\ p \in Offsets /\ Is(items, p)
  BY DEF SoundItems, Tiling, Is
<1>2. PICK n \in Offsets : n = items[p].next
  BY <1>1, Fields
<1>3. p \in Nat /\ n \in Nat /\ H \in Nat /\ MIN \in Nat /\ size \in Nat /\ size > 0 /\ MIN > 0
  BY <1>1, <1>2, Numbers
<1>4. Room(items, p) = n - (p + H)
  BY <1>2 DEF Room
<1>5. ASSUME NEW o \in Offsets \ {End}, items[o].kind = "free"
      PROVE  items[items[o].next].kind = "used"
  BY <1>1, <1>5 DEF NoHole
<1>6. CASE Room(items, p) >= size + H + MIN
  <2>1. (p + H + size) + H <= n
    BY <1>3, <1>4, <1>6
  <2>2. Splittable(items, p, size)
    BY <1>1, <1>2, <2>1 DEF Splittable
  <2>3. s = Split(items, p, size)
    BY <1>6
  <2>4. PICK p2 \in Offsets :
          p2 = p + H + size /\ ~Is(items, p2) /\ p # p2 /\ p2 # n /\ p # n /\ p < p2
    BY <1>1, <1>2, <2>2, SplitFacts
  <2>5. \A o \in Offsets :
          /\ s[o].kind = IF o = p2 THEN "free" ELSE items[o].kind
          /\ s[o].next = IF o = p THEN p2 ELSE IF o = p2 THEN n ELSE items[o].next
    BY <1>1, <1>2, <2>2, <2>3, <2>4, SplitShape DEF HasSplit
  <2>6. Tiling(s)
    BY <1>1, <2>2, <2>3, SplitTiling
  <2>7. TakesUp(s, used)
    <3>1. TakesUp(s, used - 0)
      BY <1>1, <2>2, <2>3, SplitCounts
    <3>2. used - 0 = used
      BY <1>1
    <3> QED BY <3>1, <3>2
  <2>8. Lowest(s, lfree)
    <3>1. ~(p < lfree)
      BY <1>1 DEF Lowest
    <3>2. ~(p2 < lfree)
      BY <1>1, <2>4, <3>1, Numbers DEF Lowest
    <3> QED BY <1>1, <2>4, <2>5, <3>2 DEF Lowest, Is
  <2>9. s[p].kind = "free" /\ s[p].next = p2 /\ p2 >= p + H + size
    BY <1>1, <1>3, <2>4, <2>5
  <2>10. OthersUsed(items, s, p)
    BY <2>4, <2>5 DEF OthersUsed, Is
  <2>11. ASSUME NEW o \in Offsets \ {End}, o # p, s[o].kind = "free"
         PROVE  s[s[o].next].kind = "used" /\ s[o].next # p
    <3>1. CASE o = p2
      BY <1>1, <1>2, <1>5, <2>4, <2>5, <3>1
    <3>2. CASE o # p2
      <4>1. PICK k \in Offsets : k = items[o].next
        BY <1>1, Fields
      <4>2. s[o].next = k /\ items[o].kind = "free"
        BY <2>5, <2>11, <3>2, <4>1
      <4>3. items[k].kind = "used"
        BY <1>5, <4>1, <4>2
      <4>4. k # p /\ k # p2
        BY <2>4, <4>3 DEF Is
      <4> QED BY <2>5, <4>2, <4>3, <4>4
    <3> QED BY <3>1, <3>2
  <2> QED BY <2>6, <2>7, <2>8, <2>9, <2>10, <2>11
<1>7. CASE ~(Room(items, p) >= size + H + MIN)
  <2>1. s = items
    BY <1>7
  <2>2. s[p].next >= p + H + size
    BY <1>2, <1>3, <1>4, <2>1
  <2>3. OthersUsed(items, s, p)
    BY <2>1 DEF OthersUsed
  <2> QED BY <1>1, <1>5, <2>1, <2>2, <2>3
<1> QED BY <1>6, <1>7

\* The item that first fits becomes used.
LEMMA TakenSound ==
  ASSUME HeapAssumption, SoundItems(items, lfree, used),
         NEW size \in Nat \ {0}, NEW p \in Offsets, Fits(size, p),
         NEW it, it = Taken(p, size)
  PROVE  /\ SoundItems(it, LowestAfter(it, p), Spent(it, p))
         /\ p # End /\ items[p].kind = "free"
         /\ it[p].kind = "used" /\ it[p].next >= p + H + size
         /\ OthersUsed(items, it, p)
<1>1. items[p].kind = "free" /\ Room(items, p) >= size
  BY DEF Fits
<1>2. p # End /\ used \in Int /\ Lowest(items, lfree)
  BY <1>1 DEF SoundItems, Tiling
<1>3. PICK s : s = IF Room(items, p) >= size + H + MIN THEN Split(items, p, size) ELSE items
  OBVIOUS
<1>4. /\ Tiling(s) /\ TakesUp(s, used) /\ Lowest(s, lfree)
      /\ s[p].kind = "free" /\ s[p].next >= p + H + size
      /\ OthersUsed(items, s, p)
      /\ \A o \in Offsets \ {End} :
           o # p /\ s[o].kind = "free" => s[s[o].next].kind = "used" /\ s[o].next # p
  BY <1>1, <1>2, <1>3, Trimmed
<1>5. it = Marked(s, p, "used")
  BY <1>3 DEF Taken, Marked
<1>6. s \in Maps /\ Is(s, p)
  BY <1>4 DEF Tiling, Is
<1>7. \A o \in Offsets :
        /\ it[o].next = s[o].next
        /\ it[o].kind = IF o = p THEN "used" ELSE s[o].kind
  <2>1. HasMark(s, p, "used", it)
    BY <1>5, <1>6, MarkShape
  <2> QED BY <2>1 DEF HasMark
<1>8. Tiling(it)
  BY <1>2, <1>4, <1>5, <1>6, MarkTiling
<1>9. Spent(it, p) \in Int /\ TakesUp(it, Spent(it, p))
  <2>1. TakesUp(it, used + (Weight(it, p) - Weight(s, p)))
    BY <1>2, <1>4, <1>5, <1>6, MarkCounts
  <2>2. PICK n \in Offsets : n = it[p].next
    BY <1>8, Fields DEF Tiling
  <2>3. Weight(it, p) = n - p /\ Weight(s, p) = 0 /\ n \in Nat /\ p \in Nat
    BY <1>4, <1>7, <2>2, Numbers DEF Weight
  <2>4. used + (Weight(it, p) - Weight(s, p)) = Spent(it, p)
    BY <1>2, <2>2, <2>3 DEF Spent
  <2> QED BY <1>2, <2>1, <2>2, <2>3, <2>4 DEF Spent
<1>10. Lowest(it, LowestAfter(it, p))
  <2>1. \A o \in Offsets : o < lfree => it[o].kind # "free"
    BY <1>4, <1>7 DEF Lowest
  <2>2. CASE p = lfree
    BY <1>8, <2>1, <2>2, LowestFreeSound DEF LowestAfter
  <2>3. CASE p # lfree
    BY <1>4, <1>7, <2>1, <2>3 DEF LowestAfter, Lowest
  <2> QED BY <2>2, <2>3
<1>11. NoHole(it)
  <2>1. ASSUME NEW o \in Offsets \ {End}, it[o].kind = "free"
        PROVE  it[it[o].next].kind = "used"
    <3>1. PICK k \in Offsets : k = s[o].next
      BY <1>6, Fields
    <3>2. o # p /\ s[o].kind = "free" /\ it[o].next = k
      BY <1>7, <2>1, <3>1
    <3> QED BY <1>4, <1>7, <3>1, <3>2
  <2> QED BY <2>1 DEF NoHole
<1>12. OthersUsed(items, it, p)
  BY <1>4, <1>7 DEF OthersUsed
<1> QED BY <1>1, <1>2, <1>4, <1>7, <1>8, <1>9, <1>10, <1>11, <1>12 DEF SoundItems

\* A used item becomes free.
LEMMA ReleaseSound ==
  ASSUME HeapAssumption, NEW it, NEW low, NEW u, SoundItems(it, low, u),
         NEW p \in Offsets \ {End}, it[p].kind = "used", Release(it, low, p)
  PROVE  /\ SoundItems(items', lfree', u - (it[p].next - p))
         /\ items'[p].kind # "used"
         /\ OthersUsed(it, items', p)
<1>1. /\ Tiling(it) /\ Lowest(it, low) /\ NoHole(it) /\ u \in Int /\ TakesUp(it, u)
      /\ it \in Maps /\ p \in Offsets /\ Is(it, p)
  BY DEF SoundItems, Tiling, Is
<1>2. PICK m : m = Marked(it, p, "free")
  OBVIOUS
<1>3. PICK l : l = IF p < low THEN p ELSE low
  OBVIOUS
<1>4. PlugHoles(m, l, p)
  BY <1>2, <1>3 DEF Release, Marked
<1>5. \A o \in Offsets :
        /\ m[o].next = it[o].next
        /\ m[o].kind = IF o = p THEN "free" ELSE it[o].kind
  <2>1. HasMark(it, p, "free", m)
    BY <1>1, <1>2, MarkShape
  <2> QED BY <2>1 DEF HasMark
<1>6. Tiling(m)
  BY <1>1, <1>2, MarkTiling
<1>7. PICK n \in Offsets : n = it[p].next
  BY <1>1, Fields
<1>8. n \in Nat /\ p \in Nat /\ u - (n - p) \in Int
  BY <1>1, <1>7, Numbers
<1>9. TakesUp(m, u - (n - p))
  <2>1. TakesUp(m, u + (Weight(m, p) - Weight(it, p)))
    BY <1>1, <1>2, MarkCounts
  <2>2. Weight(m, p) = 0 /\ Weight(it, p) = n - p
    BY <1>1, <1>5, <1>7 DEF Weight
  <2>3. u + (Weight(m, p) - Weight(it, p)) = u - (n - p)
    BY <1>1, <1>8, <2>2
  <2> QED BY <2>1, <2>3
<1>10. Lowest(m, l)
  <2>1. low \in Offsets /\ low \in Nat /\ \A o \in Offsets : o \in Nat
    BY <1>1, Numbers DEF Lowest
  <2>2. ASSUME NEW o \in Offsets, o < l PROVE m[o].kind # "free"
    <3>1. o # p /\ o < low
      BY <1>3, <1>8, <2>1, <2>2
    <3> QED BY <1>1, <1>5, <3>1 DEF Lowest
  <2>3. l \in Offsets /\ (l = End \/ m[l].kind = "free")
    BY <1>1, <1>3, <1>5 DEF Lowest
  <2> QED BY <2>2, <2>3 DEF Lowest
<1>11. HolesAround(m, p)
  <2>1. ASSUME NEW o \in Offsets \ {End}, m[o].kind = "free", o # p, m[o].next # p
        PROVE  m[m[o].next].kind = "used"
    <3>1. PICK k \in Offsets : k = it[o].next
      BY <1>1, Fields
    <3>2. it[o].kind = "free" /\ m[o].next = k /\ k # p
      BY <1>5, <2>1, <3>1
    <3>3. it[k].kind = "used"
      BY <1>1, <3>1, <3>2 DEF NoHole
    <3> QED BY <1>5, <3>2, <3>3
  <2> QED BY <2>1 DEF HolesAround
<1>12. m[p].kind = "free"
  BY <1>1, <1>5
<1>13. /\ Tiling(items') /\ Lowest(items', lfree') /\ NoHole(items')
       /\ SameUsed(m, items') /\ TakesUp(items', u - (n - p))
  BY <1>4, <1>6, <1>9, <1>10, <1>11, <1>12, PlugSound
<1>14. items'[p].kind # "used" /\ OthersUsed(it, items', p)
  BY <1>1, <1>5, <1>12, <1>13 DEF SameUsed, OthersUsed
<1> QED BY <1>7, <1>8, <1>13, <1>14 DEF SoundItems

-----------------------------------------------------------------------------
(* Alignment.                                                              *)

\* Division leaves a remainder.
LEMMA Division ==
  ASSUME NEW a \in Int, NEW m \in Nat \ {0}
  PROVE  \E d \in Int, r \in 0 .. m - 1 : a = m * d + r /\ r = a % m
<1>1. a % m \in 0 .. m - 1 /\ a = m * (a \div m) + (a % m) /\ a \div m \in Int
  OBVIOUS
<1> QED BY <1>1

\* A multiple leaves none.
LEMMA Multiple ==
  ASSUME NEW m \in Nat \ {0}, NEW d \in Int
  PROVE  (m * d) % m = 0
<1>1. PICK x \in Int : x = m * d
  OBVIOUS
<1>2. PICK e \in Int, r \in 0 .. m - 1 : x = m * e + r /\ r = x % m
  BY Division
<1>3. m * (d - e) = r
  <2>1. PICK y \in Int, z \in Int : y = m * d /\ z = m * e
    OBVIOUS
  <2>2. m * (d - e) = y - z
    BY <2>1
  <2>3. x = y /\ x = z + r
    BY <1>1, <1>2, <2>1
  <2>4. y - z = r
    BY <2>3
  <2> QED BY <2>2, <2>4
<1>4. ASSUME NEW y \in Int, m * y < m, 0 <= m * y PROVE y = 0
  BY <1>4
<1>5. d - e = 0
  BY <1>3, <1>4
<1>6. r = m * 0
  BY <1>3, <1>5
<1> QED BY <1>1, <1>2, <1>6

\* What rt_malloc_align makes of the address of a block: it is aligned, and leaves
\* room for a pointer.
LEMMA Aligned ==
  ASSUME NEW ptr \in Nat, NEW align \in Nat \ {0},
         NEW addr, addr = IF ptr % align = 0 THEN ptr + align ELSE ptr + (align - (ptr % align))
  PROVE  addr \in Nat /\ addr % align = 0 /\ ptr < addr /\ addr <= ptr + align
<1>1. PICK d \in Int, r \in 0 .. align - 1 : ptr = align * d + r /\ r = ptr % align
  <2>1. ptr \in Int
    OBVIOUS
  <2> QED BY <2>1, Division
<1>2. align * d \in Int /\ align * (d + 1) = align * d + align /\ d + 1 \in Int
  OBVIOUS
<1>3. PICK z \in Int : z = align * d
  BY <1>2
<1>4. addr = z + align
  BY <1>1, <1>3
<1>5. addr = align * (d + 1)
  BY <1>2, <1>3, <1>4
<1>6. addr % align = 0
  BY <1>2, <1>5, Multiple
<1>7. ptr = z + r
  BY <1>1, <1>3
<1> QED BY <1>4, <1>6, <1>7

LEMMA Unaligned ==
  ASSUME NEW addr \in Nat
  PROVE  addr % 1 = 0
<1>1. (1 * addr) % 1 = 0
  BY Multiple
<1> QED BY <1>1

-----------------------------------------------------------------------------
(* The inductive invariant.                                                *)

UserType == [size : 0 .. MemSize, align : Nat, at : Nat]

\* What UsersServed says of the block at p
Serves(it, us, p) ==
  /\ (us[p].size > 0) <=> (it[p].kind = "used" /\ p # End)
  /\ us[p].size > 0 =>
       /\ us[p].at >= Base + p + H /\ us[p].at + us[p].size <= Base + it[p].next
       /\ us[p].at % us[p].align = 0
       /\ us[p].align > 1 => us[p].at > Base + p + H

HInv ==
  /\ SoundItems(items, lfree, used)
  /\ max \in 0 .. End /\ used <= max
  /\ users \in [Offsets -> UserType]
  /\ \A p \in Offsets : Serves(items, users, p)

\* A user whose request is no larger than the block that is allocated for it
LEMMA Allocates ==
  ASSUME HeapAssumption, HInv, NEW p \in Offsets, NEW size \in Nat \ {0}, AllocAt(size, p),
         NEW u \in UserType, users' = [users EXCEPT ![p] = u],
         u.size > 0, u.at >= Base + p + H, u.at + u.size <= Base + p + H + size,
         u.at % u.align = 0, u.align > 1 => u.at > Base + p + H
  PROVE  HInv'
<1>1. /\ SoundItems(items, lfree, used) /\ max \in 0 .. End /\ used <= max
      /\ users \in [Offsets -> UserType]
      /\ \A o \in Offsets : Serves(items, users, o)
  BY DEF HInv
<1>2. PICK it : it = Taken(p, size)
  OBVIOUS
<1>3. /\ Fits(size, p) /\ items' = it /\ lfree' = LowestAfter(it, p)
      /\ used' = Spent(it, p) /\ max' = Larger(max, used')
  BY <1>2 DEF AllocAt, FirstFit
<1>4. /\ SoundItems(it, LowestAfter(it, p), Spent(it, p))
      /\ p # End /\ it[p].kind = "used" /\ it[p].next >= p + H + size
      /\ OthersUsed(items, it, p)
  BY <1>1, <1>2, <1>3, TakenSound
<1>5. SoundItems(items', lfree', used')
  BY <1>3, <1>4
<1>6. used' \in 0 .. End
  BY <1>5, TakesUpBound DEF SoundItems
<1>7. max' \in 0 .. End /\ used' <= max'
  BY <1>1, <1>3, <1>6, Numbers DEF Larger
<1>8. users' \in [Offsets -> UserType]
  BY <1>1
<1>9. ASSUME NEW o \in Offsets PROVE Serves(items', users', o)
  <2>1. CASE o = p
    <3>1. PICK n \in Offsets : n = it[p].next
      BY <1>4, Fields DEF SoundItems, Tiling
    <3>2. users'[p] = u
      BY <1>1
    <3>3. n \in Nat /\ p \in Nat /\ H \in Nat /\ Base \in Nat
      BY <3>1, Numbers
    <3>4. u.size \in Nat /\ u.at \in Nat
      BY DEF UserType
    <3>5. u.at + u.size <= Base + n
      BY <1>4, <3>1, <3>3, <3>4
    <3> QED BY <1>3, <1>4, <2>1, <3>1, <3>2, <3>5 DEF Serves
  <2>2. CASE o # p
    <3>1. users'[o] = users[o]
      BY <1>1, <2>2
    <3>2. /\ it[o].kind = "used" <=> items[o].kind = "used"
          /\ items[o].kind = "used" => it[o].next = items[o].next
      BY <1>4, <2>2 DEF OthersUsed
    <3> QED BY <1>1, <1>3, <3>1, <3>2 DEF Serves
  <2> QED BY <2>1, <2>2
<1> QED BY <1>5, <1>7, <1>8, <1>9 DEF HInv

-----------------------------------------------------------------------------
(* Each operation preserves it.                                            *)

LEMMA RaisedFacts ==
  ASSUME HeapAssumption, NEW size \in Nat
  PROVE  Raised(size) \in Nat \ {0} /\ Raised(size) >= size
BY Numbers DEF Raised

LEMMA SizeFacts ==
  ASSUME HeapAssumption, NEW size \in Sizes
  PROVE  size \in Nat /\ size > 0 /\ size <= MemSize
BY DEF HeapAssumption

LEMMA MallocStep ==
  ASSUME HeapAssumption, HInv, NEW size \in Sizes, Malloc(size)
  PROVE  HInv'
<1>1. PICK p \in Offsets :
        /\ AllocAt(Raised(size), p)
        /\ users' = [users EXCEPT ![p] = [size |-> size, align |-> 1, at |-> Base + p + H]]
  BY DEF Malloc
<1>2. PICK addr \in Nat : addr = Base + p + H
  BY Numbers
<1>3. size \in 0 .. MemSize /\ size > 0 /\ size \in Nat
  BY SizeFacts, Numbers
<1>4. PICK u \in UserType : u = [size |-> size, align |-> 1, at |-> addr]
  BY <1>2, <1>3 DEF UserType
<1>5. u.size = size /\ u.at = addr /\ u.align = 1
  BY <1>4
<1>6. PICK r \in Nat \ {0} : r = Raised(size) /\ r >= size
  BY <1>3, RaisedFacts
<1>7. addr + size <= Base + p + H + r
  BY <1>2, <1>3, <1>6, Numbers
<1>8. u.at >= Base + p + H /\ u.at % u.align = 0 /\ ~(u.align > 1)
  <2>1. addr % 1 = 0 /\ addr >= Base + p + H
    BY <1>2, Unaligned
  <2> QED BY <1>5, <2>1
<1>9. users' = [users EXCEPT ![p] = u]
  BY <1>1, <1>2, <1>4
<1>10. AllocAt(r, p)
  BY <1>1, <1>6
<1>11. u.size > 0 /\ u.at + u.size <= Base + p + H + r
  BY <1>3, <1>5, <1>7
<1> QED BY <1>8, <1>9, <1>10, <1>11, Allocates

LEMMA MallocAlignStep ==
  ASSUME HeapAssumption, HInv, NEW size \in Sizes, NEW align \in Aligns,
         MallocAlign(size, align)
  PROVE  HInv'
<1>1. PICK p \in Offsets :
        LET ptr == Base + p + H
            addr == IF ptr % align = 0 THEN ptr + align ELSE ptr + (align - (ptr % align))
        IN  /\ size + align <= MemSize
            /\ AllocAt(Raised(size + align), p)
            /\ users' = [users EXCEPT ![p] = [size |-> size, align |-> align, at |-> addr]]
  BY DEF MallocAlign
<1>2. PICK ptr \in Nat : ptr = Base + p + H
  BY Numbers
<1>3. PICK addr : addr = IF ptr % align = 0 THEN ptr + align ELSE ptr + (align - (ptr % align))
  OBVIOUS
<1>4. align \in Nat \ {0} /\ size \in 0 .. MemSize /\ size > 0 /\ size \in Nat
  BY SizeFacts, Numbers DEF HeapAssumption
<1>5. addr \in Nat /\ addr % align = 0 /\ ptr < addr /\ addr <= ptr + align
  BY <1>2, <1>3, <1>4, Aligned
<1>6. PICK u \in UserType : u = [size |-> size, align |-> align, at |-> addr]
  BY <1>4, <1>5 DEF UserType
<1>7. u.size = size /\ u.at = addr /\ u.align = align
  BY <1>6
<1>8. PICK r \in Nat \ {0} : r = Raised(size + align) /\ r >= size + align
  BY <1>4, RaisedFacts
<1>9. addr + size <= ptr + r
  BY <1>2, <1>4, <1>5, <1>8
<1>10. users' = [users EXCEPT ![p] = u]
  BY <1>1, <1>2, <1>3, <1>6
<1>11. AllocAt(r, p)
  BY <1>1, <1>8
<1>12. addr >= ptr /\ addr > ptr
  BY <1>2, <1>5
<1> QED BY <1>2, <1>4, <1>5, <1>7, <1>9, <1>10, <1>11, <1>12, Allocates

\* The block of a user is a used item.
LEMMA UserFacts ==
  ASSUME HeapAssumption, HInv, NEW p \in Offsets, users[p].size > 0
  PROVE  /\ p \in Offsets \ {End} /\ items[p].kind = "used" /\ Is(items, p)
         /\ items[p].next \in Offsets /\ items[p].next > p
         /\ items \in Maps /\ users[p] \in UserType
<1>1. /\ Tiling(items) /\ items \in Maps /\ users[p] \in UserType
      /\ items[p].kind = "used" /\ p # End
  BY DEF HInv, SoundItems, Tiling, Serves
<1>2. Is(items, p)
  BY <1>1 DEF Is
<1> QED BY <1>1, <1>2, ItemFacts

LEMMA FreeStep ==
  ASSUME HeapAssumption, HInv, NEW p \in Offsets, Free(p)
  PROVE  HInv'
<1>1. /\ users[p].size > 0 /\ Release(items, lfree, p)
      /\ used' = used - (items[p].next - p)
      /\ users' = [users EXCEPT ![p] = NoUse] /\ max' = max
  BY DEF Free
<1>2. /\ SoundItems(items, lfree, used) /\ max \in 0 .. End /\ used <= max
      /\ users \in [Offsets -> UserType]
      /\ \A o \in Offsets : Serves(items, users, o)
  BY DEF HInv
<1>3. /\ p \in Offsets \ {End} /\ items[p].kind = "used"
      /\ items[p].next \in Offsets /\ items[p].next > p
  BY <1>1, UserFacts
<1>4. /\ SoundItems(items', lfree', used')
      /\ items'[p].kind # "used" /\ OthersUsed(items, items', p)
  BY <1>1, <1>2, <1>3, ReleaseSound
<1>5. used' <= max'
  <2>1. used \in Int /\ items[p].next \in Nat /\ p \in Nat /\ max \in Int
    BY <1>2, <1>3, Numbers DEF SoundItems
  <2> QED BY <1>1, <1>2, <1>3, <2>1
<1>6. NoUse \in UserType /\ NoUse.size = 0
  BY Numbers DEF NoUse, UserType
<1>7. users' \in [Offsets -> UserType]
  BY <1>1, <1>2, <1>6
<1>8. ASSUME NEW o \in Offsets PROVE Serves(items', users', o)
  <2>1. CASE o = p
    <3>1. users'[o].size = 0
      BY <1>1, <1>2, <1>6, <2>1
    <3> QED BY <1>4, <2>1, <3>1 DEF Serves
  <2>2. CASE o # p
    <3>1. users'[o] = users[o]
      BY <1>1, <1>2, <2>2
    <3>2. /\ items'[o].kind = "used" <=> items[o].kind = "used"
          /\ items[o].kind = "used" => items'[o].next = items[o].next
      BY <1>4, <2>2 DEF OthersUsed
    <3> QED BY <1>2, <3>1, <3>2 DEF Serves
  <2> QED BY <2>1, <2>2
<1> QED BY <1>1, <1>2, <1>4, <1>5, <1>7, <1>8 DEF HInv

LEMMA ReallocSameStep ==
  ASSUME HeapAssumption, HInv, NEW p \in Offsets, NEW size \in Sizes, ReallocSame(p, size)
  PROVE  HInv'
<1>1. /\ users[p].size > 0 /\ users[p].at = Base + p + H /\ Room(items, p) = size
      /\ users' = [users EXCEPT ![p].size = size]
      /\ items' = items /\ lfree' = lfree /\ used' = used /\ max' = max
  BY DEF ReallocSame, Plain, heapVars
<1>2. /\ SoundItems(items, lfree, used) /\ max \in 0 .. End /\ used <= max
      /\ users \in [Offsets -> UserType]
      /\ \A o \in Offsets : Serves(items, users, o)
  BY DEF HInv
<1>3. /\ p \in Offsets \ {End} /\ items[p].kind = "used"
      /\ items[p].next \in Offsets /\ users[p] \in UserType
  BY <1>1, UserFacts
<1>4. size \in 0 .. MemSize /\ size > 0 /\ size \in Nat
  BY SizeFacts, Numbers
<1>5. PICK u \in UserType : u = [users[p] EXCEPT !.size = size]
  BY <1>3, <1>4 DEF UserType
<1>6. u.size = size /\ u.at = users[p].at /\ u.align = users[p].align
  BY <1>3, <1>5 DEF UserType
<1>7. users' = [users EXCEPT ![p] = u]
  BY <1>1, <1>2, <1>5
<1>8. users' \in [Offsets -> UserType]
  BY <1>2, <1>7
<1>9. ASSUME NEW o \in Offsets PROVE Serves(items', users', o)
  <2>1. CASE o = p
    <3>1. users'[o] = u
      BY <1>2, <1>7, <2>1
    <3>2. PICK n \in Nat : n = items[p].next
      BY <1>3, Numbers
    <3>3. u.at + u.size <= Base + n
      <4>1. n - (p + H) = size /\ u.at = Base + p + H
        BY <1>1, <1>6, <3>2 DEF Room
      <4> QED BY <1>6, <3>2, <4>1, Numbers
    <3> QED BY <1>1, <1>2, <1>3, <1>4, <1>6, <2>1, <3>1, <3>2, <3>3 DEF Serves
  <2>2. CASE o # p
    <3>1. users'[o] = users[o]
      BY <1>2, <1>7, <2>2
    <3> QED BY <1>1, <1>2, <3>1 DEF Serves
  <2> QED BY <2>1, <2>2
<1>10. SoundItems(items', lfree', used')
  BY <1>1, <1>2
<1> QED BY <1>1, <1>2, <1>8, <1>9, <1>10 DEF HInv

LEMMA ReallocMoveStep ==
  ASSUME HeapAssumption, HInv, NEW p \in Offsets, NEW size \in Sizes, ReallocMove(p, size)
  PROVE  HInv'
<1>1. PICK q \in Offsets :
        LET it  == Taken(q, Raised(size))
            low == LowestAfter(it, q)
        IN  /\ Plain(p) /\ Room(items, p) # size /\ ~Shrinks(p, size)
            /\ FirstFit(Raised(size), q)
            /\ Release(it, low, p)
            /\ used' = Spent(it, q) - (items[p].next - p)
            /\ max' = Larger(max, Spent(it, q))
            /\ users' = [users EXCEPT ![p] = NoUse,
                           ![q] = [size |-> size, align |-> 1, at |-> Base + q + H]]
  BY DEF ReallocMove
<1>2. size \in 0 .. MemSize /\ size > 0 /\ size \in Nat
  BY SizeFacts, Numbers
<1>3. PICK r \in Nat \ {0} : r = Raised(size) /\ r >= size
  BY <1>2, RaisedFacts
<1>4. PICK it : it = Taken(q, r)
  OBVIOUS
<1>5. PICK addr \in Nat : addr = Base + q + H
  BY Numbers
<1>6. PICK u \in UserType : u = [size |-> size, align |-> 1, at |-> addr]
  BY <1>2, <1>5 DEF UserType
<1>7. /\ users[p].size > 0 /\ Fits(r, q) /\ Release(it, LowestAfter(it, q), p)
      /\ used' = Spent(it, q) - (items[p].next - p)
      /\ max' = Larger(max, Spent(it, q))
      /\ users' = [users EXCEPT ![p] = NoUse, ![q] = u]
  BY <1>1, <1>3, <1>4, <1>5, <1>6 DEF Plain, FirstFit
<1>8. /\ SoundItems(items, lfree, used) /\ max \in 0 .. End /\ used <= max
      /\ users \in [Offsets -> UserType]
      /\ \A o \in Offsets : Serves(items, users, o)
  BY DEF HInv
<1>9. /\ p \in Offsets \ {End} /\ items[p].kind = "used"
      /\ items[p].next \in Offsets /\ items[p].next > p
  BY <1>7, UserFacts
<1>10. /\ SoundItems(it, LowestAfter(it, q), Spent(it, q))
       /\ q # End /\ items[q].kind = "free" /\ it[q].kind = "used"
       /\ it[q].next >= q + H + r /\ OthersUsed(items, it, q)
  BY <1>3, <1>4, <1>7, <1>8, TakenSound
<1>11. p # q /\ it[p].kind = "used" /\ it[p].next = items[p].next
  BY <1>9, <1>10 DEF OthersUsed
<1>12. /\ SoundItems(items', lfree', used')
       /\ items'[p].kind # "used" /\ OthersUsed(it, items', p)
  BY <1>7, <1>9, <1>10, <1>11, ReleaseSound
<1>13. max' \in 0 .. End /\ used' <= max'
  <2>1. PICK s \in 0 .. End : s = Spent(it, q)
    BY <1>10, TakesUpBound DEF SoundItems
  <2>2. items[p].next \in Nat /\ p \in Nat /\ End \in Nat
    BY <1>9, Numbers
  <2>3. used' = s - (items[p].next - p) /\ max' = IF max > s THEN max ELSE s
    BY <1>7, <2>1 DEF Larger
  <2> QED BY <1>8, <1>9, <2>1, <2>2, <2>3
<1>14. NoUse \in UserType /\ NoUse.size = 0
  BY Numbers DEF NoUse, UserType
<1>15. /\ users' \in [Offsets -> UserType]
       /\ users'[p] = NoUse /\ users'[q] = u
       /\ \A o \in Offsets : o # p /\ o # q => users'[o] = users[o]
  BY <1>7, <1>8, <1>11, <1>14
<1>16. ASSUME NEW o \in Offsets PROVE Serves(items', users', o)
  <2>1. CASE o = p
    BY <1>12, <1>14, <1>15, <2>1 DEF Serves
  <2>2. CASE o = q
    <3>1. PICK n \in Nat : n = items'[q].next /\ n = it[q].next /\ items'[q].kind = "used"
      <4>1. it \in Maps
        BY <1>10 DEF SoundItems, Tiling
      <4>2. it[q].next \in Nat
        BY <4>1, Fields, Numbers
      <4> QED BY <1>10, <1>11, <1>12, <4>2 DEF OthersUsed
    <3>2. u.size = size /\ u.at = addr /\ u.align = 1
      BY <1>6
    <3>3. q \in Nat /\ H \in Nat /\ Base \in Nat
      BY Numbers
    <3>4. n >= q + H + r
      BY <1>10, <3>1
    <3>5. u.at + u.size <= Base + n
      BY <1>2, <1>3, <1>5, <3>1, <3>2, <3>3, <3>4
    <3>6. u.at >= Base + q + H /\ u.at % u.align = 0
      BY <1>5, <3>2, <3>3, Unaligned
    <3> QED BY <1>2, <1>10, <1>15, <2>2, <3>1, <3>2, <3>5, <3>6 DEF Serves
  <2>3. CASE o # p /\ o # q
    <3>1. users'[o] = users[o]
      BY <1>15, <2>3
    <3>2. /\ items'[o].kind = "used" <=> items[o].kind = "used"
          /\ items[o].kind = "used" => items'[o].next = items[o].next
      BY <1>10, <1>12, <2>3 DEF OthersUsed
    <3> QED BY <1>8, <3>1, <3>2 DEF Serves
  <2> QED BY <2>1, <2>2, <2>3
<1> QED BY <1>12, <1>13, <1>15, <1>16 DEF HInv

LEMMA ReallocShrinkStep ==
  ASSUME HeapAssumption, HInv, NEW p \in Offsets, NEW size \in Sizes, ReallocShrink(p, size)
  PROVE  HInv'
<1>1. PICK p2 : p2 = p + H + size
  OBVIOUS
<1>2. PICK s : s = Split(items, p, size)
  OBVIOUS
<1>3. PICK l : l = IF p2 < lfree THEN p2 ELSE lfree
  OBVIOUS
<1>4. /\ users[p].size > 0 /\ users[p].at = Base + p + H /\ Shrinks(p, size)
      /\ PlugHoles(s, l, p2)
      /\ used' = used - (Room(items, p) - size)
      /\ users' = [users EXCEPT ![p].size = size]
      /\ max' = max
  BY <1>1, <1>2, <1>3 DEF ReallocShrink, Plain
<1>5. /\ SoundItems(items, lfree, used) /\ max \in 0 .. End /\ used <= max
      /\ users \in [Offsets -> UserType]
      /\ \A o \in Offsets : Serves(items, users, o)
  BY DEF HInv
<1>6. /\ Tiling(items) /\ Lowest(items, lfree) /\ NoHole(items)
      /\ used \in Int /\ TakesUp(items, used)
  BY <1>5 DEF SoundItems
<1>7. /\ p \in Offsets \ {End} /\ items[p].kind = "used" /\ Is(items, p)
      /\ items[p].next \in Offsets /\ users[p] \in UserType /\ items \in Maps
  BY <1>4, UserFacts
<1>8. size \in 0 .. MemSize /\ size > 0 /\ size \in Nat \ {0} /\ size \in Nat
  BY SizeFacts, Numbers
<1>9. PICK n \in Offsets : n = items[p].next
  BY <1>7
<1>10. /\ p \in Nat /\ n \in Nat /\ H \in Nat /\ MIN \in Nat /\ MIN > 0 /\ Base \in Nat
  BY <1>7, <1>9, Numbers
<1>11. Room(items, p) = n - (p + H) /\ size + H + MIN < n - (p + H)
  BY <1>4, <1>9 DEF Shrinks, Room
<1>12. Splittable(items, p, size)
  <2>1. (p + H + size) + H <= n
    BY <1>8, <1>10, <1>11
  <2> QED BY <1>7, <1>8, <1>9, <2>1 DEF Splittable
<1>13. /\ p2 \in Offsets /\ ~Is(items, p2) /\ p2 \in Nat /\ p2 < n /\ p < p2
       /\ p # p2 /\ p2 # n /\ p # n /\ p2 # End
  BY <1>1, <1>6, <1>9, <1>12, SplitFacts
<1>14. \A o \in Offsets :
        /\ s[o].kind = IF o = p2 THEN "free" ELSE items[o].kind
        /\ s[o].next = IF o = p THEN p2 ELSE IF o = p2 THEN n ELSE items[o].next
  BY <1>1, <1>2, <1>6, <1>9, <1>12, SplitShape DEF HasSplit
<1>15. Tiling(s)
  BY <1>2, <1>6, <1>12, SplitTiling
<1>16. TakesUp(s, used - (n - p2))
  BY <1>1, <1>2, <1>6, <1>7, <1>9, <1>12, SplitCounts
<1>17. used' = used - (n - p2) /\ used' \in Int /\ used' <= max'
  <2>1. used' = used - ((n - (p + H)) - size) /\ max' = max /\ max \in Int
    BY <1>4, <1>5, <1>11
  <2> QED BY <1>1, <1>5, <1>6, <1>8, <1>10, <1>13, <2>1
<1>18. Lowest(s, l)
  <2>1. lfree \in Offsets /\ lfree \in Nat /\ \A o \in Offsets : o \in Nat
    BY <1>6, Numbers DEF Lowest
  <2>2. ASSUME NEW o \in Offsets, o < l PROVE s[o].kind # "free"
    <3>1. o # p2 /\ o < lfree
      BY <1>3, <1>13, <2>1, <2>2
    <3> QED BY <1>6, <1>14, <3>1 DEF Lowest
  <2>3. l \in Offsets /\ (l = End \/ s[l].kind = "free")
    BY <1>3, <1>6, <1>13, <1>14 DEF Lowest
  <2> QED BY <2>2, <2>3 DEF Lowest
<1>19. HolesAround(s, p2)
  <2>1. ASSUME NEW o \in Offsets \ {End}, s[o].kind = "free", o # p2, s[o].next # p2
        PROVE  s[s[o].next].kind = "used"
    <3>1. PICK k \in Offsets : k = items[o].next
      BY <1>7, Fields
    <3>2. items[o].kind = "free" /\ o # p /\ s[o].next = k /\ k # p2
      BY <1>7, <1>14, <2>1, <3>1
    <3>3. items[k].kind = "used"
      BY <1>6, <3>1, <3>2 DEF NoHole
    <3> QED BY <1>14, <3>2, <3>3
  <2> QED BY <2>1 DEF HolesAround
<1>20. s[p2].kind = "free" /\ p2 \in Offsets \ {End}
  BY <1>13, <1>14
<1>21. /\ Tiling(items') /\ Lowest(items', lfree') /\ NoHole(items')
       /\ SameUsed(s, items') /\ TakesUp(items', used')
  BY <1>4, <1>15, <1>16, <1>17, <1>18, <1>19, <1>20, PlugSound
<1>22. SoundItems(items', lfree', used')
  BY <1>17, <1>21 DEF SoundItems
<1>23. PICK u \in UserType : u = [users[p] EXCEPT !.size = size]
  BY <1>7, <1>8 DEF UserType
<1>24. u.size = size /\ u.at = users[p].at /\ u.align = users[p].align
  BY <1>7, <1>23 DEF UserType
<1>25. users' = [users EXCEPT ![p] = u]
  BY <1>4, <1>5, <1>23
<1>26. users' \in [Offsets -> UserType]
  BY <1>5, <1>25
<1>27. ASSUME NEW o \in Offsets PROVE Serves(items', users', o)
  <2>1. CASE o = p
    <3>1. users'[o] = u
      BY <1>5, <1>25, <2>1
    <3>2. items'[p].kind = "used" /\ items'[p].next = p2
      BY <1>7, <1>13, <1>14, <1>21 DEF SameUsed
    <3>3. u.at + u.size <= Base + p2
      BY <1>1, <1>4, <1>8, <1>10, <1>13, <1>24
    <3> QED BY <1>4, <1>5, <1>7, <1>8, <1>24, <2>1, <3>1, <3>2, <3>3 DEF Serves
  <2>2. CASE o # p
    <3>1. users'[o] = users[o]
      BY <1>5, <1>25, <2>2
    <3>2. /\ items'[o].kind = "used" <=> items[o].kind = "used"
          /\ items[o].kind = "used" => items'[o].next = items[o].next
      BY <1>13, <1>14, <1>21, <2>2 DEF SameUsed, Is
    <3> QED BY <1>5, <3>1, <3>2 DEF Serves
  <2> QED BY <2>1, <2>2
<1>28. max' \in 0 .. End /\ used' <= max'
  BY <1>4, <1>5, <1>17
<1> QED BY <1>22, <1>26, <1>27, <1>28 DEF HInv

LEMMA HeapInitSound ==
  ASSUME HeapAssumption, HeapInit
  PROVE  HInv
<1>1. /\ items = [p \in Offsets |->
                    IF p = 0 THEN [kind |-> "free", next |-> End, prev |-> 0]
                    ELSE IF p = End THEN [kind |-> "used", next |-> End, prev |-> End]
                    ELSE NoItem]
      /\ lfree = 0 /\ used = 0 /\ max = 0
      /\ users = [p \in Offsets |-> NoUse]
  BY DEF HeapInit
<1>2. /\ 0 \in Offsets /\ End \in Offsets /\ End > 0 /\ End \in Nat /\ End >= 0 + H
      /\ \A o \in Offsets : o \in Nat /\ o <= End
  BY Numbers
<1>3. /\ items[0] = [kind |-> "free", next |-> End, prev |-> 0]
      /\ items[End] = [kind |-> "used", next |-> End, prev |-> End]
      /\ \A o \in Offsets \ {0, End} : items[o] = NoItem
  BY <1>1, <1>2
<1>4. /\ items[0].kind = "free" /\ items[0].next = End /\ items[0].prev = 0
      /\ items[End].kind = "used"
      /\ \A o \in Offsets \ {0, End} : items[o].kind = "none" /\ items[o].next = 0
  BY <1>3 DEF NoItem
<1>5. items \in Maps
  <2>1. \A o \in Offsets :
          items[o] \in [kind : {"none", "free", "used"}, next : Offsets, prev : Offsets]
    BY <1>2, <1>3 DEF NoItem
  <2> QED BY <1>1, <2>1 DEF Maps
<1>6. \A o \in Offsets : Is(items, o) <=> o \in {0, End}
  BY <1>2, <1>4 DEF Is
<1>7. Tiling(items)
  <2>1. Follows(items, 0)
    <3>1. \A q \in Offsets : 0 < q /\ q < End => ~Is(items, q)
      BY <1>2, <1>6
    <3> QED BY <1>2, <1>4, <1>6, <3>1 DEF Follows
  <2>2. \A o \in Offsets \ {End} : Is(items, o) => Follows(items, o)
    BY <1>6, <2>1
  <2>3. \A o \in Offsets \ {0, End} : Is(items, o) => Precedes(items, o)
    BY <1>6
  <2>4. \A o \in Offsets : ~Is(items, o) => items[o].next = 0
    BY <1>4, <1>6
  <2> QED BY <1>2, <1>4, <1>5, <1>6, <2>2, <2>3, <2>4 DEF Tiling
<1>8. Lowest(items, lfree)
  BY <1>1, <1>2, <1>4 DEF Lowest
<1>9. NoHole(items)
  BY <1>2, <1>4 DEF NoHole
<1>10. TakesUp(items, used)
  <2>1. PICK f : f = [p \in Offsets |-> 0]
    OBVIOUS
  <2>2. ASSUME NEW o \in Offsets \ {End}, Is(items, o)
        PROVE  f[o] = f[items[o].next] + Weight(items, o)
    <3>1. o = 0
      BY <1>6, <2>2
    <3>2. Weight(items, o) = 0 /\ items[o].next = End
      BY <1>4, <3>1 DEF Weight
    <3>3. f[o] = 0 /\ f[End] = 0
      BY <1>2, <2>1
    <3> QED BY <3>2, <3>3
  <2>3. f \in [Offsets -> Int] /\ f[End] = 0 /\ f[0] = 0
    BY <1>2, <2>1
  <2>4. Counts(items, f)
    BY <2>2, <2>3 DEF Counts
  <2>5. f[0] = used
    BY <1>1, <2>3
  <2> QED BY <2>4, <2>5 DEF TakesUp
<1>11. SoundItems(items, lfree, used)
  BY <1>1, <1>7, <1>8, <1>9, <1>10 DEF SoundItems
<1>12. NoUse \in UserType /\ NoUse.size = 0
  BY Numbers DEF NoUse, UserType
<1>13. users \in [Offsets -> UserType] /\ \A o \in Offsets : users[o].size = 0
  BY <1>1, <1>12
<1>14. \A o \in Offsets : Serves(items, users, o)
  <2>1. \A o \in Offsets : ~(items[o].kind = "used" /\ o # End)
    BY <1>4
  <2> QED BY <1>13, <2>1 DEF Serves
<1>15. max \in 0 .. End /\ used <= max
  BY <1>1, <1>2
<1> QED BY <1>11, <1>13, <1>14, <1>15 DEF HInv

LEMMA HeapStep ==
  ASSUME HeapAssumption, HInv, [HeapNext]_<<heapVars, users>>
  PROVE  HInv'
<1>1. CASE HeapNext
  <2>1. ASSUME NEW size \in Sizes, Malloc(size) PROVE HInv'
    BY <2>1, MallocStep
  <2>2. ASSUME NEW size \in Sizes, NEW align \in Aligns, MallocAlign(size, align) PROVE HInv'
    BY <2>2, MallocAlignStep
  <2>3. ASSUME NEW p \in Offsets, Free(p) PROVE HInv'
    BY <2>3, FreeStep
  <2>4. ASSUME NEW p \in Offsets, NEW size \in Sizes, ReallocShrink(p, size) PROVE HInv'
    BY <2>4, ReallocShrinkStep
  <2>5. ASSUME NEW p \in Offsets, NEW size \in Sizes, ReallocSame(p, size) PROVE HInv'
    BY <2>5, ReallocSameStep
  <2>6. ASSUME NEW p \in Offsets, NEW size \in Sizes, ReallocMove(p, size) PROVE HInv'
    BY <2>6, ReallocMoveStep
  <2> QED BY <1>1, <2>1, <2>2, <2>3, <2>4, <2>5, <2>6 DEF HeapNext
<1>2. CASE UNCHANGED <<heapVars, users>>
  <2>1. items' = items /\ lfree' = lfree /\ used' = used /\ max' = max /\ users' = users
    BY <1>2 DEF heapVars
  <2>2. SoundItems(items', lfree', used')
    BY <2>1 DEF HInv
  <2> QED BY <2>1, <2>2 DEF HInv
<1> QED BY <1>1, <1>2

\* The walk from lfree finds the first item that is large enough, if there is one.
LEMMA HeapFindsRoom ==
  ASSUME HeapAssumption, HInv
  PROVE  FindsRoom
<1>1. SUFFICES ASSUME NEW size \in Sizes, NEW p \in Offsets,
                      items[p].kind = "free", Room(items, p) >= Raised(size)
               PROVE  \E q \in Offsets : FirstFit(Raised(size), q)
  BY DEF FindsRoom
<1>2. PICK r \in Nat : r = Raised(size)
  BY SizeFacts, RaisedFacts
<1>3. Tiling(items) /\ Lowest(items, lfree) /\ items \in Maps
  BY DEF HInv, SoundItems, Tiling
<1>4. Fits(r, p)
  <2>1. PICK n \in Offsets : n = items[p].next
    BY <1>3, Fields
  <2>2. /\ p \in Nat /\ n \in Nat /\ n <= MemSize + H /\ H \in Nat /\ MemSize \in Nat
        /\ lfree \in Nat
    BY <1>3, <2>1, Numbers DEF Lowest
  <2>3. n - (p + H) >= r
    BY <1>1, <1>2, <2>1 DEF Room
  <2>4. p <= MemSize - r
    BY <1>2, <2>2, <2>3
  <2>5. p >= lfree
    BY <1>1, <1>3, <2>2 DEF Lowest
  <2> QED BY <1>1, <1>2, <2>4, <2>5 DEF Fits
<1> DEFINE S == {q \in Offsets : Fits(r, q)}
<1>5. S \subseteq Nat /\ S # {}
  BY <1>4, Numbers
<1>6. PICK q \in S : \A o \in S : q <= o
  BY <1>5, Least
<1>7. ASSUME NEW o \in Offsets, o < q, Fits(r, o) PROVE FALSE
  <2>1. q <= o /\ q \in Nat /\ o \in Nat
    BY <1>5, <1>6, <1>7
  <2> QED BY <1>7, <2>1
<1>8. FirstFit(r, q)
  BY <1>6, <1>7 DEF FirstFit
<1> QED BY <1>2, <1>6, <1>8

LEMMA HeapIsSoundWhen ==
  ASSUME HeapAssumption, HInv
  PROVE  HeapSound
<1>1. /\ SoundItems(items, lfree, used) /\ max \in 0 .. End /\ used <= max
      /\ users \in [Offsets -> UserType]
      /\ \A o \in Offsets : Serves(items, users, o)
  BY DEF HInv
<1>2. /\ Tiling(items) /\ Lowest(items, lfree) /\ NoHole(items)
      /\ used \in Int /\ TakesUp(items, used)
  BY <1>1 DEF SoundItems
<1>3. HeapTypeOK
  <2>1. used \in 0 .. End
    BY <1>2, TakesUpBound
  <2> QED BY <1>1, <1>2, <2>1 DEF HeapTypeOK, Tiling, Lowest, Maps, UserType
<1>4. Tiled
  <2>1. Is(items, 0) /\ items[0].prev = 0 /\ items[End].kind = "used" /\ IsItem(End)
    BY <1>2 DEF Tiling, IsItem
  <2> QED BY <1>2, <2>1 DEF Tiling, Tiled, Follows, Is, IsItem
<1>5. NoHoles
  BY <1>2 DEF NoHole, NoHoles
<1>6. FindsRoom
  BY HeapFindsRoom
<1>7. UsedIsExact
  BY <1>1, <1>2, TotalIs DEF UsedIsExact
<1>8. UsersServed
  BY <1>1 DEF UsersServed, Serves
<1> QED BY <1>3, <1>4, <1>5, <1>6, <1>7, <1>8 DEF HeapSound

-----------------------------------------------------------------------------
(* The theorems.                                                           *)

\* rt_smem_init establishes the invariant; rt_malloc, rt_malloc_align, rt_realloc,
\* rt_free and rt_free_align preserve it.
THEOREM HeapInvariance ==
  ASSUME HeapAssumption
  PROVE  HeapSpec => []HInv
<1>1. HeapInit => HInv
  BY HeapInitSound
<1>2. HInv /\ [HeapNext]_<<heapVars, users>> => HInv'
  BY HeapStep
<1> QED BY <1>1, <1>2, PTL DEF HeapSpec

\* rt_malloc, rt_malloc_align, rt_realloc, rt_free, rt_memory_info: the items tile the
\* heap, free ones are never adjacent, an allocation fails only if no free item is
\* large enough, `used` is what the used items take up, and each user has a block of
\* his own that holds what he asked for, aligned as he asked for.
THEOREM HeapIsSound ==
  ASSUME HeapAssumption
  PROVE  HeapSpec => []HeapSound
<1>1. HInv => HeapSound
  BY HeapIsSoundWhen
<1> QED BY <1>1, HeapInvariance, PTL

\* The heap of all services side by side.  No step of another service touches it.
THEOREM HeapStaysSound == ServicesSpec => []HeapSound
<1>1. HeapAssumption
  BY PartsAssumption
<1>2. ServicesInit => HInv
  BY <1>1, HeapInitSound DEF ServicesInit
<1>3. HInv /\ [ServicesNext]_allVars => HInv'
  <2> SUFFICES ASSUME HInv, [ServicesNext]_allVars PROVE HInv'
    OBVIOUS
  <2>1. [HeapNext]_<<heapVars, users>>
    BY DEF ServicesNext, InSoft, InHard, InHeap, allVars, memVars
  <2> QED BY <1>1, <2>1, HeapStep
<1>4. HInv => HeapSound
  BY <1>1, HeapIsSoundWhen
<1> QED BY <1>2, <1>3, <1>4, PTL DEF ServicesSpec
=============================================================================
