----------------------------- MODULE ListProofs -----------------------------
(***************************************************************************)
(* What the operators on sequences that model linked lists do to the set   *)
(* of elements and to their positions, for lists that hold nothing twice.  *)
(***************************************************************************)
EXTENDS SequencesExt, Integers, SequenceTheorems, WellFoundedInduction, TLAPS

\* RemoveAt leaves out exactly one position.
LEMMA RemoveAtShape ==
  ASSUME NEW S, NEW s \in Seq(S), NEW j \in 1..Len(s)
  PROVE  /\ RemoveAt(s, j) \in Seq(S)
         /\ Len(RemoveAt(s, j)) = Len(s) - 1
         /\ \A i \in 1..(Len(s)-1) : RemoveAt(s, j)[i] = s[IF i < j THEN i ELSE i + 1]
<1>1. /\ SubSeq(s, 1, j-1) \in Seq(S)
      /\ Len(SubSeq(s, 1, j-1)) = j - 1
      /\ \A i \in 1..(j-1) : SubSeq(s, 1, j-1)[i] = s[i]
  BY SubSeqProperties
<1>2. /\ SubSeq(s, j+1, Len(s)) \in Seq(S)
      /\ Len(SubSeq(s, j+1, Len(s))) = Len(s) - j
      /\ \A i \in 1..(Len(s)-j) : SubSeq(s, j+1, Len(s))[i] = s[i+j]
  BY SubSeqProperties
<1>3. ASSUME NEW a \in Seq(S), NEW b \in Seq(S), Len(a) = j - 1, Len(b) = Len(s) - j,
             \A i \in 1..(j-1) : a[i] = s[i], \A i \in 1..(Len(s)-j) : b[i] = s[i+j]
      PROVE  /\ a \o b \in Seq(S)
             /\ Len(a \o b) = Len(s) - 1
             /\ \A i \in 1..(Len(s)-1) : (a \o b)[i] = s[IF i < j THEN i ELSE i + 1]
  <2>0. a \o b \in Seq(S) /\ Len(a \o b) = Len(a) + Len(b)
    BY ConcatProperties
  <2>1. Len(a) + Len(b) = Len(s) - 1
    BY <1>3
  <2>2. \A i \in 1..Len(a)+Len(b) : (a \o b)[i] = IF i <= Len(a) THEN a[i] ELSE b[i - Len(a)]
    BY ConcatProperties
  <2>3. ASSUME NEW i \in 1..(Len(s)-1) PROVE (a \o b)[i] = s[IF i < j THEN i ELSE i + 1]
    <3>1. CASE i < j BY <1>3, <2>2, <3>1
    <3>2. CASE i >= j 
      <4>1. (a \o b)[i] = b[i - (j-1)] BY <1>3, <2>2, <3>2
      <4>2. i - (j - 1) \in 1..(Len(s)-j) BY <3>2
      <4>3. b[i - (j-1)] = s[i - (j-1) + j] BY <1>3, <4>2
      <4> QED BY <4>1, <4>3, <3>2
    <3>3. i < j \/ i >= j OBVIOUS
    <3> QED BY <3>1, <3>2, <3>3, Zenon
  <2> QED BY <2>0, <2>1, <2>3
<1> QED BY <1>1, <1>2, <1>3 DEF RemoveAt

LEMMA SkipOne ==
  ASSUME NEW S, NEW s \in Seq(S), NEW j \in 1..Len(s), IsInjective(s),
         NEW r \in Seq(S), Len(r) = Len(s) - 1,
         \A i \in 1..(Len(s)-1) : r[i] = s[IF i < j THEN i ELSE i + 1]
  PROVE  ToSet(r) = ToSet(s) \ {s[j]} /\ IsInjective(r)
<1>0. \A x, y \in 1..Len(s) : s[x] = s[y] => x = y BY DEF IsInjective
<1>1. \A x \in ToSet(r) : x \in ToSet(s) \ {s[j]}
  <2>1. \A i \in 1..(Len(s)-1) : s[IF i < j THEN i ELSE i + 1] # s[j]
    BY <1>0
  <2> QED BY <2>1 DEF ToSet
<1>2. ASSUME NEW x \in ToSet(s) \ {s[j]} PROVE x \in ToSet(r)
    <3>1. PICK i \in 1..Len(s) : x = s[i] /\ i # j BY DEF ToSet
    <3>2. CASE i < j
      BY <3>1, <3>2 DEF ToSet
    <3>3. CASE i > j
      <4>1. i - 1 \in 1..Len(r) /\ r[i-1] = s[i] BY <3>1, <3>3
      <4> QED BY <4>1, <3>1 DEF ToSet
    <3> QED BY <3>1, <3>2, <3>3
<1>3. ASSUME NEW m \in 1..Len(r), NEW n \in 1..Len(r), r[m] = r[n] PROVE m = n
  <2>1. (IF m < j THEN m ELSE m+1) \in 1..Len(s) /\ (IF n < j THEN n ELSE n+1) \in 1..Len(s)
    OBVIOUS
  <2>2. (IF m < j THEN m ELSE m+1) = (IF n < j THEN n ELSE n+1)
    BY <2>1, <1>0, <1>3
  <2> QED BY <2>2
<1> QED BY <1>1, <1>2, <1>3 DEF IsInjective

LEMMA RemoveFirstProps ==
  ASSUME NEW S, NEW s \in Seq(S), NEW e, IsInjective(s)
  PROVE  /\ RemoveFirst(s, e) \in Seq(S)
         /\ ToSet(RemoveFirst(s, e)) = ToSet(s) \ {e}
         /\ IsInjective(RemoveFirst(s, e))
<1>1. CASE \E i \in 1..Len(s) : s[i] = e
  <2>0. PICK j \in 1..Len(s) : s[j] = e
    BY <1>1
  <2>1. {i \in 1..Len(s) : s[i] = e} = {j}
    BY <2>0 DEF IsInjective
  <2>2. Min({i \in 1..Len(s) : s[i] = e}) = j
    BY <2>1 DEF Min
  <2>3. RemoveFirst(s, e) = RemoveAt(s, j)
    BY <1>1, <2>1, <2>2 DEF RemoveFirst, SelectInSeq
  <2> QED BY <2>0, <2>3, RemoveAtShape, SkipOne
<1>2. CASE ~ \E i \in 1..Len(s) : s[i] = e
  BY <1>2 DEF RemoveFirst, ToSet
<1> QED BY <1>1, <1>2

\* Append at the tail, of an element that is not there yet.
LEMMA AppendProps ==
  ASSUME NEW S, NEW s \in Seq(S), NEW e \in S, IsInjective(s), e \notin ToSet(s)
  PROVE  /\ Append(s, e) \in Seq(S)
         /\ ToSet(Append(s, e)) = ToSet(s) \cup {e}
         /\ IsInjective(Append(s, e))
<1> DEFINE r == Append(s, e)
<1>1. /\ r \in Seq(S) /\ Len(r) = Len(s) + 1 /\ r[Len(s) + 1] = e
      /\ \A i \in 1 .. Len(s) : r[i] = s[i]
  OBVIOUS
<1> HIDE DEF r
<1>2. \A i \in 1 .. Len(s) : s[i] # e
  BY DEF ToSet
<1>3. ToSet(r) = ToSet(s) \cup {e}
  <2>1. \A x \in ToSet(r) : x \in ToSet(s) \cup {e}
    BY <1>1 DEF ToSet
  <2>2. \A x \in ToSet(s) \cup {e} : x \in ToSet(r)
    BY <1>1 DEF ToSet
  <2> QED BY <2>1, <2>2
<1>4. ASSUME NEW m \in 1 .. Len(r), NEW n \in 1 .. Len(r), r[m] = r[n] PROVE m = n
  <2>1. \A x, y \in 1 .. Len(s) : s[x] = s[y] => x = y
    BY DEF IsInjective
  <2> QED BY <1>1, <1>2, <1>4, <2>1
<1>5. IsInjective(r)
  BY <1>1, <1>4 DEF IsInjective
<1> QED BY <1>1, <1>3, <1>5 DEF r

\* InsertAt shifts the positions from i on.
LEMMA InsertAtShape ==
  ASSUME NEW S, NEW s \in Seq(S), NEW e \in S, NEW i \in 1 .. Len(s) + 1
  PROVE  /\ InsertAt(s, i, e) \in Seq(S)
         /\ Len(InsertAt(s, i, e)) = Len(s) + 1
         /\ InsertAt(s, i, e)[i] = e
         /\ \A n \in 1 .. Len(s) : InsertAt(s, i, e)[IF n < i THEN n ELSE n + 1] = s[n]
         /\ \A n \in 1 .. Len(s) + 1 :
               InsertAt(s, i, e)[n] = IF n < i THEN s[n] ELSE IF n = i THEN e ELSE s[n - 1]
<1>1. /\ SubSeq(s, 1, i-1) \in Seq(S)
      /\ Len(SubSeq(s, 1, i-1)) = i - 1
      /\ \A n \in 1 .. (i-1) : SubSeq(s, 1, i-1)[n] = s[n]
  BY SubSeqProperties
<1>2. /\ SubSeq(s, i, Len(s)) \in Seq(S)
      /\ Len(SubSeq(s, i, Len(s))) = Len(s) - i + 1
      /\ \A n \in 1 .. (Len(s)-i+1) : SubSeq(s, i, Len(s))[n] = s[i+n-1]
  BY SubSeqProperties
<1>3. ASSUME NEW a \in Seq(S), NEW b \in Seq(S), Len(a) = i - 1, Len(b) = Len(s) - i + 1,
             \A n \in 1 .. (i-1) : a[n] = s[n],
             \A n \in 1 .. (Len(s)-i+1) : b[n] = s[i+n-1]
      PROVE  /\ a \o <<e>> \o b \in Seq(S)
             /\ Len(a \o <<e>> \o b) = Len(s) + 1
             /\ \A n \in 1 .. Len(s) + 1 :
                  (a \o <<e>> \o b)[n] = IF n < i THEN s[n] ELSE IF n = i THEN e ELSE s[n - 1]
  <2>1. /\ a \o <<e>> \in Seq(S)
        /\ Len(a \o <<e>>) = i
        /\ \A n \in 1 .. i : (a \o <<e>>)[n] = IF n < i THEN s[n] ELSE e
    BY <1>3
  <2>2. ASSUME NEW c \in Seq(S), Len(c) = i, \A n \in 1 .. i : c[n] = IF n < i THEN s[n] ELSE e
        PROVE  /\ c \o b \in Seq(S)
               /\ Len(c \o b) = Len(s) + 1
               /\ \A n \in 1 .. Len(s) + 1 :
                    (c \o b)[n] = IF n < i THEN s[n] ELSE IF n = i THEN e ELSE s[n - 1]
    <3>1. c \o b \in Seq(S) /\ Len(c \o b) = Len(c) + Len(b)
      BY ConcatProperties
    <3>2. Len(c) + Len(b) = Len(s) + 1
      BY <1>3, <2>2
    <3>3. \A n \in 1 .. Len(c) + Len(b) :
             (c \o b)[n] = IF n <= Len(c) THEN c[n] ELSE b[n - Len(c)]
      BY ConcatProperties
    <3>4. ASSUME NEW n \in 1 .. Len(s) + 1
          PROVE (c \o b)[n] = IF n < i THEN s[n] ELSE IF n = i THEN e ELSE s[n - 1]
      <4>1. CASE n <= i
        BY <2>2, <3>2, <3>3, <4>1
      <4>2. CASE n > i
        <5>1. (c \o b)[n] = b[n - i]
          BY <2>2, <3>2, <3>3, <4>2
        <5>2. n - i \in 1 .. (Len(s)-i+1)
          BY <4>2
        <5>3. b[n - i] = s[i + (n - i) - 1]
          BY <1>3, <5>2
        <5>4. i + (n - i) - 1 = n - 1
          OBVIOUS
        <5> QED BY <5>1, <5>3, <5>4, <4>2
      <4>3. n <= i \/ n > i
        OBVIOUS
      <4> QED BY <4>1, <4>2, <4>3, Zenon
    <3> QED BY <3>1, <3>2, <3>4
  <2> QED BY <2>1, <2>2
<1>4. /\ InsertAt(s, i, e) \in Seq(S)
      /\ Len(InsertAt(s, i, e)) = Len(s) + 1
      /\ \A n \in 1 .. Len(s) + 1 :
           InsertAt(s, i, e)[n] = IF n < i THEN s[n] ELSE IF n = i THEN e ELSE s[n - 1]
  BY <1>1, <1>2, <1>3 DEF InsertAt
<1>5. ASSUME NEW n \in 1 .. Len(s) PROVE InsertAt(s, i, e)[IF n < i THEN n ELSE n + 1] = s[n]
  BY <1>4
<1>6. InsertAt(s, i, e)[i] = e
  BY <1>4
<1> QED BY <1>4, <1>5, <1>6

LEMMA InsertAtProps ==
  ASSUME NEW S, NEW s \in Seq(S), NEW e \in S, NEW i \in 1 .. Len(s) + 1,
         IsInjective(s), e \notin ToSet(s)
  PROVE  /\ InsertAt(s, i, e) \in Seq(S)
         /\ ToSet(InsertAt(s, i, e)) = ToSet(s) \cup {e}
         /\ IsInjective(InsertAt(s, i, e))
<1> DEFINE r == InsertAt(s, i, e)
<1>1. /\ r \in Seq(S) /\ Len(r) = Len(s) + 1 /\ r[i] = e
      /\ \A n \in 1 .. Len(s) : r[IF n < i THEN n ELSE n + 1] = s[n]
      /\ \A n \in 1 .. Len(s) + 1 : r[n] = IF n < i THEN s[n] ELSE IF n = i THEN e ELSE s[n - 1]
  BY InsertAtShape
<1> HIDE DEF r
<1>2. \A n \in 1 .. Len(s) : s[n] # e
  BY DEF ToSet
<1>3. \A x \in ToSet(r) : x \in ToSet(s) \cup {e}
  <2>1. ASSUME NEW n \in 1 .. Len(r) PROVE r[n] \in ToSet(s) \cup {e}
    <3>1. r[n] = IF n < i THEN s[n] ELSE IF n = i THEN e ELSE s[n - 1]
      BY <1>1
    <3>2. n < i => n \in 1 .. Len(s)
      BY <1>1
    <3>3. n > i => n - 1 \in 1 .. Len(s)
      BY <1>1
    <3>4. \A x \in 1 .. Len(s) : s[x] \in ToSet(s)
      BY DEF ToSet
    <3> QED BY <3>1, <3>2, <3>3, <3>4
  <2> QED BY <2>1 DEF ToSet
<1>4. \A x \in ToSet(s) \cup {e} : x \in ToSet(r)
  <2>1. e \in ToSet(r)
    <3>1. i \in 1 .. Len(r) /\ r[i] = e
      BY <1>1
    <3> QED BY <3>1 DEF ToSet
  <2>2. ASSUME NEW n \in 1 .. Len(s) PROVE s[n] \in ToSet(r)
    <3>1. CASE n < i
      <4>1. n \in 1 .. Len(r) /\ r[n] = s[n]
        BY <1>1, <3>1
      <4> QED BY <4>1 DEF ToSet
    <3>2. CASE n >= i
      <4>1. n + 1 \in 1 .. Len(r) /\ r[n + 1] = s[n]
        BY <1>1, <3>2
      <4> QED BY <4>1 DEF ToSet
    <3>3. n < i \/ n >= i
      OBVIOUS
    <3> QED BY <3>1, <3>2, <3>3, Zenon
  <2> QED BY <2>1, <2>2 DEF ToSet
<1>5. ASSUME NEW m \in 1 .. Len(r), NEW n \in 1 .. Len(r), r[m] = r[n] PROVE m = n
  <2>1. \A x, y \in 1 .. Len(s) : s[x] = s[y] => x = y
    BY DEF IsInjective
  <2>2. ASSUME NEW x \in 1 .. Len(r), x # i
        PROVE  \E y \in 1 .. Len(s) : r[x] = s[y] /\ x = IF y < i THEN y ELSE y + 1
    <3>1. CASE x < i
      <4>1. x \in 1 .. Len(s) /\ r[x] = s[x]
        BY <1>1, <3>1
      <4> QED BY <4>1, <3>1
    <3>2. CASE x > i
      <4>1. x - 1 \in 1 .. Len(s) /\ r[x] = s[x - 1]
        BY <1>1, <3>2
      <4>2. x = IF x - 1 < i THEN x - 1 ELSE (x - 1) + 1
        BY <1>1, <3>2
      <4> QED BY <4>1, <4>2
    <3>3. x < i \/ x > i
      BY <1>1, <2>2
    <3> QED BY <3>1, <3>2, <3>3, Zenon
  <2>3. CASE m = i \/ n = i
    BY <1>1, <1>2, <1>5, <2>2, <2>3
  <2>4. CASE m # i /\ n # i
    <3>1. PICK x \in 1 .. Len(s) : r[m] = s[x] /\ m = IF x < i THEN x ELSE x + 1
      BY <2>2, <2>4, Zenon
    <3>2. PICK y \in 1 .. Len(s) : r[n] = s[y] /\ n = IF y < i THEN y ELSE y + 1
      BY <2>2, <2>4, Zenon
    <3>3. x = y
      BY <2>1, <3>1, <3>2, <1>5, Zenon
    <3> QED BY <3>1, <3>2, <3>3, Zenon
  <2> QED BY <2>3, <2>4
<1>6. IsInjective(r)
  BY <1>1, <1>5 DEF IsInjective
<1>7. ToSet(r) = ToSet(s) \cup {e}
  BY <1>3, <1>4
<1> QED BY <1>1, <1>6, <1>7 DEF r

\* A sequence is empty exactly when its set of elements is.
LEMMA EmptyList ==
  ASSUME NEW S, NEW s \in Seq(S)
  PROVE  (s = <<>>) <=> (ToSet(s) = {})
<1>1. CASE s = <<>>
  BY <1>1 DEF ToSet
<1>2. CASE s # <<>>
  <2>1. 1 \in 1 .. Len(s)
    BY <1>2
  <2>2. s[1] \in ToSet(s)
    BY <2>1 DEF ToSet
  <2> QED BY <1>2, <2>2
<1> QED BY <1>1, <1>2

\* The head of a non-empty sequence is one of its elements.
LEMMA HeadIn ==
  ASSUME NEW S, NEW s \in Seq(S), s # <<>>
  PROVE  Head(s) \in ToSet(s) /\ Head(s) \in S
<1>1. 1 \in 1 .. Len(s) /\ Head(s) = s[1] /\ s[1] \in S
  OBVIOUS
<1> QED BY <1>1 DEF ToSet

\* The first element goes: the others stay.
LEMMA TailProps ==
  ASSUME NEW E, NEW s \in Seq(E), s # <<>>, IsInjective(s)
  PROVE  /\ Tail(s) \in Seq(E) /\ IsInjective(Tail(s))
         /\ ToSet(Tail(s)) = ToSet(s) \ {Head(s)}
<1>1. /\ Tail(s) \in Seq(E) /\ Len(Tail(s)) = Len(s) - 1 /\ 1 \in 1 .. Len(s)
      /\ \A i \in 1 .. (Len(s) - 1) : Tail(s)[i] = s[IF i < 1 THEN i ELSE i + 1]
  OBVIOUS
<1>2. Head(s) = s[1]
  OBVIOUS
<1>3. ToSet(Tail(s)) = ToSet(s) \ {s[1]} /\ IsInjective(Tail(s))
  BY <1>1, SkipOne
<1> QED BY <1>1, <1>2, <1>3

\* Putting an element first.
LEMMA FrontInsert ==
  ASSUME NEW E, NEW s \in Seq(E), NEW e \in E
  PROVE  InsertAt(s, 1, e) = <<e>> \o s
<1> DEFINE r == InsertAt(s, 1, e)
           f == <<e>> \o s
<1>1. /\ r \in Seq(E) /\ Len(r) = Len(s) + 1
      /\ \A n \in 1 .. Len(s) + 1 : r[n] = IF n < 1 THEN s[n] ELSE IF n = 1 THEN e ELSE s[n - 1]
  BY InsertAtShape
<1>2. /\ f \in Seq(E) /\ Len(f) = Len(s) + 1
      /\ \A n \in 1 .. Len(s) + 1 : f[n] = IF n = 1 THEN e ELSE s[n - 1]
  OBVIOUS
<1> HIDE DEF r, f
<1>3. Len(r) = Len(f) /\ \A n \in 1 .. Len(r) : r[n] = f[n]
  BY <1>1, <1>2
<1>4. r = f
  BY <1>1, <1>2, <1>3, SeqEqual
<1> QED BY <1>4 DEF r, f

\* The elements of a sequence over S are in S.
LEMMA ElementsIn ==
  ASSUME NEW S, NEW s \in Seq(S)
  PROVE  ToSet(s) \subseteq S
BY DEF ToSet

\* A non-empty set of natural numbers has a minimum.
LEMMA MinProps ==
  ASSUME NEW T, T \subseteq Nat, T # {}
  PROVE  Min(T) \in T /\ \A y \in T : Min(T) <= y
<1> DEFINE R == {ss \in Nat \X Nat : ss[1] < ss[2]}
<1>1. IsWellFoundedOn(R, Nat)
  BY NatLessThanWellFounded DEF OpToRel
<1>2. PICK x \in T : \A y \in T : ~ (<<y, x>> \in R)
  BY <1>1, WFMin
<1>3. ASSUME NEW y \in T PROVE x <= y
  <2>1. x \in Nat /\ y \in Nat /\ ~ (<<y, x>> \in R)
    BY <1>2, <1>3
  <2> QED BY <2>1
<1> QED BY <1>3 DEF Min

\* Removing what a list does not hold leaves the list alone.
LEMMA RemoveAbsent ==
  ASSUME NEW S, NEW s \in Seq(S), NEW e, e \notin ToSet(s)
  PROVE  RemoveFirst(s, e) = s
BY DEF RemoveFirst, ToSet

-----------------------------------------------------------------------------
(* Lists that are kept in an order, given as a set R of pairs.             *)

SortedBy(s, R) == \A i, j \in 1 .. Len(s) : i < j => <<s[i], s[j]>> \in R

\* A list in order stays in order when an element leaves it.
LEMMA RemoveSorted ==
  ASSUME NEW S, NEW s \in Seq(S), IsInjective(s), NEW R, SortedBy(s, R), NEW e
  PROVE  SortedBy(RemoveFirst(s, e), R)
<1>1. CASE \E i \in 1 .. Len(s) : s[i] = e
  <2>0. PICK j \in 1 .. Len(s) : s[j] = e
    BY <1>1
  <2>1. {i \in 1 .. Len(s) : s[i] = e} = {j}
    BY <2>0 DEF IsInjective
  <2>2. Min({i \in 1 .. Len(s) : s[i] = e}) = j
    BY <2>1 DEF Min
  <2>3. RemoveFirst(s, e) = RemoveAt(s, j)
    BY <1>1, <2>1, <2>2 DEF RemoveFirst, SelectInSeq
  <2> DEFINE r == RemoveFirst(s, e)
  <2>4. /\ r \in Seq(S) /\ Len(r) = Len(s) - 1
        /\ \A i \in 1 .. (Len(s)-1) : r[i] = s[IF i < j THEN i ELSE i + 1]
    BY <2>0, <2>3, RemoveAtShape
  <2> HIDE DEF r
  <2>5. ASSUME NEW x \in 1 .. Len(r), NEW y \in 1 .. Len(r), x < y
        PROVE  <<r[x], r[y]>> \in R
    <3>1. x \in 1 .. (Len(s)-1) /\ y \in 1 .. (Len(s)-1)
      BY <2>4
    <3> DEFINE a == IF x < j THEN x ELSE x + 1
               b == IF y < j THEN y ELSE y + 1
    <3>2. a \in 1 .. Len(s) /\ b \in 1 .. Len(s) /\ a < b
      BY <2>5, <3>1
    <3>3. r[x] = s[a] /\ r[y] = s[b]
      BY <2>4, <3>1
    <3> HIDE DEF a, b
    <3> QED BY <3>2, <3>3 DEF SortedBy
  <2> QED BY <2>5 DEF SortedBy, r
<1>2. CASE ~ \E i \in 1 .. Len(s) : s[i] = e
  BY <1>2 DEF RemoveFirst
<1> QED BY <1>1, <1>2

\* A list in order stays in order when an element is put behind those that it comes
\* after and before those that come after it.
LEMMA InsertSorted ==
  ASSUME NEW S, NEW s \in Seq(S), NEW R, SortedBy(s, R), NEW e \in S,
         NEW at \in 1 .. Len(s) + 1,
         \A n \in 1 .. Len(s) : n < at => <<s[n], e>> \in R,
         \A n \in 1 .. Len(s) : n >= at => <<e, s[n]>> \in R
  PROVE  SortedBy(InsertAt(s, at, e), R)
<1> DEFINE r == InsertAt(s, at, e)
<1>1. /\ r \in Seq(S) /\ Len(r) = Len(s) + 1
      /\ \A n \in 1 .. Len(s) + 1 :
            r[n] = IF n < at THEN s[n] ELSE IF n = at THEN e ELSE s[n - 1]
  BY InsertAtShape
<1> HIDE DEF r
<1>2. ASSUME NEW x \in 1 .. Len(r), NEW y \in 1 .. Len(r), x < y PROVE <<r[x], r[y]>> \in R
  <2>1. x \in 1 .. Len(s) + 1 /\ y \in 1 .. Len(s) + 1
    BY <1>1
  <2>2. CASE y < at
    <3>1. r[x] = s[x] /\ r[y] = s[y] /\ x \in 1 .. Len(s) /\ y \in 1 .. Len(s)
      BY <1>1, <1>2, <2>1, <2>2
    <3> QED BY <1>2, <3>1 DEF SortedBy
  <2>3. CASE y = at
    <3>1. r[x] = s[x] /\ r[y] = e /\ x \in 1 .. Len(s) /\ x < at
      BY <1>1, <1>2, <2>1, <2>3
    <3> QED BY <3>1
  <2>4. CASE x < at /\ y > at
    <3>1. r[x] = s[x] /\ r[y] = s[y - 1] /\ x \in 1 .. Len(s) /\ y - 1 \in 1 .. Len(s)
      BY <1>1, <1>2, <2>1, <2>4
    <3>2. x < y - 1
      BY <2>1, <2>4
    <3> QED BY <3>1, <3>2 DEF SortedBy
  <2>5. CASE x = at
    <3>1. r[x] = e /\ r[y] = s[y - 1] /\ y - 1 \in 1 .. Len(s) /\ y - 1 >= at
      BY <1>1, <1>2, <2>1, <2>5
    <3> QED BY <3>1
  <2>6. CASE x > at
    <3>1. r[x] = s[x - 1] /\ r[y] = s[y - 1] /\ x - 1 \in 1 .. Len(s) /\ y - 1 \in 1 .. Len(s)
      BY <1>1, <1>2, <2>1, <2>6
    <3>2. x - 1 < y - 1
      BY <1>2, <2>1
    <3> QED BY <3>1, <3>2 DEF SortedBy
  <2>7. y < at \/ y = at \/ (x < at /\ y > at) \/ x = at \/ x > at
    BY <2>1
  <2> QED BY <2>2, <2>3, <2>4, <2>5, <2>6, <2>7
<1> QED BY <1>2 DEF SortedBy, r
=============================================================================
