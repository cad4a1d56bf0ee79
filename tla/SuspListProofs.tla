--------------------------- MODULE SuspListProofs ---------------------------
(***************************************************************************)
(* Facts about lists, for every set of elements: what inserting, removing, *)
(* appending and taking the first do to the elements of a list and to its  *)
(* having none twice.                                                      *)
(***************************************************************************)
EXTENDS SuspList, FiniteSets, SequenceTheorems, FiniteSetTheorems, WellFoundedInduction, TLAPS

-----------------------------------------------------------------------------
(* Sequences: SequencesExt defines InsertAt and RemoveAt by SubSeq. *)

\* In r the element e stands at k between those of q.
Inserts(r, q, k, e) ==
  \A i \in 1 .. Len(q) + 1 : r[i] = IF i < k THEN q[i] ELSE IF i = k THEN e ELSE q[i - 1]

\* An element is inserted, those behind it move.
LEMMA InsertAtProperties ==
  ASSUME NEW S, NEW q \in Seq(S), NEW e \in S, NEW k \in 1 .. Len(q) + 1
  PROVE  /\ InsertAt(q, k, e) \in Seq(S)
         /\ Len(InsertAt(q, k, e)) = Len(q) + 1
         /\ Inserts(InsertAt(q, k, e), q, k, e)
<1> DEFINE a == SubSeq(q, 1, k - 1)
           b == SubSeq(q, k, Len(q))
<1>1. Len(q) \in Nat /\ \A i \in 1 .. Len(q) : q[i] \in S
  OBVIOUS
<1>2. /\ a \in Seq(S) /\ Len(a) = k - 1
      /\ \A i \in 1 .. k - 1 : a[i] = q[i]
  <2>1. \A i \in 1 .. k - 1 : q[i] \in S
    BY <1>1
  <2>2. /\ a \in Seq(S) /\ Len(a) = IF 1 <= k - 1 THEN (k - 1) - 1 + 1 ELSE 0
        /\ \A i \in 1 .. (k - 1) - 1 + 1 : a[i] = q[1 + i - 1]
    BY <2>1, <1>1, SubSeqProperties
  <2> QED
    BY <2>2, <1>1
<1>3. /\ b \in Seq(S) /\ Len(b) = Len(q) - k + 1
      /\ \A i \in 1 .. Len(q) - k + 1 : b[i] = q[k + i - 1]
  <2>1. \A i \in k .. Len(q) : q[i] \in S
    BY <1>1
  <2>2. /\ b \in Seq(S) /\ Len(b) = IF k <= Len(q) THEN Len(q) - k + 1 ELSE 0
        /\ \A i \in 1 .. Len(q) - k + 1 : b[i] = q[k + i - 1]
    BY <2>1, <1>1, SubSeqProperties
  <2> QED
    BY <2>2, <1>1
<1> HIDE DEF a, b
<1>4. <<e>> \in Seq(S) /\ Len(<<e>>) = 1 /\ <<e>>[1] = e
  OBVIOUS
<1>5. /\ a \o <<e>> \in Seq(S) /\ Len(a \o <<e>>) = k
      /\ \A i \in 1 .. k : (a \o <<e>>)[i] = IF i < k THEN q[i] ELSE e
  <2>1. /\ a \o <<e>> \in Seq(S) /\ Len(a \o <<e>>) = Len(a) + Len(<<e>>)
        /\ \A i \in 1 .. Len(a) + Len(<<e>>) :
             (a \o <<e>>)[i] = IF i <= Len(a) THEN a[i] ELSE <<e>>[i - Len(a)]
    BY <1>2, <1>4, ConcatProperties
  <2> QED
    BY <2>1, <1>1, <1>2, <1>4
<1> DEFINE c == a \o <<e>>
<1>6. c \in Seq(S) /\ Len(c) = k /\ \A i \in 1 .. k : c[i] = IF i < k THEN q[i] ELSE e
  BY <1>5
<1> HIDE DEF c
<1>7. /\ c \o b \in Seq(S) /\ Len(c \o b) = Len(c) + Len(b)
      /\ \A i \in 1 .. Len(c) + Len(b) :
           (c \o b)[i] = IF i <= Len(c) THEN c[i] ELSE b[i - Len(c)]
  BY <1>3, <1>6, ConcatProperties
<1>8. InsertAt(q, k, e) = c \o b
  BY DEF InsertAt, a, b, c
<1>9. c \o b \in Seq(S) /\ Len(c \o b) = Len(q) + 1 /\ Inserts(c \o b, q, k, e)
  BY <1>1, <1>3, <1>6, <1>7 DEF Inserts
<1> QED
  BY <1>8, <1>9

\* An element is taken out, those behind it move.
LEMMA RemoveAtProperties ==
  ASSUME NEW S, NEW q \in Seq(S), NEW k \in 1 .. Len(q)
  PROVE  /\ RemoveAt(q, k) \in Seq(S)
         /\ Len(RemoveAt(q, k)) = Len(q) - 1
         /\ \A i \in 1 .. Len(q) - 1 : RemoveAt(q, k)[i] = IF i < k THEN q[i] ELSE q[i + 1]
<1> DEFINE a == SubSeq(q, 1, k - 1)
           b == SubSeq(q, k + 1, Len(q))
<1>1. Len(q) \in Nat /\ \A i \in 1 .. Len(q) : q[i] \in S
  OBVIOUS
<1>2. /\ a \in Seq(S) /\ Len(a) = k - 1
      /\ \A i \in 1 .. k - 1 : a[i] = q[i]
  <2>1. \A i \in 1 .. k - 1 : q[i] \in S
    BY <1>1
  <2>2. /\ a \in Seq(S) /\ Len(a) = IF 1 <= k - 1 THEN (k - 1) - 1 + 1 ELSE 0
        /\ \A i \in 1 .. (k - 1) - 1 + 1 : a[i] = q[1 + i - 1]
    BY <2>1, <1>1, SubSeqProperties
  <2> QED
    BY <2>2, <1>1
<1>3. /\ b \in Seq(S) /\ Len(b) = Len(q) - k
      /\ \A i \in 1 .. Len(q) - k : b[i] = q[k + i]
  <2>1. \A i \in k + 1 .. Len(q) : q[i] \in S
    BY <1>1
  <2>2. /\ b \in Seq(S) /\ Len(b) = IF k + 1 <= Len(q) THEN Len(q) - (k + 1) + 1 ELSE 0
        /\ \A i \in 1 .. Len(q) - (k + 1) + 1 : b[i] = q[(k + 1) + i - 1]
    BY <2>1, <1>1, SubSeqProperties
  <2> QED
    BY <2>2, <1>1
<1> HIDE DEF a, b
<1>4. /\ a \o b \in Seq(S) /\ Len(a \o b) = Len(a) + Len(b)
      /\ \A i \in 1 .. Len(a) + Len(b) :
           (a \o b)[i] = IF i <= Len(a) THEN a[i] ELSE b[i - Len(a)]
  BY <1>2, <1>3, ConcatProperties
<1>5. RemoveAt(q, k) = a \o b
  BY DEF RemoveAt, a, b
<1>6. Len(a) + Len(b) = Len(q) - 1
  BY <1>1, <1>2, <1>3
<1>7. ASSUME NEW i \in 1 .. Len(q) - 1
      PROVE  (a \o b)[i] = IF i < k THEN q[i] ELSE q[i + 1]
  <2>1. CASE i < k
    BY <2>1, <1>1, <1>2, <1>4, <1>6
  <2>2. CASE ~(i < k)
    <3>1. (a \o b)[i] = b[i - (k - 1)] /\ i - (k - 1) \in 1 .. Len(q) - k
      BY <2>2, <1>1, <1>2, <1>4, <1>6
    <3>2. b[i - (k - 1)] = q[k + (i - (k - 1))] /\ k + (i - (k - 1)) = i + 1
      BY <3>1, <1>3, <1>1
    <3> QED
      BY <3>1, <3>2, <2>2
  <2> QED
    BY <2>1, <2>2
<1> QED
  BY <1>4, <1>5, <1>6, <1>7

\* A set of natural numbers has a least one.
LEMMA MinProperties ==
  ASSUME NEW S, S \subseteq Nat, S # {}
  PROVE  Min(S) \in S /\ \A x \in S : Min(S) <= x
<1> DEFINE R == OpToRel(<, Nat)
<1>1. IsWellFoundedOn(R, Nat)
  BY NatLessThanWellFounded
<1>2. R = {p \in Nat \X Nat : p[1] < p[2]}
  BY DEF OpToRel
<1> HIDE DEF R
<1>3. ASSUME NEW m \in Nat, NEW n \in Nat, m < n PROVE <<m, n>> \in R
  BY <1>2, <1>3
<1>4. PICK x \in S : \A y \in S : ~ (<<y, x>> \in R)
  BY <1>1, WFMin
<1>5. ASSUME NEW y \in S PROVE x <= y
  <2>1. x \in Nat /\ y \in Nat
    BY <1>4
  <2>2. ~(y < x)
    BY <1>3, <1>4, <2>1, Zenon
  <2> QED
    BY <2>1, <2>2
<1> QED
  BY <1>4, <1>5, Zenon DEF Min

-----------------------------------------------------------------------------
(* The elements of a list. *)

Elems(q) == {q[i] : i \in 1 .. Len(q)}
Distinct(q) == \A i, j \in 1 .. Len(q) : q[i] = q[j] => i = j

\* They belong to what the list is a list of.
LEMMA ElemsType ==
  ASSUME NEW S, NEW q \in Seq(S)
  PROVE  Elems(q) \subseteq S /\ (q = <<>> <=> Elems(q) = {})
<1>1. Len(q) \in Nat /\ \A i \in 1 .. Len(q) : q[i] \in S
  OBVIOUS
<1>2. ASSUME q # <<>> PROVE q[1] \in Elems(q)
  <2>1. 1 \in 1 .. Len(q)
    BY <1>1, <1>2, EmptySeq
  <2> QED
    BY <2>1 DEF Elems
<1>3. q = <<>> => Elems(q) = {}
  BY DEF Elems
<1> QED
  BY <1>1, <1>2, <1>3 DEF Elems

\* A list without repetitions is as long as it has elements.
LEMMA ElemsCount ==
  ASSUME NEW S, NEW q \in Seq(S), Distinct(q)
  PROVE  IsFiniteSet(Elems(q)) /\ Cardinality(Elems(q)) = Len(q)
<1>1. Len(q) \in Nat /\ q \in [1 .. Len(q) -> S]
  OBVIOUS
<1>2. q \in [1 .. Len(q) -> Elems(q)]
  BY <1>1 DEF Elems
<1>3. q \in Bijection(1 .. Len(q), Elems(q))
  BY <1>2 DEF Elems, Distinct, Bijection, Injection, IsInjective, Surjection
<1>4. IsFiniteSet(1 .. Len(q)) /\ Cardinality(1 .. Len(q)) = Len(q)
  BY <1>1, FS_Interval
<1> QED
  BY <1>3, <1>4, FS_Bijection DEF ExistsBijection

\* What an insertion does to a list.
LEMMA InsertedElems ==
  ASSUME NEW S, NEW q \in Seq(S), NEW t \in S, NEW k \in 1 .. Len(q) + 1
  PROVE  /\ InsertAt(q, k, t) \in Seq(S) /\ InsertAt(q, k, t) # <<>>
         /\ Elems(InsertAt(q, k, t)) = Elems(q) \cup {t}
         /\ Distinct(q) /\ t \notin Elems(q) => Distinct(InsertAt(q, k, t))
<1> DEFINE r == InsertAt(q, k, t)
<1> HIDE DEF r
<1>0. r \in Seq(S) /\ Len(r) = Len(q) + 1 /\ Inserts(r, q, k, t)
  BY InsertAtProperties DEF r
<1>1. /\ r \in Seq(S) /\ Len(r) = Len(q) + 1
      /\ \A i \in 1 .. Len(q) + 1 :
           r[i] = IF i < k THEN q[i] ELSE IF i = k THEN t ELSE q[i - 1]
  BY <1>0 DEF Inserts
<1>a. Len(q) \in Nat
  OBVIOUS
<1>2. Elems(r) = Elems(q) \cup {t}
  <2>1. ASSUME NEW x \in Elems(r) PROVE x \in Elems(q) \cup {t}
    <3>1. PICK i \in 1 .. Len(r) : x = r[i]
      BY DEF Elems
    <3> QED
      BY <3>1, <1>1, <1>a DEF Elems
  <2>2. ASSUME NEW i \in 1 .. Len(q) PROVE q[i] \in Elems(r)
    <3>1. CASE i < k
      BY <3>1, <1>1, <1>a DEF Elems
    <3>2. CASE ~(i < k)
      <4>1. r[i + 1] = q[i] /\ i + 1 \in 1 .. Len(r)
        BY <3>2, <1>1, <1>a
      <4> QED
        BY <4>1 DEF Elems
    <3> QED
      BY <3>1, <3>2
  <2>3. t \in Elems(r)
    <3>1. k \in 1 .. Len(r) /\ r[k] = t
      BY <1>1, <1>a
    <3> QED
      BY <3>1 DEF Elems
  <2> QED
    BY <2>1, <2>2, <2>3 DEF Elems
<1>3. ASSUME Distinct(q), t \notin Elems(q) PROVE Distinct(r)
  <2> SUFFICES ASSUME NEW i \in 1 .. Len(r), NEW j \in 1 .. Len(r), r[i] = r[j]
               PROVE  i = j
    BY DEF Distinct
  <2>1. \A n \in 1 .. Len(q) : q[n] # t
    BY <1>3 DEF Elems
  <2>2. CASE i = k \/ j = k
    <3>1. ASSUME NEW n \in 1 .. Len(r), n # k PROVE r[n] # t
      BY <3>1, <1>1, <1>a, <2>1, SMTT(60)
    <3>2. r[k] = t /\ k \in 1 .. Len(r)
      BY <1>1, <1>a
    <3> QED
      BY <2>2, <3>1, <3>2
  <2>3. CASE i # k /\ j # k
    <3> DEFINE m == IF i < k THEN i ELSE i - 1
               n == IF j < k THEN j ELSE j - 1
    <3>1. m \in 1 .. Len(q) /\ n \in 1 .. Len(q) /\ r[i] = q[m] /\ r[j] = q[n]
      BY <1>1, <1>a, <2>3
    <3>2. m = n
      BY <3>1, <1>3 DEF Distinct
    <3> QED
      BY <3>2, <1>a, <1>1, <2>3
  <2> QED
    BY <2>2, <2>3
<1>4. r # <<>>
  BY <1>1, <1>a
<1> QED
  BY <1>1, <1>2, <1>3, <1>4 DEF r

\* What a removal does to a list.
LEMMA RemovedElems ==
  ASSUME NEW S, NEW q \in Seq(S), NEW t \in Elems(q), Distinct(q)
  PROVE  /\ Removed(q, t) \in Seq(S)
         /\ Elems(Removed(q, t)) = Elems(q) \ {t}
         /\ Distinct(Removed(q, t))
<1> DEFINE k == Position(q, t)
           r == Removed(q, t)
<1>1. k \in 1 .. Len(q) /\ q[k] = t /\ Len(q) \in Nat
  BY DEF Position, Elems
<1>2. r = RemoveAt(q, k)
  BY DEF Removed
<1> HIDE DEF k, r
<1>3. /\ r \in Seq(S) /\ Len(r) = Len(q) - 1
      /\ \A i \in 1 .. Len(q) - 1 : r[i] = IF i < k THEN q[i] ELSE q[i + 1]
  BY <1>1, <1>2, RemoveAtProperties
<1>4. \A i \in 1 .. Len(q) : q[i] = t => i = k
  BY <1>1 DEF Distinct
<1>5. Elems(r) = Elems(q) \ {t}
  <2>1. ASSUME NEW i \in 1 .. Len(r) PROVE r[i] \in Elems(q) \ {t}
    BY <1>1, <1>3, <1>4 DEF Elems
  <2>2. ASSUME NEW i \in 1 .. Len(q), q[i] # t PROVE q[i] \in Elems(r)
    <3>1. CASE i < k
      BY <3>1, <1>1, <1>3 DEF Elems
    <3>2. CASE ~(i < k)
      <4>1. r[i - 1] = q[i] /\ i - 1 \in 1 .. Len(r)
        BY <3>2, <2>2, <1>1, <1>3
      <4> QED
        BY <4>1 DEF Elems
    <3> QED
      BY <3>1, <3>2
  <2> QED
    BY <2>1, <2>2 DEF Elems
<1>6. Distinct(r)
  BY <1>1, <1>3 DEF Distinct
<1> QED
  BY <1>3, <1>5, <1>6 DEF r

\* Appending puts an element at the end.
LEMMA AppendedElems ==
  ASSUME NEW S, NEW q \in Seq(S), NEW t \in S
  PROVE  /\ Append(q, t) \in Seq(S) /\ Append(q, t) # <<>>
         /\ Elems(Append(q, t)) = Elems(q) \cup {t}
         /\ Distinct(q) /\ t \notin Elems(q) => Distinct(Append(q, t))
<1> DEFINE r == Append(q, t)
<1>1. /\ Len(q) \in Nat /\ r \in Seq(S) /\ r # <<>> /\ Len(r) = Len(q) + 1
      /\ \A i \in 1 .. Len(q) : r[i] = q[i]
      /\ r[Len(q) + 1] = t
  BY AppendProperties
<1> HIDE DEF r
<1>2. Elems(r) = Elems(q) \cup {t}
  <2>1. ASSUME NEW i \in 1 .. Len(r) PROVE r[i] \in Elems(q) \cup {t}
    <3>1. CASE i = Len(q) + 1
      BY <1>1, <3>1
    <3>2. CASE i # Len(q) + 1
      <4>1. i \in 1 .. Len(q)
        BY <1>1, <3>2
      <4> QED
        BY <1>1, <4>1 DEF Elems
    <3> QED
      BY <3>1, <3>2
  <2>2. ASSUME NEW i \in 1 .. Len(q) PROVE q[i] \in Elems(r)
    <3>1. i \in 1 .. Len(r) /\ r[i] = q[i]
      BY <1>1
    <3> QED
      BY <3>1 DEF Elems
  <2>3. t \in Elems(r)
    <3>1. Len(q) + 1 \in 1 .. Len(r)
      BY <1>1
    <3> QED
      BY <1>1, <3>1 DEF Elems
  <2> QED
    BY <2>1, <2>2, <2>3 DEF Elems
<1>3. ASSUME Distinct(q), t \notin Elems(q) PROVE Distinct(r)
  BY <1>1, <1>3 DEF Distinct, Elems
<1> QED
  BY <1>1, <1>2, <1>3 DEF r

\* Taking the first off a list without repetitions.
LEMMA TailElems ==
  ASSUME NEW S, NEW q \in Seq(S), q # <<>>, Distinct(q)
  PROVE  /\ Tail(q) \in Seq(S) /\ Len(Tail(q)) = Len(q) - 1
         /\ Head(q) \in S /\ Head(q) \in Elems(q)
         /\ Elems(Tail(q)) = Elems(q) \ {Head(q)}
         /\ Distinct(Tail(q))
<1> DEFINE r == Tail(q)
<1>1. /\ Len(q) \in Nat \ {0} /\ r \in Seq(S) /\ Len(r) = Len(q) - 1
      /\ \A i \in 1 .. Len(r) : r[i] = q[i + 1]
      /\ Head(q) = q[1] /\ Head(q) \in S
  BY HeadTailProperties
<1> HIDE DEF r
<1>2. Head(q) \in Elems(q)
  BY <1>1 DEF Elems
<1>3. Distinct(r)
  BY <1>1 DEF Distinct
<1>4. ASSUME NEW x \in Elems(r)
      PROVE  x \in Elems(q) \ {Head(q)}
  <2>1. PICK i \in 1 .. Len(r) : x = r[i]
    BY DEF Elems
  <2>2. i + 1 \in 1 .. Len(q) /\ i + 1 # 1 /\ x = q[i + 1]
    BY <1>1, <2>1
  <2> QED
    BY <1>1, <2>2 DEF Elems, Distinct
<1>5. ASSUME NEW x \in Elems(q), x # Head(q)
      PROVE  x \in Elems(r)
  <2>1. PICK i \in 1 .. Len(q) : x = q[i]
    BY DEF Elems
  <2>2. i - 1 \in 1 .. Len(r) /\ x = r[i - 1]
    BY <1>1, <1>5, <2>1
  <2> QED
    BY <2>2 DEF Elems
<1>6. Elems(r) = Elems(q) \ {Head(q)}
  BY <1>4, <1>5
<1> QED
  BY <1>1, <1>2, <1>3, <1>6 DEF r

\* Putting a new element before a list.
LEMMA ConsElems ==
  ASSUME NEW S, NEW l \in Seq(S), NEW b \in S, b \notin Elems(l), Distinct(l)
  PROVE  /\ <<b>> \o l \in Seq(S) /\ Len(<<b>> \o l) = Len(l) + 1
         /\ Elems(<<b>> \o l) = Elems(l) \cup {b}
         /\ Distinct(<<b>> \o l)
<1> DEFINE r == <<b>> \o l
<1>1. <<b>> \in Seq(S) /\ Len(<<b>>) = 1 /\ <<b>>[1] = b
  OBVIOUS
<1>2. /\ Len(l) \in Nat /\ r \in Seq(S) /\ Len(r) = Len(l) + 1
      /\ r[1] = b
      /\ \A i \in 2 .. Len(r) : r[i] = l[i - 1]
  BY <1>1, ConcatProperties
<1> HIDE DEF r
<1>3. ASSUME NEW x \in Elems(r)
      PROVE  x \in Elems(l) \cup {b}
  <2>1. PICK i \in 1 .. Len(r) : x = r[i]
    BY DEF Elems
  <2>2. CASE i = 1
    BY <1>2, <2>1, <2>2
  <2>3. CASE i # 1
    <3>1. i - 1 \in 1 .. Len(l) /\ x = l[i - 1]
      BY <1>2, <2>1, <2>3
    <3> QED
      BY <3>1 DEF Elems
  <2> QED
    BY <2>2, <2>3
<1>4. b \in Elems(r)
  BY <1>2 DEF Elems
<1>5. ASSUME NEW x \in Elems(l)
      PROVE  x \in Elems(r)
  <2>1. PICK i \in 1 .. Len(l) : x = l[i]
    BY DEF Elems
  <2>2. i + 1 \in 2 .. Len(r) /\ x = r[i + 1]
    BY <1>2, <2>1
  <2> QED
    BY <2>2, <1>2 DEF Elems
<1>6. Elems(r) = Elems(l) \cup {b}
  BY <1>3, <1>4, <1>5
<1>7. Distinct(r)
  <2> SUFFICES ASSUME NEW i \in 1 .. Len(r), NEW j \in 1 .. Len(r), r[i] = r[j], i # j
               PROVE  FALSE
    BY DEF Distinct
  <2>1. ASSUME NEW k \in 2 .. Len(r)
        PROVE  r[k] # b
    <3>1. k - 1 \in 1 .. Len(l) /\ r[k] = l[k - 1]
      BY <1>2
    <3> QED
      BY <3>1 DEF Elems
  <2>2. i # 1 /\ j # 1
    BY <1>2, <2>1
  <2>3. /\ i - 1 \in 1 .. Len(l) /\ j - 1 \in 1 .. Len(l)
        /\ r[i] = l[i - 1] /\ r[j] = l[j - 1]
    BY <1>2, <2>2
  <2>4. i - 1 = j - 1
    BY <2>3 DEF Distinct
  <2> QED
    BY <1>2, <2>4
<1> QED
  BY <1>2, <1>6, <1>7 DEF r

-----------------------------------------------------------------------------
(* Sets that a step changes by one. *)

\* A set that lost at most one element, and perhaps gained some.
LEMMA CountLosesOne ==
  ASSUME NEW A, NEW B, IsFiniteSet(A), IsFiniteSet(B), NEW x, A \ {x} \subseteq B
  PROVE  Cardinality(A) \in Nat /\ Cardinality(B) \in Nat /\ Cardinality(A) - 1 <= Cardinality(B)
<1>1. IsFiniteSet(A \ {x}) /\ Cardinality(A) - 1 <= Cardinality(A \ {x})
  BY FS_RemoveElement, FS_CardinalityType, SMTT(60)
<1>2. Cardinality(A \ {x}) <= Cardinality(B)
  BY FS_Subset
<1> QED
  BY <1>1, <1>2, FS_CardinalityType

\* A set that gained an element and lost none.
LEMMA CountGainsOne ==
  ASSUME NEW A, NEW B, IsFiniteSet(A), IsFiniteSet(B), NEW x \in B, x \notin A, A \subseteq B
  PROVE  Cardinality(A) \in Nat /\ Cardinality(B) \in Nat /\ Cardinality(A) + 1 <= Cardinality(B)
<1>1. IsFiniteSet(A \cup {x}) /\ Cardinality(A \cup {x}) = Cardinality(A) + 1
  BY FS_AddElement
<1>2. Cardinality(A \cup {x}) <= Cardinality(B)
  BY <1>1, FS_Subset
<1> QED
  BY <1>1, <1>2, FS_CardinalityType
=============================================================================
