----------------------------- MODULE MutexProofs -----------------------------
(***************************************************************************)
(* Proofs about Mutex, for any number of threads and mutexes, priorities   *)
(* and nesting: the lists of waiters are sound, a thread that runs again   *)
(* knows why, no owner is less urgent than who waits for it, and the most  *)
(* urgent waiter is the next owner.  Nobody keeps a borrowed priority as   *)
(* long as no timeout comes before the clean-up of the last one.           *)
(***************************************************************************)
EXTENDS Mutex, SuspListProofs

-----------------------------------------------------------------------------
(* Lists of threads. *)

Sorted(q, P) == \A i, j \in 1 .. Len(q) : i < j => P[q[i]] <= P[q[j]]
SortedBut(q, w, P) ==
  \A i, j \in 1 .. Len(q) : i < j /\ q[i] # w /\ q[j] # w => P[q[i]] <= P[q[j]]

\* The place that is looked for keeps a list sorted.
LEMMA InsertedSorted ==
  ASSUME NEW q \in Seq(Threads), NEW t \in Threads, prio \in [Threads -> Nat],
         NEW k \in Places(q, t), Sorted(q, prio)
  PROVE  Sorted(InsertAt(q, k, t), prio)
<1> DEFINE r == InsertAt(q, k, t)
<1>1. k \in 1 .. Len(q) + 1 /\ Len(q) \in Nat
  BY DEF Places
<1>2. /\ r \in Seq(Threads) /\ Len(r) = Len(q) + 1
      /\ \A i \in 1 .. Len(q) + 1 :
           r[i] = IF i < k THEN q[i] ELSE IF i = k THEN t ELSE q[i - 1]
  BY <1>1, InsertAtProperties DEF Inserts
<1> HIDE DEF r
<1>3. \A i \in 1 .. Len(q) : q[i] \in Threads /\ prio[q[i]] \in Nat
  OBVIOUS
<1>4. \A i \in 1 .. Len(q) : i < k => prio[q[i]] <= prio[t]
  BY <1>1 DEF Places
<1>5. \A i \in 1 .. Len(q) : i >= k => prio[t] <= prio[q[i]]
  <2> SUFFICES ASSUME NEW i \in 1 .. Len(q), i >= k PROVE prio[t] <= prio[q[i]]
    OBVIOUS
  <2>1. k \in 1 .. Len(q) /\ prio[t] < prio[q[k]]
    BY <1>1 DEF Places
  <2>2. prio[q[k]] <= prio[q[i]]
    BY <2>1, <1>3 DEF Sorted
  <2> QED
    BY <2>1, <2>2, <1>3
<1>6. ASSUME NEW i \in 1 .. Len(r), NEW j \in 1 .. Len(r), i < j
      PROVE  prio[r[i]] <= prio[r[j]]
  <2>1. CASE i = k
    <3>1. r[i] = t /\ r[j] = q[j - 1] /\ j - 1 \in 1 .. Len(q) /\ j - 1 >= k
      BY <1>6, <1>1, <1>2, <2>1, SMTT(60)
    <3> QED
      BY <3>1, <1>5
  <2>2. CASE j = k
    <3>1. i < k /\ r[j] = t /\ r[i] = q[i] /\ i \in 1 .. Len(q)
      BY <1>6, <1>1, <1>2, <2>2
    <3> QED
      BY <3>1, <1>4
  <2>3. CASE j < k
    <3>1. r[i] = q[i] /\ r[j] = q[j] /\ i \in 1 .. Len(q) /\ j \in 1 .. Len(q)
      BY <1>6, <1>1, <1>2, <2>3, SMTT(60)
    <3> QED
      BY <3>1, <1>6 DEF Sorted
  <2>4. CASE i < k /\ k < j
    <3>1. r[i] = q[i] /\ i \in 1 .. Len(q)
      BY <1>1, <1>2, <2>4
    <3>2. r[j] = q[j - 1] /\ j - 1 \in 1 .. Len(q) /\ j - 1 >= k
      BY <1>1, <1>2, <2>4
    <3>3. i < j - 1
      BY <1>1, <2>4, <3>1, <3>2
    <3> QED
      BY <3>1, <3>2, <3>3 DEF Sorted
  <2>5. CASE k < i
    <3>1. r[i] = q[i - 1] /\ i - 1 \in 1 .. Len(q)
      BY <1>1, <1>2, <2>5
    <3>2. r[j] = q[j - 1] /\ j - 1 \in 1 .. Len(q)
      BY <1>1, <1>2, <1>6, <2>5
    <3>3. i - 1 < j - 1
      BY <1>1, <1>2, <1>6
    <3> QED
      BY <3>1, <3>2, <3>3 DEF Sorted
  <2> QED
    BY <1>1, <1>2, <1>6, <2>1, <2>2, <2>3, <2>4, <2>5
<1> QED
  BY <1>6 DEF Sorted, r

\* What a thread's removal does to a list.
LEMMA RemovedList ==
  ASSUME NEW q \in Seq(Threads), NEW t \in Elems(q), Distinct(q)
  PROVE  /\ Removed(q, t) \in Seq(Threads)
         /\ Elems(Removed(q, t)) = Elems(q) \ {t}
         /\ Distinct(Removed(q, t))
         /\ \A w, P : SortedBut(q, w, P) => SortedBut(Removed(q, t), w, P)
         /\ \A P : SortedBut(q, t, P) => Sorted(Removed(q, t), P)
<1> DEFINE k == Position(q, t)
           r == Removed(q, t)
<1>1. k \in 1 .. Len(q) /\ q[k] = t /\ Len(q) \in Nat
  BY DEF Position, Elems
<1>2. r = RemoveAt(q, k)
  BY DEF Removed
<1>3. r \in Seq(Threads) /\ Elems(r) = Elems(q) \ {t} /\ Distinct(r)
  BY RemovedElems
<1> HIDE DEF k, r
<1>4. /\ Len(r) = Len(q) - 1
      /\ \A i \in 1 .. Len(q) - 1 : r[i] = IF i < k THEN q[i] ELSE q[i + 1]
  BY <1>1, <1>2, RemoveAtProperties
<1>5. \A i \in 1 .. Len(q) : q[i] = t => i = k
  BY <1>1 DEF Distinct
<1>6. ASSUME NEW w, NEW P, SortedBut(q, w, P) PROVE SortedBut(r, w, P)
  BY <1>1, <1>4, <1>6 DEF SortedBut
<1>7. ASSUME NEW P, SortedBut(q, t, P) PROVE Sorted(r, P)
  BY <1>1, <1>4, <1>5, <1>7 DEF SortedBut, Sorted
<1> QED
  BY <1>3, <1>6, <1>7 DEF r

\* The first of a list and the others.
LEMMA HeadTailList ==
  ASSUME NEW q \in Seq(Threads), q # <<>>
  PROVE  /\ Head(q) \in Elems(q) /\ Head(q) \in Threads /\ Tail(q) \in Seq(Threads)
         /\ Elems(Tail(q)) \subseteq Elems(q)
         /\ Elems(q) \subseteq Elems(Tail(q)) \cup {Head(q)}
         /\ Distinct(q) => Distinct(Tail(q)) /\ Head(q) \notin Elems(Tail(q))
         /\ \A P : Sorted(q, P) => Sorted(Tail(q), P)
         /\ \A P : Sorted(q, P) => \A x \in Elems(Tail(q)) : P[Head(q)] <= P[x]
<1> DEFINE r == Tail(q)
<1>1. /\ Len(q) \in Nat /\ Len(q) >= 1 /\ Head(q) = q[1] /\ Head(q) \in Threads
      /\ r \in Seq(Threads) /\ Len(r) = Len(q) - 1
      /\ \A i \in 1 .. Len(q) - 1 : r[i] = q[i + 1]
  BY EmptySeq, HeadTailProperties
<1> HIDE DEF r
<1>2. Head(q) \in Elems(q) /\ Elems(r) \subseteq Elems(q)
  BY <1>1 DEF Elems
<1>3. ASSUME NEW i \in 1 .. Len(q) PROVE q[i] \in Elems(r) \cup {Head(q)}
  <2>1. CASE i # 1
    <3>1. i - 1 \in 1 .. Len(r) /\ r[i - 1] = q[i]
      BY <2>1, <1>1
    <3> QED
      BY <3>1 DEF Elems
  <2> QED
    BY <2>1, <1>1
<1>4. Distinct(q) => Distinct(r) /\ Head(q) \notin Elems(r)
  BY <1>1 DEF Distinct, Elems
<1>5. ASSUME NEW P, Sorted(q, P) PROVE Sorted(r, P)
  BY <1>1, <1>5 DEF Sorted
<1>6. ASSUME NEW P, Sorted(q, P), NEW x \in Elems(r) PROVE P[Head(q)] <= P[x]
  <2>1. PICK i \in 1 .. Len(r) : x = r[i]
    BY DEF Elems
  <2>2. 1 \in 1 .. Len(q) /\ i + 1 \in 1 .. Len(q) /\ 1 < i + 1 /\ x = q[i + 1]
    BY <2>1, <1>1
  <2> QED
    BY <2>2, <1>1, <1>6 DEF Sorted
<1> QED
  BY <1>1, <1>2, <1>3, <1>4, <1>5, <1>6 DEF r, Elems

-----------------------------------------------------------------------------
(* The inductive invariant. *)

\* The lists hold, once, the threads that wait, and nobody else.
ListInv ==
  /\ \A m \in Mutexes : Distinct(waiters[m])
  /\ \A m \in Mutexes : \A w \in Elems(waiters[m]) :
       /\ w \in Threads /\ pc[w] = "wait" /\ want[w] = m /\ pend[w] = m
       /\ owner[m] \notin {w, None}
  /\ \A t \in Threads : pc[t] = "wait" =>
       pend[t] \in Mutexes /\ t \in Elems(waiters[pend[t]]) /\ error[t] = "ok"

\* Who was woken knows for which mutex, and by whom.
GrantInv ==
  \A t \in Threads : pc[t] = "woken" =>
    want[t] \in Mutexes /\ (owner[want[t]] = t <=> error[t] = "ok")

\* Who waits is sorted in, the mutex is as urgent as each of them and its owner as
\* urgent as the mutex, but for a thread whose priority is still being passed on.
PrioInv ==
  /\ \A m \in Mutexes : SortedBut(waiters[m], walk, prio)
  /\ \A m \in Mutexes : \A w \in Elems(waiters[m]) : w # walk => mprio[m] <= prio[w]
  /\ \A m \in Mutexes : owner[m] # None => prio[owner[m]] <= mprio[m]

IInv == TypeOK /\ ListInv /\ GrantInv /\ PrioInv

\* What a thread inherits is a priority, no less urgent than its own and than any of
\* those it inherits from.
LEMMA InheritedProperties ==
  ASSUME NEW t \in Threads, NEW T \in SUBSET Mutexes, NEW P \in [Mutexes -> 0 .. NoPrio]
  PROVE  /\ Inherited(t, T, P) \in 0 .. NoPrio - 1
         /\ \A m \in T : Inherited(t, T, P) <= P[m]
<1> DEFINE S == {InitPrio[t]} \cup {P[m] : m \in T}
<1>1. InitPrio[t] \in 0 .. NoPrio - 1 /\ NoPrio = 255
  BY MutexAssumption DEF NoPrio
<1>2. S \subseteq Nat /\ S # {}
  BY <1>1
<1>3. Min(S) \in S /\ \A x \in S : Min(S) <= x
  BY <1>2, MinProperties
<1>4. Min(S) \in Nat /\ Min(S) <= InitPrio[t] /\ \A m \in T : Min(S) <= P[m]
  BY <1>2, <1>3
<1> HIDE DEF S
<1>5. Inherited(t, T, P) = Min(S)
  BY DEF Inherited, S
<1> QED
  BY <1>1, <1>4, <1>5

\* The priority a list gives its mutex is that of the most urgent in it.
LEMMA HeadPrioProperties ==
  ASSUME prio \in [Threads -> 0 .. NoPrio - 1], NEW q \in Seq(Threads)
  PROVE  /\ HeadPrio(q) \in 0 .. NoPrio
         /\ Sorted(q, prio) => \A x \in Elems(q) : HeadPrio(q) <= prio[x]
         /\ \A p \in Nat : p < NoPrio /\ (\A x \in Elems(q) : p <= prio[x]) => p <= HeadPrio(q)
<1>1. NoPrio = 255
  BY DEF NoPrio
<1>2. CASE q = <<>>
  <2>1. HeadPrio(q) = NoPrio
    BY <1>2 DEF HeadPrio
  <2>2. Len(q) = 0
    BY <1>2
  <2>3. Elems(q) = {}
    BY <2>2 DEF Elems
  <2> QED
    BY <2>1, <2>3, <1>1
<1>3. CASE q # <<>>
  <2>1. /\ HeadPrio(q) = prio[Head(q)] /\ Head(q) \in Elems(q) /\ Head(q) \in Threads
        /\ Elems(q) \subseteq Elems(Tail(q)) \cup {Head(q)}
        /\ Sorted(q, prio) => \A x \in Elems(Tail(q)) : prio[Head(q)] <= prio[x]
    BY <1>3, HeadTailList DEF HeadPrio
  <2>2. prio[Head(q)] \in 0 .. NoPrio - 1
    BY <2>1
  <2>3. HeadPrio(q) \in 0 .. NoPrio
    BY <2>1, <2>2, <1>1
  <2>4. ASSUME Sorted(q, prio), NEW x \in Elems(q) PROVE HeadPrio(q) <= prio[x]
    <3>1. x = Head(q) \/ x \in Elems(Tail(q))
      BY <2>1
    <3>2. CASE x = Head(q)
      BY <3>2, <2>1, <2>2
    <3>3. CASE x \in Elems(Tail(q))
      BY <3>3, <2>1, <2>4, Zenon
    <3> QED
      BY <3>1, <3>2, <3>3
  <2>5. ASSUME NEW p \in Nat, \A x \in Elems(q) : p <= prio[x] PROVE p <= HeadPrio(q)
    BY <2>1, <2>5
  <2> QED
    BY <2>3, <2>4, <2>5
<1> QED
  BY <1>2, <1>3

\* A list that is sorted but for a thread that is not in it is sorted.
LEMMA SortedWithout ==
  ASSUME NEW q, NEW w, NEW P, SortedBut(q, w, P), w \notin Elems(q)
  PROVE  Sorted(q, P)
BY DEF SortedBut, Sorted, Elems

\* Other priorities do not unsort a list, if only one thread's changed.
LEMMA SortedAfter ==
  ASSUME NEW q, NEW w, NEW P, NEW Q, Sorted(q, P), \A x \in Elems(q) \ {w} : Q[x] = P[x]
  PROVE  SortedBut(q, w, Q)
BY DEF SortedBut, Sorted, Elems

\* With no priority being passed on, every list is sorted.
LEMMA AllSorted ==
  ASSUME IInv, walk = None
  PROVE  \A m \in Mutexes : Sorted(waiters[m], prio)
<1> SUFFICES ASSUME NEW m \in Mutexes PROVE Sorted(waiters[m], prio)
  OBVIOUS
<1>1. None \notin Elems(waiters[m])
  BY MutexAssumption DEF IInv, ListInv
<1> QED
  BY <1>1, SortedWithout DEF IInv, PrioInv

\* The initial state.
LEMMA InvInit == Init => IInv
<1> SUFFICES ASSUME Init PROVE IInv
  OBVIOUS
<1>1. NoPrio = 255 /\ InitPrio \in [Threads -> 0 .. NoPrio - 1] /\ HoldMax \in Nat
      /\ None \notin Threads
  BY MutexAssumption DEF NoPrio
<1>2. TypeOK
  BY <1>1 DEF Init, TypeOK
<1>3. \A m \in Mutexes : Elems(waiters[m]) = {} /\ Len(waiters[m]) = 0
  BY DEF Init, Elems
<1>4. ListInv /\ GrantInv /\ PrioInv
  BY <1>3 DEF Init, ListInv, GrantInv, PrioInv, Distinct, SortedBut
<1> QED
  BY <1>2, <1>4 DEF IInv

-----------------------------------------------------------------------------
(* The steps.  First, what every step but WalkOn and those that change a list *)
(* leaves as it is.                                                           *)

\* Threads that wait are in one list each, those in a list exist, and those that do
\* not wait are in none.
LEMMA InOneList ==
  ASSUME ListInv, NEW m \in Mutexes, NEW w \in Elems(waiters[m])
  PROVE  /\ w \in Threads /\ pc[w] = "wait" /\ want[w] = m /\ pend[w] = m
         /\ error[w] = "ok" /\ owner[m] \notin {w, None}
         /\ \A n \in Mutexes : w \in Elems(waiters[n]) => n = m
<1>1. /\ w \in Threads /\ pc[w] = "wait" /\ want[w] = m /\ pend[w] = m
      /\ owner[m] \notin {w, None}
  BY Zenon DEF ListInv
<1>2. error[w] = "ok"
  BY <1>1, Zenon DEF ListInv
<1>3. \A n \in Mutexes : w \in Elems(waiters[n]) => pend[w] = n
  BY Zenon DEF ListInv
<1> QED
  BY <1>1, <1>2, <1>3

\* A priority that was looked up anew is given to its thread, if it changed.
LEMMA UpdatedOwner ==
  ASSUME TypeOK, NEW P \in [Mutexes -> 0 .. NoPrio], NEW L, NEW o \in Threads,
         \A m \in Mutexes : Sorted(L[m], prio),
         \A m \in Mutexes : \A w \in Elems(L[m]) : w \in Threads /\ P[m] <= prio[w],
         \A m \in Mutexes : owner[m] \notin {None, o} => prio[owner[m]] <= P[m],
         UpdateIfChanged(o, Inherited(o, Taken(o), P))
  PROVE  /\ prio' \in [Threads -> 0 .. NoPrio - 1] /\ walk' \in Threads \cup {None}
         /\ \A m \in Mutexes : SortedBut(L[m], walk', prio')
         /\ \A m \in Mutexes : \A w \in Elems(L[m]) : w # walk' => P[m] <= prio'[w]
         /\ \A m \in Mutexes : owner[m] # None => prio'[owner[m]] <= P[m]
<1> DEFINE i == Inherited(o, Taken(o), P)
<1>1. i \in 0 .. NoPrio - 1 /\ \A m \in Mutexes : owner[m] = o => i <= P[m]
  BY InheritedProperties DEF Taken
<1>2. prio \in [Threads -> 0 .. NoPrio - 1] /\ owner \in [Mutexes -> Threads \cup {None}]
  BY DEF TypeOK
<1>3. CASE i = prio[o]
  <2>1. prio' = prio /\ walk' = None
    BY <1>3 DEF UpdateIfChanged
  <2>2. \A m \in Mutexes : SortedBut(L[m], None, prio)
    BY SortedAfter
  <2> QED
    BY <1>1, <1>2, <1>3, <2>1, <2>2
<1>4. CASE i # prio[o]
  <2>1. prio' = [prio EXCEPT ![o] = i] /\ walk' = o
    BY <1>4 DEF UpdateIfChanged, Update
  <2> HIDE DEF i
  <2>2. \A u \in Threads : prio'[u] = IF u = o THEN i ELSE prio[u]
    BY <1>2, <2>1
  <2>3. \A m \in Mutexes : SortedBut(L[m], o, prio')
    <3> SUFFICES ASSUME NEW m \in Mutexes PROVE SortedBut(L[m], o, prio')
      OBVIOUS
    <3>1. Sorted(L[m], prio) /\ \A x \in Elems(L[m]) \ {o} : prio'[x] = prio[x]
      BY <2>2
    <3> QED
      BY <3>1, SortedAfter, Zenon
  <2>4. \A m \in Mutexes : owner[m] # None => prio'[owner[m]] <= P[m]
    BY <1>1, <1>2, <2>2
  <2>5. \A m \in Mutexes : \A w \in Elems(L[m]) : w # o => P[m] <= prio'[w]
    BY <2>2
  <2>6. prio' \in [Threads -> 0 .. NoPrio - 1]
    BY <1>1, <1>2, <2>1
  <2> QED
    BY <2>1, <2>3, <2>4, <2>5, <2>6, Zenon
<1> QED
  BY <1>3, <1>4

\* The last thread of a chain waits for nothing.
LEMMA InvWalkEnds == ASSUME IInv, WalkEnds PROVE IInv'
<1> USE DEF WalkEnds, mutexVars, threadVars
<1>1. TypeOK'
  BY DEF IInv, TypeOK
<1>2. ListInv' /\ GrantInv'
  BY DEF IInv, ListInv, GrantInv
<1>3. PrioInv'
  <2>1. \A m \in Mutexes : walk \notin Elems(waiters[m])
    BY DEF IInv, ListInv
  <2>2. \A m \in Mutexes : SortedBut(waiters[m], None, prio)
    <3> SUFFICES ASSUME NEW m \in Mutexes PROVE SortedBut(waiters[m], None, prio)
      OBVIOUS
    <3>1. Sorted(waiters[m], prio)
      BY <2>1, SortedWithout DEF IInv, PrioInv
    <3> QED
      BY <3>1, SortedAfter
  <2> QED
    BY <2>1, <2>2 DEF IInv, PrioInv
<1> QED
  BY <1>1, <1>2, <1>3 DEF IInv

\* Its place and its mutex's priority follow that of a thread that waits.
LEMMA InvWalkOn == ASSUME IInv, WalkOn PROVE IInv'
<1> DEFINE m == pend[walk]
           o == owner[m]
           rest == Removed(waiters[m], walk)
<1>1. walk # None /\ pc[walk] = "wait" /\ UNCHANGED <<owner, hold, pc, want, pend, error>>
  BY DEF WalkOn, threadVars
<1>2. TypeOK /\ ListInv /\ GrantInv /\ PrioInv
  BY DEF IInv
<1>3. walk \in Threads /\ m \in Mutexes /\ walk \in Elems(waiters[m])
  BY <1>1, <1>2 DEF TypeOK, ListInv
<1>4. /\ waiters[m] \in Seq(Threads) /\ Distinct(waiters[m]) /\ SortedBut(waiters[m], walk, prio)
      /\ o \in Threads /\ o # walk
  BY <1>2, <1>3 DEF TypeOK, ListInv, PrioInv
<1>5. PICK k \in Places(rest, walk) :
        LET list == InsertAt(rest, k, walk)
            P == [mprio EXCEPT ![m] = HeadPrio(list)]
        IN /\ waiters' = [waiters EXCEPT ![m] = list]
           /\ mprio' = P
           /\ UpdateIfChanged(o, Inherited(o, Taken(o), P))
  BY DEF WalkOn
<1> DEFINE list == InsertAt(rest, k, walk)
<1>6. /\ waiters' = [waiters EXCEPT ![m] = list]
      /\ mprio' = [mprio EXCEPT ![m] = HeadPrio(list)]
      /\ UpdateIfChanged(o, Inherited(o, Taken(o), mprio'))
  BY <1>5
<1> HIDE DEF rest
<1>7. /\ rest \in Seq(Threads) /\ Elems(rest) = Elems(waiters[m]) \ {walk} /\ Distinct(rest)
      /\ Sorted(rest, prio)
  BY <1>3, <1>4, RemovedList DEF rest
<1>8. prio \in [Threads -> Nat] /\ prio \in [Threads -> 0 .. NoPrio - 1] /\ NoPrio = 255
  <2>1. prio \in [Threads -> 0 .. NoPrio - 1] /\ NoPrio = 255
    BY <1>2 DEF TypeOK, NoPrio
  <2> QED
    BY <2>1
<1>9. k \in 1 .. Len(rest) + 1
  BY DEF Places
<1>10. /\ list \in Seq(Threads) /\ Elems(list) = Elems(waiters[m]) /\ Distinct(list)
       /\ Sorted(list, prio)
  <2>1. /\ list \in Seq(Threads) /\ Elems(list) = Elems(rest) \cup {walk}
        /\ Distinct(rest) /\ walk \notin Elems(rest) => Distinct(list)
    BY <1>3, <1>7, <1>9, InsertedElems
  <2>2. Sorted(list, prio)
    BY <1>3, <1>7, <1>8, InsertedSorted
  <2> QED
    BY <1>3, <1>7, <2>1, <2>2
<1> HIDE DEF list
<1>11. HeadPrio(list) \in 0 .. NoPrio /\ \A x \in Elems(list) : HeadPrio(list) <= prio[x]
  BY <1>8, <1>10, HeadPrioProperties
<1> HIDE DEF m, o
<1>12. waiters \in [Mutexes -> Seq(Threads)] /\ mprio \in [Mutexes -> 0 .. NoPrio]
  BY <1>2 DEF TypeOK
<1>13. /\ \A n \in Mutexes : waiters'[n] = IF n = m THEN list ELSE waiters[n]
       /\ waiters' \in [Mutexes -> Seq(Threads)]
       /\ \A n \in Mutexes : mprio'[n] = IF n = m THEN HeadPrio(list) ELSE mprio[n]
       /\ mprio' \in [Mutexes -> 0 .. NoPrio]
  BY <1>3, <1>6, <1>10, <1>11, <1>12
<1>14. \A n \in Mutexes : Elems(waiters'[n]) = Elems(waiters[n])
  BY <1>10, <1>13
<1>15. ASSUME NEW n \in Mutexes, n # m
       PROVE  walk \notin Elems(waiters[n]) /\ Sorted(waiters[n], prio)
  <2>1. walk \notin Elems(waiters[n])
    BY <1>2, <1>3, <1>15, InOneList
  <2> QED
    BY <1>2, <2>1, SortedWithout DEF PrioInv
<1>16. \A n \in Mutexes : Sorted(waiters'[n], prio)
  BY <1>10, <1>13, <1>15
<1>17. \A n \in Mutexes : \A w \in Elems(waiters'[n]) : w \in Threads /\ mprio'[n] <= prio[w]
  <2> SUFFICES ASSUME NEW n \in Mutexes, NEW w \in Elems(waiters'[n])
               PROVE  w \in Threads /\ mprio'[n] <= prio[w]
    OBVIOUS
  <2>1. w \in Elems(waiters[n]) /\ w \in Threads
    BY <1>2, <1>14, InOneList
  <2>2. CASE n = m
    BY <2>1, <2>2, <1>10, <1>11, <1>13
  <2>3. CASE n # m
    BY <2>1, <2>3, <1>2, <1>13, <1>15 DEF PrioInv
  <2> QED
    BY <2>2, <2>3
<1>18. \A n \in Mutexes : owner[n] \notin {None, o} => prio[owner[n]] <= mprio'[n]
  BY <1>2, <1>13 DEF PrioInv, o
<1>19. /\ prio' \in [Threads -> 0 .. NoPrio - 1] /\ walk' \in Threads \cup {None}
       /\ \A n \in Mutexes : SortedBut(waiters'[n], walk', prio')
       /\ \A n \in Mutexes : \A w \in Elems(waiters'[n]) : w # walk' => mprio'[n] <= prio'[w]
       /\ \A n \in Mutexes : owner[n] # None => prio'[owner[n]] <= mprio'[n]
  <2>1. TypeOK /\ o \in Threads /\ mprio' \in [Mutexes -> 0 .. NoPrio]
    BY <1>2, <1>4, <1>13 DEF o
  <2>2. UpdateIfChanged(o, Inherited(o, Taken(o), mprio'))
    BY <1>6
  <2> QED
    BY <2>1, <2>2, <1>16, <1>17, <1>18, UpdatedOwner, Zenon
<1>20. TypeOK'
  BY <1>1, <1>2, <1>13, <1>19 DEF TypeOK
<1>21. ListInv'
  <2>1. \A n \in Mutexes : Distinct(waiters'[n])
    BY <1>2, <1>10, <1>13 DEF ListInv
  <2> QED
    BY <1>1, <1>2, <1>14, <2>1 DEF ListInv, TypeOK
<1>22. GrantInv'
  BY <1>1, <1>2 DEF GrantInv
<1>23. PrioInv'
  BY <1>1, <1>19 DEF PrioInv
<1> QED
  BY <1>20, <1>21, <1>22, <1>23 DEF IInv

\* With no priority being passed on, each mutex is as urgent as who waits for it.
LEMMA AtRest ==
  ASSUME IInv, walk = None
  PROVE  /\ \A m \in Mutexes : Sorted(waiters[m], prio)
         /\ \A m \in Mutexes : \A w \in Elems(waiters[m]) : w \in Threads /\ mprio[m] <= prio[w]
         /\ \A m \in Mutexes : owner[m] # None => prio[owner[m]] <= mprio[m]
<1>1. \A m \in Mutexes : \A w \in Elems(waiters[m]) : w \in Threads
  BY InOneList DEF IInv
<1>2. None \notin Threads
  BY MutexAssumption
<1> QED
  BY <1>1, <1>2, AllSorted DEF IInv, PrioInv

\* Whoever gets a mutex nobody owns: nobody waits for it.
LEMMA InvTakeFree ==
  ASSUME IInv, NEW t \in Threads, NEW m \in Mutexes, TakeFree(t, m)
  PROVE  IInv'
<1>1. /\ pc[t] = "run" /\ walk = None /\ owner[m] = None
      /\ error' = [error EXCEPT ![t] = "ok"] /\ owner' = [owner EXCEPT ![m] = t]
      /\ mprio' = [mprio EXCEPT ![m] = NoPrio] /\ hold' = [hold EXCEPT ![m] = 1]
      /\ UNCHANGED <<waiters, prio, pc, want, pend, walk>>
  BY DEF TakeFree, MayTake, Runs
<1>2. TypeOK /\ ListInv /\ GrantInv /\ PrioInv
  BY DEF IInv
<1>3. NoPrio = 255 /\ HoldMax \in Nat \ {0} /\ None \notin Threads
  BY MutexAssumption DEF NoPrio
<1>4. Elems(waiters[m]) = {}
  BY <1>1, <1>2 DEF ListInv
<1>5. TypeOK'
  BY <1>1, <1>2, <1>3, SMTT(60) DEF TypeOK
<1>6. /\ \A n \in Mutexes : owner'[n] = IF n = m THEN t ELSE owner[n]
      /\ \A n \in Mutexes : mprio'[n] = IF n = m THEN NoPrio ELSE mprio[n]
      /\ \A u \in Threads : error'[u] = IF u = t THEN "ok" ELSE error[u]
  BY <1>1, <1>2 DEF TypeOK
<1>7. ListInv'
  <2>1. \A n \in Mutexes : \A w \in Elems(waiters[n]) : n # m
    BY <1>4
  <2> QED
    BY <1>1, <1>2, <1>6, <2>1 DEF ListInv
<1>8. GrantInv'
  <2> SUFFICES ASSUME NEW u \in Threads, pc[u] = "woken"
               PROVE  want[u] \in Mutexes /\ (owner'[want[u]] = u <=> error'[u] = "ok")
    BY <1>1 DEF GrantInv
  <2>1. u # t /\ want[u] \in Mutexes /\ (owner[want[u]] = u <=> error[u] = "ok")
    BY <1>1, <1>2 DEF GrantInv
  <2> QED
    BY <2>1, <1>1, <1>3, <1>6
<1>9. PrioInv'
  <2>1. \A n \in Mutexes : SortedBut(waiters'[n], walk', prio')
    BY <1>1, <1>2 DEF PrioInv
  <2>2. \A n \in Mutexes : \A w \in Elems(waiters'[n]) : w # walk' => mprio'[n] <= prio'[w]
    BY <1>1, <1>2, <1>4, <1>6 DEF PrioInv
  <2>3. \A n \in Mutexes : owner'[n] # None => prio'[owner'[n]] <= mprio'[n]
    <3>1. prio[t] \in 0 .. NoPrio - 1
      BY <1>2 DEF TypeOK
    <3> QED
      BY <1>1, <1>2, <1>3, <1>6, <3>1 DEF PrioInv
  <2> QED
    BY <2>1, <2>2, <2>3 DEF PrioInv
<1> QED
  BY <1>5, <1>7, <1>8, <1>9 DEF IInv

\* A further take, and a release that is not the last, only count.
LEMMA InvCount ==
  ASSUME IInv, NEW t \in Threads, NEW m \in Mutexes, TakeAgain(t, m) \/ ReleaseOnce(t, m)
  PROVE  IInv'
<1>1. /\ pc[t] = "run" /\ error' \in {error, [error EXCEPT ![t] = "ok"]}
      /\ UNCHANGED <<owner, mprio, waiters, prio, pc, want, pend, walk>>
  BY DEF TakeAgain, ReleaseOnce, MayTake, MayRelease, threadVars
<1>2. TypeOK /\ ListInv /\ GrantInv /\ PrioInv
  BY DEF IInv
<1>3. hold' \in [Mutexes -> 0 .. HoldMax]
  <2>1. HoldMax \in Nat /\ hold[m] \in 0 .. HoldMax /\ hold \in [Mutexes -> 0 .. HoldMax]
    BY <1>2, MutexAssumption DEF TypeOK
  <2>2. CASE TakeAgain(t, m)
    BY <2>1, <2>2 DEF TakeAgain, RoomToHold
  <2>3. CASE ReleaseOnce(t, m)
    BY <2>1, <2>3 DEF ReleaseOnce
  <2> QED
    BY <2>2, <2>3
<1>4. \A u \in Threads : pc[u] # "run" => error'[u] = error[u]
  BY <1>1, <1>2 DEF TypeOK
<1>5. error' \in [Threads -> {"ok", "timeout"}]
  BY <1>1, <1>2 DEF TypeOK
<1>6. TypeOK'
  BY <1>1, <1>2, <1>3, <1>5 DEF TypeOK
<1>7. ListInv' /\ GrantInv'
  BY <1>1, <1>2, <1>4 DEF ListInv, GrantInv
<1>8. PrioInv'
  BY <1>1, <1>2 DEF PrioInv
<1> QED
  BY <1>6, <1>7, <1>8 DEF IInv

\* The thread that was granted a mutex runs.
LEMMA InvTakeGranted == ASSUME IInv, NEW t \in Threads, TakeGranted(t) PROVE IInv'
<1>1. /\ pc[t] = "woken" /\ pc' = [pc EXCEPT ![t] = "run"] /\ want' = [want EXCEPT ![t] = None]
      /\ UNCHANGED <<owner, hold, mprio, waiters, prio, pend, error, walk>>
  BY DEF TakeGranted, mutexVars
<1>2. TypeOK /\ ListInv /\ GrantInv /\ PrioInv
  BY DEF IInv
<1>3. TypeOK'
  BY <1>1, <1>2 DEF TypeOK
<1>4. \A u \in Threads : u # t => pc'[u] = pc[u] /\ want'[u] = want[u]
  BY <1>1, <1>2 DEF TypeOK
<1>5. pc'[t] = "run"
  BY <1>1, <1>2 DEF TypeOK
<1>6. ListInv'
  <2>1. \A m \in Mutexes : \A w \in Elems(waiters[m]) : w # t
    BY <1>1, <1>2 DEF ListInv
  <2> QED
    BY <1>1, <1>2, <1>4, <1>5, <2>1 DEF ListInv
<1>7. GrantInv'
  BY <1>1, <1>2, <1>4, <1>5 DEF GrantInv
<1>8. PrioInv'
  BY <1>1, <1>2 DEF PrioInv
<1> QED
  BY <1>3, <1>6, <1>7, <1>8 DEF IInv

\* Priorities are numbers below that of a mutex nobody waits for.
LEMMA Priorities ==
  ASSUME TypeOK
  PROVE  /\ prio \in [Threads -> Nat] /\ NoPrio = 255
         /\ \A u \in Threads : prio[u] \in Nat /\ prio[u] < NoPrio
         /\ \A m \in Mutexes : mprio[m] \in Nat /\ mprio[m] <= NoPrio
<1>1. NoPrio = 255
  BY DEF NoPrio
<1>2. prio \in [Threads -> 0 .. NoPrio - 1] /\ mprio \in [Mutexes -> 0 .. NoPrio]
  BY DEF TypeOK
<1>3. \A u \in Threads : prio[u] \in Nat /\ prio[u] < NoPrio
  BY <1>1, <1>2
<1>4. \A m \in Mutexes : mprio[m] \in Nat /\ mprio[m] <= NoPrio
  BY <1>1, <1>2
<1>5. prio \in [Threads -> Nat]
  BY <1>2, <1>3
<1> QED
  BY <1>1, <1>3, <1>4, <1>5

\* Whoever begins to wait lends its priority to the owner.
LEMMA InvTakeWait ==
  ASSUME IInv, NEW t \in Threads, NEW m \in Mutexes, TakeWait(t, m)
  PROVE  IInv'
<1> DEFINE o == owner[m]
<1>1. /\ pc[t] = "run" /\ walk = None /\ o \notin {t, None}
      /\ error' = [error EXCEPT ![t] = "ok"]
      /\ pc' = [pc EXCEPT ![t] = "wait"] /\ want' = [want EXCEPT ![t] = m]
      /\ pend' = [pend EXCEPT ![t] = m]
      /\ mprio' = [mprio EXCEPT ![m] = IF prio[t] < mprio[m] THEN prio[t] ELSE mprio[m]]
      /\ IF Raises(t, m) THEN Update(o, prio[t]) ELSE UNCHANGED <<prio, walk>>
      /\ UNCHANGED <<owner, hold>>
  BY DEF TakeWait, MayTake, Runs
<1>2. PICK k \in Places(waiters[m], t) :
        waiters' = [waiters EXCEPT ![m] = InsertAt(waiters[m], k, t)]
  BY DEF TakeWait
<1> DEFINE list == InsertAt(waiters[m], k, t)
<1>3. waiters' = [waiters EXCEPT ![m] = list]
  BY <1>2
<1>4. TypeOK /\ ListInv /\ GrantInv /\ PrioInv
  BY DEF IInv
<1>5. /\ waiters[m] \in Seq(Threads) /\ waiters \in [Mutexes -> Seq(Threads)]
      /\ mprio \in [Mutexes -> 0 .. NoPrio] /\ prio \in [Threads -> 0 .. NoPrio - 1]
      /\ o \in Threads /\ NoPrio = 255
  BY <1>1, <1>4 DEF TypeOK, NoPrio
<1>6. /\ prio \in [Threads -> Nat]
      /\ \A u \in Threads : prio[u] \in Nat /\ prio[u] < NoPrio
      /\ \A n \in Mutexes : mprio[n] \in Nat /\ mprio[n] <= NoPrio
  BY <1>4, Priorities
<1>7. \A n \in Mutexes : t \notin Elems(waiters[n])
  BY <1>1, <1>4 DEF ListInv
<1>8. k \in 1 .. Len(waiters[m]) + 1
  BY DEF Places
<1>9. /\ list \in Seq(Threads) /\ Elems(list) = Elems(waiters[m]) \cup {t} /\ Distinct(list)
      /\ Sorted(list, prio)
  <2>1. /\ list \in Seq(Threads) /\ Elems(list) = Elems(waiters[m]) \cup {t}
        /\ Distinct(waiters[m]) /\ t \notin Elems(waiters[m]) => Distinct(list)
    BY <1>5, <1>8, InsertedElems
  <2>2. Sorted(waiters[m], prio)
    BY <1>1, AtRest
  <2>3. Sorted(list, prio)
    BY <1>5, <1>6, <2>2, InsertedSorted
  <2> QED
    BY <1>4, <1>7, <2>1, <2>3 DEF ListInv
<1> HIDE DEF list, o
<1>10. /\ waiters' \in [Mutexes -> Seq(Threads)] /\ mprio' \in [Mutexes -> 0 .. NoPrio]
       /\ \A n \in Mutexes : waiters'[n] = IF n = m THEN list ELSE waiters[n]
       /\ \A n \in Mutexes : n # m => mprio'[n] = mprio[n]
       /\ mprio'[m] = IF prio[t] < mprio[m] THEN prio[t] ELSE mprio[m]
  BY <1>1, <1>3, <1>5, <1>9, SMTT(60)
<1>11. /\ \A u \in Threads : u # t => pc'[u] = pc[u] /\ want'[u] = want[u] /\ pend'[u] = pend[u]
       /\ \A u \in Threads : u # t => error'[u] = error[u]
       /\ pc'[t] = "wait" /\ want'[t] = m /\ pend'[t] = m /\ error'[t] = "ok"
  BY <1>1, <1>4 DEF TypeOK
<1>12. \A n \in Mutexes : Sorted(waiters'[n], prio)
  BY <1>1, <1>9, <1>10, AtRest
<1>13. \A n \in Mutexes : \A w \in Elems(waiters'[n]) : w \in Threads /\ mprio'[n] <= prio[w]
  <2> SUFFICES ASSUME NEW n \in Mutexes, NEW w \in Elems(waiters'[n])
               PROVE  w \in Threads /\ mprio'[n] <= prio[w]
    OBVIOUS
  <2>1. CASE w \in Elems(waiters[n])
    <3>1. w \in Threads /\ mprio[n] <= prio[w]
      BY <2>1, <1>1, AtRest
    <3>2. mprio'[n] \in Nat /\ mprio'[n] <= mprio[n]
      <4>1. mprio[n] \in Nat /\ prio[t] \in Nat
        BY <1>6
      <4>2. CASE n = m
        BY <4>1, <4>2, <1>10
      <4>3. CASE n # m
        BY <4>1, <4>3, <1>10
      <4> QED
        BY <4>2, <4>3
    <3>3. prio[w] \in Nat /\ mprio[n] \in Nat
      BY <3>1, <1>6
    <3> QED
      BY <3>1, <3>2, <3>3
  <2>2. CASE n = m /\ w = t
    <3>1. prio[t] \in Nat /\ mprio[m] \in Nat
      BY <1>6
    <3> QED
      BY <2>2, <3>1, <1>10
  <2> QED
    BY <2>1, <2>2, <1>9, <1>10
<1>14. TypeOK' /\ PrioInv'
  <2>1. CASE Raises(t, m)
    <3>1. /\ prio' = [prio EXCEPT ![o] = prio[t]] /\ walk' = o
          /\ prio[t] < mprio[m] /\ prio[t] < prio[o]
      BY <1>1, <2>1 DEF Update, Raises, o
    <3>2. prio' \in [Threads -> 0 .. NoPrio - 1]
          /\ \A u \in Threads : prio'[u] = IF u = o THEN prio[t] ELSE prio[u]
      BY <1>5, <3>1, ZenonT(60)
    <3>3. TypeOK'
      BY <1>1, <1>4, <1>5, <1>10, <3>1, <3>2, ZenonT(60) DEF TypeOK
    <3>4. \A n \in Mutexes : SortedBut(waiters'[n], o, prio')
      <4> SUFFICES ASSUME NEW n \in Mutexes PROVE SortedBut(waiters'[n], o, prio')
        OBVIOUS
      <4>1. Sorted(waiters'[n], prio) /\ \A x \in Elems(waiters'[n]) \ {o} : prio'[x] = prio[x]
        BY <1>12, <1>13, <3>2
      <4> QED
        BY <4>1, SortedAfter, Zenon
    <3>5. \A n \in Mutexes : \A w \in Elems(waiters'[n]) : w # o => mprio'[n] <= prio'[w]
      BY <1>13, <3>2
    <3>6. ASSUME NEW n \in Mutexes, owner[n] # None PROVE prio'[owner[n]] <= mprio'[n]
      <4>1. owner[n] \in Threads /\ prio[owner[n]] <= mprio[n]
        BY <1>4, <3>6 DEF TypeOK, PrioInv
      <4>2. CASE n = m
        <5>1. owner[n] = o /\ mprio'[n] = prio[t] /\ prio[t] \in Nat
          BY <4>2, <1>6, <1>10, <3>1 DEF o
        <5> QED
          BY <5>1, <1>5, <3>2
      <4>3. CASE n # m
        <5>1. mprio'[n] = mprio[n] /\ mprio[n] \in Nat /\ prio[owner[n]] \in Nat /\ prio[t] \in Nat
          BY <4>1, <4>3, <1>6, <1>10
        <5>2. CASE owner[n] = o
          BY <5>1, <5>2, <4>1, <1>5, <3>1, <3>2
        <5>3. CASE owner[n] # o
          BY <5>1, <5>3, <4>1, <3>2
        <5> QED
          BY <5>2, <5>3
      <4> QED
        BY <4>2, <4>3
    <3>7. PrioInv'
      BY <1>1, <3>1, <3>4, <3>5, <3>6 DEF PrioInv
    <3> QED
      BY <3>3, <3>7
  <2>2. CASE ~Raises(t, m)
    <3>1. prio' = prio /\ walk' = None
      BY <1>1, <2>2
    <3>2. TypeOK'
      BY <1>1, <1>4, <1>5, <1>10, <3>1, ZenonT(60) DEF TypeOK
    <3>3. \A n \in Mutexes : SortedBut(waiters'[n], None, prio)
      BY <1>12, SortedAfter
    <3>4. ASSUME NEW n \in Mutexes, owner[n] # None PROVE prio[owner[n]] <= mprio'[n]
      <4>1. owner[n] \in Threads /\ prio[owner[n]] <= mprio[n]
        BY <1>4, <3>4 DEF TypeOK, PrioInv
      <4>2. CASE n = m
        <5>1. prio[owner[n]] \in Nat /\ prio[t] \in Nat /\ mprio[m] \in Nat
          BY <4>1, <1>6
        <5>2. ~(prio[t] < mprio[m] /\ prio[t] < prio[owner[n]])
          BY <4>2, <2>2 DEF Raises
        <5> QED
          BY <4>1, <4>2, <5>1, <5>2, <1>10
      <4>3. CASE n # m
        BY <4>1, <4>3, <1>10
      <4> QED
        BY <4>2, <4>3
    <3>5. PrioInv'
      BY <1>1, <1>13, <3>1, <3>3, <3>4 DEF PrioInv
    <3> QED
      BY <3>2, <3>5
  <2> QED
    BY <2>1, <2>2
<1>15. ListInv'
  <2>1. \A n \in Mutexes : Distinct(waiters'[n])
    BY <1>4, <1>9, <1>10 DEF ListInv
  <2>2. ASSUME NEW n \in Mutexes, NEW w \in Elems(waiters'[n])
        PROVE  /\ w \in Threads /\ pc'[w] = "wait" /\ want'[w] = n /\ pend'[w] = n
               /\ owner'[n] \notin {w, None}
    <3>1. CASE w \in Elems(waiters[n])
      BY <3>1, <1>1, <1>4, <1>7, <1>11 DEF ListInv
    <3>2. CASE n = m /\ w = t
      BY <3>2, <1>1, <1>11 DEF o
    <3> QED
      BY <3>1, <3>2, <1>9, <1>10
  <2>3. ASSUME NEW u \in Threads, pc'[u] = "wait"
        PROVE  pend'[u] \in Mutexes /\ u \in Elems(waiters'[pend'[u]]) /\ error'[u] = "ok"
    <3>1. CASE u = t
      BY <3>1, <1>9, <1>10, <1>11
    <3>2. CASE u # t
      <4>1. pend'[u] = pend[u] /\ pc[u] = "wait" /\ error'[u] = error[u]
        BY <2>3, <3>2, <1>11
      <4>2. pend[u] \in Mutexes /\ u \in Elems(waiters[pend[u]]) /\ error[u] = "ok"
        BY <4>1, <1>4 DEF ListInv
      <4>3. \A n \in Mutexes : u \in Elems(waiters[n]) => u \in Elems(waiters'[n])
        BY <1>9, <1>10
      <4> QED
        BY <4>1, <4>2, <4>3
    <3> QED
      BY <3>1, <3>2
  <2> QED
    BY <2>1, <2>2, <2>3 DEF ListInv
<1>16. GrantInv'
  BY <1>1, <1>4, <1>11 DEF GrantInv
<1> QED
  BY <1>14, <1>15, <1>16 DEF IInv

\* Whoever gave up takes its loan back, if that can be told.
LEMMA InvTakeTimedOut == ASSUME IInv, NEW t \in Threads, TakeTimedOut(t) PROVE IInv'
<1> DEFINE m == want[t]
           o == owner[m]
           P == [mprio EXCEPT ![m] = HeadPrio(waiters[m])]
<1>1. /\ pc[t] = "woken" /\ walk = None /\ o # t /\ mprio' = P
      /\ IF NeedUpdate(t, m) THEN UpdateIfChanged(o, Inherited(o, Taken(o), mprio'))
         ELSE UNCHANGED <<prio, walk>>
      /\ pc' = [pc EXCEPT ![t] = "run"] /\ want' = [want EXCEPT ![t] = None]
      /\ pend' = [pend EXCEPT ![t] = None]
      /\ UNCHANGED <<owner, hold, waiters, error>>
  BY DEF TakeTimedOut, Runs
<1>2. TypeOK /\ ListInv /\ GrantInv /\ PrioInv
  BY DEF IInv
<1>3. m \in Mutexes
  BY <1>1, <1>2 DEF GrantInv
<1>4. /\ prio \in [Threads -> 0 .. NoPrio - 1] /\ mprio \in [Mutexes -> 0 .. NoPrio]
      /\ waiters[m] \in Seq(Threads) /\ o \in Threads \cup {None} /\ NoPrio = 255
  BY <1>2, <1>3 DEF TypeOK, NoPrio
<1>5. Sorted(waiters[m], prio)
  BY <1>1, <1>3, AtRest
<1>6. /\ HeadPrio(waiters[m]) \in 0 .. NoPrio
      /\ \A x \in Elems(waiters[m]) : HeadPrio(waiters[m]) <= prio[x]
      /\ \A p \in Nat : p < NoPrio /\ (\A x \in Elems(waiters[m]) : p <= prio[x])
                          => p <= HeadPrio(waiters[m])
  BY <1>4, <1>5, HeadPrioProperties
<1> HIDE DEF m, o
<1>7. /\ mprio' \in [Mutexes -> 0 .. NoPrio]
      /\ \A n \in Mutexes : mprio'[n] = IF n = m THEN HeadPrio(waiters[m]) ELSE mprio[n]
  BY <1>1, <1>3, <1>4, <1>6
<1>8. /\ \A u \in Threads : u # t => pc'[u] = pc[u] /\ want'[u] = want[u] /\ pend'[u] = pend[u]
      /\ pc'[t] = "run"
  BY <1>1, <1>2 DEF TypeOK
<1>9. \A n \in Mutexes : Sorted(waiters[n], prio)
  BY <1>1, AtRest
<1>10. \A n \in Mutexes : \A w \in Elems(waiters[n]) : w \in Threads /\ mprio'[n] <= prio[w]
  <2>1. \A n \in Mutexes : \A w \in Elems(waiters[n]) : w \in Threads /\ mprio[n] <= prio[w]
    BY <1>1, AtRest
  <2> QED
    BY <2>1, <1>6, <1>7
<1>11. /\ prio' \in [Threads -> 0 .. NoPrio - 1] /\ walk' \in Threads \cup {None}
       /\ \A n \in Mutexes : SortedBut(waiters[n], walk', prio')
       /\ \A n \in Mutexes : \A w \in Elems(waiters[n]) : w # walk' => mprio'[n] <= prio'[w]
       /\ \A n \in Mutexes : owner[n] # None => prio'[owner[n]] <= mprio'[n]
  <2>1. CASE NeedUpdate(t, m)
    <3>1. TypeOK /\ o \in Threads /\ mprio' \in [Mutexes -> 0 .. NoPrio]
      BY <2>1, <1>2, <1>4, <1>7 DEF NeedUpdate, o
    <3>2. UpdateIfChanged(o, Inherited(o, Taken(o), mprio'))
      BY <2>1, <1>1
    <3>3. \A n \in Mutexes : owner[n] \notin {None, o} => prio[owner[n]] <= mprio'[n]
      BY <1>2, <1>7 DEF PrioInv, o
    <3> QED
      BY <3>1, <3>2, <3>3, <1>9, <1>10, UpdatedOwner, Zenon
  <2>2. CASE ~NeedUpdate(t, m)
    <3>1. prio' = prio /\ walk' = None
      BY <2>2, <1>1
    <3>2. \A n \in Mutexes : SortedBut(waiters[n], None, prio)
      BY <1>9, SortedAfter
    <3>3. ASSUME NEW n \in Mutexes, owner[n] # None PROVE prio[owner[n]] <= mprio'[n]
      <4>1. owner[n] \in Threads /\ prio[owner[n]] <= mprio[n]
        BY <1>2, <3>3 DEF TypeOK, PrioInv
      <4>2. CASE n = m
        <5>1. \A x \in Elems(waiters[m]) : x \in Threads /\ mprio[m] <= prio[x]
          BY <1>1, <1>3, AtRest
        <5>2. /\ prio[owner[n]] \in Nat /\ prio[owner[n]] < NoPrio /\ mprio[m] \in Nat
              /\ \A u \in Threads : prio[u] \in Nat
          BY <4>1, <1>2, <1>3, Priorities
        <5>3. \A x \in Elems(waiters[m]) : prio[owner[n]] <= prio[x]
          BY <4>1, <4>2, <5>1, <5>2
        <5> QED
          BY <4>2, <5>2, <5>3, <1>6, <1>7
      <4>3. CASE n # m
        BY <4>1, <4>3, <1>7
      <4> QED
        BY <4>2, <4>3
    <3> QED
      BY <3>1, <3>2, <3>3, <1>4, <1>10
  <2> QED
    BY <2>1, <2>2
<1>12. TypeOK'
  BY <1>1, <1>2, <1>7, <1>11 DEF TypeOK
<1>13. ListInv'
  <2>1. \A n \in Mutexes : \A w \in Elems(waiters[n]) : w # t
    BY <1>1, <1>2 DEF ListInv
  <2> QED
    BY <1>1, <1>2, <1>8, <2>1 DEF ListInv
<1>14. GrantInv'
  BY <1>1, <1>2, <1>8 DEF GrantInv
<1>15. PrioInv'
  BY <1>1, <1>11 DEF PrioInv
<1> QED
  BY <1>12, <1>13, <1>14, <1>15 DEF IInv

\* Who times out leaves its list, and is owner of nothing it waited for.
LEMMA InvTimeout == ASSUME IInv, NEW t \in Threads, Timeout(t) PROVE IInv'
<1> DEFINE m == pend[t]
           list == Removed(waiters[m], t)
<1>1. /\ pc[t] = "wait" /\ walk = None
      /\ waiters' = [waiters EXCEPT ![m] = list]
      /\ error' = [error EXCEPT ![t] = "timeout"] /\ pc' = [pc EXCEPT ![t] = "woken"]
      /\ UNCHANGED <<owner, hold, mprio, prio, want, pend, walk>>
  BY DEF Timeout, Unlisted, TimeoutError
<1>2. TypeOK /\ ListInv /\ GrantInv /\ PrioInv
  BY DEF IInv
<1>3. m \in Mutexes /\ t \in Elems(waiters[m]) /\ want[t] = m /\ owner[m] # t
  BY <1>1, <1>2 DEF ListInv
<1>4. waiters[m] \in Seq(Threads) /\ waiters \in [Mutexes -> Seq(Threads)] /\ Distinct(waiters[m])
  BY <1>2, <1>3 DEF TypeOK, ListInv
<1>5. /\ list \in Seq(Threads) /\ Elems(list) = Elems(waiters[m]) \ {t} /\ Distinct(list)
      /\ SortedBut(waiters[m], walk, prio) => SortedBut(list, walk, prio)
  BY <1>3, <1>4, RemovedList
<1> HIDE DEF m, list
<1>6. /\ waiters' \in [Mutexes -> Seq(Threads)]
      /\ \A n \in Mutexes : waiters'[n] = IF n = m THEN list ELSE waiters[n]
  BY <1>1, <1>3, <1>4, <1>5
<1>7. /\ \A u \in Threads : u # t => pc'[u] = pc[u] /\ error'[u] = error[u]
      /\ pc'[t] = "woken" /\ error'[t] = "timeout"
  BY <1>1, <1>2 DEF TypeOK
<1>8. TypeOK'
  BY <1>1, <1>2, <1>6 DEF TypeOK
<1>9. ListInv'
  <2>1. \A n \in Mutexes : Distinct(waiters'[n])
    BY <1>2, <1>5, <1>6 DEF ListInv
  <2>2. \A n \in Mutexes : \A w \in Elems(waiters'[n]) : w \in Elems(waiters[n]) /\ w # t
    <3>1. \A n \in Mutexes : n # m => t \notin Elems(waiters[n])
      BY <1>2, <1>3, InOneList
    <3> QED
      BY <1>5, <1>6, <3>1
  <2>3. ASSUME NEW u \in Threads, pc'[u] = "wait"
        PROVE  pend'[u] \in Mutexes /\ u \in Elems(waiters'[pend'[u]]) /\ error'[u] = "ok"
    <3>1. u # t /\ pc[u] = "wait" /\ error'[u] = error[u] /\ pend'[u] = pend[u]
      BY <2>3, <1>1, <1>7
    <3>2. pend[u] \in Mutexes /\ u \in Elems(waiters[pend[u]]) /\ error[u] = "ok"
      BY <3>1, <1>2 DEF ListInv
    <3>3. \A n \in Mutexes : u \in Elems(waiters[n]) => u \in Elems(waiters'[n])
      BY <3>1, <1>5, <1>6
    <3> QED
      BY <3>1, <3>2, <3>3
  <2>4. ASSUME NEW n \in Mutexes, NEW w \in Elems(waiters'[n])
        PROVE  /\ w \in Threads /\ pc'[w] = "wait" /\ want'[w] = n /\ pend'[w] = n
               /\ owner'[n] \notin {w, None}
    BY <1>1, <1>2, <1>7, <2>2 DEF ListInv
  <2> QED
    BY <2>1, <2>3, <2>4 DEF ListInv
<1>10. GrantInv'
  <2> SUFFICES ASSUME NEW u \in Threads, pc'[u] = "woken"
               PROVE  want'[u] \in Mutexes /\ (owner'[want'[u]] = u <=> error'[u] = "ok")
    BY DEF GrantInv
  <2>1. CASE u = t
    BY <2>1, <1>1, <1>3, <1>7
  <2>2. CASE u # t
    BY <2>2, <1>1, <1>2, <1>7 DEF GrantInv
  <2> QED
    BY <2>1, <2>2
<1>11. PrioInv'
  <2>1. \A n \in Mutexes : SortedBut(waiters'[n], walk, prio)
    BY <1>2, <1>3, <1>5, <1>6 DEF PrioInv
  <2>2. \A n \in Mutexes : Elems(waiters'[n]) \subseteq Elems(waiters[n])
    BY <1>5, <1>6
  <2> QED
    BY <1>1, <1>2, <2>1, <2>2 DEF PrioInv
<1> QED
  BY <1>8, <1>9, <1>10, <1>11 DEF IInv

\* The owner that lets go keeps what it inherits from its other mutexes.
LEMMA LoweredProperties ==
  ASSUME IInv, NEW t \in Threads, NEW m \in Mutexes, owner[m] = t
  PROVE  /\ Lowered(t, m) \in [Threads -> 0 .. NoPrio - 1]
         /\ \A u \in Threads : u # t => Lowered(t, m)[u] = prio[u]
         /\ \A n \in Mutexes : n # m /\ owner[n] = t => Lowered(t, m)[t] <= mprio[n]
<1> DEFINE i == Inherited(t, Taken(t) \ {m}, mprio)
<1>1. prio \in [Threads -> 0 .. NoPrio - 1] /\ mprio \in [Mutexes -> 0 .. NoPrio]
  BY DEF IInv, TypeOK
<1>2. i \in 0 .. NoPrio - 1 /\ \A n \in Mutexes : n # m /\ owner[n] = t => i <= mprio[n]
  BY <1>1, InheritedProperties DEF Taken
<1>3. CASE prio[t] = mprio[m]
  <2>1. Lowered(t, m) = [prio EXCEPT ![t] = i]
    BY <1>3 DEF Lowered
  <2> HIDE DEF i
  <2> QED
    BY <1>1, <1>2, <2>1
<1>4. CASE prio[t] # mprio[m]
  <2>1. Lowered(t, m) = prio
    BY <1>4 DEF Lowered
  <2>2. t # None
    BY MutexAssumption
  <2> QED
    BY <1>1, <2>1, <2>2 DEF IInv, PrioInv
<1> QED
  BY <1>3, <1>4

\* A mutex nobody waits for is free again.
LEMMA InvReleaseFree ==
  ASSUME IInv, NEW t \in Threads, NEW m \in Mutexes, ReleaseFree(t, m)
  PROVE  IInv'
<1>1. /\ pc[t] = "run" /\ walk = None /\ owner[m] = t /\ waiters[m] = <<>>
      /\ prio' = Lowered(t, m)
      /\ owner' = [owner EXCEPT ![m] = None] /\ hold' = [hold EXCEPT ![m] = 0]
      /\ mprio' = [mprio EXCEPT ![m] = NoPrio]
      /\ UNCHANGED <<waiters, pc, want, pend, error, walk>>
  BY DEF ReleaseFree, MayRelease, Runs, threadVars
<1>2. TypeOK /\ ListInv /\ GrantInv /\ PrioInv
  BY DEF IInv
<1>3. /\ prio' \in [Threads -> 0 .. NoPrio - 1]
      /\ \A u \in Threads : u # t => prio'[u] = prio[u]
      /\ \A n \in Mutexes : n # m /\ owner[n] = t => prio'[t] <= mprio[n]
  BY <1>1, LoweredProperties
<1>4. NoPrio = 255 /\ HoldMax \in Nat /\ None \notin Threads
  BY MutexAssumption DEF NoPrio
<1>5. TypeOK'
  BY <1>1, <1>2, <1>3, <1>4, SMTT(60) DEF TypeOK
<1>6. /\ \A n \in Mutexes : owner'[n] = IF n = m THEN None ELSE owner[n]
      /\ \A n \in Mutexes : mprio'[n] = IF n = m THEN NoPrio ELSE mprio[n]
  BY <1>1, <1>2 DEF TypeOK
<1>7. \A n \in Mutexes : \A w \in Elems(waiters[n]) : n # m /\ w # t /\ w \in Threads
  <2>1. Len(waiters[m]) = 0
    BY <1>1
  <2>2. Elems(waiters[m]) = {}
    BY <2>1 DEF Elems
  <2> QED
    BY <1>1, <1>2, <2>2 DEF ListInv
<1>8. ListInv'
  BY <1>1, <1>2, <1>6, <1>7 DEF ListInv
<1>9. GrantInv'
  <2> SUFFICES ASSUME NEW u \in Threads, pc[u] = "woken"
               PROVE  want[u] \in Mutexes /\ (owner'[want[u]] = u <=> error[u] = "ok")
    BY <1>1 DEF GrantInv
  <2>1. u # t /\ u # None /\ want[u] \in Mutexes /\ (owner[want[u]] = u <=> error[u] = "ok")
    BY <1>1, <1>2, <1>4 DEF GrantInv
  <2> QED
    BY <2>1, <1>1, <1>6
<1>10. PrioInv'
  <2>1. \A n \in Mutexes : SortedBut(waiters'[n], walk', prio')
    <3> SUFFICES ASSUME NEW n \in Mutexes PROVE SortedBut(waiters[n], None, prio')
      BY <1>1
    <3>1. Sorted(waiters[n], prio) /\ \A x \in Elems(waiters[n]) \ {None} : prio'[x] = prio[x]
      BY <1>1, <1>3, <1>7, AtRest
    <3> QED
      BY <3>1, SortedAfter, Zenon
  <2>2. \A n \in Mutexes : \A w \in Elems(waiters'[n]) : w # walk' => mprio'[n] <= prio'[w]
    BY <1>1, <1>2, <1>3, <1>6, <1>7 DEF PrioInv
  <2>3. ASSUME NEW n \in Mutexes, owner'[n] # None PROVE prio'[owner'[n]] <= mprio'[n]
    <3>1. n # m /\ owner'[n] = owner[n] /\ owner[n] \in Threads /\ mprio'[n] = mprio[n]
      BY <2>3, <1>2, <1>6 DEF TypeOK
    <3>2. prio[owner[n]] <= mprio[n]
      BY <2>3, <3>1, <1>2 DEF PrioInv
    <3> QED
      BY <3>1, <3>2, <1>3
  <2> QED
    BY <2>1, <2>2, <2>3 DEF PrioInv
<1> QED
  BY <1>5, <1>8, <1>9, <1>10 DEF IInv

\* The first of the list owns the mutex before it runs.
LEMMA InvHandOver ==
  ASSUME IInv, NEW t \in Threads, NEW m \in Mutexes, HandOver(t, m)
  PROVE  IInv'
<1> DEFINE q == waiters[m]
           n == Head(q)
<1>1. /\ pc[t] = "run" /\ walk = None /\ owner[m] = t /\ q # <<>>
      /\ prio' = Lowered(t, m)
      /\ waiters' = [waiters EXCEPT ![m] = Tail(q)] /\ owner' = [owner EXCEPT ![m] = n]
      /\ pc' = [pc EXCEPT ![n] = "woken"] /\ pend' = [pend EXCEPT ![n] = None]
      /\ mprio' = [mprio EXCEPT ![m] = HeadPrio(Tail(q))]
      /\ UNCHANGED <<hold, want, error, walk>>
  BY DEF HandOver, MayRelease, Runs
<1>2. TypeOK /\ ListInv /\ GrantInv /\ PrioInv
  BY DEF IInv
<1>3. /\ prio' \in [Threads -> 0 .. NoPrio - 1]
      /\ \A u \in Threads : u # t => prio'[u] = prio[u]
      /\ \A r \in Mutexes : r # m /\ owner[r] = t => prio'[t] <= mprio[r]
  BY <1>1, LoweredProperties
<1>4. q \in Seq(Threads) /\ Distinct(q) /\ Sorted(q, prio) /\ None \notin Threads
  BY <1>1, <1>2, AtRest, MutexAssumption DEF TypeOK, ListInv
<1>5. /\ n \in Elems(q) /\ n \in Threads /\ Tail(q) \in Seq(Threads)
      /\ Elems(Tail(q)) \subseteq Elems(q)
      /\ Elems(q) \subseteq Elems(Tail(q)) \cup {n}
      /\ Distinct(Tail(q)) /\ n \notin Elems(Tail(q)) /\ Sorted(Tail(q), prio)
      /\ \A x \in Elems(Tail(q)) : prio[n] <= prio[x]
  BY <1>1, <1>4, HeadTailList
<1>6. /\ pc[n] = "wait" /\ want[n] = m /\ error[n] = "ok" /\ n # t
      /\ \A r \in Mutexes : n \in Elems(waiters[r]) => r = m
  BY <1>1, <1>2, <1>5, InOneList
<1>7. prio[n] \in Nat /\ prio[n] < NoPrio /\ prio \in [Threads -> 0 .. NoPrio - 1]
  BY <1>2, <1>5, Priorities DEF TypeOK
<1> DEFINE p == HeadPrio(Tail(q))
<1>8. p \in 0 .. NoPrio /\ prio[n] <= p /\ \A x \in Elems(Tail(q)) : p <= prio[x]
  BY <1>5, <1>7, HeadPrioProperties
<1> HIDE DEF p, n
<1>9. /\ waiters' \in [Mutexes -> Seq(Threads)]
      /\ \A r \in Mutexes : waiters'[r] = IF r = m THEN Tail(q) ELSE waiters[r]
      /\ mprio' \in [Mutexes -> 0 .. NoPrio]
      /\ \A r \in Mutexes : mprio'[r] = IF r = m THEN p ELSE mprio[r]
      /\ owner' \in [Mutexes -> Threads \cup {None}]
      /\ \A r \in Mutexes : owner'[r] = IF r = m THEN n ELSE owner[r]
  BY <1>1, <1>2, <1>5, <1>8 DEF TypeOK, p
<1>10. /\ \A u \in Threads : u # n => pc'[u] = pc[u] /\ pend'[u] = pend[u]
       /\ pc'[n] = "woken"
  BY <1>1, <1>2, <1>5 DEF TypeOK
<1>11. \A r \in Mutexes : \A w \in Elems(waiters'[r]) :
         w \in Elems(waiters[r]) /\ w # n /\ w # t /\ w \in Threads
  <2>1. \A r \in Mutexes : \A w \in Elems(waiters[r]) : w # t /\ w \in Threads
    BY <1>1, <1>2 DEF ListInv
  <2>2. ASSUME NEW r \in Mutexes, NEW w \in Elems(waiters'[r])
        PROVE  w \in Elems(waiters[r]) /\ w # n
    <3>1. CASE r = m
      BY <3>1, <1>5, <1>9
    <3>2. CASE r # m
      BY <3>2, <1>6, <1>9
    <3> QED
      BY <3>1, <3>2
  <2> QED
    BY <2>1, <2>2
<1> HIDE DEF q
<1>12. TypeOK'
  BY <1>1, <1>2, <1>3, <1>9 DEF TypeOK
<1>13. ListInv'
  <2>1. \A r \in Mutexes : Distinct(waiters'[r])
    BY <1>2, <1>5, <1>9, ZenonT(60) DEF ListInv
  <2>2. ASSUME NEW r \in Mutexes, NEW w \in Elems(waiters'[r])
        PROVE  /\ w \in Threads /\ pc'[w] = "wait" /\ want'[w] = r /\ pend'[w] = r
               /\ owner'[r] \notin {w, None}
    <3>1. w \in Elems(waiters[r]) /\ w # n /\ w \in Threads
      BY <1>11
    <3>2. pc[w] = "wait" /\ want[w] = r /\ pend[w] = r /\ owner[r] \notin {w, None}
      BY <3>1, <1>2 DEF ListInv
    <3>3. n # None
      BY <1>4, <1>5
    <3> QED
      BY <3>1, <3>2, <3>3, <1>1, <1>9, <1>10
  <2>3. ASSUME NEW u \in Threads, pc'[u] = "wait"
        PROVE  pend'[u] \in Mutexes /\ u \in Elems(waiters'[pend'[u]]) /\ error'[u] = "ok"
    <3>1. u # n /\ pc[u] = "wait" /\ error'[u] = error[u] /\ pend'[u] = pend[u]
      BY <2>3, <1>1, <1>10
    <3>2. pend[u] \in Mutexes /\ u \in Elems(waiters[pend[u]]) /\ error[u] = "ok"
      BY <3>1, <1>2 DEF ListInv
    <3>3. \A r \in Mutexes : u \in Elems(waiters[r]) => u \in Elems(waiters'[r])
      BY <3>1, <1>5, <1>9 DEF q
    <3> QED
      BY <3>1, <3>2, <3>3
  <2> QED
    BY <2>1, <2>2, <2>3 DEF ListInv
<1>14. GrantInv'
  <2> SUFFICES ASSUME NEW u \in Threads, pc'[u] = "woken"
               PROVE  want[u] \in Mutexes /\ (owner'[want[u]] = u <=> error[u] = "ok")
    BY <1>1 DEF GrantInv
  <2>1. CASE u = n
    BY <2>1, <1>6, <1>9
  <2>2. CASE u # n
    <3>1. pc[u] = "woken" /\ u # t
      BY <2>2, <1>1, <1>10
    <3>2. want[u] \in Mutexes /\ (owner[want[u]] = u <=> error[u] = "ok")
      BY <3>1, <1>2 DEF GrantInv
    <3> QED
      BY <2>2, <3>1, <3>2, <1>1, <1>9
  <2> QED
    BY <2>1, <2>2
<1>15. PrioInv'
  <2>1. \A r \in Mutexes : SortedBut(waiters'[r], None, prio')
    <3> SUFFICES ASSUME NEW r \in Mutexes PROVE SortedBut(waiters'[r], None, prio')
      OBVIOUS
    <3>1. Sorted(waiters'[r], prio)
      BY <1>1, <1>5, <1>9, AtRest
    <3>2. \A x \in Elems(waiters'[r]) \ {None} : prio'[x] = prio[x]
      BY <1>3, <1>11
    <3> QED
      BY <3>1, <3>2, SortedAfter, Zenon
  <2>2. ASSUME NEW r \in Mutexes, NEW w \in Elems(waiters'[r]) PROVE mprio'[r] <= prio'[w]
    <3>1. prio'[w] = prio[w] /\ w \in Elems(waiters[r])
      BY <1>3, <1>11
    <3>2. CASE r = m
      BY <3>1, <3>2, <1>8, <1>9
    <3>3. CASE r # m
      BY <3>1, <3>3, <1>1, <1>9, AtRest
    <3> QED
      BY <3>2, <3>3
  <2>3. ASSUME NEW r \in Mutexes, owner'[r] # None PROVE prio'[owner'[r]] <= mprio'[r]
    <3>1. CASE r = m
      BY <3>1, <1>3, <1>5, <1>6, <1>8, <1>9
    <3>2. CASE r # m
      <4>1. owner'[r] = owner[r] /\ mprio'[r] = mprio[r] /\ owner[r] \in Threads
        BY <2>3, <3>2, <1>2, <1>9 DEF TypeOK
      <4>2. prio[owner[r]] <= mprio[r]
        BY <2>3, <4>1, <1>2 DEF PrioInv
      <4> QED
        BY <3>2, <4>1, <4>2, <1>3
    <3> QED
      BY <3>1, <3>2
  <2> QED
    BY <1>1, <2>1, <2>2, <2>3 DEF PrioInv
<1> QED
  BY <1>12, <1>13, <1>14, <1>15 DEF IInv

-----------------------------------------------------------------------------
(* The theorems. *)

LEMMA InvNext == IInv /\ [Next]_vars => IInv'
<1> SUFFICES ASSUME IInv, [Next]_vars PROVE IInv'
  OBVIOUS
<1>1. CASE Walk
  BY <1>1, InvWalkEnds, InvWalkOn DEF Walk
<1>2. ASSUME NEW t \in Threads, NEW m \in Mutexes,
             TakeFree(t, m) \/ TakeAgain(t, m) \/ TakeWait(t, m)
      PROVE  IInv'
  BY <1>2, InvTakeFree, InvCount, InvTakeWait
<1>3. ASSUME NEW t \in Threads, Resumed(t) \/ Timeout(t) PROVE IInv'
  BY <1>3, InvTakeGranted, InvTakeTimedOut, InvTimeout DEF Resumed
<1>4. ASSUME NEW t \in Threads, NEW m \in Mutexes, Release(t, m) PROVE IInv'
  BY <1>4, InvCount, InvReleaseFree, InvHandOver DEF Release
<1>5. CASE UNCHANGED vars
  BY <1>5 DEF vars, mutexVars, threadVars, IInv, TypeOK, ListInv, GrantInv, PrioInv
<1> QED
  BY <1>1, <1>2, <1>3, <1>4, <1>5 DEF Next

LEMMA InvAlways == Spec => []IInv
BY InvInit, InvNext, PTL DEF Spec

\* Every variable stays in its range, the count of recursive takes as well.
THEOREM TypeAlwaysOK == Spec => []TypeOK
<1>1. IInv => TypeOK
  BY DEF IInv
<1> QED
  BY <1>1, InvAlways, PTL

\* A thread is suspended exactly when it is in one list, once: that of the mutex it
\* asked for.
THEOREM WaitersAlwaysListed == Spec => []WaitersListed
<1>1. IInv => WaitersListed
  <2> SUFFICES ASSUME IInv PROVE WaitersListed
    OBVIOUS
  <2>1. ListInv
    BY DEF IInv
  <2>2. ASSUME NEW m \in Mutexes, NEW i \in 1 .. Len(waiters[m])
        PROVE  LET t == waiters[m][i] IN
                 /\ pc[t] = "wait" /\ want[t] = m /\ pend[t] = m
                 /\ owner[m] \notin {t, None}
                 /\ \A j \in 1 .. Len(waiters[m]) : waiters[m][j] = t => j = i
    <3>1. waiters[m][i] \in Elems(waiters[m])
      BY DEF Elems
    <3> QED
      BY <2>1, <3>1 DEF ListInv, Distinct
  <2>3. ASSUME NEW t \in Threads, pc[t] = "wait"
        PROVE  \E m \in Mutexes : \E i \in 1 .. Len(waiters[m]) : waiters[m][i] = t
    BY <2>1, <2>3 DEF ListInv, Elems
  <2> QED
    BY <2>2, <2>3 DEF WaitersListed
<1> QED
  BY <1>1, InvAlways, PTL

\* A thread that runs again finds itself the owner exactly when it was not timed out.
THEOREM GrantedIsAlwaysOwner == Spec => []GrantedIsOwner
<1>1. IInv => GrantedIsOwner
  BY DEF IInv, GrantInv, GrantedIsOwner
<1> QED
  BY <1>1, InvAlways, PTL

\* No owner is less urgent than a thread that waits for it.
THEOREM NeverInverted == Spec => []NoInversion
<1>1. IInv => NoInversion
  <2> SUFFICES ASSUME IInv, walk = None, NEW m \in Mutexes, NEW i \in 1 .. Len(waiters[m])
               PROVE  prio[owner[m]] <= prio[waiters[m][i]]
    BY DEF NoInversion
  <2> DEFINE w == waiters[m][i]
  <2>1. w \in Elems(waiters[m])
    BY DEF Elems
  <2>2. owner[m] # None /\ owner[m] \in Threads
    BY <2>1 DEF IInv, ListInv, TypeOK
  <2>3. w \in Threads /\ mprio[m] <= prio[w] /\ prio[owner[m]] <= mprio[m]
    BY <2>1, <2>2, AtRest
  <2>4. prio[w] \in Nat /\ mprio[m] \in Nat /\ prio[owner[m]] \in Nat
    BY <2>2, <2>3, Priorities DEF IInv
  <2> HIDE DEF w
  <2>5. prio[owner[m]] <= prio[w]
    BY <2>3, <2>4
  <2> QED
    BY <2>5 DEF w
<1> QED
  BY <1>1, InvAlways, PTL

\* Only a hand-over gives a mutex that threads wait for another owner: the first.
LEMMA HandedToFirst ==
  ASSUME IInv, Next, NEW m \in Mutexes, waiters[m] # <<>>, owner'[m] # owner[m]
  PROVE  \E i \in 1 .. Len(waiters[m]) :
           /\ owner'[m] = waiters[m][i]
           /\ \A j \in 1 .. Len(waiters[m]) : prio[waiters[m][i]] <= prio[waiters[m][j]]
<1>1. owner \in [Mutexes -> Threads \cup {None}] /\ waiters[m] \in Seq(Threads)
  BY DEF IInv, TypeOK
<1>2. owner[m] # None
  <2>1. Head(waiters[m]) \in Elems(waiters[m])
    BY <1>1, HeadTailList
  <2> QED
    BY <2>1 DEF IInv, ListInv
<1>3. PICK t \in Threads : HandOver(t, m)
  <2>1. CASE Walk
    BY <2>1 DEF Walk, WalkEnds, WalkOn, mutexVars
  <2>2. ASSUME NEW t \in Threads, NEW n \in Mutexes,
               TakeFree(t, n) \/ TakeAgain(t, n) \/ TakeWait(t, n)
        PROVE  FALSE
    <3>1. n = m /\ owner[n] = None
      BY <2>2, <1>1 DEF TakeFree, TakeAgain, TakeWait
    <3> QED
      BY <3>1, <1>2
  <2>3. ASSUME NEW t \in Threads, Resumed(t) \/ Timeout(t) PROVE FALSE
    BY <2>3 DEF Resumed, TakeGranted, TakeTimedOut, Timeout, mutexVars
  <2>4. ASSUME NEW t \in Threads, NEW n \in Mutexes, Release(t, n) PROVE HandOver(t, m)
    <3>1. CASE ReleaseOnce(t, n)
      BY <3>1 DEF ReleaseOnce
    <3>2. CASE ReleaseFree(t, n)
      BY <3>2, <1>1 DEF ReleaseFree
    <3>3. CASE HandOver(t, n)
      <4>1. n = m
        BY <3>3, <1>1 DEF HandOver
      <4> QED
        BY <3>3, <4>1
    <3> QED
      BY <2>4, <3>1, <3>2, <3>3 DEF Release
  <2> QED
    BY <2>1, <2>2, <2>3, <2>4 DEF Next
<1>4. owner'[m] = Head(waiters[m]) /\ walk = None
  BY <1>1, <1>3 DEF HandOver, MayRelease, Runs
<1>5. Sorted(waiters[m], prio)
  BY <1>4, AtRest
<1>6. Len(waiters[m]) \in Nat /\ Len(waiters[m]) >= 1 /\ Head(waiters[m]) = waiters[m][1]
  BY <1>1, EmptySeq, HeadTailProperties
<1>7. \A j \in 1 .. Len(waiters[m]) : prio[waiters[m][1]] <= prio[waiters[m][j]]
  <2> SUFFICES ASSUME NEW j \in 1 .. Len(waiters[m])
               PROVE  prio[waiters[m][1]] <= prio[waiters[m][j]]
    OBVIOUS
  <2>1. CASE j = 1
    <3>1. prio[waiters[m][1]] \in Nat
      BY <1>1, <1>6, Priorities DEF IInv
    <3> QED
      BY <2>1, <3>1
  <2>2. CASE j # 1
    BY <2>2, <1>5, <1>6 DEF Sorted
  <2> QED
    BY <2>1, <2>2
<1> QED
  BY <1>4, <1>6, <1>7

\* A mutex for which threads wait is handed to the most urgent of them.
THEOREM MostUrgentAlwaysFirst == Spec => MostUrgentFirst
<1> DEFINE Handed ==
      \A m \in Mutexes :
        (waiters[m] # <<>> /\ owner'[m] # owner[m]) =>
          \E i \in 1 .. Len(waiters[m]) :
            /\ owner'[m] = waiters[m][i]
            /\ \A j \in 1 .. Len(waiters[m]) : prio[waiters[m][i]] <= prio[waiters[m][j]]
<1>1. IInv /\ [Next]_vars => [Handed]_vars
  BY HandedToFirst, Zenon
<1>2. MostUrgentFirst <=> [][Handed]_vars
  BY DEF MostUrgentFirst
<1> QED
  BY <1>1, <1>2, InvAlways, PTL DEF Spec

-----------------------------------------------------------------------------
(* What was lent is given back, where threads that wait with a timeout hold   *)
(* nothing then and at most one has still to clean up (OneLate).  With two of *)
(* them it is not: if the mutex is handed over after the first timeout and    *)
(* before the second, the first clean-up finds an owner that owes it nothing, *)
(* and yet clears the priority by which the owner would give back the rest.   *)

\* A thread whose wait timed out and that has not cleaned up.
Late(t) == pc[t] = "woken" /\ error[t] # "ok"
LateInv == \A t \in Threads : Late(t) => Taken(t) = {}

OneLate == \A t, u \in Threads : Late(t) /\ Late(u) => t = u

\* The priority a list gives its mutex, under the priorities P.
HeadIn(q, P) == IF q = <<>> THEN NoPrio ELSE P[Head(q)]

\* The thread whose priority is being passed on waits for m.
Passing(m) == walk # None /\ pc[walk] = "wait" /\ pend[walk] = m

\* A mutex has the priority of the first that waits, or of the one that did until it
\* timed out.
StaleInv ==
  \A m \in Mutexes : ~Passing(m) =>
    \/ mprio[m] = HeadIn(waiters[m], prio)
    \/ \E t \in Threads : /\ Late(t) /\ want[t] = m
                          /\ mprio[m] = prio[t] /\ prio[t] <= HeadIn(waiters[m], prio)

\* p is the most urgent of t's own priority and those of the mutexes in S.
Earns(p, t, S, P) ==
  /\ p <= InitPrio[t] /\ \A m \in S : p <= P[m]
  /\ p = InitPrio[t] \/ \E m \in S : p = P[m]

OwedInv == \A t \in Threads : Earns(prio[t], t, Taken(t), mprio)

EarnInv == LateInv /\ StaleInv /\ OwedInv

\* Inherited is what a thread earns.
LEMMA InheritedIsEarned ==
  ASSUME NEW t \in Threads, NEW T \in SUBSET Mutexes, NEW P \in [Mutexes -> 0 .. NoPrio]
  PROVE  /\ Earns(Inherited(t, T, P), t, T, P)
         /\ \A p \in Nat : Earns(p, t, T, P) => p = Inherited(t, T, P)
<1> DEFINE S == {InitPrio[t]} \cup {P[m] : m \in T}
<1>1. InitPrio[t] \in Nat /\ NoPrio = 255 /\ \A m \in T : P[m] \in Nat
  <2>1. InitPrio[t] \in 0 .. NoPrio - 1 /\ NoPrio = 255
    BY MutexAssumption DEF NoPrio
  <2> QED
    BY <2>1
<1>2. S \subseteq Nat /\ S # {}
  BY <1>1
<1>3. Min(S) \in S /\ \A x \in S : Min(S) <= x
  BY <1>2, MinProperties
<1>4. /\ Min(S) \in Nat /\ Min(S) <= InitPrio[t] /\ \A m \in T : Min(S) <= P[m]
      /\ Min(S) = InitPrio[t] \/ \E m \in T : Min(S) = P[m]
  BY <1>2, <1>3
<1> HIDE DEF S
<1>5. Inherited(t, T, P) = Min(S)
  BY DEF Inherited, S
<1> QED
  BY <1>1, <1>4, <1>5 DEF Earns

\* A list whose threads keep their priorities gives its mutex the same one.
LEMMA HeadInKept ==
  ASSUME NEW q \in Seq(Threads), NEW P, NEW Q, \A x \in Elems(q) : Q[x] = P[x]
  PROVE  HeadIn(q, Q) = HeadIn(q, P)
BY HeadTailList DEF HeadIn

\* In a sorted list HeadIn is the most urgent priority.
LEMMA HeadInProperties ==
  ASSUME TypeOK, NEW q \in Seq(Threads), Sorted(q, prio)
  PROVE  /\ HeadIn(q, prio) \in Nat /\ HeadIn(q, prio) <= NoPrio
         /\ \A x \in Elems(q) : HeadIn(q, prio) <= prio[x]
         /\ \A p \in Nat : p < NoPrio /\ (\A x \in Elems(q) : p <= prio[x]) => p <= HeadIn(q, prio)
<1>1. prio \in [Threads -> 0 .. NoPrio - 1] /\ NoPrio = 255
  BY DEF TypeOK, NoPrio
<1>2. HeadIn(q, prio) = HeadPrio(q)
  BY DEF HeadIn, HeadPrio
<1>3. /\ HeadPrio(q) \in 0 .. NoPrio
      /\ \A x \in Elems(q) : HeadPrio(q) <= prio[x]
      /\ \A p \in Nat : p < NoPrio /\ (\A x \in Elems(q) : p <= prio[x]) => p <= HeadPrio(q)
  BY <1>1, HeadPrioProperties, Zenon
<1>4. HeadPrio(q) \in Nat /\ HeadPrio(q) <= NoPrio
  <2> DEFINE h == HeadPrio(q)
  <2>1. h \in 0 .. NoPrio /\ NoPrio = 255
    BY <1>1, <1>3
  <2> HIDE DEF h
  <2>2. h \in Nat /\ h <= NoPrio
    BY <2>1
  <2> QED
    BY <2>2 DEF h
<1> QED
  BY <1>2, <1>3, <1>4

\* Where no priority but o's changes and that one is passed on, a mutex that is not
\* reached by it keeps its place in StaleInv.
LEMMA StaleKept ==
  ASSUME TypeOK, ListInv, NEW n \in Mutexes, NEW o,
         waiters'[n] = waiters[n],
         \A u \in Threads \ {o} : prio'[u] = prio[u],
         o \in Elems(waiters[n]) => prio'[o] = prio[o]
  PROVE  HeadIn(waiters'[n], prio') = HeadIn(waiters[n], prio)
<1>1. waiters[n] \in Seq(Threads)
  BY DEF TypeOK
<1>2. \A x \in Elems(waiters[n]) : x \in Threads
  BY DEF ListInv
<1>3. \A x \in Elems(waiters[n]) : prio'[x] = prio[x]
  BY <1>2
<1>4. HeadIn(waiters[n], prio') = HeadIn(waiters[n], prio)
  BY <1>1, <1>3, HeadInKept, Zenon
<1> QED
  BY <1>4

\* Steps that change no mutex's priority, list or owner, and nobody's priority.
LEMMA EarnSame ==
  ASSUME IInv, EarnInv, UNCHANGED <<owner, mprio, waiters, prio>>,
         \A t \in Threads : Late(t)' => Late(t),
         \A t \in Threads : Late(t) => Late(t)' /\ want'[t] = want[t],
         \A m \in Mutexes : Passing(m) => Passing(m)'
  PROVE  EarnInv'
<1>1. LateInv'
  BY DEF EarnInv, LateInv, Taken
<1>2. StaleInv'
  <2> SUFFICES ASSUME NEW m \in Mutexes, ~Passing(m)'
               PROVE  \/ mprio[m] = HeadIn(waiters[m], prio)
                      \/ \E t \in Threads : /\ Late(t)' /\ want'[t] = m
                           /\ mprio[m] = prio[t] /\ prio[t] <= HeadIn(waiters[m], prio)
    BY DEF StaleInv, HeadIn
  <2>1. ~Passing(m)
    OBVIOUS
  <2> QED
    BY <2>1 DEF EarnInv, StaleInv
<1>3. OwedInv'
  BY DEF EarnInv, OwedInv, Earns, Taken
<1> QED
  BY <1>1, <1>2, <1>3 DEF EarnInv

\* Steps that only count, grant, or end a chain.
LEMMA EarnQuiet ==
  ASSUME IInv, EarnInv,
         \/ WalkEnds
         \/ \E t \in Threads : TakeGranted(t)
         \/ \E t \in Threads, m \in Mutexes : TakeAgain(t, m) \/ ReleaseOnce(t, m)
  PROVE  EarnInv'
<1>1. TypeOK /\ GrantInv
  BY DEF IInv
<1>2. CASE WalkEnds
  <2>1. /\ \A t \in Threads : (Late(t)' <=> Late(t)) /\ want'[t] = want[t]
        /\ \A m \in Mutexes : Passing(m) => Passing(m)'
        /\ UNCHANGED <<owner, mprio, waiters, prio>>
    BY <1>2 DEF WalkEnds, mutexVars, threadVars, Late, Passing
  <2> QED
    BY <2>1, EarnSame
<1>3. ASSUME NEW t \in Threads, TakeGranted(t) PROVE EarnInv'
  <2>1. /\ pc[t] = "woken" /\ error[t] = "ok" /\ pc' = [pc EXCEPT ![t] = "run"]
        /\ want' = [want EXCEPT ![t] = None] /\ error' = error /\ walk = None /\ walk' = None
        /\ UNCHANGED <<owner, mprio, waiters, prio>>
    BY <1>1, <1>3 DEF TakeGranted, Runs, mutexVars, GrantInv
  <2>2. /\ \A u \in Threads : u # t => pc'[u] = pc[u] /\ want'[u] = want[u]
        /\ pc'[t] = "run"
    BY <1>1, <2>1 DEF TypeOK
  <2>3. /\ \A u \in Threads : (Late(u)' <=> Late(u)) /\ (Late(u) => want'[u] = want[u])
        /\ \A m \in Mutexes : ~Passing(m)
    BY <2>1, <2>2 DEF Late, Passing
  <2> QED
    BY <2>1, <2>3, EarnSame
<1>4. ASSUME NEW t \in Threads, NEW m \in Mutexes, TakeAgain(t, m) \/ ReleaseOnce(t, m)
      PROVE  EarnInv'
  <2>1. /\ pc[t] = "run" /\ error' \in {error, [error EXCEPT ![t] = "ok"]} /\ walk = None
        /\ UNCHANGED <<owner, mprio, waiters, prio, pc, want, walk>>
    BY <1>4 DEF TakeAgain, ReleaseOnce, MayTake, MayRelease, Runs, threadVars
  <2>2. \A u \in Threads : u # t => error'[u] = error[u]
    BY <1>1, <2>1 DEF TypeOK
  <2>3. /\ \A u \in Threads : (Late(u)' <=> Late(u)) /\ want'[u] = want[u]
        /\ \A n \in Mutexes : ~Passing(n)
    BY <2>1, <2>2 DEF Late, Passing
  <2> QED
    BY <2>1, <2>3, EarnSame
<1> QED
  BY <1>2, <1>3, <1>4

\* A thread that keeps its priority, its mutexes and theirs earns what it did.
LEMMA OwedKept ==
  ASSUME OwedInv, NEW u \in Threads, prio'[u] = prio[u], Taken(u)' = Taken(u),
         \A m \in Taken(u) : mprio'[m] = mprio[m]
  PROVE  Earns(prio[u], u, Taken(u), mprio)'
<1>1. Earns(prio[u], u, Taken(u), mprio)
  BY DEF OwedInv
<1> QED
  BY <1>1 DEF Earns

\* A mutex nobody owned has nobody that waits.
LEMMA EarnTakeFree ==
  ASSUME IInv, EarnInv, NEW t \in Threads, NEW m \in Mutexes, TakeFree(t, m)
  PROVE  EarnInv'
<1>1. /\ pc[t] = "run" /\ walk = None /\ owner[m] = None
      /\ error' = [error EXCEPT ![t] = "ok"] /\ owner' = [owner EXCEPT ![m] = t]
      /\ mprio' = [mprio EXCEPT ![m] = NoPrio]
      /\ UNCHANGED <<waiters, prio, pc, want, pend, walk>>
  BY DEF TakeFree, MayTake, Runs
<1>2. TypeOK /\ ListInv /\ LateInv /\ StaleInv /\ OwedInv
  BY DEF IInv, EarnInv
<1>3. /\ \A n \in Mutexes : owner'[n] = IF n = m THEN t ELSE owner[n]
      /\ \A n \in Mutexes : mprio'[n] = IF n = m THEN NoPrio ELSE mprio[n]
      /\ \A u \in Threads : error'[u] = IF u = t THEN "ok" ELSE error[u]
      /\ None \notin Threads
  BY <1>1, <1>2, MutexAssumption DEF TypeOK
<1>4. \A u \in Threads : (Late(u)' <=> Late(u)) /\ (Late(u) => u # t)
  BY <1>1, <1>3 DEF Late
<1>5. /\ \A u \in Threads : u # t => Taken(u)' = Taken(u) /\ m \notin Taken(u)
      /\ Taken(t)' = Taken(t) \cup {m} /\ m \notin Taken(t)
  BY <1>1, <1>3 DEF Taken
<1>6. LateInv'
  BY <1>2, <1>4, <1>5 DEF LateInv
<1>7. StaleInv'
  <2> SUFFICES ASSUME NEW n \in Mutexes
               PROVE  \/ mprio'[n] = HeadIn(waiters[n], prio)
                      \/ \E u \in Threads : /\ Late(u)' /\ want[u] = n
                           /\ mprio'[n] = prio[u] /\ prio[u] <= HeadIn(waiters[n], prio)
    BY <1>1 DEF StaleInv
  <2>1. CASE n = m
    <3>1. Elems(waiters[m]) = {} /\ waiters[m] \in Seq(Threads)
      BY <1>1, <1>2 DEF ListInv, TypeOK
    <3>2. waiters[m] = <<>>
      BY <3>1, HeadTailList
    <3> QED
      BY <2>1, <3>2, <1>3 DEF HeadIn
  <2>2. CASE n # m
    <3>1. ~Passing(n)
      BY <1>1 DEF Passing
    <3> QED
      BY <2>2, <3>1, <1>2, <1>3, <1>4 DEF StaleInv
  <2> QED
    BY <2>1, <2>2
<1>8. OwedInv'
  <2>1. ASSUME NEW u \in Threads, u # t PROVE Earns(prio[u], u, Taken(u), mprio)'
    <3>1. \A n \in Taken(u) : mprio'[n] = mprio[n]
      BY <2>1, <1>3, <1>5 DEF Taken
    <3> QED
      BY <2>1, <3>1, <1>1, <1>2, <1>5, OwedKept
  <2>2. Earns(prio[t], t, Taken(t), mprio)'
    <3>1. Earns(prio[t], t, Taken(t), mprio)
      BY <1>2 DEF OwedInv
    <3>2. \A n \in Taken(t) : n # m /\ mprio'[n] = mprio[n]
      BY <1>3, <1>5 DEF Taken
    <3>3. mprio'[m] = NoPrio /\ prio'[t] = prio[t] /\ prio[t] <= NoPrio
      BY <1>1, <1>2, <1>3, Priorities
    <3> QED
      BY <1>5, <3>1, <3>2, <3>3 DEF Earns
  <2> QED
    BY <2>1, <2>2 DEF OwedInv
<1> QED
  BY <1>6, <1>7, <1>8 DEF EarnInv

\* What a release leaves its thread is what it earns by its other mutexes.
LEMMA LoweredEarns ==
  ASSUME IInv, OwedInv, NEW t \in Threads, NEW m \in Mutexes, owner[m] = t
  PROVE  Earns(Lowered(t, m)[t], t, Taken(t) \ {m}, mprio)
<1>1. prio \in [Threads -> 0 .. NoPrio - 1] /\ mprio \in [Mutexes -> 0 .. NoPrio]
  BY DEF IInv, TypeOK
<1>2. CASE prio[t] = mprio[m]
  <2>1. Lowered(t, m)[t] = Inherited(t, Taken(t) \ {m}, mprio)
    BY <1>1, <1>2 DEF Lowered
  <2>2. Taken(t) \ {m} \in SUBSET Mutexes
    BY DEF Taken
  <2>3. Earns(Inherited(t, Taken(t) \ {m}, mprio), t, Taken(t) \ {m}, mprio)
    BY <1>1, <2>2, InheritedIsEarned, Zenon
  <2> QED
    BY <2>1, <2>3, Zenon
<1>3. CASE prio[t] # mprio[m]
  <2>1. Lowered(t, m)[t] = prio[t]
    BY <1>3 DEF Lowered
  <2>2. Earns(prio[t], t, Taken(t), mprio)
    BY DEF OwedInv
  <2> QED
    BY <1>3, <2>1, <2>2, Zenon DEF Earns
<1> QED
  BY <1>2, <1>3

\* The last release with nobody waiting.
LEMMA EarnReleaseFree ==
  ASSUME IInv, EarnInv, NEW t \in Threads, NEW m \in Mutexes, ReleaseFree(t, m)
  PROVE  EarnInv'
<1>1. /\ pc[t] = "run" /\ walk = None /\ owner[m] = t /\ waiters[m] = <<>>
      /\ prio' = Lowered(t, m)
      /\ owner' = [owner EXCEPT ![m] = None]
      /\ mprio' = [mprio EXCEPT ![m] = NoPrio]
      /\ UNCHANGED <<waiters, pc, want, pend, error, walk>>
  BY DEF ReleaseFree, MayRelease, Runs, threadVars
<1>2. TypeOK /\ ListInv /\ LateInv /\ StaleInv /\ OwedInv
  BY DEF IInv, EarnInv
<1>3. /\ \A n \in Mutexes : owner'[n] = IF n = m THEN None ELSE owner[n]
      /\ \A n \in Mutexes : mprio'[n] = IF n = m THEN NoPrio ELSE mprio[n]
      /\ \A u \in Threads : u # t => prio'[u] = prio[u]
      /\ None \notin Threads
  BY <1>1, <1>2, LoweredProperties, MutexAssumption DEF TypeOK
<1>4. \A u \in Threads : (Late(u)' <=> Late(u)) /\ (Late(u) => u # t)
  BY <1>1 DEF Late
<1>5. /\ \A u \in Threads : u # t => Taken(u)' = Taken(u) /\ m \notin Taken(u)
      /\ Taken(t)' = Taken(t) \ {m}
  BY <1>1, <1>3 DEF Taken
<1>6. LateInv'
  BY <1>2, <1>4, <1>5 DEF LateInv
<1>7. StaleInv'
  <2> SUFFICES ASSUME NEW n \in Mutexes
               PROVE  \/ mprio'[n] = HeadIn(waiters'[n], prio')
                      \/ \E u \in Threads : /\ Late(u)' /\ want[u] = n
                           /\ mprio'[n] = prio'[u] /\ prio'[u] <= HeadIn(waiters'[n], prio')
    BY <1>1 DEF StaleInv
  <2>1. CASE n = m
    BY <2>1, <1>1, <1>3 DEF HeadIn
  <2>2. CASE n # m
    <3>1. ~Passing(n)
      BY <1>1 DEF Passing
    <3>2. t \notin Elems(waiters[n])
      BY <1>1, <1>2 DEF ListInv
    <3>3. HeadIn(waiters'[n], prio') = HeadIn(waiters[n], prio)
      BY <3>2, <1>1, <1>2, <1>3, StaleKept
    <3>4. \/ mprio[n] = HeadIn(waiters[n], prio)
          \/ \E u \in Threads : /\ Late(u) /\ want[u] = n
                /\ mprio[n] = prio[u] /\ prio[u] <= HeadIn(waiters[n], prio)
      BY <3>1, <1>2 DEF StaleInv
    <3> QED
      BY <2>2, <3>3, <3>4, <1>3, <1>4
  <2> QED
    BY <2>1, <2>2
<1>8. OwedInv'
  <2>1. ASSUME NEW u \in Threads, u # t PROVE Earns(prio[u], u, Taken(u), mprio)'
    <3>1. \A n \in Taken(u) : mprio'[n] = mprio[n]
      BY <2>1, <1>3, <1>5 DEF Taken
    <3> QED
      BY <2>1, <3>1, <1>2, <1>3, <1>5, OwedKept
  <2>2. Earns(prio[t], t, Taken(t), mprio)'
    <3>1. Earns(prio'[t], t, Taken(t) \ {m}, mprio)
      BY <1>1, <1>2, LoweredEarns
    <3>2. \A n \in Taken(t) \ {m} : mprio'[n] = mprio[n]
      BY <1>3 DEF Taken
    <3> QED
      BY <1>5, <3>1, <3>2 DEF Earns
  <2> QED
    BY <2>1, <2>2 DEF OwedInv
<1> QED
  BY <1>6, <1>7, <1>8 DEF EarnInv

\* The first of the list is the owner: what it earns already is no less urgent than
\* those behind it.
LEMMA EarnHandOver ==
  ASSUME IInv, EarnInv, NEW t \in Threads, NEW m \in Mutexes, HandOver(t, m)
  PROVE  EarnInv'
<1> DEFINE q == waiters[m]
<1>0. PICK n \in Threads : n = Head(q)
  BY HeadTailList DEF HandOver, IInv, TypeOK
<1>1. /\ pc[t] = "run" /\ walk = None /\ owner[m] = t /\ q # <<>>
      /\ prio' = Lowered(t, m)
      /\ waiters' = [waiters EXCEPT ![m] = Tail(q)] /\ owner' = [owner EXCEPT ![m] = n]
      /\ pc' = [pc EXCEPT ![n] = "woken"]
      /\ mprio' = [mprio EXCEPT ![m] = HeadPrio(Tail(q))]
      /\ UNCHANGED <<want, error, walk>>
  BY <1>0 DEF HandOver, MayRelease, Runs
<1>2. TypeOK /\ ListInv /\ LateInv /\ StaleInv /\ OwedInv
  BY DEF IInv, EarnInv
<1>3. q \in Seq(Threads) /\ Distinct(q) /\ Sorted(q, prio) /\ None \notin Threads
  BY <1>1, <1>2, AtRest, MutexAssumption DEF TypeOK, ListInv
<1>4. /\ n \in Elems(q) /\ n \in Threads /\ Tail(q) \in Seq(Threads)
      /\ Elems(Tail(q)) \subseteq Elems(q) /\ Sorted(Tail(q), prio)
      /\ \A x \in Elems(Tail(q)) : prio[n] <= prio[x]
  BY <1>0, <1>1, <1>3, HeadTailList
<1>5. pc[n] = "wait" /\ error[n] = "ok" /\ n # t
  BY <1>1, <1>2, <1>4, InOneList
<1>6. prio[n] \in Nat /\ prio[n] < NoPrio
  BY <1>2, <1>4, Priorities
<1> DEFINE p == HeadIn(Tail(q), prio)
<1>7. prio[n] <= p /\ p = HeadPrio(Tail(q))
  BY <1>2, <1>4, <1>6, HeadInProperties DEF HeadIn, HeadPrio
<1> HIDE DEF p
<1>8. /\ \A r \in Mutexes : waiters'[r] = IF r = m THEN Tail(q) ELSE waiters[r]
      /\ \A r \in Mutexes : mprio'[r] = IF r = m THEN p ELSE mprio[r]
      /\ \A r \in Mutexes : owner'[r] = IF r = m THEN n ELSE owner[r]
      /\ \A u \in Threads : pc'[u] = IF u = n THEN "woken" ELSE pc[u]
      /\ \A u \in Threads : u # t => prio'[u] = prio[u]
  BY <1>1, <1>2, <1>7, LoweredProperties DEF TypeOK
<1>9. \A r \in Mutexes : t \notin Elems(waiters[r]) /\ \A x \in Elems(waiters[r]) : x \in Threads
  BY <1>1, <1>2 DEF ListInv
<1> HIDE DEF q
<1>10. \A u \in Threads : (Late(u)' <=> Late(u)) /\ (Late(u) => u # t /\ u # n)
  BY <1>1, <1>5, <1>8 DEF Late
<1>11. /\ \A u \in Threads : u # t /\ u # n => Taken(u)' = Taken(u) /\ m \notin Taken(u)
       /\ Taken(t)' = Taken(t) \ {m} /\ Taken(n)' = Taken(n) \cup {m} /\ m \notin Taken(n)
  BY <1>1, <1>5, <1>8 DEF Taken
<1>12. LateInv'
  BY <1>2, <1>10, <1>11 DEF LateInv
<1>13. StaleInv'
  <2> SUFFICES ASSUME NEW r \in Mutexes
               PROVE  \/ mprio'[r] = HeadIn(waiters'[r], prio')
                      \/ \E u \in Threads : /\ Late(u)' /\ want[u] = r
                           /\ mprio'[r] = prio'[u] /\ prio'[u] <= HeadIn(waiters'[r], prio')
    BY <1>1 DEF StaleInv
  <2>1. CASE r = m
    <3>1. \A x \in Elems(Tail(q)) : x \in Elems(q) /\ x # t /\ x \in Threads
      BY <1>4, <1>9 DEF q
    <3>2. \A x \in Elems(Tail(q)) : prio'[x] = prio[x]
      BY <3>1, <1>8
    <3>3. HeadIn(Tail(q), prio') = HeadIn(Tail(q), prio)
      BY <3>2, <1>4, HeadInKept, Zenon
    <3> QED
      BY <2>1, <3>3, <1>8 DEF p
  <2>2. CASE r # m
    <3>1. ~Passing(r)
      BY <1>1 DEF Passing
    <3>2. HeadIn(waiters'[r], prio') = HeadIn(waiters[r], prio)
      BY <2>2, <1>2, <1>8, <1>9, StaleKept
    <3>3. \/ mprio[r] = HeadIn(waiters[r], prio)
          \/ \E u \in Threads : /\ Late(u) /\ want[u] = r
                /\ mprio[r] = prio[u] /\ prio[u] <= HeadIn(waiters[r], prio)
      BY <3>1, <1>2 DEF StaleInv
    <3> QED
      BY <2>2, <3>2, <3>3, <1>8, <1>10
  <2> QED
    BY <2>1, <2>2
<1>14. OwedInv'
  <2>1. ASSUME NEW u \in Threads, u # t, u # n PROVE Earns(prio[u], u, Taken(u), mprio)'
    <3>1. \A r \in Taken(u) : mprio'[r] = mprio[r]
      BY <2>1, <1>8, <1>11 DEF Taken
    <3> QED
      BY <2>1, <3>1, <1>2, <1>8, <1>11, OwedKept
  <2>2. Earns(prio[t], t, Taken(t), mprio)'
    <3>1. Earns(prio'[t], t, Taken(t) \ {m}, mprio)
      BY <1>1, <1>2, LoweredEarns
    <3>2. \A r \in Taken(t) \ {m} : mprio'[r] = mprio[r]
      BY <1>8 DEF Taken
    <3> QED
      BY <1>11, <3>1, <3>2 DEF Earns
  <2>3. Earns(prio[n], n, Taken(n), mprio)'
    <3>1. Earns(prio[n], n, Taken(n), mprio)
      BY <1>2, <1>4 DEF OwedInv
    <3>2. \A r \in Taken(n) : mprio'[r] = mprio[r]
      BY <1>8, <1>11 DEF Taken
    <3>3. prio'[n] = prio[n] /\ prio[n] <= mprio'[m]
      BY <1>4, <1>5, <1>7, <1>8
    <3> QED
      BY <1>11, <3>1, <3>2, <3>3 DEF Earns
  <2> QED
    BY <2>1, <2>2, <2>3 DEF OwedInv
<1> QED
  BY <1>12, <1>13, <1>14 DEF EarnInv

\* Whoever is first of a list with one thread more has the more urgent of its and
\* that thread's priorities.
LEMMA HeadInserted ==
  ASSUME TypeOK, NEW q \in Seq(Threads), NEW r \in Seq(Threads), NEW t \in Threads,
         Sorted(q, prio), Sorted(r, prio), Elems(r) = Elems(q) \cup {t}
  PROVE  HeadIn(r, prio) = IF prio[t] < HeadIn(q, prio) THEN prio[t] ELSE HeadIn(q, prio)
<1> DEFINE h == HeadIn(q, prio)
           k == HeadIn(r, prio)
<1>1. /\ h \in Nat /\ \A x \in Elems(q) : h <= prio[x]
      /\ \A p \in Nat : p < NoPrio /\ (\A x \in Elems(q) : p <= prio[x]) => p <= h
  BY HeadInProperties, Zenon
<1>2. /\ k \in Nat /\ \A x \in Elems(r) : k <= prio[x]
      /\ \A p \in Nat : p < NoPrio /\ (\A x \in Elems(r) : p <= prio[x]) => p <= k
  BY HeadInProperties, Zenon
<1>3. prio[t] \in Nat /\ prio[t] < NoPrio
  BY Priorities
<1> HIDE DEF h, k
<1>4. k <= prio[t] /\ \A x \in Elems(q) : k <= prio[x]
  BY <1>2
<1>5. k < NoPrio /\ NoPrio \in Nat
  BY <1>2, <1>3, <1>4 DEF NoPrio
<1>6. k <= h
  BY <1>1, <1>2, <1>4, <1>5
<1>7. CASE prio[t] < h
  <2>1. \A x \in Elems(q) : prio[x] \in Nat
    <3>1. Elems(q) \subseteq Threads
      BY DEF Elems
    <3> QED
      BY <3>1, Priorities
  <2>2. \A x \in Elems(r) : prio[t] <= prio[x]
    BY <1>1, <1>3, <1>7, <2>1
  <2>3. prio[t] <= k
    BY <1>2, <1>3, <2>2
  <2> QED
    BY <1>2, <1>3, <1>4, <1>7, <2>3 DEF h, k
<1>8. CASE ~(prio[t] < h)
  <2>1. h < NoPrio /\ h <= prio[t]
    BY <1>1, <1>3, <1>5, <1>8
  <2>2. \A x \in Elems(r) : h <= prio[x]
    BY <1>1, <2>1
  <2>3. h <= k
    BY <1>1, <1>2, <2>1, <2>2
  <2> QED
    BY <1>1, <1>2, <1>6, <1>8, <2>3 DEF h, k
<1> QED
  BY <1>7, <1>8

\* Whoever begins to wait.
LEMMA EarnTakeWait ==
  ASSUME IInv, EarnInv, NEW t \in Threads, NEW m \in Mutexes, TakeWait(t, m)
  PROVE  EarnInv'
<1>0. PICK o \in Threads : o = owner[m]
  BY DEF TakeWait, IInv, TypeOK
<1>1. /\ pc[t] = "run" /\ walk = None /\ o # t
      /\ error' = [error EXCEPT ![t] = "ok"]
      /\ pc' = [pc EXCEPT ![t] = "wait"] /\ want' = [want EXCEPT ![t] = m]
      /\ pend' = [pend EXCEPT ![t] = m]
      /\ mprio' = [mprio EXCEPT ![m] = IF prio[t] < mprio[m] THEN prio[t] ELSE mprio[m]]
      /\ IF Raises(t, m) THEN Update(o, prio[t]) ELSE UNCHANGED <<prio, walk>>
      /\ UNCHANGED owner
  BY <1>0 DEF TakeWait, MayTake, Runs
<1>2. PICK k \in Places(waiters[m], t) :
        waiters' = [waiters EXCEPT ![m] = InsertAt(waiters[m], k, t)]
  BY DEF TakeWait
<1> DEFINE q == waiters[m]
           list == InsertAt(q, k, t)
<1>3. TypeOK /\ ListInv /\ LateInv /\ StaleInv /\ OwedInv
  BY DEF IInv, EarnInv
<1>4. /\ list \in Seq(Threads) /\ Elems(list) = Elems(q) \cup {t}
      /\ Sorted(list, prio) /\ q \in Seq(Threads) /\ Sorted(q, prio)
  <2>1. q \in Seq(Threads) /\ k \in 1 .. Len(q) + 1 /\ prio \in [Threads -> Nat]
    BY <1>3, Priorities DEF TypeOK, Places
  <2>2. Sorted(q, prio)
    BY <1>1, AtRest
  <2>3. list \in Seq(Threads) /\ Elems(list) = Elems(q) \cup {t}
    <3>1. q \in Seq(Threads) /\ t \in Threads /\ k \in 1 .. Len(q) + 1
      BY <2>1
    <3> HIDE DEF q
    <3> QED
      BY <3>1, InsertedElems
  <2>4. Sorted(list, prio)
    BY <2>1, <2>2, InsertedSorted
  <2> HIDE DEF q, list
  <2> QED
    BY <2>1, <2>2, <2>3, <2>4
<1>5. /\ \A u \in Threads : prio[u] \in Nat /\ prio[u] < NoPrio
      /\ \A n \in Mutexes : mprio[n] \in Nat
  BY <1>3, Priorities
<1>6. HeadIn(list, prio) = IF prio[t] < HeadIn(q, prio) THEN prio[t] ELSE HeadIn(q, prio)
  BY <1>3, <1>4, HeadInserted
<1>7. HeadIn(q, prio) \in Nat
  BY <1>3, <1>4, HeadInProperties
<1> HIDE DEF list
<1>8. /\ \A n \in Mutexes : waiters'[n] = IF n = m THEN list ELSE waiters[n]
      /\ \A n \in Mutexes : n # m => mprio'[n] = mprio[n]
      /\ mprio'[m] = IF prio[t] < mprio[m] THEN prio[t] ELSE mprio[m]
      /\ \A u \in Threads : u # t =>
           pc'[u] = pc[u] /\ want'[u] = want[u] /\ pend'[u] = pend[u] /\ error'[u] = error[u]
      /\ pc'[t] = "wait"
  BY <1>1, <1>2, <1>3 DEF TypeOK, list
<1>9. /\ \A u \in Threads : u # o => prio'[u] = prio[u]
      /\ \/ prio'[o] = prio[o] /\ walk' = None /\ ~Raises(t, m)
         \/ prio'[o] = prio[t] /\ walk' = o /\ Raises(t, m)
  <2>1. CASE Raises(t, m)
    BY <2>1, <1>1, <1>3 DEF Update, TypeOK
  <2>2. CASE ~Raises(t, m)
    BY <2>2, <1>1
  <2> QED
    BY <2>1, <2>2
<1>10. /\ \A n \in Mutexes : \A x \in Elems(waiters[n]) :
            x \in Threads /\ x # t /\ pc[x] = "wait" /\ pend[x] = n /\ x # owner[n]
       /\ o # None
  BY <1>1, <1>3, MutexAssumption DEF ListInv
<1> HIDE DEF q
<1>11. \A u \in Threads : (Late(u)' <=> Late(u)) /\ (Late(u) => u # t /\ u # o)
  <2>1. \A u \in Threads : Late(u) => u # o
    BY <1>0, <1>3 DEF LateInv, Taken
  <2> QED
    BY <2>1, <1>1, <1>8 DEF Late
<1>12. \A u \in Threads : Taken(u)' = Taken(u)
  BY <1>1 DEF Taken
<1>13. LateInv'
  BY <1>3, <1>11, <1>12 DEF LateInv
<1>14. StaleInv'
  <2> SUFFICES ASSUME NEW n \in Mutexes, ~Passing(n)'
               PROVE  \/ mprio'[n] = HeadIn(waiters'[n], prio')
                      \/ \E u \in Threads : /\ Late(u)' /\ want'[u] = n
                           /\ mprio'[n] = prio'[u] /\ prio'[u] <= HeadIn(waiters'[n], prio')
    BY DEF StaleInv
  <2>1. ~Passing(n)
    BY <1>1 DEF Passing
  <2>2. \/ mprio[n] = HeadIn(waiters[n], prio)
        \/ \E u \in Threads : /\ Late(u) /\ want[u] = n
              /\ mprio[n] = prio[u] /\ prio[u] <= HeadIn(waiters[n], prio)
    BY <2>1, <1>3 DEF StaleInv
  <2>3. CASE n = m
    <3>1. \A x \in Elems(list) : x \in Threads /\ x # o
      BY <1>0, <1>1, <1>4, <1>10 DEF q
    <3>2. \A x \in Elems(list) : prio'[x] = prio[x]
      BY <3>1, <1>9
    <3>3. HeadIn(list, prio') = HeadIn(list, prio)
      BY <3>2, <1>4, HeadInKept, Zenon
    <3>4. CASE mprio[m] = HeadIn(q, prio)
      BY <2>3, <3>3, <3>4, <1>6, <1>8
    <3>5. ASSUME NEW u \in Threads, Late(u), want[u] = m, mprio[m] = prio[u],
                 prio[u] <= HeadIn(q, prio)
          PROVE  \/ mprio'[m] = HeadIn(list, prio)
                 \/ mprio'[m] = prio[u] /\ prio[u] <= HeadIn(list, prio)
      BY <3>5, <1>5, <1>6, <1>7, <1>8
    <3> QED
      BY <2>2, <2>3, <3>3, <3>4, <3>5, <1>8, <1>9, <1>11 DEF q
  <2>4. CASE n # m
    <3>1. o \in Elems(waiters[n]) => prio'[o] = prio[o]
      <4> SUFFICES ASSUME o \in Elems(waiters[n]), walk' = o PROVE FALSE
        BY <1>9
      <4>1. pc'[o] = "wait" /\ pend'[o] = n /\ o # None
        BY <1>1, <1>8, <1>10
      <4> QED
        BY <4>1 DEF Passing
    <3>2. HeadIn(waiters'[n], prio') = HeadIn(waiters[n], prio)
      <4>1. waiters'[n] = waiters[n] /\ \A u \in Threads \ {o} : prio'[u] = prio[u]
        BY <2>4, <1>8, <1>9
      <4> QED
        BY <3>1, <4>1, <1>3, StaleKept
    <3> QED
      BY <2>2, <2>4, <3>2, <1>8, <1>9, <1>11
  <2> QED
    BY <2>3, <2>4
<1>15. OwedInv'
  <2>1. ASSUME NEW u \in Threads, u # o PROVE Earns(prio[u], u, Taken(u), mprio)'
    <3>1. \A n \in Taken(u) : mprio'[n] = mprio[n]
      BY <2>1, <1>0, <1>8 DEF Taken
    <3> QED
      BY <2>1, <3>1, <1>3, <1>9, <1>12, OwedKept
  <2>2. Earns(prio[o], o, Taken(o), mprio)'
    <3>1. Earns(prio[o], o, Taken(o), mprio) /\ InitPrio[o] \in Nat
      BY <1>3, MutexAssumption DEF OwedInv
    <3>2. m \in Taken(o) /\ \A n \in Taken(o) : n \in Mutexes /\ mprio[n] \in Nat
      BY <1>0, <1>5 DEF Taken
    <3>3. prio[o] \in Nat /\ prio[t] \in Nat /\ prio[o] <= mprio[m]
      BY <1>5, <3>1, <3>2 DEF Earns
    <3>4. CASE Raises(t, m)
      <4>1. prio[t] < mprio[m] /\ prio[t] < prio[o] /\ prio'[o] = prio[t]
        BY <3>4, <1>0, <1>9 DEF Raises
      <4>2. mprio'[m] = prio[t]
        BY <4>1, <1>8
      <4>3. \A n \in Taken(o) : prio[t] <= mprio'[n]
        BY <4>1, <4>2, <3>1, <3>2, <3>3, <1>8 DEF Earns
      <4>4. prio[t] <= InitPrio[o]
        BY <4>1, <3>1, <3>3 DEF Earns
      <4> QED
        BY <4>1, <4>2, <4>3, <4>4, <3>2, <1>12 DEF Earns
    <3>5. CASE ~Raises(t, m)
      <4>1. prio'[o] = prio[o] /\ (prio[t] < mprio[m] => prio[o] <= prio[t])
        BY <3>3, <3>5, <1>0, <1>9 DEF Raises
      <4>2. CASE prio[t] < mprio[m]
        <5>1. mprio'[m] = prio[t] /\ prio[o] <= prio[t]
          BY <4>1, <4>2, <1>8
        <5>2. \A n \in Taken(o) : prio[o] <= mprio'[n]
          BY <5>1, <3>1, <3>2, <1>8 DEF Earns
        <5>3. ASSUME NEW n \in Taken(o), prio[o] = mprio[n] PROVE mprio'[n] = prio[o]
          BY <5>1, <5>3, <4>2, <3>2, <3>3, <1>8
        <5> QED
          BY <4>1, <5>2, <5>3, <3>1, <1>12 DEF Earns
      <4>3. CASE ~(prio[t] < mprio[m])
        <5>1. \A n \in Taken(o) : mprio'[n] = mprio[n]
          BY <4>3, <3>2, <1>8
        <5> QED
          BY <4>1, <5>1, <1>3, <1>12, OwedKept
      <4> QED
        BY <4>2, <4>3
    <3> QED
      BY <3>4, <3>5
  <2> QED
    BY <2>1, <2>2 DEF OwedInv
<1> QED
  BY <1>13, <1>14, <1>15 DEF EarnInv

\* Once the owner's priority was looked up anew, every thread has what it earns.
LEMMA EarnUpdated ==
  ASSUME TypeOK, OwedInv, NEW m \in Mutexes, NEW o \in Threads, owner[m] = o, owner' = owner,
         mprio' \in [Mutexes -> 0 .. NoPrio], \A n \in Mutexes : n # m => mprio'[n] = mprio[n],
         UpdateIfChanged(o, Inherited(o, Taken(o), mprio'))
  PROVE  /\ OwedInv'
         /\ \A u \in Threads : u # o => prio'[u] = prio[u]
         /\ prio'[o] = prio[o] \/ walk' = o
<1> DEFINE i == Inherited(o, Taken(o), mprio')
<1>1. Taken(o) \in SUBSET Mutexes /\ \A u \in Threads : Taken(u)' = Taken(u)
  BY DEF Taken
<1>2. Earns(i, o, Taken(o), mprio')
  BY <1>1, InheritedIsEarned
<1> HIDE DEF i
<1>3. /\ prio'[o] = i /\ \A u \in Threads : u # o => prio'[u] = prio[u]
      /\ prio'[o] = prio[o] \/ walk' = o
  <2>1. UpdateIfChanged(o, i) /\ prio \in [Threads -> 0 .. NoPrio - 1]
    BY DEF i, TypeOK
  <2> QED
    BY <2>1 DEF UpdateIfChanged, Update
<1>4. ASSUME NEW u \in Threads PROVE Earns(prio[u], u, Taken(u), mprio)'
  <2>1. CASE u = o
    BY <2>1, <1>1, <1>2, <1>3 DEF Earns
  <2>2. CASE u # o
    <3>1. \A n \in Taken(u) : mprio'[n] = mprio[n]
      BY <2>2 DEF Taken
    <3> QED
      BY <2>2, <3>1, <1>1, <1>3, OwedKept
  <2> QED
    BY <2>1, <2>2
<1> QED
  BY <1>3, <1>4 DEF OwedInv

\* A list that somebody else is first of keeps its first.
LEMMA HeadRemoved ==
  ASSUME TypeOK, NEW q \in Seq(Threads), NEW t \in Elems(q), Distinct(q), Sorted(q, prio)
  PROVE  LET h == HeadIn(Removed(q, t), prio)
         IN /\ HeadIn(q, prio) = h \/ (HeadIn(q, prio) = prio[t] /\ prio[t] <= h)
<1> DEFINE r == Removed(q, t)
<1>1. r \in Seq(Threads) /\ Elems(r) = Elems(q) \ {t} /\ Sorted(r, prio)
  <2>1. SortedBut(q, t, prio)
    BY SortedAfter
  <2> QED
    BY <2>1, RemovedList, Zenon
<1>2. t \in Threads /\ Elems(q) = Elems(r) \cup {t}
  <2>1. t \in Threads
    BY DEF Elems
  <2> QED
    BY <2>1, <1>1
<1> HIDE DEF r
<1>3. HeadIn(q, prio) = IF prio[t] < HeadIn(r, prio) THEN prio[t] ELSE HeadIn(r, prio)
  BY <1>1, <1>2, HeadInserted
<1>4. prio[t] \in Nat /\ HeadIn(r, prio) \in Nat
  BY <1>1, <1>2, Priorities, HeadInProperties
<1>5. HeadIn(q, prio) = HeadIn(r, prio) \/ (HeadIn(q, prio) = prio[t] /\ prio[t] <= HeadIn(r, prio))
  BY <1>3, <1>4
<1> QED
  BY <1>5 DEF r

\* A timeout: what the thread lent is still there, until it cleans up.
LEMMA EarnTimeout ==
  ASSUME IInv, EarnInv, OneLate', ~NestedTimed,
         NEW t \in Threads, Timeout(t)
  PROVE  EarnInv'
<1>0. PICK m \in Mutexes : m = pend[t]
  BY DEF Timeout, IInv, ListInv
<1>1. /\ walk = None /\ walk' = None /\ pc[t] = "wait" /\ t \in Timed /\ Taken(t) = {}
      /\ waiters' = [waiters EXCEPT ![m] = Removed(waiters[m], t)]
      /\ error' = [error EXCEPT ![t] = "timeout"]
      /\ pc' = [pc EXCEPT ![t] = "woken"]
      /\ UNCHANGED <<owner, mprio, prio, want>>
  BY <1>0 DEF Timeout, Unlisted, TimeoutError
<1>2. TypeOK /\ ListInv /\ LateInv /\ StaleInv /\ OwedInv
  BY DEF IInv, EarnInv
<1>3. /\ t \in Elems(waiters[m]) /\ want[t] = m /\ waiters[m] \in Seq(Threads)
      /\ Distinct(waiters[m]) /\ Sorted(waiters[m], prio)
  BY <1>0, <1>1, <1>2, AtRest DEF ListInv, TypeOK
<1>4. Late(t)' /\ \A u \in Threads : u # t => (Late(u)' <=> Late(u))
  BY <1>1, <1>2 DEF Late, TypeOK
<1>5. \A u \in Threads : ~Late(u) /\ (Late(u)' => u = t)
  BY <1>1, <1>4 DEF OneLate, Late
<1>6. LateInv'
  BY <1>1, <1>5 DEF LateInv, Taken
<1>7. StaleInv'
  <2> SUFFICES ASSUME NEW n \in Mutexes
               PROVE  \/ mprio[n] = HeadIn(waiters'[n], prio)
                      \/ /\ want[t] = n
                         /\ mprio[n] = prio[t] /\ prio[t] <= HeadIn(waiters'[n], prio)
    BY <1>1, <1>4 DEF StaleInv
  <2>1. mprio[n] = HeadIn(waiters[n], prio)
    BY <1>1, <1>2, <1>5 DEF StaleInv, Passing
  <2>2. CASE n = m
    <3>1. waiters'[n] = Removed(waiters[m], t)
      BY <2>2, <1>1, <1>2 DEF TypeOK
    <3> QED
      BY <2>1, <2>2, <3>1, <1>2, <1>3, HeadRemoved
  <2>3. CASE n # m
    <3>1. waiters'[n] = waiters[n]
      BY <2>3, <1>1, <1>2 DEF TypeOK
    <3> QED
      BY <2>1, <3>1
  <2> QED
    BY <2>2, <2>3
<1>8. OwedInv'
  BY <1>1, <1>2 DEF OwedInv, Earns, Taken
<1> QED
  BY <1>6, <1>7, <1>8 DEF EarnInv

\* Its clean-up: whatever it lent was looked up anew, or was not needed.
LEMMA EarnTakeTimedOut ==
  ASSUME IInv, EarnInv, OneLate, NEW t \in Threads, TakeTimedOut(t)
  PROVE  EarnInv'
<1>1. TypeOK /\ ListInv /\ GrantInv /\ LateInv /\ StaleInv /\ OwedInv
  BY DEF IInv, EarnInv
<1>2. Late(t) /\ want[t] \in Mutexes
  BY <1>1 DEF TakeTimedOut, GrantInv, Late
<1>3. PICK m \in Mutexes : m = want[t]
  BY <1>2
<1>4. PICK o \in Threads \cup {None} : o = owner[m]
  BY <1>1 DEF TypeOK
<1>5. /\ walk = None /\ mprio' = [mprio EXCEPT ![m] = HeadPrio(waiters[m])]
      /\ IF o # None /\ prio[o] = prio[t]
         THEN UpdateIfChanged(o, Inherited(o, Taken(o), mprio'))
         ELSE UNCHANGED <<prio, walk>>
      /\ pc' = [pc EXCEPT ![t] = "run"] /\ want' = [want EXCEPT ![t] = None]
      /\ pend' = [pend EXCEPT ![t] = None]
      /\ UNCHANGED <<owner, waiters, error>>
  BY <1>3, <1>4 DEF TakeTimedOut, NeedUpdate, Runs
<1>6. \A u \in Threads : Late(u) <=> u = t
  BY <1>2 DEF OneLate
<1>7. \A u \in Threads : ~Late(u)'
  BY <1>1, <1>5, <1>6 DEF Late, TypeOK
<1>8. waiters[m] \in Seq(Threads) /\ Sorted(waiters[m], prio)
  BY <1>1, <1>5, AtRest DEF TypeOK
<1>9. /\ \A n \in Mutexes : mprio'[n] = IF n = m THEN HeadIn(waiters[m], prio) ELSE mprio[n]
      /\ mprio' \in [Mutexes -> 0 .. NoPrio]
  <2>1. HeadPrio(waiters[m]) = HeadIn(waiters[m], prio)
    BY DEF HeadPrio, HeadIn
  <2>2. HeadPrio(waiters[m]) \in 0 .. NoPrio
    BY <1>1, <1>8, HeadPrioProperties, Zenon DEF TypeOK
  <2>3. mprio \in [Mutexes -> 0 .. NoPrio]
    BY <1>1 DEF TypeOK
  <2> QED
    BY <2>1, <2>2, <2>3, <1>5
<1>10. \A u \in Threads : Taken(u)' = Taken(u)
  BY <1>5 DEF Taken
<1>11. /\ OwedInv'
       /\ \A u \in Threads : u # o => prio'[u] = prio[u]
       /\ o \in Threads => prio'[o] = prio[o] \/ walk' = o
  <2>1. CASE o # None /\ prio[o] = prio[t]
    <3>1. /\ TypeOK /\ OwedInv /\ o \in Threads /\ owner[m] = o /\ owner' = owner
          /\ mprio' \in [Mutexes -> 0 .. NoPrio]
          /\ \A n \in Mutexes : n # m => mprio'[n] = mprio[n]
          /\ UpdateIfChanged(o, Inherited(o, Taken(o), mprio'))
      BY <2>1, <1>1, <1>4, <1>5, <1>9
    <3> QED
      BY <3>1, EarnUpdated, Zenon
  <2>2. CASE ~(o # None /\ prio[o] = prio[t])
    <3>1. prio' = prio
      BY <2>2, <1>5
    <3>2. ASSUME NEW u \in Threads PROVE Earns(prio[u], u, Taken(u), mprio)'
      <4>1. CASE u # o
        <5>1. \A n \in Taken(u) : mprio'[n] = mprio[n]
          BY <4>1, <1>4, <1>9 DEF Taken
        <5> QED
          BY <5>1, <3>1, <1>1, <1>10, OwedKept
      <4>2. CASE u = o
        <5>1. /\ prio[u] # prio[t] /\ prio[u] \in Nat /\ prio[t] \in Nat
              /\ HeadIn(waiters[m], prio) \in Nat /\ m \in Taken(u)
          BY <2>2, <4>2, <1>1, <1>4, <1>8, Priorities, HeadInProperties, MutexAssumption DEF Taken
        <5>2. Earns(prio[u], u, Taken(u), mprio)
          BY <1>1 DEF OwedInv
        <5>3. \/ mprio[m] = HeadIn(waiters[m], prio)
              \/ mprio[m] = prio[t] /\ prio[t] <= HeadIn(waiters[m], prio)
          BY <1>1, <1>5, <1>6 DEF StaleInv, Passing
        <5>4. prio[u] <= mprio'[m] /\ (prio[u] = mprio[m] => mprio'[m] = mprio[m])
          BY <5>1, <5>2, <5>3, <1>9 DEF Earns
        <5>5. \A n \in Taken(u) : n \in Mutexes /\ (n # m => mprio'[n] = mprio[n])
          BY <1>9 DEF Taken
        <5> QED
          BY <3>1, <5>2, <5>4, <5>5, <1>10 DEF Earns
      <4> QED
        BY <4>1, <4>2
    <3> QED
      BY <3>1, <3>2 DEF OwedInv
  <2> QED
    BY <2>1, <2>2
<1>12. LateInv'
  BY <1>7 DEF LateInv
<1>13. StaleInv'
  <2> SUFFICES ASSUME NEW n \in Mutexes, ~Passing(n)'
               PROVE  mprio'[n] = HeadIn(waiters'[n], prio')
    BY DEF StaleInv
  <2>1. mprio'[n] = HeadIn(waiters[n], prio)
    <3>1. CASE n = m
      BY <3>1, <1>9
    <3>2. CASE n # m
      BY <3>2, <1>1, <1>3, <1>5, <1>6, <1>9 DEF StaleInv, Passing
    <3> QED
      BY <3>1, <3>2
  <2>2. o \in Elems(waiters[n]) => prio'[o] = prio[o]
    <3> SUFFICES ASSUME o \in Elems(waiters[n]), walk' = o PROVE FALSE
      BY <1>1, <1>11 DEF ListInv
    <3>1. o \in Threads /\ pc[o] = "wait" /\ pend[o] = n /\ o # t /\ o # None
      BY <1>1, <1>2, MutexAssumption DEF ListInv, Late
    <3>2. pc'[o] = "wait" /\ pend'[o] = n
      BY <3>1, <1>1, <1>5 DEF TypeOK
    <3> QED
      BY <3>1, <3>2 DEF Passing
  <2>3. waiters'[n] = waiters[n] /\ \A u \in Threads \ {o} : prio'[u] = prio[u]
    BY <1>5, <1>11
  <2> QED
    BY <2>1, <2>2, <2>3, <1>1, StaleKept
<1> QED
  BY <1>11, <1>12, <1>13 DEF EarnInv

\* Passing a priority on: the thread's list and mutex follow, and the owner's turn is
\* next if its own changed.
LEMMA EarnWalkOn ==
  ASSUME IInv, EarnInv, WalkOn
  PROVE  EarnInv'
<1>1. TypeOK /\ ListInv /\ PrioInv /\ LateInv /\ StaleInv /\ OwedInv
  BY DEF IInv, EarnInv
<1>2. /\ walk # None /\ walk \in Threads /\ pc[walk] = "wait"
      /\ UNCHANGED <<owner, pc, want, pend, error>>
  BY <1>1 DEF WalkOn, TypeOK, threadVars
<1>3. PICK m \in Mutexes : m = pend[walk]
  BY <1>1, <1>2 DEF ListInv
<1>4. walk \in Elems(waiters[m]) /\ waiters[m] \in Seq(Threads) /\ Distinct(waiters[m])
  BY <1>1, <1>2, <1>3 DEF ListInv, TypeOK
<1>5. PICK o \in Threads : o = owner[m]
  BY <1>1, <1>4 DEF ListInv, TypeOK
<1>6. PICK rest : rest = Removed(waiters[m], walk)
  OBVIOUS
<1>7. /\ rest \in Seq(Threads) /\ Elems(rest) = Elems(waiters[m]) \ {walk} /\ Distinct(rest)
      /\ Sorted(rest, prio)
  BY <1>1, <1>4, <1>6, RemovedList DEF PrioInv
<1>8. PICK k \in Places(rest, walk) :
        LET list == InsertAt(rest, k, walk)
            P == [mprio EXCEPT ![m] = HeadPrio(list)]
        IN /\ waiters' = [waiters EXCEPT ![m] = list]
           /\ mprio' = P
           /\ UpdateIfChanged(o, Inherited(o, Taken(o), P))
  BY <1>3, <1>5, <1>6 DEF WalkOn
<1>9. PICK list : list = InsertAt(rest, k, walk)
  OBVIOUS
<1>10. /\ waiters' = [waiters EXCEPT ![m] = list]
       /\ mprio' = [mprio EXCEPT ![m] = HeadPrio(list)]
       /\ UpdateIfChanged(o, Inherited(o, Taken(o), mprio'))
  BY <1>8, <1>9
<1>11. /\ list \in Seq(Threads) /\ Elems(list) = Elems(waiters[m])
       /\ HeadPrio(list) \in 0 .. NoPrio
  <2>1. k \in 1 .. Len(rest) + 1
    BY DEF Places
  <2>2. list \in Seq(Threads) /\ Elems(list) = Elems(rest) \cup {walk}
    BY <1>2, <1>7, <1>9, <2>1, InsertedElems
  <2>3. HeadPrio(list) \in 0 .. NoPrio
    BY <1>1, <2>2, HeadPrioProperties, Zenon DEF TypeOK
  <2> QED
    BY <1>4, <1>7, <2>2, <2>3
<1>12. /\ mprio' \in [Mutexes -> 0 .. NoPrio]
       /\ \A n \in Mutexes : mprio'[n] = IF n = m THEN HeadIn(list, prio) ELSE mprio[n]
       /\ \A n \in Mutexes : waiters'[n] = IF n = m THEN list ELSE waiters[n]
  <2>1. HeadPrio(list) = HeadIn(list, prio)
    BY DEF HeadPrio, HeadIn
  <2> QED
    BY <2>1, <1>1, <1>10, <1>11 DEF TypeOK
<1>13. /\ OwedInv'
       /\ \A u \in Threads : u # o => prio'[u] = prio[u]
       /\ prio'[o] = prio[o] \/ walk' = o
  <2>1. /\ TypeOK /\ OwedInv /\ owner[m] = o /\ owner' = owner
        /\ mprio' \in [Mutexes -> 0 .. NoPrio]
        /\ \A n \in Mutexes : n # m => mprio'[n] = mprio[n]
        /\ UpdateIfChanged(o, Inherited(o, Taken(o), mprio'))
    BY <1>1, <1>2, <1>5, <1>10, <1>12
  <2> QED
    BY <2>1, EarnUpdated, Zenon
<1>14. \A u \in Threads : (Late(u)' <=> Late(u)) /\ (Late(u) => u # o)
  <2>1. m \in Taken(o)
    BY <1>5 DEF Taken
  <2> QED
    BY <2>1, <1>1, <1>2 DEF Late, LateInv
<1>15. LateInv'
  BY <1>1, <1>2, <1>14 DEF LateInv, Taken
<1>16. StaleInv'
  <2> SUFFICES ASSUME NEW n \in Mutexes, ~Passing(n)'
               PROVE  \/ mprio'[n] = HeadIn(waiters'[n], prio')
                      \/ \E u \in Threads : /\ Late(u) /\ want[u] = n
                           /\ mprio'[n] = prio'[u] /\ prio'[u] <= HeadIn(waiters'[n], prio')
    BY <1>2, <1>14 DEF StaleInv
  <2>1. CASE n = m
    <3>1. \A x \in Elems(list) : prio'[x] = prio[x]
      <4>1. \A x \in Elems(waiters[m]) : x \in Threads /\ x # o
        BY <1>1, <1>5 DEF ListInv
      <4> QED
        BY <4>1, <1>11, <1>13
    <3>2. HeadIn(list, prio') = HeadIn(list, prio)
      BY <3>1, <1>11, HeadInKept, Zenon
    <3> QED
      BY <2>1, <3>2, <1>12
  <2>2. CASE n # m
    <3>1. ~Passing(n)
      BY <2>2, <1>3 DEF Passing
    <3>2. o \in Elems(waiters[n]) => prio'[o] = prio[o]
      <4> SUFFICES ASSUME o \in Elems(waiters[n]), walk' = o PROVE FALSE
        BY <1>13
      <4>1. pc[o] = "wait" /\ pend[o] = n /\ o # None
        BY <1>1, MutexAssumption DEF ListInv
      <4> QED
        BY <4>1, <1>2 DEF Passing
    <3>3. waiters'[n] = waiters[n] /\ mprio'[n] = mprio[n]
      BY <2>2, <1>12
    <3>4. HeadIn(waiters'[n], prio') = HeadIn(waiters[n], prio)
      BY <3>2, <3>3, <1>1, <1>13, StaleKept
    <3>5. \A u \in Threads : Late(u) => prio'[u] = prio[u]
      BY <1>13, <1>14
    <3> QED
      BY <3>1, <3>3, <3>4, <3>5, <1>1 DEF StaleInv
  <2> QED
    BY <2>1, <2>2
<1> QED
  BY <1>13, <1>15, <1>16 DEF EarnInv

LEMMA EarnInit == Init => EarnInv
<1> SUFFICES ASSUME Init PROVE EarnInv
  OBVIOUS
<1>1. \A t \in Threads : ~Late(t) /\ Taken(t) = {} /\ InitPrio[t] <= InitPrio[t]
  <2>1. \A t \in Threads : InitPrio[t] \in Nat /\ t # None
    BY MutexAssumption DEF NoPrio
  <2> QED
    BY <2>1 DEF Init, Late, Taken
<1> QED
  BY <1>1 DEF EarnInv, LateInv, StaleInv, OwedInv, Earns, HeadIn, Init

LEMMA EarnNext ==
  ASSUME IInv, EarnInv, OneLate, OneLate', ~NestedTimed, [Next]_vars
  PROVE  EarnInv'
<1>1. CASE WalkEnds
  BY <1>1, EarnQuiet
<1>2. CASE WalkOn
  BY <1>2, EarnWalkOn
<1>3. ASSUME NEW t \in Threads, NEW m \in Mutexes, TakeFree(t, m) \/ TakeAgain(t, m) \/ TakeWait(t, m)
      PROVE  EarnInv'
  BY <1>3, EarnTakeFree, EarnQuiet, EarnTakeWait
<1>4. ASSUME NEW t \in Threads, TakeGranted(t) \/ TakeTimedOut(t) \/ Timeout(t)
      PROVE  EarnInv'
  BY <1>4, EarnQuiet, EarnTakeTimedOut, EarnTimeout
<1>5. ASSUME NEW t \in Threads, NEW m \in Mutexes, Release(t, m)
      PROVE  EarnInv'
  BY <1>5, EarnQuiet, EarnReleaseFree, EarnHandOver DEF Release
<1>6. CASE UNCHANGED vars
  <2>1. UNCHANGED <<owner, mprio, waiters, prio, pc, want, pend, error, walk>>
    BY <1>6 DEF vars, mutexVars, threadVars
  <2> QED
    BY <2>1, EarnSame DEF Late, Passing
<1> QED
  BY <1>1, <1>2, <1>3, <1>4, <1>5, <1>6 DEF Next, Walk, Resumed

\* With nobody late and no priority being passed on, every mutex has the priority of
\* its first waiter, and what a thread earns is what PriorityEarned says.
LEMMA EarnedIsInherited ==
  ASSUME IInv, EarnInv
  PROVE  PriorityEarned
<1> SUFFICES ASSUME walk = None, \A t \in Threads : pc[t] = "woken" => error[t] = "ok",
                    NEW t \in Threads
             PROVE  prio[t] = Inherited(t, Taken(t), [m \in Mutexes |-> HeadPrio(waiters[m])])
  BY DEF PriorityEarned
<1>1. TypeOK /\ StaleInv /\ OwedInv
  BY DEF IInv, EarnInv
<1>2. \A m \in Mutexes : mprio[m] = HeadPrio(waiters[m])
  BY <1>1 DEF StaleInv, Passing, Late, HeadIn, HeadPrio
<1>3. mprio = [m \in Mutexes |-> HeadPrio(waiters[m])]
  BY <1>1, <1>2 DEF TypeOK
<1>4. prio[t] = Inherited(t, Taken(t), mprio)
  <2>1. Earns(prio[t], t, Taken(t), mprio) /\ prio[t] \in Nat
    BY <1>1, Priorities DEF OwedInv
  <2>2. Taken(t) \in SUBSET Mutexes /\ mprio \in [Mutexes -> 0 .. NoPrio]
    BY <1>1 DEF Taken, TypeOK
  <2> QED
    BY <2>1, <2>2, InheritedIsEarned
<1> QED
  BY <1>3, <1>4

\* Nobody keeps a borrowed priority (ipc.c:932 and 1509): when no timed out thread is
\* still to run, each thread is exactly as urgent as itself and those that wait for
\* what it holds, as long as no timeout comes before the clean-up of the last, and
\* threads that wait with a timeout hold nothing then.
THEOREM PriorityAlwaysEarned ==
  ASSUME ~NestedTimed
  PROVE  Spec /\ []OneLate => []PriorityEarned
<1>1. Init => EarnInv
  BY EarnInit
<1>2. IInv /\ EarnInv /\ OneLate /\ OneLate' /\ [Next]_vars => EarnInv'
  BY EarnNext
<1>3. IInv /\ EarnInv => PriorityEarned
  BY EarnedIsInherited
<1> QED
  BY <1>1, <1>2, <1>3, InvAlways, PTL DEF Spec

\* Only who may time out is ever late.
LEMMA LateIsTimed == Spec => [](\A t \in Threads : Late(t) => t \in Timed)
<1> DEFINE Inv == \A t \in Threads : Late(t) => t \in Timed
<1>1. Init => Inv
  BY DEF Init, Late
<1>2. IInv /\ Inv /\ [Next]_vars => Inv'
  <2> SUFFICES ASSUME IInv, Inv, [Next]_vars, NEW t \in Threads, Late(t)'
               PROVE  Late(t) \/ t \in Timed
    OBVIOUS
  <2>1. /\ pc \in [Threads -> {"run", "wait", "woken"}]
        /\ error \in [Threads -> {"ok", "timeout"}]
    BY DEF IInv, TypeOK
  <2>2. CASE Walk \/ UNCHANGED vars
    BY <2>2 DEF Walk, WalkEnds, WalkOn, vars, threadVars, Late
  <2>3. ASSUME NEW u \in Threads, NEW m \in Mutexes,
               TakeFree(u, m) \/ TakeAgain(u, m) \/ TakeWait(u, m)
        PROVE  Late(t)
    BY <2>1, <2>3 DEF TakeFree, TakeAgain, TakeWait, MayTake, Late
  <2>4. ASSUME NEW u \in Threads, Resumed(u) PROVE Late(t)
    BY <2>1, <2>4 DEF Resumed, TakeGranted, TakeTimedOut, Late
  <2>5. ASSUME NEW u \in Threads, Timeout(u) PROVE Late(t) \/ t \in Timed
    BY <2>1, <2>5 DEF Timeout, Late
  <2>6. ASSUME NEW u \in Threads, NEW m \in Mutexes, Release(u, m) PROVE Late(t)
    <3>1. CASE ReleaseOnce(u, m) \/ ReleaseFree(u, m)
      BY <3>1 DEF ReleaseOnce, ReleaseFree, threadVars, Late
    <3>2. CASE HandOver(u, m)
      <4>1. PICK n : n = Head(waiters[m])
        OBVIOUS
      <4>2. error[n] = "ok" /\ pc' = [pc EXCEPT ![n] = "woken"] /\ error' = error
        <5>1. waiters[m] \in Seq(Threads) /\ waiters[m] # <<>> /\ ListInv
          BY <3>2 DEF HandOver, IInv, TypeOK
        <5>2. n \in Elems(waiters[m])
          BY <4>1, <5>1, HeadTailList
        <5> QED
          BY <3>2, <4>1, <5>1, <5>2, InOneList DEF HandOver
      <4> QED
        BY <2>1, <4>2 DEF Late
    <3> QED
      BY <2>6, <3>1, <3>2 DEF Release
  <2> QED
    BY <2>2, <2>3, <2>4, <2>5, <2>6 DEF Next
<1> QED
  BY <1>1, <1>2, InvAlways, PTL DEF Spec

\* Where one thread only waits with a timeout, its priority comes back always.
THEOREM OneTimedAlwaysEarned ==
  ASSUME ~NestedTimed, \A t, u \in Timed : t = u
  PROVE  Spec => []PriorityEarned
<1>1. (\A t \in Threads : Late(t) => t \in Timed) => OneLate
  BY DEF OneLate
<1> QED
  BY <1>1, LateIsTimed, PriorityAlwaysEarned, PTL

=============================================================================
