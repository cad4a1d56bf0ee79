-------------------------- MODULE DataQueueProofs --------------------------
(***************************************************************************)
(* Proofs about DataQueue, for every number of threads, every size and low *)
(* water mark, every timeout and every order of calls, resumes and ticks:  *)
(* the ring is a bounded FIFO, who sleeps is in one list, and no wake-up   *)
(* is lost.                                                                *)
(***************************************************************************)
EXTENDS DataQueue, SuspListProofs

RingInv == RingOK /\ FlagsAgree

\* The items in the ring, oldest first.
Contents == [i \in 1 .. Count |-> slot[Wrap(get + i - 1)]]

-----------------------------------------------------------------------------
(* Sequences written as functions. *)

\* A function on 1 .. n is a sequence of length n.
LEMMA SeqOfFunction ==
  ASSUME NEW S, NEW n \in Nat, NEW c \in [1 .. n -> S]
  PROVE  c \in Seq(S) /\ Len(c) = n
OBVIOUS

\* One more element makes it what appending makes it.
LEMMA AppendFunction ==
  ASSUME NEW S, NEW n \in Nat, NEW c \in [1 .. n -> S], NEW i \in S,
         NEW d \in [1 .. n + 1 -> S],
         \A k \in 1 .. n : d[k] = c[k], d[n + 1] = i
  PROVE  d = Append(c, i)
<1>1. c \in Seq(S) /\ Len(c) = n
  BY SeqOfFunction
<1>2. d \in Seq(S) /\ Len(d) = n + 1
  <2>1. n + 1 \in Nat
    OBVIOUS
  <2> QED
    BY <2>1, SeqOfFunction
<1> DEFINE e == Append(c, i)
<1>3. /\ e \in Seq(S) /\ Len(e) = n + 1
      /\ \A k \in 1 .. n : e[k] = c[k]
      /\ e[n + 1] = i
  BY <1>1, AppendProperties
<1> HIDE DEF e
<1>4. \A k \in 1 .. Len(d) : d[k] = e[k]
  BY <1>2, <1>3
<1>5. d = e
  BY <1>2, <1>3, <1>4, SeqEqual
<1> QED
  BY <1>5 DEF e

\* All elements moved down by one make its tail.
LEMMA TailFunction ==
  ASSUME NEW S, NEW n \in Nat \ {0}, NEW c \in [1 .. n -> S],
         NEW d \in [1 .. n - 1 -> S], \A k \in 1 .. n - 1 : d[k] = c[k + 1]
  PROVE  d = Tail(c)
<1>1. c \in Seq(S) /\ Len(c) = n
  BY SeqOfFunction
<1>2. d \in Seq(S) /\ Len(d) = n - 1
  <2>1. n - 1 \in Nat
    OBVIOUS
  <2> QED
    BY <2>1, SeqOfFunction
<1> DEFINE e == Tail(c)
<1>3. c # <<>>
  BY <1>1
<1>4. e \in Seq(S) /\ Len(e) = n - 1 /\ \A k \in 1 .. n - 1 : e[k] = c[k + 1]
  BY <1>1, <1>3, HeadTailProperties
<1> HIDE DEF e
<1>5. d = e
  BY <1>2, <1>4, SeqEqual
<1> QED
  BY <1>5 DEF e

-----------------------------------------------------------------------------
(* The ring: what a step does to the indexes, the flags and the contents. *)

\* There is room for at least one item.
LEMMA SizePositive == Size \in Nat \ {0}
BY QueueAssumption

\* An index one past the end starts again at 0.
LEMMA WrapNext ==
  ASSUME NEW i \in 0 .. Size - 1
  PROVE  /\ Wrap(i + 1) \in 0 .. Size - 1
         /\ Wrap(i + 1) = IF i + 1 = Size THEN 0 ELSE i + 1
BY SizePositive DEF Wrap

\* The length is at most the size, and reaches 0 and the size with the flags.
LEMMA CountRange ==
  ASSUME RingInv
  PROVE  /\ Count \in 0 .. Size
         /\ Count = 0 <=> isEmpty
         /\ Count = Size <=> isFull
BY SizePositive DEF RingInv, RingOK, FlagsAgree, Count

\* Putting an item in a queue that is not full appends it.
LEMMA PutAppends ==
  ASSUME RingInv, ~isFull, NEW i \in Items, Put(i)
  PROVE  /\ RingInv'
         /\ Count < Size /\ Count' = Count + 1
         /\ Contents' = Append(Contents, i)
<1> USE SizePositive
<1> DEFINE n == Wrap(put + 1)
<1>1. /\ get \in 0 .. Size - 1 /\ put \in 0 .. Size - 1
      /\ isEmpty \in BOOLEAN /\ isFull = FALSE
      /\ slot \in [0 .. Size - 1 -> Items \cup {NoItem}]
  BY DEF RingInv, RingOK
<1>2. n \in 0 .. Size - 1 /\ n = IF put + 1 = Size THEN 0 ELSE put + 1
  BY <1>1, WrapNext
<1>3. /\ slot' = [slot EXCEPT ![put] = i] /\ put' = n /\ isEmpty' = FALSE
      /\ isFull' = (n = get) /\ get' = get
  BY <1>1 DEF Put
<1> HIDE DEF n
<1>4. RingInv'
  <2>1. RingOK'
    BY <1>1, <1>2, <1>3 DEF RingOK
  <2>2. FlagsAgree'
    BY <1>1, <1>2, <1>3 DEF FlagsAgree
  <2> QED
    BY <2>1, <2>2 DEF RingInv
<1>5. Count \in 0 .. Size - 1
  BY <1>1, CountRange
<1>6. Count' = Count + 1
  BY <1>1, <1>2, <1>3 DEF Count, RingInv, FlagsAgree
<1>7. Wrap(get + Count) = put
  BY <1>1 DEF Count, Wrap, RingInv, FlagsAgree
<1>8. ASSUME NEW k \in 1 .. Count
      PROVE  Wrap(get + k - 1) \in 0 .. Size - 1 /\ Wrap(get + k - 1) # put
  BY <1>1, <1>5 DEF Count, Wrap, RingInv, FlagsAgree
<1>9. Contents \in [1 .. Count -> Items \cup {NoItem}]
  BY <1>1, <1>8 DEF Contents
<1>10. Contents' = [k \in 1 .. Count + 1 |-> slot'[Wrap(get + k - 1)]]
  BY <1>6, <1>3 DEF Contents, Wrap
<1>11. \A k \in 1 .. Count : Contents'[k] = Contents[k]
  <2> SUFFICES ASSUME NEW k \in 1 .. Count
               PROVE  Contents'[k] = Contents[k]
    OBVIOUS
  <2>1. Contents'[k] = slot'[Wrap(get + k - 1)]
    BY <1>5, <1>10
  <2> QED
    BY <2>1, <1>1, <1>3, <1>8 DEF Contents
<1>12. Contents'[Count + 1] = i
  <2>1. Contents'[Count + 1] = slot'[Wrap(get + (Count + 1) - 1)]
    BY <1>5, <1>10
  <2>2. get + (Count + 1) - 1 = get + Count
    BY <1>1, <1>5
  <2> QED
    BY <2>1, <2>2, <1>1, <1>3, <1>7
<1>13. Contents' \in [1 .. Count + 1 -> Items \cup {NoItem}]
  <2>1. ASSUME NEW k \in 1 .. Count + 1
        PROVE  Contents'[k] \in Items \cup {NoItem}
    <3>1. CASE k = Count + 1
      BY <3>1, <1>12
    <3>2. CASE k # Count + 1
      <4>1. k \in 1 .. Count
        BY <3>2, <1>5
      <4> QED
        BY <4>1, <1>9, <1>11
    <3> QED
      BY <3>1, <3>2
  <2> QED
    BY <2>1, <1>10
<1>14. Contents' = Append(Contents, i)
  BY <1>5, <1>9, <1>11, <1>12, <1>13, AppendFunction
<1> QED
  BY <1>4, <1>5, <1>6, <1>14

\* Taking from a queue that is not empty takes the oldest item.
LEMMA TakeTakesHead ==
  ASSUME RingInv, ~isEmpty,
         get' = Wrap(get + 1), isFull' = FALSE,
         isEmpty' = (put = Wrap(get + 1)), UNCHANGED <<slot, put>>
  PROVE  /\ RingInv'
         /\ Contents # <<>> /\ Count' = Count - 1
         /\ Head(Contents) = slot[get]
         /\ Contents' = Tail(Contents)
<1> USE SizePositive
<1> DEFINE n == Wrap(get + 1)
<1>1. /\ get \in 0 .. Size - 1 /\ put \in 0 .. Size - 1
      /\ isEmpty = FALSE /\ isFull \in BOOLEAN
      /\ slot \in [0 .. Size - 1 -> Items \cup {NoItem}]
  BY DEF RingInv, RingOK
<1>2. n \in 0 .. Size - 1 /\ n = IF get + 1 = Size THEN 0 ELSE get + 1
  BY <1>1, WrapNext
<1>3. /\ get' = n /\ isFull' = FALSE /\ isEmpty' = (put = n)
      /\ slot' = slot /\ put' = put
  OBVIOUS
<1> HIDE DEF n
<1>4. RingInv'
  <2>1. RingOK'
    BY <1>1, <1>2, <1>3 DEF RingOK
  <2>2. FlagsAgree'
    BY <1>1, <1>2, <1>3 DEF FlagsAgree
  <2> QED
    BY <2>1, <2>2 DEF RingInv
<1>5. Count \in 1 .. Size
  BY <1>1, CountRange
<1>6. Count' = Count - 1
  <2>1. CASE put = n
    <3>1. Count = 1
      BY <2>1, <1>1, <1>2 DEF Count
    <3>2. isEmpty' = TRUE
      BY <2>1, <1>3
    <3>3. Count' = 0
      BY <3>2 DEF Count
    <3> QED
      BY <3>1, <3>3
  <2>2. CASE put # n
    <3>1. Count' = IF put > n THEN put - n ELSE Size + put - n
      BY <2>2, <1>3 DEF Count
    <3>2. Count = IF put > get THEN put - get ELSE Size + put - get
      BY <1>1 DEF Count
    <3> QED
      BY <3>1, <3>2, <2>2, <1>1, <1>2
  <2> QED
    BY <2>1, <2>2
<1>7. ASSUME NEW k \in 1 .. Count
      PROVE  Wrap(get + k - 1) \in 0 .. Size - 1
  BY <1>1, <1>5 DEF Wrap
<1>8. ASSUME NEW k \in 1 .. Count - 1
      PROVE  Wrap(n + k - 1) = Wrap(get + (k + 1) - 1)
  BY <1>1, <1>2, <1>5 DEF Wrap
<1>9. Contents \in [1 .. Count -> Items \cup {NoItem}]
  BY <1>1, <1>7 DEF Contents
<1>10. Contents # <<>> /\ Head(Contents) = slot[get]
  <2>1. Contents \in Seq(Items \cup {NoItem}) /\ Len(Contents) = Count
    BY <1>5, <1>9, SeqOfFunction
  <2>2. Contents # <<>> /\ Head(Contents) = Contents[1]
    BY <2>1, <1>5
  <2>3. Contents[1] = slot[get]
    BY <1>1, <1>5 DEF Contents, Wrap
  <2> QED
    BY <2>2, <2>3
<1>11. Contents' = [k \in 1 .. Count - 1 |-> slot[Wrap(n + k - 1)]]
  BY <1>3, <1>6 DEF Contents, Wrap
<1>12. \A k \in 1 .. Count - 1 : Contents'[k] = Contents[k + 1]
  <2> SUFFICES ASSUME NEW k \in 1 .. Count - 1
               PROVE  Contents'[k] = Contents[k + 1]
    OBVIOUS
  <2>1. Contents'[k] = slot[Wrap(get + (k + 1) - 1)]
    BY <1>8, <1>11
  <2>2. k + 1 \in 1 .. Count
    BY <1>5
  <2> QED
    BY <2>1, <2>2 DEF Contents
<1>13. Contents' \in [1 .. Count - 1 -> Items \cup {NoItem}]
  <2>1. \A k \in 1 .. Count - 1 : Contents'[k] \in Items \cup {NoItem}
    BY <1>5, <1>9, <1>12
  <2> QED
    BY <2>1, <1>11
<1>14. Contents' = Tail(Contents)
  BY <1>5, <1>9, <1>12, <1>13, TailFunction
<1> QED
  BY <1>4, <1>6, <1>10, <1>14

\* An empty queue holds nothing.
LEMMA EmptyContents == isEmpty => Contents = <<>>
BY DEF Contents, Count

-----------------------------------------------------------------------------
(* The steps of DataQueue and those of BoundedFifo. *)

\* What a step outside the ring leaves alone.
LEMMA RingFrame ==
  ASSUME RingInv, UNCHANGED ringVars
  PROVE  RingInv' /\ Contents' = Contents
BY DEF RingInv, RingOK, FlagsAgree, Contents, Count, Wrap, ringVars

\* Every step of DataQueue keeps the ring consistent, and puts one item, takes
\* the oldest, clears the queue or leaves it alone.
LEMMA StepOfFifo ==
  ASSUME RingInv, [Next]_vars
  PROVE  /\ RingInv'
         /\ \/ \E i \in Items : /\ Count < Size
                                /\ Contents' = Append(Contents, i) /\ UNCHANGED got
            \/ \E t \in Threads : /\ Contents # <<>>
                                  /\ got' = [got EXCEPT ![t] = Head(Contents)]
                                  /\ Contents' = Tail(Contents)
            \/ Contents' = <<>> /\ UNCHANGED got
            \/ Contents' = Contents /\ UNCHANGED got
<1>1. ASSUME NEW t \in Threads, Store(t)
      PROVE  RingInv' /\ \E i \in Items : /\ Count < Size
                                          /\ Contents' = Append(Contents, i) /\ UNCHANGED got
  <2>1. PICK i \in Items : Put(i)
    BY <1>1 DEF Store
  <2>2. ~isFull /\ UNCHANGED got
    BY <1>1 DEF Store
  <2> QED
    BY <2>1, <2>2, PutAppends
<1>2. ASSUME NEW t \in Threads, Take(t)
      PROVE  RingInv' /\ Contents # <<>> /\ got' = [got EXCEPT ![t] = Head(Contents)]
             /\ Contents' = Tail(Contents)
  <2>1. /\ ~isEmpty /\ get' = Wrap(get + 1) /\ isFull' = FALSE
        /\ isEmpty' = (put = Wrap(get + 1)) /\ UNCHANGED <<slot, put>>
        /\ got' = [got EXCEPT ![t] = slot[get]]
    BY <1>2 DEF Take
  <2> QED
    BY <2>1, TakeTakesHead
<1>3. ASSUME NEW t \in Threads, Reset(t)
      PROVE  RingInv' /\ Contents' = <<>> /\ UNCHANGED got
  <2>1. get' = 0 /\ put' = 0 /\ isEmpty' = TRUE /\ isFull' = FALSE /\ UNCHANGED <<slot, got>>
    BY <1>3 DEF Reset
  <2>2. RingInv'
    <3>1. RingOK'
      <4>1. 0 \in 0 .. Size - 1
        BY SizePositive
      <4> QED
        BY <2>1, <4>1 DEF RingInv, RingOK
    <3>2. FlagsAgree'
      BY <2>1 DEF FlagsAgree
    <3> QED
      BY <3>1, <3>2 DEF RingInv
  <2>3. Contents' = <<>>
    BY <2>1 DEF Contents, Count
  <2> QED
    BY <2>1, <2>2, <2>3
<1>4. CASE UNCHANGED <<ringVars, got>>
  BY <1>4, RingFrame
<1>5. ASSUME NEW t \in Threads, Step(t), ~Store(t), ~Take(t)
      PROVE  UNCHANGED <<ringVars, got>>
  BY <1>5 DEF Step, SuspendPush, PushFails, SuspendPop, PopFails, Peek, EnterCritical,
     ResumePop, ResumePush
<1>8. ASSUME NEW t \in Threads, Timer(t)
      PROVE  UNCHANGED <<ringVars, got>>
  BY <1>8 DEF Timer, Expire, ThreadTimeout, TimeoutAsserts
<1>6. ASSUME NEW t \in Threads, Call(t), ~Reset(t)
      PROVE  UNCHANGED <<ringVars, got>>
  BY <1>6 DEF Call, CallPush, CallPop, CallPeek
<1>7. ASSUME Tick \/ UNCHANGED vars
      PROVE  UNCHANGED <<ringVars, got>>
  BY <1>7 DEF Tick, vars
<1> QED
  BY <1>1, <1>2, <1>3, <1>4, <1>5, <1>6, <1>7, <1>8 DEF Next

\* At the start the queue is empty.
LEMMA RingInit == Init => RingInv /\ Contents = <<>> /\ got = [t \in Threads |-> NoItem]
<1> SUFFICES ASSUME Init
             PROVE  RingInv /\ Contents = <<>> /\ got = [t \in Threads |-> NoItem]
  OBVIOUS
<1>1. /\ slot = [i \in 0 .. Size - 1 |-> NoItem]
      /\ get = 0 /\ put = 0 /\ isEmpty = TRUE /\ isFull = FALSE
      /\ got = [t \in Threads |-> NoItem]
  BY Zenon DEF Init
<1>2. RingInv
  <2>1. RingOK
    <3>1. 0 \in 0 .. Size - 1
      BY SizePositive
    <3>2. slot \in [0 .. Size - 1 -> Items \cup {NoItem}]
      BY <1>1
    <3> QED
      BY <1>1, <3>1, <3>2 DEF RingOK
  <2>2. FlagsAgree
    BY <1>1 DEF FlagsAgree
  <2> QED
    BY <2>1, <2>2 DEF RingInv
<1> QED
  BY <1>1, <1>2, EmptyContents

\* The ring stays consistent.
LEMMA RingAlways == Spec => []RingInv
<1>1. Init => RingInv
  BY RingInit
<1>2. RingInv /\ [Next]_vars => RingInv'
  BY StepOfFifo
<1> QED
  BY <1>1, <1>2, PTL DEF Spec

\* The flags and the indexes of the ring never disagree, whatever threads,
\* handlers, ticks and resets do to the queue: dataqueue.c tells full from empty
\* by two flags it keeps beside two indexes that are equal in both cases.
THEOREM FlagsAlwaysAgree == Spec => []FlagsAgree
<1>1. RingInv => FlagsAgree
  BY DEF RingInv
<1> QED
  BY <1>1, RingAlways, PTL

\* The data queue is a bounded FIFO: rt_data_queue_push, pop, peek and reset,
\* with their suspensions, resumes and timeouts, do to the ring what BoundedFifo
\* allows and nothing else.
THEOREM ImplementsFifo == Spec => IsFifo
<1>1. Init => Fifo!Init
  BY RingInit DEF Fifo!Init, Contents
<1>2. RingInv /\ [Next]_vars => [Fifo!Next]_<<Contents, got>>
  <2> SUFFICES ASSUME RingInv, [Next]_vars
               PROVE  [Fifo!Next]_<<Contents, got>>
    OBVIOUS
  <2>1. Len(Contents) = Count
    BY CountRange DEF Contents
  <2> QED
    BY <2>1, StepOfFifo DEF Fifo!Next, Fifo!Put, Fifo!Take, Fifo!Clear, Contents
<1> QED
  BY <1>1, <1>2, RingAlways, PTL DEF Spec, IsFifo, Fifo!Spec, Contents

-----------------------------------------------------------------------------
(* The threads: who sleeps is in one list, and nobody sleeps on what is there. *)

\* A list holds, once, the threads that are at a place in the code.
Holds(q, label) ==
  /\ q \in Seq(Threads) /\ Distinct(q)
  /\ Elems(q) = {t \in Threads : pc[t] = label}

\* Who sleeps has no error yet.
ListInv ==
  /\ Holds(pushList, "pushing") /\ Holds(popList, "popping")
  /\ \A t \in Threads : pc[t] \in Suspended => error[t] = "ok"

\* What a fired timer finds; handlers do not reset.
TimerInv ==
  /\ TimersOK /\ TimeoutFindsSuspended
  /\ \A t \in Threads : pc[t] \in {"reset"} \cup Critical => t \notin Handlers

WaitInv == CallsOK /\ ListInv /\ TimerInv /\ NoLostItem /\ NoLostRoom

\* While a thread resets the queue no timer has fired.
LEMMA NoneFired ==
  ASSUME TimerInv, NEW t \in Threads, Runs(t), pc[t] \in {"reset"} \cup Critical
  PROVE  fired = {}
BY DEF TimerInv, Runs, TickDone

\* The steps that neither resume nor suspend a thread nor time one out.
LEMMA QuietStep ==
  ASSUME Tick \/ UNCHANGED vars \/ \E t \in Threads : Expire(t) \/ TimeoutAsserts(t)
  PROVE  UNCHANGED <<ringVars, pushList, popList, pc, got, timeout, error, lostItem, lostRoom>>
BY DEF Tick, Expire, TimeoutAsserts, vars, waitVars, histVars

\* Those on their way are finitely many.
LEMMA WokenFinite ==
  /\ IsFiniteSet(WokenPoppers) /\ IsFiniteSet(WokenPoppers')
  /\ Cardinality(WokenPoppers) \in Nat /\ Cardinality(WokenPoppers') \in Nat
  /\ IsFiniteSet(WokenPushers) /\ IsFiniteSet(WokenPushers')
  /\ Cardinality(WokenPushers) \in Nat /\ Cardinality(WokenPushers') \in Nat
<1>1. /\ WokenPoppers \in SUBSET Threads /\ WokenPoppers' \in SUBSET Threads
      /\ WokenPushers \in SUBSET Threads /\ WokenPushers' \in SUBSET Threads
      /\ IsFiniteSet(Threads)
  BY QueueAssumption DEF WokenPoppers, WokenPushers
<1>2. /\ IsFiniteSet(WokenPoppers) /\ IsFiniteSet(WokenPoppers')
      /\ IsFiniteSet(WokenPushers) /\ IsFiniteSet(WokenPushers')
  BY <1>1, FS_Subset
<1> QED
  BY <1>2, FS_CardinalityType

\* What a push or a pop that resumes the head of list q does to the threads: nobody is
\* there or the resume is missed, or the head is made ready.
LEMMA ResumeEffect ==
  ASSUME CallsOK, NEW t \in Threads, NEW q, NEW asleep, pc[t] # asleep, Holds(q, asleep),
         NEW label, Resume(t, q, label)
  PROVE  \/ /\ q = <<>> \/ Missed(q) # {}
            /\ Rest(q) = q /\ pc' = [pc EXCEPT ![t] = "idle"] /\ rem' = rem
         \/ \E h \in Threads :
              /\ h # t /\ pc[h] = asleep /\ ~Unstoppable(h)
              /\ pc' = [pc EXCEPT ![t] = "idle", ![h] = label]
              /\ rem' = [rem EXCEPT ![h] = 0]
              /\ Rest(q) \in Seq(Threads) /\ Distinct(Rest(q))
              /\ Elems(Rest(q)) = Elems(q) \ {h}
<1>1. pc \in [Threads -> PCs] /\ rem \in [Threads -> Nat]
  BY DEF CallsOK
<1>2. CASE Woken(q) = {}
  <2>1. /\ pc' = [u \in Threads |-> IF u = t THEN "idle" ELSE pc[u]]
        /\ rem' = [u \in Threads |-> rem[u]]
    BY <1>2 DEF Resume
  <2>2. q = <<>> \/ Missed(q) # {}
    <3>1. q # <<>> => Head(q) \in Threads
      BY TailElems DEF Holds
    <3> QED
      BY <1>2, <3>1 DEF Woken, Missed
  <2> QED
    BY <1>1, <1>2, <2>1, <2>2 DEF Rest
<1>3. CASE Woken(q) # {}
  <2> DEFINE h == Head(q)
  <2>0. q # <<>> /\ ~Unstoppable(h)
    BY <1>3 DEF Woken
  <2>1. /\ h \in Threads /\ h \in Elems(q)
        /\ Tail(q) \in Seq(Threads) /\ Distinct(Tail(q))
        /\ Elems(Tail(q)) = Elems(q) \ {h}
    BY <2>0, TailElems DEF Holds
  <2>2. pc[h] = asleep
    BY <2>1 DEF Holds
  <2>3. Woken(q) = {h}
    BY <2>0, <2>1 DEF Woken
  <2>4. /\ pc' = [u \in Threads |-> IF u = t THEN "idle" ELSE IF u = h THEN label ELSE pc[u]]
        /\ rem' = [u \in Threads |-> IF u = h THEN 0 ELSE rem[u]]
        /\ Rest(q) = Tail(q)
    BY <1>3, <2>3 DEF Resume, Rest
  <2> HIDE DEF h
  <2>5. /\ pc' = [pc EXCEPT ![t] = "idle", ![h] = label]
        /\ rem' = [rem EXCEPT ![h] = 0]
    BY <1>1, <2>1, <2>2, <2>4
  <2> QED
    BY <2>0, <2>1, <2>2, <2>4, <2>5
<1> QED
  BY <1>2, <1>3

\* A push that makes a popper ready, or does not: it finds none or its resume is missed.
LEMMA StoreEffect ==
  ASSUME CallsOK, ListInv, NEW t \in Threads, Store(t)
  PROVE  /\ pc[t] \in {"push", "pushWoken"} /\ UNCHANGED <<pushList, timeout, error>>
         /\ \/ /\ popList = <<>> \/ Missed(popList) # {}
               /\ popList' = popList
               /\ pc' = [pc EXCEPT ![t] = "idle"] /\ rem' = rem
            \/ \E h \in Threads :
                 /\ h # t /\ pc[h] = "popping" /\ ~Unstoppable(h)
                 /\ pc' = [pc EXCEPT ![t] = "idle", ![h] = "popWoken"]
                 /\ rem' = [rem EXCEPT ![h] = 0]
                 /\ popList' \in Seq(Threads) /\ Distinct(popList')
                 /\ Elems(popList') = Elems(popList) \ {h}
<1>1. /\ pc[t] \in {"push", "pushWoken"} /\ UNCHANGED <<pushList, timeout, error>>
      /\ Resume(t, popList, "popWoken") /\ popList' = Rest(popList)
  BY DEF Store, MayPush
<1>2. Holds(popList, "popping") /\ pc[t] # "popping"
  BY <1>1 DEF ListInv
<1> QED
  BY <1>1, <1>2, ResumeEffect

\* A pop that makes a pusher ready, or does not: there is none, its resume is missed, or
\* the length is above the low water mark.
LEMMA TakeEffect ==
  ASSUME CallsOK, ListInv, NEW t \in Threads, Take(t)
  PROVE  /\ pc[t] \in {"pop", "popWoken"} /\ UNCHANGED <<popList, timeout, error>>
         /\ \/ /\ pushList = <<>> \/ Missed(pushList) # {} \/ ~AtLwm(Count')
               /\ pushList' = pushList
               /\ pc' = [pc EXCEPT ![t] = "idle"] /\ rem' = rem
            \/ \E h \in Threads :
                 /\ h # t /\ pc[h] = "pushing" /\ ~Unstoppable(h)
                 /\ pc' = [pc EXCEPT ![t] = "idle", ![h] = "pushWoken"]
                 /\ rem' = [rem EXCEPT ![h] = 0]
                 /\ pushList' \in Seq(Threads) /\ Distinct(pushList')
                 /\ Elems(pushList') = Elems(pushList) \ {h}
<1>1. /\ pc[t] \in {"pop", "popWoken"} /\ UNCHANGED <<popList, timeout, error>>
      /\ Resume(t, IF AtLwm(Count') THEN pushList ELSE <<>>, "pushWoken")
      /\ pushList' = IF AtLwm(Count') THEN Rest(pushList) ELSE pushList
  BY DEF Take, MayPop
<1>2. CASE AtLwm(Count')
  <2>1. Resume(t, pushList, "pushWoken") /\ pushList' = Rest(pushList)
    BY <1>1, <1>2
  <2>2. Holds(pushList, "pushing") /\ pc[t] # "pushing"
    BY <1>1 DEF ListInv
  <2> QED
    BY <1>1, <2>1, <2>2, ResumeEffect
<1>3. CASE ~AtLwm(Count')
  <2>1. Resume(t, <<>>, "pushWoken") /\ pushList' = pushList
    BY <1>1, <1>3
  <2>2. pc' = [pc EXCEPT ![t] = "idle"] /\ rem' = rem
    BY <2>1 DEF Resume, Woken, CallsOK
  <2> QED
    BY <1>1, <1>3, <2>1, <2>2
<1> QED
  BY <1>2, <1>3

\* One round of a reset: the head of list q is made ready with an error, or t goes on.
LEMMA ErrorEffect ==
  ASSUME CallsOK, fired = {}, NEW t \in Threads, NEW q, NEW asleep, Holds(q, asleep),
         NEW label, NEW after, ResumeWithError(t, q, label, after)
  PROVE  \/ /\ q = <<>> /\ Rest(q) = q
            /\ pc' = [pc EXCEPT ![t] = after] /\ rem' = rem /\ error' = error
         \/ \E h \in Threads :
              /\ pc[h] = asleep
              /\ pc' = [pc EXCEPT ![h] = label] /\ rem' = [rem EXCEPT ![h] = 0]
              /\ error' = [error EXCEPT ![h] = "error"]
              /\ Rest(q) \in Seq(Threads) /\ Distinct(Rest(q))
              /\ Elems(Rest(q)) = Elems(q) \ {h}
<1>1. CASE q = <<>>
  BY <1>1 DEF ResumeWithError, Goto, Rest, Woken
<1>2. CASE q # <<>>
  <2> DEFINE h == Head(q)
  <2>1. /\ h \in Threads /\ h \in Elems(q)
        /\ Tail(q) \in Seq(Threads) /\ Distinct(Tail(q))
        /\ Elems(Tail(q)) = Elems(q) \ {h}
    BY <1>2, TailElems DEF Holds
  <2>2. pc[h] = asleep
    BY <2>1 DEF Holds
  <2>3. /\ pc' = [pc EXCEPT ![h] = label] /\ rem' = [rem EXCEPT ![h] = 0]
        /\ error' = [error EXCEPT ![h] = "error"]
        /\ Rest(q) = Tail(q)
    BY <1>2, <2>1 DEF ResumeWithError, Goto, Rest, Woken, Unstoppable
  <2> HIDE DEF h
  <2> QED
    BY <2>1, <2>2, <2>3
<1> QED
  BY <1>1, <1>2

\* A thread whose time is up is taken off its list.
LEMMA TimeoutEffect ==
  ASSUME CallsOK, ListInv, NEW t \in Threads, ThreadTimeout(t)
  PROVE  /\ error' = [error EXCEPT ![t] = "timeout"] /\ UNCHANGED <<timeout, rem>>
         /\ \/ /\ pc[t] = "pushing" /\ pc' = [pc EXCEPT ![t] = "pushWoken"]
               /\ pushList # <<>> /\ popList' = popList
               /\ pushList' \in Seq(Threads) /\ Distinct(pushList')
               /\ Elems(pushList') = Elems(pushList) \ {t}
            \/ /\ pc[t] = "popping" /\ pc' = [pc EXCEPT ![t] = "popWoken"]
               /\ popList # <<>> /\ pushList' = pushList
               /\ popList' \in Seq(Threads) /\ Distinct(popList')
               /\ Elems(popList') = Elems(popList) \ {t}
<1>1. ASSUME NEW q, NEW label, Holds(q, label), pc[t] = label
      PROVE  /\ q # <<>> /\ Unlisted(q, t) \in Seq(Threads) /\ Distinct(Unlisted(q, t))
             /\ Elems(Unlisted(q, t)) = Elems(q) \ {t}
  <2>1. q \in Seq(Threads) /\ Distinct(q) /\ t \in Elems(q)
    BY <1>1 DEF Holds
  <2> QED
    BY <2>1, RemovedElems, ElemsType DEF Unlisted
<1>2. Holds(pushList, "pushing") /\ Holds(popList, "popping")
  BY DEF ListInv
<1> QED
  BY <1>1, <1>2 DEF ThreadTimeout, Goto

-----------------------------------------------------------------------------
(* The invariant of the threads, part by part. *)

\* Every step keeps the types.
LEMMA StepOfCalls ==
  ASSUME RingInv, CallsOK, ListInv, TimerInv, [Next]_vars
  PROVE  CallsOK'
<1>0. Timeouts \subseteq Nat \cup {-1} /\ 0 \in Timeouts
  BY QueueAssumption
<1>1. ASSUME NEW t \in Threads, CallPush(t) \/ CallPop(t) PROVE CallsOK'
  BY <1>0, <1>1 DEF CallsOK, CallPush, CallPop, CallTimeout, Goto, PCs
<1>2. ASSUME NEW t \in Threads, NEW l \in PCs, Goto(t, l), UNCHANGED <<got, waitVars>> PROVE CallsOK'
  BY <1>2 DEF CallsOK, Goto, waitVars
<1>3. ASSUME NEW t \in Threads,
             CallPeek(t) \/ Reset(t) \/ PushFails(t) \/ PopFails(t) \/ Peek(t) \/ EnterCritical(t)
      PROVE  CallsOK'
  BY <1>2, <1>3 DEF CallPeek, Reset, PushFails, PopFails, Peek, EnterCritical, PCs
<1>4. ASSUME NEW t \in Threads, SuspendPush(t) \/ SuspendPop(t) PROVE CallsOK'
  <2>1. /\ error' = [error EXCEPT ![t] = "ok"] /\ UNCHANGED <<timeout, got>>
        /\ rem' = [rem EXCEPT ![t] = IF timeout[t] > 0 THEN timeout[t] ELSE 0]
        /\ \/ pc' = [pc EXCEPT ![t] = "pushing"]
           \/ pc' = [pc EXCEPT ![t] = "popping"]
    BY <1>4 DEF SuspendPush, SuspendPop, Suspend, Goto
  <2>2. (IF timeout[t] > 0 THEN timeout[t] ELSE 0) \in Nat
    <3>1. timeout[t] \in Nat \cup {-1}
      BY <1>0, Zenon DEF CallsOK
    <3> QED
      BY <3>1
  <2> QED
    BY <2>1, <2>2 DEF CallsOK, PCs
<1>5. ASSUME NEW t \in Threads, Store(t) PROVE CallsOK'
  <2>1. UNCHANGED <<got, timeout, error>>
    BY <1>5 DEF Store
  <2>2. CASE pc' = [pc EXCEPT ![t] = "idle"] /\ rem' = rem
    BY <2>1, <2>2 DEF CallsOK, PCs
  <2>3. ASSUME NEW h \in Threads,
               pc' = [pc EXCEPT ![t] = "idle", ![h] = "popWoken"], rem' = [rem EXCEPT ![h] = 0]
        PROVE  CallsOK'
    BY <2>1, <2>3 DEF CallsOK, PCs
  <2> QED
    BY <1>5, <2>2, <2>3, StoreEffect
<1>6. ASSUME NEW t \in Threads, Take(t) PROVE CallsOK'
  <2>1. UNCHANGED <<timeout, error>> /\ got' \in [Threads -> Items \cup {NoItem}]
    BY <1>6 DEF Take, CallsOK, RingInv, RingOK
  <2>2. CASE pc' = [pc EXCEPT ![t] = "idle"] /\ rem' = rem
    BY <2>1, <2>2 DEF CallsOK, PCs
  <2>3. ASSUME NEW h \in Threads,
               pc' = [pc EXCEPT ![t] = "idle", ![h] = "pushWoken"], rem' = [rem EXCEPT ![h] = 0]
        PROVE  CallsOK'
    BY <2>1, <2>3 DEF CallsOK, PCs
  <2> QED
    BY <1>6, <2>2, <2>3, TakeEffect
<1>7. ASSUME NEW t \in Threads, ResumePop(t) \/ ResumePush(t) PROVE CallsOK'
  <2>1. UNCHANGED <<got, timeout>>
    BY <1>7 DEF ResumePop, ResumePush
  <2>2. ASSUME NEW l \in PCs, pc' = [pc EXCEPT ![t] = l] /\ rem' = rem /\ error' = error PROVE CallsOK'
    BY <2>1, <2>2 DEF CallsOK
  <2>3. ASSUME NEW h \in Threads, NEW l \in PCs, pc' = [pc EXCEPT ![h] = l],
               rem' = [rem EXCEPT ![h] = 0], error' = [error EXCEPT ![h] = "error"]
        PROVE  CallsOK'
    BY <2>1, <2>3 DEF CallsOK
  <2>4. CASE ResumePop(t)
    <3>1. /\ ResumeWithError(t, popList, "popWoken", "resumePush") /\ Holds(popList, "popping")
          /\ fired = {}
      BY <2>4, NoneFired DEF ResumePop, ListInv, Critical
    <3> QED
      BY <2>2, <2>3, <3>1, ErrorEffect DEF PCs
  <2>5. CASE ResumePush(t)
    <3>1. /\ ResumeWithError(t, pushList, "pushWoken", "idle") /\ Holds(pushList, "pushing")
          /\ fired = {}
      BY <2>5, NoneFired DEF ResumePush, ListInv, Critical
    <3> QED
      BY <2>2, <2>3, <3>1, ErrorEffect DEF PCs
  <2> QED
    BY <1>7, <2>4, <2>5
<1>8. ASSUME NEW t \in Threads, ThreadTimeout(t) PROVE CallsOK'
  <2>1. UNCHANGED got
    BY <1>8 DEF ThreadTimeout
  <2> QED
    BY <1>8, <2>1, TimeoutEffect DEF CallsOK, PCs
<1>9. ASSUME Tick \/ UNCHANGED vars \/ \E t \in Threads : Expire(t) \/ TimeoutAsserts(t)
      PROVE  CallsOK'
  BY <1>9 DEF CallsOK, Tick, Expire, TimeoutAsserts, vars, waitVars
<1> QED
  BY <1>1, <1>3, <1>4, <1>5, <1>6, <1>7, <1>8, <1>9 DEF Next, Call, Step, Timer

\* Each list holds, once, those that sleep on it, and they have no error: a timeout, a
\* push or pop that makes a thread ready and a reset take it off its list exactly once.
LEMMA StepOfLists ==
  ASSUME CallsOK, ListInv, TimerInv, [Next]_vars
  PROVE  ListInv'
<1>0. /\ pc \in [Threads -> PCs] /\ error \in [Threads -> {"ok", "timeout", "error"}]
      /\ pushList \in Seq(Threads) /\ Distinct(pushList)
      /\ Elems(pushList) = {t \in Threads : pc[t] = "pushing"}
      /\ popList \in Seq(Threads) /\ Distinct(popList)
      /\ Elems(popList) = {t \in Threads : pc[t] = "popping"}
      /\ \A t \in Threads : pc[t] = "pushing" \/ pc[t] = "popping" => error[t] = "ok"
  BY DEF CallsOK, ListInv, Holds, Suspended
<1>1. ASSUME /\ pushList' \in Seq(Threads) /\ Distinct(pushList')
             /\ Elems(pushList') = {t \in Threads : pc'[t] = "pushing"}
             /\ popList' \in Seq(Threads) /\ Distinct(popList')
             /\ Elems(popList') = {t \in Threads : pc'[t] = "popping"}
             /\ \A t \in Threads : pc'[t] = "pushing" \/ pc'[t] = "popping" => error'[t] = "ok"
      PROVE  ListInv'
  BY <1>1 DEF ListInv, Holds, Suspended
<1>2. ASSUME NEW t \in Threads, pc[t] \notin Suspended, NEW l, l \notin Suspended,
             pc' = [pc EXCEPT ![t] = l], UNCHANGED <<pushList, popList, error>>
      PROVE  ListInv'
  <2>1. /\ {u \in Threads : pc'[u] = "pushing"} = {u \in Threads : pc[u] = "pushing"}
        /\ {u \in Threads : pc'[u] = "popping"} = {u \in Threads : pc[u] = "popping"}
    BY <1>0, <1>2 DEF Suspended
  <2>2. \A u \in Threads : pc'[u] = "pushing" \/ pc'[u] = "popping" => error'[u] = "ok"
    BY <1>0, <1>2 DEF Suspended
  <2> QED
    BY <1>0, <1>1, <1>2, <2>1, <2>2
<1>3. ASSUME NEW t \in Threads, Call(t) PROVE ListInv'
  BY <1>2, <1>3 DEF Call, CallPush, CallPop, CallPeek, Reset, CallTimeout, Goto, waitVars, Suspended
<1>4. ASSUME NEW t \in Threads, PushFails(t) \/ PopFails(t) \/ Peek(t) \/ EnterCritical(t)
      PROVE  ListInv'
  BY <1>2, <1>4 DEF PushFails, PopFails, Peek, EnterCritical, MayPush, MayPop, Goto, waitVars,
     Suspended
<1>5. ASSUME NEW t \in Threads, SuspendPush(t) PROVE ListInv'
  <2>1. /\ pc[t] # "pushing" /\ pc[t] # "popping" /\ pc' = [pc EXCEPT ![t] = "pushing"]
        /\ pushList' = Append(pushList, t) /\ popList' = popList
        /\ error' = [error EXCEPT ![t] = "ok"]
    BY <1>5 DEF SuspendPush, MayPush, Suspend, Goto
  <2>2. t \notin Elems(pushList)
    BY <1>0, <2>1
  <2>3. /\ pushList' \in Seq(Threads) /\ Distinct(pushList')
        /\ Elems(pushList') = Elems(pushList) \cup {t}
    BY <1>0, <2>1, <2>2, AppendedElems
  <2> QED
    BY <1>0, <1>1, <2>1, <2>3
<1>6. ASSUME NEW t \in Threads, SuspendPop(t) PROVE ListInv'
  <2>1. /\ pc[t] # "pushing" /\ pc[t] # "popping" /\ pc' = [pc EXCEPT ![t] = "popping"]
        /\ popList' = Append(popList, t) /\ pushList' = pushList
        /\ error' = [error EXCEPT ![t] = "ok"]
    BY <1>6 DEF SuspendPop, MayPop, Suspend, Goto
  <2>2. t \notin Elems(popList)
    BY <1>0, <2>1
  <2>3. /\ popList' \in Seq(Threads) /\ Distinct(popList')
        /\ Elems(popList') = Elems(popList) \cup {t}
    BY <1>0, <2>1, <2>2, AppendedElems
  <2> QED
    BY <1>0, <1>1, <2>1, <2>3
<1>7. ASSUME NEW t \in Threads, Store(t) PROVE ListInv'
  <2>1. pc[t] # "pushing" /\ pc[t] # "popping" /\ UNCHANGED <<pushList, error>>
    BY <1>7, StoreEffect
  <2>2. CASE popList' = popList /\ pc' = [pc EXCEPT ![t] = "idle"]
    BY <1>2, <2>1, <2>2 DEF Suspended
  <2>3. ASSUME NEW h \in Threads, h # t, pc[h] = "popping",
               pc' = [pc EXCEPT ![t] = "idle", ![h] = "popWoken"],
               popList' \in Seq(Threads), Distinct(popList'),
               Elems(popList') = Elems(popList) \ {h}
        PROVE  ListInv'
    BY <1>0, <1>1, <2>1, <2>3
  <2> QED
    BY <1>7, <2>2, <2>3, StoreEffect
<1>8. ASSUME NEW t \in Threads, Take(t) PROVE ListInv'
  <2>1. pc[t] # "pushing" /\ pc[t] # "popping" /\ UNCHANGED <<popList, error>>
    BY <1>8, TakeEffect
  <2>2. CASE pushList' = pushList /\ pc' = [pc EXCEPT ![t] = "idle"]
    BY <1>2, <2>1, <2>2 DEF Suspended
  <2>3. ASSUME NEW h \in Threads, h # t, pc[h] = "pushing",
               pc' = [pc EXCEPT ![t] = "idle", ![h] = "pushWoken"],
               pushList' \in Seq(Threads), Distinct(pushList'),
               Elems(pushList') = Elems(pushList) \ {h}
        PROVE  ListInv'
    BY <1>0, <1>1, <2>1, <2>3
  <2> QED
    BY <1>8, <2>2, <2>3, TakeEffect
<1>9. ASSUME NEW t \in Threads, ResumePop(t) PROVE ListInv'
  <2>1. /\ pc[t] = "resumePop" /\ popList' = Rest(popList) /\ pushList' = pushList
        /\ ResumeWithError(t, popList, "popWoken", "resumePush") /\ Holds(popList, "popping")
        /\ fired = {}
    BY <1>9, NoneFired DEF ResumePop, ListInv, Critical
  <2>2. CASE popList' = popList /\ pc' = [pc EXCEPT ![t] = "resumePush"] /\ error' = error
    BY <1>2, <2>1, <2>2 DEF Suspended
  <2>3. ASSUME NEW h \in Threads, pc[h] = "popping",
               pc' = [pc EXCEPT ![h] = "popWoken"], error' = [error EXCEPT ![h] = "error"],
               popList' \in Seq(Threads), Distinct(popList'),
               Elems(popList') = Elems(popList) \ {h}
        PROVE  ListInv'
    BY <1>0, <1>1, <2>1, <2>3
  <2> QED
    BY <2>1, <2>2, <2>3, ErrorEffect
<1>10. ASSUME NEW t \in Threads, ResumePush(t) PROVE ListInv'
  <2>1. /\ pc[t] = "resumePush" /\ pushList' = Rest(pushList) /\ popList' = popList
        /\ ResumeWithError(t, pushList, "pushWoken", "idle") /\ Holds(pushList, "pushing")
        /\ fired = {}
    BY <1>10, NoneFired DEF ResumePush, ListInv, Critical
  <2>2. CASE pushList' = pushList /\ pc' = [pc EXCEPT ![t] = "idle"] /\ error' = error
    BY <1>2, <2>1, <2>2 DEF Suspended
  <2>3. ASSUME NEW h \in Threads, pc[h] = "pushing",
               pc' = [pc EXCEPT ![h] = "pushWoken"], error' = [error EXCEPT ![h] = "error"],
               pushList' \in Seq(Threads), Distinct(pushList'),
               Elems(pushList') = Elems(pushList) \ {h}
        PROVE  ListInv'
    BY <1>0, <1>1, <2>1, <2>3
  <2> QED
    BY <2>1, <2>2, <2>3, ErrorEffect
<1>11. ASSUME NEW t \in Threads, ThreadTimeout(t) PROVE ListInv'
  <2>1. error' = [error EXCEPT ![t] = "timeout"]
    BY <1>11, TimeoutEffect
  <2>2. ASSUME pc[t] = "pushing", pc' = [pc EXCEPT ![t] = "pushWoken"], popList' = popList,
               pushList' \in Seq(Threads), Distinct(pushList'),
               Elems(pushList') = Elems(pushList) \ {t}
        PROVE  ListInv'
    BY <1>0, <1>1, <2>1, <2>2
  <2>3. ASSUME pc[t] = "popping", pc' = [pc EXCEPT ![t] = "popWoken"], pushList' = pushList,
               popList' \in Seq(Threads), Distinct(popList'),
               Elems(popList') = Elems(popList) \ {t}
        PROVE  ListInv'
    BY <1>0, <1>1, <2>1, <2>3
  <2> QED
    BY <1>11, <2>2, <2>3, TimeoutEffect
<1>12. ASSUME Tick \/ UNCHANGED vars \/ \E t \in Threads : Expire(t) \/ TimeoutAsserts(t)
       PROVE  ListInv'
  <2>1. UNCHANGED <<pushList, popList, pc, error>>
    BY <1>12, QuietStep
  <2> QED
    BY <2>1 DEF ListInv, Holds
<1> QED
  BY <1>3, <1>4, <1>5, <1>6, <1>7, <1>8, <1>9, <1>10, <1>11, <1>12 DEF Next, Step, Timer

\* A fired thread sleeps until it is timed out or a resume of it fails: threads do not
\* run meanwhile, and a handler resumes it only the second time.
LEMMA StepOfTimers ==
  ASSUME RingInv, CallsOK, ListInv, TimerInv, [Next]_vars
  PROVE  TimerInv'
<1>0. /\ pc \in [Threads -> PCs] /\ fired \subseteq Threads /\ masked \subseteq fired
      /\ halted \in BOOLEAN /\ lostItem \in 0 .. Size /\ lostRoom \in 0 .. Size
      /\ \A t \in fired \ masked : pc[t] \in Suspended
      /\ \A t \in Threads : pc[t] \in {"reset"} \cup Critical => t \notin Handlers
      /\ Handlers \cap Resetters = {} /\ 0 \in 0 .. Size
  BY QueueAssumption DEF CallsOK, TimerInv, TimersOK, TimeoutFindsSuspended
<1>1. ASSUME NEW t \in Threads, pc[t] \notin Suspended, NEW l, pc' = [pc EXCEPT ![t] = l],
             l \in {"reset"} \cup Critical => t \notin Handlers,
             UNCHANGED <<fired, masked, halted>>, lostItem' \in 0 .. Size, lostRoom' \in 0 .. Size
      PROVE  TimerInv'
  BY <1>0, <1>1 DEF TimerInv, TimersOK, TimeoutFindsSuspended
<1>2. ASSUME NEW t \in Threads, CallPush(t) \/ CallPop(t) \/ CallPeek(t) \/ SuspendPush(t) \/ SuspendPop(t)
                                \/ PushFails(t) \/ PopFails(t) \/ Peek(t)
      PROVE  TimerInv'
  <2>1. /\ UNCHANGED <<fired, masked, halted, lostItem, lostRoom>>
        /\ pc[t] \notin Suspended
        /\ \E l : pc' = [pc EXCEPT ![t] = l] /\ l \notin {"reset"} \cup Critical
    BY <1>2 DEF CallPush, CallPop, CallPeek, SuspendPush, SuspendPop, PushFails, PopFails, Peek,
       MayPush, MayPop, Goto, tickVars, histVars, Suspended, Critical
  <2> QED
    BY <1>0, <1>1, <2>1
<1>3. ASSUME NEW t \in Threads, Reset(t) \/ EnterCritical(t) PROVE TimerInv'
  <2>1. /\ UNCHANGED <<fired, masked, halted, lostRoom>> /\ lostItem' \in 0 .. Size
        /\ pc[t] \notin Suspended /\ t \notin Handlers
        /\ \E l : pc' = [pc EXCEPT ![t] = l]
    BY <1>0, <1>3 DEF Reset, EnterCritical, Goto, tickVars, histVars, Suspended, Critical
  <2> QED
    BY <1>0, <1>1, <2>1
<1>4. ASSUME NEW t \in Threads, ResumePop(t) \/ ResumePush(t) PROVE TimerInv'
  <2>1. /\ fired = {} /\ UNCHANGED <<fired, masked, halted>> /\ t \notin Handlers
        /\ lostItem' = lostItem
    BY <1>0, <1>4, NoneFired DEF ResumePop, ResumePush, tickVars, histVars, Critical
  <2>2. lostRoom' \in 0 .. Size
    <3>1. lostRoom' = lostRoom \/ lostRoom' = Reckoned(lostRoom, <<>>, pushList' = <<>>)
      BY <1>4 DEF ResumePop, ResumePush, histVars
    <3> QED
      BY <1>0, <3>1, SizePositive DEF Reckoned
  <2>3. \A u \in Threads : pc'[u] \in {"reset"} \cup Critical => u \notin Handlers
    <3>1. \/ \E l : pc' = [pc EXCEPT ![t] = l]
          \/ \E h \in Threads : pc' = [pc EXCEPT ![h] = "popWoken"] \/ pc' = [pc EXCEPT ![h] = "pushWoken"]
      <4>1. CASE ResumePop(t)
        <5>1. /\ ResumeWithError(t, popList, "popWoken", "resumePush") /\ Holds(popList, "popping")
          BY <4>1 DEF ResumePop, ListInv
        <5> QED
          BY <2>1, <5>1, ErrorEffect
      <4>2. CASE ResumePush(t)
        <5>1. /\ ResumeWithError(t, pushList, "pushWoken", "idle") /\ Holds(pushList, "pushing")
          BY <4>2 DEF ResumePush, ListInv
        <5> QED
          BY <2>1, <5>1, ErrorEffect
      <4> QED
        BY <1>4, <4>1, <4>2
    <3> QED
      BY <1>0, <2>1, <3>1 DEF Critical
  <2> QED
    BY <1>0, <2>1, <2>2, <2>3 DEF TimerInv, TimersOK, TimeoutFindsSuspended
<1>5. ASSUME NEW t \in Threads, pc[t] \notin Suspended, NEW q, NEW label, label \notin {"reset"} \cup Critical,
             NEW asleep, pc[t] # asleep, Holds(q, asleep) \/ q = <<>>, Resume(t, q, label),
             lostItem' \in 0 .. Size, lostRoom' \in 0 .. Size
      PROVE  TimerInv'
  <2>1. /\ UNCHANGED <<fired, halted>> /\ masked' = masked \cup Missed(q)
        /\ pc' = [u \in Threads |-> IF u = t THEN "idle" ELSE IF u \in Woken(q) THEN label ELSE pc[u]]
    BY <1>5 DEF Resume
  <2>2. Missed(q) \subseteq fired
    BY DEF Missed, Unstoppable
  <2>3. \A u \in fired \ masked' : u # t /\ u \notin Woken(q)
    BY <1>0, <1>5, <2>1 DEF Woken, Unstoppable
  <2>4. TimersOK' /\ TimeoutFindsSuspended'
    BY <1>0, <1>5, <2>1, <2>2, <2>3 DEF TimersOK, TimeoutFindsSuspended
  <2>5. \A u \in Threads : pc'[u] \in {"reset"} \cup Critical => u \notin Handlers
    BY <1>0, <1>5, <2>1 DEF Critical
  <2> QED
    BY <2>4, <2>5 DEF TimerInv
<1>6. ASSUME NEW t \in Threads, Store(t) PROVE TimerInv'
  <2>1. /\ pc[t] \in {"push", "pushWoken"} /\ Resume(t, popList, "popWoken")
        /\ lostItem' = Reckoned(lostItem, popList, popList' = <<>>)
        /\ lostRoom' = Reckoned(lostRoom, <<>>, Count' > Lwm)
    BY <1>6 DEF Store, MayPush
  <2>2. lostItem' \in 0 .. Size /\ lostRoom' \in 0 .. Size
    BY <1>0, <2>1, SizePositive DEF Reckoned
  <2>3. Holds(popList, "popping")
    BY DEF ListInv
  <2> QED
    BY <1>5, <2>1, <2>2, <2>3 DEF Suspended, Critical
<1>7. ASSUME NEW t \in Threads, Take(t) PROVE TimerInv'
  <2> DEFINE q == IF AtLwm(Count') THEN pushList ELSE <<>>
  <2>1. /\ pc[t] \in {"pop", "popWoken"} /\ Resume(t, q, "pushWoken")
        /\ lostRoom' = Reckoned(lostRoom, q, pushList' = <<>>)
        /\ lostItem' = Reckoned(lostItem, <<>>, isEmpty')
    BY <1>7 DEF Take, MayPop
  <2>2. lostItem' \in 0 .. Size /\ lostRoom' \in 0 .. Size
    <3>1. isEmpty' \in BOOLEAN
      BY <1>7 DEF Take
    <3> QED
      BY <1>0, <2>1, <3>1, SizePositive DEF Reckoned
  <2>3. Holds(q, "pushing") \/ q = <<>>
    BY DEF ListInv
  <2> QED
    BY <1>5, <2>1, <2>2, <2>3 DEF Suspended, Critical
<1>8. ASSUME NEW t \in Threads, ThreadTimeout(t) PROVE TimerInv'
  <2>1. /\ fired' = {} /\ masked' = {} /\ halted' = halted
        /\ lostItem' = Reckoned(lostItem, <<>>, popList' = <<>>)
        /\ lostRoom' = Reckoned(lostRoom, <<>>, pushList' = <<>>)
        /\ pc' = [pc EXCEPT ![t] = "pushWoken"] \/ pc' = [pc EXCEPT ![t] = "popWoken"]
    BY <1>8 DEF ThreadTimeout, Goto
  <2>2. lostItem' \in 0 .. Size /\ lostRoom' \in 0 .. Size
    BY <1>0, <2>1, SizePositive DEF Reckoned
  <2>3. \A u \in Threads : pc'[u] \in {"reset"} \cup Critical => u \notin Handlers
    BY <1>0, <2>1 DEF Critical
  <2> QED
    BY <1>0, <2>1, <2>2, <2>3 DEF TimerInv, TimersOK, TimeoutFindsSuspended
<1>9. ASSUME NEW t \in Threads, Expire(t) PROVE TimerInv'
  <2>1. /\ fired' = {t} /\ masked' = {} /\ pc[t] \in Suspended
        /\ UNCHANGED <<pc, halted, lostItem, lostRoom>>
    BY <1>9 DEF Expire, Due, histVars
  <2> QED
    BY <1>0, <2>1 DEF TimerInv, TimersOK, TimeoutFindsSuspended
<1>10. ASSUME NEW t \in Threads, TimeoutAsserts(t) PROVE TimerInv'
  <2>1. halted' = TRUE /\ UNCHANGED <<pc, fired, masked, lostItem, lostRoom>>
    BY <1>10 DEF TimeoutAsserts, histVars
  <2> QED
    BY <1>0, <2>1 DEF TimerInv, TimersOK, TimeoutFindsSuspended
<1>11. CASE Tick \/ UNCHANGED vars
  <2>1. UNCHANGED <<pc, fired, masked, halted, lostItem, lostRoom>>
    BY <1>11 DEF Tick, vars, tickVars, histVars
  <2> QED
    BY <1>0, <2>1 DEF TimerInv, TimersOK, TimeoutFindsSuspended
<1> QED
  BY <1>2, <1>3, <1>4, <1>6, <1>7, <1>8, <1>9, <1>10, <1>11 DEF Next, Call, Step, Timer

\* Nobody sleeps on an item for which nobody else is on its way: a pop takes one and one
\* thread off the way, a push adds one and makes another thread ready, and a thread goes
\* to sleep only when the queue is empty.
LEMMA StepOfItem ==
  ASSUME RingInv, CallsOK, ListInv, TimerInv, NoLostItem, [Next]_vars
  PROVE  NoLostItem'
<1>0. /\ Count \in 0 .. Size /\ (Count = 0 <=> isEmpty) /\ Size \in Nat
      /\ pc \in [Threads -> PCs] /\ error \in [Threads -> {"ok", "timeout", "error"}]
      /\ \A t \in Threads : pc[t] = "popping" => error[t] = "ok"
      /\ lostItem \in 0 .. Size
  BY CountRange, SizePositive DEF CallsOK, ListInv, Suspended, TimerInv, TimersOK
<1>l. lostItem' \in 0 .. Size
  BY StepOfTimers DEF TimerInv, TimersOK
<1>1. ASSUME WokenPoppers \subseteq WokenPoppers', Count' = Count,
             popList # <<>> \/ popList' = <<>>, lostItem' = lostItem \/ lostItem' >= lostItem \/ popList' = <<>>
      PROVE  NoLostItem'
  <2>1. Cardinality(WokenPoppers) <= Cardinality(WokenPoppers')
    BY <1>1, WokenFinite, FS_Subset
  <2> QED
    BY <1>0, <1>l, <1>1, <2>1, WokenFinite DEF NoLostItem
<1>2. ASSUME Count' = 0
      PROVE  NoLostItem'
  BY <1>2, <1>l, WokenFinite DEF NoLostItem
<1>3. ASSUME UNCHANGED ringVars PROVE Count' = Count
  BY <1>3 DEF Count, ringVars
<1>4. ASSUME NEW t \in Threads, pc[t] # "popWoken" \/ error[t] # "ok",
             NEW l, pc' = [pc EXCEPT ![t] = l], error' = error
      PROVE  WokenPoppers \subseteq WokenPoppers'
  BY <1>0, <1>4 DEF WokenPoppers
<1>5. ASSUME NEW t \in Threads, CallPush(t) \/ CallPop(t) \/ CallPeek(t) PROVE NoLostItem'
  <2>1. /\ UNCHANGED ringVars /\ UNCHANGED <<popList, error>> /\ pc[t] = "idle"
        /\ \E l \in PCs : pc' = [pc EXCEPT ![t] = l]
    BY <1>5 DEF CallPush, CallPop, CallPeek, CallTimeout, Goto, waitVars, PCs
  <2>2. lostItem' = lostItem
    BY <1>5 DEF CallPush, CallPop, CallPeek, histVars
  <2> QED
    BY <1>1, <1>3, <1>4, <2>1, <2>2
<1>6. ASSUME NEW t \in Threads, Reset(t) PROVE NoLostItem'
  BY <1>2, <1>6 DEF Reset, Count
<1>7. ASSUME NEW t \in Threads, PushFails(t) \/ Peek(t) \/ EnterCritical(t) PROVE NoLostItem'
  <2>1. /\ UNCHANGED ringVars /\ UNCHANGED <<popList, error>>
        /\ pc[t] # "popWoken" /\ \E l \in PCs : pc' = [pc EXCEPT ![t] = l]
    BY <1>7 DEF PushFails, MayPush, Peek, EnterCritical, Goto, waitVars, PCs
  <2>2. lostItem' = lostItem
    BY <1>7 DEF PushFails, Peek, EnterCritical, histVars
  <2> QED
    BY <1>1, <1>3, <1>4, <2>1, <2>2
<1>8. ASSUME NEW t \in Threads, PopFails(t) PROVE NoLostItem'
  <2>1. /\ UNCHANGED ringVars /\ UNCHANGED <<popList, error, lostItem>>
        /\ pc' = [pc EXCEPT ![t] = "idle"]
    BY <1>8 DEF PopFails, Goto, waitVars, histVars
  <2>2. CASE isEmpty
    BY <1>0, <1>2, <1>3, <2>1, <2>2
  <2>3. CASE error[t] # "ok"
    BY <1>1, <1>3, <1>4, <2>1, <2>3
  <2> QED
    BY <1>8, <2>2, <2>3 DEF PopFails
<1>9. ASSUME NEW t \in Threads, SuspendPush(t) PROVE NoLostItem'
  <2>1. /\ UNCHANGED ringVars /\ UNCHANGED <<popList, lostItem>>
        /\ pc[t] # "popWoken" /\ pc' = [pc EXCEPT ![t] = "pushing"]
        /\ error' = [error EXCEPT ![t] = "ok"]
    BY <1>9 DEF SuspendPush, MayPush, Suspend, Goto, histVars
  <2>2. WokenPoppers \subseteq WokenPoppers'
    BY <1>0, <2>1 DEF WokenPoppers
  <2> QED
    BY <1>1, <1>3, <2>1, <2>2
<1>10. ASSUME NEW t \in Threads, SuspendPop(t) PROVE NoLostItem'
  BY <1>0, <1>2, <1>3, <1>10 DEF SuspendPop
<1>11. ASSUME NEW t \in Threads, Store(t) PROVE NoLostItem'
  <2>1. /\ pc[t] \in {"push", "pushWoken"} /\ error' = error
    BY <1>11, StoreEffect
  <2>2. Count' = Count + 1
    BY <1>11, PutAppends DEF Store
  <2>3. CASE popList' = <<>>
    BY <2>3 DEF NoLostItem
  <2>6. lostItem' = Reckoned(lostItem, popList, popList' = <<>>)
    BY <1>11 DEF Store
  <2>7. CASE popList # <<>> /\ popList' # <<>> /\ Missed(popList) # {} /\ pc' = [pc EXCEPT ![t] = "idle"]
    <3>1. lostItem' = lostItem + 1 \/ lostItem' = Size
      BY <1>0, <2>6, <2>7, SizePositive DEF Reckoned
    <3>2. Count' \in 0 .. Size
      BY <1>0, <1>11, PutAppends DEF Store
    <3>3. WokenPoppers \subseteq WokenPoppers'
      BY <1>0, <2>1, <2>7 DEF WokenPoppers
    <3>4. Cardinality(WokenPoppers) <= Cardinality(WokenPoppers')
      BY <3>3, WokenFinite, FS_Subset
    <3> QED
      BY <1>0, <1>l, <2>2, <2>7, <3>1, <3>2, <3>4, WokenFinite DEF NoLostItem
  <2>4. ASSUME NEW h \in Threads, h # t, pc[h] = "popping", popList # <<>>,
               pc' = [pc EXCEPT ![t] = "idle", ![h] = "popWoken"]
        PROVE  NoLostItem'
    <3>1. h \in WokenPoppers' /\ h \notin WokenPoppers /\ WokenPoppers \subseteq WokenPoppers'
      BY <1>0, <2>1, <2>4 DEF WokenPoppers
    <3>2. Cardinality(WokenPoppers) + 1 <= Cardinality(WokenPoppers')
      BY <3>1, WokenFinite, CountGainsOne
    <3>3. CASE popList' # <<>>
      <4>1. lostItem' >= lostItem
        BY <1>0, <2>6, <3>3, SizePositive DEF Reckoned
      <4> QED
        BY <1>0, <1>l, <2>2, <2>4, <3>2, <4>1, WokenFinite DEF NoLostItem
    <3> QED
      BY <2>3, <3>3
  <2>5. ASSUME NEW h \in Threads, pc[h] = "popping" PROVE popList # <<>>
    BY <2>5, ElemsType DEF ListInv, Holds
  <2> QED
    BY <1>11, <2>3, <2>4, <2>5, <2>7, StoreEffect
<1>12. ASSUME NEW t \in Threads, Take(t) PROVE NoLostItem'
  <2>1. pc[t] \in {"pop", "popWoken"} /\ popList' = popList /\ error' = error
    BY <1>12, TakeEffect
  <2>2. Count' = Count - 1
    BY <1>12, TakeTakesHead DEF Take
  <2>3. WokenPoppers \ {t} \subseteq WokenPoppers'
    <3>1. CASE pc' = [pc EXCEPT ![t] = "idle"]
      BY <1>0, <2>1, <3>1 DEF WokenPoppers
    <3>2. ASSUME NEW h \in Threads, pc[h] = "pushing",
                 pc' = [pc EXCEPT ![t] = "idle", ![h] = "pushWoken"]
          PROVE  WokenPoppers \ {t} \subseteq WokenPoppers'
      BY <1>0, <2>1, <3>2 DEF WokenPoppers
    <3> QED
      BY <1>12, <3>1, <3>2, TakeEffect
  <2>4. Cardinality(WokenPoppers) - 1 <= Cardinality(WokenPoppers')
    BY <2>3, WokenFinite, CountLosesOne
  <2>5. CASE isEmpty'
    <3>1. Count' = 0
      BY <2>5 DEF Count
    <3> QED
      BY <1>2, <3>1
  <2>6. CASE ~isEmpty'
    <3>1. lostItem' = Reckoned(lostItem, <<>>, isEmpty') /\ isEmpty' \in BOOLEAN
      BY <1>12 DEF Take
    <3>2. lostItem' >= lostItem
      BY <1>0, <2>6, <3>1, SizePositive DEF Reckoned
    <3> QED
      BY <1>0, <1>l, <2>1, <2>2, <2>4, <3>2, WokenFinite DEF NoLostItem
  <2> QED
    BY <2>5, <2>6
<1>13. ASSUME NEW t \in Threads, ResumePop(t) \/ ResumePush(t) PROVE NoLostItem'
  <2>1. /\ pc[t] # "popWoken" /\ Count' = Count /\ (popList # <<>> \/ popList' = <<>>)
        /\ lostItem' = lostItem /\ fired = {}
    BY <1>3, <1>13, NoneFired DEF ResumePop, ResumePush, Rest, Woken, histVars, Critical
  <2>2. ASSUME NEW h \in Threads, pc[h] = "popping" \/ pc[h] = "pushing", NEW l,
               pc' = [pc EXCEPT ![h] = l], error' = [error EXCEPT ![h] = "error"]
        PROVE  WokenPoppers \subseteq WokenPoppers'
    BY <1>0, <2>2 DEF WokenPoppers
  <2>3. ASSUME NEW l, pc' = [pc EXCEPT ![t] = l], error' = error
        PROVE  WokenPoppers \subseteq WokenPoppers'
    BY <1>4, <2>1, <2>3
  <2>4. CASE ResumePop(t)
    <3>1. ResumeWithError(t, popList, "popWoken", "resumePush") /\ Holds(popList, "popping")
      BY <2>4 DEF ResumePop, ListInv
    <3>2. \/ pc' = [pc EXCEPT ![t] = "resumePush"] /\ error' = error
          \/ \E h \in Threads : /\ pc[h] = "popping" /\ pc' = [pc EXCEPT ![h] = "popWoken"]
                               /\ error' = [error EXCEPT ![h] = "error"]
      BY <2>1, <3>1, ErrorEffect
    <3> QED
      BY <1>0, <1>1, <2>1, <2>2, <2>3, <3>2
  <2>5. CASE ResumePush(t)
    <3>1. ResumeWithError(t, pushList, "pushWoken", "idle") /\ Holds(pushList, "pushing")
      BY <2>5 DEF ResumePush, ListInv
    <3>2. \/ pc' = [pc EXCEPT ![t] = "idle"] /\ error' = error
          \/ \E h \in Threads : /\ pc[h] = "pushing" /\ pc' = [pc EXCEPT ![h] = "pushWoken"]
                               /\ error' = [error EXCEPT ![h] = "error"]
      BY <2>1, <3>1, ErrorEffect
    <3> QED
      BY <1>0, <1>1, <2>1, <2>2, <2>3, <3>2
  <2> QED
    BY <1>13, <2>4, <2>5
<1>14. ASSUME NEW t \in Threads, ThreadTimeout(t) PROVE NoLostItem'
  <2>1. Count' = Count /\ lostItem' = Reckoned(lostItem, <<>>, popList' = <<>>)
    BY <1>3, <1>14 DEF ThreadTimeout
  <2>2. /\ pc[t] # "popWoken" /\ (popList # <<>> \/ popList' = <<>>)
        /\ error' = [error EXCEPT ![t] = "timeout"] /\ \E l \in PCs : pc' = [pc EXCEPT ![t] = l]
    BY <1>14, TimeoutEffect DEF PCs
  <2>3. WokenPoppers \subseteq WokenPoppers'
    BY <1>0, <2>2 DEF WokenPoppers
  <2>4. lostItem' >= lostItem \/ popList' = <<>>
    BY <1>0, <2>1, SizePositive DEF Reckoned
  <2> QED
    BY <1>1, <2>1, <2>2, <2>3, <2>4
<1>15. ASSUME Tick \/ UNCHANGED vars \/ \E t \in Threads : Expire(t) \/ TimeoutAsserts(t)
       PROVE  NoLostItem'
  <2>1. UNCHANGED <<pc, error, popList, lostItem>> /\ Count' = Count
    BY <1>3, <1>15, QuietStep
  <2>2. WokenPoppers' = WokenPoppers
    BY <2>1 DEF WokenPoppers
  <2> QED
    BY <1>0, <1>1, <2>1, <2>2
<1> QED
  BY <1>5, <1>6, <1>7, <1>8, <1>9, <1>10, <1>11, <1>12, <1>13, <1>14, <1>15 DEF Next, Call, Step, Timer

\* Nobody sleeps on a place below the low water mark for which nobody else is on its way,
\* but during a reset, which ends with an empty list of pushers: a push takes a place and
\* one thread off the way, a pop that reaches the mark makes another thread ready, and a
\* thread goes to sleep only when the queue is full.
LEMMA StepOfRoom ==
  ASSUME RingInv, CallsOK, ListInv, TimerInv, NoLostRoom, [Next]_vars
  PROVE  NoLostRoom'
<1>0. /\ Count \in 0 .. Size /\ (Count = Size <=> isFull) /\ Size \in Nat /\ Lwm \in 0 .. Size - 1
      /\ pc \in [Threads -> PCs] /\ error \in [Threads -> {"ok", "timeout", "error"}]
      /\ \A t \in Threads : pc[t] = "pushing" => error[t] = "ok"
      /\ lostRoom \in 0 .. Size
  BY CountRange, QueueAssumption DEF CallsOK, ListInv, Suspended, TimerInv, TimersOK
<1>l. lostRoom' \in 0 .. Size
  BY StepOfTimers DEF TimerInv, TimersOK
<1>1. ASSUME WokenPushers \subseteq WokenPushers', Count' = Count,
             pushList # <<>> \/ pushList' = <<>>,
             lostRoom' = lostRoom \/ lostRoom' >= lostRoom \/ pushList' = <<>>,
             Resetting => Resetting'
      PROVE  NoLostRoom'
  <2>1. Cardinality(WokenPushers) <= Cardinality(WokenPushers')
    BY <1>1, WokenFinite, FS_Subset
  <2> QED
    BY <1>0, <1>l, <1>1, <2>1, WokenFinite DEF NoLostRoom
<1>2. ASSUME Count' = Size
      PROVE  NoLostRoom'
  BY <1>0, <1>l, <1>2, WokenFinite DEF NoLostRoom
<1>3. ASSUME UNCHANGED ringVars PROVE Count' = Count
  BY <1>3 DEF Count, ringVars
<1>4. ASSUME NEW t \in Threads, pc[t] # "pushWoken" \/ error[t] # "ok",
             NEW l, pc' = [pc EXCEPT ![t] = l], error' = error
      PROVE  WokenPushers \subseteq WokenPushers'
  BY <1>0, <1>4 DEF WokenPushers
<1>5. ASSUME NEW t \in Threads, NEW l, pc' = [pc EXCEPT ![t] = l],
             pc[t] \notin {"reset"} \cup Critical \/ l \in {"reset"} \cup Critical
      PROVE  Resetting => Resetting'
  BY <1>0, <1>5 DEF Resetting
<1>6. ASSUME NEW t \in Threads, CallPush(t) \/ CallPop(t) \/ CallPeek(t) PROVE NoLostRoom'
  <2>1. /\ UNCHANGED ringVars /\ UNCHANGED <<pushList, error, lostRoom>> /\ pc[t] = "idle"
        /\ \E l \in PCs : pc' = [pc EXCEPT ![t] = l]
    BY <1>6 DEF CallPush, CallPop, CallPeek, CallTimeout, Goto, waitVars, histVars, PCs
  <2>2. Resetting => Resetting'
    BY <1>5, <2>1 DEF Critical
  <2> QED
    BY <1>1, <1>3, <1>4, <2>1, <2>2
<1>7. ASSUME NEW t \in Threads, Reset(t) PROVE NoLostRoom'
  <2>1. pc' = [pc EXCEPT ![t] = "reset"]
    BY <1>7 DEF Reset, Goto
  <2>2. Resetting'
    BY <1>0, <2>1 DEF Resetting
  <2> QED
    BY <2>2 DEF NoLostRoom
<1>8. ASSUME NEW t \in Threads, PopFails(t) \/ Peek(t) \/ EnterCritical(t) PROVE NoLostRoom'
  <2>1. /\ UNCHANGED ringVars /\ UNCHANGED <<pushList, error, lostRoom>> /\ pc[t] # "pushWoken"
        /\ \E l \in PCs : /\ pc' = [pc EXCEPT ![t] = l]
                          /\ pc[t] \notin {"reset"} \cup Critical \/ l \in {"reset"} \cup Critical
    BY <1>8 DEF PopFails, MayPop, Peek, EnterCritical, Goto, waitVars, histVars, PCs, Critical
  <2>2. Resetting => Resetting'
    BY <1>5, <2>1
  <2> QED
    BY <1>1, <1>3, <1>4, <2>1, <2>2
<1>9. ASSUME NEW t \in Threads, PushFails(t) PROVE NoLostRoom'
  <2>1. /\ UNCHANGED ringVars /\ UNCHANGED <<pushList, error, lostRoom>>
        /\ pc[t] \in {"push", "pushWoken"} /\ pc' = [pc EXCEPT ![t] = "idle"]
    BY <1>9 DEF PushFails, MayPush, Goto, waitVars, histVars
  <2>2. CASE isFull
    BY <1>0, <1>2, <1>3, <2>1, <2>2
  <2>3. CASE error[t] # "ok"
    <3>1. Resetting => Resetting'
      BY <1>5, <2>1 DEF Critical
    <3> QED
      BY <1>1, <1>3, <1>4, <2>1, <2>3, <3>1
  <2> QED
    BY <1>9, <2>2, <2>3 DEF PushFails
<1>10. ASSUME NEW t \in Threads, SuspendPop(t) PROVE NoLostRoom'
  <2>1. /\ UNCHANGED ringVars /\ UNCHANGED <<pushList, lostRoom>>
        /\ pc[t] \in {"pop", "popWoken"} /\ pc' = [pc EXCEPT ![t] = "popping"]
        /\ error' = [error EXCEPT ![t] = "ok"]
    BY <1>10 DEF SuspendPop, MayPop, Suspend, Goto, histVars
  <2>2. WokenPushers \subseteq WokenPushers'
    BY <1>0, <2>1 DEF WokenPushers
  <2>3. Resetting => Resetting'
    BY <1>5, <2>1 DEF Critical
  <2> QED
    BY <1>1, <1>3, <2>1, <2>2, <2>3
<1>11. ASSUME NEW t \in Threads, SuspendPush(t) PROVE NoLostRoom'
  BY <1>0, <1>2, <1>3, <1>11 DEF SuspendPush
<1>12. ASSUME NEW t \in Threads, Take(t) PROVE NoLostRoom'
  <2>1. /\ pc[t] \in {"pop", "popWoken"} /\ error' = error
    BY <1>12, TakeEffect
  <2>2. Count' = Count - 1
    BY <1>12, TakeTakesHead DEF Take
  <2>3. CASE pushList' = <<>>
    BY <2>3 DEF NoLostRoom
  <2>4. CASE ~AtLwm(Count')
    BY <1>0, <1>l, <2>2, <2>4, WokenFinite DEF NoLostRoom, AtLwm
  <2>7. ASSUME AtLwm(Count'), pushList' # <<>>
        PROVE  /\ lostRoom' >= lostRoom
               /\ Missed(pushList) # {} => lostRoom' = lostRoom + 1 \/ lostRoom' = Size
    <3>1. lostRoom' = Reckoned(lostRoom, pushList, pushList' = <<>>)
      BY <1>12, <2>7 DEF Take
    <3> QED
      BY <1>0, <2>7, <3>1, SizePositive DEF Reckoned
  <2>8. ASSUME AtLwm(Count'), pushList' # <<>>, Missed(pushList) # {}, pushList # <<>>,
               pc' = [pc EXCEPT ![t] = "idle"]
        PROVE  NoLostRoom'
    <3>1. /\ WokenPushers \subseteq WokenPushers'
          /\ Resetting => Resetting'
      BY <1>0, <2>1, <2>8 DEF WokenPushers, Resetting, Critical
    <3>2. Cardinality(WokenPushers) <= Cardinality(WokenPushers')
      BY <3>1, WokenFinite, FS_Subset
    <3>3. lostRoom' = lostRoom + 1 \/ lostRoom' = Size
      BY <2>7, <2>8
    <3>4. Count' + 1 <= Size /\ Count' \in Nat
      <4>1. ~isEmpty
        BY <1>12 DEF Take
      <4>2. Count \in 1 .. Size
        BY <4>1, CountRange
      <4> QED
        BY <1>0, <2>2, <2>8, <4>2 DEF AtLwm
    <3>5. ~Resetting' => Lwm + 1 - Count <= Cardinality(WokenPushers) + lostRoom
      BY <2>8, <3>1 DEF NoLostRoom
    <3>6. ~Resetting' => Lwm + 1 - Count' <= Cardinality(WokenPushers') + lostRoom'
      BY <1>0, <1>l, <2>2, <3>2, <3>3, <3>4, <3>5, WokenFinite
    <3> QED
      BY <3>6 DEF NoLostRoom
  <2>5. ASSUME NEW h \in Threads, h # t, pc[h] = "pushing", pushList # <<>>,
               pc' = [pc EXCEPT ![t] = "idle", ![h] = "pushWoken"]
        PROVE  NoLostRoom'
    <3>1. h \in WokenPushers' /\ h \notin WokenPushers /\ WokenPushers \subseteq WokenPushers'
      BY <1>0, <2>1, <2>5 DEF WokenPushers
    <3>2. Cardinality(WokenPushers) + 1 <= Cardinality(WokenPushers')
      BY <3>1, WokenFinite, CountGainsOne
    <3>3. Resetting => Resetting'
      BY <1>0, <2>1, <2>5 DEF Resetting, Critical
    <3>4. CASE AtLwm(Count') /\ pushList' # <<>>
      <4>1. lostRoom' >= lostRoom
        BY <2>7, <3>4
      <4> QED
        BY <1>0, <1>l, <2>2, <2>5, <3>2, <3>3, <4>1, WokenFinite DEF NoLostRoom
    <3> QED
      BY <2>3, <2>4, <3>4
  <2>6. ASSUME NEW h \in Threads, pc[h] = "pushing" PROVE pushList # <<>>
    BY <2>6, ElemsType DEF ListInv, Holds
  <2> QED
    BY <1>12, <2>3, <2>4, <2>5, <2>6, <2>8, TakeEffect
<1>13. ASSUME NEW t \in Threads, Store(t) PROVE NoLostRoom'
  <2>1. pc[t] \in {"push", "pushWoken"} /\ pushList' = pushList /\ error' = error
    BY <1>13, StoreEffect
  <2>2. Count' = Count + 1
    BY <1>13, PutAppends DEF Store
  <2>3. /\ WokenPushers \ {t} \subseteq WokenPushers'
        /\ Resetting => Resetting'
    <3>1. CASE pc' = [pc EXCEPT ![t] = "idle"]
      BY <1>0, <2>1, <3>1 DEF WokenPushers, Resetting, Critical
    <3>2. ASSUME NEW h \in Threads, pc[h] = "popping",
                 pc' = [pc EXCEPT ![t] = "idle", ![h] = "popWoken"]
          PROVE  /\ WokenPushers \ {t} \subseteq WokenPushers'
                 /\ Resetting => Resetting'
      BY <1>0, <2>1, <3>2 DEF WokenPushers, Resetting, Critical
    <3> QED
      BY <1>13, <3>1, <3>2, StoreEffect
  <2>4. Cardinality(WokenPushers) - 1 <= Cardinality(WokenPushers')
    BY <2>3, WokenFinite, CountLosesOne
  <2>5. CASE Count' > Lwm
    BY <1>0, <1>l, <2>2, <2>5, WokenFinite DEF NoLostRoom
  <2>6. CASE ~(Count' > Lwm)
    <3>1. lostRoom' = Reckoned(lostRoom, <<>>, Count' > Lwm)
      BY <1>13 DEF Store
    <3>2. lostRoom' >= lostRoom
      BY <1>0, <2>6, <3>1, SizePositive DEF Reckoned
    <3> QED
      BY <1>0, <1>l, <2>1, <2>2, <2>3, <2>4, <3>2, WokenFinite DEF NoLostRoom
  <2> QED
    BY <2>5, <2>6
<1>14. ASSUME NEW t \in Threads, ResumePop(t) PROVE NoLostRoom'
  <2>1. /\ pc[t] = "resumePop" /\ pushList' = pushList /\ Count' = Count
        /\ ResumeWithError(t, popList, "popWoken", "resumePush") /\ Holds(popList, "popping")
        /\ fired = {} /\ lostRoom' = lostRoom
    BY <1>3, <1>14, NoneFired DEF ResumePop, ListInv, Critical, histVars
  <2>2. \/ pc' = [pc EXCEPT ![t] = "resumePush"] /\ error' = error
        \/ \E h \in Threads : /\ pc[h] = "popping" /\ pc' = [pc EXCEPT ![h] = "popWoken"]
                              /\ error' = [error EXCEPT ![h] = "error"]
    BY <2>1, ErrorEffect
  <2>3. CASE pc' = [pc EXCEPT ![t] = "resumePush"] /\ error' = error
    <3>1. Resetting => Resetting'
      BY <1>5, <2>3 DEF Critical
    <3> QED
      BY <1>1, <1>4, <2>1, <2>3, <3>1
  <2>4. ASSUME NEW h \in Threads, pc[h] = "popping", pc' = [pc EXCEPT ![h] = "popWoken"],
               error' = [error EXCEPT ![h] = "error"]
        PROVE  NoLostRoom'
    <3>1. WokenPushers \subseteq WokenPushers'
      BY <1>0, <2>4 DEF WokenPushers
    <3>2. Resetting => Resetting'
      BY <1>5, <2>4 DEF Critical
    <3> QED
      BY <1>0, <1>1, <2>1, <3>1, <3>2
  <2> QED
    BY <2>2, <2>3, <2>4
<1>15. ASSUME NEW t \in Threads, ResumePush(t) PROVE NoLostRoom'
  <2>1. /\ pc[t] = "resumePush" /\ pushList' = Rest(pushList) /\ Count' = Count
        /\ ResumeWithError(t, pushList, "pushWoken", "idle") /\ Holds(pushList, "pushing")
        /\ fired = {}
    BY <1>3, <1>15, NoneFired DEF ResumePush, ListInv, Critical
  <2>2. \/ pushList' = <<>>
        \/ \E h \in Threads : /\ pc[h] = "pushing" /\ pc' = [pc EXCEPT ![h] = "pushWoken"]
    BY <2>1, ErrorEffect
  <2>3. CASE pushList' = <<>>
    BY <2>3 DEF NoLostRoom
  <2>4. ASSUME NEW h \in Threads, pc[h] = "pushing", pc' = [pc EXCEPT ![h] = "pushWoken"]
        PROVE  NoLostRoom'
    <3>1. Resetting'
      BY <1>0, <2>1, <2>4 DEF Resetting, Critical
    <3> QED
      BY <3>1 DEF NoLostRoom
  <2> QED
    BY <2>2, <2>3, <2>4
<1>16. ASSUME NEW t \in Threads, ThreadTimeout(t) PROVE NoLostRoom'
  <2>1. Count' = Count /\ lostRoom' = Reckoned(lostRoom, <<>>, pushList' = <<>>)
    BY <1>3, <1>16 DEF ThreadTimeout
  <2>2. /\ pc[t] \in Suspended /\ (pushList # <<>> \/ pushList' = <<>>)
        /\ error' = [error EXCEPT ![t] = "timeout"] /\ \E l \in PCs : pc' = [pc EXCEPT ![t] = l]
    BY <1>16, TimeoutEffect DEF PCs, Suspended
  <2>3. WokenPushers \subseteq WokenPushers'
    BY <1>0, <2>2 DEF WokenPushers, Suspended
  <2>4. Resetting => Resetting'
    BY <1>5, <2>2 DEF Suspended, Critical
  <2>5. lostRoom' >= lostRoom \/ pushList' = <<>>
    BY <1>0, <2>1, SizePositive DEF Reckoned
  <2> QED
    BY <1>1, <2>1, <2>2, <2>3, <2>4, <2>5
<1>17. ASSUME Tick \/ UNCHANGED vars \/ \E t \in Threads : Expire(t) \/ TimeoutAsserts(t)
       PROVE  NoLostRoom'
  <2>1. UNCHANGED <<pc, error, pushList, lostRoom>> /\ Count' = Count
    BY <1>3, <1>17, QuietStep
  <2>2. WokenPushers' = WokenPushers /\ Resetting' = Resetting
    BY <2>1 DEF WokenPushers, Resetting
  <2> QED
    BY <1>0, <1>1, <2>1, <2>2
<1> QED
  BY <1>6, <1>7, <1>8, <1>9, <1>10, <1>11, <1>12, <1>13, <1>14, <1>15, <1>16, <1>17
     DEF Next, Call, Step, Timer

\* At the start nobody sleeps.
LEMMA WaitInit == Init => WaitInv
<1> SUFFICES ASSUME Init
             PROVE  WaitInv
  OBVIOUS
<1>1. /\ pushList = <<>> /\ popList = <<>>
      /\ pc = [t \in Threads |-> "idle"] /\ got = [t \in Threads |-> NoItem]
      /\ timeout = [t \in Threads |-> 0] /\ rem = [t \in Threads |-> 0]
      /\ error = [t \in Threads |-> "ok"]
      /\ fired = {} /\ masked = {} /\ halted = FALSE /\ lostItem = 0 /\ lostRoom = 0
  BY Zenon DEF Init
<1>2. CallsOK
  BY <1>1, QueueAssumption DEF CallsOK, PCs
<1>3. ListInv
  BY <1>1 DEF ListInv, Holds, Elems, Distinct
<1>4. TimerInv
  <2>1. TimersOK
    <3>1. 0 \in 0 .. Size
      BY SizePositive
    <3> QED
      BY <1>1, <3>1 DEF TimersOK
  <2>2. TimeoutFindsSuspended
    BY <1>1 DEF TimeoutFindsSuspended
  <2>3. \A t \in Threads : pc[t] \notin {"reset"} \cup Critical
    BY <1>1 DEF Critical
  <2> QED
    BY <2>1, <2>2, <2>3 DEF TimerInv
<1>5. NoLostItem /\ NoLostRoom
  BY <1>1 DEF NoLostItem, NoLostRoom
<1> QED
  BY <1>2, <1>3, <1>4, <1>5 DEF WaitInv

\* The indexes stay in the ring and agree with the flags, who sleeps is in one list, once,
\* a timeout finds its thread suspended unless a resume of it failed before, and nobody
\* sleeps on an item, or on a place below the low water mark, for which neither somebody
\* else is on its way nor a resume has failed: for every number of threads and handlers
\* that push, pop, time out and reset the queue of dataqueue.c in any order, handlers
\* between the removal of a timer and the timeout of its thread too.
THEOREM QueueAlwaysOK == Spec => []QueueInv
<1>1. Init => RingInv /\ WaitInv
  BY RingInit, WaitInit
<1>2. RingInv /\ WaitInv /\ [Next]_vars => (RingInv /\ WaitInv)'
  BY StepOfFifo, StepOfCalls, StepOfLists, StepOfTimers, StepOfItem, StepOfRoom DEF WaitInv
<1>3. ASSUME RingInv, WaitInv PROVE QueueInv
  <2>1. ASSUME NEW q, NEW label, Holds(q, label) PROVE IsListOf(q, label)
    <3>1. \A i \in 1 .. Len(q) : q[i] \in Elems(q)
      BY DEF Elems
    <3>2. \A t \in Elems(q) : \E i \in 1 .. Len(q) : q[i] = t
      BY DEF Elems
    <3> QED
      BY <2>1, <3>1, <3>2 DEF Holds, IsListOf, Distinct
  <2>2. ListsMatchThreads
    BY <1>3, <2>1 DEF WaitInv, ListInv, ListsMatchThreads
  <2>3. TypeOK
    BY <1>3 DEF RingInv, WaitInv, ListInv, TimerInv, Holds, TypeOK
  <2> QED
    BY <1>3, <2>2, <2>3 DEF RingInv, WaitInv, TimerInv, QueueInv
<1> QED
  BY <1>1, <1>2, <1>3, PTL DEF Spec
=============================================================================
