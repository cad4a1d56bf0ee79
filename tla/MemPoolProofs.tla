--------------------------- MODULE MemPoolProofs ---------------------------
(***************************************************************************)
(* Proofs about MemPool, for every number of threads and blocks and every  *)
(* waiting time: the counted list of free blocks is a pool of blocks, no   *)
(* wake-up is lost, and nobody is suspended longer than it asked for.      *)
(***************************************************************************)
EXTENDS MemPool, SuspListProofs

PoolInv ==
  /\ list \in Seq(Blocks)
  /\ held \subseteq Blocks
  /\ CountIsList

-----------------------------------------------------------------------------
(* The steps of MemPool and those of BlockPool. *)

\* At the start every block is free.
LEMMA PoolInit == Init => PoolInv /\ FreeBlocks = Blocks /\ held = {}
<1> SUFFICES ASSUME Init
             PROVE  PoolInv /\ FreeBlocks = Blocks /\ held = {}
  OBVIOUS
<1>1. list = FirstList /\ freeCount = Len(FirstList) /\ held = {}
  BY Zenon DEF Init
<1>2. FreeBlocks = Blocks
  BY <1>1 DEF FreeBlocks, Blocks
<1>3. list \in Seq(Blocks) /\ held \subseteq Blocks
  BY <1>1, PoolAssumption
<1>4. CountIsList
  BY <1>1, PoolAssumption DEF CountIsList
<1> QED
  BY <1>1, <1>2, <1>3, <1>4 DEF PoolInv

\* Every step keeps the count equal to the length of the list, and gives out one
\* free block, takes one back or leaves the pool alone.
LEMMA StepOfPool ==
  ASSUME PoolInv, [Next]_vars
  PROVE  /\ PoolInv'
         /\ \/ \E b \in Blocks : /\ b \in FreeBlocks
                                 /\ FreeBlocks' = FreeBlocks \ {b} /\ held' = held \cup {b}
            \/ \E b \in Blocks : /\ b \in held
                                 /\ FreeBlocks' = FreeBlocks \cup {b} /\ held' = held \ {b}
            \/ FreeBlocks' = FreeBlocks /\ held' = held
<1>1. /\ list \in Seq(Blocks) /\ held \subseteq Blocks
      /\ freeCount = Len(list) /\ Distinct(list) /\ Elems(list) \cap held = {}
      /\ FreeBlocks = Elems(list) /\ FreeBlocks' = Elems(list')
  BY DEF PoolInv, CountIsList, Distinct, Elems, FreeBlocks
<1>2. ASSUME list' \in Seq(Blocks), held' \subseteq Blocks, freeCount' = Len(list'),
             Distinct(list'), Elems(list') \cap held' = {}
      PROVE  PoolInv'
  BY <1>2 DEF PoolInv, CountIsList, Distinct, Elems, FreeBlocks
<1>3. ASSUME NEW t \in Threads, Take(t)
      PROVE  PoolInv' /\ \E b \in Blocks : /\ b \in FreeBlocks
                                           /\ FreeBlocks' = FreeBlocks \ {b}
                                           /\ held' = held \cup {b}
  <2>1. /\ freeCount # 0 /\ held' = held \cup {Head(list)}
        /\ list' = Tail(list) /\ freeCount' = freeCount - 1
    BY <1>3 DEF Take, ListRest
  <2>2. list # <<>>
    BY <1>1, <2>1
  <2>3. /\ list' \in Seq(Blocks) /\ Len(list') = Len(list) - 1
        /\ Head(list) \in Elems(list)
        /\ Elems(list') = Elems(list) \ {Head(list)}
        /\ Distinct(list')
    BY <1>1, <2>1, <2>2, TailElems
  <2>4. Head(list) \in Blocks
    BY <1>1, <2>2, HeadTailProperties
  <2> QED
    BY <1>1, <1>2, <2>1, <2>3, <2>4
<1>4. ASSUME NEW b \in Blocks, Free(b)
      PROVE  PoolInv' /\ b \in held /\ FreeBlocks' = FreeBlocks \cup {b} /\ held' = held \ {b}
  <2>1. /\ b \in held /\ held' = held \ {b}
        /\ list' = <<b>> \o list /\ freeCount' = freeCount + 1
    BY <1>4 DEF Free, HeldLess, CountMore
  <2>2. b \notin Elems(list)
    BY <1>1, <2>1
  <2>3. /\ list' \in Seq(Blocks) /\ Len(list') = Len(list) + 1
        /\ Elems(list') = Elems(list) \cup {b}
        /\ Distinct(list')
    BY <1>1, <2>1, <2>2, ConsElems
  <2> QED
    BY <1>1, <1>2, <2>1, <2>3
<1>5. ASSUME NEW t \in Threads, CallAlloc(t) \/ Refuse(t) \/ Sleep(t) \/ Woken(t) \/ Timer(t)
      PROVE  UNCHANGED poolVars
  BY <1>5 DEF CallAlloc, Refuse, Sleep, Woken, Timer, Expire, ThreadTimeout, TimeoutAsserts
<1>6. ASSUME Tick \/ UNCHANGED vars
      PROVE  UNCHANGED poolVars
  BY <1>6 DEF Tick, vars
<1>7. ASSUME UNCHANGED poolVars
      PROVE  PoolInv' /\ FreeBlocks' = FreeBlocks /\ held' = held
  BY <1>1, <1>2, <1>7 DEF poolVars
<1> QED
  BY <1>3, <1>4, <1>5, <1>6, <1>7 DEF Next, Step

\* The counted list stays in order.
LEMMA PoolAlways == Spec => []PoolInv
<1>1. Init => PoolInv
  BY PoolInit
<1>2. PoolInv /\ [Next]_vars => PoolInv'
  BY StepOfPool
<1> QED
  BY <1>1, <1>2, PTL DEF Spec

\* The free count is the length of the free list and no block is in it twice or
\* while it is out, whoever allocates, releases, sleeps or times out: rt_mp_alloc
\* follows the list after looking at nothing but the count.
THEOREM CountAlwaysIsList == Spec => []CountIsList
<1>1. PoolInv => CountIsList
  BY DEF PoolInv
<1> QED
  BY <1>1, PoolAlways, PTL

\* The memory pool is a pool of blocks: rt_mp_alloc and rt_mp_free, with their
\* sleeps and timeouts, give out a free block, take one back, or do nothing.
THEOREM ImplementsPool == Spec => IsPool
<1>1. Init => Pool!Init
  BY PoolInit DEF Pool!Init
<1>2. PoolInv /\ [Next]_vars => [Pool!Next]_<<FreeBlocks, held>>
  BY StepOfPool DEF Pool!Next, Pool!Alloc, Pool!Release
<1> QED
  BY <1>1, <1>2, PoolAlways, PTL DEF Spec, IsPool, Pool!Spec

-----------------------------------------------------------------------------
(* The threads: who sleeps, who was made ready, and what is left of its time. *)

CallTypes ==
  /\ pc \in [Threads -> PCs]
  /\ time \in [Threads -> 0 .. MaxTicks \cup {-1}] /\ rem \in [Threads -> 0 .. MaxTicks]
  /\ error \in [Threads -> {"ok", "timeout"}] /\ since \in [Threads -> 0 .. MaxTicks]
  /\ asked \in [Threads -> Times] /\ slept \in [Threads -> 0 .. MaxTicks]

ListInv ==
  /\ suspended \in Seq(Threads) /\ Distinct(suspended)
  /\ Elems(suspended) = {t \in Threads : pc[t] = "sleeping"}

\* What a thread was suspended and what it may still be suspended make up what it
\* asked for; while it sleeps its timer and the clock of the sleep agree.
BudgetInv ==
  \A t \in Threads :
    /\ pc[t] = "idle" => asked[t] = 0
    /\ asked[t] > 0 =>
         /\ time[t] \in 0 .. asked[t]
         /\ pc[t] \in {"alloc", "again"} => slept[t] + time[t] <= asked[t]
         /\ pc[t] = "sleeping" =>
              time[t] > 0 /\ since[t] = time[t] - rem[t] /\ slept[t] + rem[t] <= asked[t]
         /\ pc[t] = "woken" => slept[t] + TimeLeft(t) <= asked[t]

\* What a fired timer finds, and how many wake-ups were missed.
TimerInv ==
  /\ fired \subseteq Threads /\ masked \subseteq fired /\ halted \in BOOLEAN
  /\ lost \in 0 .. Len(FirstList)
  /\ TimeoutFindsSuspended

WaitInv == CallTypes /\ ListInv /\ TimerInv /\ NoLostBlock

\* Waiting times are bounded.
LEMMA TimesBounded ==
  /\ MaxTicks \in Nat /\ 0 \in Times
  /\ \A n \in Times : n \in 0 .. MaxTicks \cup {-1}
BY PoolAssumption

\* There are no more free blocks than blocks, in this state and in the next.
LEMMA CountBounded ==
  /\ PoolInv => freeCount \in 0 .. Len(FirstList)
  /\ PoolInv' => freeCount' <= Len(FirstList)
<1>1. /\ Blocks = Elems(FirstList) /\ FirstList \in Seq(Blocks) /\ Distinct(FirstList)
  BY PoolAssumption DEF Blocks, Elems, Distinct
<1>2. ASSUME NEW q \in Seq(Blocks), Distinct(q) PROVE Len(q) \in 0 .. Len(FirstList)
  <2>1. /\ IsFiniteSet(Blocks) /\ Cardinality(Blocks) = Len(FirstList)
        /\ Cardinality(Elems(q)) = Len(q) /\ Elems(q) \in SUBSET Blocks
    BY <1>1, <1>2, ElemsCount, ElemsType
  <2>2. Len(q) <= Len(FirstList)
    BY <2>1, FS_Subset
  <2> QED
    BY <1>1, <2>2
<1>3. PoolInv => freeCount \in 0 .. Len(FirstList)
  BY <1>2 DEF PoolInv, CountIsList, Distinct
<1>4. PoolInv' => freeCount' <= Len(FirstList)
  <2>1. PoolInv' => list' \in Seq(Blocks) /\ Distinct(list') /\ freeCount' = Len(list')
    BY DEF PoolInv, CountIsList, Distinct
  <2>2. list' \in Seq(Blocks) /\ Distinct(list') => Len(list') \in 0 .. Len(FirstList)
    BY <1>2
  <2> QED
    BY <1>1, <2>1, <2>2
<1> QED
  BY <1>3, <1>4

\* The threads that are on their way are finitely many.
LEMMA WayFinite ==
  /\ IsFiniteSet(OnTheWay) /\ IsFiniteSet(OnTheWay')
  /\ Cardinality(OnTheWay) \in Nat /\ Cardinality(OnTheWay') \in Nat
<1>1. OnTheWay \in SUBSET Threads /\ OnTheWay' \in SUBSET Threads /\ IsFiniteSet(Threads)
  BY PoolAssumption DEF OnTheWay
<1>2. IsFiniteSet(OnTheWay) /\ IsFiniteSet(OnTheWay')
  BY <1>1, FS_Subset
<1> QED
  BY <1>2, FS_CardinalityType

\* The steps that neither suspend a thread nor make one ready.
LEMMA QuietStep ==
  ASSUME UNCHANGED vars \/ \E t \in Threads : Expire(t) \/ TimeoutAsserts(t)
  PROVE  UNCHANGED <<poolVars, suspended, pc, time, rem, error, since, asked, slept, lost>>
BY DEF Expire, TimeoutAsserts, vars, waitVars, histVars

\* What a release does: nobody sleeps, or the first that does is about to be timed out
\* and its wake-up is missed, or it is made ready.
LEMMA FreeEffect ==
  ASSUME CallTypes, ListInv, TimerInv, NEW b \in Blocks, Free(b)
  PROVE  /\ UNCHANGED <<time, since, asked, slept, fired, halted>>
         /\ \/ /\ suspended = <<>>
               /\ UNCHANGED <<suspended, pc, rem, error, masked, lost>>
            \/ /\ suspended # <<>> /\ UNCHANGED <<suspended, pc, rem, error>>
               /\ masked' \subseteq fired /\ masked \subseteq masked'
               /\ lost' = IF lost < Len(FirstList) THEN lost + 1 ELSE lost
            \/ \E h \in Threads :
                 /\ suspended # <<>> /\ pc[h] = "sleeping" /\ h \notin fired \ masked
                 /\ suspended' \in Seq(Threads) /\ Distinct(suspended')
                 /\ Elems(suspended') = Elems(suspended) \ {h}
                 /\ error' = [error EXCEPT ![h] = "ok"] /\ rem' = [rem EXCEPT ![h] = 0]
                 /\ pc' = [pc EXCEPT ![h] = "woken"]
                 /\ masked' = masked /\ lost' = IF suspended' = <<>> THEN 0 ELSE lost
<1>1. UNCHANGED <<time, since, asked, slept, fired, halted>>
  BY DEF Free, histVars
<1>2. CASE ~Wakes /\ UNCHANGED <<suspended, error, rem, pc, masked, lost>>
  BY <1>1, <1>2 DEF Wakes
<1> DEFINE h == Head(suspended)
<1>3. CASE Wakes /\ Unstoppable(h) /\ MissWakeUp(h)
  BY <1>1, <1>3 DEF Wakes, Unstoppable, MissWakeUp, TimerInv
<1>4. CASE Wakes /\ ~Unstoppable(h) /\ MakeReady(h)
  <2>1. /\ suspended # <<>> /\ h \in Threads /\ h \in Elems(suspended)
        /\ Tail(suspended) \in Seq(Threads) /\ Distinct(Tail(suspended))
        /\ Elems(Tail(suspended)) = Elems(suspended) \ {h}
    BY <1>4, TailElems DEF ListInv, Wakes
  <2>2. pc[h] = "sleeping"
    BY <2>1 DEF ListInv
  <2>3. /\ h \notin fired \ masked /\ suspended' = Tail(suspended)
        /\ error' = [error EXCEPT ![h] = "ok"] /\ rem' = [rem EXCEPT ![h] = 0]
        /\ pc' = [pc EXCEPT ![h] = "woken"]
        /\ masked' = masked /\ lost' = IF suspended' = <<>> THEN 0 ELSE lost
    BY <1>4 DEF Unstoppable, MakeReady, Goto
  <2> HIDE DEF h
  <2> QED
    BY <1>1, <2>1, <2>2, <2>3
<1> QED
  BY <1>2, <1>3, <1>4 DEF Free

\* Every step keeps the types.
LEMMA StepOfTypes ==
  ASSUME CallTypes, ListInv, TimerInv, [Next]_vars
  PROVE  CallTypes'
<1> USE TimesBounded
<1>1. ASSUME NEW t \in Threads, CallAlloc(t) PROVE CallTypes'
  BY <1>1 DEF CallTypes, CallAlloc, Goto, PCs
<1>2. ASSUME NEW t \in Threads, Return(t) PROVE CallTypes'
  BY <1>2 DEF CallTypes, Return, Goto, PCs
<1>3. ASSUME NEW t \in Threads, Take(t) \/ Refuse(t) PROVE CallTypes'
  BY <1>2, <1>3 DEF Take, Refuse
<1>4. ASSUME NEW t \in Threads, Sleep(t) PROVE CallTypes'
  BY <1>4 DEF CallTypes, Sleep, Goto, PCs, histVars
<1>5. ASSUME NEW t \in Threads, Woken(t) PROVE CallTypes'
  <2>1. TimeLeft(t) \in 0 .. MaxTicks \cup {-1}
    BY DEF CallTypes, TimeLeft
  <2>2. CASE error[t] # "ok"
    BY <1>2, <1>5, <2>2 DEF Woken
  <2>3. CASE error[t] = "ok"
    BY <1>5, <2>1, <2>3 DEF CallTypes, Woken, Goto, PCs, histVars
  <2> QED
    BY <2>2, <2>3
<1>6. ASSUME NEW b \in Blocks, Free(b) PROVE CallTypes'
  <2>1. CASE UNCHANGED <<pc, rem, error>>
    BY <1>6, <2>1 DEF CallTypes, Free, histVars
  <2>2. ASSUME NEW h \in Threads, error' = [error EXCEPT ![h] = "ok"],
               rem' = [rem EXCEPT ![h] = 0], pc' = [pc EXCEPT ![h] = "woken"],
               UNCHANGED <<time, since, asked, slept>>
        PROVE  CallTypes'
    BY <2>2 DEF CallTypes, PCs
  <2> QED
    BY <1>6, <2>1, <2>2, FreeEffect
<1>7. ASSUME Tick PROVE CallTypes'
  BY <1>7 DEF CallTypes, Tick, Up
<1>8. ASSUME NEW t \in Threads, ThreadTimeout(t) PROVE CallTypes'
  BY <1>8 DEF CallTypes, ThreadTimeout, Goto, PCs, histVars
<1>9. ASSUME UNCHANGED vars \/ \E t \in Threads : Expire(t) \/ TimeoutAsserts(t)
      PROVE  CallTypes'
  BY <1>9, QuietStep DEF CallTypes
<1> QED
  BY <1>1, <1>3, <1>4, <1>5, <1>6, <1>7, <1>8, <1>9 DEF Next, Step, Timer

\* The list holds, once, those that sleep: who goes to sleep is appended, who is made
\* ready or times out is taken off.
LEMMA StepOfList ==
  ASSUME CallTypes, ListInv, TimerInv, [Next]_vars
  PROVE  ListInv'
<1> USE DEF CallTypes
<1>1. ASSUME NEW t \in Threads,
             pc[t] # "sleeping", NEW l, l # "sleeping", Goto(t, l), UNCHANGED suspended
      PROVE  ListInv'
  BY <1>1 DEF ListInv, Goto
<1>2. ASSUME NEW t \in Threads, CallAlloc(t) PROVE ListInv'
  BY <1>1, <1>2 DEF CallAlloc
<1>3. ASSUME NEW t \in Threads, Take(t) \/ Refuse(t) PROVE ListInv'
  BY <1>1, <1>3 DEF Take, Refuse, Return, AtLoop
<1>4. ASSUME NEW t \in Threads, Sleep(t) PROVE ListInv'
  <2>1. pc[t] # "sleeping" /\ suspended' = Append(suspended, t) /\ Goto(t, "sleeping")
    BY <1>4 DEF Sleep, AtLoop
  <2>2. t \notin Elems(suspended)
    BY <2>1 DEF ListInv
  <2>3. /\ suspended' \in Seq(Threads) /\ Distinct(suspended')
        /\ Elems(suspended') = Elems(suspended) \cup {t}
    BY <2>1, <2>2, AppendedElems DEF ListInv
  <2> QED
    BY <2>1, <2>3 DEF ListInv, Goto
<1>5. ASSUME NEW t \in Threads, Woken(t) PROVE ListInv'
  BY <1>1, <1>5 DEF Woken, Return
<1>6. ASSUME NEW b \in Blocks, Free(b) PROVE ListInv'
  <2>1. CASE UNCHANGED <<suspended, pc>>
    BY <2>1 DEF ListInv
  <2>2. ASSUME NEW h \in Threads, pc[h] = "sleeping", pc' = [pc EXCEPT ![h] = "woken"],
               suspended' \in Seq(Threads), Distinct(suspended'),
               Elems(suspended') = Elems(suspended) \ {h}
        PROVE  ListInv'
    BY <2>2 DEF ListInv
  <2> QED
    BY <1>6, <2>1, <2>2, FreeEffect
<1>7. ASSUME NEW t \in Threads, ThreadTimeout(t) PROVE ListInv'
  <2>1. pc[t] = "sleeping" /\ suspended' = Removed(suspended, t) /\ Goto(t, "woken")
    BY <1>7 DEF ThreadTimeout, Unlisted
  <2>2. t \in Elems(suspended)
    BY <2>1 DEF ListInv
  <2>3. /\ suspended' \in Seq(Threads) /\ Distinct(suspended')
        /\ Elems(suspended') = Elems(suspended) \ {t}
    BY <2>1, <2>2, RemovedElems DEF ListInv
  <2> QED
    BY <2>1, <2>3 DEF ListInv, Goto
<1>8. ASSUME UNCHANGED vars \/ \E t \in Threads : Expire(t) \/ TimeoutAsserts(t)
      PROVE  ListInv'
  BY <1>8, QuietStep DEF ListInv
<1>9. CASE Tick
  BY <1>9 DEF ListInv, Tick
<1> QED
  BY <1>2, <1>3, <1>4, <1>5, <1>6, <1>7, <1>8, <1>9 DEF Next, Step, Timer

\* A fired thread sleeps until it is timed out or a release tries to wake it: threads do
\* not run meanwhile, and a handler makes it ready only the second time.
LEMMA StepOfTimers ==
  ASSUME CallTypes, ListInv, TimerInv, [Next]_vars
  PROVE  TimerInv'
<1>0. /\ pc \in [Threads -> PCs] /\ fired \subseteq Threads /\ masked \subseteq fired
      /\ halted \in BOOLEAN /\ lost \in 0 .. Len(FirstList)
      /\ \A t \in fired \ masked : pc[t] = "sleeping"
      /\ Len(FirstList) \in Nat
  BY PoolAssumption DEF CallTypes, TimerInv, TimeoutFindsSuspended
<1>1. ASSUME NEW t \in Threads, pc[t] # "sleeping", NEW l, Goto(t, l),
             UNCHANGED <<fired, masked, halted>>, lost' \in {0, lost}
      PROVE  TimerInv'
  BY <1>0, <1>1 DEF TimerInv, TimeoutFindsSuspended, Goto
<1>2. ASSUME NEW t \in Threads, CallAlloc(t) \/ Step(t) PROVE TimerInv'
  <2>1. /\ pc[t] # "sleeping" /\ UNCHANGED <<fired, masked, halted>> /\ lost' \in {0, lost}
    BY <1>2 DEF CallAlloc, Step, Take, Refuse, Sleep, Woken, AtLoop, tickVars
  <2>2. \E l : Goto(t, l)
    BY <1>2 DEF CallAlloc, Step, Take, Refuse, Sleep, Woken, Return
  <2> QED
    BY <1>1, <2>1, <2>2
<1>3. ASSUME NEW b \in Blocks, Free(b) PROVE TimerInv'
  <2>1. UNCHANGED <<fired, halted>>
    BY <1>3, FreeEffect
  <2>2. CASE UNCHANGED <<pc, masked, lost>>
    BY <1>0, <2>1, <2>2 DEF TimerInv, TimeoutFindsSuspended
  <2>3. CASE /\ pc' = pc /\ masked' \subseteq fired /\ masked \subseteq masked'
             /\ lost' = IF lost < Len(FirstList) THEN lost + 1 ELSE lost
    BY <1>0, <2>1, <2>3 DEF TimerInv, TimeoutFindsSuspended
  <2>4. ASSUME NEW h \in Threads, h \notin fired \ masked, pc' = [pc EXCEPT ![h] = "woken"],
               masked' = masked, lost' \in {0, lost}
        PROVE  TimerInv'
    BY <1>0, <2>1, <2>4 DEF TimerInv, TimeoutFindsSuspended
  <2> QED
    BY <1>3, <2>2, <2>3, <2>4, FreeEffect
<1>4. ASSUME NEW t \in Threads, ThreadTimeout(t) PROVE TimerInv'
  <2>1. fired' = {} /\ masked' = {} /\ halted' = halted /\ lost' \in {0, lost}
    BY <1>4 DEF ThreadTimeout
  <2> QED
    BY <1>0, <2>1 DEF TimerInv, TimeoutFindsSuspended
<1>5. ASSUME NEW t \in Threads, Expire(t) PROVE TimerInv'
  <2>1. fired' = {t} /\ masked' = {} /\ pc[t] = "sleeping" /\ UNCHANGED <<pc, halted, lost>>
    BY <1>5 DEF Expire, Due
  <2> QED
    BY <1>0, <2>1 DEF TimerInv, TimeoutFindsSuspended
<1>6. ASSUME NEW t \in Threads, TimeoutAsserts(t) PROVE TimerInv'
  <2>1. halted' = TRUE /\ UNCHANGED <<pc, fired, masked, lost>>
    BY <1>6 DEF TimeoutAsserts
  <2> QED
    BY <1>0, <2>1 DEF TimerInv, TimeoutFindsSuspended
<1>7. CASE Tick \/ UNCHANGED vars
  <2>1. UNCHANGED <<pc, fired, masked, halted, lost>>
    BY <1>7 DEF Tick, vars, tickVars
  <2> QED
    BY <1>0, <2>1 DEF TimerInv, TimeoutFindsSuspended
<1> QED
  BY <1>2, <1>3, <1>4, <1>5, <1>6, <1>7 DEF Next, Timer

\* Nobody sleeps on a block for which neither somebody else is on its way nor a wake-up was
\* missed: a thread that takes a block leaves one less, a release sends another on its way
\* or misses a wake-up, and a thread goes to sleep only when no block is left.
LEMMA StepOfWay ==
  ASSUME PoolInv, PoolInv', CallTypes, ListInv, TimerInv, NoLostBlock, [Next]_vars
  PROVE  NoLostBlock'
<1>0. /\ freeCount \in Nat
      /\ NoLostBlock <=> (suspended # <<>> => freeCount <= Cardinality(OnTheWay) + lost)
      /\ NoLostBlock' <=> (suspended' # <<>> => freeCount' <= Cardinality(OnTheWay') + lost')
      /\ pc \in [Threads -> PCs] /\ error \in [Threads -> {"ok", "timeout"}]
      /\ suspended \in Seq(Threads) /\ lost \in Nat
  BY DEF PoolInv, CountIsList, NoLostBlock, CallTypes, ListInv, TimerInv
<1>l. lost' \in Nat
  BY StepOfTimers DEF TimerInv
<1>1. ASSUME OnTheWay \subseteq OnTheWay', freeCount' = freeCount, suspended # <<>>, lost' = lost
      PROVE  NoLostBlock'
  BY <1>0, <1>1, WayFinite, FS_Subset
<1>2. ASSUME freeCount' = 0
      PROVE  NoLostBlock'
  BY <1>0, <1>l, <1>2, WayFinite
<1>3. ASSUME NEW t \in Threads, CallAlloc(t) PROVE NoLostBlock'
  <2>1. pc[t] = "idle" /\ pc' = [pc EXCEPT ![t] = "alloc"]
        /\ UNCHANGED <<error, freeCount, suspended, lost>>
    BY <1>3 DEF CallAlloc, Goto, poolVars
  <2>2. OnTheWay \subseteq OnTheWay'
    BY <1>0, <2>1 DEF OnTheWay
  <2> QED
    BY <1>0, <1>1, <2>1, <2>2
<1>4. ASSUME NEW t \in Threads, Take(t) PROVE NoLostBlock'
  <2>1. /\ pc' = [pc EXCEPT ![t] = "idle"] /\ error' = [error EXCEPT ![t] = "ok"]
        /\ suspended' = suspended /\ freeCount' = freeCount - 1
        /\ freeCount' # 0 => lost' = lost
    BY <1>4 DEF Take, Return, Goto
  <2>2. OnTheWay \ {t} \subseteq OnTheWay'
    BY <1>0, <2>1 DEF OnTheWay
  <2>3. Cardinality(OnTheWay) - 1 <= Cardinality(OnTheWay')
    BY <2>2, WayFinite, CountLosesOne
  <2>4. CASE freeCount' # 0
    BY <1>0, <2>1, <2>3, <2>4, WayFinite
  <2> QED
    BY <1>2, <2>4
<1>5. ASSUME NEW t \in Threads, Refuse(t) \/ Sleep(t) PROVE NoLostBlock'
  BY <1>2, <1>5 DEF Refuse, Sleep, poolVars
<1>6. ASSUME NEW t \in Threads, Woken(t) PROVE NoLostBlock'
  <2>1. /\ pc[t] = "woken" /\ UNCHANGED <<freeCount, suspended, lost>>
        /\ \/ /\ error[t] # "ok" /\ pc' = [pc EXCEPT ![t] = "idle"]
              /\ error' = [error EXCEPT ![t] = "ok"]
           \/ error[t] = "ok" /\ pc' = [pc EXCEPT ![t] = "again"] /\ error' = error
    BY <1>6 DEF Woken, Return, Goto, poolVars
  <2>2. OnTheWay \subseteq OnTheWay'
    BY <1>0, <2>1 DEF OnTheWay
  <2> QED
    BY <1>0, <1>1, <2>1, <2>2
<1>7. ASSUME NEW b \in Blocks, Free(b) PROVE NoLostBlock'
  <2>1. freeCount' = freeCount + 1 /\ freeCount' <= Len(FirstList)
    <3>1. freeCount' = freeCount + 1
      BY <1>7 DEF Free, CountMore
    <3>2. freeCount' <= Len(FirstList)
      BY CountBounded
    <3> QED
      BY <3>1, <3>2
  <2>2. CASE suspended' = <<>>
    BY <1>0, <2>2
  <2>3. CASE /\ suspended # <<>> /\ UNCHANGED <<suspended, pc, error>>
             /\ lost' = IF lost < Len(FirstList) THEN lost + 1 ELSE lost
    <3>1. OnTheWay' = OnTheWay
      BY <2>3 DEF OnTheWay
    <3>2. Len(FirstList) \in Nat
      BY PoolAssumption
    <3> QED
      BY <1>0, <2>1, <2>3, <3>1, <3>2, WayFinite
  <2>4. ASSUME NEW h \in Threads, suspended # <<>>, pc[h] = "sleeping",
               error' = [error EXCEPT ![h] = "ok"], pc' = [pc EXCEPT ![h] = "woken"],
               suspended' # <<>>, lost' = lost
        PROVE  NoLostBlock'
    <3>1. h \in OnTheWay' /\ h \notin OnTheWay /\ OnTheWay \subseteq OnTheWay'
      BY <1>0, <2>4 DEF OnTheWay
    <3>2. Cardinality(OnTheWay) + 1 <= Cardinality(OnTheWay')
      BY <3>1, WayFinite, CountGainsOne
    <3> QED
      BY <1>0, <2>1, <2>4, <3>2, WayFinite
  <2> QED
    BY <1>7, <2>2, <2>3, <2>4, FreeEffect
<1>8. ASSUME NEW t \in Threads, ThreadTimeout(t) PROVE NoLostBlock'
  <2>1. /\ pc[t] = "sleeping" /\ pc' = [pc EXCEPT ![t] = "woken"]
        /\ error' = [error EXCEPT ![t] = "timeout"] /\ freeCount' = freeCount
        /\ suspended' # <<>> => lost' = lost
    BY <1>8 DEF ThreadTimeout, Goto, poolVars
  <2>2. OnTheWay \subseteq OnTheWay'
    BY <1>0, <2>1 DEF OnTheWay
  <2>3. suspended # <<>>
    BY <2>1, ElemsType DEF ListInv
  <2>4. CASE suspended' = <<>>
    BY <1>0, <2>4
  <2> QED
    BY <1>1, <2>1, <2>2, <2>3, <2>4
<1>9. ASSUME Tick \/ UNCHANGED vars \/ \E t \in Threads : Expire(t) \/ TimeoutAsserts(t)
      PROVE  NoLostBlock'
  <2>1. UNCHANGED <<pc, error, freeCount, suspended, lost>>
    <3>1. CASE Tick
      BY <3>1 DEF Tick, poolVars
    <3> QED
      BY <1>9, <3>1, QuietStep DEF poolVars
  <2>2. OnTheWay' = OnTheWay
    BY <2>1 DEF OnTheWay
  <2> QED
    BY <1>0, <2>1, <2>2
<1> QED
  BY <1>3, <1>4, <1>5, <1>6, <1>7, <1>8, <1>9 DEF Next, Step, Timer

\* No step lets a thread be suspended for longer than it asked for in all.
LEMMA StepOfBudget ==
  ASSUME CallTypes, ListInv, TimerInv, BudgetInv, [Next]_vars
  PROVE  BudgetInv'
<1> USE TimesBounded
<1>1. ASSUME NEW t \in Threads, CallAlloc(t) PROVE BudgetInv'
  BY <1>1 DEF BudgetInv, CallTypes, CallAlloc, Goto, TimeLeft
<1>2. ASSUME NEW t \in Threads, Return(t) PROVE BudgetInv'
  BY <1>2 DEF BudgetInv, CallTypes, Return, Goto, TimeLeft
<1>3. ASSUME NEW t \in Threads, Take(t) \/ Refuse(t) PROVE BudgetInv'
  BY <1>2, <1>3 DEF Take, Refuse
<1>4. ASSUME NEW t \in Threads, Sleep(t) PROVE BudgetInv'
  BY <1>4 DEF BudgetInv, CallTypes, Sleep, AtLoop, Goto, histVars, TimeLeft
<1>5. ASSUME NEW t \in Threads, Woken(t) PROVE BudgetInv'
  <2>1. CASE error[t] # "ok"
    BY <1>2, <1>5, <2>1 DEF Woken
  <2>2. CASE error[t] = "ok"
    BY <1>5, <2>2 DEF BudgetInv, CallTypes, Woken, Goto, histVars, TimeLeft
  <2> QED
    BY <2>1, <2>2
<1>6. ASSUME NEW b \in Blocks, Free(b) PROVE BudgetInv'
  <2>1. CASE UNCHANGED <<pc, rem, time, since, asked, slept>>
    BY <2>1 DEF BudgetInv, TimeLeft
  <2>2. ASSUME NEW h \in Threads, pc[h] = "sleeping", rem' = [rem EXCEPT ![h] = 0],
               pc' = [pc EXCEPT ![h] = "woken"], UNCHANGED <<time, since, asked, slept>>
        PROVE  BudgetInv'
    BY <2>2 DEF BudgetInv, CallTypes, TimeLeft
  <2> QED
    BY <1>6, <2>1, <2>2, FreeEffect
<1>7. ASSUME Tick PROVE BudgetInv'
  BY <1>7 DEF BudgetInv, CallTypes, Tick, TickDone, Due, Up, TimeLeft
<1>8. ASSUME NEW t \in Threads, ThreadTimeout(t) PROVE BudgetInv'
  BY <1>8 DEF BudgetInv, CallTypes, ThreadTimeout, Goto, histVars, TimeLeft
<1>9. ASSUME UNCHANGED vars \/ \E t \in Threads : Expire(t) \/ TimeoutAsserts(t)
      PROVE  BudgetInv'
  BY <1>9, QuietStep DEF BudgetInv, TimeLeft
<1> QED
  BY <1>1, <1>3, <1>4, <1>5, <1>6, <1>7, <1>8, <1>9 DEF Next, Step, Timer

\* At the start nobody sleeps.
LEMMA WaitInit == Init => WaitInv /\ BudgetInv
<1> SUFFICES ASSUME Init
             PROVE  WaitInv /\ BudgetInv
  OBVIOUS
<1>1. /\ suspended = <<>>
      /\ pc = [t \in Threads |-> "idle"]
      /\ time = [t \in Threads |-> 0] /\ rem = [t \in Threads |-> 0]
      /\ error = [t \in Threads |-> "ok"] /\ since = [t \in Threads |-> 0]
      /\ asked = [t \in Threads |-> 0] /\ slept = [t \in Threads |-> 0]
      /\ fired = {} /\ masked = {} /\ halted = FALSE /\ lost = 0
  BY Zenon DEF Init
<1>2. CallTypes
  BY <1>1, TimesBounded DEF CallTypes, PCs
<1>3. ListInv
  BY <1>1 DEF ListInv, Elems, Distinct
<1>4. NoLostBlock
  BY <1>1 DEF NoLostBlock
<1>5. BudgetInv
  BY <1>1 DEF BudgetInv
<1>6. TimerInv
  <2>1. 0 \in 0 .. Len(FirstList)
    BY PoolAssumption
  <2>2. TimeoutFindsSuspended
    BY <1>1 DEF TimeoutFindsSuspended
  <2>3. lost \in 0 .. Len(FirstList)
    BY <1>1, <2>1
  <2>4. fired \in SUBSET Threads /\ masked \in SUBSET Threads
    BY <1>1
  <2> QED
    BY <1>1, <2>2, <2>3, <2>4 DEF TimerInv
<1> QED
  BY <1>2, <1>3, <1>4, <1>5, <1>6 DEF WaitInv

\* Who sleeps is in the list and no wake-up is lost, in every step.
LEMMA WaitAlways == Spec => [](PoolInv /\ WaitInv /\ BudgetInv)
<1>1. Init => PoolInv /\ WaitInv /\ BudgetInv
  BY PoolInit, WaitInit
<1>2. PoolInv /\ WaitInv /\ BudgetInv /\ [Next]_vars => (PoolInv /\ WaitInv /\ BudgetInv)'
  BY StepOfPool, StepOfTypes, StepOfList, StepOfTimers, StepOfWay, StepOfBudget DEF WaitInv
<1> QED
  BY <1>1, <1>2, PTL DEF Spec

\* Count, list and what is out agree, every variable keeps its range, who sleeps is in
\* the list of the suspended, once, a timeout finds its thread suspended unless a release
\* tried to wake it, and nobody sleeps on a free block for which neither another thread is
\* on its way nor a wake-up was missed, whatever threads allocate, handlers release, also
\* between the removal of a timer and the timeout, and time runs out: rt_mp_free wakes one
\* thread and does not hand it the block.
THEOREM PoolAlwaysOK == Spec => []PoolOK
<1>1. ASSUME PoolInv, WaitInv PROVE PoolOK
  <2>1. TypeOK
    <3>1. freeCount \in 0 .. Len(FirstList)
      BY <1>1, CountBounded
    <3> QED
      BY <1>1, <3>1 DEF TypeOK, PoolInv, WaitInv, CallTypes, ListInv, TimerInv
  <2>2. CountIsList
    BY <1>1 DEF PoolInv
  <2>3. SleepersListed
    <3>1. /\ suspended \in Seq(Threads) /\ Distinct(suspended)
          /\ Elems(suspended) = {t \in Threads : pc[t] = "sleeping"}
      BY <1>1 DEF WaitInv, ListInv
    <3>2. Cardinality({t \in Threads : pc[t] = "sleeping"}) = Len(suspended)
      BY <3>1, ElemsCount
    <3>3. \A i \in 1 .. Len(suspended) : suspended[i] \in Elems(suspended)
      BY DEF Elems
    <3> QED
      BY <3>1, <3>2, <3>3 DEF SleepersListed
  <2> QED
    BY <1>1, <2>1, <2>2, <2>3 DEF PoolOK, WaitInv, TimerInv
<1> QED
  BY <1>1, WaitAlways, PTL

\* An allocation that asks for a number of ticks is suspended no longer than that in all,
\* however often rt_mp_free wakes it and somebody else takes the block: rt_mp_alloc takes
\* the ticks of each sleep off the time it has left.
THEOREM NeverSleepsLonger == Spec => []SleepsNoLonger
<1>1. ASSUME WaitInv, BudgetInv, NEW t \in Threads, asked[t] > 0
      PROVE  slept[t] <= asked[t]
  <2>1. /\ pc[t] \in PCs /\ slept[t] \in Nat /\ asked[t] \in Nat /\ rem[t] \in Nat
        /\ since[t] \in Nat /\ pc[t] # "idle"
    BY <1>1, TimesBounded DEF WaitInv, CallTypes, BudgetInv
  <2>2. TimeLeft(t) \in Nat /\ time[t] \in Nat
    BY <1>1, <2>1 DEF BudgetInv, TimeLeft
  <2> QED
    BY <1>1, <2>1, <2>2 DEF BudgetInv, PCs
<1>2. WaitInv /\ BudgetInv => SleepsNoLonger
  BY <1>1 DEF SleepsNoLonger
<1> QED
  BY <1>2, WaitAlways, PTL
=============================================================================
