------------------------- MODULE AudioReplayProofs -------------------------
(***************************************************************************)
(* Proofs about AudioReplay, for one player at a time, every size of       *)
(* frame, block, queue and pool and every sequence of writes: type         *)
(* correctness, the conservation of the blocks, the contents of the queue  *)
(* and the room in it, the ownership of the halves of the FIFO, the single *)
(* start, the order of what is heard and what a stop loses.                *)
(***************************************************************************)
EXTENDS AudioReplay, FiniteSetTheorems, SequenceTheorems, TLAPS

-----------------------------------------------------------------------------
(* Type correctness.  TypeOK is not inductive: that readIndex stays inside  *)
(* a block, and that what is queued is a block, take two more facts.        *)

\* The read index is inside the block at the head, and 0 without one.
HeadInv == IF queue = <<>> THEN readIndex = 0 ELSE readIndex < queue[1].size

\* Whoever copies or queues has a block.
FillInv ==
  (writeIndex # 0 \/ \E c \in Clients : pc[c] \in {"copy", "push"}) => writeData \in Blocks

TypeInv == TypeOK /\ HeadInv /\ FillInv

\* Reducing modulo m by at most one subtraction stays below m.
LEMMA WrapRange ==
  ASSUME NEW m \in Nat \ {0}, NEW x \in 0 .. 2 * m - 1
  PROVE  Wrap(x, m) \in 0 .. m - 1
BY DEF Wrap

\* The initial state is well typed.
LEMMA TypeInit == Init => TypeInv
<1> SUFFICES ASSUME Init PROVE TypeInv
  OBVIOUS
<1> USE ConstantsAssumption
<1>1. DevOK /\ CtlOK /\ FormatOK /\ HistOK
  <2>1. /\ refCount = 0 /\ openFlag = {} /\ activated = FALSE /\ stopEvent = FALSE
        /\ bits = FALSE /\ timer = FALSE /\ stream = 0 /\ accepted = 0 /\ heard = 0 /\ stale = FALSE
    BY Zenon DEF Init
  <2> QED
    BY <2>1 DEF DevOK, CtlOK, FormatOK, HistOK
<1>2. FillOK /\ QueueOK /\ SyncOK /\ PosOK /\ IsrOK /\ HeadInv
  <2>1. /\ writeData = None /\ writeIndex = 0 /\ queue = <<>> /\ readIndex = 0
        /\ lock = None /\ cmp = [done |-> FALSE, waiter |-> None] /\ pos = 0
        /\ isr = "idle" /\ index = 0 /\ remain = 0
    BY Zenon DEF Init
  <2> QED
    BY <2>1 DEF FillOK, QueueOK, SyncOK, PosOK, IsrOK, HeadInv, Total
<1>3. PoolOK /\ DmaOK
  <2>1. /\ free = Blocks
        /\ mem = [b \in Blocks |-> [i \in 0 .. BlockLen - 1 |-> Silence]]
        /\ running = FALSE /\ half = 0 /\ irq = FALSE
        /\ fifo = [i \in 0 .. Total - 1 |-> Silence]
    BY Zenon DEF Init
  <2> QED
    BY <2>1 DEF PoolOK, DmaOK, Silence, Sample
<1>4. ThreadOK /\ FillInv
  <2>1. /\ pc = [c \in Clients |-> "idle"] /\ left = [c \in Clients |-> 0]
        /\ writeIndex = 0
    BY Zenon DEF Init
  <2> QED
    BY <2>1 DEF ThreadOK, PCs, FillInv
<1> QED
  BY <1>1, <1>2, <1>3, <1>4 DEF TypeInv, TypeOK


\* What an action leaves alone stays well typed.
LEMMA TypeFrame ==
  ASSUME TypeOK
  PROVE  /\ UNCHANGED devVars => DevOK'
         /\ UNCHANGED ctlVars => CtlOK'
         /\ UNCHANGED fillVars => FillOK'
         /\ UNCHANGED queueVars => QueueOK'
         /\ UNCHANGED poolVars => PoolOK'
         /\ UNCHANGED syncVars => SyncOK'
         /\ UNCHANGED dmaVars => DmaOK'
         /\ UNCHANGED formatVars => FormatOK'
         /\ UNCHANGED isrVars => IsrOK'
         /\ UNCHANGED threadVars => ThreadOK'
         /\ UNCHANGED histVars => HistOK'
         /\ UNCHANGED pos => PosOK'
BY ZenonT(60) DEF TypeOK, DevOK, CtlOK, FillOK, QueueOK, PoolOK, SyncOK, DmaOK, FormatOK, IsrOK, ThreadOK,
   HistOK, PosOK, devVars, ctlVars, fillVars, queueVars, poolVars, syncVars, dmaVars, formatVars,
   isrVars, threadVars, histVars

\* The same for the two facts TypeInv adds.
LEMMA InvFrame ==
  ASSUME TypeInv
  PROVE  /\ UNCHANGED queueVars => HeadInv'
         /\ UNCHANGED <<fillVars, threadVars>> => FillInv'
         /\ \A c \in Clients, label \in PCs \ {"copy", "push"} :
              UNCHANGED fillVars /\ Goto(c, label) => FillInv'
BY DEF TypeInv, TypeOK, ThreadOK, HeadInv, FillInv, Goto, queueVars, fillVars, threadVars

\* A thread goes on to another label with what is left of its write.
LEMMA TypeGoto ==
  ASSUME TypeOK, NEW c \in Clients, NEW label \in PCs, Goto(c, label), UNCHANGED left
  PROVE  ThreadOK'
BY DEF TypeOK, ThreadOK, Goto

\* The head of a queue with something in it, and what is left without it.
LEMMA HeadType ==
  ASSUME NEW q \in Seq(Item), q # <<>>
  PROVE  Head(q) = q[1] /\ q[1] \in Item /\ Tail(q) \in Seq(Item)
<1>1. Len(q) \in Nat \ {0}
  OBVIOUS
<1> QED
  BY <1>1

\* Every step of a player keeps the types.
LEMMA TypeThread ==
  ASSUME TypeInv, NEW c \in Clients, Call(c) \/ Step(c)
  PROVE  TypeInv'
<1> USE ConstantsAssumption
<1>1. CASE Open(c)
  <2>1. /\ writeIndex' \in {writeIndex, 0} /\ writeData' = writeData
        /\ readIndex' \in {readIndex, 0} /\ queue' = queue
        /\ pos' \in {pos, 0} /\ (stopEvent' = stopEvent \/ stopEvent' = FALSE) /\ activated' = activated
        /\ stream' \in {stream, stream + 1} /\ accepted' \in {accepted, 0} /\ heard' \in {heard, 0}
        /\ stale' = stale \/ stale' = FALSE
    BY <1>1 DEF Open, ResetReplay, queueVars, histVars
  <2>2. DevOK'
    BY <1>1 DEF Open, TypeInv, TypeOK, DevOK
  <2>3. CtlOK' /\ FillOK' /\ HistOK' /\ PosOK'
    <3>1. CtlOK'
      BY <2>1 DEF TypeInv, TypeOK, CtlOK
    <3>2. FillOK' /\ HistOK'
      <4>1. stale' \in BOOLEAN
        BY <2>1 DEF TypeInv, TypeOK, HistOK
      <4> QED
        BY <2>1, <4>1 DEF TypeInv, TypeOK, FillOK, HistOK
    <3>3. PosOK'
      BY <2>1 DEF TypeInv, TypeOK, PosOK, Total
    <3> QED
      BY <3>1, <3>2, <3>3
  <2>4. QueueOK' /\ HeadInv'
    <3>1. QueueOK'
      BY <2>1 DEF TypeInv, TypeOK, QueueOK
    <3>2. HeadInv'
      <4>1. queue # <<>> => queue[1].size > 0
        <5>1. queue # <<>> => queue[1] \in Item
          BY HeadType DEF TypeInv, TypeOK, QueueOK
        <5> QED
          BY <5>1 DEF Item
      <4> QED
        BY <2>1, <4>1 DEF TypeInv, HeadInv
    <3> QED
      BY <3>1, <3>2
  <2>5. ThreadOK'
    BY <1>1, TypeGoto DEF Open, TypeInv, PCs, InOpen
  <2>6. FillInv'
    BY <1>1, <2>1 DEF Open, Goto, TypeInv, TypeOK, ThreadOK, FillInv
  <2> QED
    BY <1>1, <2>2, <2>3, <2>4, <2>5, <2>6, TypeFrame DEF Open, TypeInv, TypeOK
<1>2. CASE Opened(c)
  <2>1. DevOK'
    BY <1>2 DEF Opened, TypeInv, TypeOK, DevOK
  <2>2. (ThreadOK /\ FillInv)'
    BY <1>2, TypeGoto, InvFrame DEF Opened, TypeInv, PCs, InOpen
  <2> QED
    BY <1>2, <2>1, <2>2, TypeFrame, InvFrame DEF Opened, TypeInv, TypeOK
<1>3. CASE Configure(c)
  <2>1. (DmaOK /\ FormatOK)'
    BY <1>3 DEF Configure, TypeInv, TypeOK, DmaOK, FormatOK
  <2>2. (ThreadOK /\ FillInv)'
    BY <1>3, TypeGoto, InvFrame DEF Configure, TypeInv, PCs
  <2> QED
    BY <1>3, <2>1, <2>2, TypeFrame, InvFrame DEF Configure, TypeInv, TypeOK
<1>5. CASE Write(c)
  <2>1. ThreadOK'
    BY <1>5 DEF Write, Goto, TypeInv, TypeOK, ThreadOK, PCs, InWrite
  <2>2. FillInv'
    BY <1>5, InvFrame DEF Write, PCs, InWrite
  <2> QED
    BY <1>5, <2>1, <2>2, TypeFrame, InvFrame DEF Write, TypeInv, TypeOK
<1>6. CASE TakeLock(c)
  <2>1. SyncOK'
    BY <1>6 DEF TakeLock, TypeInv, TypeOK, SyncOK, syncVars
  <2>2. (ThreadOK /\ FillInv)'
    BY <1>6, TypeGoto, InvFrame DEF TakeLock, TypeInv, PCs, InWrite
  <2> QED
    BY <1>6, <2>1, <2>2, TypeFrame, InvFrame DEF TakeLock, TypeInv, TypeOK
<1>7. CASE NextBlock(c)
  <2>1. ThreadOK'
    BY <1>7, TypeGoto DEF NextBlock, TypeInv, PCs, InWrite
  <2>2. FillInv'
    BY <1>7 DEF NextBlock, Goto, TypeInv, TypeOK, ThreadOK, FillInv, fillVars
  <2> QED
    BY <1>7, <2>1, <2>2, TypeFrame, InvFrame DEF NextBlock, TypeInv, TypeOK
<1>8. CASE Alloc(c)
  <2>1. FillOK'
    BY <1>8 DEF Alloc, TypeInv, TypeOK, FillOK, PoolOK
  <2>2. PoolOK'
    BY <1>8 DEF Alloc, TypeInv, TypeOK, PoolOK, Silence, Sample
  <2>3. ThreadOK'
    BY <1>8, TypeGoto DEF Alloc, TypeInv, PCs, InWrite
  <2>4. FillInv'
    BY <1>8 DEF Alloc, TypeInv, TypeOK, PoolOK, FillInv
  <2> QED
    BY <1>8, <2>1, <2>2, <2>3, <2>4, TypeFrame, InvFrame DEF Alloc, TypeInv, TypeOK
<1>9. CASE Copy(c)
  <2> DEFINE n == Taken(c)
             next == Wrap(writeIndex + n, BlockLen)
  <2>1. /\ writeIndex \in 0 .. BlockLen - 1 /\ left[c] \in Nat /\ accepted \in Nat /\ stream \in Nat
        /\ writeData \in Blocks
    BY <1>9 DEF Copy, TypeInv, TypeOK, FillOK, ThreadOK, HistOK, FillInv
  <2>2. n \in 0 .. BlockLen - writeIndex /\ left[c] - n \in Nat
    BY <2>1 DEF Taken, Min2
  <2>3. next \in 0 .. BlockLen - 1
    BY <2>1, <2>2 DEF Wrap
  <2> HIDE DEF n
  <2>4. FillOK' /\ HistOK'
    <3>1. accepted' = accepted + n /\ writeIndex' = next /\ UNCHANGED <<writeData, stream, heard, stale>>
      BY <1>9 DEF Copy, n
    <3>2. stale' \in BOOLEAN /\ heard \in Nat
      BY <3>1 DEF TypeInv, TypeOK, HistOK
    <3>3. FillOK'
      BY <2>1, <2>3, <3>1 DEF FillOK
    <3> QED
      BY <2>1, <2>2, <3>1, <3>2, <3>3 DEF HistOK
  <2>5. PoolOK'
    <3>1. mem' = [mem EXCEPT ![writeData] =
                    [i \in 0 .. BlockLen - 1 |->
                       IF i >= writeIndex /\ i < writeIndex + n
                       THEN [s |-> stream, n |-> accepted + 1 + i - writeIndex]
                       ELSE mem[writeData][i]]]
      BY <1>9 DEF Copy, n
    <3>2. ASSUME NEW i \in 0 .. BlockLen - 1
          PROVE  (IF i >= writeIndex /\ i < writeIndex + n
                  THEN [s |-> stream, n |-> accepted + 1 + i - writeIndex]
                  ELSE mem[writeData][i]) \in Sample
      BY <2>1 DEF TypeInv, TypeOK, PoolOK, Sample
    <3> QED
      BY <1>9, <2>1, <3>1, <3>2 DEF Copy, TypeInv, TypeOK, PoolOK
  <2>6. ThreadOK' /\ FillInv'
    BY <1>9, <2>1, <2>2 DEF Copy, n, Goto, TypeInv, TypeOK, ThreadOK, PCs, InWrite, FillInv
  <2> QED
    BY <1>9, <2>4, <2>5, <2>6, TypeFrame, InvFrame DEF Copy, TypeInv, TypeOK
<1>10. CASE Push(c)
  <2>1. QueueOK'
    BY <1>10, ConstantsAssumption DEF Push, TypeInv, TypeOK, Item, QueueOK, FillInv
  <2>2. HeadInv'
    BY <1>10 DEF Push, TypeInv, TypeOK, Item, QueueOK, HeadInv
  <2>3. (ThreadOK /\ FillInv)'
    BY <1>10, TypeGoto, InvFrame DEF Push, TypeInv, PCs, InWrite
  <2> QED
    BY <1>10, <2>1, <2>2, <2>3, TypeFrame, InvFrame DEF Push, TypeInv, TypeOK
<1>11. CASE ReleaseLock(c)
  <2>1. SyncOK'
    BY <1>11 DEF ReleaseLock, TypeInv, TypeOK, SyncOK, syncVars
  <2>2. (ThreadOK /\ FillInv)'
    BY <1>11, TypeGoto, InvFrame DEF ReleaseLock, TypeInv, PCs, InWrite
  <2> QED
    BY <1>11, <2>1, <2>2, TypeFrame, InvFrame DEF ReleaseLock, TypeInv, TypeOK
<1>12. CASE CheckActivated(c)
  <2>1. (ThreadOK /\ FillInv)'
    BY <1>12, TypeGoto, InvFrame DEF CheckActivated, TypeInv, PCs, InWrite
  <2> QED
    BY <1>12, <2>1, TypeFrame, InvFrame DEF CheckActivated, TypeInv, TypeOK
<1>13. CASE StartFails(c)
  <2>1. (ThreadOK /\ FillInv)'
    BY <1>13, TypeGoto, InvFrame DEF StartFails, TypeInv, PCs
  <2> QED
    BY <1>13, <2>1, TypeFrame, InvFrame DEF StartFails, TypeInv, TypeOK
<1>14. CASE StartDma(c)
  <2>1. CtlOK'
    BY <1>14 DEF StartDma, TypeInv, TypeOK, CtlOK
  <2>2. DmaOK'
    BY <1>14 DEF StartDma, TypeInv, TypeOK, DmaOK
  <2>3. (ThreadOK /\ FillInv)'
    BY <1>14, TypeGoto, InvFrame DEF StartDma, TypeInv, PCs
  <2> QED
    BY <1>14, <2>1, <2>2, <2>3, TypeFrame, InvFrame DEF StartDma, TypeInv, TypeOK
<1>15. CASE Close(c)
  <2>1. DevOK'
    BY <1>15 DEF Close, TypeInv, TypeOK, DevOK
  <2>2. (ThreadOK /\ FillInv)'
    BY <1>15, TypeGoto, InvFrame DEF Close, TypeInv, PCs, InClose
  <2> QED
    BY <1>15, <2>1, <2>2, TypeFrame, InvFrame DEF Close, TypeInv, TypeOK
<1>16. CASE CloseReplay(c)
  <2>1. (ThreadOK /\ FillInv)'
    BY <1>16, TypeGoto, InvFrame DEF CloseReplay, TypeInv, PCs, InClose
  <2> QED
    BY <1>16, <2>1, TypeFrame, InvFrame DEF CloseReplay, TypeInv, TypeOK
<1>17. CASE Flush(c)
  <2>1. FillOK'
    BY <1>17 DEF Flush, TypeInv, TypeOK, FillOK
  <2>2. QueueOK' /\ HeadInv'
    <3>1. CASE writeIndex = 0
      BY <1>17, <3>1 DEF Flush, TypeInv, TypeOK, Item, QueueOK, HeadInv
    <3>2. CASE writeIndex # 0
      <4> DEFINE e == [block |-> writeData, size |-> writeIndex]
      <4>1. queue' = Append(queue, e) /\ readIndex' = readIndex
        BY <1>17, <3>2 DEF Flush
      <4>2. e \in Item /\ e.size > 0
        BY <3>2 DEF TypeInv, TypeOK, FillOK, FillInv, Item
      <4> HIDE DEF e
      <4> QED
        BY <4>1, <4>2 DEF TypeInv, TypeOK, QueueOK, HeadInv
    <3> QED
      BY <3>1, <3>2
  <2>3. ThreadOK'
    BY <1>17, TypeGoto DEF Flush, TypeInv, PCs, InClose
  <2>4. FillInv'
    BY <1>17 DEF Flush, Goto, TypeInv, TypeOK, ThreadOK, FillInv
  <2> QED
    BY <1>17, <2>1, <2>2, <2>3, <2>4, TypeFrame DEF Flush, TypeInv, TypeOK
<1>18. CASE SetStopEvent(c)
  <2>1. CtlOK'
    BY <1>18 DEF SetStopEvent, TypeInv, TypeOK, CtlOK
  <2>2. (ThreadOK /\ FillInv)'
    BY <1>18, TypeGoto, InvFrame DEF SetStopEvent, TypeInv, PCs, InClose
  <2> QED
    BY <1>18, <2>1, <2>2, TypeFrame, InvFrame DEF SetStopEvent, TypeInv, TypeOK
<1>19. CASE InitCompletion(c)
  <2>1. SyncOK'
    BY <1>19 DEF InitCompletion, TypeInv, TypeOK, SyncOK
  <2>2. (ThreadOK /\ FillInv)'
    BY <1>19, TypeGoto, InvFrame DEF InitCompletion, TypeInv, PCs, InClose
  <2> QED
    BY <1>19, <2>1, <2>2, TypeFrame, InvFrame DEF InitCompletion, TypeInv, TypeOK
<1>20. CASE Wait(c)
  <2>1. SyncOK'
    BY <1>20 DEF Wait, TypeInv, TypeOK, SyncOK
  <2>2. (ThreadOK /\ FillInv)'
    BY <1>20, TypeGoto, InvFrame DEF Wait, TypeInv, PCs, InClose
  <2> QED
    BY <1>20, <2>1, <2>2, TypeFrame, InvFrame DEF Wait, TypeInv, TypeOK
<1>21. CASE Woken(c)
  <2>1. SyncOK'
    BY <1>21 DEF Woken, TypeInv, TypeOK, SyncOK
  <2>2. (ThreadOK /\ FillInv)'
    BY <1>21, TypeGoto, InvFrame DEF Woken, TypeInv, PCs, InClose
  <2> QED
    BY <1>21, <2>1, <2>2, TypeFrame, InvFrame DEF Woken, TypeInv, TypeOK
<1>22. CASE ClearStopEvent(c)
  <2>1. CtlOK'
    BY <1>22 DEF ClearStopEvent, TypeInv, TypeOK, CtlOK
  <2>2. (ThreadOK /\ FillInv)'
    BY <1>22, TypeGoto, InvFrame DEF ClearStopEvent, TypeInv, PCs, InClose
  <2> QED
    BY <1>22, <2>1, <2>2, TypeFrame, InvFrame DEF ClearStopEvent, TypeInv, TypeOK
<1>23. CASE StopDma(c)
  <2>1. DmaOK'
    BY <1>23 DEF StopDma, TypeInv, TypeOK, DmaOK
  <2>2. (ThreadOK /\ FillInv)'
    BY <1>23, TypeGoto, InvFrame DEF StopDma, TypeInv, PCs, InClose
  <2> QED
    BY <1>23, <2>1, <2>2, TypeFrame, InvFrame DEF StopDma, TypeInv, TypeOK
<1>24. CASE Deactivate(c)
  <2>1. CtlOK'
    BY <1>24 DEF Deactivate, TypeInv, TypeOK, CtlOK
  <2>2. (ThreadOK /\ FillInv)'
    BY <1>24, TypeGoto, InvFrame DEF Deactivate, TypeInv, PCs, InClose
  <2> QED
    BY <1>24, <2>1, <2>2, TypeFrame, InvFrame DEF Deactivate, TypeInv, TypeOK
<1>25. CASE ClearWriteFlag(c)
  <2>1. DevOK'
    BY <1>25 DEF ClearWriteFlag, TypeInv, TypeOK, DevOK
  <2>2. (ThreadOK /\ FillInv)'
    BY <1>25, TypeGoto, InvFrame DEF ClearWriteFlag, TypeInv, PCs, InClose
  <2> QED
    BY <1>25, <2>1, <2>2, TypeFrame, InvFrame DEF ClearWriteFlag, TypeInv, TypeOK
<1>26. CASE Closed(c)
  <2>1. DevOK'
    BY <1>26 DEF Closed, TypeInv, TypeOK, DevOK
  <2>2. (ThreadOK /\ FillInv)'
    BY <1>26, TypeGoto, InvFrame DEF Closed, TypeInv, PCs, InClose
  <2> QED
    BY <1>26, <2>1, <2>2, TypeFrame, InvFrame DEF Closed, TypeInv, TypeOK
<1> QED
  BY <1>1, <1>2, <1>3, <1>5, <1>6, <1>7, <1>8, <1>9, <1>10, <1>11, <1>12, <1>13, <1>14, <1>15, <1>16, <1>17, <1>18, <1>19, <1>20, <1>21, <1>22, <1>23, <1>24, <1>25, <1>26 DEF Call, Step, Start

\* The DMA and its interrupt keep the types.
LEMMA TypeHardware ==
  ASSUME TypeInv, PlayHalf \/ Isr
  PROVE  TypeInv'
<1> USE ConstantsAssumption
<1>1. CASE PlayHalf
  <2>1. DmaOK'
    BY <1>1 DEF PlayHalf, TypeInv, TypeOK, DmaOK
  <2>2. Cardinality(OfStream(half)) \in Nat
    <3>1. half * FrameLen \in Int /\ OfStream(half) \subseteq Places(half)
      BY DEF TypeInv, TypeOK, DmaOK, OfStream
    <3>2. IsFiniteSet(Places(half))
      BY <3>1, FS_Interval DEF Places
    <3>3. IsFiniteSet(OfStream(half))
      BY <3>1, <3>2, FS_Subset
    <3> QED
      BY <3>3, FS_CardinalityType
  <2>3. HistOK'
    <3>1. stream' = stream /\ accepted' = accepted /\ heard' = heard + Cardinality(OfStream(half))
      BY <1>1 DEF PlayHalf
    <3>2. stale' \in BOOLEAN
      BY <1>1 DEF PlayHalf
    <3> QED
      BY <2>2, <3>1, <3>2 DEF TypeInv, TypeOK, HistOK
  <2> QED
    BY <1>1, <2>1, <2>3, TypeFrame, InvFrame DEF PlayHalf, TypeInv, TypeOK
<1>2. ZeroFrame => fifo' \in [0 .. Total - 1 -> Sample]
  <2>1. Silence \in Sample
    BY DEF Silence, Sample
  <2> QED
    BY <2>1 DEF ZeroFrame, TypeInv, TypeOK, DmaOK
<1>3. CASE SendSilence
  <2>1. DmaOK'
    BY <1>2, <1>3 DEF SendSilence, TypeInv, TypeOK, DmaOK
  <2>2. PosOK'
    <3>1. pos + FrameLen \in 0 .. 2 * Total - 1 /\ Total \in Nat \ {0}
      BY DEF Total, TypeInv, TypeOK, PosOK
    <3> QED
      BY <1>3, <3>1, WrapRange DEF SendSilence, PosOK
  <2>3. SyncOK' /\ ThreadOK' /\ FillInv'
    <3>1. CASE UNCHANGED <<cmp, pc>>
      BY <1>3, <3>1 DEF SendSilence, TypeInv, TypeOK, SyncOK, ThreadOK, FillInv, fillVars
    <3>2. CASE /\ cmp' = [done |-> TRUE, waiter |-> None]
               /\ pc' = IF cmp.waiter = None THEN pc ELSE [pc EXCEPT ![cmp.waiter] = "woken"]
      <4>1. SyncOK'
        BY <1>3, <3>2 DEF SendSilence, TypeInv, TypeOK, SyncOK
      <4>2. cmp.waiter \in Clients \cup {None}
        BY DEF TypeInv, TypeOK, SyncOK
      <4>3. ThreadOK' /\ FillInv'
        BY <1>3, <3>2, <4>2 DEF SendSilence, TypeInv, TypeOK, ThreadOK, PCs, InClose, FillInv, fillVars
      <4> QED
        BY <4>1, <4>3
    <3> QED
      BY <1>3, <3>1, <3>2 DEF SendSilence, CompletionDone
  <2> QED
    BY <1>3, <2>1, <2>2, <2>3, TypeFrame, InvFrame DEF SendSilence, TypeInv, TypeOK
<1>4. CASE SendFrame
  <2>1. DmaOK'
    BY <1>2, <1>4 DEF SendFrame, TypeInv, TypeOK, DmaOK
  <2>2. IsrOK'
    BY <1>4 DEF SendFrame, IsrOK
  <2> QED
    BY <1>4, <2>1, <2>2, TypeFrame, InvFrame DEF SendFrame, TypeInv, TypeOK
<1>5. CASE CopyToFifo
  <2> DEFINE head == Head(queue)
             used == readIndex + Share = head.size
  <2>1. /\ queue[1] = head /\ head.block \in Blocks /\ head.size \in 1 .. BlockLen
        /\ head.size \in Nat /\ Tail(queue) \in Seq(Item)
    <3>1. head = queue[1] /\ queue[1] \in Item /\ Tail(queue) \in Seq(Item)
      BY <1>5, HeadType DEF CopyToFifo, TypeInv, TypeOK, QueueOK
    <3> QED
      BY <3>1 DEF Item
  <2>2. readIndex \in 0 .. head.size - 1 /\ index \in 0 .. FrameLen
    BY <1>5, <2>1 DEF CopyToFifo, TypeInv, TypeOK, QueueOK, IsrOK, HeadInv
  <2>3. Share \in 0 .. FrameLen - index /\ readIndex + Share \in 0 .. head.size
    BY <2>1, <2>2 DEF Share, Min2
  <2>4. IsrOK'
    BY <1>5, <2>2, <2>3 DEF CopyToFifo, IsrOK
  <2>5. PosOK'
    <3>1. pos + Share \in 0 .. 2 * Total - 1 /\ Total \in Nat \ {0}
      BY <2>2, <2>3 DEF Total, TypeInv, TypeOK, PosOK
    <3> QED
      BY <1>5, <3>1, WrapRange DEF CopyToFifo, PosOK
  <2>6. DmaOK'
    <3>1. ASSUME NEW i \in 0 .. Total - 1
          PROVE  (IF i >= pos /\ i < pos + Share
                  THEN mem[head.block][readIndex + i - pos] ELSE fifo[i]) \in Sample
      <4>1. pos \in Nat /\ i \in Nat
        BY DEF TypeInv, TypeOK, PosOK
      <4>2. i >= pos /\ i < pos + Share => readIndex + i - pos \in 0 .. BlockLen - 1
        BY <2>1, <2>2, <2>3, <4>1
      <4>3. fifo[i] \in Sample
        BY DEF TypeInv, TypeOK, DmaOK
      <4>4. i >= pos /\ i < pos + Share => mem[head.block][readIndex + i - pos] \in Sample
        BY <2>1, <4>2 DEF TypeInv, TypeOK, PoolOK
      <4> QED
        BY <4>3, <4>4
    <3>2. fifo' = [i \in 0 .. Total - 1 |->
                     IF i >= pos /\ i < pos + Share
                     THEN mem[head.block][readIndex + i - pos] ELSE fifo[i]]
      BY <1>5 DEF CopyToFifo
    <3> QED
      BY <1>5, <3>1, <3>2 DEF CopyToFifo, TypeInv, TypeOK, DmaOK
  <2>7. QueueOK' /\ HeadInv' /\ PoolOK'
    <3>1. CASE used
      <4>1. queue' = Tail(queue) /\ readIndex' = 0 /\ free' = free \cup {head.block} /\ mem' = mem
        BY <1>5, <3>1 DEF CopyToFifo, GiveBack
      <4>2. QueueOK' /\ PoolOK'
        BY <2>1, <4>1 DEF TypeInv, TypeOK, QueueOK, PoolOK
      <4>3. HeadInv'
        <5>1. queue' # <<>> => queue'[1] \in Item
          BY <4>2, HeadType DEF QueueOK
        <5> QED
          BY <4>1, <5>1 DEF HeadInv, Item
      <4> QED
        BY <4>2, <4>3
    <3>2. CASE ~used
      <4>1. queue' = queue /\ readIndex' = readIndex + Share /\ free' = free /\ mem' = mem
        BY <1>5, <3>2 DEF CopyToFifo, GiveBack
      <4>2. readIndex + Share < head.size
        <5>1. ASSUME NEW a \in Nat, NEW b \in 0 .. a, b # a PROVE b < a
          BY <5>1
        <5> QED
          BY <2>1, <2>3, <3>2, <5>1
      <4> QED
        BY <1>5, <2>1, <2>2, <2>3, <4>1, <4>2
           DEF CopyToFifo, TypeInv, TypeOK, QueueOK, PoolOK, HeadInv
    <3> QED
      BY <3>1, <3>2
  <2> QED
    BY <1>5, <2>4, <2>5, <2>6, <2>7, TypeFrame, InvFrame DEF CopyToFifo, TypeInv, TypeOK
<1>6. CASE UnderRun
  <2>1. PosOK'
    <3>1. pos - remain + FrameLen \in 0 .. 2 * Total - 1 /\ Total \in Nat \ {0}
      BY DEF Total, TypeInv, TypeOK, PosOK, IsrOK
    <3> QED
      BY <1>6, <3>1, WrapRange DEF UnderRun, PosOK
  <2>2. IsrOK'
    BY <1>6 DEF UnderRun, TypeInv, TypeOK, IsrOK
  <2>3. QueueOK' /\ HeadInv'
    BY <1>6 DEF UnderRun, TypeInv, TypeOK, QueueOK, HeadInv
  <2> QED
    BY <1>6, <2>1, <2>2, <2>3, TypeFrame, InvFrame DEF UnderRun, TypeInv, TypeOK
<1> QED
  BY <1>1, <1>3, <1>4, <1>5, <1>6 DEF Isr

LEMMA TypeNext == TypeInv /\ [Next]_vars => TypeInv'
<1> SUFFICES ASSUME TypeInv, [Next]_vars PROVE TypeInv'
  OBVIOUS
<1>1. CASE Next
  BY <1>1, TypeThread, TypeHardware DEF Next
<1>2. CASE UNCHANGED vars
  BY <1>2, TypeFrame, InvFrame DEF vars, TypeInv, TypeOK
<1> QED
  BY <1>1, <1>2

\* In every behaviour every variable stays in its range: neither the writer nor
\* the interrupt ever indexes outside a block or the FIFO, and the queue holds
\* only blocks (_audio_dev_write, _audio_send_replay_frame).
THEOREM TypeCorrect == Spec => []TypeOK
<1>1. TypeInv => TypeOK
  BY DEF TypeInv
<1> QED
  BY <1>1, TypeInit, TypeNext, PTL DEF Spec
-----------------------------------------------------------------------------
(* Who waits for the completion. *)

\* The thread the completion remembers is suspended on it.
WaiterInv == cmp.waiter # None => cmp.waiter \in Clients /\ pc[cmp.waiter] = "waiting"

\* A player never moves while it is suspended, and registers only itself.
LEMMA MovesItself ==
  ASSUME TypeOK, NEW c \in Clients, Call(c) \/ Step(c)
  PROVE  /\ pc' = pc \/ (pc[c] # "waiting" /\ \E label \in PCs : Goto(c, label))
         /\ cmp' = cmp \/ cmp'.waiter = None \/ (cmp'.waiter = c /\ pc'[c] = "waiting")
<1> DEFINE Moves == /\ pc' = pc \/ (pc[c] # "waiting" /\ \E label \in PCs : Goto(c, label))
                    /\ cmp' = cmp \/ cmp'.waiter = None \/ (cmp'.waiter = c /\ pc'[c] = "waiting")
<1>1. Open(c) => Moves
  BY DEF Open, PCs, InOpen, InWrite, InClose, syncVars
<1>2. Opened(c) => Moves
  BY DEF Opened, PCs, InOpen, InWrite, InClose, syncVars
<1>3. Configure(c) => Moves
  BY DEF Configure, PCs, InOpen, InWrite, InClose, syncVars
<1>5. Write(c) => Moves
  BY DEF Write, PCs, InOpen, InWrite, InClose, syncVars
<1>6. TakeLock(c) => Moves
  BY DEF TakeLock, PCs, InOpen, InWrite, InClose, syncVars
<1>7. NextBlock(c) => Moves
  BY DEF NextBlock, PCs, InOpen, InWrite, InClose, syncVars
<1>8. Alloc(c) => Moves
  BY DEF Alloc, PCs, InOpen, InWrite, InClose, syncVars
<1>9. Copy(c) => Moves
  BY DEF Copy, PCs, InOpen, InWrite, InClose, syncVars
<1>10. Push(c) => Moves
  BY DEF Push, PCs, InOpen, InWrite, InClose, syncVars
<1>11. ReleaseLock(c) => Moves
  BY DEF ReleaseLock, PCs, InOpen, InWrite, InClose, syncVars
<1>12. CheckActivated(c) => Moves
  BY DEF CheckActivated, PCs, InOpen, InWrite, InClose, syncVars
<1>13. StartFails(c) => Moves
  BY DEF StartFails, PCs, InOpen, InWrite, InClose, syncVars
<1>14. StartDma(c) => Moves
  BY DEF StartDma, PCs, InOpen, InWrite, InClose, syncVars
<1>15. Close(c) => Moves
  BY DEF Close, PCs, InOpen, InWrite, InClose, syncVars
<1>16. CloseReplay(c) => Moves
  BY DEF CloseReplay, PCs, InOpen, InWrite, InClose, syncVars
<1>17. Flush(c) => Moves
  BY DEF Flush, PCs, InOpen, InWrite, InClose, syncVars
<1>18. SetStopEvent(c) => Moves
  BY DEF SetStopEvent, PCs, InOpen, InWrite, InClose, syncVars
<1>19. InitCompletion(c) => Moves
  BY DEF InitCompletion, PCs, InOpen, InWrite, InClose, syncVars
<1>20. ASSUME Wait(c) PROVE Moves
  <2>1. CASE cmp.done
    BY <1>20, <2>1 DEF Wait, PCs, InClose
  <2>2. CASE ~cmp.done
    <3>1. Goto(c, "waiting") /\ pc[c] = "wait" /\ "waiting" \in PCs /\ cmp'.waiter = c
      BY <1>20, <2>2 DEF Wait, PCs, InClose
    <3>2. pc'[c] = "waiting"
      BY <3>1 DEF Goto, TypeOK, ThreadOK
    <3> QED
      BY <3>1, <3>2
  <2> QED
    BY <2>1, <2>2
<1>21. Woken(c) => Moves
  BY DEF Woken, PCs, InOpen, InWrite, InClose, syncVars
<1>22. ClearStopEvent(c) => Moves
  BY DEF ClearStopEvent, PCs, InOpen, InWrite, InClose, syncVars
<1>23. StopDma(c) => Moves
  BY DEF StopDma, PCs, InOpen, InWrite, InClose, syncVars
<1>24. Deactivate(c) => Moves
  BY DEF Deactivate, PCs, InOpen, InWrite, InClose, syncVars
<1>25. ClearWriteFlag(c) => Moves
  BY DEF ClearWriteFlag, PCs, InOpen, InWrite, InClose, syncVars
<1>26. Closed(c) => Moves
  BY DEF Closed, PCs, InOpen, InWrite, InClose, syncVars
<1> QED
  BY <1>1, <1>2, <1>3, <1>5, <1>6, <1>7, <1>8, <1>9, <1>10, <1>11, <1>12, <1>13, <1>14, <1>15, <1>16, <1>17, <1>18, <1>19, <1>20, <1>21, <1>22, <1>23, <1>24, <1>25, <1>26 DEF Call, Step, Start

LEMMA WaiterInit == Init => WaiterInv
BY DEF Init, WaiterInv

LEMMA WaiterNext ==
  ASSUME TypeOK, WaiterInv, [Next]_vars
  PROVE  WaiterInv'
<1> USE ConstantsAssumption
<1>1. ASSUME NEW c \in Clients, Call(c) \/ Step(c) PROVE WaiterInv'
  BY <1>1, MovesItself DEF WaiterInv, TypeOK, ThreadOK, Goto
<1>2. CASE PlayHalf \/ SendFrame \/ CopyToFifo \/ UnderRun
  BY <1>2 DEF PlayHalf, SendFrame, CopyToFifo, UnderRun, syncVars, threadVars, WaiterInv
<1>3. CASE SendSilence
  BY <1>3 DEF SendSilence, CompletionDone, WaiterInv
<1>4. CASE UNCHANGED vars
  BY <1>4 DEF vars, syncVars, threadVars, WaiterInv
<1> QED
  BY <1>1, <1>2, <1>3, <1>4 DEF Next, Isr

-----------------------------------------------------------------------------
(* The blocks of the pool: none is lost.                                      *)

BlocksOf(q) == {q[i].block : i \in 1 .. Len(q)}
Distinct(q) == \A i, j \in 1 .. Len(q) : q[i].block = q[j].block => i = j

\* Queueing a block that is not queued adds it.
LEMMA AppendBlocks ==
  ASSUME NEW q \in Seq(Item), NEW e \in Item
  PROVE  /\ BlocksOf(Append(q, e)) = BlocksOf(q) \cup {e.block}
         /\ Distinct(q) /\ e.block \notin BlocksOf(q) => Distinct(Append(q, e))
<1> DEFINE r == Append(q, e)
<1>1. /\ Len(q) \in Nat /\ Len(r) = Len(q) + 1
      /\ \A i \in 1 .. Len(q) : r[i] = q[i]
      /\ r[Len(q) + 1] = e
  OBVIOUS
<1> HIDE DEF r
<1>2. BlocksOf(r) = BlocksOf(q) \cup {e.block}
  BY <1>1 DEF BlocksOf
<1>3. Distinct(q) /\ e.block \notin BlocksOf(q) => Distinct(r)
  BY <1>1 DEF BlocksOf, Distinct
<1> QED
  BY <1>2, <1>3 DEF r

\* Taking the head of a queue without duplicates takes its block.
LEMMA TailBlocks ==
  ASSUME NEW q \in Seq(Item), q # <<>>, Distinct(q)
  PROVE  /\ BlocksOf(Tail(q)) = BlocksOf(q) \ {Head(q).block}
         /\ Head(q).block \in BlocksOf(q)
         /\ Distinct(Tail(q))
<1> DEFINE r == Tail(q)
<1>1. /\ Len(q) \in Nat \ {0} /\ Len(r) = Len(q) - 1
      /\ \A i \in 1 .. Len(r) : r[i] = q[i + 1]
      /\ Head(q) = q[1]
  OBVIOUS
<1> HIDE DEF r
<1>2. Distinct(r)
  BY <1>1 DEF Distinct
<1>3. Head(q).block \in BlocksOf(q)
  BY <1>1 DEF BlocksOf
<1>4. ASSUME NEW b \in BlocksOf(r) PROVE b \in BlocksOf(q) \ {Head(q).block}
  <2>1. PICK i \in 1 .. Len(r) : b = r[i].block
    BY DEF BlocksOf
  <2>2. i + 1 \in 1 .. Len(q) /\ b = q[i + 1].block /\ 1 \in 1 .. Len(q)
    BY <1>1, <2>1
  <2>3. i + 1 # 1
    BY <2>1
  <2> QED
    BY <1>1, <2>2, <2>3 DEF BlocksOf, Distinct
<1>5. ASSUME NEW b \in BlocksOf(q) \ {Head(q).block} PROVE b \in BlocksOf(r)
  <2>1. PICK i \in 1 .. Len(q) : b = q[i].block
    BY DEF BlocksOf
  <2>2. i # 1
    BY <1>1, <2>1
  <2>3. i - 1 \in 1 .. Len(r) /\ r[i - 1] = q[i]
    BY <1>1, <2>1, <2>2
  <2> QED
    BY <2>1, <2>3 DEF BlocksOf
<1> QED
  BY <1>2, <1>3, <1>4, <1>5 DEF r

\* Where a lone player is in its calls decides the count, the open flag and
\* whether a block is being filled: one is only while it writes or between the
\* writes of a device that is activated, so the close flushes it.
PlayerInv ==
  \A c \in Clients :
    /\ pc[c] \in {"idle", "opening"} \cup InClose => refCount = 0
    /\ pc[c] \in {"configure", "opened"} \cup InWrite => refCount = 1
    /\ pc[c] = "idle" => openFlag = {}
    /\ pc[c] \in {"opening", "configure", "opened", "close"} \cup InWrite => "wronly" \in openFlag
    /\ pc[c] \in {"opened", "close"} => activated \/ writeIndex = 0
    /\ pc[c] \in {"idle", "opening", "configure", "alloc", "push"} \cup (InClose \ {"close", "flush"})
         => writeIndex = 0

PoolInv == TypeInv /\ WaiterInv /\ PlayerInv /\ BlocksConserved

LEMMA PlayerNext ==
  ASSUME TypeInv, WaiterInv, PlayerInv, NEW c, Clients = {c}, [Next]_vars
  PROVE  PlayerInv'
<1> USE DEF InOpen, InWrite, InClose
<1> DEFINE D == pc \in [{c} -> PCs] /\ refCount \in Nat
<1>1. D
  BY DEF TypeInv, TypeOK, ThreadOK, DevOK
<1> HIDE DEF D
<1>2. Open(c) => PlayerInv'
  BY <1>1 DEF D, Open, PlayerInv, Goto, devVars, ctlVars, fillVars, ResetReplay
<1>3. Opened(c) => PlayerInv'
  BY <1>1 DEF D, Opened, PlayerInv, Goto, devVars, ctlVars, fillVars
<1>4. Configure(c) => PlayerInv'
  BY <1>1 DEF D, Configure, PlayerInv, Goto, devVars, ctlVars, fillVars
<1>6. Write(c) => PlayerInv'
  BY <1>1 DEF D, Write, PlayerInv, Goto, devVars, ctlVars, fillVars
<1>7. TakeLock(c) => PlayerInv'
  BY <1>1 DEF D, TakeLock, PlayerInv, Goto, devVars, ctlVars, fillVars
<1>8. NextBlock(c) => PlayerInv'
  BY <1>1 DEF D, NextBlock, PlayerInv, Goto, devVars, ctlVars, fillVars
<1>9. Alloc(c) => PlayerInv'
  BY <1>1 DEF D, Alloc, PlayerInv, Goto, devVars, ctlVars, fillVars
<1>10. Copy(c) => PlayerInv'
  BY <1>1 DEF D, Copy, PlayerInv, Goto, devVars, ctlVars, fillVars
<1>11. Push(c) => PlayerInv'
  BY <1>1 DEF D, Push, PlayerInv, Goto, devVars, ctlVars, fillVars
<1>12. ReleaseLock(c) => PlayerInv'
  BY <1>1 DEF D, ReleaseLock, PlayerInv, Goto, devVars, ctlVars, fillVars
<1>13. CheckActivated(c) => PlayerInv'
  BY <1>1 DEF D, CheckActivated, PlayerInv, Goto, devVars, ctlVars, fillVars
<1>14. StartFails(c) => PlayerInv'
  BY <1>1 DEF D, StartFails, PlayerInv, Goto, devVars, ctlVars, fillVars
<1>15. StartDma(c) => PlayerInv'
  BY <1>1 DEF D, StartDma, PlayerInv, Goto, devVars, ctlVars, fillVars
<1>16. Close(c) => PlayerInv'
  BY <1>1 DEF D, Close, PlayerInv, Goto, devVars, ctlVars, fillVars
<1>17. CloseReplay(c) => PlayerInv'
  BY <1>1 DEF D, CloseReplay, PlayerInv, Goto, devVars, ctlVars, fillVars
<1>18. Flush(c) => PlayerInv'
  BY <1>1 DEF D, Flush, PlayerInv, Goto, devVars, ctlVars, fillVars
<1>19. SetStopEvent(c) => PlayerInv'
  BY <1>1 DEF D, SetStopEvent, PlayerInv, Goto, devVars, ctlVars, fillVars
<1>20. InitCompletion(c) => PlayerInv'
  BY <1>1 DEF D, InitCompletion, PlayerInv, Goto, devVars, ctlVars, fillVars
<1>21. Wait(c) => PlayerInv'
  BY <1>1 DEF D, Wait, PlayerInv, Goto, devVars, ctlVars, fillVars
<1>22. Woken(c) => PlayerInv'
  BY <1>1 DEF D, Woken, PlayerInv, Goto, devVars, ctlVars, fillVars
<1>23. ClearStopEvent(c) => PlayerInv'
  BY <1>1 DEF D, ClearStopEvent, PlayerInv, Goto, devVars, ctlVars, fillVars
<1>24. StopDma(c) => PlayerInv'
  BY <1>1 DEF D, StopDma, PlayerInv, Goto, devVars, ctlVars, fillVars
<1>25. Deactivate(c) => PlayerInv'
  BY <1>1 DEF D, Deactivate, PlayerInv, Goto, devVars, ctlVars, fillVars
<1>26. ClearWriteFlag(c) => PlayerInv'
  BY <1>1 DEF D, ClearWriteFlag, PlayerInv, Goto, devVars, ctlVars, fillVars
<1>27. Closed(c) => PlayerInv'
  BY <1>1 DEF D, Closed, PlayerInv, Goto, devVars, ctlVars, fillVars
<1>28. ASSUME Call(c) \/ Step(c) PROVE PlayerInv'
  BY <1>28, <1>2, <1>3, <1>4, <1>6, <1>7, <1>8, <1>9, <1>10, <1>11, <1>12, <1>13, <1>14, <1>15, <1>16, <1>17, <1>18, <1>19, <1>20, <1>21, <1>22, <1>23, <1>24, <1>25, <1>26, <1>27 DEF Call, Step, Start
<1>29. CASE PlayHalf \/ SendFrame \/ CopyToFifo \/ UnderRun
  BY <1>29 DEF PlayHalf, SendFrame, CopyToFifo, UnderRun, PlayerInv, devVars, ctlVars, fillVars, threadVars
<1>30. CASE SendSilence
  BY <1>1, <1>30 DEF D, SendSilence, CompletionDone, WaiterInv, PlayerInv, devVars, ctlVars, fillVars
<1>31. CASE UNCHANGED vars
  BY <1>31 DEF vars, PlayerInv, devVars, ctlVars, fillVars, threadVars
<1> QED
  BY <1>28, <1>29, <1>30, <1>31 DEF Next, Isr

\* With one player a block is being filled when that player says so.
LEMMA FillingOfOne ==
  ASSUME NEW c, Clients = {c}
  PROVE  FillingBlocks = IF writeIndex # 0 \/ pc[c] \in {"copy", "push"} THEN {writeData} ELSE {}
BY DEF FillingBlocks

\* BlocksConserved over the sets of blocks it is about.
LEMMA Conserved ==
  BlocksConserved <=>
    /\ free \cup BlocksOf(queue) \cup FillingBlocks = Blocks
    /\ free \cap (BlocksOf(queue) \cup FillingBlocks) = {}
    /\ BlocksOf(queue) \cap FillingBlocks = {}
    /\ Distinct(queue)
BY DEF BlocksConserved, QueuedBlocks, BlocksOf, Distinct

LEMMA PoolInit == Init => PoolInv
<1> SUFFICES ASSUME Init PROVE PoolInv
  OBVIOUS
<1>1. PlayerInv
  BY DEF Init, PlayerInv, InOpen, InWrite, InClose
<1>2. BlocksConserved
  <2>1. free = Blocks /\ queue = <<>> /\ writeIndex = 0 /\ \A c \in Clients : pc[c] = "idle"
    BY DEF Init
  <2>2. FillingBlocks = {}
    BY <2>1 DEF FillingBlocks
  <2> QED
    BY <2>1, <2>2 DEF BlocksConserved, QueuedBlocks
<1> QED
  BY <1>1, <1>2, TypeInit, WaiterInit DEF PoolInv

\* The steps of a player that neither take, fill, queue nor give up a block.
LEMMA FillingFrame ==
  ASSUME PoolInv, NEW c, Clients = {c}, Call(c) \/ Step(c),
         ~(Open(c) \/ NextBlock(c) \/ Alloc(c) \/ Copy(c) \/ Push(c) \/ Flush(c))
  PROVE  BlocksConserved'
<1> DEFINE Same == free' = free /\ queue' = queue /\ writeData' = writeData /\ writeIndex' = writeIndex
                   /\ (pc'[c] \in {"copy", "push"} <=> pc[c] \in {"copy", "push"})
<1>1. pc \in [{c} -> PCs]
  BY DEF PoolInv, TypeInv, TypeOK, ThreadOK
<1>2. Opened(c) => Same
  BY <1>1 DEF Opened, Goto, fillVars, queueVars, poolVars
<1>3. Configure(c) => Same
  BY <1>1 DEF Configure, Goto, fillVars, queueVars, poolVars
<1>5. Write(c) => Same
  BY <1>1 DEF Write, Goto, fillVars, queueVars, poolVars
<1>6. TakeLock(c) => Same
  BY <1>1 DEF TakeLock, Goto, fillVars, queueVars, poolVars
<1>7. ReleaseLock(c) => Same
  BY <1>1 DEF ReleaseLock, Goto, fillVars, queueVars, poolVars
<1>8. CheckActivated(c) => Same
  BY <1>1 DEF CheckActivated, Goto, fillVars, queueVars, poolVars
<1>9. StartFails(c) => Same
  BY <1>1 DEF StartFails, Goto, fillVars, queueVars, poolVars
<1>10. StartDma(c) => Same
  BY <1>1 DEF StartDma, Goto, fillVars, queueVars, poolVars
<1>11. Close(c) => Same
  BY <1>1 DEF Close, Goto, fillVars, queueVars, poolVars
<1>12. CloseReplay(c) => Same
  BY <1>1 DEF CloseReplay, Goto, fillVars, queueVars, poolVars
<1>13. SetStopEvent(c) => Same
  BY <1>1 DEF SetStopEvent, Goto, fillVars, queueVars, poolVars
<1>14. InitCompletion(c) => Same
  BY <1>1 DEF InitCompletion, Goto, fillVars, queueVars, poolVars
<1>15. Wait(c) => Same
  BY <1>1 DEF Wait, Goto, fillVars, queueVars, poolVars
<1>16. Woken(c) => Same
  BY <1>1 DEF Woken, Goto, fillVars, queueVars, poolVars
<1>17. ClearStopEvent(c) => Same
  BY <1>1 DEF ClearStopEvent, Goto, fillVars, queueVars, poolVars
<1>18. StopDma(c) => Same
  BY <1>1 DEF StopDma, Goto, fillVars, queueVars, poolVars
<1>19. Deactivate(c) => Same
  BY <1>1 DEF Deactivate, Goto, fillVars, queueVars, poolVars
<1>20. ClearWriteFlag(c) => Same
  BY <1>1 DEF ClearWriteFlag, Goto, fillVars, queueVars, poolVars
<1>21. Closed(c) => Same
  BY <1>1 DEF Closed, Goto, fillVars, queueVars, poolVars
<1>22. Same
  BY <1>2, <1>3, <1>5, <1>6, <1>7, <1>8, <1>9, <1>10, <1>11, <1>12, <1>13, <1>14, <1>15, <1>16, <1>17, <1>18, <1>19, <1>20, <1>21 DEF Call, Step, Start
<1> QED
  BY <1>22, FillingOfOne DEF PoolInv, BlocksConserved, QueuedBlocks, FillingBlocks

\* The steps that do: a block goes from the pool to the writer, from the writer
\* to the queue, and from the queue back to the pool.
LEMMA BlocksNext ==
  ASSUME PoolInv, NEW c, Clients = {c}, [Next]_vars
  PROVE  BlocksConserved'
<1> DEFINE Filling == writeIndex # 0 \/ pc[c] \in {"copy", "push"}
<1>1. /\ pc \in [{c} -> PCs] /\ queue \in Seq(Item) /\ free \subseteq Blocks
      /\ writeIndex \in Nat /\ writeData \in Blocks \cup {None}
      /\ Filling => writeData \in Blocks
  BY DEF PoolInv, TypeInv, TypeOK, ThreadOK, QueueOK, PoolOK, FillOK, FillInv
<1>2. /\ free \cup BlocksOf(queue) \cup FillingBlocks = Blocks
      /\ free \cap (BlocksOf(queue) \cup FillingBlocks) = {}
      /\ BlocksOf(queue) \cap FillingBlocks = {}
      /\ Distinct(queue)
  BY Conserved DEF PoolInv
<1>3. FillingBlocks = IF Filling THEN {writeData} ELSE {}
  BY FillingOfOne
<1>4. FillingBlocks' = IF Filling' THEN {writeData'} ELSE {}
  BY DEF FillingBlocks
<1>5. BlocksConserved' <=>
        /\ free' \cup BlocksOf(queue') \cup FillingBlocks' = Blocks
        /\ free' \cap (BlocksOf(queue') \cup FillingBlocks') = {}
        /\ BlocksOf(queue') \cap FillingBlocks' = {}
        /\ Distinct(queue')
  BY DEF BlocksConserved, QueuedBlocks, BlocksOf, Distinct
<1>6. CASE Open(c) \/ NextBlock(c)
  <2>1. writeIndex' = writeIndex
    BY <1>6 DEF Open, NextBlock, ResetReplay, PoolInv, PlayerInv, fillVars
  <2>2. free' = free /\ queue' = queue /\ writeData' = writeData
    BY <1>6 DEF Open, NextBlock, ResetReplay, fillVars, queueVars, poolVars
  <2>3. Filling' <=> Filling
    BY <1>1, <1>6, <2>1 DEF Open, NextBlock, Goto
  <2> QED
    BY <1>2, <1>3, <1>4, <1>5, <2>2, <2>3
<1>7. CASE Alloc(c)
  <2>1. PICK b \in free : free' = free \ {b} /\ writeData' = b
    BY <1>7 DEF Alloc
  <2>2. ~Filling /\ Filling' /\ queue' = queue
    BY <1>1, <1>7 DEF Alloc, Goto, PoolInv, PlayerInv, queueVars
  <2> QED
    BY <1>1, <1>2, <1>3, <1>4, <1>5, <2>1, <2>2
<1>8. CASE Copy(c)
  <2>1. free' = free /\ queue' = queue /\ writeData' = writeData
    BY <1>8 DEF Copy, queueVars
  <2>2. Filling /\ Filling'
    BY <1>1, <1>8 DEF Copy, Goto
  <2> QED
    BY <1>2, <1>3, <1>4, <1>5, <2>1, <2>2
<1>9. CASE Push(c)
  <2> DEFINE e == [block |-> writeData, size |-> BlockLen]
  <2>1. queue' = Append(queue, e) /\ free' = free
    BY <1>9 DEF Push, poolVars
  <2>2. Filling /\ ~Filling'
    BY <1>1, <1>9 DEF Push, Goto, PoolInv, PlayerInv, InWrite, fillVars
  <2>3. e \in Item /\ e.block = writeData
    BY <1>1, <2>2, ConstantsAssumption DEF Item
  <2>4. writeData \notin BlocksOf(queue)
    BY <1>2, <1>3, <2>2
  <2>5. BlocksOf(queue') = BlocksOf(queue) \cup {writeData} /\ Distinct(queue')
    <3> HIDE DEF e
    <3> QED
      BY <1>1, <1>2, <2>1, <2>3, <2>4, AppendBlocks
  <2> QED
    BY <1>2, <1>3, <1>4, <1>5, <2>1, <2>2, <2>5
<1>10. CASE Flush(c)
  <2>1. writeIndex' = 0 /\ free' = free /\ ~Filling'
    BY <1>1, <1>10 DEF Flush, Goto, poolVars
  <2>2. CASE writeIndex = 0
    <3>1. queue' = queue /\ ~Filling
      BY <1>10, <2>2 DEF Flush
    <3> QED
      BY <1>2, <1>3, <1>4, <1>5, <2>1, <3>1
  <2>3. CASE writeIndex # 0
    <3> DEFINE e == [block |-> writeData, size |-> writeIndex]
    <3>1. queue' = Append(queue, e)
      BY <1>10, <2>3 DEF Flush
    <3>2. e \in Item /\ e.block = writeData
      <4>1. writeIndex \in 1 .. BlockLen
        BY <2>3, ConstantsAssumption DEF PoolInv, TypeInv, TypeOK, FillOK
      <4> QED
        BY <1>1, <2>3, <4>1 DEF Item
    <3>3. writeData \notin BlocksOf(queue)
      BY <1>2, <1>3, <2>3
    <3>4. BlocksOf(queue') = BlocksOf(queue) \cup {writeData} /\ Distinct(queue')
      <4> HIDE DEF e
      <4> QED
        BY <1>1, <1>2, <3>1, <3>2, <3>3, AppendBlocks
    <3> QED
      BY <1>2, <1>3, <1>4, <1>5, <2>1, <2>3, <3>4
  <2> QED
    BY <2>2, <2>3
<1>11. CASE CopyToFifo
  <2>1. FillingBlocks' = FillingBlocks
    BY <1>11 DEF CopyToFifo, FillingBlocks, fillVars, threadVars
  <2>2. CASE queue' = queue /\ free' = free
    BY <1>2, <1>5, <2>1, <2>2
  <2>3. CASE queue' = Tail(queue) /\ free' = free \cup {Head(queue).block}
    BY <1>1, <1>2, <1>5, <1>11, <2>1, <2>3, TailBlocks DEF CopyToFifo
  <2> QED
    BY <1>11, <2>2, <2>3 DEF CopyToFifo, GiveBack
<1>12. CASE PlayHalf \/ SendFrame \/ UnderRun \/ UNCHANGED vars
  <2>1. free' = free /\ queue' = queue /\ FillingBlocks' = FillingBlocks
    BY <1>12 DEF PlayHalf, SendFrame, UnderRun, vars, FillingBlocks, fillVars, queueVars, poolVars,
       threadVars
  <2> QED
    BY <1>2, <1>5, <2>1
<1>13. CASE SendSilence
  <2>1. free' = free /\ queue' = queue /\ writeData' = writeData /\ writeIndex' = writeIndex
    BY <1>13 DEF SendSilence, fillVars, queueVars, poolVars
  <2>2. Filling' <=> Filling
    BY <1>1, <1>13, <2>1 DEF SendSilence, CompletionDone, PoolInv, WaiterInv
  <2> QED
    BY <1>2, <1>3, <1>4, <1>5, <2>1, <2>2
<1> QED
  BY <1>6, <1>7, <1>8, <1>9, <1>10, <1>11, <1>12, <1>13, FillingFrame DEF Next, Isr

\* As long as one thread at a time plays, no block of the pool is lost or owned
\* twice, for every size of block, frame, queue and pool and every sequence of
\* opens, writes and closes: what _audio_dev_write takes with rt_mp_alloc the
\* interrupt gives back with rt_mp_free, and the flush of a close forgets none.
THEOREM PoolConserved ==
  ASSUME NEW c, Clients = {c}
  PROVE  Spec => []BlocksConserved
<1>1. PoolInv /\ [Next]_vars => PoolInv'
  BY TypeNext, WaiterNext, PlayerNext, BlocksNext DEF PoolInv, TypeInv
<1>2. PoolInv => BlocksConserved
  BY DEF PoolInv
<1> QED
  BY <1>1, <1>2, PoolInit, PTL DEF Spec

\* A step writes only into a block that was free or is being filled.
LEMMA QueuedKept ==
  ASSUME [Next]_vars, NEW b, b \notin free, b \notin FillingBlocks
  PROVE  mem'[b] = mem[b]
<1>1. ASSUME NEW c \in Clients, Alloc(c) PROVE mem'[b] = mem[b]
  <2>1. PICK a \in free : mem' = [mem EXCEPT ![a] = [i \in 0 .. BlockLen - 1 |-> Silence]]
    BY <1>1 DEF Alloc
  <2> QED
    BY <2>1
<1>2. ASSUME NEW c \in Clients, Copy(c) PROVE mem'[b] = mem[b]
  <2>1. b # writeData
    BY <1>2 DEF FillingBlocks, Copy
  <2>2. \E f : mem' = [mem EXCEPT ![writeData] = f]
    BY <1>2 DEF Copy
  <2> QED
    BY <2>1, <2>2
<1>3. ASSUME NEW c \in Clients, Call(c) \/ (Step(c) /\ ~Alloc(c) /\ ~Copy(c)) PROVE mem'[b] = mem[b]
  <2>1. CASE Open(c) \/ Write(c) \/ Close(c)
    BY <2>1 DEF Open, Write, Close, vars, poolVars
  <2>2. CASE Opened(c) \/ Configure(c) \/ TakeLock(c) \/ NextBlock(c) \/ Push(c)
    BY <2>2 DEF Opened, Configure, TakeLock, NextBlock, Push, poolVars
  <2>3. CASE ReleaseLock(c) \/ CheckActivated(c) \/ StartDma(c) \/ StartFails(c) \/ CloseReplay(c)
    BY <2>3 DEF ReleaseLock, CheckActivated, StartDma, StartFails, CloseReplay, poolVars
  <2>4. CASE Flush(c) \/ SetStopEvent(c) \/ InitCompletion(c) \/ Wait(c) \/ Woken(c)
    BY <2>4 DEF Flush, SetStopEvent, InitCompletion, Wait, Woken, poolVars
  <2>5. CASE ClearStopEvent(c) \/ StopDma(c) \/ Deactivate(c) \/ ClearWriteFlag(c) \/ Closed(c)
    BY <2>5 DEF ClearStopEvent, StopDma, Deactivate, ClearWriteFlag, Closed, poolVars
  <2> QED
    BY <1>3, <2>1, <2>2, <2>3, <2>4, <2>5 DEF Call, Step, Start
<1>4. CASE PlayHalf \/ Isr
  BY <1>4 DEF PlayHalf, Isr, SendSilence, SendFrame, CopyToFifo, UnderRun, poolVars
<1>5. CASE UNCHANGED vars
  BY <1>5 DEF vars, poolVars
<1> QED
  BY <1>1, <1>2, <1>3, <1>4, <1>5 DEF Next

\* With one player at a time nobody writes into a block that waits to be played:
\* the writer zeroes only what was free and copies only into the block it fills,
\* and neither is queued.
THEOREM QueuedNeverChanges ==
  ASSUME NEW c, Clients = {c}
  PROVE  Spec => QueuedBlocksStable
<1>1. PoolInv /\ [Next]_vars => PoolInv'
  BY TypeNext, WaiterNext, PlayerNext, BlocksNext DEF PoolInv, TypeInv
<1>2. PoolInv /\ [Next]_vars => [\A b \in QueuedBlocks : mem'[b] = mem[b]]_vars
  BY QueuedKept DEF PoolInv, BlocksConserved
<1> QED
  BY <1>1, <1>2, PoolInit, PTL DEF Spec, QueuedBlocksStable

\* A pool no larger than the queue leaves room for a block that is not queued.
LEMMA RoomForOne ==
  ASSUME NEW q \in Seq(Item), Distinct(q), NEW b \in Blocks, b \notin BlocksOf(q),
         IsFiniteSet(Blocks), Cardinality(Blocks) <= QueueSize
  PROVE  Len(q) < QueueSize
<1> DEFINE f == [i \in 1 .. Len(q) |-> q[i].block]
           rest == Blocks \ {b}
<1>1. Len(q) \in Nat
  OBVIOUS
<1>2. \A i \in 1 .. Len(q) : q[i].block \in rest
  <2>1. \A i \in 1 .. Len(q) : q[i] \in Item
    OBVIOUS
  <2>2. \A i \in 1 .. Len(q) : q[i].block \in BlocksOf(q)
    BY DEF BlocksOf
  <2> QED
    BY <2>1, <2>2 DEF Item
<1>3. f \in Injection(1 .. Len(q), rest)
  BY <1>2 DEF Distinct, Injection, IsInjective
<1>4. IsFiniteSet(rest) /\ Cardinality(rest) = Cardinality(Blocks) - 1 /\ Cardinality(Blocks) \in Nat
  BY FS_RemoveElement, FS_CardinalityType
<1>5. Cardinality(1 .. Len(q)) <= Cardinality(rest)
  <2> HIDE DEF f, rest
  <2> QED
    BY <1>3, <1>4, FS_Injection
<1>6. Cardinality(1 .. Len(q)) = Len(q)
  BY <1>1, FS_Interval, SMTT(60)
<1> QED
  BY <1>1, <1>4, <1>5, <1>6, ConstantsAssumption

\* With one player at a time, and a queue at least as long as the pool (4 and 2
\* here), rt_data_queue_push never waits: neither the writer, nor the flush of a
\* close, which would wait without anybody to report to.
THEOREM QueueHasRoom ==
  ASSUME NEW c, Clients = {c}, IsFiniteSet(Blocks), Cardinality(Blocks) <= QueueSize
  PROVE  Spec => []QueueNeverFull
<1>1. PoolInv => QueueNeverFull
  <2> SUFFICES ASSUME PoolInv, pc[c] = "push" \/ (pc[c] = "flush" /\ writeIndex # 0)
               PROVE  Len(queue) < QueueSize
    BY DEF QueueNeverFull
  <2>1. queue \in Seq(Item)
    BY DEF PoolInv, TypeInv, TypeOK, QueueOK
  <2>2. writeData \in Blocks /\ FillingBlocks = {writeData}
    BY FillingOfOne DEF PoolInv, TypeInv, FillInv
  <2>3. writeData \notin BlocksOf(queue) /\ Distinct(queue)
    BY <2>2, Conserved DEF PoolInv
  <2> QED
    BY <2>1, <2>2, <2>3, RoomForOne
<1>2. PoolInv /\ [Next]_vars => PoolInv'
  BY TypeNext, WaiterNext, PlayerNext, BlocksNext DEF PoolInv, TypeInv
<1> QED
  BY <1>1, <1>2, PoolInit, PTL DEF Spec
-----------------------------------------------------------------------------
(* The position of the next frame stays in step with the DMA: for one player *)
(* at a time, every size of frame and pool, and blocks that are a whole      *)
(* number K of frames (RT_AUDIO_REPLAY_MP_BLOCK_SIZE 4096 and                *)
(* TX_DMA_FIFO_SIZE / 2 = 1024 here).  By the same invariant the device is   *)
(* never started twice.                                                      *)

\* From the flush of a close to the end of the close nothing is written.
Closing == InClose \ {"close", "flush"}

\* Inside a write, or open and not closing.
Playing == {"opened", "close"} \cup InWrite

\* Where the player is decides whether the queue is empty, the device activated,
\* the DMA running and the position reset: an activated device plays, a stream
\* starts with nothing queued at position 0, and the completion is only given
\* when the queue is empty.
StreamInv ==
  \A c \in Clients :
    /\ pc[c] # "halt"
    /\ pc[c] \in {"idle", "opening", "configure", "woken", "clear", "hwstop", "deactivate",
                  "closeflag", "closed"} => queue = <<>>
    /\ pc[c] \in {"opened", "close"} /\ ~activated => queue = <<>>
    /\ pc[c] = "wait" /\ cmp.done => queue = <<>>
    /\ pc[c] \in {"idle", "opening", "configure", "start", "closeflag", "closed"} => ~activated
    /\ pc[c] \in {"idle", "deactivate", "closeflag", "closed"} => ~running
    /\ pc[c] \in {"opening", "configure"} => ~running /\ pos = 0
    /\ pc[c] \in Playing /\ ~activated => ~running /\ pos = 0

\* Only the last block can be short, and only after a flush.
SizesInv ==
  \A c \in Clients : \A i \in 1 .. Len(queue) :
    queue[i].size = BlockLen \/ (i = Len(queue) /\ pc[c] \in Closing)

\* The head block has been read by whole frames.
AlignInv == \E k \in Nat : readIndex = k * FrameLen

\* Between interrupts the frame at pos is the one being played, the next to be
\* free; from the interrupt on it is the other one.  A frame takes its samples
\* from one block: if that leaves room, the queue is empty.
PosInv ==
  /\ ~running => ~irq /\ isr = "idle"
  /\ irq => isr = "idle" /\ pos = (1 - half) * FrameLen
  /\ running /\ ~irq /\ isr = "idle" => pos = half * FrameLen
  /\ isr = "copy" => /\ pos = (1 - half) * FrameLen + index
                     /\ index < FrameLen
                     /\ index = 0 => queue # <<>>
                     /\ index # 0 => queue = <<>> /\ remain = index

HalfInv == TypeInv /\ WaiterInv /\ PlayerInv /\ StreamInv /\ SizesInv /\ AlignInv /\ PosInv

-----------------------------------------------------------------------------
LEMMA StreamInit == Init => StreamInv
BY DEF Init, StreamInv, Playing, InWrite

\* The steps of the player.
LEMMA StreamPlayer ==
  ASSUME HalfInv, NEW c, Clients = {c}, Call(c) \/ Step(c)
  PROVE  StreamInv'
<1> USE DEF InOpen, InWrite, InClose, Playing
<1> DEFINE D == pc \in [{c} -> PCs] /\ activated \in BOOLEAN /\ bits \in BOOLEAN
<1>1. D
  BY DEF HalfInv, TypeInv, TypeOK, ThreadOK, CtlOK, FormatOK
<1> HIDE DEF D
<1>2. Open(c) => StreamInv'
  BY <1>1 DEF D, Open, HalfInv, StreamInv, Goto, ctlVars, queueVars, syncVars, dmaVars, ResetReplay, PlayerInv
<1>3. Opened(c) => StreamInv'
  BY <1>1 DEF D, Opened, HalfInv, StreamInv, Goto, ctlVars, queueVars, syncVars, dmaVars
<1>4. Configure(c) => StreamInv'
  BY <1>1 DEF D, Configure, HalfInv, StreamInv, Goto, ctlVars, queueVars, syncVars, dmaVars
<1>6. Write(c) => StreamInv'
  BY <1>1 DEF D, Write, HalfInv, StreamInv, Goto, ctlVars, queueVars, syncVars, dmaVars
<1>7. TakeLock(c) => StreamInv'
  BY <1>1 DEF D, TakeLock, HalfInv, StreamInv, Goto, ctlVars, queueVars, syncVars, dmaVars
<1>8. NextBlock(c) => StreamInv'
  BY <1>1 DEF D, NextBlock, HalfInv, StreamInv, Goto, ctlVars, queueVars, syncVars, dmaVars
<1>9. Alloc(c) => StreamInv'
  BY <1>1 DEF D, Alloc, HalfInv, StreamInv, Goto, ctlVars, queueVars, syncVars, dmaVars
<1>10. Copy(c) => StreamInv'
  BY <1>1 DEF D, Copy, HalfInv, StreamInv, Goto, ctlVars, queueVars, syncVars, dmaVars
<1>11. Push(c) => StreamInv'
  BY <1>1 DEF D, Push, HalfInv, StreamInv, Goto, ctlVars, queueVars, syncVars, dmaVars
<1>12. ReleaseLock(c) => StreamInv'
  BY <1>1 DEF D, ReleaseLock, HalfInv, StreamInv, Goto, ctlVars, queueVars, syncVars, dmaVars
<1>13. CheckActivated(c) => StreamInv'
  BY <1>1 DEF D, CheckActivated, HalfInv, StreamInv, Goto, ctlVars, queueVars, syncVars, dmaVars
<1>14. StartFails(c) => StreamInv'
  BY <1>1 DEF D, StartFails, HalfInv, StreamInv, Goto, ctlVars, queueVars, syncVars, dmaVars
<1>15. StartDma(c) => StreamInv'
  BY <1>1 DEF D, StartDma, HalfInv, StreamInv, Goto, ctlVars, queueVars, syncVars, dmaVars
<1>16. Close(c) => StreamInv'
  BY <1>1 DEF D, Close, HalfInv, PlayerInv, StreamInv, Goto, ctlVars, queueVars, syncVars, dmaVars
<1>17. CloseReplay(c) => StreamInv'
  BY <1>1 DEF D, CloseReplay, HalfInv, StreamInv, Goto, ctlVars, queueVars, syncVars, dmaVars, PlayerInv
<1>18. Flush(c) => StreamInv'
  BY <1>1 DEF D, Flush, HalfInv, StreamInv, Goto, ctlVars, queueVars, syncVars, dmaVars
<1>19. SetStopEvent(c) => StreamInv'
  BY <1>1 DEF D, SetStopEvent, HalfInv, StreamInv, Goto, ctlVars, queueVars, syncVars, dmaVars
<1>20. InitCompletion(c) => StreamInv'
  BY <1>1 DEF D, InitCompletion, HalfInv, StreamInv, Goto, ctlVars, queueVars, syncVars, dmaVars
<1>21. Wait(c) => StreamInv'
  BY <1>1 DEF D, Wait, HalfInv, StreamInv, Goto, ctlVars, queueVars, syncVars, dmaVars
<1>22. Woken(c) => StreamInv'
  BY <1>1 DEF D, Woken, HalfInv, StreamInv, Goto, ctlVars, queueVars, syncVars, dmaVars
<1>23. ClearStopEvent(c) => StreamInv'
  BY <1>1 DEF D, ClearStopEvent, HalfInv, StreamInv, Goto, ctlVars, queueVars, syncVars, dmaVars
<1>24. StopDma(c) => StreamInv'
  BY <1>1 DEF D, StopDma, HalfInv, StreamInv, Goto, ctlVars, queueVars, syncVars, dmaVars
<1>25. Deactivate(c) => StreamInv'
  BY <1>1 DEF D, Deactivate, HalfInv, StreamInv, Goto, ctlVars, queueVars, syncVars, dmaVars
<1>26. ClearWriteFlag(c) => StreamInv'
  BY <1>1 DEF D, ClearWriteFlag, HalfInv, StreamInv, Goto, ctlVars, queueVars, syncVars, dmaVars
<1>27. Closed(c) => StreamInv'
  BY <1>1 DEF D, Closed, HalfInv, StreamInv, Goto, ctlVars, queueVars, syncVars, dmaVars
<1> QED
  BY <1>2, <1>3, <1>4, <1>6, <1>7, <1>8, <1>9, <1>10, <1>11, <1>12, <1>13, <1>14, <1>15, <1>16, <1>17, <1>18, <1>19, <1>20, <1>21, <1>22, <1>23, <1>24, <1>25, <1>26, <1>27 DEF Call, Step, Start

LEMMA StreamNext ==
  ASSUME HalfInv, NEW c, Clients = {c}, [Next]_vars
  PROVE  StreamInv'
<1>1. pc \in [{c} -> PCs]
  BY DEF HalfInv, TypeInv, TypeOK, ThreadOK
<1>2. CASE PlayHalf
  BY <1>2 DEF PlayHalf, HalfInv, StreamInv, ctlVars, queueVars, syncVars, threadVars
<1>3. CASE SendSilence
  BY <1>1, <1>3 DEF SendSilence, CompletionDone, HalfInv, WaiterInv, PosInv, StreamInv, ctlVars, queueVars,
     Playing, InWrite
<1>4. CASE SendFrame
  BY <1>4 DEF SendFrame, HalfInv, StreamInv, ctlVars, queueVars, syncVars, threadVars
<1>5. CASE CopyToFifo \/ UnderRun
  <2>1. running
    BY <1>5 DEF CopyToFifo, UnderRun, HalfInv, PosInv
  <2>2. queue' = queue \/ queue # <<>>
    BY <1>5 DEF CopyToFifo, UnderRun
  <2>3. UNCHANGED <<ctlVars, syncVars, threadVars, running>>
    BY <1>5 DEF CopyToFifo, UnderRun, dmaVars
  <2> QED
    BY <2>1, <2>2, <2>3 DEF HalfInv, StreamInv, ctlVars, syncVars, threadVars
<1>6. CASE UNCHANGED vars
  BY <1>6 DEF vars, HalfInv, StreamInv, ctlVars, queueVars, syncVars, dmaVars, threadVars
<1> QED
  BY <1>2, <1>3, <1>4, <1>5, <1>6, StreamPlayer DEF Next, Isr

-----------------------------------------------------------------------------
\* One round of the copy loop, in numbers.  It takes the rest of the head block
\* or fills the frame; only a short block, which is the last, leaves room.
LEMMA Round ==
  ASSUME HalfInv, NEW c, Clients = {c}, CopyToFifo,
         NEW K \in Nat \ {0}, BlockLen = K * FrameLen
  PROVE  /\ index = 0 /\ pos = (1 - half) * FrameLen
         /\ Head(queue) = queue[1] /\ queue[1].size \in 1 .. BlockLen
         /\ readIndex \in 0 .. queue[1].size - 1
         /\ Share \in 1 .. FrameLen
         /\ Share < FrameLen => readIndex + Share = queue[1].size /\ Tail(queue) = <<>>
<1> USE ConstantsAssumption
<1>1. queue # <<>> /\ queue \in Seq(Item) /\ isr = "copy"
  BY DEF CopyToFifo, HalfInv, TypeInv, TypeOK, QueueOK
<1>2. Head(queue) = queue[1] /\ queue[1] \in Item /\ Len(queue) \in Nat \ {0}
  BY <1>1, HeadType
<1>3. index = 0 /\ pos = (1 - half) * FrameLen
  <2>1. index \in 0 .. FrameLen /\ half \in {0, 1}
    BY DEF HalfInv, TypeInv, TypeOK, IsrOK, DmaOK
  <2>2. pos = (1 - half) * FrameLen + index /\ (index # 0 => queue = <<>>)
    BY <1>1 DEF HalfInv, PosInv
  <2>3. index = 0
    BY <1>1, <2>2
  <2> QED
    BY <2>1, <2>2, <2>3
<1>4. queue[1].size \in 1 .. BlockLen /\ queue[1].size \in Nat
  BY <1>2 DEF Item
<1>5. readIndex \in 0 .. queue[1].size - 1
  BY <1>1, <1>4 DEF HalfInv, TypeInv, TypeOK, QueueOK, HeadInv
<1>6. Share = Min2(FrameLen, queue[1].size - readIndex)
  BY <1>2, <1>3 DEF Share
<1>7. Share \in 1 .. FrameLen /\ (Share < FrameLen => readIndex + Share = queue[1].size)
  BY <1>4, <1>5, <1>6 DEF Min2
<1>8. ASSUME queue[1].size = BlockLen PROVE Share = FrameLen
  <2>1. PICK k \in Nat : readIndex = k * FrameLen
    BY DEF HalfInv, AlignInv
  <2>2. k * FrameLen < K * FrameLen
    BY <1>4, <1>5, <1>8, <2>1
  <2>3. k + 1 <= K
    BY <2>2
  <2>4. (k + 1) * FrameLen <= K * FrameLen
    BY <2>3
  <2>5. readIndex + FrameLen <= BlockLen
    BY <2>1, <2>4
  <2> QED
    BY <1>4, <1>5, <1>6, <1>8, <2>5 DEF Min2
<1>9. ASSUME Share < FrameLen PROVE Tail(queue) = <<>>
  <2>1. queue[1].size # BlockLen
    BY <1>7, <1>8, <1>9
  <2>2. 1 = Len(queue)
    <3>1. c \in Clients /\ 1 \in 1 .. Len(queue)
      BY <1>2
    <3> QED
      BY <2>1, <3>1 DEF HalfInv, SizesInv
  <2>3. Tail(queue) \in Seq(Item) /\ Len(Tail(queue)) = 0
    BY <1>1, <2>2, HeadType
  <2> QED
    BY <2>3, EmptySeq
<1> QED
  BY <1>2, <1>3, <1>4, <1>5, <1>7, <1>9

LEMMA AlignNext ==
  ASSUME HalfInv, NEW c, Clients = {c}, [Next]_vars,
         NEW K \in Nat \ {0}, BlockLen = K * FrameLen
  PROVE  AlignInv'
<1> USE ConstantsAssumption
<1>1. readIndex' = 0 => AlignInv'
  <2>1. 0 \in Nat /\ 0 = 0 * FrameLen
    OBVIOUS
  <2> QED
    BY <2>1 DEF AlignInv
<1>2. readIndex' = readIndex => AlignInv'
  BY DEF HalfInv, AlignInv
<1>3. CASE CopyToFifo
  <2>1. readIndex' = 0 \/ (readIndex' = readIndex + Share /\ readIndex + Share # queue[1].size)
    BY <1>3, Round DEF CopyToFifo
  <2>2. ASSUME readIndex' = readIndex + Share, readIndex + Share # queue[1].size PROVE AlignInv'
    <3>1. Share = FrameLen
      <4>1. Share \in 1 .. FrameLen /\ ~(Share < FrameLen)
        BY <1>3, <2>2, Round
      <4> QED
        BY <4>1
    <3>2. PICK k \in Nat : readIndex = k * FrameLen
      BY DEF HalfInv, AlignInv
    <3>3. readIndex' = (k + 1) * FrameLen /\ k + 1 \in Nat
      BY <2>2, <3>1, <3>2
    <3> QED
      BY <3>3 DEF AlignInv
  <2> QED
    BY <1>1, <2>1, <2>2
<1>4. CASE UnderRun
  BY <1>1, <1>4 DEF UnderRun
<1>5. ASSUME Open(c) PROVE AlignInv'
  BY <1>1, <1>2, <1>5 DEF Open, ResetReplay
<1>6. Opened(c) => readIndex' = readIndex
  BY DEF Opened, queueVars
<1>7. Configure(c) => readIndex' = readIndex
  BY DEF Configure, queueVars
<1>8. Write(c) => readIndex' = readIndex
  BY DEF Write, queueVars
<1>9. TakeLock(c) => readIndex' = readIndex
  BY DEF TakeLock, queueVars
<1>10. NextBlock(c) => readIndex' = readIndex
  BY DEF NextBlock, queueVars
<1>11. Alloc(c) => readIndex' = readIndex
  BY DEF Alloc, queueVars
<1>12. Copy(c) => readIndex' = readIndex
  BY DEF Copy, queueVars
<1>13. ReleaseLock(c) => readIndex' = readIndex
  BY DEF ReleaseLock, queueVars
<1>14. CheckActivated(c) => readIndex' = readIndex
  BY DEF CheckActivated, queueVars
<1>15. StartFails(c) => readIndex' = readIndex
  BY DEF StartFails, queueVars
<1>16. StartDma(c) => readIndex' = readIndex
  BY DEF StartDma, queueVars
<1>17. Close(c) => readIndex' = readIndex
  BY DEF Close, queueVars
<1>18. CloseReplay(c) => readIndex' = readIndex
  BY DEF CloseReplay, queueVars
<1>19. SetStopEvent(c) => readIndex' = readIndex
  BY DEF SetStopEvent, queueVars
<1>20. InitCompletion(c) => readIndex' = readIndex
  BY DEF InitCompletion, queueVars
<1>21. Wait(c) => readIndex' = readIndex
  BY DEF Wait, queueVars
<1>22. Woken(c) => readIndex' = readIndex
  BY DEF Woken, queueVars
<1>23. ClearStopEvent(c) => readIndex' = readIndex
  BY DEF ClearStopEvent, queueVars
<1>24. StopDma(c) => readIndex' = readIndex
  BY DEF StopDma, queueVars
<1>25. Deactivate(c) => readIndex' = readIndex
  BY DEF Deactivate, queueVars
<1>26. ClearWriteFlag(c) => readIndex' = readIndex
  BY DEF ClearWriteFlag, queueVars
<1>27. Closed(c) => readIndex' = readIndex
  BY DEF Closed, queueVars
<1>28. Push(c) => readIndex' = readIndex
  BY DEF Push, queueVars
<1>29. Flush(c) => readIndex' = readIndex
  BY DEF Flush, queueVars
<1>30. PlayHalf \/ SendSilence \/ SendFrame \/ UNCHANGED vars => readIndex' = readIndex
  BY DEF PlayHalf, SendSilence, SendFrame, vars, queueVars
<1> QED
  BY <1>2, <1>3, <1>4, <1>5, <1>6, <1>7, <1>8, <1>9, <1>10, <1>11, <1>12, <1>13, <1>14, <1>15, <1>16, <1>17, <1>18, <1>19, <1>20, <1>21, <1>22, <1>23, <1>24, <1>25, <1>26, <1>27, <1>28, <1>29, <1>30 DEF Next, Call, Step, Start, Isr

LEMMA SizesNext ==
  ASSUME HalfInv, NEW c, Clients = {c}, [Next]_vars
  PROVE  SizesInv'
<1> USE ConstantsAssumption DEF Closing, InClose, InOpen, InWrite
<1>1. pc \in [{c} -> PCs] /\ queue \in Seq(Item)
  BY DEF HalfInv, TypeInv, TypeOK, ThreadOK, QueueOK
<1>2. \A i \in 1 .. Len(queue) : queue[i].size = BlockLen \/ (i = Len(queue) /\ pc[c] \in Closing)
  BY DEF HalfInv, SizesInv
<1>3. queue' = queue /\ (pc[c] \in Closing => pc'[c] \in Closing \/ queue = <<>>) => SizesInv'
  BY <1>2 DEF SizesInv
<1>4. ASSUME NEW e \in Item, queue' = Append(queue, e), pc[c] \notin Closing,
             e.size = BlockLen \/ pc'[c] \in Closing
      PROVE  SizesInv'
  <2>1. \A i \in 1 .. Len(queue) : queue[i].size = BlockLen
    BY <1>2, <1>4
  <2>2. Len(queue') = Len(queue) + 1 /\ \A i \in 1 .. Len(queue') : queue'[i] = IF i <= Len(queue) THEN queue[i] ELSE e
    BY <1>1, <1>4
  <2> QED
    BY <1>1, <1>4, <2>1, <2>2 DEF SizesInv
<1>5. CASE CopyToFifo
  <2>1. pc' = pc
    BY <1>5 DEF CopyToFifo, threadVars
  <2>2. CASE queue' = queue
    BY <1>3, <2>1, <2>2
  <2>3. CASE queue' = Tail(queue)
    <3>1. Len(queue) \in Nat \ {0} /\ Len(queue') = Len(queue) - 1
          /\ \A i \in 1 .. Len(queue') : queue'[i] = queue[i + 1]
      BY <1>1, <1>5, <2>3 DEF CopyToFifo
    <3> QED
      BY <1>2, <2>1, <3>1 DEF SizesInv
  <2> QED
    BY <1>5, <2>2, <2>3 DEF CopyToFifo, GiveBack
<1>6. CASE Push(c)
  <2>1. [block |-> writeData, size |-> BlockLen] \in Item
    BY <1>6 DEF Push, HalfInv, TypeInv, FillInv, Item
  <2> QED
    BY <1>4, <1>6, <2>1 DEF Push
<1>7. CASE Flush(c)
  <2>1. CASE writeIndex = 0
    BY <1>3, <1>7, <2>1 DEF Flush
  <2>2. CASE writeIndex # 0
    <3>1. writeIndex \in 1 .. BlockLen /\ writeData \in Blocks
      BY <2>2 DEF HalfInv, TypeInv, TypeOK, FillOK, FillInv
    <3>2. [block |-> writeData, size |-> writeIndex] \in Item
      BY <3>1 DEF Item
    <3>3. pc'[c] \in Closing
      BY <1>1, <1>7 DEF Flush, Goto
    <3> QED
      BY <1>4, <1>7, <2>2, <3>2, <3>3 DEF Flush
  <2> QED
    BY <2>1, <2>2
<1>8. CASE SendSilence
  BY <1>3, <1>8 DEF SendSilence, queueVars
<1>9. CASE PlayHalf \/ SendFrame \/ UnderRun \/ UNCHANGED vars
  BY <1>3, <1>9 DEF PlayHalf, SendFrame, UnderRun, vars, queueVars, threadVars
<1> DEFINE Stays == queue' = queue /\ (pc[c] \in Closing => pc'[c] \in Closing \/ queue = <<>>)
<1>10. Open(c) => Stays
  BY <1>1 DEF Open, Goto, queueVars
<1>11. Opened(c) => Stays
  BY <1>1 DEF Opened, Goto, queueVars
<1>12. Configure(c) => Stays
  BY <1>1 DEF Configure, Goto, queueVars
<1>13. Write(c) => Stays
  BY <1>1 DEF Write, Goto, queueVars
<1>14. TakeLock(c) => Stays
  BY <1>1 DEF TakeLock, Goto, queueVars
<1>15. NextBlock(c) => Stays
  BY <1>1 DEF NextBlock, Goto, queueVars
<1>16. Alloc(c) => Stays
  BY <1>1 DEF Alloc, Goto, queueVars
<1>17. Copy(c) => Stays
  BY <1>1 DEF Copy, Goto, queueVars
<1>18. ReleaseLock(c) => Stays
  BY <1>1 DEF ReleaseLock, Goto, queueVars
<1>19. CheckActivated(c) => Stays
  BY <1>1 DEF CheckActivated, Goto, queueVars
<1>20. StartFails(c) => Stays
  BY <1>1 DEF StartFails, Goto, queueVars
<1>21. StartDma(c) => Stays
  BY <1>1 DEF StartDma, Goto, queueVars
<1>22. Close(c) => Stays
  BY <1>1 DEF Close, Goto, queueVars
<1>23. CloseReplay(c) => Stays
  BY <1>1 DEF CloseReplay, Goto, queueVars
<1>24. SetStopEvent(c) => Stays
  BY <1>1 DEF SetStopEvent, Goto, queueVars
<1>25. InitCompletion(c) => Stays
  BY <1>1 DEF InitCompletion, Goto, queueVars
<1>26. Wait(c) => Stays
  BY <1>1 DEF Wait, Goto, queueVars
<1>27. Woken(c) => Stays
  BY <1>1 DEF Woken, Goto, queueVars
<1>28. ClearStopEvent(c) => Stays
  BY <1>1 DEF ClearStopEvent, Goto, queueVars
<1>29. StopDma(c) => Stays
  BY <1>1 DEF StopDma, Goto, queueVars
<1>30. Deactivate(c) => Stays
  BY <1>1 DEF Deactivate, Goto, queueVars
<1>31. ClearWriteFlag(c) => Stays
  BY <1>1 DEF ClearWriteFlag, Goto, queueVars
<1>32. Closed(c) => Stays
  BY <1>1 DEF Closed, Goto, queueVars, HalfInv, StreamInv
<1> QED
  BY <1>3, <1>4, <1>5, <1>6, <1>7, <1>8, <1>9, <1>10, <1>11, <1>12, <1>13, <1>14, <1>15, <1>16, <1>17, <1>18, <1>19, <1>20, <1>21, <1>22, <1>23, <1>24, <1>25, <1>26, <1>27, <1>28, <1>29, <1>30, <1>31, <1>32 DEF Next, Call, Step, Start, Isr

\* A thread runs only between interrupts, and moves neither the DMA nor pos but
\* to reset, start or stop them.
LEMMA PosPlayer ==
  ASSUME HalfInv, NEW c, Clients = {c}, Call(c) \/ Step(c)
  PROVE  PosInv'
<1> USE ConstantsAssumption
<1>1. half \in {0, 1} /\ bits \in BOOLEAN /\ running \in BOOLEAN
  BY DEF HalfInv, TypeInv, TypeOK, DmaOK, FormatOK
<1>2. isr = "idle" /\ ~irq /\ isr' = "idle"
  BY DEF vars, Runs, Call, Step, Start, isrVars, Open, Opened, Configure, Write, TakeLock, NextBlock, Alloc, Copy,
     Push, ReleaseLock, CheckActivated, StartFails, StartDma, Close, CloseReplay, Flush, SetStopEvent,
     InitCompletion, Wait, Woken, ClearStopEvent, StopDma, Deactivate, ClearWriteFlag, Closed
<1>3. ASSUME irq' = irq, isr' = "idle", isr = "idle", ~irq,
             (running' = running /\ pos' = pos /\ half' = half) \/ ~running'
      PROVE  PosInv'
  BY <1>3 DEF HalfInv, PosInv
<1>4. CASE Open(c)
  <2>1. ~running /\ UNCHANGED <<running, irq>>
    BY <1>4 DEF Open, HalfInv, StreamInv, dmaVars
  <2> QED
    BY <1>2, <1>3, <1>4, <2>1 DEF Open
<1>5. CASE Configure(c)
  <2>1. ~running /\ UNCHANGED irq
    BY <1>5 DEF Configure, HalfInv, StreamInv
  <2> QED
    BY <1>2, <1>3, <1>5, <2>1 DEF Configure
<1>6. CASE StartDma(c)
  <2>1. ~running /\ pos = 0
    BY <1>6 DEF StartDma, HalfInv, StreamInv, Playing, InWrite
  <2>2. irq' = FALSE /\ isr' = "idle" /\ pos' = pos /\ (running' => half' = 0)
    BY <1>2, <1>6, <2>1 DEF StartDma
  <2>3. 0 = 0 * FrameLen
    OBVIOUS
  <2> QED
    BY <2>1, <2>2, <2>3 DEF PosInv
<1>7. CASE StopDma(c)
  BY <1>2, <1>7 DEF StopDma, PosInv
<1> DEFINE Still == UNCHANGED <<running, irq, half, pos>> 
<1>9. Opened(c) => Still
  BY DEF Opened, dmaVars
<1>10. Write(c) => Still
  BY DEF Write, dmaVars
<1>11. TakeLock(c) => Still
  BY DEF TakeLock, dmaVars
<1>12. NextBlock(c) => Still
  BY DEF NextBlock, dmaVars
<1>13. Alloc(c) => Still
  BY DEF Alloc, dmaVars
<1>14. Copy(c) => Still
  BY DEF Copy, dmaVars
<1>15. Push(c) => Still
  BY DEF Push, dmaVars
<1>16. ReleaseLock(c) => Still
  BY DEF ReleaseLock, dmaVars
<1>17. CheckActivated(c) => Still
  BY DEF CheckActivated, dmaVars
<1>18. StartFails(c) => Still
  BY DEF StartFails, dmaVars
<1>19. Close(c) => Still
  BY DEF Close, dmaVars
<1>20. CloseReplay(c) => Still
  BY DEF CloseReplay, dmaVars
<1>21. Flush(c) => Still
  BY DEF Flush, dmaVars
<1>22. SetStopEvent(c) => Still
  BY DEF SetStopEvent, dmaVars
<1>23. InitCompletion(c) => Still
  BY DEF InitCompletion, dmaVars
<1>24. Wait(c) => Still
  BY DEF Wait, dmaVars
<1>25. Woken(c) => Still
  BY DEF Woken, dmaVars
<1>26. ClearStopEvent(c) => Still
  BY DEF ClearStopEvent, dmaVars
<1>27. Deactivate(c) => Still
  BY DEF Deactivate, dmaVars
<1>28. ClearWriteFlag(c) => Still
  BY DEF ClearWriteFlag, dmaVars
<1>29. Closed(c) => Still
  BY DEF Closed, dmaVars
<1>30. Still => PosInv'
  BY <1>2, <1>3
<1> QED
  BY <1>4, <1>5, <1>6, <1>7, <1>9, <1>10, <1>11, <1>12, <1>13, <1>14, <1>15, <1>16, <1>17, <1>18, <1>19, <1>20, <1>21, <1>22, <1>23, <1>24, <1>25, <1>26, <1>27, <1>28, <1>29, <1>30 DEF Call, Step, Start

LEMMA PosNext ==
  ASSUME HalfInv, NEW c, Clients = {c}, [Next]_vars,
         NEW K \in Nat \ {0}, BlockLen = K * FrameLen
  PROVE  PosInv'
<1> USE ConstantsAssumption
<1>1. /\ half \in {0, 1} /\ running \in BOOLEAN
      /\ index \in 0 .. FrameLen /\ remain \in 0 .. FrameLen
  BY DEF HalfInv, TypeInv, TypeOK, DmaOK, IsrOK
<1>2. Wrap((1 - half) * FrameLen + FrameLen, Total) = half * FrameLen
  <2>1. CASE half = 0
    BY <2>1 DEF Wrap, Total
  <2>2. CASE half = 1
    BY <2>2 DEF Wrap, Total
  <2> QED
    BY <1>1, <2>1, <2>2
<1>3. CASE PlayHalf
  <2>1. pos = half * FrameLen /\ half = 1 - half'
    BY <1>1, <1>3 DEF PlayHalf, HalfInv, PosInv
  <2>2. isr' = "idle" /\ irq' = TRUE /\ running' = running /\ running /\ pos' = pos
    BY <1>3 DEF PlayHalf, isrVars
  <2>3. half' \in {0, 1} /\ pos = (1 - half') * FrameLen
    <3>1. half' \in {0, 1} /\ half = 1 - half'
      BY <1>1, <1>3 DEF PlayHalf
    <3> QED
      BY <2>1, <3>1
  <2> QED
    BY <2>2, <2>3 DEF PosInv
<1>4. CASE SendSilence
  <2>1. pos = (1 - half) * FrameLen /\ running
    BY <1>4 DEF SendSilence, HalfInv, PosInv
  <2>2. pos' = half' * FrameLen
    BY <1>2, <1>4, <2>1 DEF SendSilence
  <2>3. running' = running /\ irq' = FALSE /\ isr' = "idle"
    BY <1>4 DEF SendSilence, isrVars
  <2> QED
    BY <2>1, <2>2, <2>3 DEF PosInv
<1>5. CASE SendFrame
  <2>1. pos = (1 - half) * FrameLen /\ running
    BY <1>5 DEF SendFrame, HalfInv, PosInv
  <2>2. pos' = (1 - half') * FrameLen + index'
    <3>1. (1 - half) * FrameLen \in Int
      BY <1>1
    <3> QED
      BY <1>5, <2>1, <3>1 DEF SendFrame
  <2> QED
    BY <1>5, <2>1, <2>2 DEF SendFrame, PosInv, queueVars
<1>6. CASE CopyToFifo
  <2>1. /\ index = 0 /\ pos = (1 - half) * FrameLen /\ Share \in 1 .. FrameLen
        /\ Share < FrameLen => readIndex + Share = Head(queue).size /\ Tail(queue) = <<>>
    BY <1>6, Round
  <2>2. running /\ ~irq /\ UNCHANGED <<running, irq, half>>
    BY <1>6 DEF CopyToFifo, HalfInv, PosInv
  <2>3. CASE Share = FrameLen
    <3>1. isr' = "idle"
      BY <1>6, <2>1, <2>3 DEF CopyToFifo
    <3>2. pos' = half' * FrameLen
      BY <1>2, <1>6, <2>1, <2>2, <2>3 DEF CopyToFifo
    <3> QED
      BY <2>2, <3>1, <3>2 DEF PosInv
  <2>4. CASE Share < FrameLen
    <3>1. isr' = "copy" /\ index' = Share /\ remain' = Share /\ queue' = <<>>
      BY <1>6, <2>1, <2>4 DEF CopyToFifo, GiveBack
    <3>2. (1 - half) * FrameLen \in {0, FrameLen}
      BY <1>1
    <3>3. pos' = (1 - half') * FrameLen + index'
      <4>1. pos + Share < Total
        BY <2>1, <2>4, <3>2 DEF Total
      <4>2. pos + Share \in Int /\ Total \in Int
        BY <2>1, <3>2 DEF Total
      <4>3. pos' = Wrap(pos + Share, Total)
        BY <1>6 DEF CopyToFifo
      <4>4. pos' = pos + Share
        BY <4>1, <4>2, <4>3 DEF Wrap
      <4> QED
        BY <2>1, <2>2, <3>1, <4>4
    <3> QED
      BY <2>1, <2>2, <2>4, <3>1, <3>3 DEF PosInv
  <2> QED
    BY <2>1, <2>3, <2>4
<1>7. CASE UnderRun
  <2>1. pos = (1 - half) * FrameLen + index /\ remain = index /\ running /\ ~irq
    BY <1>7 DEF UnderRun, HalfInv, PosInv
  <2>2. pos - remain + FrameLen = (1 - half) * FrameLen + FrameLen
    <3>1. (1 - half) * FrameLen \in Int
      BY <1>1
    <3> QED
      BY <1>1, <2>1, <3>1
  <2>3. pos' = half' * FrameLen
    BY <1>2, <1>7, <2>2 DEF UnderRun, dmaVars
  <2> QED
    BY <1>7, <2>1, <2>3 DEF UnderRun, PosInv, dmaVars
<1>8. CASE UNCHANGED vars
  BY <1>8 DEF vars, dmaVars, isrVars, queueVars, HalfInv, PosInv
<1> QED
  BY <1>3, <1>4, <1>5, <1>6, <1>7, <1>8, PosPlayer DEF Next, Isr

LEMMA HalfInit == Init => HalfInv
<1> SUFFICES ASSUME Init PROVE HalfInv
  OBVIOUS
<1>1. PlayerInv
  BY PoolInit, ConstantsAssumption DEF PoolInv
<1>2. queue = <<>> /\ readIndex = 0 /\ running = FALSE /\ irq = FALSE /\ isr = "idle"
  BY DEF Init
<1>3. AlignInv
  <2>1. 0 \in Nat /\ readIndex = 0 * FrameLen
    BY <1>2, ConstantsAssumption
  <2> QED
    BY <2>1 DEF AlignInv
<1>4. SizesInv /\ PosInv
  BY <1>2 DEF SizesInv, PosInv
<1> QED
  BY <1>1, <1>3, <1>4, TypeInit, WaiterInit, StreamInit DEF HalfInv

LEMMA HalfNext ==
  ASSUME HalfInv, NEW c, Clients = {c}, [Next]_vars,
         NEW K \in Nat \ {0}, BlockLen = K * FrameLen
  PROVE  HalfInv'
<1>1. TypeInv' /\ WaiterInv' /\ PlayerInv'
  BY TypeNext, WaiterNext, PlayerNext DEF HalfInv, TypeInv
<1> QED
  BY <1>1, StreamNext, SizesNext, AlignNext, PosNext DEF HalfInv

\* With one player at a time the interrupt handler never writes into the half of
\* the FIFO the DMA is reading, whatever is written and wherever the data runs
\* dry: pos, which only software moves, never slips against the hardware
\* (_audio_send_replay_frame).
THEOREM HalvesOwned ==
  ASSUME NEW c, Clients = {c}, NEW K \in Nat \ {0}, BlockLen = K * FrameLen
  PROVE  Spec => []HalfOwnership
<1>1. HalfInv => HalfOwnership
  <2> SUFFICES ASSUME HalfInv, isr = "copy"
               PROVE  pos \in (1 - half) * FrameLen .. (2 - half) * FrameLen - 1
    BY DEF HalfInv, PosInv, HalfOwnership
  <2>1. pos = (1 - half) * FrameLen + index /\ index < FrameLen
    BY DEF HalfInv, PosInv
  <2>2. half \in {0, 1} /\ index \in 0 .. FrameLen
    BY DEF HalfInv, TypeInv, TypeOK, DmaOK, IsrOK
  <2> QED
    BY <2>1, <2>2, ConstantsAssumption
<1>2. HalfInv /\ [Next]_vars => HalfInv'
  BY HalfNext
<1> QED
  BY <1>1, <1>2, HalfInit, PTL DEF Spec

\* With one player at a time the DMA is never started twice, and Error_Handler
\* never reached: the test of activated outside the lock is good enough then
\* (_audio_dev_write, stm32_player_start).
THEOREM NeverStartedTwice ==
  ASSUME NEW c, Clients = {c}, NEW K \in Nat \ {0}, BlockLen = K * FrameLen
  PROVE  Spec => []NeverHalts
<1>1. HalfInv => NeverHalts
  BY DEF HalfInv, StreamInv, NeverHalts, Halted
<1>2. HalfInv /\ [Next]_vars => HalfInv'
  BY HalfNext
<1> QED
  BY <1>1, <1>2, HalfInit, PTL DEF Spec

-----------------------------------------------------------------------------
(* What is heard.  One player at a time and blocks of a whole number of      *)
(* frames, as above.                                                         *)

\* A thread that takes a block, or copies into it, has samples left to copy.
LeftInv == \A c \in Clients : pc[c] \in {"alloc", "copy"} => left[c] # 0

\* The samples in the block being filled.
Filled == IF \E c \in Clients : pc[c] = "push" THEN BlockLen ELSE writeIndex

\* The number of the first sample of a block, and that the block holds so many
\* samples of the stream from that one on.
First(b) == mem[b][0].n
Holds(b, size) == \A i \in 0 .. size - 1 : mem[b][i] = [s |-> stream, n |-> First(b) + i]

\* The number of the first sample that is in no queued block.
FirstUnqueued == IF Filled # 0 THEN First(writeData) ELSE accepted + 1

\* The queued blocks and the block being filled hold the last samples taken in,
\* each once, in order.
ContentsInv ==
  /\ \A i \in 1 .. Len(queue) :
       /\ Holds(queue[i].block, queue[i].size)
       /\ First(queue[i].block) + queue[i].size =
            IF i < Len(queue) THEN First(queue[i + 1].block) ELSE FirstUnqueued
  /\ Filled # 0 => /\ Holds(writeData, Filled)
                   /\ First(writeData) + Filled = accepted + 1

\* The samples of this stream that went into the FIFO.
Fed == IF queue # <<>> THEN First(queue[1].block) + readIndex - 1 ELSE FirstUnqueued - 1

\* Where a player is before it is started again, once its stop is acknowledged.
Quiet(c) ==
  \/ pc[c] \in {"idle", "opening", "configure", "woken", "clear", "hwstop", "deactivate",
                "closeflag", "closed"}
  \/ pc[c] \in Playing /\ ~activated
  \/ pc[c] = "wait" /\ cmp.done

Silent(h) == \A j \in Places(h) : fifo[j] = Silence

\* A stop is acknowledged when the half that is played next is silent, and from
\* then on until the start at least one half is.
QuietInv ==
  \A c \in Clients : Quiet(c) =>
    /\ isr = "idle"
    /\ Silent(0) \/ Silent(1)
    /\ running /\ ~irq => Silent(1 - half)
    /\ pc[c] \in {"wait", "woken", "clear", "hwstop"} => running

\* Half h of the FIFO holds m samples of the stream from the one after k on, and
\* nothing of it behind them.
Frame(h, m, k) ==
  \A j \in Places(h) :
    /\ j < h * FrameLen + m => fifo[j] = [s |-> stream, n |-> k + 1 + j - h * FrameLen]
    /\ j >= h * FrameLen + m => fifo[j].s # stream

\* The half being played holds the next a samples, the other one the b samples
\* after them (none, once it has been played), and those are all that went into
\* the FIFO.  An earlier stream has left something in one half at most, which is
\* played before anything else.
Frames(a, b) ==
  /\ heard + a + b = Fed
  /\ irq => b = 0
  /\ isr = "copy" => b = index /\ Leftover(1 - half) = {}
  /\ Frame(half, a, heard)
  /\ ~irq => Frame(1 - half, b, heard + a)
  /\ Leftover(half) # {} => a = 0 /\ heard = 0 /\ ~stale
  /\ ~irq /\ Leftover(1 - half) # {} =>
       a = 0 /\ b = 0 /\ heard = 0 /\ ~stale /\ Leftover(half) = {}

FramesInv == running => \E a, b \in 0 .. FrameLen : Frames(a, b)

\* Before the start nothing of the stream has gone into the FIFO, and after the
\* stop at most one half of it has not been heard.
StoppedInv ==
  \A c \in Clients :
    /\ pc[c] # "idle" => stream # 0
    /\ \A i \in 0 .. Total - 1 : fifo[i].s <= stream
    /\ ~running /\ pc[c] \notin {"idle", "deactivate", "closeflag", "closed"} =>
         /\ heard = 0 /\ ~stale /\ Fed = 0
         /\ \A i \in 0 .. Total - 1 : fifo[i].s < stream
    /\ pc[c] = "deactivate" => accepted - heard <= FrameLen

SoundInv == HalfInv /\ BlocksConserved /\ LeftInv /\ ContentsInv /\ QuietInv /\ FramesInv /\ StoppedInv

LEMMA FilledOfOne ==
  ASSUME NEW c, Clients = {c}
  PROVE  Filled = IF pc[c] = "push" THEN BlockLen ELSE writeIndex
BY DEF Filled

\* The steps of a player that neither begin a stream, move data, start nor stop
\* the DMA.  None of them makes the player quiet, and only a writer with samples
\* left asks for a block.
LEMMA OtherSteps ==
  ASSUME HalfInv, NEW c, Clients = {c}, Call(c) \/ Step(c),
         ~(Open(c) \/ Alloc(c) \/ Copy(c) \/ Push(c) \/ Flush(c) \/ StartDma(c) \/ StopDma(c))
  PROVE  /\ UNCHANGED <<fillVars, queueVars, mem, running, half, irq, fifo, isr, index, histVars>>
         /\ pc[c] # "push" /\ pc'[c] # "push"
         /\ Quiet(c)' => Quiet(c)
         /\ Quiet(c)' /\ pc'[c] \in {"wait", "woken", "clear", "hwstop"} =>
              pc[c] \in {"wait", "woken", "clear", "hwstop"}
         /\ pc[c] \in {"idle", "deactivate", "closeflag", "closed"} =>
              pc'[c] \in {"idle", "deactivate", "closeflag", "closed"}
         /\ pc[c] = "idle" => pc'[c] = "idle"
         /\ pc'[c] = "deactivate" => pc[c] = "deactivate"
         /\ pc'[c] \in {"alloc", "copy"} => left'[c] # 0
<1> DEFINE Stays ==
         /\ UNCHANGED <<fillVars, queueVars, mem, running, half, irq, fifo, isr, index, histVars>>
         /\ pc[c] # "push" /\ pc'[c] # "push"
         /\ Quiet(c)' => Quiet(c)
         /\ Quiet(c)' /\ pc'[c] \in {"wait", "woken", "clear", "hwstop"} =>
              pc[c] \in {"wait", "woken", "clear", "hwstop"}
         /\ pc[c] \in {"idle", "deactivate", "closeflag", "closed"} =>
              pc'[c] \in {"idle", "deactivate", "closeflag", "closed"}
         /\ pc[c] = "idle" => pc'[c] = "idle"
         /\ pc'[c] = "deactivate" => pc[c] = "deactivate"
         /\ pc'[c] \in {"alloc", "copy"} => left'[c] # 0
<1> USE DEF Quiet, Playing, InWrite
<1> DEFINE D == pc \in [{c} -> PCs] /\ left \in [{c} -> Nat]
<1>1. D
  BY DEF HalfInv, TypeInv, TypeOK, ThreadOK
<1> HIDE DEF D
<1>2. Opened(c) => Stays
  BY <1>1 DEF D, Opened, Goto, ctlVars, fillVars, queueVars, poolVars, syncVars, dmaVars, isrVars, histVars
<1>3. Configure(c) => Stays
  BY <1>1 DEF D, Configure, Goto, ctlVars, fillVars, queueVars, poolVars, syncVars, dmaVars, isrVars, histVars, HalfInv, StreamInv, TypeInv, TypeOK, DmaOK
<1>5. Write(c) => Stays
  BY <1>1 DEF D, Write, Goto, ctlVars, fillVars, queueVars, poolVars, syncVars, dmaVars, isrVars, histVars
<1>6. TakeLock(c) => Stays
  BY <1>1 DEF D, TakeLock, Goto, ctlVars, fillVars, queueVars, poolVars, syncVars, dmaVars, isrVars, histVars
<1>7. NextBlock(c) => Stays
  BY <1>1 DEF D, NextBlock, Goto, ctlVars, fillVars, queueVars, poolVars, syncVars, dmaVars, isrVars, histVars
<1>8. ReleaseLock(c) => Stays
  BY <1>1 DEF D, ReleaseLock, Goto, ctlVars, fillVars, queueVars, poolVars, syncVars, dmaVars, isrVars, histVars
<1>9. CheckActivated(c) => Stays
  BY <1>1 DEF D, CheckActivated, Goto, ctlVars, fillVars, queueVars, poolVars, syncVars, dmaVars, isrVars, histVars
<1>10. StartFails(c) => Stays
  BY <1>1 DEF D, StartFails, Goto, ctlVars, fillVars, queueVars, poolVars, syncVars, dmaVars, isrVars, histVars
<1>11. Close(c) => Stays
  BY <1>1 DEF D, Close, Goto, ctlVars, fillVars, queueVars, poolVars, syncVars, dmaVars, isrVars, histVars, HalfInv, PlayerInv
<1>12. CloseReplay(c) => Stays
  BY <1>1 DEF D, CloseReplay, Goto, ctlVars, fillVars, queueVars, poolVars, syncVars, dmaVars, isrVars, histVars, HalfInv, PlayerInv
<1>13. SetStopEvent(c) => Stays
  BY <1>1 DEF D, SetStopEvent, Goto, ctlVars, fillVars, queueVars, poolVars, syncVars, dmaVars, isrVars, histVars
<1>14. InitCompletion(c) => Stays
  BY <1>1 DEF D, InitCompletion, Goto, ctlVars, fillVars, queueVars, poolVars, syncVars, dmaVars, isrVars, histVars
<1>15. Wait(c) => Stays
  BY <1>1 DEF D, Wait, Goto, ctlVars, fillVars, queueVars, poolVars, syncVars, dmaVars, isrVars, histVars
<1>16. Woken(c) => Stays
  BY <1>1 DEF D, Woken, Goto, ctlVars, fillVars, queueVars, poolVars, syncVars, dmaVars, isrVars, histVars
<1>17. ClearStopEvent(c) => Stays
  BY <1>1 DEF D, ClearStopEvent, Goto, ctlVars, fillVars, queueVars, poolVars, syncVars, dmaVars, isrVars, histVars
<1>18. Deactivate(c) => Stays
  BY <1>1 DEF D, Deactivate, Goto, ctlVars, fillVars, queueVars, poolVars, syncVars, dmaVars, isrVars, histVars
<1>19. ClearWriteFlag(c) => Stays
  BY <1>1 DEF D, ClearWriteFlag, Goto, ctlVars, fillVars, queueVars, poolVars, syncVars, dmaVars, isrVars, histVars
<1>20. Closed(c) => Stays
  BY <1>1 DEF D, Closed, Goto, ctlVars, fillVars, queueVars, poolVars, syncVars, dmaVars, isrVars, histVars
<1> QED
  BY <1>2, <1>3, <1>5, <1>6, <1>7, <1>8, <1>9, <1>10, <1>11, <1>12, <1>13, <1>14, <1>15, <1>16, <1>17, <1>18, <1>19, <1>20 DEF Call, Step, Start

\* The queue and the block being filled as they stay.
LEMMA ContentsKept ==
  ASSUME ContentsInv, UNCHANGED <<queue, readIndex, mem, writeData, stream, accepted>>, Filled' = Filled
  PROVE  ContentsInv' /\ Fed' = Fed
<1>1. \A b : First(b)' = First(b)
  BY DEF First
<1>2. FirstUnqueued' = FirstUnqueued
  BY <1>1 DEF FirstUnqueued
<1>3. \A b, size : Holds(b, size)' <=> Holds(b, size)
  BY <1>1 DEF Holds
<1> QED
  BY <1>1, <1>2, <1>3 DEF ContentsInv, Fed

\* Only the numbers of samples in the queue and in the block being filled.
LEMMA SoundTypes ==
  ASSUME HalfInv, NEW c, Clients = {c}
  PROVE  /\ pc \in [{c} -> PCs] /\ queue \in Seq(Item) /\ Len(queue) \in Nat
         /\ queue # <<>> => Len(queue) \in Nat \ {0} /\ queue[1] \in Item
         /\ \A i \in 1 .. Len(queue) : queue[i].block \in Blocks /\ queue[i].size \in 1 .. BlockLen
         /\ mem \in [Blocks -> [0 .. BlockLen - 1 -> Sample]]
         /\ writeIndex \in 0 .. BlockLen - 1 /\ readIndex \in 0 .. BlockLen - 1
         /\ accepted \in Nat /\ stream \in Nat /\ heard \in Nat
         /\ \A b \in Blocks : First(b) \in Nat
         /\ Filled # 0 => writeData \in Blocks /\ Filled \in 1 .. BlockLen
         /\ FirstUnqueued \in Nat /\ Fed \in Int
<1> USE ConstantsAssumption
<1>1. /\ pc \in [{c} -> PCs] /\ queue \in Seq(Item)
      /\ mem \in [Blocks -> [0 .. BlockLen - 1 -> Sample]]
      /\ writeIndex \in 0 .. BlockLen - 1 /\ readIndex \in 0 .. BlockLen - 1
  BY DEF HalfInv, TypeInv, TypeOK, ThreadOK, QueueOK, PoolOK, FillOK
<1>2. accepted \in Nat /\ stream \in Nat /\ heard \in Nat
  BY DEF HalfInv, TypeInv, TypeOK, HistOK
<1>3. Len(queue) \in Nat /\ \A i \in 1 .. Len(queue) : queue[i] \in Item
  BY <1>1
<1>4. queue # <<>> => Len(queue) \in Nat \ {0} /\ queue[1] \in Item
  BY <1>1
<1>5. \A b \in Blocks : First(b) \in Nat
  <2>1. 0 \in 0 .. BlockLen - 1
    OBVIOUS
  <2> QED
    BY <1>1, <2>1 DEF First, Sample
<1>6. Filled # 0 => writeData \in Blocks /\ Filled \in 1 .. BlockLen
  BY <1>1, FilledOfOne DEF HalfInv, TypeInv, FillInv
<1>7. FirstUnqueued \in Nat
  BY <1>2, <1>5, <1>6 DEF FirstUnqueued
<1>8. Fed \in Int
  BY <1>1, <1>4, <1>5, <1>7 DEF Fed, Item
<1> QED
  BY <1>1, <1>2, <1>3, <1>4, <1>5, <1>6, <1>7, <1>8 DEF Item

\* The block being filled goes to the end of the queue.
LEMMA ContentsQueued ==
  ASSUME HalfInv, ContentsInv, NEW c, Clients = {c}, Filled # 0, Filled' = 0,
         queue' = Append(queue, [block |-> writeData, size |-> Filled]),
         UNCHANGED <<readIndex, mem, stream, accepted>>
  PROVE  ContentsInv' /\ Fed' = Fed
<1> DEFINE e == [block |-> writeData, size |-> Filled]
<1>1. /\ queue \in Seq(Item) /\ Len(queue) \in Nat /\ e \in Item
      /\ accepted \in Nat /\ FirstUnqueued \in Nat
      /\ \A b \in Blocks : First(b) \in Nat
  BY SoundTypes DEF Item
<1>2. /\ Len(queue') = Len(queue) + 1
      /\ \A i \in 1 .. Len(queue') : queue'[i] = IF i <= Len(queue) THEN queue[i] ELSE e
  <2>1. queue' = Append(queue, e)
    OBVIOUS
  <2> HIDE DEF e
  <2> QED
    BY <1>1, <2>1
<1>3. \A b : First(b)' = First(b)
  BY DEF First
<1>4. \A b, size : Holds(b, size)' <=> Holds(b, size)
  BY <1>3 DEF Holds
<1>5. FirstUnqueued = First(writeData) /\ FirstUnqueued' = accepted + 1
  BY DEF FirstUnqueued
<1>6. Holds(writeData, Filled) /\ First(writeData) + Filled = accepted + 1
  BY DEF ContentsInv
<1>7. \A i \in 1 .. Len(queue') :
        /\ Holds(queue'[i].block, queue'[i].size)
        /\ First(queue'[i].block) + queue'[i].size =
             IF i < Len(queue') THEN First(queue'[i + 1].block) ELSE accepted + 1
  <2> SUFFICES ASSUME NEW i \in 1 .. Len(queue')
               PROVE  /\ Holds(queue'[i].block, queue'[i].size)
                      /\ First(queue'[i].block) + queue'[i].size =
                           IF i < Len(queue') THEN First(queue'[i + 1].block) ELSE accepted + 1
    OBVIOUS
  <2>1. CASE i = Len(queue) + 1
    <3>1. queue'[i] = e /\ i = Len(queue')
      BY <1>1, <1>2, <2>1
    <3> QED
      BY <1>6, <3>1
  <2>2. CASE i = Len(queue)
    <3>1. queue'[i] = queue[i] /\ queue'[i + 1] = e /\ i < Len(queue') /\ i \in 1 .. Len(queue)
      BY <1>1, <1>2, <2>2
    <3>2. Holds(queue[i].block, queue[i].size) /\ First(queue[i].block) + queue[i].size = FirstUnqueued
      BY <2>2, <3>1 DEF ContentsInv
    <3> QED
      BY <1>5, <3>1, <3>2
  <2>3. CASE i < Len(queue)
    <3>1. queue'[i] = queue[i] /\ queue'[i + 1] = queue[i + 1] /\ i < Len(queue') /\ i \in 1 .. Len(queue)
      BY <1>1, <1>2, <2>3
    <3>2. Holds(queue[i].block, queue[i].size) /\ First(queue[i].block) + queue[i].size = First(queue[i + 1].block)
      BY <2>3, <3>1 DEF ContentsInv
    <3> QED
      BY <3>1, <3>2
  <2> QED
    BY <1>1, <1>2, <2>1, <2>2, <2>3
<1>8. ContentsInv'
  BY <1>3, <1>4, <1>5, <1>7 DEF ContentsInv
<1>9. Fed' = Fed
  <2>1. queue' # <<>> /\ queue'[1] = IF queue = <<>> THEN e ELSE queue[1]
    BY <1>1, <1>2
  <2>2. Fed' = First(queue'[1].block) + readIndex - 1
    BY <2>1 DEF Fed, First
  <2>3. queue = <<>> => readIndex = 0
    BY DEF HalfInv, TypeInv, HeadInv
  <2>4. CASE queue = <<>>
    BY <1>1, <1>5, <2>1, <2>2, <2>3, <2>4 DEF Fed
  <2>5. CASE queue # <<>>
    BY <2>1, <2>2, <2>5 DEF Fed
  <2> QED
    BY <2>4, <2>5
<1> QED
  BY <1>8, <1>9

\* A stream begins with nothing queued.
LEMMA ContentsOpen ==
  ASSUME HalfInv, NEW c, Clients = {c}, Open(c)
  PROVE  ContentsInv' /\ Fed' = 0
<1>1. pc \in [{c} -> PCs] /\ pc[c] = "idle"
  BY DEF Open, HalfInv, TypeInv, TypeOK, ThreadOK
<1>2. writeIndex = 0 /\ openFlag = {} /\ queue = <<>>
  BY <1>1 DEF HalfInv, PlayerInv, StreamInv
<1>3. pc'[c] = "opening" /\ writeIndex' = 0 /\ queue' = <<>> /\ accepted' = 0
  BY <1>1, <1>2 DEF Open, Goto, ResetReplay
<1>4. Filled' = 0
  BY <1>3, FilledOfOne DEF Filled
<1>5. FirstUnqueued' = 1
  BY <1>3, <1>4 DEF FirstUnqueued
<1>6. Fed' = 0
  BY <1>3, <1>5 DEF Fed
<1>7. Len(queue') = 0
  BY <1>3
<1> QED
  BY <1>4, <1>6, <1>7 DEF ContentsInv

\* A block fresh from the pool is none of those in the queue.
LEMMA ContentsAlloc ==
  ASSUME HalfInv, BlocksConserved, ContentsInv, NEW c, Clients = {c}, Alloc(c)
  PROVE  ContentsInv' /\ Fed' = Fed
<1>1. PICK b \in free : mem' = [mem EXCEPT ![b] = [i \in 0 .. BlockLen - 1 |-> Silence]]
  BY DEF Alloc
<1>2. /\ pc \in [{c} -> PCs] /\ pc[c] = "alloc" /\ pc' = [pc EXCEPT ![c] = "copy"]
      /\ UNCHANGED <<writeIndex, queue, readIndex, stream, accepted>>
  BY SoundTypes DEF Alloc, Goto, queueVars, histVars
<1>3. writeIndex = 0
  BY <1>2 DEF HalfInv, PlayerInv
<1>4. Filled = 0 /\ Filled' = 0
  BY <1>2, <1>3, FilledOfOne DEF Filled
<1>5. mem \in [Blocks -> [0 .. BlockLen - 1 -> Sample]]
  BY SoundTypes
<1>6. \A i \in 1 .. Len(queue) : queue[i].block \in Blocks /\ queue[i].block # b
  BY SoundTypes DEF BlocksConserved, QueuedBlocks
<1>7. \A i \in 1 .. Len(queue) : mem'[queue[i].block] = mem[queue[i].block]
  BY <1>1, <1>5, <1>6
<1>8. \A i \in 1 .. Len(queue) : /\ mem'[queue[i].block][0].n = First(queue[i].block)
                                 /\ Holds(queue[i].block, queue[i].size) =>
                                      \A j \in 0 .. queue[i].size - 1 :
                                        mem'[queue[i].block][j] = [s |-> stream, n |-> First(queue[i].block) + j]
  BY <1>7 DEF First, Holds
<1>9. FirstUnqueued = accepted + 1 /\ FirstUnqueued' = accepted + 1
  BY <1>2, <1>4 DEF FirstUnqueued
<1>10. ContentsInv'
  <2> SUFFICES ASSUME NEW i \in 1 .. Len(queue)
               PROVE  /\ Holds(queue[i].block, queue[i].size)'
                      /\ First(queue[i].block)' + queue[i].size =
                           IF i < Len(queue) THEN First(queue[i + 1].block)' ELSE accepted + 1
    BY <1>2, <1>4, <1>9 DEF ContentsInv
  <2>1. /\ Holds(queue[i].block, queue[i].size)
        /\ First(queue[i].block) + queue[i].size =
             IF i < Len(queue) THEN First(queue[i + 1].block) ELSE accepted + 1
    BY <1>9 DEF ContentsInv
  <2>2. Holds(queue[i].block, queue[i].size)'
    BY <1>2, <1>8, <2>1 DEF Holds, First
  <2>3. First(queue[i].block)' = First(queue[i].block)
    BY <1>2, <1>8 DEF First
  <2>4. i < Len(queue) => First(queue[i + 1].block)' = First(queue[i + 1].block)
    <3>1. Len(queue) \in Nat
      BY SoundTypes
    <3> QED
      BY <1>2, <1>8, <3>1 DEF First
  <2> QED
    BY <2>1, <2>2, <2>3, <2>4
<1>11. Fed' = Fed
  <2>1. queue # <<>> => 1 \in 1 .. Len(queue)
    BY SoundTypes
  <2> QED
    BY <1>2, <1>8, <1>9, <2>1 DEF Fed, First
<1> QED
  BY <1>10, <1>11

\* What a writer copies follows what the block holds, or what is queued.
LEMMA ContentsCopy ==
  ASSUME HalfInv, BlocksConserved, ContentsInv, LeftInv, NEW c, Clients = {c}, Copy(c)
  PROVE  ContentsInv' /\ Fed' = Fed
<1> USE ConstantsAssumption
<1> DEFINE n == Taken(c)
           next == Wrap(writeIndex + n, BlockLen)
           b == writeData
<1>1. /\ pc \in [{c} -> PCs] /\ pc[c] = "copy"
      /\ writeIndex \in 0 .. BlockLen - 1 /\ b \in Blocks
      /\ mem \in [Blocks -> [0 .. BlockLen - 1 -> Sample]]
      /\ accepted \in Nat /\ stream \in Nat
  BY SoundTypes DEF Copy, HalfInv, TypeInv, FillInv
<1>2. left[c] \in Nat \ {0}
  BY <1>1 DEF HalfInv, TypeInv, TypeOK, ThreadOK, LeftInv
<1>3. n \in 1 .. BlockLen - writeIndex
  BY <1>1, <1>2 DEF Taken, Min2
<1>4. /\ mem' = [mem EXCEPT ![b] =
                   [i \in 0 .. BlockLen - 1 |->
                      IF i >= writeIndex /\ i < writeIndex + n
                      THEN [s |-> stream, n |-> accepted + 1 + i - writeIndex]
                      ELSE mem[b][i]]]
      /\ writeIndex' = next /\ accepted' = accepted + n
      /\ pc' = [pc EXCEPT ![c] = IF next = 0 THEN "push" ELSE "loop"]
      /\ UNCHANGED <<writeData, queue, readIndex, stream>>
  BY DEF Copy, Goto, queueVars
<1> HIDE DEF n
<1>5. Filled = writeIndex /\ Filled' = writeIndex + n
  <2>1. next = IF writeIndex + n = BlockLen THEN 0 ELSE writeIndex + n
    BY <1>1, <1>3 DEF Wrap
  <2>2. Filled' = IF next = 0 THEN BlockLen ELSE next
    <3>1. Filled' = IF pc'[c] = "push" THEN BlockLen ELSE writeIndex'
      BY DEF Filled
    <3> QED
      BY <1>1, <1>4, <3>1
  <2>3. Filled = writeIndex
    BY <1>1, FilledOfOne
  <2> HIDE DEF next
  <2> QED
    BY <1>1, <1>3, <2>1, <2>2, <2>3
<1>6. \A i \in 0 .. BlockLen - 1 :
        mem'[b][i] = IF i >= writeIndex /\ i < writeIndex + n
                     THEN [s |-> stream, n |-> accepted + 1 + i - writeIndex]
                     ELSE mem[b][i]
  BY <1>1, <1>4
<1>7. writeIndex # 0 => Holds(b, writeIndex) /\ First(b) + writeIndex = accepted + 1
  BY <1>5 DEF ContentsInv
<1>8. First(b)' = FirstUnqueued
  <2>1. 0 \in 0 .. BlockLen - 1
    OBVIOUS
  <2>2. CASE writeIndex = 0
    BY <1>1, <1>3, <1>4, <1>5, <1>6, <2>1, <2>2 DEF First, FirstUnqueued
  <2>3. CASE writeIndex # 0
    BY <1>1, <1>3, <1>4, <1>5, <1>6, <2>1, <2>3 DEF First, FirstUnqueued
  <2> QED
    BY <2>2, <2>3
<1>9. FirstUnqueued \in Nat /\ FirstUnqueued + writeIndex = accepted + 1
  <2>1. CASE writeIndex = 0
    BY <1>1, <1>5, <2>1 DEF FirstUnqueued
  <2>2. CASE writeIndex # 0
    BY <1>5, <1>7, <2>2, SoundTypes DEF FirstUnqueued
  <2> QED
    BY <2>1, <2>2
<1>10. ASSUME NEW i \in 0 .. writeIndex + n - 1
       PROVE  mem'[b][i] = [s |-> stream, n |-> FirstUnqueued + i]
  <2>1. i \in 0 .. BlockLen - 1
    BY <1>1, <1>3
  <2>2. CASE i >= writeIndex
    <3>1. accepted + 1 + i - writeIndex = FirstUnqueued + i
      BY <1>1, <1>9, <2>1
    <3>2. i < writeIndex + n
      BY <1>1, <1>3
    <3>3. mem'[b][i] = [s |-> stream, n |-> accepted + 1 + i - writeIndex]
      BY <1>6, <2>1, <2>2, <3>2
    <3> QED
      BY <3>1, <3>3
  <2>3. CASE i < writeIndex
    <3>1. mem'[b][i] = mem[b][i]
      <4>1. ~(i >= writeIndex)
        BY <1>1, <2>1, <2>3
      <4> QED
        BY <1>6, <2>1, <4>1
    <3>2. FirstUnqueued = First(b) /\ Holds(b, writeIndex)
      BY <1>1, <1>5, <1>7, <2>1, <2>3 DEF FirstUnqueued
    <3>3. i \in 0 .. writeIndex - 1
      BY <1>1, <2>1, <2>3
    <3> QED
      BY <3>1, <3>2, <3>3 DEF Holds
  <2> QED
    BY <1>1, <2>1, <2>2, <2>3
<1>11. FirstUnqueued' = FirstUnqueued
  BY <1>1, <1>3, <1>4, <1>5, <1>8 DEF FirstUnqueued
<1>12. \A i \in 1 .. Len(queue) : mem'[queue[i].block] = mem[queue[i].block]
  <2>1. FillingBlocks = {b}
    BY <1>1 DEF FillingBlocks
  <2>2. \A i \in 1 .. Len(queue) : queue[i].block \in Blocks /\ queue[i].block # b
    BY <2>1, SoundTypes DEF BlocksConserved, QueuedBlocks
  <2> QED
    BY <1>1, <1>4, <2>2
<1>13. ContentsInv'
  <2>1. ASSUME NEW i \in 1 .. Len(queue)
        PROVE  /\ Holds(queue[i].block, queue[i].size)'
               /\ First(queue[i].block)' + queue[i].size =
                    IF i < Len(queue) THEN First(queue[i + 1].block)' ELSE FirstUnqueued
    <3>1. /\ Holds(queue[i].block, queue[i].size)
          /\ First(queue[i].block) + queue[i].size =
               IF i < Len(queue) THEN First(queue[i + 1].block) ELSE FirstUnqueued
      BY DEF ContentsInv
    <3>2. Holds(queue[i].block, queue[i].size)'
      BY <1>4, <1>12, <3>1 DEF Holds, First
    <3>3. First(queue[i].block)' = First(queue[i].block)
      BY <1>4, <1>12 DEF First
    <3>4. i < Len(queue) => First(queue[i + 1].block)' = First(queue[i + 1].block)
      <4>1. Len(queue) \in Nat
        BY SoundTypes
      <4> QED
        BY <1>4, <1>12, <4>1, SMTT(60) DEF First
    <3> QED
      BY <3>1, <3>2, <3>3, <3>4
  <2>2. Holds(writeData, Filled)' /\ First(writeData)' + Filled' = accepted'  + 1
    <3>1. Holds(writeData, Filled)'
      <4> SUFFICES ASSUME NEW i \in 0 .. Filled' - 1
                   PROVE  mem'[writeData'][i] = [s |-> stream', n |-> mem'[writeData'][0].n + i]
        BY DEF Holds, First
      <4>1. mem'[writeData'][0].n = FirstUnqueued
        BY <1>8 DEF First
      <4>2. i \in 0 .. writeIndex + n - 1
        BY <1>1, <1>3, <1>5
      <4>3. mem'[b][i] = [s |-> stream, n |-> FirstUnqueued + i]
        BY <1>10, <4>2
      <4> QED
        BY <1>4, <4>1, <4>3
    <3>2. First(writeData)' + Filled' = accepted' + 1
      BY <1>1, <1>3, <1>4, <1>5, <1>8, <1>9
    <3> QED
      BY <3>1, <3>2
  <2> QED
    BY <1>4, <1>11, <2>1, <2>2 DEF ContentsInv
<1>14. Fed' = Fed
  <2>1. queue # <<>> => 1 \in 1 .. Len(queue)
    BY SoundTypes
  <2>2. CASE queue = <<>>
    BY <1>4, <1>11, <2>2 DEF Fed
  <2>3. CASE queue # <<>>
    <3>1. mem'[queue[1].block] = mem[queue[1].block]
      BY <1>12, <2>1, <2>3
    <3>2. Fed' = mem'[queue'[1].block][0].n + readIndex' - 1
      BY <1>4, <2>3 DEF Fed, First
    <3>3. Fed = mem[queue[1].block][0].n + readIndex - 1
      BY <2>3 DEF Fed, First
    <3> QED
      BY <1>4, <3>1, <3>2, <3>3
  <2> QED
    BY <2>2, <2>3
<1> QED
  BY <1>13, <1>14

\* The handler takes samples from the head block only.
LEMMA ContentsSent ==
  ASSUME HalfInv, ContentsInv, NEW c, Clients = {c}, CopyToFifo,
         NEW K \in Nat \ {0}, BlockLen = K * FrameLen
  PROVE  ContentsInv' /\ Fed' = Fed + Share
<1>1. /\ queue # <<>> /\ queue \in Seq(Item) /\ Len(queue) \in Nat \ {0}
      /\ \A i \in 1 .. Len(queue) : queue[i].block \in Blocks /\ queue[i].size \in 1 .. BlockLen
      /\ FirstUnqueued \in Nat
      /\ \A b \in Blocks : First(b) \in Nat
  BY SoundTypes DEF CopyToFifo
<1>2. /\ Head(queue) = queue[1] /\ queue[1].size \in 1 .. BlockLen
      /\ readIndex \in 0 .. queue[1].size - 1 /\ Share \in 1 .. FrameLen
  BY Round
<1> DEFINE used == readIndex + Share = queue[1].size
<1>3. /\ UNCHANGED <<mem, writeData, writeIndex, pc, stream, accepted>>
      /\ queue' = IF used THEN Tail(queue) ELSE queue
      /\ readIndex' = IF used THEN 0 ELSE readIndex + Share
  BY <1>2 DEF CopyToFifo, GiveBack, fillVars, threadVars, histVars
<1>4. \A b : First(b)' = First(b)
  BY <1>3 DEF First
<1>5. \A b, size : Holds(b, size)' <=> Holds(b, size)
  BY <1>3, <1>4 DEF Holds
<1>6. Filled' = Filled
  BY <1>3 DEF Filled
<1>7. FirstUnqueued' = FirstUnqueued
  BY <1>3, <1>4, <1>6 DEF FirstUnqueued
<1>8. \A i \in 1 .. Len(queue) :
        /\ Holds(queue[i].block, queue[i].size)
        /\ First(queue[i].block) + queue[i].size =
             IF i < Len(queue) THEN First(queue[i + 1].block) ELSE FirstUnqueued
  BY DEF ContentsInv
<1> HIDE DEF used
<1>9. Fed = First(queue[1].block) + readIndex - 1
  BY <1>1 DEF Fed
<1>10. CASE ~used
  <2>1. queue' = queue /\ readIndex' = readIndex + Share
    BY <1>3, <1>10
  <2>2. ContentsInv'
    BY <1>3, <1>4, <1>5, <1>6, <1>7, <2>1 DEF ContentsInv
  <2>3. Fed' = First(queue[1].block) + (readIndex + Share) - 1
    BY <1>1, <1>3, <2>1 DEF Fed, First
  <2>4. First(queue[1].block) \in Nat
    BY <1>1
  <2>5. Fed' = Fed + Share
    BY <1>2, <1>9, <2>3, <2>4
  <2> QED
    BY <2>2, <2>5
<1>11. CASE used
  <2>1. queue' = Tail(queue) /\ readIndex' = 0
    BY <1>3, <1>11
  <2>2. /\ Len(queue') = Len(queue) - 1
        /\ \A i \in 1 .. Len(queue') : queue'[i] = queue[i + 1]
    BY <1>1, <2>1
  <2>3. \A i \in 1 .. Len(queue') :
          /\ Holds(queue'[i].block, queue'[i].size)
          /\ First(queue'[i].block) + queue'[i].size =
               IF i < Len(queue') THEN First(queue'[i + 1].block) ELSE FirstUnqueued
    <3> SUFFICES ASSUME NEW i \in 1 .. Len(queue')
                 PROVE  /\ Holds(queue'[i].block, queue'[i].size)
                        /\ First(queue'[i].block) + queue'[i].size =
                             IF i < Len(queue') THEN First(queue'[i + 1].block) ELSE FirstUnqueued
      OBVIOUS
    <3>1. i + 1 \in 1 .. Len(queue) /\ queue'[i] = queue[i + 1]
      BY <1>1, <2>2
    <3>2. /\ Holds(queue[i + 1].block, queue[i + 1].size)
          /\ First(queue[i + 1].block) + queue[i + 1].size =
               IF i + 1 < Len(queue) THEN First(queue[(i + 1) + 1].block) ELSE FirstUnqueued
      BY <1>8, <3>1
    <3>3. i < Len(queue') <=> i + 1 < Len(queue)
      BY <1>1, <2>2
    <3>4. i < Len(queue') => queue'[i + 1] = queue[(i + 1) + 1]
      BY <1>1, <2>2
    <3> QED
      BY <3>1, <3>2, <3>3, <3>4
  <2>4. ContentsInv'
    BY <1>3, <1>4, <1>5, <1>6, <1>7, <1>8, <2>3 DEF ContentsInv
  <2>5. 1 \in 1 .. Len(queue)
    BY <1>1
  <2>6. First(queue[1].block) + queue[1].size =
          IF 1 < Len(queue) THEN First(queue[1 + 1].block) ELSE FirstUnqueued
    BY <1>8, <2>5
  <2>7. First(queue[1].block) \in Nat
    BY <1>1, <2>5
  <2>8. Fed' = First(queue[1].block) + queue[1].size - 1
    <3>1. CASE 1 < Len(queue)
      <4>1. queue' # <<>> /\ queue'[1] = queue[1 + 1]
        BY <1>1, <2>1, <2>2, <3>1
      <4>2. Fed' = First(queue'[1].block) + 0 - 1
        BY <1>3, <2>1, <4>1 DEF Fed, First
      <4>3. First(queue[2].block) \in Nat
        BY <1>1, <3>1
      <4>4. First(queue[1].block) + queue[1].size = First(queue[2].block)
        BY <2>6, <3>1
      <4> QED
        BY <1>2, <2>7, <4>1, <4>2, <4>3, <4>4
    <3>2. CASE ~(1 < Len(queue))
      <4>1. queue' = <<>>
        BY <1>1, <2>1, <2>2, <3>2
      <4>2. First(queue[1].block) + queue[1].size = FirstUnqueued
        BY <2>6, <3>2
      <4>3. Fed' = FirstUnqueued' - 1
        BY <4>1 DEF Fed
      <4> QED
        BY <1>1, <1>2, <1>7, <2>7, <4>2, <4>3
    <3> QED
      BY <3>1, <3>2
  <2>9. Fed' = Fed + Share
    BY <1>2, <1>9, <1>11, <2>7, <2>8 DEF used
  <2> QED
    BY <2>4, <2>9
<1> QED
  BY <1>10, <1>11

\* A thread takes its step between two runs of the handler.
LEMMA RunsBetween ==
  ASSUME NEW c, Call(c) \/ Step(c)
  PROVE  isr = "idle" /\ ~irq
BY DEF Runs, Call, Step, Start, Open, Opened, Configure, Write, TakeLock, NextBlock, Alloc, Copy,
   Push, ReleaseLock, CheckActivated, StartFails, StartDma, Close, CloseReplay, Flush, SetStopEvent,
   InitCompletion, Wait, Woken, ClearStopEvent, StopDma, Deactivate, ClearWriteFlag, Closed

\* Only the handler moves samples from the queue, and a stream begins with none
\* moved.
LEMMA ContentsNext ==
  ASSUME HalfInv, BlocksConserved, LeftInv, ContentsInv, NEW c, Clients = {c}, [Next]_vars,
         NEW K \in Nat \ {0}, BlockLen = K * FrameLen
  PROVE  /\ ContentsInv'
         /\ Open(c) => Fed' = 0
         /\ CopyToFifo => Fed' = Fed + Share
         /\ ~Open(c) /\ ~CopyToFifo => Fed' = Fed
<1> DEFINE Goal == /\ ContentsInv'
                   /\ Open(c) => Fed' = 0
                   /\ CopyToFifo => Fed' = Fed + Share
                   /\ ~Open(c) /\ ~CopyToFifo => Fed' = Fed
<1>1. pc \in [{c} -> PCs]
  BY SoundTypes
<1>2. isr = "copy" => ~(Call(c) \/ Step(c))
  BY RunsBetween
<1>3. CASE Open(c)
  <2>1. ~CopyToFifo
    BY <1>2, <1>3 DEF Call, CopyToFifo
  <2> QED
    BY <1>3, <2>1, ContentsOpen
<1>4. ASSUME ContentsInv', Fed' = Fed, ~Open(c), ~CopyToFifo PROVE Goal
  BY <1>4
<1>5. CASE CopyToFifo
  <2>1. ~Open(c)
    BY <1>2, <1>5 DEF Call, CopyToFifo
  <2> QED
    BY <1>5, <2>1, ContentsSent
<1> SUFFICES ASSUME ~Open(c), ~CopyToFifo PROVE ContentsInv' /\ Fed' = Fed
  BY <1>3, <1>4, <1>5
<1>6. CASE Alloc(c)
  BY <1>6, ContentsAlloc
<1>7. CASE Copy(c)
  BY <1>7, ContentsCopy
<1>8. CASE Push(c)
  <2>1. Filled = BlockLen /\ Filled # 0
    BY <1>8, FilledOfOne, ConstantsAssumption DEF Push
  <2>2. Filled' = 0
    <3>1. writeIndex = 0
      BY <1>8 DEF Push, HalfInv, PlayerInv
    <3> QED
      BY <1>1, <1>8, <3>1 DEF Push, Goto, Filled, fillVars
  <2>3. UNCHANGED <<readIndex, mem, stream, accepted>>
    BY <1>8 DEF Push, poolVars, histVars
  <2> QED
    BY <1>8, <2>1, <2>2, <2>3, ContentsQueued DEF Push
<1>9. CASE Flush(c)
  <2>1. Filled = writeIndex
    BY <1>9, FilledOfOne DEF Flush
  <2>2. Filled' = 0
    BY <1>1, <1>9 DEF Flush, Goto, Filled
  <2>3. UNCHANGED <<readIndex, mem, stream, accepted, writeData>>
    BY <1>9 DEF Flush, poolVars, histVars
  <2>4. CASE writeIndex = 0
    BY <1>9, <2>1, <2>2, <2>3, <2>4, ContentsKept DEF Flush
  <2>5. CASE writeIndex # 0
    BY <1>9, <2>1, <2>2, <2>3, <2>5, ContentsQueued DEF Flush
  <2> QED
    BY <2>4, <2>5
<1>10. ASSUME UNCHANGED <<fillVars, queue, mem, stream, accepted>>, readIndex' = readIndex \/ queue = <<>>,
              pc[c] = "push" <=> pc'[c] = "push"
       PROVE  ContentsInv' /\ Fed' = Fed
  <2>1. Filled' = Filled
    BY <1>10 DEF Filled, fillVars
  <2>2. CASE readIndex' = readIndex
    BY <1>10, <2>1, <2>2, ContentsKept DEF fillVars
  <2>3. CASE queue = <<>>
    <3>1. FirstUnqueued' = FirstUnqueued
      BY <1>10, <2>1 DEF FirstUnqueued, First, fillVars
    <3>2. Fed' = Fed
      BY <1>10, <2>3, <3>1 DEF Fed
    <3>3. ContentsInv'
      BY <1>10, <2>1, <3>1 DEF ContentsInv, Holds, First, fillVars
    <3> QED
      BY <3>2, <3>3
  <2> QED
    BY <1>10, <2>2, <2>3
<1>11. CASE StartDma(c) \/ StopDma(c)
  <2>1. UNCHANGED <<fillVars, queue, mem, stream, accepted, readIndex>>
    BY <1>11 DEF StartDma, StopDma, queueVars, poolVars, histVars
  <2>2. pc[c] # "push" /\ pc'[c] # "push"
    BY <1>1, <1>11 DEF StartDma, StopDma, Goto
  <2> QED
    BY <1>10, <2>1, <2>2
<1>12. ASSUME Call(c) \/ Step(c), ~(Alloc(c) \/ Copy(c) \/ Push(c) \/ Flush(c) \/ StartDma(c) \/ StopDma(c))
       PROVE  ContentsInv' /\ Fed' = Fed
  BY <1>10, <1>12, OtherSteps DEF queueVars, histVars
<1>13. CASE PlayHalf \/ SendFrame \/ UnderRun \/ UNCHANGED vars
  <2>1. UNCHANGED <<fillVars, queue, mem, stream, accepted, pc>>
    BY <1>13 DEF PlayHalf, SendFrame, UnderRun, vars, queueVars, poolVars, histVars, threadVars
  <2>2. readIndex' = readIndex \/ queue = <<>>
    BY <1>13 DEF PlayHalf, SendFrame, UnderRun, vars, queueVars
  <2> QED
    BY <1>10, <2>1, <2>2
<1>14. CASE SendSilence
  <2>1. UNCHANGED <<fillVars, queue, mem, stream, accepted, readIndex>>
    BY <1>14 DEF SendSilence, queueVars, poolVars, histVars
  <2>2. pc[c] = "push" <=> pc'[c] = "push"
    BY <1>1, <1>14 DEF SendSilence, CompletionDone, HalfInv, WaiterInv
  <2> QED
    BY <1>10, <2>1, <2>2
<1> QED
  BY <1>6, <1>7, <1>8, <1>9, <1>11, <1>12, <1>13, <1>14 DEF Next, Isr

-----------------------------------------------------------------------------
\* A step of the hardware moves at most a thread that waits.
LEMMA HardwareMoves ==
  ASSUME HalfInv, NEW c, Clients = {c}, PlayHalf \/ Isr
  PROVE  /\ running /\ UNCHANGED <<running, activated, left, stream, accepted>>
         /\ \/ pc' = pc /\ cmp' = cmp
            \/ SendSilence /\ pc' = pc /\ cmp'.done
            \/ SendSilence /\ pc[c] = "waiting" /\ pc' = [pc EXCEPT ![c] = "woken"]
<1>1. running
  BY DEF HalfInv, PosInv, PlayHalf, Isr, SendSilence, SendFrame, CopyToFifo, UnderRun
<1>2. CASE SendSilence
  <2>1. UNCHANGED <<running, activated, left, stream, accepted>>
    BY <1>2 DEF SendSilence, ctlVars, histVars
  <2>2. CASE UNCHANGED <<cmp, pc>>
    BY <1>1, <2>1, <2>2
  <2>3. CASE /\ cmp' = [done |-> TRUE, waiter |-> None]
             /\ pc' = IF cmp.waiter = None THEN pc ELSE [pc EXCEPT ![cmp.waiter] = "woken"]
    BY <1>1, <1>2, <2>1, <2>3 DEF HalfInv, WaiterInv
  <2> QED
    BY <1>2, <2>2, <2>3 DEF SendSilence, CompletionDone
<1>3. CASE PlayHalf \/ SendFrame \/ CopyToFifo \/ UnderRun
  BY <1>1, <1>3 DEF PlayHalf, SendFrame, CopyToFifo, UnderRun, ctlVars, histVars, threadVars, syncVars, dmaVars
<1> QED
  BY <1>2, <1>3 DEF Isr

\* A writer that copied everything asks for no further block.
LEMMA LeftNext ==
  ASSUME HalfInv, LeftInv, NEW c, Clients = {c}, [Next]_vars
  PROVE  LeftInv'
<1>1. pc \in [{c} -> PCs]
  BY SoundTypes
<1> SUFFICES ASSUME pc'[c] \in {"alloc", "copy"} PROVE left'[c] # 0
  BY DEF LeftInv
<1>2. CASE Open(c) \/ Alloc(c) \/ Copy(c) \/ Push(c) \/ Flush(c) \/ StartDma(c) \/ StopDma(c)
  BY <1>1, <1>2 DEF Open, Alloc, Copy, Push, Flush, StartDma, StopDma, Goto, LeftInv
<1>3. CASE (Call(c) \/ Step(c)) /\ ~(Open(c) \/ Alloc(c) \/ Copy(c) \/ Push(c) \/ Flush(c) \/ StartDma(c) \/ StopDma(c))
  BY <1>3, OtherSteps
<1>4. CASE PlayHalf \/ Isr
  BY <1>1, <1>4, HardwareMoves DEF LeftInv
<1>5. CASE UNCHANGED vars
  BY <1>5 DEF vars, threadVars, LeftInv
<1> QED
  BY <1>2, <1>3, <1>4, <1>5 DEF Next

\* The two halves of the FIFO.
LEMMA HalfPlaces ==
  ASSUME NEW h \in {0, 1}
  PROVE  /\ 1 - h \in {0, 1} /\ 1 - (1 - h) = h
         /\ h * FrameLen \in Nat /\ h * FrameLen + FrameLen <= Total
         /\ Places(h) \subseteq 0 .. Total - 1
         /\ \A j \in Places(h) : j \in Int /\ j >= h * FrameLen /\ j < h * FrameLen + FrameLen
         /\ Places(h) \cap Places(1 - h) = {}
<1> USE ConstantsAssumption
<1>1. CASE h = 0
  BY <1>1 DEF Places, Total
<1>2. CASE h = 1
  BY <1>2 DEF Places, Total
<1> QED
  BY <1>1, <1>2

\* No place of a half lies before its first one.
LEMMA NoneBefore ==
  ASSUME NEW h \in {0, 1}, NEW j \in Places(h)
  PROVE  ~(j < h * FrameLen + 0)
<1>1. h * FrameLen \in Nat /\ j \in Int /\ j >= h * FrameLen
  BY HalfPlaces
<1> QED
  BY <1>1

\* The frame at pos is the half that has just been played.
LEMMA ZeroedHalf ==
  ASSUME HalfInv, irq, ZeroFrame
  PROVE  /\ \A j \in Places(1 - half) : fifo'[j] = Silence
         /\ \A j \in Places(half) : fifo'[j] = fifo[j]
         /\ \A j \in 0 .. Total - 1 : fifo'[j] = fifo[j] \/ fifo'[j] = Silence
<1> USE ConstantsAssumption
<1>1. half \in {0, 1} /\ pos = (1 - half) * FrameLen
  BY DEF HalfInv, TypeInv, TypeOK, DmaOK, PosInv
<1>2. \A j \in 0 .. Total - 1 : fifo'[j] = IF j >= pos /\ j < pos + FrameLen THEN Silence ELSE fifo[j]
  BY DEF ZeroFrame
<1>3. ASSUME NEW j \in Places(1 - half) PROVE fifo'[j] = Silence
  <2>1. j \in 0 .. Total - 1 /\ j >= (1 - half) * FrameLen /\ j < (1 - half) * FrameLen + FrameLen
    BY <1>1, HalfPlaces
  <2> QED
    BY <1>1, <1>2, <2>1
<1>4. ASSUME NEW j \in Places(half) PROVE fifo'[j] = fifo[j]
  <2>1. j \in 0 .. Total - 1 /\ j \notin Places(1 - half)
    BY <1>1, HalfPlaces
  <2>2. ~(j >= pos /\ j < pos + FrameLen)
    <3>1. (1 - half) * FrameLen \in Nat
      BY <1>1, HalfPlaces
    <3> QED
      BY <1>1, <2>1, <3>1 DEF Places
  <2> QED
    BY <1>2, <2>1, <2>2
<1> QED
  BY <1>2, <1>3, <1>4

\* While data is queued and the DMA runs, the player is not quiet.
LEMMA QuietEmpty ==
  ASSUME HalfInv, NEW c, Clients = {c}, Quiet(c), running
  PROVE  queue = <<>>
BY DEF HalfInv, StreamInv, Quiet, Playing, InWrite

\* No step puts samples back into the silent half of a quiet player.
LEMMA QuietNext ==
  ASSUME HalfInv, QuietInv, NEW c, Clients = {c}, [Next]_vars
  PROVE  QuietInv'
<1> DEFINE S == {"wait", "woken", "clear", "hwstop"}
<1>1. pc \in [{c} -> PCs] /\ half \in {0, 1}
  BY SoundTypes DEF HalfInv, TypeInv, TypeOK, DmaOK
<1>2. Quiet(c) =>
        /\ isr = "idle"
        /\ Silent(0) \/ Silent(1)
        /\ running /\ ~irq => Silent(1 - half)
        /\ pc[c] \in S => running
  BY DEF QuietInv
<1> SUFFICES ASSUME Quiet(c)'
             PROVE  /\ isr' = "idle"
                    /\ Silent(0)' \/ Silent(1)'
                    /\ running' /\ ~irq' => \A j \in Places(1 - half') : fifo'[j] = Silence
                    /\ pc'[c] \in S => running'
  BY DEF QuietInv, Silent
<1>3. ASSUME Quiet(c), pc'[c] \in S => pc[c] \in S \/ running',
             UNCHANGED <<isr, fifo, running, half>>, irq' = irq \/ irq'
      PROVE  /\ isr' = "idle"
             /\ Silent(0)' \/ Silent(1)'
             /\ running' /\ ~irq' => \A j \in Places(1 - half') : fifo'[j] = Silence
             /\ pc'[c] \in S => running'
  BY <1>2, <1>3 DEF Silent
<1>4. CASE Open(c) \/ Alloc(c) \/ Copy(c) \/ Push(c) \/ Flush(c) \/ StartDma(c)
  <2>1. Quiet(c) /\ pc'[c] \notin S
    BY <1>1, <1>4 DEF Open, Alloc, Copy, Push, Flush, StartDma, Goto, Quiet, Playing, InWrite, ctlVars, syncVars
  <2>2. ~StartDma(c)
    BY <1>1 DEF StartDma, Goto, Quiet, Playing, InWrite
  <2>3. UNCHANGED <<isr, fifo, running, half, irq>>
    BY <1>4, <2>2 DEF Open, Alloc, Copy, Push, Flush, dmaVars, isrVars
  <2> QED
    BY <1>3, <2>1, <2>3
<1>5. CASE StopDma(c)
  <2>1. Quiet(c) /\ ~irq /\ isr = "idle" /\ running
    BY <1>2, <1>5 DEF StopDma, Quiet, Runs
  <2>2. pc'[c] = "deactivate" /\ ~running' /\ UNCHANGED <<isr, fifo>>
    BY <1>1, <1>5 DEF StopDma, Goto, isrVars
  <2>3. Silent(0)' \/ Silent(1)'
    BY <1>2, <2>1, <2>2 DEF Silent
  <2> QED
    BY <2>1, <2>2, <2>3
<1>6. CASE (Call(c) \/ Step(c)) /\ ~(Open(c) \/ Alloc(c) \/ Copy(c) \/ Push(c) \/ Flush(c) \/ StartDma(c) \/ StopDma(c))
  BY <1>3, <1>6, OtherSteps
<1>7. CASE PlayHalf
  <2>1. Quiet(c) /\ isr' = isr /\ fifo' = fifo /\ irq' /\ running' = running /\ pc' = pc
    BY <1>7 DEF PlayHalf, Quiet, ctlVars, syncVars, threadVars, isrVars
  <2> QED
    BY <1>2, <2>1 DEF Silent
<1>8. CASE SendSilence
  <2>1. running /\ running' = running /\ half' = half /\ isr' = "idle" /\ irq
    BY <1>8, HardwareMoves DEF SendSilence, Isr, isrVars
  <2>2. \A j \in Places(1 - half) : fifo'[j] = Silence
    BY <1>8, ZeroedHalf DEF SendSilence
  <2>3. Silent(0)' \/ Silent(1)'
    BY <1>1, <2>2, HalfPlaces DEF Silent
  <2> QED
    BY <2>1, <2>2, <2>3
<1>9. CASE SendFrame \/ CopyToFifo \/ UnderRun
  <2>1. Quiet(c) /\ running
    <3>1. running
      BY <1>9, HardwareMoves DEF Isr
    <3>2. UNCHANGED <<pc, cmp, activated>>
      BY <1>9 DEF SendFrame, CopyToFifo, UnderRun, ctlVars, syncVars, threadVars
    <3> QED
      BY <3>1, <3>2 DEF Quiet
  <2>2. queue = <<>> /\ isr = "idle"
    BY <1>2, <2>1, QuietEmpty
  <2> QED
    BY <1>9, <2>2 DEF SendFrame, CopyToFifo, UnderRun
<1>10. CASE UNCHANGED vars
  BY <1>3, <1>10 DEF vars, Quiet, ctlVars, syncVars, threadVars, dmaVars, isrVars
<1> QED
  BY <1>4, <1>5, <1>6, <1>7, <1>8, <1>9, <1>10 DEF Next, Isr

\* A frame holds as many samples of the stream as it was given, and they come
\* first.
LEMMA FrameCount ==
  ASSUME HalfInv, NEW h \in {0, 1}, NEW m \in 0 .. FrameLen, NEW k \in Nat, Frame(h, m, k)
  PROVE  /\ OfStream(h) = h * FrameLen .. h * FrameLen + m - 1
         /\ Cardinality(OfStream(h)) = m
         /\ \A i \in OfStream(h) :
              fifo[i].n = k + Rank(h, i)
<1> USE ConstantsAssumption
<1> DEFINE base == h * FrameLen
<1>1. base \in Nat
  BY HalfPlaces
<1>2. \A j \in Places(h) : j \in Int /\ j >= base /\ j < base + FrameLen
  BY HalfPlaces
<1>3. \A j \in Places(h) :
        /\ j < base + m => fifo[j] = [s |-> stream, n |-> k + 1 + j - base]
        /\ j >= base + m => fifo[j].s # stream
  BY DEF Frame
<1>4. Places(h) = base .. base + FrameLen - 1
  BY DEF Places
<1> HIDE DEF base
<1>5. OfStream(h) = base .. base + m - 1
  <2>1. ASSUME NEW j \in OfStream(h) PROVE j \in base .. base + m - 1
    <3>1. j \in Places(h) /\ fifo[j].s = stream
      BY DEF OfStream
    <3>2. ~(j >= base + m)
      BY <1>3, <3>1
    <3>3. j \in Int /\ j >= base
      BY <1>2, <3>1
    <3> QED
      BY <1>1, <3>2, <3>3
  <2>2. ASSUME NEW j \in base .. base + m - 1 PROVE j \in OfStream(h)
    <3>1. j \in Places(h) /\ j < base + m
      BY <1>1, <1>4
    <3>2. fifo[j] = [s |-> stream, n |-> k + 1 + j - base]
      BY <1>1, <1>2, <1>3, <3>1
    <3> QED
      BY <3>1, <3>2 DEF OfStream
  <2> QED
    BY <2>1, <2>2
<1>6. Cardinality(OfStream(h)) = m
  BY <1>1, <1>5, FS_Interval
<1>7. ASSUME NEW i \in OfStream(h)
      PROVE  fifo[i].n = k + Rank(h, i)
  <2>1. i \in base .. base + m - 1 /\ i \in Int
    BY <1>1, <1>5, <1>7
  <2>2. {j \in OfStream(h) : j <= i} = base .. i
    BY <1>1, <1>5, <2>1
  <2>3. Cardinality(base .. i) = i - base + 1
    BY <1>1, <2>1, FS_Interval
  <2>4. i \in Places(h) /\ i < base + m
    BY <1>1, <1>4, <2>1
  <2>5. fifo[i] = [s |-> stream, n |-> k + 1 + i - base]
    BY <1>1, <1>3, <2>1, <2>4
  <2>6. fifo[i].n = k + 1 + i - base
    BY <2>5
  <2>7. Rank(h, i) = Cardinality(base .. i)
    BY <2>2, Zenon DEF Rank
  <2>8. fifo[i].n = k + Cardinality(base .. i)
    BY <1>1, <2>1, <2>3, <2>6
  <2> QED
    BY <2>7, <2>8, Zenon
<1> QED
  BY <1>5, <1>6, <1>7 DEF base

\* What a half holds stays its content while neither it nor the stream changes,
\* and a half that is silenced holds nothing.
LEMMA HalfKept ==
  ASSUME NEW h \in {0, 1}, \A j \in Places(h) : fifo'[j] = fifo[j], stream' = stream
  PROVE  /\ Leftover(h)' = Leftover(h)
         /\ \A m, k : Frame(h, m, k) => Frame(h, m, k)'
BY DEF Leftover, Frame

LEMMA HalfSilenced ==
  ASSUME NEW h \in {0, 1}, \A j \in Places(h) : fifo'[j] = Silence, stream' \in Nat \ {0}
  PROVE  /\ Leftover(h)' = {}
         /\ \A k : Frame(h, 0, k)'
<1>1. \A j \in Places(h) : fifo'[j].s = Silence.s /\ fifo'[j].s = 0
  BY DEF Silence
<1>2. Leftover(h)' = {}
  BY <1>1 DEF Leftover
<1>3. ASSUME NEW j \in Places(h) PROVE ~(j < h * FrameLen + 0)
  BY NoneBefore
<1> QED
  BY <1>1, <1>2, <1>3 DEF Frame

\* While the DMA runs a player is inside the device, and a stream has begun.
LEMMA RunningStream ==
  ASSUME HalfInv, StoppedInv, NEW c, Clients = {c}, running
  PROVE  stream \in Nat \ {0} /\ pc[c] \notin {"idle", "opening", "configure", "deactivate", "closeflag", "closed"}
BY SoundTypes DEF HalfInv, StreamInv, StoppedInv

\* The half that has been played becomes the other one, and is done with.
LEMMA FramesPlayed ==
  ASSUME HalfInv, StoppedInv, FramesInv, NEW c, Clients = {c}, PlayHalf, Fed' = Fed
  PROVE  /\ FramesInv'
         /\ \A i \in OfStream(half) :
              fifo[i].n = heard + Rank(half, i)
         /\ Leftover(half) # {} => ~stale /\ heard = 0 /\ OfStream(half) = {}
<1> USE ConstantsAssumption
<1>1. PICK a \in 0 .. FrameLen, b \in 0 .. FrameLen : Frames(a, b)
  BY DEF FramesInv, PlayHalf
<1>2. /\ half \in {0, 1} /\ 1 - half \in {0, 1} /\ 1 - (1 - half) = half
      /\ heard \in Nat /\ Fed \in Int /\ ~irq /\ isr = "idle"
  BY SoundTypes, HalfPlaces DEF HalfInv, TypeInv, TypeOK, DmaOK, PlayHalf
<1>3. /\ heard + a + b = Fed
      /\ Frame(half, a, heard) /\ Frame(1 - half, b, heard + a)
      /\ Leftover(half) # {} => a = 0 /\ heard = 0 /\ ~stale
      /\ Leftover(1 - half) # {} => a = 0 /\ b = 0 /\ heard = 0 /\ ~stale /\ Leftover(half) = {}
  BY <1>1, <1>2 DEF Frames
<1>4. /\ Cardinality(OfStream(half)) = a
      /\ OfStream(half) = half * FrameLen .. half * FrameLen + a - 1
      /\ \A i \in OfStream(half) :
           fifo[i].n = heard + Rank(half, i)
  <2>1. half \in {0, 1} /\ heard \in Nat /\ Frame(half, a, heard)
    BY <1>2, <1>3
  <2> QED
    BY <2>1, FrameCount
<1>5. a = 0 => OfStream(half) = {}
  <2>1. half * FrameLen \in Int
    BY <1>2, HalfPlaces
  <2> QED
    BY <1>4, <2>1
<1>6. /\ UNCHANGED <<fifo, stream, running, isr>> /\ half' = 1 - half /\ irq'
      /\ heard' = heard + a /\ (stale' => stale \/ Leftover(half) # {})
  BY <1>4 DEF PlayHalf, isrVars
<1>7. FramesInv'
  <2>1. heard' + b + 0 = Fed'
    BY <1>2, <1>3, <1>6
  <2>2. Frame(half, b, heard)'
    <3>1. \A j \in Places(1 - half) :
            /\ j < (1 - half) * FrameLen + b =>
                 fifo[j] = [s |-> stream, n |-> (heard + a) + 1 + j - (1 - half) * FrameLen]
            /\ j >= (1 - half) * FrameLen + b => fifo[j].s # stream
      BY <1>3 DEF Frame
    <3> QED
      BY <1>6, <3>1 DEF Frame
  <2>3. Leftover(half)' # {} => b = 0 /\ heard' = 0 /\ ~stale'
    <3>1. Leftover(half)' = Leftover(1 - half)
      BY <1>6 DEF Leftover
    <3> QED
      BY <1>3, <1>6, <3>1
  <2>4. Frames(b, 0)'
    BY <1>2, <1>6, <2>1, <2>2, <2>3 DEF Frames
  <2> QED
    BY <2>4, ConstantsAssumption DEF FramesInv
<1> QED
  BY <1>3, <1>4, <1>5, <1>7

\* The handler silences the half that has been played.
LEMMA FramesSilenced ==
  ASSUME HalfInv, StoppedInv, FramesInv, NEW c, Clients = {c}, SendSilence \/ SendFrame, Fed' = Fed
  PROVE  FramesInv'
<1>1. irq /\ running
  BY HardwareMoves DEF SendSilence, SendFrame, Isr
<1>2. PICK a \in 0 .. FrameLen, b \in 0 .. FrameLen : Frames(a, b)
  BY <1>1 DEF FramesInv
<1>3. PICK h \in {0, 1} : h = half
  BY DEF HalfInv, TypeInv, TypeOK, DmaOK
<1>4. /\ b = 0 /\ heard + a + b = Fed /\ Frame(h, a, heard)
      /\ Leftover(h) # {} => a = 0 /\ heard = 0 /\ ~stale
  BY <1>1, <1>2, <1>3 DEF Frames
<1>5. /\ UNCHANGED <<half, running, stream, heard, stale>> /\ ~irq' /\ ZeroFrame
      /\ isr' = "copy" => index' = 0
  BY DEF SendSilence, SendFrame, histVars, isrVars
<1>6. stream \in Nat \ {0}
  BY <1>1, RunningStream
<1>7. /\ \A j \in Places(1 - h) : fifo'[j] = Silence
      /\ \A j \in Places(h) : fifo'[j] = fifo[j]
  BY <1>1, <1>3, <1>5, ZeroedHalf
<1>8. Leftover(h)' = Leftover(h) /\ Frame(h, a, heard)'
  <2>1. Frame(h, a, heard) /\ heard' = heard
    BY <1>4, <1>5
  <2> QED
    BY <1>5, <1>7, <2>1 DEF Leftover, Frame
<1>9. 1 - h \in {0, 1}
  BY HalfPlaces
<1>10. Leftover(1 - h)' = {} /\ \A k : Frame(1 - h, 0, k)'
  BY <1>5, <1>6, <1>7, <1>9, HalfSilenced
<1>11. Leftover(half)' = Leftover(h)' /\ Leftover(1 - half)' = Leftover(1 - h)'
  BY <1>3, <1>5 DEF Leftover
<1>12. Frame(half, a, heard)' /\ Frame(1 - half, 0, heard + a)'
  BY <1>3, <1>5, <1>8, <1>10 DEF Frame
<1>13. Frames(a, 0)'
  BY <1>4, <1>5, <1>8, <1>10, <1>11, <1>12 DEF Frames
<1> QED
  BY <1>13, ConstantsAssumption DEF FramesInv

\* The handler copies the samples that follow those in the half being played.
LEMMA FramesCopied ==
  ASSUME HalfInv, ContentsInv, StoppedInv, FramesInv, NEW c, Clients = {c}, CopyToFifo,
         Fed' = Fed + Share, NEW K \in Nat \ {0}, BlockLen = K * FrameLen
  PROVE  FramesInv' /\ \A j \in 0 .. Total - 1 : fifo'[j] = fifo[j] \/ fifo'[j].s = stream
<1> USE ConstantsAssumption
<1>1. running /\ isr = "copy" /\ ~irq
  BY HardwareMoves DEF CopyToFifo, HalfInv, PosInv, Isr
<1>2. PICK a \in 0 .. FrameLen, b \in 0 .. FrameLen : Frames(a, b)
  BY <1>1 DEF FramesInv
<1>3. PICK h \in {0, 1} : h = half
  BY DEF HalfInv, TypeInv, TypeOK, DmaOK
<1>4. 1 - h \in {0, 1}
  BY HalfPlaces
<1> DEFINE base == (1 - h) * FrameLen
           block == queue[1].block
<1>4a. PICK n \in 1 .. FrameLen : n = Share
  BY Round
<1>5. /\ index = 0 /\ pos = base /\ Head(queue) = queue[1] /\ queue # <<>>
      /\ queue[1].size \in 1 .. BlockLen /\ readIndex \in 0 .. queue[1].size - 1
      /\ readIndex + n <= queue[1].size
  <2>1. queue[1].size \in 1 .. BlockLen /\ readIndex \in 0 .. queue[1].size - 1
        /\ index = 0 /\ Head(queue) = queue[1]
    BY Round
  <2>2. readIndex + n <= queue[1].size
    <3>1. n = Min2(FrameLen, queue[1].size - readIndex)
      BY <1>4a, <2>1 DEF Share
    <3> QED
      BY <2>1, <3>1 DEF Min2
  <2> QED
    BY <1>3, <2>1, <2>2, Round DEF CopyToFifo
<1>6. /\ b = 0 /\ heard + a + b = Fed /\ Leftover(1 - h) = {}
      /\ Frame(h, a, heard) /\ Frame(1 - h, b, heard + a)
      /\ Leftover(h) # {} => a = 0 /\ heard = 0 /\ ~stale
  BY <1>1, <1>2, <1>3, <1>5 DEF Frames
<1>7. base \in Nat /\ heard \in Nat /\ stream \in Nat \ {0} /\ Fed \in Int
      /\ First(block) \in Nat
  BY <1>1, <1>4, <1>5, HalfPlaces, RunningStream, SoundTypes DEF Item
<1>8. First(block) + readIndex = heard + a + 1
  <2>1. Fed = First(block) + readIndex - 1
    BY <1>5 DEF Fed
  <2>2. readIndex \in Int
    BY <1>5
  <2> HIDE DEF block
  <2> QED
    BY <1>6, <1>7, <2>1, <2>2
<1>9. \A i \in 0 .. queue[1].size - 1 : mem[block][i] = [s |-> stream, n |-> First(block) + i]
  <2>1. 1 \in 1 .. Len(queue)
    BY <1>5, SoundTypes
  <2> QED
    BY <2>1 DEF ContentsInv, Holds
<1>10. /\ fifo' = [i \in 0 .. Total - 1 |->
                     IF i >= base /\ i < base + n THEN mem[block][readIndex + i - base] ELSE fifo[i]]
       /\ UNCHANGED <<half, running, irq, stream, heard, stale>>
       /\ isr' = "copy" => index' = n
  BY <1>4a, <1>5, SMTT(60) DEF CopyToFifo, histVars
<1> HIDE DEF base, block
<1>11. ASSUME NEW j \in 0 .. Total - 1, j >= base, j < base + n
       PROVE  fifo'[j] = [s |-> stream, n |-> (heard + a) + 1 + j - base]
  <2>1. readIndex + j - base \in 0 .. queue[1].size - 1
    BY <1>5, <1>7, <1>11, SMTT(60)
  <2>2. fifo'[j] = mem[block][readIndex + j - base]
    BY <1>10, <1>11
  <2>3. mem[block][readIndex + j - base] = [s |-> stream, n |-> First(block) + (readIndex + j - base)]
    BY <1>9, <2>1
  <2>4. First(block) + (readIndex + j - base) = (heard + a) + 1 + j - base
    <3>1. readIndex \in Int /\ j \in Int /\ a \in Int
      BY <1>5
    <3> QED
      BY <1>7, <1>8, <3>1
  <2> QED
    BY <2>2, <2>3, <2>4
<1>12. ASSUME NEW j \in 0 .. Total - 1, ~(j >= base /\ j < base + n) PROVE fifo'[j] = fifo[j]
  BY <1>10, <1>12
<1>13. \A j \in 0 .. Total - 1 : fifo'[j] = fifo[j] \/ fifo'[j].s = stream
  <2> SUFFICES ASSUME NEW j \in 0 .. Total - 1 PROVE fifo'[j] = fifo[j] \/ fifo'[j].s = stream
    OBVIOUS
  <2>1. CASE j >= base /\ j < base + n
    <3>1. fifo'[j] = [s |-> stream, n |-> (heard + a) + 1 + j - base]
      BY <1>11, <2>1
    <3> QED
      BY <3>1
  <2> QED
    BY <1>12, <2>1
<1>14. \A j \in Places(h) : fifo'[j] = fifo[j]
  <2> SUFFICES ASSUME NEW j \in Places(h) PROVE fifo'[j] = fifo[j]
    OBVIOUS
  <2>1. j \in 0 .. Total - 1 /\ j \notin Places(1 - h)
    BY HalfPlaces
  <2>2. ~(j >= base /\ j < base + n)
    BY <1>5, <1>7, <2>1 DEF Places, base
  <2> QED
    BY <1>12, <2>1, <2>2
<1>15. \A j \in Places(1 - h) :
         /\ j \in 0 .. Total - 1 /\ j >= base
         /\ j < base + n => fifo'[j] = [s |-> stream, n |-> (heard + a) + 1 + j - base]
         /\ j >= base + n => fifo'[j] = fifo[j] /\ fifo[j].s # stream
  <2> SUFFICES ASSUME NEW j \in Places(1 - h)
               PROVE /\ j \in 0 .. Total - 1 /\ j >= base
                     /\ j < base + n => fifo'[j] = [s |-> stream, n |-> (heard + a) + 1 + j - base]
                     /\ j >= base + n => fifo'[j] = fifo[j] /\ fifo[j].s # stream
    OBVIOUS
  <2>1. j \in 0 .. Total - 1 /\ j >= base
    BY <1>4, HalfPlaces DEF base
  <2>2. fifo[j].s # stream
    <3>1. j >= base + b
      BY <1>6, <1>7, <2>1
    <3> QED
      BY <1>6, <3>1 DEF Frame, base
  <2>3. j >= base + n => ~(j < base + n)
    BY <1>5, <1>7, <2>1
  <2> QED
    BY <1>11, <1>12, <2>1, <2>2, <2>3
<1>16. Leftover(h)' = Leftover(h)
  BY <1>10, <1>14 DEF Leftover
<1>17. Leftover(1 - h)' = {}
  <2> SUFFICES ASSUME NEW j \in Places(1 - h) PROVE fifo'[j].s \in {Silence.s, stream}
    BY <1>10 DEF Leftover
  <2>1. fifo[j].s \in {Silence.s, stream}
    BY <1>6 DEF Leftover
  <2> QED
    BY <1>13, <1>15, <2>1
<1>18. Frame(half, a, heard)'
  BY <1>3, <1>6, <1>10, <1>14, ZenonT(60) DEF Frame
<1>19. Frame(1 - half, n, heard + a)'
  <2>1. \A j \in Places(1 - h) :
          /\ j < (1 - h) * FrameLen + n =>
               fifo'[j] = [s |-> stream, n |-> (heard + a) + 1 + j - (1 - h) * FrameLen]
          /\ j >= (1 - h) * FrameLen + n => fifo'[j].s # stream
    BY <1>15 DEF base
  <2>2. \A j \in Places(1 - half') :
          /\ j < (1 - half') * FrameLen + n =>
               fifo'[j] = [s |-> stream', n |-> (heard' + a) + 1 + j - (1 - half') * FrameLen]
          /\ j >= (1 - half') * FrameLen + n => fifo'[j].s # stream'
    BY <1>3, <1>10, <2>1
  <2> QED
    BY <2>2 DEF Frame
<1>20. heard' + a + n = Fed'
  BY <1>4a, <1>6, <1>7, <1>10, SMTT(60)
<1>21. Frames(a, n)'
  <2>1. Leftover(half)' = Leftover(h)' /\ Leftover(1 - half)' = Leftover(1 - h)'
    BY <1>3, <1>10 DEF Leftover
  <2>2. ~irq'
    BY <1>1, <1>10
  <2> QED
    BY <1>6, <1>10, <1>16, <1>17, <1>18, <1>19, <1>20, <2>1, <2>2 DEF Frames
<1>22. FramesInv'
  <2>1. n \in 0 .. FrameLen
    OBVIOUS
  <2> QED
    BY <1>21, <2>1 DEF FramesInv
<1> QED
  BY <1>13, <1>22
\* Playing a half, handling it and starting keep the two frames consecutive.
LEMMA FramesNext ==
  ASSUME HalfInv, BlocksConserved, LeftInv, ContentsInv, QuietInv, StoppedInv, FramesInv,
         NEW c, Clients = {c}, [Next]_vars, NEW K \in Nat \ {0}, BlockLen = K * FrameLen
  PROVE  FramesInv'
<1>1. pc \in [{c} -> PCs] /\ half \in {0, 1}
  BY SoundTypes DEF HalfInv, TypeInv, TypeOK, DmaOK
<1>2. ASSUME UNCHANGED <<running, half, irq, fifo, isr, index, stream, heard, stale>>, Fed' = Fed
      PROVE  FramesInv'
  BY <1>2, ZenonT(60) DEF FramesInv, Frames, Frame, Leftover
<1>3. CASE PlayHalf
  <2>1. ~CopyToFifo /\ ~Open(c)
    BY <1>1, <1>3 DEF PlayHalf, CopyToFifo, Open, Goto, threadVars
  <2> QED
    BY <1>3, <2>1, ContentsNext, FramesPlayed
<1>4. CASE SendSilence \/ SendFrame
  <2>1. ~CopyToFifo /\ ~Open(c)
    BY <1>4, RunsBetween DEF SendSilence, SendFrame, CopyToFifo, Call
  <2> QED
    BY <1>4, <2>1, ContentsNext, FramesSilenced
<1>5. CASE CopyToFifo
  BY <1>5, ContentsNext, FramesCopied
<1>6. CASE Open(c)
  <2>1. ~running'
    BY <1>6 DEF Open, dmaVars, HalfInv, StreamInv
  <2> QED
    BY <2>1 DEF FramesInv
<1>7. CASE StopDma(c)
  BY <1>7 DEF StopDma, FramesInv
<1> SUFFICES ASSUME ~Open(c), ~CopyToFifo, Fed' = Fed, ~(PlayHalf \/ SendSilence \/ SendFrame), ~StopDma(c)
             PROVE  FramesInv'
  BY <1>3, <1>4, <1>5, <1>6, <1>7, ContentsNext
<1>8. CASE UnderRun
  <2>1. /\ running /\ isr = "copy" /\ ~irq
        /\ UNCHANGED <<running, half, irq, fifo, stream, heard, stale>> /\ isr' = "idle"
    BY <1>8, HardwareMoves DEF UnderRun, Isr, dmaVars, histVars, HalfInv, PosInv
  <2>2. PICK a \in 0 .. FrameLen, b \in 0 .. FrameLen : Frames(a, b)
    BY <2>1 DEF FramesInv
  <2>3. Frames(a, b)'
    BY <2>1, <2>2 DEF Frames, Frame, Leftover
  <2> QED
    BY <2>3 DEF FramesInv
<1>9. CASE StartDma(c)
  <2>1. ~running /\ Quiet(c) /\ pc[c] = "start"
    BY <1>9 DEF StartDma, HalfInv, StreamInv, Quiet, Playing, InWrite
  <2>2. /\ heard = 0 /\ ~stale /\ Fed = 0
        /\ \A j \in 0 .. Total - 1 : fifo[j].s < stream
    BY <2>1 DEF StoppedInv
  <2>3. /\ running' => half' = 0
        /\ ~irq' /\ isr' = "idle" /\ UNCHANGED <<fifo, stream, heard, stale>>
    BY <1>9, <2>1 DEF StartDma, Runs, histVars, isrVars
  <2>4. Leftover(0) = {} \/ Leftover(1) = {}
    BY <2>1 DEF QuietInv, Silent, Leftover, Silence
  <2>5. \A h \in {0, 1} : Leftover(h)' = Leftover(h)
    BY <2>3 DEF Leftover
  <2>6. \A h \in {0, 1} : \A j \in Places(h) : ~(j < h * FrameLen + 0) /\ fifo[j].s # stream
    <3> SUFFICES ASSUME NEW h \in {0, 1}, NEW j \in Places(h)
                 PROVE  ~(j < h * FrameLen + 0) /\ fifo[j].s # stream
      OBVIOUS
    <3>1. j \in 0 .. Total - 1
      BY HalfPlaces
    <3>2. ~(j < h * FrameLen + 0)
      BY NoneBefore
    <3>3. fifo[j].s \in Nat /\ stream \in Nat
      BY <3>1, SoundTypes DEF HalfInv, TypeInv, TypeOK, DmaOK, Sample
    <3> QED
      BY <2>2, <3>1, <3>2, <3>3
  <2>8. CASE running'
    <3>1. half' = 0
      BY <2>3, <2>8
    <3>2. Frame(half, 0, heard)' /\ Frame(1 - half, 0, heard + 0)'
      <4>1. half' \in {0, 1} /\ 1 - half' \in {0, 1}
        BY <3>1
      <4>2. \A h \in {0, 1} : \A j \in Places(h) : ~(j < h * FrameLen + 0) /\ fifo'[j].s # stream'
        BY <2>3, <2>6
      <4> QED
        BY <4>1, <4>2 DEF Frame
    <3>3. Leftover(half)' = Leftover(0)' /\ Leftover(1 - half)' = Leftover(1)'
      BY <3>1 DEF Leftover
    <3>4. heard' + 0 + 0 = Fed'
      BY <2>2, <2>3
    <3>5. Frames(0, 0)'
      BY <2>2, <2>3, <2>4, <2>5, <3>2, <3>3, <3>4 DEF Frames
    <3> QED
      BY <3>5, ConstantsAssumption DEF FramesInv
  <2>7. CASE ~running'
    BY <2>7 DEF FramesInv
  <2> QED
    BY <2>7, <2>8
<1>10. CASE Alloc(c) \/ Copy(c) \/ Push(c) \/ Flush(c)
  <2>1. UNCHANGED <<running, half, irq, fifo, isr, index, stream, heard, stale>>
    BY <1>10 DEF Alloc, Copy, Push, Flush, dmaVars, isrVars, histVars
  <2> QED
    BY <1>2, <2>1
<1>11. CASE (Call(c) \/ Step(c)) /\ ~(Alloc(c) \/ Copy(c) \/ Push(c) \/ Flush(c) \/ StartDma(c))
  <2>1. UNCHANGED <<running, half, irq, fifo, isr, index, histVars>>
    BY <1>11, OtherSteps
  <2> QED
    BY <1>2, <2>1 DEF histVars
<1>12. CASE UNCHANGED vars
  BY <1>2, <1>12 DEF vars, dmaVars, isrVars, histVars
<1> QED
  BY <1>8, <1>9, <1>10, <1>11, <1>12 DEF Next, Isr

\* A player stops only once its data has been sent and a half has been silenced.
LEMMA StoppedNext ==
  ASSUME HalfInv, BlocksConserved, LeftInv, ContentsInv, QuietInv, StoppedInv, FramesInv,
         NEW c, Clients = {c}, [Next]_vars, NEW K \in Nat \ {0}, BlockLen = K * FrameLen
  PROVE  StoppedInv'
<1> USE ConstantsAssumption
<1> DEFINE Before == {"idle", "deactivate", "closeflag", "closed"}
<1>1. /\ pc \in [{c} -> PCs] /\ stream \in Nat /\ accepted \in Nat /\ heard \in Nat
      /\ \A j \in 0 .. Total - 1 : fifo[j].s \in Nat
  BY SoundTypes DEF HalfInv, TypeInv, TypeOK, DmaOK, Sample
<1>2. /\ pc[c] # "idle" => stream # 0
      /\ \A i \in 0 .. Total - 1 : fifo[i].s <= stream
      /\ ~running /\ pc[c] \notin Before =>
           /\ heard = 0 /\ ~stale /\ Fed = 0
           /\ \A i \in 0 .. Total - 1 : fifo[i].s < stream
      /\ pc[c] = "deactivate" => accepted - heard <= FrameLen
  BY DEF StoppedInv
<1> DEFINE Goal == /\ pc'[c] # "idle" => stream' # 0
                   /\ \A i \in 0 .. Total - 1 : fifo'[i].s <= stream'
                   /\ ~running' /\ pc'[c] \notin Before =>
                        /\ heard' = 0 /\ ~stale' /\ Fed' = 0
                        /\ \A i \in 0 .. Total - 1 : fifo'[i].s < stream'
                   /\ pc'[c] = "deactivate" => accepted' - heard' <= FrameLen
<1> SUFFICES Goal
  BY DEF StoppedInv
<1>3. ASSUME UNCHANGED <<fifo, running, stream, heard, stale>>, Fed' = Fed,
             pc[c] = "idle" => pc'[c] = "idle", pc[c] \in Before => pc'[c] \in Before,
             pc'[c] = "deactivate" => pc[c] = "deactivate" /\ accepted' = accepted
      PROVE  Goal
  BY <1>2, <1>3
<1>4. CASE Open(c)
  <2>1. /\ pc[c] = "idle" /\ pc'[c] = "opening" /\ openFlag = {}
        /\ UNCHANGED fifo
    BY <1>1, <1>4 DEF Open, Goto, HalfInv, PlayerInv, dmaVars
  <2>2. stream' = stream + 1 /\ accepted' = 0 /\ heard' = 0 /\ stale' = FALSE
    BY <1>4, <2>1 DEF Open
  <2>3. Fed' = 0
    BY <1>4, ContentsNext
  <2> QED
    BY <1>1, <1>2, <2>1, <2>2, <2>3
<1>5. CASE StopDma(c)
  <2>1. /\ pc[c] = "hwstop" /\ pc'[c] = "deactivate" /\ Quiet(c) /\ ~irq /\ isr = "idle"
        /\ UNCHANGED <<fifo, stream, accepted, heard>>
    BY <1>1, <1>5 DEF StopDma, Goto, Quiet, Runs, histVars
  <2>2. running /\ Silent(1 - half)
    BY <2>1 DEF QuietInv
  <2>3. stream # 0 /\ stream \in Nat
    BY <1>1, <1>2, <2>1
  <2>4. PICK a \in 0 .. FrameLen, b \in 0 .. FrameLen : Frames(a, b)
    BY <2>2 DEF FramesInv
  <2>5. PICK h \in {0, 1} : h = 1 - half
    BY DEF HalfInv, TypeInv, TypeOK, DmaOK
  <2>6. b = 0
    <3> SUFFICES ASSUME b # 0 PROVE FALSE
      OBVIOUS
    <3>1. h * FrameLen \in Nat /\ h * FrameLen \in Places(h)
      <4>1. h * FrameLen \in Nat
        BY HalfPlaces
      <4> QED
        BY <4>1 DEF Places
    <3>2. Frame(h, b, heard + a)
      BY <2>1, <2>4, <2>5 DEF Frames
    <3>3. h * FrameLen < h * FrameLen + b
      BY <3>1
    <3>4. fifo[h * FrameLen] = [s |-> stream, n |-> (heard + a) + 1 + h * FrameLen - h * FrameLen]
      BY <3>1, <3>2, <3>3 DEF Frame
    <3>5. fifo[h * FrameLen].s = stream
      BY <3>4
    <3>6. fifo[h * FrameLen] = Silence
      BY <2>2, <2>5, <3>1 DEF Silent
    <3> QED
      BY <2>3, <3>5, <3>6 DEF Silence
  <2>7. heard + a + b = Fed
    BY <2>4 DEF Frames
  <2>8. Fed = accepted
    <3>1. queue = <<>> /\ writeIndex = 0
      BY <2>1 DEF HalfInv, StreamInv, PlayerInv, InClose
    <3>2. Filled = 0
      BY <2>1, <3>1, FilledOfOne
    <3> QED
      BY <1>1, <3>1, <3>2 DEF Fed, FirstUnqueued
  <2>9. accepted - heard <= FrameLen
    BY <1>1, <2>6, <2>7, <2>8
  <2> QED
    BY <1>2, <2>1, <2>3, <2>9
<1>6. CASE PlayHalf \/ Isr
  <2>1. /\ running /\ UNCHANGED <<running, stream, accepted>>
        /\ pc' = pc \/ (pc[c] = "waiting" /\ pc' = [pc EXCEPT ![c] = "woken"])
    BY <1>6, HardwareMoves
  <2>2. pc[c] # "deactivate" /\ pc[c] # "idle" /\ pc'[c] # "deactivate"
    BY <1>1, <2>1, RunningStream
  <2>3. stream # 0
    BY <1>2, <2>2
  <2>4. \A i \in 0 .. Total - 1 : fifo'[i] = fifo[i] \/ fifo'[i].s = 0 \/ fifo'[i].s = stream
    <3>1. CASE SendSilence \/ SendFrame
      <4>1. irq /\ ZeroFrame
        BY <3>1 DEF SendSilence, SendFrame
      <4> QED
        BY <4>1, ZeroedHalf DEF Silence
    <3>2. CASE CopyToFifo
      BY <3>2, ContentsNext, FramesCopied
    <3>3. CASE PlayHalf \/ UnderRun
      BY <3>3 DEF PlayHalf, UnderRun, dmaVars
    <3> QED
      BY <1>6, <3>1, <3>2, <3>3 DEF Isr
  <2>5. \A i \in 0 .. Total - 1 : fifo'[i].s <= stream
    BY <1>1, <1>2, <2>4
  <2> QED
    BY <2>1, <2>2, <2>3, <2>5
<1> SUFFICES ASSUME ~Open(c), ~StopDma(c), ~(PlayHalf \/ Isr), Fed' = Fed
             PROVE  Goal
  BY <1>4, <1>5, <1>6, ContentsNext DEF Isr
<1>7. CASE StartDma(c)
  <2>1. /\ pc[c] = "start" /\ pc'[c] = "opened" /\ ~running
        /\ UNCHANGED <<fifo, stream, heard, stale>>
    BY <1>1, <1>7 DEF StartDma, Goto, histVars, HalfInv, StreamInv, Playing, InWrite
  <2> QED
    BY <1>2, <2>1
<1>8. CASE Alloc(c) \/ Copy(c) \/ Push(c) \/ Flush(c)
  <2>1. UNCHANGED <<fifo, running, stream, heard, stale>>
    BY <1>8 DEF Alloc, Copy, Push, Flush, dmaVars, histVars
  <2>2. pc[c] \notin Before /\ pc'[c] \notin Before
    BY <1>1, <1>8 DEF Alloc, Copy, Push, Flush, Goto
  <2> QED
    BY <1>3, <2>1, <2>2
<1>9. CASE (Call(c) \/ Step(c)) /\ ~(Alloc(c) \/ Copy(c) \/ Push(c) \/ Flush(c) \/ StartDma(c))
  <2>1. /\ UNCHANGED <<running, fifo, histVars>>
        /\ pc[c] \in Before => pc'[c] \in Before
        /\ pc[c] = "idle" => pc'[c] = "idle"
        /\ pc'[c] = "deactivate" => pc[c] = "deactivate"
    BY <1>9, OtherSteps
  <2> QED
    BY <1>3, <2>1 DEF histVars
<1>10. CASE UNCHANGED vars
  BY <1>3, <1>10 DEF vars, dmaVars, histVars, threadVars
<1> QED
  BY <1>7, <1>8, <1>9, <1>10 DEF Next

\* At the beginning nothing has been taken in, sent or heard.
LEMMA SoundInit == Init => SoundInv
<1> SUFFICES ASSUME Init PROVE SoundInv
  OBVIOUS
<1> USE ConstantsAssumption
<1>1. HalfInv /\ BlocksConserved
  BY HalfInit, PoolInit DEF PoolInv
<1>2. /\ queue = <<>> /\ writeIndex = 0 /\ ~running /\ isr = "idle" /\ stream = 0
      /\ pc = [c \in Clients |-> "idle"]
      /\ fifo = [i \in 0 .. Total - 1 |-> Silence]
  BY DEF Init
<1>3. LeftInv /\ FramesInv
  BY <1>2 DEF LeftInv, FramesInv
<1>4. ContentsInv
  <2>1. Filled = 0 /\ Len(queue) = 0
    BY <1>2 DEF Filled
  <2> QED
    BY <2>1 DEF ContentsInv
<1>5. QuietInv
  <2>1. Silent(0)
    <3>1. 0 \in {0, 1}
      OBVIOUS
    <3>2. Places(0) \subseteq 0 .. Total - 1
      BY <3>1, HalfPlaces
    <3> QED
      BY <1>2, <3>2 DEF Silent
  <2> QED
    BY <1>2, <2>1 DEF QuietInv
<1>6. StoppedInv
  <2>1. \A i \in 0 .. Total - 1 : fifo[i].s = 0
    BY <1>2 DEF Silence
  <2> QED
    BY <1>2, <2>1 DEF StoppedInv
<1> QED
  BY <1>1, <1>3, <1>4, <1>5, <1>6 DEF SoundInv

\* The sound invariant is inductive.
LEMMA SoundNext ==
  ASSUME SoundInv, NEW c, Clients = {c}, [Next]_vars,
         NEW K \in Nat \ {0}, BlockLen = K * FrameLen
  PROVE  SoundInv'
<1>1. HalfInv'
  BY HalfNext DEF SoundInv
<1>2. BlocksConserved'
  BY BlocksNext DEF SoundInv, PoolInv, HalfInv
<1>3. LeftInv' /\ ContentsInv' /\ QuietInv'
  BY LeftNext, ContentsNext, QuietNext DEF SoundInv
<1>4. FramesInv' /\ StoppedInv'
  BY FramesNext, StoppedNext DEF SoundInv
<1> QED
  BY <1>1, <1>2, <1>3, <1>4 DEF SoundInv

\* With one player at a time, what is heard of a stream is what was written, each
\* sample once and in order: whatever the sizes of the writes, wherever a block
\* or a frame ends, however often the data runs dry, and across a close and the
\* next open (_audio_dev_write, _audio_flush_replay_frame,
\* _audio_send_replay_frame).  At most one half is left over from before.
THEOREM PlayedInOrder ==
  ASSUME NEW c, Clients = {c}, NEW K \in Nat \ {0}, BlockLen = K * FrameLen
  PROVE  Spec => HeardInOrder
<1> DEFINE InOrder ==
      /\ \A i \in OfStream(half) : fifo[i].n = heard + Rank(half, i)
      /\ Leftover(half) # {} => ~stale /\ heard = 0 /\ OfStream(half) = {}
<1>1. SoundInv /\ [Next]_vars => SoundInv'
  BY SoundNext
<1>2. SoundInv /\ [Next]_vars => [PlayHalf => InOrder]_vars
  <2> SUFFICES ASSUME SoundInv, [Next]_vars, PlayHalf PROVE InOrder
    OBVIOUS
  <2>1. ~CopyToFifo /\ ~Open(c)
    <3>1. pc \in [{c} -> PCs]
      BY SoundTypes DEF SoundInv
    <3> QED
      BY <3>1 DEF PlayHalf, CopyToFifo, Open, Goto, threadVars
  <2>2. Fed' = Fed
    BY <2>1, ContentsNext DEF SoundInv
  <2> QED
    BY <2>2, FramesPlayed DEF SoundInv
<1> QED
  BY <1>1, <1>2, SoundInit, PTL DEF Spec, HeardInOrder

\* With one player at a time the stop of the hardware cuts at most the half that
\* is being played: everything else that was written has been heard, since the
\* stop is acknowledged only when the queue is empty, and the flush comes before
\* it (_audio_dev_close, _aduio_replay_stop).
THEOREM LosesAtMostOneHalf ==
  ASSUME NEW c, Clients = {c}, NEW K \in Nat \ {0}, BlockLen = K * FrameLen
  PROVE  Spec => []StopLosesAtMostOneHalf
<1>1. SoundInv => StopLosesAtMostOneHalf
  <2> SUFFICES ASSUME SoundInv, pc[c] = "deactivate"
               PROVE  queue = <<>> /\ writeIndex = 0 /\ accepted - heard <= FrameLen
    BY DEF StopLosesAtMostOneHalf
  <2> QED
    BY DEF SoundInv, HalfInv, StreamInv, PlayerInv, InClose, StoppedInv
<1>2. SoundInv /\ [Next]_vars => SoundInv'
  BY SoundNext
<1> QED
  BY <1>1, <1>2, SoundInit, PTL DEF Spec
=============================================================================
