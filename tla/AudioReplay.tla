---------------------------- MODULE AudioReplay ----------------------------
(***************************************************************************)
(* The playback path of the sound device "sound0": client threads open,    *)
(* write and close it through the device layer (device.c), the audio       *)
(* framework (dev_audio.c) collects what they write in blocks of a memory  *)
(* pool and queues them, and the half/full transfer interrupt of the       *)
(* circular DAC DMA (drv_sound.c) moves one frame at a time from the       *)
(* queued blocks to the half of the FIFO the DMA has just played.          *)
(*                                                                         *)
(* The unit of data is a sample; a sample is named by the stream it was    *)
(* written in (the stream begins when device_open resets the indexes) and  *)
(* its place in that stream.  Sizes are counted in samples.                *)
(*                                                                         *)
(* One player at a time: a device is opened only when the last close has   *)
(* returned.  The calls are cut where the interrupt can tell the           *)
(* difference; between two players they would have to be cut more finely   *)
(* (rt_device_open counts, and _audio_flush_replay_frame queues its block  *)
(* and clears write_index, without a lock).                                *)
(*                                                                         *)
(* One core: an interrupt handler excludes every thread (Runs below).      *)
(***************************************************************************)
EXTENDS Integers, Sequences, FiniteSets

CONSTANTS
  Clients,     \* the thread that plays through "sound0" (wav_p or nesplayer)
  FrameLen,    \* buf_info.block_size: one half of the DMA FIFO
  BlockLen,    \* RT_AUDIO_REPLAY_MP_BLOCK_SIZE
  Blocks,      \* the RT_AUDIO_REPLAY_MP_BLOCK_COUNT blocks of the pool adu_mp
  QueueSize,   \* CFG_AUDIO_REPLAY_QUEUE_COUNT
  Formats,     \* what clients pass to AUDIO_CTL_CONFIGURE: samplebits 8 or 16
               \* ("bits"), samplerate in _PSC_TBL ("rate")
  WriteSizes,  \* the sizes clients pass to rt_device_write
  MaxSamples,  \* bound: samples written in one stream
  MaxStreams,  \* bound: how often device_open is entered
  None         \* no thread, no block

ASSUME ConstantsAssumption ==
  /\ FrameLen \in Nat \ {0}
  /\ BlockLen \in Nat \ {0}
  /\ QueueSize \in Nat \ {0}
  /\ Formats \subseteq [bits : BOOLEAN, rate : BOOLEAN]
  /\ WriteSizes \subseteq Nat \ {0}
  /\ MaxSamples \in Nat
  /\ MaxStreams \in Nat
  /\ None \notin Clients
  /\ None \notin Blocks

ASSUME OnePlayerAssumption == \A c, d \in Clients : c = d

Total == 2 * FrameLen            \* buf_info.total_size: the whole FIFO

VARIABLES
  refCount, openFlag,            \* struct rt_device
  activated, stopEvent,          \* replay->activated, replay->event
  writeData, writeIndex,         \* the block being filled, and how far
  queue, readIndex,              \* data queue, and how far its head is read
  free, mem,                     \* memory pool, contents of its blocks
  pos,                           \* where the next frame goes in the FIFO
  lock, cmp,                     \* replay->lock, replay->cmp
  running, half, irq, fifo,      \* the DMA: half is the one being played
  bits, timer,                   \* samplebits is 8 or 16; TIM6 clocks the DAC
  isr, index, remain,            \* locals of _audio_send_replay_frame
  pc, left,                      \* threads; left = size - index of a write
  stream,                        \* history: the stream begun last, how many of
  accepted, heard,               \* its samples were taken in and played, and
  stale                          \* whether older ones were played in it

devVars    == <<refCount, openFlag>>
fillVars   == <<writeData, writeIndex>>
queueVars  == <<queue, readIndex>>
poolVars   == <<free, mem>>
syncVars   == <<lock, cmp>>
dmaVars    == <<running, half, irq, fifo>>
formatVars == <<bits, timer>>
isrVars    == <<isr, index, remain>>
ctlVars    == <<activated, stopEvent>>
threadVars == <<pc, left>>
histVars   == <<stream, accepted, heard, stale>>

vars == <<devVars, fillVars, queueVars, poolVars, syncVars, dmaVars, isrVars,
          ctlVars, formatVars, threadVars, histVars, pos>>

Silence == [s |-> 0, n |-> 0]
Sample  == [s : Nat, n : Nat]
Item    == [block : Blocks, size : 1 .. BlockLen]     \* of the data queue

\* x % m for the x < 2m that the code ever reduces
Wrap(x, m) == IF x >= m THEN x - m ELSE x
Min2(a, b) == IF a < b THEN a ELSE b

-----------------------------------------------------------------------------
(* Scheduling. *)

InWrite  == {"lock", "loop", "alloc", "copy", "push", "check", "start"}
InClose  == {"close", "flush", "stopevent", "init", "wait", "waiting", "woken",
             "clear", "hwstop", "deactivate", "closeflag", "closed"}
InOpen   == {"opening", "configure"}
PCs      == {"idle", "opened", "halt"} \cup InOpen \cup InWrite \cup InClose

Halted == \E c \in Clients : pc[c] = "halt"

\* The player may take a step: no handler runs or is pending.
Runs == isr = "idle" /\ ~irq /\ ~Halted

Goto(c, label) == pc' = [pc EXCEPT ![c] = label]

Init ==
  /\ refCount = 0 /\ openFlag = {}
  /\ activated = FALSE /\ stopEvent = FALSE
  /\ writeData = None /\ writeIndex = 0
  /\ queue = <<>> /\ readIndex = 0
  /\ free = Blocks
  /\ mem = [b \in Blocks |-> [i \in 0 .. BlockLen - 1 |-> Silence]]
  /\ pos = 0
  /\ lock = None
  /\ cmp = [done |-> FALSE, waiter |-> None]
  /\ running = FALSE /\ half = 0 /\ irq = FALSE
  /\ fifo = [i \in 0 .. Total - 1 |-> Silence]
  /\ bits = FALSE /\ timer = FALSE
  /\ isr = "idle" /\ index = 0 /\ remain = 0
  /\ pc = [c \in Clients |-> "idle"]
  /\ left = [c \in Clients |-> 0]
  /\ stream = 0 /\ accepted = 0 /\ heard = 0 /\ stale = FALSE

-----------------------------------------------------------------------------
(* Wrong forms of definitions below, each a slip the code could have: a run   *)
(* that checks a property must find it broken when one of them takes the      *)
(* place of the definition it is named after.                                 *)

\* the rest of the write, however little room the block has
TakenAll(c) == left[c]

\* the block goes out of the queue but not back to the pool
GiveBackNothing(used) ==
  /\ queue' = IF used THEN Tail(queue) ELSE queue
  /\ free' = free

\* the index of the flushed block is left standing
FlushKeepsIndex(c) ==
  /\ pc[c] = "flush" /\ Runs
  /\ writeIndex # 0 => Len(queue) < QueueSize
  /\ queue' = IF writeIndex = 0 THEN queue
              ELSE Append(queue, [block |-> writeData, size |-> writeIndex])
  /\ Goto(c, "stopevent")
  /\ UNCHANGED <<devVars, ctlVars, fillVars, readIndex, poolVars, syncVars,
                 dmaVars, isrVars, left, histVars, pos, formatVars>>

\* no flush before the stop
CloseReplayUnflushed(c) ==
  /\ pc[c] = "close" /\ Runs
  /\ Goto(c, IF "wronly" \in openFlag /\ activated THEN "stopevent" ELSE "closeflag")
  /\ UNCHANGED <<devVars, ctlVars, fillVars, queueVars, poolVars, syncVars,
                 dmaVars, isrVars, left, histVars, pos, formatVars>>

\* the old frame is not cleared before the new one is written
ZeroNothing == fifo' = fifo

\* after an under-run pos is moved on without taking the last piece back
UnderRunAdds ==
  /\ isr = "copy" /\ queue = <<>>
  /\ pos' = Wrap(pos + FrameLen, Total)
  /\ readIndex' = 0
  /\ isr' = "idle"
  /\ UNCHANGED <<devVars, ctlVars, fillVars, queue, poolVars, syncVars, dmaVars,
                 index, remain, threadVars, histVars, formatVars>>

\* a new block only for the first write
NextBlockOnce(c) ==
  /\ pc[c] = "loop" /\ Runs /\ left[c] > 0
  /\ Goto(c, IF writeIndex = 0 /\ writeData = None THEN "alloc" ELSE "copy")
  /\ UNCHANGED <<devVars, ctlVars, fillVars, queueVars, poolVars, syncVars,
                 dmaVars, isrVars, left, histVars, pos, formatVars>>

\* every write starts the device
CheckNothing(c) ==
  /\ pc[c] = "check" /\ Runs
  /\ Goto(c, "start")
  /\ UNCHANGED <<devVars, ctlVars, fillVars, queueVars, poolVars, syncVars,
                 dmaVars, isrVars, left, histVars, pos, formatVars>>
-----------------------------------------------------------------------------
(* rt_device_open and _audio_dev_open. *)

\* What _audio_dev_open does to the replay when it is not activated.
ResetReplay ==
  /\ writeIndex' = 0 /\ readIndex' = 0 /\ pos' = 0 /\ stopEvent' = FALSE

\* The device_open interface is called only when the device is not open, or
\* open with other flags.
Open(c) ==
  /\ pc[c] = "idle" /\ Runs
  /\ Goto(c, "opening")
  /\ IF openFlag = {"open", "wronly"}
     THEN UNCHANGED <<openFlag, writeIndex, readIndex, pos, stopEvent, histVars, formatVars>>
     ELSE /\ stream < MaxStreams
          /\ openFlag' = {"wronly"}
          /\ IF activated
             THEN UNCHANGED <<writeIndex, readIndex, pos, stopEvent>>
             ELSE ResetReplay
          /\ stream' = stream + 1 /\ accepted' = 0 /\ heard' = 0 /\ stale' = FALSE
  /\ UNCHANGED <<refCount, activated, writeData, queue, poolVars, syncVars,
                 dmaVars, isrVars, left, formatVars>>

Opened(c) ==
  /\ pc[c] = "opening" /\ Runs
  /\ openFlag' = openFlag \cup {"open"}
  /\ refCount' = refCount + 1
  /\ Goto(c, "configure")
  /\ UNCHANGED <<ctlVars, fillVars, queueVars, poolVars, syncVars, dmaVars,
                 isrVars, left, histVars, pos, formatVars>>

\* AUDIO_CTL_CONFIGURE, which every client issues after opening.  For a known
\* sample size HAL_DMA_Init programs the stream anew, which disables it; for a
\* known sample rate TIM6 is (re)started, otherwise it stays as it is.
Configure(c) ==
  /\ pc[c] = "configure" /\ Runs
  /\ \E f \in Formats :
       /\ bits' = f.bits
       /\ timer' = (timer \/ f.rate)
       /\ running' = (running /\ ~f.bits)
  /\ Goto(c, "opened")
  /\ UNCHANGED <<devVars, ctlVars, fillVars, queueVars, poolVars, syncVars,
                 half, irq, fifo, isrVars, left, histVars, pos>>

-----------------------------------------------------------------------------
(* rt_device_write and _audio_dev_write. *)

\* A closed device, or one without the write flag, would take nothing.
Write(c) ==
  /\ pc[c] = "opened" /\ Runs
  /\ refCount # 0 /\ "wronly" \in openFlag
  /\ \E n \in WriteSizes :
       /\ accepted + n <= MaxSamples
       /\ left' = [left EXCEPT ![c] = n]
  /\ Goto(c, "lock")
  /\ UNCHANGED <<devVars, ctlVars, fillVars, queueVars, poolVars, syncVars,
                 dmaVars, isrVars, histVars, pos, formatVars>>

TakeLock(c) ==
  /\ pc[c] = "lock" /\ Runs /\ lock = None
  /\ lock' = c
  /\ Goto(c, "loop")
  /\ UNCHANGED <<devVars, ctlVars, fillVars, queueVars, poolVars, cmp,
                 dmaVars, isrVars, left, histVars, pos, formatVars>>

\* while (index < size): a block boundary needs a new block first.
NextBlock(c) ==
  /\ pc[c] = "loop" /\ Runs /\ left[c] > 0
  /\ Goto(c, IF writeIndex = 0 THEN "alloc" ELSE "copy")
  /\ UNCHANGED <<devVars, ctlVars, fillVars, queueVars, poolVars, syncVars,
                 dmaVars, isrVars, left, histVars, pos, formatVars>>

\* rt_mp_alloc(RT_WAITING_FOREVER), then the block is zeroed.
Alloc(c) ==
  /\ pc[c] = "alloc" /\ Runs
  /\ \E b \in free :
       /\ free' = free \ {b}
       /\ writeData' = b
       /\ mem' = [mem EXCEPT ![b] = [i \in 0 .. BlockLen - 1 |-> Silence]]
  /\ Goto(c, "copy")
  /\ UNCHANGED <<devVars, ctlVars, writeIndex, queueVars, syncVars, dmaVars,
                 isrVars, left, histVars, pos, formatVars>>

\* As much as the block still takes.
Taken(c) == Min2(BlockLen - writeIndex, left[c])

Copy(c) ==
  /\ pc[c] = "copy" /\ Runs
  /\ LET n    == Taken(c)
         next == Wrap(writeIndex + n, BlockLen)
     IN /\ mem' = [mem EXCEPT ![writeData] =
                     [i \in 0 .. BlockLen - 1 |->
                        IF i >= writeIndex /\ i < writeIndex + n
                        THEN [s |-> stream, n |-> accepted + 1 + i - writeIndex]
                        ELSE @[i]]]
        /\ writeIndex' = next
        /\ left' = [left EXCEPT ![c] = @ - n]
        /\ accepted' = accepted + n
        /\ Goto(c, IF next = 0 THEN "push" ELSE "loop")
  /\ UNCHANGED <<devVars, ctlVars, writeData, queueVars, free, syncVars,
                 dmaVars, isrVars, stream, heard, stale, pos, formatVars>>

\* rt_data_queue_push of a full block waits for room forever.
Push(c) ==
  /\ pc[c] = "push" /\ Runs /\ Len(queue) < QueueSize
  /\ queue' = Append(queue, [block |-> writeData, size |-> BlockLen])
  /\ Goto(c, "loop")
  /\ UNCHANGED <<devVars, ctlVars, fillVars, readIndex, poolVars, syncVars,
                 dmaVars, isrVars, left, histVars, pos, formatVars>>

ReleaseLock(c) ==
  /\ pc[c] = "loop" /\ Runs /\ left[c] = 0
  /\ lock' = None
  /\ Goto(c, "check")
  /\ UNCHANGED <<devVars, ctlVars, fillVars, queueVars, poolVars, cmp,
                 dmaVars, isrVars, left, histVars, pos, formatVars>>

\* The first write of a stream starts the device, outside the lock.
CheckActivated(c) ==
  /\ pc[c] = "check" /\ Runs
  /\ Goto(c, IF activated THEN "opened" ELSE "start")
  /\ UNCHANGED <<devVars, ctlVars, fillVars, queueVars, poolVars, syncVars,
                 dmaVars, isrVars, left, histVars, pos, formatVars>>

\* HAL_DAC_Start_DMA refuses a transfer that is running; Error_Handler then
\* masks the interrupts and never returns.
StartFails(c) ==
  /\ pc[c] = "start" /\ Runs /\ bits /\ running
  /\ Goto(c, "halt")
  /\ UNCHANGED <<devVars, ctlVars, fillVars, queueVars, poolVars, syncVars,
                 dmaVars, isrVars, left, histVars, pos, formatVars>>

\* HAL_DAC_Start_DMA: the circular transfer starts with the first half, with
\* whatever the FIFO holds.  With an unknown sample size nothing is started.
StartDma(c) ==
  /\ pc[c] = "start" /\ Runs
  /\ bits => ~running
  /\ running' = (running \/ bits)
  /\ half' = IF bits THEN 0 ELSE half
  /\ irq' = FALSE
  /\ activated' = TRUE
  /\ Goto(c, "opened")
  /\ UNCHANGED <<devVars, stopEvent, fillVars, queueVars, poolVars, syncVars,
                 fifo, isrVars, left, histVars, pos, formatVars>>

\* ops->start: a transfer that is running is not started again.
Start(c) == IF bits /\ running THEN StartFails(c) ELSE StartDma(c)
-----------------------------------------------------------------------------
(* rt_device_close, _audio_dev_close and _aduio_replay_stop. *)

\* Only the last reference closes the device.
Close(c) ==
  /\ pc[c] = "opened" /\ Runs
  /\ refCount' = IF refCount = 0 THEN 0 ELSE refCount - 1
  /\ Goto(c, IF refCount = 1 THEN "close" ELSE "idle")
  /\ UNCHANGED <<openFlag, ctlVars, fillVars, queueVars, poolVars, syncVars,
                 dmaVars, isrVars, left, histVars, pos, formatVars>>

CloseReplay(c) ==
  /\ pc[c] = "close" /\ Runs
  /\ Goto(c, IF "wronly" \in openFlag /\ activated THEN "flush" ELSE "closeflag")
  /\ UNCHANGED <<devVars, ctlVars, fillVars, queueVars, poolVars, syncVars,
                 dmaVars, isrVars, left, histVars, pos, formatVars>>

\* _audio_flush_replay_frame: what is left of the block being filled is queued
\* with its own length.
Flush(c) ==
  /\ pc[c] = "flush" /\ Runs
  /\ writeIndex # 0 => Len(queue) < QueueSize
  /\ queue' = IF writeIndex = 0 THEN queue
              ELSE Append(queue, [block |-> writeData, size |-> writeIndex])
  /\ writeIndex' = 0
  /\ Goto(c, "stopevent")
  /\ UNCHANGED <<devVars, ctlVars, writeData, readIndex, poolVars, syncVars,
                 dmaVars, isrVars, left, histVars, pos, formatVars>>

SetStopEvent(c) ==
  /\ pc[c] = "stopevent" /\ Runs
  /\ stopEvent' = TRUE
  /\ Goto(c, "init")
  /\ UNCHANGED <<devVars, activated, fillVars, queueVars, poolVars, syncVars,
                 dmaVars, isrVars, left, histVars, pos, formatVars>>

\* rt_completion_init forgets a completion and whoever waits for it.
InitCompletion(c) ==
  /\ pc[c] = "init" /\ Runs
  /\ cmp' = [done |-> FALSE, waiter |-> None]
  /\ Goto(c, "wait")
  /\ UNCHANGED <<devVars, ctlVars, fillVars, queueVars, poolVars, lock,
                 dmaVars, isrVars, left, histVars, pos, formatVars>>

\* rt_completion_wait: take a completion that is there, or suspend.
Wait(c) ==
  /\ pc[c] = "wait" /\ Runs
  /\ cmp' = [done |-> FALSE, waiter |-> IF cmp.done THEN None ELSE c]
  /\ Goto(c, IF cmp.done THEN "clear" ELSE "waiting")
  /\ UNCHANGED <<devVars, ctlVars, fillVars, queueVars, poolVars, lock,
                 dmaVars, isrVars, left, histVars, pos, formatVars>>

\* Resumed: the completion is taken, or found gone (-RT_ETIMEOUT, ignored).
Woken(c) ==
  /\ pc[c] = "woken" /\ Runs
  /\ cmp' = IF cmp.done THEN [done |-> FALSE, waiter |-> None] ELSE cmp
  /\ Goto(c, "clear")
  /\ UNCHANGED <<devVars, ctlVars, fillVars, queueVars, poolVars, lock,
                 dmaVars, isrVars, left, histVars, pos, formatVars>>

ClearStopEvent(c) ==
  /\ pc[c] = "clear" /\ Runs
  /\ stopEvent' = FALSE
  /\ Goto(c, "hwstop")
  /\ UNCHANGED <<devVars, activated, fillVars, queueVars, poolVars, syncVars,
                 dmaVars, isrVars, left, histVars, pos, formatVars>>

\* HAL_DAC_Stop_DMA: the half being played is cut, its interrupt with it.
StopDma(c) ==
  /\ pc[c] = "hwstop" /\ Runs
  /\ running' = FALSE /\ irq' = FALSE
  /\ Goto(c, "deactivate")
  /\ UNCHANGED <<devVars, ctlVars, fillVars, queueVars, poolVars, syncVars,
                 half, fifo, isrVars, left, histVars, pos, formatVars>>

Deactivate(c) ==
  /\ pc[c] = "deactivate" /\ Runs
  /\ activated' = FALSE
  /\ Goto(c, "closeflag")
  /\ UNCHANGED <<devVars, stopEvent, fillVars, queueVars, poolVars, syncVars,
                 dmaVars, isrVars, left, histVars, pos, formatVars>>

ClearWriteFlag(c) ==
  /\ pc[c] = "closeflag" /\ Runs
  /\ openFlag' = openFlag \ {"wronly"}
  /\ Goto(c, "closed")
  /\ UNCHANGED <<refCount, ctlVars, fillVars, queueVars, poolVars, syncVars,
                 dmaVars, isrVars, left, histVars, pos, formatVars>>

Closed(c) ==
  /\ pc[c] = "closed" /\ Runs
  /\ openFlag' = {}
  /\ Goto(c, "idle")
  /\ UNCHANGED <<refCount, ctlVars, fillVars, queueVars, poolVars, syncVars,
                 dmaVars, isrVars, left, histVars, pos, formatVars>>
-----------------------------------------------------------------------------
(* The DMA and its interrupt. *)

\* The places of a half of the FIFO, those that hold samples of this stream, and
\* those that still hold samples of an earlier one.
Places(h)   == h * FrameLen .. h * FrameLen + FrameLen - 1
OfStream(h) == {i \in Places(h) : fifo[i].s = stream}
Leftover(h) == {i \in Places(h) : fifo[i].s \notin {Silence.s, stream}}

\* The DMA has played one half, goes on with the other and raises the
\* interrupt.  The handler of the previous half has ended by then: a half
\* lasts several milliseconds.
PlayHalf ==
  /\ running /\ timer /\ ~irq /\ isr = "idle" /\ ~Halted
  /\ heard' = heard + Cardinality(OfStream(half))
  /\ stale' = (stale \/ Leftover(half) # {})
  /\ half' = 1 - half
  /\ irq' = TRUE
  /\ UNCHANGED <<devVars, ctlVars, fillVars, queueVars, poolVars, syncVars,
                 running, fifo, isrVars, threadVars, stream, accepted, pos, formatVars>>

\* memset of the frame at pos
ZeroFrame == fifo' = [i \in 0 .. Total - 1 |->
                        IF i >= pos /\ i < pos + FrameLen THEN Silence ELSE fifo[i]]

\* rt_completion_done: wake the waiter, leave the completion done.
CompletionDone ==
  IF cmp.done THEN UNCHANGED <<cmp, pc>>
  ELSE /\ cmp' = [done |-> TRUE, waiter |-> None]
       /\ pc' = IF cmp.waiter = None THEN pc
                ELSE [pc EXCEPT ![cmp.waiter] = "woken"]

\* Nothing queued: acknowledge a stop, send a frame of silence.
SendSilence ==
  /\ irq /\ isr = "idle" /\ queue = <<>>
  /\ irq' = FALSE
  /\ ZeroFrame
  /\ pos' = Wrap(pos + FrameLen, Total)
  /\ IF stopEvent THEN CompletionDone ELSE UNCHANGED <<cmp, pc>>
  /\ UNCHANGED <<devVars, ctlVars, fillVars, queueVars, poolVars, lock,
                 running, half, isrVars, left, histVars, formatVars>>

SendFrame ==
  /\ irq /\ isr = "idle" /\ queue # <<>>
  /\ irq' = FALSE
  /\ ZeroFrame
  /\ isr' = "copy" /\ index' = 0 /\ remain' = 0
  /\ UNCHANGED <<devVars, ctlVars, fillVars, queueVars, poolVars, syncVars,
                 running, half, threadVars, histVars, pos, formatVars>>

\* What the head block and the rest of the frame have in common.
Share == Min2(FrameLen - index, Head(queue).size - readIndex)

\* rt_data_queue_pop and rt_mp_free of a block that is used up.
GiveBack(used) ==
  /\ queue' = IF used THEN Tail(queue) ELSE queue
  /\ free' = IF used THEN free \cup {Head(queue).block} ELSE free

\* One round of while (index < dst_size): copy what the head block has, and
\* give the block back when it is used up.
CopyToFifo ==
  /\ isr = "copy" /\ queue # <<>>
  /\ LET head == Head(queue)
         n    == Share
         used == readIndex + n = head.size
     IN /\ fifo' = [i \in 0 .. Total - 1 |->
                      IF i >= pos /\ i < pos + n
                      THEN mem[head.block][readIndex + i - pos]
                      ELSE fifo[i]]
        /\ remain' = n
        /\ index' = index + n
        /\ pos' = Wrap(pos + n, Total)
        /\ readIndex' = IF used THEN 0 ELSE readIndex + n
        /\ GiveBack(used)
        /\ isr' = IF index + n = FrameLen THEN "idle" ELSE "copy"
  /\ UNCHANGED <<devVars, ctlVars, fillVars, mem, syncVars, running, half, irq,
                 threadVars, histVars, formatVars>>

\* The queue ran dry inside the frame: move pos to the next frame.
UnderRun ==
  /\ isr = "copy" /\ queue = <<>>
  /\ pos' = Wrap(pos - remain + FrameLen, Total)
  /\ readIndex' = 0
  /\ isr' = "idle"
  /\ UNCHANGED <<devVars, ctlVars, fillVars, queue, poolVars, syncVars, dmaVars,
                 index, remain, threadVars, histVars, formatVars>>
-----------------------------------------------------------------------------
\* The steps of a thread inside a call, which it takes until it is suspended.
Step(c) ==
  \/ Opened(c) \/ Configure(c)
  \/ TakeLock(c) \/ NextBlock(c) \/ Alloc(c) \/ Copy(c) \/ Push(c)
  \/ ReleaseLock(c) \/ CheckActivated(c) \/ Start(c)
  \/ CloseReplay(c) \/ Flush(c) \/ SetStopEvent(c) \/ InitCompletion(c)
  \/ Wait(c) \/ Woken(c) \/ ClearStopEvent(c) \/ StopDma(c) \/ Deactivate(c)
  \/ ClearWriteFlag(c) \/ Closed(c)

Call(c) == Open(c) \/ Write(c) \/ Close(c)

Isr == SendSilence \/ SendFrame \/ CopyToFifo \/ UnderRun

Next ==
  \/ \E c \in Clients : Call(c) \/ Step(c)
  \/ PlayHalf
  \/ Isr

Spec == Init /\ [][Next]_vars

\* The DMA plays, its interrupt is served, and a thread in a call goes on in the
\* time the handler leaves it (strong fairness: the handler takes microseconds
\* of a half that lasts milliseconds).  Nobody has to make another call.
FairSpec == /\ Spec
            /\ \A c \in Clients : SF_vars(Step(c))
            /\ WF_vars(PlayHalf) /\ WF_vars(Isr)
-----------------------------------------------------------------------------
(* Properties. *)

DevOK ==
  /\ refCount \in Nat /\ openFlag \subseteq {"open", "wronly"}
CtlOK == activated \in BOOLEAN /\ stopEvent \in BOOLEAN
FillOK == writeData \in Blocks \cup {None} /\ writeIndex \in 0 .. BlockLen - 1
QueueOK ==
  /\ queue \in Seq(Item)
  /\ readIndex \in 0 .. BlockLen - 1
PoolOK ==
  /\ free \subseteq Blocks
  /\ mem \in [Blocks -> [0 .. BlockLen - 1 -> Sample]]
SyncOK ==
  /\ lock \in Clients \cup {None}
  /\ cmp \in [done : BOOLEAN, waiter : Clients \cup {None}]
DmaOK ==
  /\ running \in BOOLEAN /\ half \in {0, 1} /\ irq \in BOOLEAN
  /\ fifo \in [0 .. Total - 1 -> Sample]
FormatOK == bits \in BOOLEAN /\ timer \in BOOLEAN
IsrOK ==
  /\ isr \in {"idle", "copy"}
  /\ index \in 0 .. FrameLen /\ remain \in 0 .. FrameLen
ThreadOK == pc \in [Clients -> PCs] /\ left \in [Clients -> Nat]
HistOK == stream \in Nat /\ accepted \in Nat /\ heard \in Nat /\ stale \in BOOLEAN
PosOK == pos \in 0 .. Total - 1

\* Every variable stays in its range: no index ever leaves its buffer, and only
\* blocks of the pool are queued.
TypeOK ==
  /\ DevOK /\ CtlOK /\ FillOK /\ QueueOK /\ PoolOK /\ SyncOK
  /\ DmaOK /\ FormatOK /\ IsrOK /\ ThreadOK /\ HistOK /\ PosOK

QueuedBlocks == {queue[i].block : i \in 1 .. Len(queue)}

\* The block a writer has taken from the pool and not yet queued.
FillingBlocks ==
  IF writeIndex # 0 \/ \E c \in Clients : pc[c] \in {"copy", "push"}
  THEN {writeData} ELSE {}

\* No block of the pool is lost or owned twice: each is free, being filled, or
\* queued exactly once, whatever the writer, the closing thread and the
\* interrupt are in the middle of (rt_mp_alloc and rt_mp_free are far apart,
\* and _audio_dev_open drops writeIndex).
BlocksConserved ==
  /\ free \cup QueuedBlocks \cup FillingBlocks = Blocks
  /\ free \cap (QueuedBlocks \cup FillingBlocks) = {}
  /\ QueuedBlocks \cap FillingBlocks = {}
  /\ \A i, j \in 1 .. Len(queue) : queue[i].block = queue[j].block => i = j

\* Place i holds the how-manieth sample of this stream in its half.
Rank(h, i) == Cardinality({j \in OfStream(h) : j <= i})

\* What is heard in a stream is its samples, each once, in the order they were
\* written, without a hole, through block boundaries, short flushed blocks
\* and under-runs.  Of the two halves played before the first interrupt has
\* refilled them, one may still hold samples of an earlier stream.
HeardInOrder ==
  [][PlayHalf =>
       /\ \A i \in OfStream(half) : fifo[i].n = heard + Rank(half, i)
       /\ Leftover(half) # {} => ~stale /\ heard = 0 /\ OfStream(half) = {}]_vars

\* The handler never writes into the half the DMA is reading, and the frame it
\* is about to write starts on a half: pos stays in step with the hardware
\* although only software moves it, also after an under-run.
HalfOwnership ==
  /\ isr = "copy" => pos \in (1 - half) * FrameLen .. (2 - half) * FrameLen - 1
  /\ irq => pos = (1 - half) * FrameLen

\* A queued block always finds room: the pool is the only thing a writer, or
\* the flush of a closing thread, ever waits for.
QueueNeverFull ==
  \A c \in Clients :
    pc[c] = "push" \/ (pc[c] = "flush" /\ writeIndex # 0) => Len(queue) < QueueSize

\* When the hardware is stopped, everything written has reached the FIFO: the
\* stop loses at most the half that is being played.
StopLosesAtMostOneHalf ==
  \A c \in Clients :
    pc[c] = "deactivate" => /\ queue = <<>> /\ writeIndex = 0
                            /\ accepted - heard <= FrameLen

\* The DMA is started only when it is stopped, so that Error_Handler is never
\* reached: activated agrees with the hardware, of which Configure and the stop
\* of a close take parts of their own.
NeverHalts == ~Halted

\* The contents of a queued block do not change until the interrupt has read
\* them, although the writer keeps the pointer of the block it queued last
\* (write_data) and a flush leaves it standing.
QueuedBlocksStable ==
  [][\A b \in QueuedBlocks : mem'[b] = mem[b]]_vars

\* _aduio_replay_stop, "waiting for the remaining data transfer to complete":
\* when the hardware is stopped every sample written has been played.
StopAfterRemainingData ==
  \A c \in Clients : pc[c] = "deactivate" => heard = accepted

\* A close comes back: the interrupt acknowledges every stop, whatever order
\* the stop event, the completion and the last frames come in.
CloseReturns == \A c \in Clients : pc[c] \in InClose ~> pc[c] = "idle"

\* A write comes back: blocks keep returning to the pool while it waits.
WriteReturns == \A c \in Clients : pc[c] \in InWrite ~> pc[c] = "opened"

\* No player is left suspended in the device.
CallsReturn == CloseReturns /\ WriteReturns
=============================================================================
