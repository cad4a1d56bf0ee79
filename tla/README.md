# TLA+ specifications of the Liangshanpi firmware

The repository is the firmware of the "Liangshanpi" board (STM32F429 / GD32F4,
one core, 240 MHz): RT-Thread, a GUI made with LVGL, a WAV player, a NES
emulator, a USB keyboard and mouse and an SD card. The modules here describe the
parts of it whose correctness depends on the order in which threads, interrupt
handlers and the hardware run: the way sound travels, which crosses most of the
layers, the display, which LVGL and the games share, the player of games, and the
mutex of the kernel, on which all of them rely.

    GUI, shell  --messages-->  wav_p (wavplayer.c)  --write-->  sound0
                                                                  |
    device.c: open / close / write, reference count               |
    dev_audio.c: blocks (mempool.c) -> queue (dataqueue.c) -> interrupt
    drv_sound.c: FIFO of two halves -> circular DMA -> DAC

    screens, shell, mouse  --play_mb-->  nesplayer (nesplayer.c)  --> sound0
    keyboard (usbh_hid_template.c)  --key_mb-->  |
                                                 | frames
    LVGL (lv_refr.c)  --flush-->  drv_lcd.c: one transfer on SPI and DMA

Contents: [Inventory](#inventory) · [Modules](#modules) · [Runs](#runs) ·
[Fairness](#fairness) · [Proofs](#proofs) · [Findings](#findings) ·
[What is left out](#what-is-left-out) · [Plan](#plan)

Invariants of a list with its flags, counts and sleepers are conjunctions of named
parts (`QueueInv`, `PoolOK`), and liveness of two kinds of callers is one property
(`SleepersServed`, `CallsReturn`).

To check a run, `tlc -config <run>.cfg <MC module>`; to check the proofs,
`tlapm <module>`. `PROJECT.json` says which line of the code each definition
stands for, which property covers which hazard, and which slip in the code each
property is known to catch.

## Inventory

| Part | State | Operations | Talks to | What is hard | Properties that matter |
|---|---|---|---|---|---|
| Audio replay path (`dev_audio.c`, `device.c`, `drv_sound.c`) | reference count and flags, block being filled, queue, read index, FIFO position, stop event and completion, DMA | open, configure, write, close; half and full transfer interrupt | wavplayer and nesplayer call it; it uses the queue, the pool, a mutex, a completion | software position against a DMA that never waits; stop handshake; tests, count and flush outside the lock | every sample once and in order; the half being read is not written; no block lost; close and write return |
| Data queue (`dataqueue.c`) | ring, two flags, two lists of suspended threads | push, pop, peek, reset, len | scheduler, thread timers | wake-up of a thread that another overtakes; timeout against resume, whose timer may be gone already; reset in two halves | FIFO; nobody sleeps on an item whose wake-up was not lost; a thread is in one list |
| Memory pool (`mempool.c`) | linked list of free blocks, a count, a list of suspended threads | alloc, free | scheduler, timers | the same, with the time recomputed after each vain wake-up | count is list; no block given twice; nobody sleeps on a block whose wake-up was not lost |
| Completion (`completion_up.c`) | one word: done flag and waiter | init, wait, done | audio and WAV player | init against wait and done | inside the modules that use it |
| WAV player (`wavplayer.c`) | state, uri, message queue, lock, acknowledgement, open file | play, stop, pause, resume; thread wav_p | GUI and shell call it; it plays through sound0 | callers that act on a state the player changes; one acknowledgement for all callers | calls return; messages fit the state; what plays is what was asked for last |
| NES player (`nesplayer.c`, `nes_main.c`, `main.c`) | state, uri, two mailboxes, joypad, flag to return | play, stop, key events; emulator thread | screens, shell, USB callbacks, display | a stop that meets a game that ends or has not begun; a uri freed under its reader | what was asked for last happens; no stop is left over for the next game; the display comes back |
| USB keyboard and mouse (`usbh_hid_template.c`, `lv_port_indev.c`) | last report | report callback | NES player, GUI | comparison slot by slot; events dropped between games | no button stays down in a new game, none is wrong about a key that kept its slot |
| Display (`drv_lcd.c`, `lv_port_disp.c`, `lv_refr.c`) | transfer in progress: buffer, length, index; width of the bus; flushes enabled, refresh forced | asynchronous fill, its completion; switching flushes off and on | LVGL, emulator, SPI DMA | two users start transfers and neither waits for the other; a transfer in two pieces; a completion that overtakes the call which started it | a flush is answered when all of it was sent; pictures start; the screen comes back |
| SD card mount (`sdcard_port.c`) | mounted flag | retry loop | GUI | retry | the flag means mounted |
| Mutex (`ipc.c`) | owner, count, sorted list of waiters, priorities lent | take, release, timeout | sound device, SPI bus, players | chains of owners that wait; a timeout against a hand-over and a late clean-up | no inversion; what was lent is given back; owner and waiter agree |
| Mailbox, message queue (`ipc.c`), scheduler and timers | buffers, ready and timer lists | send, receive | everything | full buffers, timeouts | inside the modules that use them |

The rest of the repository is vendored, generated, start-up code or computation
without concurrency; `PROJECT.json` lists each part with the reason it is left
out.

## Modules

### AudioReplay

One module for the three layers between `rt_device_write` and the DAC, since
their state is interleaved (`activated` is tested by the framework, the DMA is
started by the driver, the reference count is kept by the device layer). The unit
of data is a sample, named by its stream (one opening of the device) and its place
in it; sizes are in samples.

* The player. `pc[c]` is where client `c` is: `opening`, `configure`, `opened`; in a
  write `lock`, `loop`, `alloc`, `copy`, `push`, `check`, `start`; in a close
  `close`, `flush`, `stopevent`, `init`, `wait`, `waiting`, `woken`, `clear`,
  `hwstop`, `deactivate`, `closeflag`, `closed`. There is one player at a time
  (`OnePlayerAssumption`) and one action for every stretch of code in which the DMA and
  its interrupt make no difference; `left[c]` is what remains of the write. For two
  players that overlap these stretches would be too long: `ref_count` goes up and down
  in three instructions without a lock (`device.c:275`, `303`), the flag `activated` is
  tested and set without one, and so are the open flag and `write_index`, which the
  flush of a close tests, uses and clears (`dev_audio.c:115`). The module says nothing
  of them.
* Interrupt. `PlayHalf` is the hardware: it plays a half of the FIFO and raises
  `irq`. `SendSilence`, `SendFrame`, `CopyToFifo` and `UnderRun` are
  `_audio_send_replay_frame`; the copy takes several steps, in which no thread
  runs but the DMA goes on.
* Scheduling. `Runs`: one core, no handler active or pending.
* The queue and the pool appear in their abstract forms, a sequence and a set:
  those of `BoundedFifo` and `BlockPool`, which `DataQueue` and `MemPool` are
  proved to implement.
* `stream`, `accepted`, `heard` and `stale` are history, which no guard reads but
  those of the bounds: the openings, the samples taken in and played in this one, and
  whether samples of an earlier opening were played in it. With them "heard in
  order" is a statement about each half that is played (`HeardInOrder`), and no list
  of everything that was heard has to be kept.

### DataQueue, and what it promises: BoundedFifo

The ring with its two flags and two indexes, both lists of suspended threads, the
thread timers as far as they concern the queue, and `thread->error`. A step is what
runs under the spin lock (on one core: with interrupts masked); reset has a
critical section without the lock and so more steps. `Tick` is the system tick: the
timers count down, and those at zero are `Due`. For one of them, `Expire` is what
`_timer_check` does before it lets the interrupts in (`timer.c:518`): the timer is off
its list, the thread is `fired`. `ThreadTimeout` is `_thread_timeout`. A handler may
run before, between and after; a thread runs only when the tick is done with all
timers (`TickDone`). A handler in between that resumes the fired thread cannot stop its
timer: `rt_sched_thread_ready` fails, after it has cleared the flag that the timer is
set (`masked`), so the thread stays in its list, times out, and the wake-up is gone;
`lostItem` and `lostRoom` count these until the list, or what could be waited for, is
empty. A second resume in the same place succeeds, and `_thread_timeout` then fails its
assertion with interrupts masked (`TimeoutAsserts`, `halted`). `QueueInv` says that
this is the only way in which a wake-up is lost and the assertion fails. Handlers run to
the end and never wait. `BoundedFifo` is a buffer that only puts, takes the oldest, clears or
does nothing.

### MemPool, and what it promises: BlockPool

The free list in the order in which `rt_mp_init` and `rt_mp_free` link it, the
count, the suspended threads, and the time that is left to each (`TimeLeft`). The
tick is that of `DataQueue`, in the same two steps, and a block may be released by the
handler of the audio DMA between them; `lost` counts the wake-ups that this costs.
`asked` and `slept` are history. `BlockPool` is a set of free blocks from which a block
goes out and to which only what is out comes back.

### SuspList

The list of suspended threads that the queue, the pool and the mutex keep: a thread's
place in it and its removal from wherever it stands (`rt_list_remove`). The three
modules extend it, and their proofs the lemmas of `SuspListProofs`.

### WavPlayer

The four calls of `wavplayer.c` by any threads, and the thread wav_p. `pc[c]`
follows a call: the completion is cleared (`Call`), the lock taken (`lock` to
`check`), the state tested, a message sent and the answer awaited (`wait`,
`waiting`, `woken`), the lock released. `wavplayer_play` stops what plays by calling
`wavplayer_stop` with the lock held: `nested` and `stop`. `pp` is wav_p: the outer
loop (`recv`), the opening of the file, the inner loop (`poll`, `read`, `write`,
`paused`) and the closing. wav_p has the higher priority, so callers step only
while it is blocked (`PlayerBlocked`). Files are abstract: they open or not, and
end at any time.

### Mutex

`rt_mutex_take` and `rt_mutex_release` with everything they call. What runs with
interrupts masked is one step, so a take is `TakeFree`, `TakeAgain` or `TakeWait`,
and, once the thread runs again, `TakeGranted` or `TakeTimedOut` (the clean-up of a
wait that ended by the timer); `Timeout` is `_thread_timeout`, with the removal of the
timer: only a thread may release a mutex, and none runs between the two. The loop of
`_thread_update_priority` goes from a thread to the owner of the mutex it waits for,
and so on; `walk` is the thread it has arrived at, `WalkOn` one turn, and no other
action is enabled before `WalkEnds`. A release is `ReleaseOnce`, `ReleaseFree` or
`HandOver`, in which the first waiter becomes the owner before it runs. A call with
timeout 0, a release by who is not the owner, and a take beyond `RT_MUTEX_HOLD_MAX`
return an error and change nothing that is modelled. `InOrder` is an assumption
about the callers: mutexes are nested in one order, without which any mutex
deadlocks. `Runs` is the scheduler: a thread steps only if no thread a mutex made
ready is more urgent.

### LcdDma

The panel has one bus and `drv_lcd.c` one set of counters. `LcdDma` has the LVGL
thread (`pc["gui"]`: the loop of `lv_rt_thread_port.c`, the refresh of an area from
its wait for `flushing` to the swap of the buffers, `disp_flush`), the emulator
(`pc["emu"]`: a game that is started, loaded, draws and shows pictures, ends) and the
completion interrupt (`DmaDone`). Each statement of `lcd_fill_array_async` is an
action, because the emulator preempts LVGL anywhere in it and the interrupt comes
between any two: the firmware is built without optimisation (`rtconfig.py:31`), so
each statement reads the globals anew. `ChangeWidth` and `Address` keep what of the SPI
driver and the HAL decides the outcome: another width sets the bus and the stream up
from reset, which ends a transfer without a callback; a blocking command leaves the bus
ready, unless it finds it locked. `HAL_SPI_Transmit_DMA` is four actions: `Call` takes the
lock of the handle, or is refused by it; `Check` takes the bus, or finds it busy;
`Start` starts the stream; `Unlock` returns. `Count` is the addition to the index. LVGL
may be held up at each of them, by the emulator, whose own calls the lock then refuses
or not, or by threads and handlers that are not modelled, for longer than a transfer
lasts: the completion (`DmaDone`) is not delayed by anything. It calls the same function
and counts what it asked for also if the lock refused it. A transfer is `late` if a
picture was begun since it was asked for.
Pixels are counted in units; `flushed`, `sent`, `own` and `refused` are history.
`nes_emulate_frame` reads its frame counter uninitialised (`nes_main.c:397`), which
decides only whether the first pictures are drawn or skipped; a picture that is
skipped is no step here.

### NesPlayer

The thread of `nesplayer.c` with `nes_load` and the loop of frames of
`nes_emulate_frame` (`player`), LVGL's thread in the list of games or the shell in
`nes_start` (`gui`; both do the same), the mouse and the keyboard in their
interrupts. The player is more urgent, so LVGL steps where the player sleeps
(`PlayerSleeps`): for a message, for the card, at the start of a frame, for the
sound. Sending to a full mailbox fails at once (`Send`, `Fitting`). Messages to
start carry the number of their call for the properties, which the code does not
have: it sends a constant. `uri` is the pointer, `path` what `nes_load` was passed:
`GuiFree` makes both dangle, and opening a file by a string that was freed opens any.
`late` records that the 300 ms a caller waits were over before the last game was,
`over` that a message was refused, `escaped` that escape left its slot in a report of
this game. `spoilt` has the keys of which the events tell too little or too much
(`usbh_hid_template.c:26`): the key moved to another slot, its slot was taken by another
key, or its event was refused. Such a key is in `spoilt` only until its next event.

## Runs

| Run | What it asks | Instance | States (all that can be reached) |
|---|---|---|---|
| `AudioReplay_one` | Samples heard once and in order, FIFO positions, block ownership, stop handshake, and that writes and closes return | one player, two openings, frames of 2 samples, blocks of 4, two blocks, writes of 1, 3 and 8 samples, at most 9 in a stream | 234,033 |
| `DataQueue_shared` | No wake-up lost, nobody sleeps on an item or a place | two pushers, two poppers, 2 slots, mark 0 | 15,968 |
| `DataQueue_timed` | FIFO, flags, lists, reset, timeouts against resumes by a handler | a pusher, a popper, a handler that pushes, peeks and pops, a resetting thread, timeouts of 1 tick, two items, 2 slots, mark 1 | 810,465 |
| `MemPool_shared` | List and count, wake-ups, times, releases inside a timeout, `BlockPool` | three threads, two blocks, waits of 0, 2 ticks and for ever | 303,618 |
| `WavPlayer_two` | Messages, states and uris stay paired; calls that do not overlap return | two callers, two uris | 12,072 |
| `Mutex_nested` | Inheritance along chains, what was lent is given back, timeout against hand-over, lists, and that the most urgent thread is served | four threads of four priorities, two nested mutexes, taken at most twice; two threads time out, and not while they hold a mutex | 11,232 |
| `LcdDma_games` | Pictures start, no buffer in use is drawn in, a flush is answered, and not too soon, the screen comes back | a screen of 3 and areas of 1 or 3 units, transfers of at most 2, pictures of 2, any number of pictures and games | 594,832 |
| `NesPlayer_games` | What was asked for last happens, with the right file; no stop and no key of an earlier game; the display comes back | two games asked for, any number of stops, play_mb of 4, key_mb of 2, one button and escape, reports of one slot | 536,448 |

The other runs (`AudioReplay_drain`, `WavPlayer_ack`, `Mutex_timeout`, `LcdDma_freeze`) each refute
one sentence of the code's documentation; see [Findings](#findings).

Why the bounds are enough. In `AudioReplay` a block is two frames as it is four on
the board; the sizes of the writes make a write end inside a block, at its end, and
span two blocks, so that every relation of frame, block and write occurs; 9 samples
are more than pool and FIFO hold together, so each block is used again and both
halves are refilled; two openings are needed to see what one stream leaves to the
next. `MaxSamples` and `MaxStreams` guard only `Write` and `Open`: they bound what
the player asks, not what the device does. In the queue two slots are the least at
which full, empty and in between differ and the indexes wrap apart; a second thread
on each side is what overtakes a resumed one. In the pool the third thread does
that, and two ticks allow a sleep in two parts. `MaxTicks` only stops a history
counter one above what the property compares. In `WavPlayer` two callers
are one that waits and one that comes; the queue of 2 (10 in the code) is larger
than the one message that `OneMessage` allows.

In `Mutex` two mutexes make a chain of two owners, and with four threads each of
them can have a waiter beside the chain; `HoldMax` 2 (255 in the code) has a take
that is not the last release and one that is refused. A thread times out only while
it holds nothing (`NestedTimed` FALSE), because the finding below would show through
`PriorityEarned` in every other instance, and two of the four do, because with two
mutexes three are what the finding takes. In `LcdDma` a screen takes two transfers and
an area one, as on the board; neither games nor pictures are counted. In `NesPlayer` a mailbox of 4
holds what one caller and the mouse send in the longest sleep of the player and
fills up if the mouse sends more; two slots of the key mailbox make an event wait
and another be refused. In reports of one slot a key gives its slot to another; that
keys move between slots as well is in the theorem, for any number of them, and was seen
to hold with two slots in a longer search of the invariants. `MaxCalls`
bounds what LVGL asks for, the mouse and the keyboard are not bounded.

`CHECK_DEADLOCK FALSE` is set everywhere: a system whose clients have nothing to
do, or have used up the bounds, rests, and the violations that amount to a thread
that sleeps for ever are stated as properties.

## Fairness

* `AudioReplay`: weak fairness of `PlayHalf` and of the handler, which only the
  hardware delays; strong fairness of each client's step inside a call, because a
  half lasts milliseconds and the handler microseconds, so that a ready thread
  runs again and again though never continuously. No fairness makes a client open,
  write or close.
* `DataQueue`, `MemPool`: weak fairness of the removal of each due timer and of
  its `_thread_timeout`, since
  the tick's handler ends; strong fairness of each thread inside a call: threads of
  one priority share the processor in turns (`rt_sched_tick_increase` in
  `scheduler_comm.c`), and the tick interrupts them again and again but never stays.
  Nobody has to call, and nobody has to free a block.
* `WavPlayer`: weak fairness of wav_p, whose file and device operations end;
  strong fairness of the callers, since it leaves them the processor whenever it
  is blocked, which is most of the time a buffer lasts.
* `Mutex`: only the most urgent of the threads that do not wait is owed a step
  (`Urgent`): any other may be kept from the processor by one that computes for ever.
  A thread that was woken runs on, and one that has the processor again and again
  releases what it holds, and for the last time. This is what makes `TopServed` a
  statement about inheritance: without it the owner would never be the most urgent.
* `LcdDma`: weak fairness of the transfer and of the emulator's statements; strong
  fairness of LVGL's, which the emulator lets run in each frame. No game has to end,
  so `ScreenRestored` has as premise that the games are over for good.
* `NesPlayer`: weak fairness of the player, whose files and sounds end. Nobody calls.

## Proofs

All theorems hold for every value of the constants that satisfies the named
assumptions; each is checked by TLC on the instances above as well.

| Module | Theorem | Says |
|---|---|---|
| `AudioReplayProofs` | `TypeCorrect` | Indexes stay in their buffers, only blocks of the pool are queued: one player at a time, as in the next seven, and all sizes |
| | `PoolConserved`, `QueuedNeverChanges`, `QueueHasRoom` | No block lost or owned twice, nor written to while it is queued; a push never waits, if the queue is as long as the pool |
| | `HalvesOwned`, `NeverStartedTwice` | The handler never writes the half being read, the DMA is never started while it runs: blocks of whole frames |
| | `PlayedInOrder`, `LosesAtMostOneHalf` | Each sample is heard once, in the order it was written; of an earlier opening at most one half, first; a stop cuts off at most the half that plays: the same sizes, any writes |
| `DataQueueProofs` | `FlagsAlwaysAgree`, `QueueAlwaysOK` | Flags and indexes agree; who sleeps is in one list, once; a timeout finds its thread suspended and nobody sleeps on an item or a place for which no thread is on its way, except after a resume that failed in the window of the timer: any threads, handlers, sizes and timeouts |
| | `ImplementsFifo` | The queue implements `BoundedFifo` |
| `MemPoolProofs` | `CountAlwaysIsList`, `PoolAlwaysOK` | Count and list agree; who sleeps is in the list, once; a timeout finds its thread suspended and nobody sleeps on a block for which no thread is on its way, with the same exception |
| | `NeverSleepsLonger` | However often it is woken in vain, an allocation sleeps no longer in all than it asked for |
| | `ImplementsPool` | The pool implements `BlockPool` |
| `WavPlayerProofs` | `OneMessageAlways`, `StateAlwaysMatches`, `StartAlwaysFindsIdle` | Any number of callers: one message at most, the state is what the player acts by, a start is taken by the outer loop |
| | `UriAlwaysStable`, `AlwaysPlaysLastUri` | The uri is not freed under fopen; the file that is open is the one asked for last |
| `MutexProofs` | `TypeAlwaysOK`, `WaitersAlwaysListed`, `GrantedIsAlwaysOwner` | Ranges; who is suspended is in the list of the mutex it asked for, once; who runs again is the owner exactly if it did not time out: any threads, mutexes, priorities, nesting and timeouts |
| | `NeverInverted`, `MostUrgentAlwaysFirst` | An owner is as urgent as each of its waiters, along chains of any length; a mutex goes to the most urgent |
| | `PriorityAlwaysEarned`, `OneTimedAlwaysEarned` | Nobody keeps a borrowed priority: any threads, mutexes and chains, as long as threads that wait with a timeout hold nothing and no timeout comes before the clean-up of the last one; always, if one thread only waits with a timeout |
| `LcdDmaProofs` | `TypeAlwaysOK`, `FrameAlwaysStarts`, `GameBufferAlways` | No transfer is longer than the hardware counts; a picture is never refused; the buffer being sent is not drawn in, unless LVGL's call was held up over a picture and sends it late: any sizes and number of pictures |
| | `ReadyAlwaysWhenSent` | A flush that found the bus quiet, met no game and whose first transfer did not end before it was counted is answered when all its pieces were sent, one after the other: areas and transfers of any length |
| `NesPlayerProofs` | `TypeCorrect` | Mailboxes stay in their capacities: any mailboxes, calls and keys, as in the next five |
| | `DisplayAlwaysReturns`, `GameAlwaysOwnsDisplay` | The display is not left off, and is off while a game draws in time |
| | `AlwaysTheRightFile`, `GameAlwaysPlaysOn` | The game that plays is the one that was asked for last; no stop, flag or escape of an earlier one ends it |
| | `JoypadAlwaysFollows` | The joypad holds the buttons pressed in this game and still down, but for a key that changed with its slot or lost an event, and for that one only until its next event: keyboards of any number of slots |
| `SuspListProofs` | (lemmas) | Insertion at a place, removal and repetition in a list of threads |

The arguments:

* `TypeOK` of `AudioReplay` is not inductive: that the read index stays in a block
  needs that it is below the size of the block at the head (`HeadInv`), and that
  what is queued is a block needs that whoever copies has one (`FillInv`).
* `PoolInv` adds to `BlocksConserved` what one player alone guarantees: the lock
  and the filled block are its own, and an open resets `write_index` only when it
  is 0 already (`PlayerInv`). `QueueHasRoom` then counts: queued blocks are
  distinct and the one being pushed is not among them, so fewer than the pool has.
* `HalfInv` is the invariant of the position. `PosInv` says where `pos` stands in
  each phase of an interrupt; to keep it through an under-run one must know that a
  frame takes its samples from one block, which holds because the head is read by
  whole frames (`AlignInv`), only the last block can be short (`SizesInv`), and a
  short one is flushed only when nothing more will be written (`StreamInv`).
* `SoundInv` follows the samples themselves, on top of `HalfInv` and
  `BlocksConserved`. `ContentsInv` chains the blocks: each queued one begins with the
  sample after the last of the one before it, the block being filled after the last
  queued one, and what is accepted next after that. `FramesInv` says what the two
  halves hold while the DMA runs, so that the samples given to the FIFO are those
  heard and those in it. `QuietInv` says that a stop is acknowledged only when the half
  that is played next is silent, so that at most one half holds anything when the
  device is opened again, and `StoppedInv` that nothing of the stream is in the FIFO
  before the start. `HeardInOrder` is then a fact about the half that is played next,
  and `StopLosesAtMostOneHalf` about the one that plays.
* `RingInv` (ring in range, flags agree) is inductive; under it put and take are
  `Append` and `Tail` of the contents, which is the refinement.
* `WaitInv` (in `DataQueueProofs` and `MemPoolProofs`) adds who sleeps. `ListInv`: a
  thread is in a list exactly while it is suspended, once. `TimerInv`: a thread whose timer
  is gone is suspended unless a resume of it failed, and one timer is between its removal
  and its timeout at a time. `NoLostItem`, `NoLostRoom`, `NoLostBlock`: while somebody is suspended there
  are as many threads on their way, or wake-ups lost since, as there are items, places or
  blocks: a resume that fails adds to the second what it does not add to the first. These count
  finite sets; a step moves one thread into or out of them. `BudgetInv` of the pool: what a call has slept and has
  left is no more than it asked for, for which the time measured since the sleep began
  must cover the sleep.
* `PoolInv` of `MemPoolProofs`: the list has no repetition, its length is the
  count, and it is disjoint from what is out; then taking the head and consing a
  block are the two steps of `BlockPool`.
* `IInv` of `WavPlayerProofs`: whoever is past the lock has it; a queued message has
  a sender that waits; an answer that nobody took belongs to a message that was
  handled; a caller about to start knows that the player stopped, and one whose stop
  is queued will know it; what the state was when a message was sent it still is, for
  the messages that depend on it. It holds although callers may wipe out each
  other's acknowledgement: that costs an answer (`WavPlayer_ack`), never the order.
  A message to start is sent only with the state STOPED, thus never while a file is
  open, so the uri stays that of the file.
* `IInv` of `MutexProofs` is `TypeOK` with three parts. `ListInv`: a thread is in a
  list exactly while it waits, and nowhere twice. `GrantInv`: the error of who was
  woken says whether it owns what it wants. `PrioInv`: lists are sorted by current
  priority, the priority of a mutex is at most that of each of its waiters, and that
  of an owner at most that of each mutex it has. While a chain is being walked one
  thread is exempt: the one whose new priority has not been passed on. `WalkOn` moves
  the exemption to the owner and so keeps the three; that a timed out thread may
  leave `mprio` more urgent than its list is why they are inequalities.
* `EarnInv` has the equalities, for `PriorityEarned`. `OwedInv`: each thread is as
  urgent as it was created or as one of its mutexes, and no less than any.
  `StaleInv`: a mutex has the priority of its first waiter, or of the one that was
  first until it timed out and has not cleaned up (`Late`); only the mutex a chain is
  about to reach is exempt. `LateInv`: who is late holds nothing, so nobody's priority
  depends on its own. With two threads late at a mutex `StaleInv` is no invariant: if
  the mutex was handed over after the first timeout and before the second, the clean-up
  of the first finds an owner that owes it nothing, sets the priority of the mutex to
  that of an empty list, and so hides from the release what the second had lent (TLC
  finds it with five threads and two mutexes, of `Mutex_timeout`'s kind). Hence the
  hypothesis `OneLate` of the theorem. The run has two threads that time out, among
  four, with which this cannot happen.
* `FillInv` of `LcdDmaProofs` follows a fill of the emulator: once it has changed the
  width, the bus was reset since LVGL was interrupted, which opens the lock that LVGL may
  hold (`LockInv`: the lock is held by who is inside its call), and until its transfer
  starts no interrupt can come that would start another. `BufInv`: what is being sent for
  the emulator is in the buffer it showed last, which is not the one it draws in, unless
  it was asked for before (`late`).
  `OwnInv` follows a flush that found the bus quiet and met no game: the bus stays
  quiet until its first transfer starts; then the index is what was sent or, once it is
  counted, where the next piece begins, and what was sent, what is being sent and what
  is left are the area, in this order, so the last completion comes when all of it was
  sent. A completion before the count ends the claim (`Uncounted`).
* `CallInv` of `NesPlayerProofs` says what LVGL has done at each place of its call,
  `BackInv` who will switch the display on: a game, a message, or a caller under way.
  `SwitchedInv` says that a game begins only by a message, after which nobody but the
  player switches on.
* `GameInv` follows a call to its game: the numbers in the mailbox ascend, above that
  of the game that plays (`NumberInv`, `OrderInv`); from a start that was sent until
  its game is over or a stop was sent LVGL is between two calls, and the uri is that of
  this start (`UriInv`); so the path and the file of a game that was asked for last are
  its own (`FileInv`).
  `HeldInv`: of every key that is not spoilt, the joypad and the events that wait make
  what the report says; a report is followed slot by slot, and an event of a key ends
  what spoilt it. `QuitInv`: the flag to return and an escape in the mailbox
  are of this game: nothing else ends one that was asked for last.

Each invariant was checked by TLC on the instance of its run before it was proved.

Every safety property a passing run checks is the statement of a theorem. Only
model-checked are the liveness properties (`CallsReturn`, `SleepersServed`,
`SleeperServed`, `LoneCallReturns`, `TopServed`, `FlushAcknowledged`,
`ScreenRestored`, `FollowsLastRequest`), which are out of the prover's reach as all
reasoning under fairness is. `PriorityEarned` is proved where no thread times out before
the last one that did has cleaned up, and false otherwise. Induction over
data is out of reach as well: what is recursive here (`Seq` operators of the community
modules) is used through facts the prover has, never defined anew.

The hypotheses. One player at a time (`OnePlayerAssumption`), as said under
[AudioReplay](#audioreplay). Blocks of whole frames are the board's (4096
and 1024 bytes). The queue of 4 is longer than the pool of 2. `OneLate` and `~NestedTimed`, for `PriorityAlwaysEarned`: the one
mutex that the application waits for with a timeout is that of a FatFs volume (3 s), by
any thread that reads the card; the theorem speaks of it while at most one of them has
timed out and not run again.

## Findings

| Run | Violated | What the code does |
|---|---|---|
| `AudioReplay_drain` | `StopAfterRemainingData` | Closing "waits for the remaining data transfer to complete" (`dev_audio.c:157`), but the interrupt acknowledges as soon as the queue is empty, when its last frame has only begun to play |
| `WavPlayer_ack` | `CallReturns` | A call clears the completion another caller waits on, before it takes the lock |
| `Mutex_timeout` | `PriorityReturned` | Three threads time out while one owns the mutex; their clean-ups, late and in another order than the timeouts, leave the owner with the priority of the last for ever |
| `LcdDma_freeze` | `FlushReady` | LVGL is held up in the call that started a transfer, after the stream runs and before the lock opens; the transfer ends, the handler's call for the next piece is refused by the lock, the handler counts it all the same, and nothing runs any more: the flush that "has to be" answered (`lv_port_disp.c:49`) never is |

In `Mutex_timeout` the most urgent two of three waiters time out. The clean-up of
the first lowers the owner to the priority of the third. The third times out as well;
then the clean-up of the second sees an owner with another priority than its own and
concludes that it lent nothing, but sets the priority of the mutex to that of an empty
list. The release compares that with the owner's and lowers nothing, and the clean-up
of the third finds no owner. The comment at `ipc.c:1484` takes the last case for
harmless.

In `LcdDma_freeze` no game is ever started; it takes a screen, which is more than one
transfer, and any thread more urgent than LVGL's that keeps the processor for longer
than a transfer lasts. `FlushAcknowledged` says that a lock that refused a transfer is
the only reason, besides pictures without end, why a flush is not answered.

Known of two players that overlap, and left out of the model with them: increments and
decrements of the reference count, which no lock protects, are lost; an open during
another's last close is undone by it; two first writes can both start the DMA, which
ends in `Error_Handler`; a write between the push and the clear of a flush fills the
block that is queued; configuring the device stops a transfer another player sleeps on;
a WAV file that does not open closes the device although it was not opened, which takes
the reference of another player.

With a sample size other than 8 or 16 bits nothing is started, the device counts as
activated, and the third block written blocks its thread for ever (`Formats` with one
whose `bits` is FALSE; `CallsReturn` fails). A handler that resumes a thread between
the removal of its timer and its timeout wakes nobody, and one that does so twice stops
the machine in an assertion (`thread.c:163`): both are in `DataQueue` and `MemPool`,
while on the board only threads without a time limit wait for what a handler gives. A
pusher of a data queue that is overtaken after it was resumed waits for its whole
timeout again (`dataqueue.c:133`). The low water mark is compared with `<=` where its
documentation says "less than". A pause sent as a WAV file ends leaves the state PAUSED
with nothing open, until the next play.

The display and the games: the transfer of a picture that completes between LVGL's
mark and its fill acknowledges the flush before it began, so LVGL may draw in the
buffer that is being sent; `ReadyWhenSent` is therefore about flushes that meet no
game. If LVGL is kept from running between the start of a transfer and its count and
the transfer completes in that time, the first piece is sent twice (`ReadyWhenSent`
without `Uncounted`). A stop sent before the player has taken a message to start, while
nothing is played, is dropped: `FollowsLastRequest` speaks of messages that were
delivered and does not see it. With
callers in LVGL and in the shell at once, a message to start may be taken by the
emulator that runs, which ignores it. A keyboard that moves a key to another slot when
one before it is released leaves that button pressed until its next event. A stop that a full mailbox
refuses while a message to start waits lets LVGL free and replace the uri the player
is about to open: the game of the old message plays the new file (`RightFile` without
its `~over`, with a mailbox of one and three calls); and a game that is replaced while
it loads may open the file of the next, of which `RightFile` says nothing.

## What is left out

* Two players at once on the sound device, see [Findings](#findings).
* The size of a write is at most what the pool holds: a longer first write would wait
  for blocks that nothing frees before the DMA starts. No client does that.
* The record half of `dev_audio.c` (the board registers a write-only device), the
  capability queries and the mixer, the arithmetic of sample rates.
* `rt_data_queue_deinit`, `rt_mp_detach`, `rt_mp_delete`, the event callback of the
  queue: unused here. Failures of an allocation at start-up.
* Waits on a completion with a timeout: neither user makes them.
* Of `ipc.c`: semaphores, events, waits to send, detach and delete, and the priority
  ceiling, which nothing here sets. In `AudioReplay` and `WavPlayer` a mutex is an
  owner: what `GrantedIsOwner` and `WaitersListed` say of it. The message queue is a
  bounded queue.
* A failure of a mutex's wait other than by its timeout (signals), and changes of a
  thread's own priority.
* The sound of a game inside `NesPlayer` (a player of `AudioReplay`), its pictures
  (`LcdDma`), and the emulated machine, a computation over 64 KB of state.
* Several areas in one refresh of LVGL, which repeat the loop that is modelled, and
  errors of the SPI bus, which nothing handles.
* The card's mount: one loop that sets one flag, once, which others only read.
* The rest of the repository, with the reason for each part in `PROJECT.json`: vendored
  stacks (LVGL's drawing, FreeType, CherryUSB, lwIP, FatFs, the HAL), generated screens
  and fonts, and code that is not compiled. These are nearly all of its lines.

## Plan

1. Done: `AudioReplay`, `DataQueue`, `MemPool`, `WavPlayer`, `Mutex`, `LcdDma`,
   `NesPlayer`, and proofs of every safety property the runs check.
2. Next for `AudioReplay`: players that overlap, with the count, the flush and the tests
   outside the lock cut into their instructions, and the properties that survive them;
   `AudioReplay` as an implementation of a stream that loses only its end.
3. Modules next: several callers of the games, semaphores and the work queue if the
   application comes to use them.
