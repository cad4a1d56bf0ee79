----------------------------- MODULE DataQueue -----------------------------
(***************************************************************************)
(* rt_data_queue (dataqueue.c): a ring of data items with two lists of     *)
(* suspended threads.  What runs under the spin lock is one step, since on *)
(* one core the lock is the interrupt mask; between two such stretches any *)
(* thread, handler or tick may run.  The tick's handler takes two steps for  *)
(* a thread timer that is due: it removes the timer, lets the interrupts in, *)
(* and then times the thread out.  Handlers are more urgent than the tick    *)
(* (as that of the audio DMA is) and may run between any two of its steps,   *)
(* a thread only when it is done with all timers.                            *)
(*                                                                         *)
(* evt_notify is left out: it is RT_NULL for the queue of the audio device.*)
(***************************************************************************)
EXTENDS Integers, FiniteSets, SuspList

CONSTANTS
  Pushers, Poppers,  \* the threads and handlers that push and that pop
  Peekers,           \* those that peek
  Resetters,         \* the threads that reset the queue
  Handlers,          \* interrupt handlers: run to the end, never wait
  Items,             \* what is queued
  Size,              \* queue->size
  Lwm,               \* queue->lwm
  Timeouts,          \* timeouts in ticks: 0 RT_WAITING_NO, -1 RT_WAITING_FOREVER
  NoItem             \* nothing popped yet

Threads == Pushers \cup Poppers \cup Peekers \cup Resetters

ASSUME QueueAssumption ==
  /\ Size \in Nat \ {0}
  /\ Lwm \in 0 .. Size - 1
  /\ Timeouts \subseteq Nat \cup {-1}
  /\ 0 \in Timeouts
  /\ IsFiniteSet(Threads) /\ Handlers \cap Resetters = {}

VARIABLES
  slot, get, put, isEmpty, isFull,  \* the ring
  pushList, popList,                \* the suspended threads, FIFO
  pc, got,                          \* a thread, and what it popped last
  timeout, rem, error,              \* its timeout, thread timer, thread->error
  fired, masked,                    \* the thread whose timer is off its list and which
                                    \* is not timed out yet, and whether its
                                    \* sched_flag_ttmr_set is cleared
  halted,                           \* an assertion has failed with interrupts masked
  lostItem, lostRoom                \* history: wake-ups spent on a fired thread since
                                    \* a list or the queue was last empty (full)

ringVars   == <<slot, get, put, isEmpty, isFull>>
waitVars   == <<timeout, rem, error>>
tickVars   == <<fired, masked, halted>>
histVars   == <<lostItem, lostRoom>>
vars == <<ringVars, pushList, popList, pc, got, waitVars, tickVars, histVars>>

\* a wrong form of Wrap: one too late
WrapLate(i) == IF i > Size THEN i - Size ELSE i

\* put_index and get_index start again at 0
Wrap(i) == IF i >= Size THEN i - Size ELSE i

\* rt_data_queue_len
Count == IF isEmpty THEN 0
         ELSE IF put > get THEN put - get ELSE Size + put - get

PCs == {"idle", "push", "pushing", "pushWoken", "pop", "popping", "popWoken",
        "peek", "reset", "resumePop", "resumePush"}
Suspended == {"pushing", "popping"}
Critical  == {"resumePop", "resumePush"}     \* between rt_enter and rt_exit_critical

\* The thread timer is due, and the tick's handler has not got to it yet.
Due(t) == pc[t] \in Suspended /\ timeout[t] > 0 /\ rem[t] = 0
TickDone == fired = {} /\ \A t \in Threads : ~Due(t)

\* A handler that has begun excludes the others; the tick's handler and a thread
\* with the scheduler locked exclude the threads.
Runs(t) ==
  /\ ~halted
  /\ \A h \in Handlers : pc[h] = "idle" \/ h = t
  /\ t \in Handlers \/ (TickDone /\ \A u \in Threads \ {t} : pc[u] \notin Critical)

Init ==
  /\ slot = [i \in 0 .. Size - 1 |-> NoItem]
  /\ get = 0 /\ put = 0 /\ isEmpty = TRUE /\ isFull = FALSE
  /\ pushList = <<>> /\ popList = <<>>
  /\ pc = [t \in Threads |-> "idle"]
  /\ got = [t \in Threads |-> NoItem]
  /\ timeout = [t \in Threads |-> 0] /\ rem = [t \in Threads |-> 0]
  /\ error = [t \in Threads |-> "ok"]
  /\ fired = {} /\ masked = {} /\ halted = FALSE
  /\ lostItem = 0 /\ lostRoom = 0

Goto(t, label) == pc' = [pc EXCEPT ![t] = label]

-----------------------------------------------------------------------------
(* Calls. *)

\* Only a thread may wait (RT_DEBUG_SCHEDULER_AVAILABLE).
CallTimeout(t) ==
  /\ \E n \in (IF t \in Handlers THEN {0} ELSE Timeouts) :
       timeout' = [timeout EXCEPT ![t] = n]
  /\ UNCHANGED <<rem, error>>

CallPush(t) ==
  /\ t \in Pushers /\ pc[t] = "idle" /\ Runs(t)
  /\ CallTimeout(t) /\ Goto(t, "push")
  /\ UNCHANGED <<ringVars, pushList, popList, got, tickVars, histVars>>

CallPop(t) ==
  /\ t \in Poppers /\ pc[t] = "idle" /\ Runs(t)
  /\ CallTimeout(t) /\ Goto(t, "pop")
  /\ UNCHANGED <<ringVars, pushList, popList, got, tickVars, histVars>>

\* At the head of the loop under the lock: the first time, or resumed with no
\* error.
MayPush(t) == pc[t] = "push" \/ (pc[t] = "pushWoken" /\ error[t] = "ok")
MayPop(t)  == pc[t] = "pop"  \/ (pc[t] = "popWoken"  /\ error[t] = "ok")

\* rt_thread_suspend_to_list; the thread timer is set to the whole timeout,
\* the second time as well as the first.
Suspend(t) ==
  /\ error' = [error EXCEPT ![t] = "ok"]
  /\ rem' = [rem EXCEPT ![t] = IF timeout[t] > 0 THEN timeout[t] ELSE 0]
  /\ UNCHANGED <<timeout>>

\* The timer of a fired thread cannot be stopped any more; the attempt fails, and
\* clears the flag that the timer is set, so that there is no second one.
Unstoppable(u) == u \in fired \ masked

\* rt_susp_list_dequeue: the head of the list is made ready and its timer stopped,
\* or stays where it is when that fails.
Woken(list) == {u \in Threads : list # <<>> /\ u = Head(list) /\ ~Unstoppable(u)}
Missed(list) == {u \in Threads : list # <<>> /\ u = Head(list) /\ Unstoppable(u)}
Rest(list)  == IF Woken(list) = {} THEN list ELSE Tail(list)

\* A wake-up that is missed, for an item or for a place in the queue, is counted
\* until nobody sleeps on the list or there is nothing left to sleep on.
Reckoned(n, list, settled) ==
  IF settled THEN 0 ELSE IF Missed(list) # {} /\ n < Size THEN n + 1 ELSE n

\* What a call that resumes the head of a list does to the threads; t itself
\* leaves its call.
Resume(t, list, label) ==
  /\ pc' = [u \in Threads |-> IF u = t THEN "idle"
                              ELSE IF u \in Woken(list) THEN label
                              ELSE pc[u]]
  /\ rem' = [u \in Threads |-> IF u \in Woken(list) THEN 0 ELSE rem[u]]
  /\ masked' = masked \cup Missed(list)
  /\ UNCHANGED <<fired, halted>>

-----------------------------------------------------------------------------
(* Wrong forms of definitions below, each a slip the code could have: a run  *)
(* that checks a property must find it broken when one of them takes the     *)
(* place of the definition it is named after.                                *)

\* the full flag is not set
PutUnmarked(i) ==
  /\ slot' = [slot EXCEPT ![put] = i]
  /\ put' = Wrap(put + 1)
  /\ isEmpty' = FALSE
  /\ UNCHANGED <<isFull, get>>

\* The item goes in at put_index.
Put(i) ==
  /\ slot' = [slot EXCEPT ![put] = i]
  /\ put' = Wrap(put + 1)
  /\ isEmpty' = FALSE
  /\ isFull' = (isFull \/ Wrap(put + 1) = get)
  /\ UNCHANGED get

\* a push wakes a popper only when the queue was empty
StoreWakesOnEmpty(t) ==
  /\ MayPush(t) /\ ~isFull /\ Runs(t)
  /\ \E i \in Items : Put(i)
  /\ Resume(t, IF isEmpty THEN popList ELSE <<>>, "popWoken")
  /\ popList' = IF isEmpty THEN Rest(popList) ELSE popList
  /\ lostItem' = Reckoned(lostItem, popList, popList' = <<>>)
  /\ lostRoom' = Reckoned(lostRoom, <<>>, Count' > Lwm)
  /\ UNCHANGED <<pushList, got, timeout, error>>

\* the timed out thread stays in its list
StillListed(list, t) == list

-----------------------------------------------------------------------------
(* rt_data_queue_push. *)

Store(t) ==
  /\ MayPush(t) /\ ~isFull /\ Runs(t)
  /\ \E i \in Items : Put(i)
  /\ Resume(t, popList, "popWoken")
  /\ popList' = Rest(popList)
  /\ lostItem' = Reckoned(lostItem, popList, popList' = <<>>)
  /\ lostRoom' = Reckoned(lostRoom, <<>>, Count' > Lwm)
  /\ UNCHANGED <<pushList, got, timeout, error>>

SuspendPush(t) ==
  /\ MayPush(t) /\ isFull /\ timeout[t] # 0 /\ Runs(t)
  /\ Suspend(t)
  /\ pushList' = Append(pushList, t)
  /\ Goto(t, "pushing")
  /\ UNCHANGED <<ringVars, popList, got, tickVars, histVars>>

\* -RT_ETIMEOUT for a caller that does not wait; a resumed thread returns the
\* error it was resumed with.
PushFails(t) ==
  /\ \/ MayPush(t) /\ isFull /\ timeout[t] = 0
     \/ pc[t] = "pushWoken" /\ error[t] # "ok"
  /\ Runs(t)
  /\ Goto(t, "idle")
  /\ UNCHANGED <<ringVars, pushList, popList, got, waitVars, tickVars, histVars>>

-----------------------------------------------------------------------------
(* rt_data_queue_pop and rt_data_queue_peek. *)

\* The length at which a pop resumes a pusher.
AtLwm(n) == n <= Lwm

Take(t) ==
  /\ MayPop(t) /\ ~isEmpty /\ Runs(t)
  /\ got' = [got EXCEPT ![t] = slot[get]]
  /\ get' = Wrap(get + 1)
  /\ isFull' = FALSE
  /\ isEmpty' = (put = Wrap(get + 1))
  /\ UNCHANGED <<slot, put>>
  /\ LET woken == IF AtLwm(Count') THEN pushList ELSE <<>>
     IN /\ Resume(t, woken, "pushWoken")
        /\ pushList' = IF AtLwm(Count') THEN Rest(pushList) ELSE pushList
        /\ lostRoom' = Reckoned(lostRoom, woken, pushList' = <<>>)
  /\ lostItem' = Reckoned(lostItem, <<>>, isEmpty')
  /\ UNCHANGED <<popList, timeout, error>>

SuspendPop(t) ==
  /\ MayPop(t) /\ isEmpty /\ timeout[t] # 0 /\ Runs(t)
  /\ Suspend(t)
  /\ popList' = Append(popList, t)
  /\ Goto(t, "popping")
  /\ UNCHANGED <<ringVars, pushList, got, tickVars, histVars>>

PopFails(t) ==
  /\ \/ MayPop(t) /\ isEmpty /\ timeout[t] = 0
     \/ pc[t] = "popWoken" /\ error[t] # "ok"
  /\ Runs(t)
  /\ Goto(t, "idle")
  /\ UNCHANGED <<ringVars, pushList, popList, got, waitVars, tickVars, histVars>>

\* is_empty is read before the lock is taken.
CallPeek(t) ==
  /\ t \in Peekers /\ pc[t] = "idle" /\ Runs(t)
  /\ Goto(t, IF isEmpty THEN "idle" ELSE "peek")
  /\ UNCHANGED <<ringVars, pushList, popList, got, waitVars, tickVars, histVars>>

Peek(t) ==
  /\ pc[t] = "peek" /\ Runs(t)
  /\ Goto(t, "idle")
  /\ UNCHANGED <<ringVars, pushList, popList, got, waitVars, tickVars, histVars>>

-----------------------------------------------------------------------------
(* rt_data_queue_reset. *)

Reset(t) ==
  /\ t \in Resetters /\ pc[t] = "idle" /\ Runs(t)
  /\ get' = 0 /\ put' = 0 /\ isEmpty' = TRUE /\ isFull' = FALSE
  /\ Goto(t, "reset")
  /\ lostItem' = 0
  /\ UNCHANGED <<slot, pushList, popList, got, waitVars, tickVars, lostRoom>>

EnterCritical(t) ==
  /\ pc[t] = "reset" /\ Runs(t)
  /\ Goto(t, "resumePop")
  /\ UNCHANGED <<ringVars, pushList, popList, got, waitVars, tickVars, histVars>>

\* One round of rt_susp_list_resume_all_irq: the head of the list is resumed
\* with RT_ERROR, the lock released in between.  A thread does it, so that no timer
\* has fired.
ResumeWithError(t, list, label, after) ==
  LET u == Head(list)
  IN IF list = <<>> THEN Goto(t, after) /\ UNCHANGED <<rem, error>>
     ELSE /\ Goto(u, label)
          /\ error' = [error EXCEPT ![u] = "error"]
          /\ rem' = [rem EXCEPT ![u] = 0]

ResumePop(t) ==
  /\ pc[t] = "resumePop" /\ Runs(t)
  /\ ResumeWithError(t, popList, "popWoken", "resumePush")
  /\ popList' = Rest(popList)
  /\ UNCHANGED <<ringVars, pushList, got, timeout, tickVars, histVars>>

ResumePush(t) ==
  /\ pc[t] = "resumePush" /\ Runs(t)
  /\ ResumeWithError(t, pushList, "pushWoken", "idle")
  /\ pushList' = Rest(pushList)
  /\ lostRoom' = Reckoned(lostRoom, <<>>, pushList' = <<>>)
  /\ UNCHANGED <<ringVars, popList, got, timeout, tickVars, lostItem>>

-----------------------------------------------------------------------------
(* The system tick. *)

\* No handler has begun; the tick's handler waits for them.
TickRuns == ~halted /\ \A h \in Handlers : pc[h] = "idle"

\* Thread timers count down.
Tick ==
  /\ TickRuns /\ TickDone /\ \E t \in Threads : rem[t] > 0
  /\ rem' = [t \in Threads |-> IF rem[t] > 0 THEN rem[t] - 1 ELSE 0]
  /\ UNCHANGED <<ringVars, pushList, popList, pc, got, timeout, error, tickVars, histVars>>

\* _timer_check takes the timer off its list and lets the interrupts in.
Expire(t) ==
  /\ TickRuns /\ fired = {} /\ Due(t)
  /\ fired' = {t} /\ masked' = {}
  /\ UNCHANGED <<ringVars, pushList, popList, pc, got, waitVars, halted, histVars>>

Unlisted(list, t) == Removed(list, t)

\* _thread_timeout takes the thread off its list and gives it the error.
ThreadTimeout(t) ==
  /\ TickRuns /\ t \in fired
  /\ error' = [error EXCEPT ![t] = "timeout"]
  /\ \/ /\ pc[t] = "pushing" /\ Goto(t, "pushWoken")
        /\ pushList' = Unlisted(pushList, t) /\ UNCHANGED popList
     \/ /\ pc[t] = "popping" /\ Goto(t, "popWoken")
        /\ popList' = Unlisted(popList, t) /\ UNCHANGED pushList
  /\ fired' = {} /\ masked' = {}
  /\ lostItem' = Reckoned(lostItem, <<>>, popList' = <<>>)
  /\ lostRoom' = Reckoned(lostRoom, <<>>, pushList' = <<>>)
  /\ UNCHANGED <<ringVars, got, timeout, rem, halted>>

\* It expects the thread to be suspended, and never returns when it is not.
TimeoutAsserts(t) ==
  /\ TickRuns /\ t \in fired /\ pc[t] \notin Suspended
  /\ halted' = TRUE
  /\ UNCHANGED <<ringVars, pushList, popList, pc, got, waitVars, fired, masked, histVars>>

-----------------------------------------------------------------------------
\* What a thread does inside a call, until it is suspended or returns.
Step(t) ==
  \/ Store(t) \/ SuspendPush(t) \/ PushFails(t)
  \/ Take(t) \/ SuspendPop(t) \/ PopFails(t)
  \/ Peek(t)
  \/ EnterCritical(t) \/ ResumePop(t) \/ ResumePush(t)

Call(t) == CallPush(t) \/ CallPop(t) \/ CallPeek(t) \/ Reset(t)

\* The two steps of the tick's handler for a timer that is due.
Timer(t) == Expire(t) \/ ThreadTimeout(t) \/ TimeoutAsserts(t)

Next == Tick \/ \E t \in Threads : Call(t) \/ Step(t) \/ Timer(t)

Spec == Init /\ [][Next]_vars

\* Threads of one priority take turns (the round robin of rt_sched_tick), so one
\* that is ready inside a call goes on; the tick's handler, which interrupts them
\* again and again, ends; nobody has to make another call.
FairSpec == Spec /\ \A t \in Threads : SF_vars(Step(t)) /\ WF_vars(Timer(t))

-----------------------------------------------------------------------------
(* Properties. *)

IsListOf(list, label) ==
  /\ \A i \in 1 .. Len(list) : list[i] \in Threads /\ pc[list[i]] = label
  /\ \A t \in Threads : pc[t] = label => \E i \in 1 .. Len(list) : list[i] = t
  /\ \A i, j \in 1 .. Len(list) : list[i] = list[j] => i = j

RingOK ==
  /\ slot \in [0 .. Size - 1 -> Items \cup {NoItem}]
  /\ get \in 0 .. Size - 1 /\ put \in 0 .. Size - 1
  /\ isEmpty \in BOOLEAN /\ isFull \in BOOLEAN

CallsOK ==
  /\ pc \in [Threads -> PCs]
  /\ got \in [Threads -> Items \cup {NoItem}]
  /\ timeout \in [Threads -> Timeouts] /\ rem \in [Threads -> Nat]
  /\ error \in [Threads -> {"ok", "timeout", "error"}]

TimersOK ==
  /\ fired \subseteq Threads /\ masked \subseteq fired /\ halted \in BOOLEAN
  /\ lostItem \in 0 .. Size /\ lostRoom \in 0 .. Size

\* Every variable stays in its range.
TypeOK ==
  /\ RingOK /\ CallsOK /\ TimersOK
  /\ pushList \in Seq(Threads) /\ popList \in Seq(Threads)

\* The two flags and the two indexes never disagree: equal indexes mean empty or
\* full, and exactly one of them; a push never overwrites what was not popped.
FlagsAgree ==
  /\ ~(isEmpty /\ isFull)
  /\ (get = put) <=> (isEmpty \/ isFull)

\* A thread is in the list it sleeps on, once, and in no other: a timeout, a
\* resume and a reset that race for the same thread take it off exactly once.
ListsMatchThreads == IsListOf(pushList, "pushing") /\ IsListOf(popList, "popping")

WokenPoppers == {t \in Threads : pc[t] = "popWoken" /\ error[t] = "ok"}
WokenPushers == {t \in Threads : pc[t] = "pushWoken" /\ error[t] = "ok"}
Resetting    == \E t \in Threads : pc[t] \in {"reset"} \cup Critical

\* No popper sleeps on an item: while one is suspended, for every item in the
\* queue a resumed popper is on its way, also when a third one took the item it
\* was resumed for, or another timed out.  Only a wake-up that came for a thread
\* whose timer had just been removed is lost.
NoLostItem == popList # <<>> => Count <= Cardinality(WokenPoppers) + lostItem

\* No pusher sleeps at the low water mark: while one is suspended, for every place
\* below the mark a resumed pusher is on its way, or its wake-up was lost so.
NoLostRoom ==
  pushList # <<>> /\ ~Resetting =>
    Lwm + 1 - Count <= Cardinality(WokenPushers) + lostRoom

\* A thread whose timer is removed is still suspended when it is timed out, as
\* _thread_timeout asserts, unless a first resume of it failed.
TimeoutFindsSuspended == \A t \in fired \ masked : pc[t] \in Suspended

\* In every interleaving of pushes, pops, ticks and resets, those of a handler between
\* the removal of a timer and the timeout included: indexes stay in the ring and agree
\* with the flags, who sleeps is in one list, a timeout finds its thread suspended but
\* after a failed resume, and nobody sleeps on an item or a place for which no other
\* thread was resumed and no resume failed.
QueueInv ==
  /\ TypeOK /\ FlagsAgree /\ ListsMatchThreads /\ NoLostItem /\ NoLostRoom
  /\ TimeoutFindsSuspended

Fifo == INSTANCE BoundedFifo WITH
          buffer <- [i \in 1 .. Count |-> slot[Wrap(get + i - 1)]]

\* The ring with its flags, lists and timeouts is the bounded FIFO it promises
\* to be: every step puts one item, takes the oldest, clears it, or nothing.
IsFifo == Fifo!Spec

\* A suspended popper does not stay so while there is something to pop.
PopperServed == popList # <<>> /\ ~isEmpty ~> popList = <<>> \/ isEmpty

\* A suspended pusher does not stay so while the queue is at its low water mark.
PusherServed == pushList # <<>> /\ Count <= Lwm ~> pushList = <<>> \/ Count > Lwm

\* Nobody sleeps on what is there, on either side of the queue.
SleepersServed == PopperServed /\ PusherServed
=============================================================================
