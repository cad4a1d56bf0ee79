------------------------------ MODULE MemPool ------------------------------
(***************************************************************************)
(* rt_mempool (mempool.c): a list of free blocks of one size and a list of *)
(* the threads suspended for one.  rt_mp_free makes one thread ready; it   *)
(* does not hand it the block, which anybody may take before it runs.      *)
(* What runs under the spin lock is one step.  The tick's handler takes two *)
(* for a timer that is due: it removes the timer, lets the interrupts in,  *)
(* and then times the thread out.  Handlers that release a block may run   *)
(* between any two of its steps, a thread when it is done with all timers. *)
(***************************************************************************)
EXTENDS Integers, FiniteSets, SuspList

CONSTANTS
  Threads,     \* that allocate
  FirstList,   \* the blocks in the order rt_mp_init links them
  Times,       \* waiting times: 0 RT_WAITING_NO, -1 RT_WAITING_FOREVER, ticks
  MaxTicks     \* bound: ticks of a sleep, and of suspension in a call, counted

Blocks == {FirstList[i] : i \in 1 .. Len(FirstList)}

ASSUME PoolAssumption ==
  /\ IsFiniteSet(Threads)
  /\ FirstList \in Seq(Blocks)
  /\ \A i, j \in 1 .. Len(FirstList) : FirstList[i] = FirstList[j] => i = j
  /\ Times \subseteq Nat \cup {-1} /\ 0 \in Times
  /\ MaxTicks \in Nat
  /\ \A n \in Times : n <= MaxTicks

VARIABLES
  list, freeCount,   \* mp->block_list, mp->block_free_count
  held,              \* the blocks that are out
  suspended,         \* mp->suspend_thread, FIFO
  pc, time,          \* a thread in rt_mp_alloc, and its time left
  rem, error,        \* its thread timer and thread->error
  since,             \* rt_tick_get() - before_sleep
  fired, masked,     \* the thread whose timer is off its list and which is not timed
                     \* out yet, and whether its sched_flag_ttmr_set is cleared
  halted,            \* an assertion has failed with interrupts masked
  asked, slept,      \* history: the time it called with, ticks suspended since,
  lost               \* and wake-ups spent on a fired thread, while anybody sleeps
                     \* and a block is free

poolVars == <<list, freeCount, held>>
waitVars == <<time, rem, error, since>>
tickVars == <<fired, masked, halted>>
histVars == <<asked, slept>>
vars == <<poolVars, suspended, pc, waitVars, tickVars, histVars, lost>>

\* "again" is "alloc" after a sleep.
PCs == {"idle", "alloc", "sleeping", "woken", "again"}

Init ==
  /\ list = FirstList /\ freeCount = Len(FirstList) /\ held = {}
  /\ suspended = <<>>
  /\ pc = [t \in Threads |-> "idle"]
  /\ time = [t \in Threads |-> 0] /\ rem = [t \in Threads |-> 0]
  /\ error = [t \in Threads |-> "ok"] /\ since = [t \in Threads |-> 0]
  /\ fired = {} /\ masked = {} /\ halted = FALSE
  /\ asked = [t \in Threads |-> 0] /\ slept = [t \in Threads |-> 0] /\ lost = 0

Goto(t, label) == pc' = [pc EXCEPT ![t] = label]
AtLoop(t) == pc[t] \in {"alloc", "again"}

\* The thread timer is due, and the tick's handler has not got to it yet.
Due(t) == pc[t] = "sleeping" /\ time[t] > 0 /\ rem[t] = 0

\* It is done with all timers, as a thread that runs shows.
TickDone == ~halted /\ fired = {} /\ \A t \in Threads : ~Due(t)

-----------------------------------------------------------------------------
(* Wrong forms of definitions below, each a slip the code could have: a run  *)
(* that checks a property must find it broken when one of them takes the     *)
(* place of the definition it is named after.                                *)

\* the whole time again after each sleep
TimeAgain(t) == time[t]

\* a free block is given out and stays in the list
ListKept == list

\* a release wakes nobody
NobodyWoken == FALSE

\* a timed out thread stays in the list of the suspended
StillListed(t) == suspended

-----------------------------------------------------------------------------
(* rt_mp_alloc. *)

CallAlloc(t) ==
  /\ pc[t] = "idle" /\ TickDone
  /\ \E n \in Times : /\ time' = [time EXCEPT ![t] = n]
                      /\ asked' = [asked EXCEPT ![t] = n]
  /\ slept' = [slept EXCEPT ![t] = 0]
  /\ Goto(t, "alloc")
  /\ UNCHANGED <<poolVars, suspended, rem, error, since, tickVars, lost>>

\* The call ends, and its locals with it; nobody looks at the error again.
Return(t) ==
  /\ Goto(t, "idle")
  /\ time' = [time EXCEPT ![t] = 0] /\ since' = [since EXCEPT ![t] = 0]
  /\ asked' = [asked EXCEPT ![t] = 0] /\ slept' = [slept EXCEPT ![t] = 0]
  /\ error' = [error EXCEPT ![t] = "ok"]
  /\ UNCHANGED rem

ListRest == Tail(list)

Take(t) ==
  /\ AtLoop(t) /\ freeCount # 0 /\ TickDone
  /\ held' = held \cup {Head(list)}
  /\ list' = ListRest
  /\ freeCount' = freeCount - 1
  /\ Return(t)
  /\ lost' = IF freeCount' = 0 THEN 0 ELSE lost
  /\ UNCHANGED <<suspended, tickVars>>

\* -RT_ETIMEOUT without waiting, or with no time left.
Refuse(t) ==
  /\ AtLoop(t) /\ freeCount = 0 /\ time[t] = 0 /\ TickDone
  /\ Return(t)
  /\ UNCHANGED <<poolVars, suspended, tickVars, lost>>

Sleep(t) ==
  /\ AtLoop(t) /\ freeCount = 0 /\ time[t] # 0 /\ TickDone
  /\ error' = [error EXCEPT ![t] = "ok"]
  /\ suspended' = Append(suspended, t)
  /\ rem' = [rem EXCEPT ![t] = IF time[t] > 0 THEN time[t] ELSE 0]
  /\ since' = [since EXCEPT ![t] = 0]
  /\ Goto(t, "sleeping")
  /\ UNCHANGED <<poolVars, time, tickVars, histVars, lost>>

\* What is left of the time after a sleep.
TimeLeft(t) == IF time[t] <= 0 THEN time[t]
               ELSE IF since[t] >= time[t] THEN 0 ELSE time[t] - since[t]

\* Running again: with an error it gives up, otherwise it goes round the loop
\* with the time it has left.  The lock is not held yet.
Woken(t) ==
  /\ pc[t] = "woken" /\ TickDone
  /\ \/ /\ error[t] # "ok"
        /\ Return(t)
     \/ /\ error[t] = "ok"
        /\ Goto(t, "again") /\ time' = [time EXCEPT ![t] = TimeLeft(t)]
        /\ since' = [since EXCEPT ![t] = 0]
        /\ UNCHANGED <<rem, error, histVars>>
  /\ UNCHANGED <<poolVars, suspended, tickVars, lost>>

-----------------------------------------------------------------------------
(* rt_mp_free, from a thread or a handler. *)

CountMore == freeCount + 1
HeldLess(b) == held \ {b}
Wakes == suspended # <<>>

\* The head of the list is made ready and its timer stopped.
MakeReady(t) ==
  /\ suspended' = Tail(suspended)
  /\ error' = [error EXCEPT ![t] = "ok"]
  /\ rem' = [rem EXCEPT ![t] = 0]
  /\ Goto(t, "woken")
  /\ lost' = IF suspended' = <<>> THEN 0 ELSE lost
  /\ UNCHANGED masked

\* The timer of a fired thread cannot be stopped any more: it stays listed, and the
\* flag that its timer is set is cleared, so that a second attempt does not fail.
Unstoppable(t) == t \in fired \ masked
MissWakeUp(t) ==
  /\ masked' = masked \cup {t}
  /\ lost' = IF lost < Len(FirstList) THEN lost + 1 ELSE lost
  /\ UNCHANGED <<suspended, error, rem, pc>>

Free(b) ==
  /\ b \in held /\ ~halted
  /\ held' = HeldLess(b)
  /\ list' = <<b>> \o list
  /\ freeCount' = CountMore
  /\ \/ /\ Wakes /\ ~Unstoppable(Head(suspended))
        /\ MakeReady(Head(suspended))
     \/ /\ Wakes /\ Unstoppable(Head(suspended))
        /\ MissWakeUp(Head(suspended))
     \/ ~Wakes /\ UNCHANGED <<suspended, error, rem, pc, masked, lost>>
  /\ UNCHANGED <<time, since, fired, halted, histVars>>

-----------------------------------------------------------------------------
(* The system tick. *)

Up(n) == IF n < MaxTicks THEN n + 1 ELSE n

\* A tick that concerns somebody: thread timers count down, the time since a
\* sleep began goes on.
Tick ==
  LET C == {t \in Threads : /\ asked[t] > 0
                            /\ pc[t] = "sleeping" \/ (pc[t] = "woken" /\ error[t] = "ok")}
  IN /\ C # {} /\ TickDone
     /\ rem' = [t \in Threads |-> IF rem[t] > 0 THEN rem[t] - 1 ELSE 0]
     /\ since' = [t \in Threads |-> IF t \in C THEN Up(since[t]) ELSE since[t]]
     /\ slept' = [t \in Threads |-> IF pc[t] = "sleeping" /\ asked[t] > 0
                                    THEN Up(slept[t]) ELSE slept[t]]
     /\ UNCHANGED <<poolVars, suspended, pc, time, error, asked, tickVars, lost>>

\* _timer_check takes the timer off its list and lets the interrupts in.
Expire(t) ==
  /\ ~halted /\ fired = {} /\ Due(t)
  /\ fired' = {t} /\ masked' = {}
  /\ UNCHANGED <<poolVars, suspended, pc, waitVars, halted, histVars, lost>>

Unlisted(t) == Removed(suspended, t)

\* _thread_timeout takes the thread off the list and gives it the error.
ThreadTimeout(t) ==
  /\ ~halted /\ t \in fired /\ pc[t] = "sleeping"
  /\ error' = [error EXCEPT ![t] = "timeout"]
  /\ suspended' = Unlisted(t)
  /\ Goto(t, "woken")
  /\ fired' = {} /\ masked' = {}
  /\ lost' = IF suspended' = <<>> THEN 0 ELSE lost
  /\ UNCHANGED <<poolVars, time, rem, since, halted, histVars>>

\* It expects the thread to be suspended, and never returns when it is not.
TimeoutAsserts(t) ==
  /\ ~halted /\ t \in fired /\ pc[t] # "sleeping"
  /\ halted' = TRUE
  /\ UNCHANGED <<poolVars, suspended, pc, waitVars, fired, masked, histVars, lost>>

-----------------------------------------------------------------------------
Step(t) == Take(t) \/ Refuse(t) \/ Sleep(t) \/ Woken(t)

\* The two steps of the tick's handler for a timer that is due.
Timer(t) == Expire(t) \/ ThreadTimeout(t) \/ TimeoutAsserts(t)

Next ==
  \/ \E t \in Threads : CallAlloc(t) \/ Step(t) \/ Timer(t)
  \/ \E b \in Blocks : Free(b)
  \/ Tick

Spec == Init /\ [][Next]_vars

\* Threads of one priority take turns, and the tick's handler, which interrupts
\* them again and again, ends; nobody has to call, and no block has to be released.
FairSpec == Spec /\ \A t \in Threads : SF_vars(Step(t)) /\ WF_vars(Timer(t))

-----------------------------------------------------------------------------
(* Properties. *)

\* Every variable stays in its range.
TypeOK ==
  /\ list \in Seq(Blocks) /\ freeCount \in 0 .. Len(FirstList) /\ held \subseteq Blocks
  /\ suspended \in Seq(Threads)
  /\ pc \in [Threads -> PCs]
  /\ time \in [Threads -> 0 .. MaxTicks \cup {-1}] /\ rem \in [Threads -> 0 .. MaxTicks]
  /\ error \in [Threads -> {"ok", "timeout"}] /\ since \in [Threads -> 0 .. MaxTicks]
  /\ fired \subseteq Threads /\ masked \subseteq fired /\ halted \in BOOLEAN
  /\ asked \in [Threads -> Times] /\ slept \in [Threads -> 0 .. MaxTicks]
  /\ lost \in 0 .. Len(FirstList)

\* The free blocks, as BlockPool sees them.
FreeBlocks == {list[i] : i \in 1 .. Len(list)}

\* The count, which alone decides whether an allocation may follow the list, is
\* the length of the list, and no block is in the list twice or while it is out.
CountIsList ==
  /\ freeCount = Len(list)
  /\ \A i, j \in 1 .. Len(list) : list[i] = list[j] => i = j
  /\ FreeBlocks \cap held = {}

Pool == INSTANCE BlockPool WITH free <- FreeBlocks

\* The counted list with its suspensions, resumes and timeouts is the pool it
\* promises to be: blocks go out one at a time and only what is out comes back.
IsPool == Pool!Spec

\* The threads that were made ready and will look at the list again.
OnTheWay == {t \in Threads : pc[t] = "again" \/ (pc[t] = "woken" /\ error[t] = "ok")}

\* No thread sleeps on a free block: while one is suspended, for every free block
\* a thread made ready is on its way, also when a third one took the block it
\* was woken for, or another one timed out.  Only a release that came between the
\* removal of the timer of the head of the list and its timeout wakes nobody.
NoLostBlock == suspended # <<>> => freeCount <= Cardinality(OnTheWay) + lost

\* An allocation is suspended no longer than it asked ("the maximum waiting time
\* for allocating memory"), however often it is woken in vain.
SleepsNoLonger == \A t \in Threads : asked[t] > 0 => slept[t] <= asked[t]

\* The threads that sleep are those in the list, each once.
SleepersListed ==
  /\ \A i \in 1 .. Len(suspended) : pc[suspended[i]] = "sleeping"
  /\ Cardinality({t \in Threads : pc[t] = "sleeping"}) = Len(suspended)

\* A thread whose timer is removed is still suspended when it is timed out, as
\* _thread_timeout asserts, unless a release tried to wake it in between.
TimeoutFindsSuspended == \A t \in fired \ masked : pc[t] = "sleeping"

\* Count, list and what is out agree, who sleeps is in the list, a timeout finds its
\* thread suspended but after a wake-up that was missed, and nobody sleeps on a block
\* for which no other thread was made ready and no wake-up was missed.
PoolOK ==
  /\ TypeOK /\ CountIsList /\ SleepersListed /\ NoLostBlock /\ TimeoutFindsSuspended

\* A sleeping thread does not sleep on while a block is free, unless the wake-up of a
\* release was missed, for a thread that was about to be timed out.
SleeperServed ==
  suspended # <<>> /\ freeCount > 0 ~> suspended = <<>> \/ freeCount = 0 \/ lost > 0
=============================================================================
