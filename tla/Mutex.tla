------------------------------- MODULE Mutex -------------------------------
(***************************************************************************)
(* The mutex of ipc.c: ownership that is handed over, recursive takes,     *)
(* waits that time out, and priority inheritance along chains of owners    *)
(* that wait themselves.  As on the chip, a smaller number is a more       *)
(* urgent priority.  What runs with interrupts masked is one step; the     *)
(* chain of _thread_update_priority is one step for each owner on it, and  *)
(* nothing else happens until its end (walk).                              *)
(* A thread at "run" is anywhere outside rt_mutex_take: ready, or asleep   *)
(* in a delay or in a driver, with what it has taken.                      *)
(***************************************************************************)
EXTENDS Integers, FiniteSets, SuspList

CONSTANTS
  Threads, Mutexes,
  InitPrio,     \* the priority each thread was created with
  Rank,         \* the order in which a thread takes several mutexes
  HoldMax,      \* bound: RT_MUTEX_HOLD_MAX, 255 in the code
  Timed,        \* threads that wait with a timeout
  NestedTimed,  \* whether they do so while they hold a mutex, too
  None

NoPrio == 255

ASSUME MutexAssumption ==
  /\ InitPrio \in [Threads -> 0 .. NoPrio - 1]
  /\ Rank \in [Mutexes -> Nat]
  /\ HoldMax \in Nat \ {0}
  /\ Timed \subseteq Threads /\ NestedTimed \in BOOLEAN
  /\ None \notin Threads \cup Mutexes

VARIABLES
  owner, hold,   \* of each mutex
  mprio,         \* mutex->priority: the most urgent that waits, or NoPrio
  waiters,       \* its list of suspended threads
  prio,          \* current priority of each thread
  pc, want,      \* where a thread is in rt_mutex_take, and for which mutex
  pend,          \* thread->pending_object
  error,         \* thread->error
  walk           \* the thread whose new priority is being passed on, or None

mutexVars == <<owner, hold, mprio, waiters>>
threadVars == <<pc, want, pend, error>>
vars == <<mutexVars, prio, threadVars, walk>>

Init ==
  /\ owner = [m \in Mutexes |-> None] /\ hold = [m \in Mutexes |-> 0]
  /\ mprio = [m \in Mutexes |-> NoPrio] /\ waiters = [m \in Mutexes |-> <<>>]
  /\ prio = InitPrio
  /\ pc = [t \in Threads |-> "run"] /\ want = [t \in Threads |-> None]
  /\ pend = [t \in Threads |-> None] /\ error = [t \in Threads |-> "ok"]
  /\ walk = None

\* thread->taken_object_list
Taken(t) == {m \in Mutexes : owner[m] = t}

\* The thread may run: no chain is being walked, and nobody more urgent was
\* made ready by a mutex.
Runs(t) == walk = None /\ \A u \in Threads : pc[u] = "woken" => prio[t] <= prio[u]

\* Threads nest their mutexes in one order, so that they never wait in a circle.
InOrder(t, m) == \A n \in Taken(t) : Rank[n] < Rank[m]

\* _thread_get_mutex_priority: the most urgent of the thread's own priority and
\* of those that wait for the mutexes in S, whose priorities are P.
Inherited(t, S, P) == Min({InitPrio[t]} \cup {P[m] : m \in S})

\* _mutex_update_priority
HeadPrio(list) == IF list = <<>> THEN NoPrio ELSE prio[Head(list)]

-----------------------------------------------------------------------------
(* Wrong forms of definitions below, each a slip the code could have.        *)

\* the list is in order of arrival
PlaceLast(list, t) == {Len(list) + 1}

\* the owner's new priority is not passed on to whom it waits for
ChainEnds(o, p) ==
  /\ prio' = [prio EXCEPT ![o] = p]
  /\ UNCHANGED walk

\* a timed out thread stays in the list
StaysListed(t, m) == waiters[m]

\* the result of a wait that timed out is not set
TimeoutForgotten(t) == "ok"

\* the owner keeps the priority a thread that gave up had lent it
NeverUpdated(t, m) == FALSE

\* an owner keeps its own priority while others wait
NeverRaised(t, m) == FALSE

-----------------------------------------------------------------------------
(* Passing a priority on: _thread_update_priority. *)

\* rt_susp_list_enqueue: before the first that is less urgent, else at the end.
Places(list, t) ==
  {k \in 1 .. Len(list) + 1 : /\ \A j \in 1 .. k - 1 : prio[list[j]] <= prio[t]
                              /\ k <= Len(list) => prio[t] < prio[list[k]]}

\* o gets priority p, and whom it waits for is looked at next.
Update(o, p) ==
  /\ prio' = [prio EXCEPT ![o] = p]
  /\ walk' = o

\* o's priority follows from what it still holds.
UpdateIfChanged(o, p) ==
  IF p # prio[o] THEN Update(o, p) ELSE walk' = None /\ UNCHANGED prio

\* The thread whose priority was changed waits for no mutex.
WalkEnds ==
  /\ walk # None /\ pc[walk] # "wait"
  /\ walk' = None
  /\ UNCHANGED <<mutexVars, prio, threadVars>>

\* It does: it is put in its new place in the list, and the priorities of the
\* mutex and of its owner follow.
WalkOn ==
  /\ walk # None /\ pc[walk] = "wait"
  /\ LET m == pend[walk]
         o == owner[m]
         rest == Removed(waiters[m], walk)
     IN \E k \in Places(rest, walk) :
          LET list == InsertAt(rest, k, walk)
              P == [mprio EXCEPT ![m] = HeadPrio(list)]
          IN /\ waiters' = [waiters EXCEPT ![m] = list]
             /\ mprio' = P
             /\ UpdateIfChanged(o, Inherited(o, Taken(o), P))
  /\ UNCHANGED <<owner, hold, threadVars>>

-----------------------------------------------------------------------------
(* rt_mutex_take. *)

MayTake(t, m) == pc[t] = "run" /\ Runs(t) /\ error' = [error EXCEPT ![t] = "ok"]

TakeFree(t, m) ==
  /\ MayTake(t, m)
  /\ owner[m] = None /\ InOrder(t, m)
  /\ owner' = [owner EXCEPT ![m] = t]
  /\ mprio' = [mprio EXCEPT ![m] = NoPrio]
  /\ hold' = [hold EXCEPT ![m] = 1]
  /\ UNCHANGED <<waiters, prio, pc, want, pend, walk>>

RoomToHold(m) == hold[m] < HoldMax

TakeAgain(t, m) ==
  /\ MayTake(t, m)
  /\ owner[m] = t /\ RoomToHold(m)
  /\ hold' = [hold EXCEPT ![m] = @ + 1]
  /\ UNCHANGED <<owner, mprio, waiters, prio, pc, want, pend, walk>>

\* Whether the owner has to be raised for a thread that begins to wait.
Raises(t, m) == prio[t] < mprio[m] /\ prio[t] < prio[owner[m]]

\* Suspended: into the list, and the owner is raised.  A call that does not
\* wait returns -RT_ETIMEOUT here and changes nothing.
TakeWait(t, m) ==
  /\ MayTake(t, m)
  /\ owner[m] \notin {t, None} /\ InOrder(t, m)
  /\ \E k \in Places(waiters[m], t) :
       waiters' = [waiters EXCEPT ![m] = InsertAt(@, k, t)]
  /\ pc' = [pc EXCEPT ![t] = "wait"] /\ want' = [want EXCEPT ![t] = m]
  /\ pend' = [pend EXCEPT ![t] = m]
  /\ mprio' = [mprio EXCEPT ![m] = IF prio[t] < @ THEN prio[t] ELSE @]
  /\ IF Raises(t, m) THEN Update(owner[m], prio[t]) ELSE UNCHANGED <<prio, walk>>
  /\ UNCHANGED <<owner, hold>>

\* Running again as the owner.
TakeGranted(t) ==
  /\ pc[t] = "woken" /\ Runs(t) /\ owner[want[t]] = t
  /\ pc' = [pc EXCEPT ![t] = "run"] /\ want' = [want EXCEPT ![t] = None]
  /\ UNCHANGED <<mutexVars, prio, pend, error, walk>>

\* Whether what the owner has was, for all one can see, lent by t.
NeedUpdate(t, m) == owner[m] # None /\ prio[owner[m]] = prio[t]

\* Running again after the timeout: the mutex's priority is that of who waits
\* still, and its owner's may have to be lowered.
TakeTimedOut(t) ==
  /\ pc[t] = "woken" /\ Runs(t) /\ owner[want[t]] # t
  /\ LET m == want[t]
         o == owner[m]
         P == [mprio EXCEPT ![m] = HeadPrio(waiters[m])]
     IN /\ mprio' = P
        /\ IF NeedUpdate(t, m)
           THEN UpdateIfChanged(o, Inherited(o, Taken(o), P))
           ELSE UNCHANGED <<prio, walk>>
  /\ pc' = [pc EXCEPT ![t] = "run"] /\ want' = [want EXCEPT ![t] = None]
  /\ pend' = [pend EXCEPT ![t] = None]
  /\ UNCHANGED <<owner, hold, waiters, error>>

-----------------------------------------------------------------------------
(* _thread_timeout, in the tick interrupt. *)

Unlisted(t, m) == Removed(waiters[m], t)
TimeoutError(t) == "timeout"

Timeout(t) ==
  /\ walk = None
  /\ pc[t] = "wait" /\ t \in Timed /\ (NestedTimed \/ Taken(t) = {})
  /\ LET m == pend[t] IN waiters' = [waiters EXCEPT ![m] = Unlisted(t, m)]
  /\ error' = [error EXCEPT ![t] = TimeoutError(t)]
  /\ pc' = [pc EXCEPT ![t] = "woken"]
  /\ UNCHANGED <<owner, hold, mprio, prio, want, pend, walk>>

-----------------------------------------------------------------------------
(* rt_mutex_release. *)

MayRelease(t, m) == pc[t] = "run" /\ Runs(t) /\ owner[m] = t

ReleaseOnce(t, m) ==
  /\ MayRelease(t, m) /\ hold[m] > 1
  /\ hold' = [hold EXCEPT ![m] = @ - 1]
  /\ UNCHANGED <<owner, mprio, waiters, prio, threadVars, walk>>

\* _check_and_update_prio: only who has the priority of the mutex may have been
\* raised for it.
Lowered(t, m) ==
  IF prio[t] = mprio[m] THEN [prio EXCEPT ![t] = Inherited(t, Taken(t) \ {m}, mprio)]
  ELSE prio

\* The last release with nobody waiting.
ReleaseFree(t, m) ==
  /\ MayRelease(t, m) /\ hold[m] = 1 /\ waiters[m] = <<>>
  /\ prio' = Lowered(t, m)
  /\ owner' = [owner EXCEPT ![m] = None] /\ hold' = [hold EXCEPT ![m] = 0]
  /\ mprio' = [mprio EXCEPT ![m] = NoPrio]
  /\ UNCHANGED <<waiters, threadVars, walk>>

\* The last release with somebody waiting: the first of the list is the owner
\* before it runs.
HandOver(t, m) ==
  /\ MayRelease(t, m) /\ hold[m] = 1 /\ waiters[m] # <<>>
  /\ prio' = Lowered(t, m)
  /\ LET n == Head(waiters[m]) IN
       /\ waiters' = [waiters EXCEPT ![m] = Tail(@)]
       /\ owner' = [owner EXCEPT ![m] = n]
       /\ pc' = [pc EXCEPT ![n] = "woken"] /\ pend' = [pend EXCEPT ![n] = None]
  /\ mprio' = [mprio EXCEPT ![m] = HeadPrio(Tail(waiters[m]))]
  /\ UNCHANGED <<hold, want, error, walk>>

Release(t, m) == ReleaseOnce(t, m) \/ ReleaseFree(t, m) \/ HandOver(t, m)

-----------------------------------------------------------------------------
Walk == WalkEnds \/ WalkOn
Resumed(t) == TakeGranted(t) \/ TakeTimedOut(t)

Next ==
  \/ Walk
  \/ \E t \in Threads, m \in Mutexes : TakeFree(t, m) \/ TakeAgain(t, m) \/ TakeWait(t, m)
  \/ \E t \in Threads : Resumed(t) \/ Timeout(t)
  \/ \E t \in Threads, m \in Mutexes : Release(t, m)

Spec == Init /\ [][Next]_vars

\* The scheduler owes the processor only to the most urgent of the threads that
\* do not wait: the others may be kept from it by one that computes for ever.
Urgent(t) == \A u \in Threads : pc[u] # "wait" => prio[t] <= prio[u]

LastRelease(t, m) == hold[m] = 1 /\ Release(t, m)

\* A thread that gets the processor again and again leaves what it has entered:
\* critical sections are finite.  Nobody has to take a mutex, and no timeout
\* has to come.
FairSpec ==
  /\ Spec
  /\ WF_vars(Walk)
  /\ WF_vars(\E t \in Threads : Urgent(t) /\ Resumed(t))
  /\ \A m \in Mutexes :
       /\ SF_vars(\E t \in Threads : Urgent(t) /\ Release(t, m))
       /\ SF_vars(\E t \in Threads : Urgent(t) /\ LastRelease(t, m))

-----------------------------------------------------------------------------
(* Properties. *)

\* Every variable stays in its range.
TypeOK ==
  /\ owner \in [Mutexes -> Threads \cup {None}] /\ hold \in [Mutexes -> 0 .. HoldMax]
  /\ mprio \in [Mutexes -> 0 .. NoPrio] /\ waiters \in [Mutexes -> Seq(Threads)]
  /\ prio \in [Threads -> 0 .. NoPrio - 1]
  /\ pc \in [Threads -> {"run", "wait", "woken"}]
  /\ want \in [Threads -> Mutexes \cup {None}] /\ pend \in [Threads -> Mutexes \cup {None}]
  /\ error \in [Threads -> {"ok", "timeout"}]
  /\ walk \in Threads \cup {None}

\* No unbounded inversion (ipc.c:1029): the owner of a mutex is as urgent as
\* each thread that waits for it, also through owners that wait themselves.
NoInversion ==
  walk = None =>
    \A m \in Mutexes : \A i \in 1 .. Len(waiters[m]) : prio[owner[m]] <= prio[waiters[m][i]]

\* A thread is suspended exactly when it is in one list, once, and that list is
\* of the mutex it asked for and that its pending_object names.
WaitersListed ==
  /\ \A m \in Mutexes : \A i \in 1 .. Len(waiters[m]) :
       LET t == waiters[m][i] IN
         /\ pc[t] = "wait" /\ want[t] = m /\ pend[t] = m
         /\ owner[m] \notin {t, None}
         /\ \A j \in 1 .. Len(waiters[m]) : waiters[m][j] = t => j = i
  /\ \A t \in Threads : pc[t] = "wait" =>
       \E m \in Mutexes : \E i \in 1 .. Len(waiters[m]) : waiters[m][i] = t

\* A thread that runs again finds itself the owner exactly when its wait did not
\* end by the timeout (the assertion at ipc.c:1459).
GrantedIsOwner ==
  \A t \in Threads : pc[t] = "woken" => (owner[want[t]] = t <=> error[t] = "ok")

\* Nobody keeps a borrowed priority: when no timed out thread is still to run, a
\* thread is exactly as urgent as itself and those that wait for what it holds.
PriorityEarned ==
  walk = None /\ (\A t \in Threads : pc[t] = "woken" => error[t] = "ok") =>
    \A t \in Threads : prio[t] = Inherited(t, Taken(t), [m \in Mutexes |-> HeadPrio(waiters[m])])

\* "get highest priority inside its taken object and its init priority": a thread
\* that holds nothing, with no timed out thread still to run, has its own priority.
PriorityReturned ==
  walk = None /\ (\A t \in Threads : pc[t] = "woken" => error[t] = "ok") =>
    \A t \in Threads : Taken(t) = {} => prio[t] = InitPrio[t]

\* A mutex is handed to the most urgent of those that wait, even if priorities
\* changed while they did.
MostUrgentFirst ==
  [][\A m \in Mutexes :
       (waiters[m] # <<>> /\ owner'[m] # owner[m]) =>
         \E i \in 1 .. Len(waiters[m]) :
           /\ owner'[m] = waiters[m][i]
           /\ \A j \in 1 .. Len(waiters[m]) : prio[waiters[m][i]] <= prio[waiters[m][j]]]_vars

\* The most urgent thread of all is not kept waiting by one that computes for
\* ever: whoever it waits for inherits its priority and lets go.
TopServed ==
  \A t \in Threads :
    (\A u \in Threads \ {t} : InitPrio[t] < InitPrio[u]) => (pc[t] = "wait" ~> pc[t] # "wait")
=============================================================================
