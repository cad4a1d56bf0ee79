----------------------------- MODULE WavPlayer -----------------------------
(***************************************************************************)
(* The WAV player (wavplayer.c): threads ask it to play, stop, pause and   *)
(* resume by a message each and wait for its acknowledgement, one at a     *)
(* time under player.lock; the thread wav_p reads the messages, the file   *)
(* and writes to the sound device.                                         *)
(*                                                                         *)
(* wav_p (priority 15) runs before the threads that call it (the shell and *)
(* the GUI, 20): they run only while it is blocked, in rt_mq_recv or in a  *)
(* file or device operation.  What wav_p does between two such points is   *)
(* one step.                                                               *)
(***************************************************************************)
EXTENDS Naturals, Sequences, FiniteSets

CONSTANTS
  Callers,    \* threads that call wavplayer_play, _stop, _pause, _resume
  Uris,       \* what they ask it to play
  MqSize,     \* max_msgs of the message queue
  None        \* no thread, no file

ASSUME PlayerAssumption ==
  /\ MqSize \in Nat \ {0}
  /\ None \notin Callers \cup Uris

Ops == {"play", "stop", "pause", "resume"}

VARIABLES
  state, uri,          \* player.state, player.uri
  mq, lock, ack,       \* player.mq, the owner of player.lock, player.ack
  fp,                  \* what the open file was opened as
  pp,                  \* where wav_p is
  pc, op, arg, after   \* the callers: after is where they go when acknowledged

callVars == <<op, arg, after>>
vars == <<state, uri, mq, lock, ack, fp, pp, pc, callVars>>

NoAck == [done |-> FALSE, waiter |-> None]

PPs == {"recv", "open", "poll", "read", "write", "paused", "close"}
PCs == {"idle", "lock", "check", "nested", "stop", "start",
        "wait", "waiting", "woken", "unlock"}

Init ==
  /\ state = "STOPED" /\ uri = None
  /\ mq = <<>> /\ lock = None /\ ack = NoAck
  /\ fp = None /\ pp = "recv"
  /\ pc = [c \in Callers |-> "idle"]
  /\ op = [c \in Callers |-> "stop"] /\ arg = [c \in Callers |-> None]
  /\ after = [c \in Callers |-> "unlock"]

Goto(c, label) == pc' = [pc EXCEPT ![c] = label]

\* wav_p gives the processor away: in the file system or the device, or for want
\* of a message.
PlayerBlocked ==
  \/ pp \in {"open", "read", "write", "close"}
  \/ pp \in {"recv", "paused"} /\ mq = <<>>

-----------------------------------------------------------------------------
(* Wrong forms of definitions below, each a slip the code could have: a run  *)
(* that checks a property must find it broken when one of them takes the     *)
(* place of the definition it is named after.                                *)

\* play does not stop what is playing
NeedsStopNever == FALSE

\* the lock is not taken
LockFree(c) == TRUE

\* the acknowledgement goes to nobody
AcknowledgeSilently == ack' = [ack EXCEPT !.done = TRUE] /\ pc' = pc

\* a message is sent whatever the state
ConcernsAlways(o) == TRUE

-----------------------------------------------------------------------------
(* wavplayer_play, _stop, _pause and _resume. *)

\* rt_completion_init, before the lock is taken.
Call(c, o, u) ==
  /\ pc[c] = "idle" /\ PlayerBlocked
  /\ op' = [op EXCEPT ![c] = o] /\ arg' = [arg EXCEPT ![c] = u]
  /\ ack' = NoAck
  /\ Goto(c, "lock")
  /\ UNCHANGED <<state, uri, mq, lock, fp, pp, after>>

MayLock(c) == lock = None

TakeLock(c) ==
  /\ pc[c] = "lock" /\ PlayerBlocked /\ MayLock(c)
  /\ lock' = c
  /\ Goto(c, "check")
  /\ UNCHANGED <<state, uri, mq, ack, fp, pp, callVars>>

Unlock(c) ==
  /\ pc[c] = "unlock" /\ PlayerBlocked
  /\ lock' = None
  /\ Goto(c, "idle")
  /\ UNCHANGED <<state, uri, mq, ack, fp, pp, callVars>>

\* rt_mq_send, then rt_completion_wait whether or not the message went in.
Send(c, m, next) ==
  /\ mq' = IF Len(mq) < MqSize THEN Append(mq, m) ELSE mq
  /\ after' = [after EXCEPT ![c] = next]
  /\ Goto(c, "wait")

Message(o) == CASE o = "stop" -> "STOP" [] o = "pause" -> "PAUSE"
                [] o = "resume" -> "RESUME" [] o = "play" -> "START"

NeedsStop == state # "STOPED"

\* Whether the state lets the operation send its message.
Concerns(o) ==
  \/ o = "stop"   /\ state # "STOPED"
  \/ o = "pause"  /\ state = "PLAYING"
  \/ o = "resume" /\ state = "PAUSED"

CheckPlay(c) ==
  /\ pc[c] = "check" /\ op[c] = "play" /\ PlayerBlocked
  /\ Goto(c, IF NeedsStop THEN "nested" ELSE "start")
  /\ UNCHANGED <<state, uri, mq, lock, ack, fp, pp, callVars>>

CheckOther(c) ==
  /\ pc[c] = "check" /\ op[c] # "play" /\ PlayerBlocked
  /\ IF Concerns(op[c])
     THEN Send(c, Message(op[c]), "unlock")
     ELSE Goto(c, "unlock") /\ UNCHANGED <<mq, after>>
  /\ UNCHANGED <<state, uri, lock, ack, fp, pp, op, arg>>

\* wavplayer_stop inside wavplayer_play: it clears the completion and takes the
\* (recursive) lock again.
NestedStop(c) ==
  /\ pc[c] = "nested" /\ PlayerBlocked
  /\ ack' = NoAck
  /\ Goto(c, "stop")
  /\ UNCHANGED <<state, uri, mq, lock, fp, pp, callVars>>

NestedCheck(c) ==
  /\ pc[c] = "stop" /\ PlayerBlocked
  /\ IF Concerns("stop") THEN Send(c, "STOP", "start")
                         ELSE Goto(c, "start") /\ UNCHANGED <<mq, after>>
  /\ UNCHANGED <<state, uri, lock, ack, fp, pp, op, arg>>

\* The old uri is freed and replaced.
StartPlay(c) ==
  /\ pc[c] = "start" /\ PlayerBlocked
  /\ uri' = arg[c]
  /\ Send(c, "START", "unlock")
  /\ UNCHANGED <<state, lock, ack, fp, pp, op, arg>>

\* rt_completion_wait.
Wait(c) ==
  /\ pc[c] = "wait" /\ PlayerBlocked
  /\ ack' = IF ack.done THEN NoAck ELSE [done |-> FALSE, waiter |-> c]
  /\ Goto(c, IF ack.done THEN after[c] ELSE "waiting")
  /\ UNCHANGED <<state, uri, mq, lock, fp, pp, callVars>>

\* Resumed: the completion is taken, or found cleared (-RT_ETIMEOUT, ignored).
Woken(c) ==
  /\ pc[c] = "woken" /\ PlayerBlocked
  /\ ack' = IF ack.done THEN NoAck ELSE ack
  /\ Goto(c, after[c])
  /\ UNCHANGED <<state, uri, mq, lock, fp, pp, callVars>>

-----------------------------------------------------------------------------
(* wavplayer_entry and wavplayer_event_handler. *)

StateAfter(m) == CASE m = "START"  -> "PLAYING"
                   [] m = "STOP"   -> "STOPED"
                   [] m = "PAUSE"  -> "PAUSED"
                   [] m = "RESUME" -> "PLAYING"

\* rt_completion_done
Acknowledge ==
  IF ack.done THEN UNCHANGED <<ack, pc>>
  ELSE /\ ack' = [done |-> TRUE, waiter |-> None]
       /\ pc' = IF ack.waiter = None THEN pc ELSE [pc EXCEPT ![ack.waiter] = "woken"]

\* A message is taken: the state changes and the sender is acknowledged.
Handle ==
  /\ mq # <<>>
  /\ mq' = Tail(mq)
  /\ state' = StateAfter(Head(mq))
  /\ Acknowledge
  /\ UNCHANGED <<uri, lock, fp, callVars>>

\* The outer loop waits for a message to start; others change the state only.
Recv ==
  /\ pp = "recv" /\ Handle
  /\ pp' = IF Head(mq) = "START" THEN "open" ELSE "recv"

\* wavplayer_open: the file is opened by the uri of now, or cannot be.
OpenFile ==
  /\ pp = "open"
  /\ fp' = uri /\ pp' = "poll"
  /\ UNCHANGED <<state, uri, mq, lock, ack, pc, callVars>>

OpenFails ==
  /\ pp = "open"
  /\ state' = "STOPED" /\ pp' = "recv"
  /\ UNCHANGED <<uri, mq, lock, ack, fp, pc, callVars>>

\* The inner loop polls for a message before it reads.
PollNone ==
  /\ pp = "poll" /\ mq = <<>>
  /\ pp' = "read"
  /\ UNCHANGED <<state, uri, mq, lock, ack, fp, pc, callVars>>

Poll ==
  /\ pp = "poll" /\ Handle
  /\ pp' = IF Head(mq) = "PAUSE" THEN "paused"
           ELSE IF state' = "STOPED" THEN "close" ELSE "poll"

Paused ==
  /\ pp = "paused" /\ Handle
  /\ pp' = IF state' = "STOPED" THEN "close" ELSE "poll"

Read ==
  /\ pp = "read"
  /\ pp' = "write"
  /\ UNCHANGED <<state, uri, mq, lock, ack, fp, pc, callVars>>

ReadEnd ==
  /\ pp = "read"
  /\ state' = "STOPED" /\ pp' = "close"
  /\ UNCHANGED <<uri, mq, lock, ack, fp, pc, callVars>>

Write ==
  /\ pp = "write"
  /\ pp' = IF state = "STOPED" THEN "close" ELSE "poll"
  /\ UNCHANGED <<state, uri, mq, lock, ack, fp, pc, callVars>>

Close ==
  /\ pp = "close"
  /\ fp' = None /\ pp' = "recv"
  /\ UNCHANGED <<state, uri, mq, lock, ack, pc, callVars>>

-----------------------------------------------------------------------------
Step(c) ==
  \/ TakeLock(c) \/ CheckPlay(c) \/ CheckOther(c) \/ NestedStop(c)
  \/ NestedCheck(c) \/ StartPlay(c) \/ Wait(c) \/ Woken(c) \/ Unlock(c)

Player ==
  \/ Recv \/ OpenFile \/ OpenFails \/ PollNone \/ Poll \/ Paused
  \/ Read \/ ReadEnd \/ Write \/ Close

Next ==
  \/ \E c \in Callers :
       \/ \E o \in Ops \ {"play"} : Call(c, o, None)
       \/ \E u \in Uris : Call(c, "play", u)
       \/ Step(c)
  \/ Player

Spec == Init /\ [][Next]_vars

\* File and device operations end and the player goes on; a caller goes on in
\* the time the player leaves it, again and again (strong fairness: the player
\* blocks in the device for most of the time a buffer lasts).
FairSpec == Spec /\ WF_vars(Player) /\ \A c \in Callers : SF_vars(Step(c))

-----------------------------------------------------------------------------
(* Properties. *)

\* Every variable stays in its range.
TypeOK ==
  /\ state \in {"STOPED", "PLAYING", "PAUSED"}
  /\ uri \in Uris \cup {None} /\ fp \in Uris \cup {None}
  /\ mq \in Seq({"START", "STOP", "PAUSE", "RESUME"})
  /\ lock \in Callers \cup {None}
  /\ ack \in [done : BOOLEAN, waiter : Callers \cup {None}]
  /\ pp \in PPs /\ pc \in [Callers -> PCs]
  /\ op \in [Callers -> Ops] /\ arg \in [Callers -> Uris \cup {None}]
  /\ after \in [Callers -> {"start", "unlock"}]

\* At most one message is ever queued, whoever calls while others wait: so
\* rt_mq_send never fails, and nobody waits for the answer to a message that was
\* not sent.
OneMessage == Len(mq) <= 1

\* A message to start finds the player idle or about to be: the inner loops, which
\* would take it for a resume and go on with the old file, never see one.
StartFindsIdle == mq # <<>> /\ Head(mq) = "START" => pp \in {"recv", "close"}

\* The uri is not freed and replaced while the player opens the file by it.
UriStable == [][pp = "open" => uri' = uri]_vars

\* What is played is what was asked for last: the uri of the next call replaces the
\* last one only when that file is not read any more, also by a caller that tested
\* the state and gave the processor away before it used the answer.
PlaysLastUri == pp \in {"poll", "read", "write", "paused"} => fp = uri

\* While a file is open the state, which the callers test and the player alone
\* changes, is what the player does: no stop or pause that was acknowledged is
\* overrun by the file that is being read, and no pause is answered twice.
StateMatchesPlayer ==
  /\ pp \in {"open", "poll", "read", "write"} => state = "PLAYING"
  /\ pp = "paused" => state = "PAUSED"
  /\ pp = "close" => state = "STOPED"

\* A call comes back ("return 0 Success, others Failed").
CallReturns == \A c \in Callers : pc[c] = "lock" ~> pc[c] = "idle"

\* As long as calls do not overlap, whatever the files and the player do
\* meanwhile, every call comes back.
Overlap == \E c, d \in Callers : c # d /\ pc[c] # "idle" /\ pc[d] # "idle"
LoneCallReturns == []~Overlap => CallReturns
=============================================================================
