-------------------------- MODULE WavPlayerProofs --------------------------
(***************************************************************************)
(* Proofs about WavPlayer, for every number of callers and uris: callers   *)
(* that come and go while others wait never get two messages in the queue, *)
(* never change the uri under wav_p and never start it twice, and what is  *)
(* played is what was asked for last.                                      *)
(***************************************************************************)
EXTENDS WavPlayer, SequenceTheorems, TLAPS

Holding == PCs \ {"idle", "lock"}
Waiting == {"wait", "waiting", "woken"}

\* Who is past play_lock has the lock.
LockInv == \A c \in Callers : pc[c] \in Holding => lock = c

\* A queued message is the only one, and its sender still waits for the answer.
MsgInv == mq # <<>> => Len(mq) = 1 /\ \E c \in Callers : pc[c] \in {"wait", "waiting"}

\* An answer that nobody has taken belongs to a message that was handled, and to
\* a caller that has not gone on.
AckInv ==
  /\ ack.done => mq = <<>> /\ \E c \in Callers : pc[c] \in Waiting
  /\ \A c \in Callers : pc[c] = "woken" => mq = <<>>
  /\ ack.waiter # None => pc[ack.waiter] = "waiting"

\* A caller that is about to start knows the player stopped; one that has asked
\* for that knows it once its message is gone.
StopInv ==
  \A c \in Callers :
    /\ pc[c] = "start" => mq = <<>> /\ state = "STOPED"
    /\ pc[c] \in Waiting /\ after[c] = "start" =>
         IF mq = <<>> THEN state = "STOPED" ELSE Head(mq) = "STOP"

\* What the state was when a message was sent, it still is for the messages whose
\* handling depends on it.
HeadInv ==
  mq # <<>> =>
    /\ Head(mq) = "START" => state = "STOPED"
    /\ Head(mq) = "PAUSE" => pp # "paused"

IInv == /\ TypeOK /\ LockInv /\ MsgInv /\ AckInv /\ StopInv /\ HeadInv
        /\ StateMatchesPlayer

-----------------------------------------------------------------------------
(* Messages. *)

\* Taking the only message leaves none.
LEMMA OnlyMessage ==
  ASSUME NEW S, NEW q \in Seq(S), Len(q) = 1
  PROVE  Tail(q) = <<>> /\ Head(q) \in S
<1>1. q # <<>>
  BY EmptySeq
<1>2. Tail(q) \in Seq(S) /\ Len(Tail(q)) = 0 /\ Head(q) \in S
  BY <1>1, HeadTailProperties
<1> QED
  BY <1>2, EmptySeq

\* A message sent to an empty queue is the only one.
LEMMA FirstMessage ==
  ASSUME NEW S, NEW m \in S
  PROVE  /\ Append(<<>>, m) \in Seq(S) /\ Append(<<>>, m) # <<>>
         /\ Len(Append(<<>>, m)) = 1 /\ Head(Append(<<>>, m)) = m
OBVIOUS

Messages == {"START", "STOP", "PAUSE", "RESUME"}

\* The initial state.
LEMMA InvInit == Init => IInv
<1> SUFFICES ASSUME Init PROVE IInv
  OBVIOUS
<1>1. /\ state = "STOPED" /\ uri = None /\ mq = <<>> /\ lock = None /\ ack = NoAck
      /\ fp = None /\ pp = "recv"
      /\ pc = [c \in Callers |-> "idle"] /\ op = [c \in Callers |-> "stop"]
      /\ arg = [c \in Callers |-> None] /\ after = [c \in Callers |-> "unlock"]
  BY Zenon DEF Init
<1>2. TypeOK
  BY <1>1 DEF TypeOK, NoAck, PPs, PCs, Ops
<1>3. LockInv /\ MsgInv /\ StopInv /\ HeadInv
  BY <1>1 DEF LockInv, MsgInv, StopInv, HeadInv, Holding, PCs, Waiting
<1>4. AckInv /\ StateMatchesPlayer
  BY <1>1 DEF AckInv, StateMatchesPlayer, NoAck
<1> QED
  BY <1>2, <1>3, <1>4 DEF IInv

-----------------------------------------------------------------------------
(* The steps of the callers. *)

\* The holder of the lock is the only caller that is past play_lock: before it
\* waits, no message is queued and no answer is due.
LEMMA HolderAlone ==
  ASSUME IInv, NEW c \in Callers, pc[c] \in Holding \ Waiting
  PROVE  mq = <<>> /\ ack.done = FALSE /\ \A d \in Callers \ {c} : pc[d] \notin Holding
<1>1. \A d \in Callers : pc[d] \in Holding => d = c
  BY DEF IInv, LockInv
<1>2. \A d \in Callers : pc[d] \notin Waiting
  BY <1>1 DEF Holding, Waiting, PCs
<1>3. mq = <<>>
  BY <1>2 DEF IInv, MsgInv, Waiting
<1>4. ack.done = FALSE
  BY <1>2 DEF IInv, AckInv, TypeOK
<1> QED
  BY <1>1, <1>3, <1>4

\* Sending keeps the invariant, for a sender that holds the lock and a message
\* that fits the state.
LEMMA SendInv ==
  ASSUME IInv, NEW c \in Callers, pc[c] \in Holding \ Waiting,
         NEW m \in Messages, NEW next \in {"start", "unlock"}, Send(c, m, next),
         m = "START" => state = "STOPED",
         m = "PAUSE" => pp # "paused",
         next = "start" => m = "STOP",
         UNCHANGED <<state, lock, ack, fp, pp, op, arg>>,
         uri' \in Uris \cup {None}
  PROVE  IInv'
<1>1. mq = <<>> /\ ack.done = FALSE /\ \A d \in Callers \ {c} : pc[d] \notin Holding
  BY HolderAlone
<1>2. /\ mq' = Append(<<>>, m)
      /\ after' = [after EXCEPT ![c] = next] /\ pc' = [pc EXCEPT ![c] = "wait"]
  BY <1>1, PlayerAssumption DEF Send, Goto
<1>3. mq' \in Seq(Messages) /\ mq' # <<>> /\ Len(mq') = 1 /\ Head(mq') = m
  BY <1>2, FirstMessage
<1>4. TypeOK'
  BY <1>2, <1>3 DEF IInv, TypeOK, PCs, Messages
<1>5. pc' \in [Callers -> PCs] /\ pc'[c] = "wait" /\ \A d \in Callers \ {c} : pc'[d] = pc[d]
  BY <1>2, <1>4 DEF IInv, TypeOK
<1>6. after'[c] = next
  BY <1>2 DEF IInv, TypeOK
<1>7. LockInv'
  BY <1>5 DEF IInv, LockInv
<1>8. MsgInv'
  BY <1>3, <1>5 DEF MsgInv
<1>9. AckInv'
  <2>1. \A d \in Callers : pc'[d] # "woken"
    BY <1>1, <1>5 DEF Holding, PCs
  <2>2. ack.waiter # None => ack.waiter \in Callers /\ pc[ack.waiter] = "waiting"
    BY DEF IInv, AckInv, TypeOK
  <2>3. pc[c] # "waiting"
    BY DEF Waiting
  <2>4. ack.waiter # None => pc'[ack.waiter] = "waiting"
    BY <1>5, <2>2, <2>3
  <2> QED
    BY <1>1, <2>1, <2>4 DEF AckInv
<1>10. StopInv'
  BY <1>1, <1>3, <1>5, <1>6 DEF StopInv, Holding, Waiting, PCs
<1>11. HeadInv' /\ StateMatchesPlayer'
  BY <1>3 DEF IInv, HeadInv, StateMatchesPlayer
<1> QED
  BY <1>4, <1>7, <1>8, <1>9, <1>10, <1>11 DEF IInv

\* Going on to another place of the call, without a message.
LEMMA GotoInv ==
  ASSUME IInv, NEW c \in Callers, NEW label \in PCs, Goto(c, label),
         UNCHANGED <<state, uri, mq, fp, pp, after>>,
         op' \in [Callers -> Ops], arg' \in [Callers -> Uris \cup {None}],
         lock' \in Callers \cup {None}, LockInv',
         ack' \in [done : BOOLEAN, waiter : Callers \cup {None}],
         pc[c] # "waiting" \/ label = "waiting",
         label = "start" => mq = <<>> /\ state = "STOPED",
         label \in Waiting => label # "woken" /\ pc[c] \in Waiting,
         pc[c] \in {"wait", "waiting"} => label \in {"wait", "waiting"} \/ mq = <<>>,
         ack'.done => ack.done /\ (pc[c] \in Waiting => label \in Waiting),
         ack'.waiter = None \/ ack'.waiter = ack.waiter \/ (ack'.waiter = c /\ label = "waiting")
  PROVE  IInv'
<1>1. pc' = [pc EXCEPT ![c] = label]
  BY DEF Goto
<1>2. TypeOK'
  BY <1>1 DEF IInv, TypeOK
<1>3. pc' \in [Callers -> PCs] /\ pc'[c] = label /\ \A d \in Callers \ {c} : pc'[d] = pc[d]
  BY <1>1 DEF IInv, TypeOK
<1>5. MsgInv'
  BY <1>3 DEF IInv, MsgInv
<1>6. AckInv'
  <2>1. ack'.done => mq' = <<>> /\ \E d \in Callers : pc'[d] \in Waiting
    BY <1>3 DEF IInv, AckInv
  <2>2. \A d \in Callers : pc'[d] = "woken" => mq' = <<>>
    BY <1>3 DEF IInv, AckInv, Waiting
  <2>3. ack'.waiter # None => pc'[ack'.waiter] = "waiting"
    BY <1>3, PlayerAssumption DEF IInv, AckInv, TypeOK
  <2> QED
    BY <2>1, <2>2, <2>3 DEF AckInv
<1>7. StopInv'
  BY <1>3 DEF IInv, StopInv, Waiting
<1>8. HeadInv' /\ StateMatchesPlayer'
  BY DEF IInv, HeadInv, StateMatchesPlayer
<1> QED
  BY <1>2, <1>5, <1>6, <1>7, <1>8 DEF IInv

\* A caller's step keeps the invariant.
LEMMA CallerInv ==
  ASSUME IInv, NEW c \in Callers,
         \/ \E o \in Ops \ {"play"} : Call(c, o, None)
         \/ \E u \in Uris : Call(c, "play", u)
         \/ Step(c)
  PROVE  IInv'
<1>1. /\ ack \in [done : BOOLEAN, waiter : Callers \cup {None}]
      /\ NoAck \in [done : BOOLEAN, waiter : Callers \cup {None}]
      /\ NoAck.done = FALSE /\ NoAck.waiter = None
      /\ pc \in [Callers -> PCs] /\ op \in [Callers -> Ops]
      /\ arg \in [Callers -> Uris \cup {None}] /\ after \in [Callers -> {"start", "unlock"}]
      /\ lock \in Callers \cup {None} /\ uri \in Uris \cup {None}
  BY DEF IInv, TypeOK, NoAck
<1>2. ASSUME NEW label \in PCs, Goto(c, label)
      PROVE  pc'[c] = label /\ \A d \in Callers \ {c} : pc'[d] = pc[d]
  BY <1>1, <1>2 DEF Goto
<1>3. ASSUME NEW label \in PCs, Goto(c, label), UNCHANGED lock,
             label \in Holding => pc[c] \in Holding
      PROVE  LockInv'
  BY <1>2, <1>3 DEF IInv, LockInv
<1>4. ASSUME NEW o \in Ops, NEW u \in Uris \cup {None}, Call(c, o, u)
      PROVE  IInv'
  <2>1. /\ pc[c] = "idle" /\ Goto(c, "lock") /\ ack' = NoAck
        /\ op' \in [Callers -> Ops] /\ arg' \in [Callers -> Uris \cup {None}]
        /\ UNCHANGED <<state, uri, mq, lock, fp, pp, after>>
    BY <1>1, <1>4 DEF Call
  <2>2. "lock" \in PCs /\ "lock" \notin Holding /\ "lock" \notin Waiting
    BY DEF PCs, Holding, Waiting
  <2>3. LockInv'
    BY <1>3, <2>1, <2>2
  <2> QED
    BY <1>1, <2>1, <2>2, <2>3, GotoInv
<1>5. CASE TakeLock(c)
  <2>1. /\ pc[c] = "lock" /\ lock = None /\ lock' = c /\ Goto(c, "check")
        /\ UNCHANGED <<state, uri, mq, ack, fp, pp, op, arg, after>>
    BY <1>5 DEF TakeLock, MayLock, callVars
  <2>2. "check" \in PCs /\ "check" \notin Waiting
    BY DEF PCs, Waiting
  <2>3. \A d \in Callers : pc[d] \notin Holding
    BY <2>1, PlayerAssumption DEF IInv, LockInv
  <2>4. LockInv'
    BY <1>2, <2>1, <2>2, <2>3 DEF LockInv
  <2>5. pc[c] \notin Waiting
    BY <2>1 DEF Waiting
  <2> QED
    BY <1>1, <2>1, <2>2, <2>4, <2>5, GotoInv
<1>6. CASE Unlock(c)
  <2>1. /\ pc[c] = "unlock" /\ lock' = None /\ Goto(c, "idle")
        /\ UNCHANGED <<state, uri, mq, ack, fp, pp, op, arg, after>>
    BY <1>6 DEF Unlock, callVars
  <2>2. "idle" \in PCs /\ "idle" \notin Waiting /\ "idle" \notin Holding
    BY DEF PCs, Waiting, Holding
  <2>3. pc[c] \in Holding \ Waiting
    BY <2>1 DEF Holding, Waiting, PCs
  <2>4. \A d \in Callers \ {c} : pc[d] \notin Holding
    BY <2>3, HolderAlone
  <2>5. LockInv'
    BY <1>2, <2>1, <2>2, <2>4 DEF LockInv
  <2> QED
    BY <1>1, <2>1, <2>2, <2>3, <2>5, GotoInv
<1>7. CASE CheckPlay(c)
  <2> DEFINE label == IF NeedsStop THEN "nested" ELSE "start"
  <2>1. /\ pc[c] = "check" /\ Goto(c, label)
        /\ UNCHANGED <<state, uri, mq, lock, ack, fp, pp, op, arg, after>>
    BY <1>7 DEF CheckPlay, callVars
  <2>2. label \in PCs /\ label \notin Waiting /\ (label = "start" => state = "STOPED")
    BY DEF PCs, Waiting, NeedsStop
  <2>3. pc[c] \in Holding \ Waiting
    BY <2>1 DEF Holding, Waiting, PCs
  <2>4. mq = <<>> /\ ack.done = FALSE
    BY <2>3, HolderAlone
  <2> HIDE DEF label
  <2>5. LockInv'
    BY <1>3, <2>1, <2>2, <2>3
  <2> QED
    BY <1>1, <2>1, <2>2, <2>3, <2>4, <2>5, GotoInv
<1>8. CASE CheckOther(c)
  <2>1. pc[c] = "check" /\ op[c] # "play" /\ UNCHANGED <<state, uri, lock, ack, fp, pp, op, arg>>
    BY <1>8 DEF CheckOther
  <2>2. pc[c] \in Holding \ Waiting
    BY <2>1 DEF Holding, Waiting, PCs
  <2>3. CASE Concerns(op[c]) /\ Send(c, Message(op[c]), "unlock")
    <3> DEFINE m == Message(op[c])
    <3>1. op[c] \in {"stop", "pause", "resume"}
      BY <1>1, <2>1 DEF Ops
    <3>2. m \in Messages /\ m # "START" /\ (m = "PAUSE" => op[c] = "pause")
      BY <3>1 DEF Message, Messages
    <3>3. m = "PAUSE" => pp # "paused"
      BY <2>3, <3>2 DEF Concerns, IInv, StateMatchesPlayer
    <3>4. Send(c, m, "unlock")
      BY <2>3
    <3> HIDE DEF m
    <3> QED
      BY <1>1, <2>1, <2>2, <3>2, <3>3, <3>4, SendInv
  <2>4. CASE Goto(c, "unlock") /\ UNCHANGED <<mq, after>>
    <3>1. "unlock" \in PCs /\ "unlock" \notin Waiting
      BY DEF PCs, Waiting
    <3>2. LockInv'
      BY <1>3, <2>1, <2>2, <2>4, <3>1
    <3> QED
      BY <1>1, <2>1, <2>2, <2>4, <3>1, <3>2, GotoInv
  <2> QED
    BY <1>8, <2>3, <2>4 DEF CheckOther
<1>9. CASE NestedStop(c)
  <2>1. /\ pc[c] = "nested" /\ Goto(c, "stop") /\ ack' = NoAck
        /\ UNCHANGED <<state, uri, mq, lock, fp, pp, op, arg, after>>
    BY <1>9 DEF NestedStop, callVars
  <2>2. "stop" \in PCs /\ "stop" \notin Waiting
    BY DEF PCs, Waiting
  <2>3. pc[c] \in Holding \ Waiting
    BY <2>1 DEF Holding, Waiting, PCs
  <2>4. LockInv'
    BY <1>3, <2>1, <2>2, <2>3
  <2> QED
    BY <1>1, <2>1, <2>2, <2>3, <2>4, GotoInv
<1>10. CASE NestedCheck(c)
  <2>1. pc[c] = "stop" /\ UNCHANGED <<state, uri, lock, ack, fp, pp, op, arg>>
    BY <1>10 DEF NestedCheck
  <2>2. pc[c] \in Holding \ Waiting
    BY <2>1 DEF Holding, Waiting, PCs
  <2>3. CASE Send(c, "STOP", "start")
    BY <1>1, <2>1, <2>2, <2>3, SendInv DEF Messages
  <2>4. CASE ~Concerns("stop") /\ Goto(c, "start") /\ UNCHANGED <<mq, after>>
    <3>1. "start" \in PCs /\ "start" \notin Waiting
      BY DEF PCs, Waiting
    <3>2. state = "STOPED"
      BY <2>4 DEF Concerns
    <3>3. mq = <<>> /\ ack.done = FALSE
      BY <2>2, HolderAlone
    <3>4. LockInv'
      BY <1>3, <2>1, <2>2, <2>4, <3>1
    <3> QED
      BY <1>1, <2>1, <2>2, <2>4, <3>1, <3>2, <3>3, <3>4, GotoInv
  <2> QED
    BY <1>10, <2>3, <2>4 DEF NestedCheck
<1>11. CASE StartPlay(c)
  <2>1. /\ pc[c] = "start" /\ Send(c, "START", "unlock") /\ uri' \in Uris \cup {None}
        /\ UNCHANGED <<state, lock, ack, fp, pp, op, arg>>
    BY <1>1, <1>11 DEF StartPlay
  <2>2. pc[c] \in Holding \ Waiting
    BY <2>1 DEF Holding, Waiting, PCs
  <2>3. state = "STOPED"
    BY <2>1 DEF IInv, StopInv
  <2> QED
    BY <2>1, <2>2, <2>3, SendInv DEF Messages
<1>12. ASSUME pc[c] \in {"wait", "woken"}, ack.done \/ pc[c] = "woken", Goto(c, after[c]),
              ack' = NoAck \/ (~ack.done /\ ack' = ack),
              UNCHANGED <<state, uri, mq, lock, fp, pp, op, arg, after>>
       PROVE  IInv'
  <2>1. after[c] \in {"start", "unlock"} /\ after[c] \in PCs /\ after[c] \notin Waiting
    BY <1>1 DEF PCs, Waiting
  <2>2. mq = <<>>
    BY <1>12 DEF IInv, AckInv
  <2>3. after[c] = "start" => state = "STOPED"
    BY <1>12, <2>2 DEF IInv, StopInv, Waiting
  <2>4. LockInv'
    <3>1. pc[c] \in Holding
      BY <1>12 DEF Waiting, Holding, PCs
    <3> QED
      BY <1>3, <1>12, <2>1, <3>1
  <2>5. pc[c] # "waiting" /\ ack'.done = FALSE /\ pc[c] \in Waiting
    BY <1>1, <1>12 DEF Waiting
  <2> QED
    BY <1>1, <1>12, <2>1, <2>2, <2>3, <2>4, <2>5, GotoInv
<1>13. CASE Wait(c)
  <2>1. pc[c] = "wait" /\ UNCHANGED <<state, uri, mq, lock, fp, pp, op, arg, after>>
    BY <1>13 DEF Wait, callVars
  <2>2. CASE ack.done
    <3>1. ack' = NoAck /\ Goto(c, after[c])
      BY <1>13, <2>2 DEF Wait
    <3>2. pc[c] \in {"wait", "woken"}
      BY <2>1
    <3> QED
      BY <1>12, <2>1, <2>2, <3>1, <3>2
  <2>3. CASE ~ack.done
    <3>1. Goto(c, "waiting") /\ ack' = [done |-> FALSE, waiter |-> c]
      BY <1>13, <2>3 DEF Wait
    <3>2. "waiting" \in PCs /\ "waiting" \in Waiting /\ pc[c] \in Waiting /\ pc[c] \in Holding
      BY <2>1 DEF PCs, Waiting, Holding
    <3>3. LockInv'
      BY <1>3, <2>1, <3>1, <3>2
    <3> QED
      BY <1>1, <2>1, <3>1, <3>2, <3>3, GotoInv
  <2> QED
    BY <2>2, <2>3
<1>14. CASE Woken(c)
  <2>1. /\ pc[c] = "woken" /\ Goto(c, after[c])
        /\ UNCHANGED <<state, uri, mq, lock, fp, pp, op, arg, after>>
    BY <1>14 DEF Woken, callVars
  <2>2. ack' = NoAck \/ (~ack.done /\ ack' = ack)
    BY <1>14 DEF Woken
  <2>3. pc[c] \in {"wait", "woken"}
    BY <2>1
  <2> QED
    BY <1>12, <2>1, <2>2, <2>3
<1> QED
  <2>1. None \in Uris \cup {None} /\ "play" \in Ops
    BY DEF Ops
  <2> QED
    BY <1>4, <1>5, <1>6, <1>7, <1>8, <1>9, <1>10, <1>11, <1>13, <1>14, <2>1 DEF Step

-----------------------------------------------------------------------------
(* The steps of the player. *)

\* Acknowledging when the only message was taken.
LEMMA AcknowledgeInv ==
  ASSUME IInv, mq # <<>>, mq' = <<>>, Acknowledge, UNCHANGED lock
  PROVE  /\ LockInv' /\ AckInv'
         /\ ack' \in [done : BOOLEAN, waiter : Callers \cup {None}]
         /\ pc' \in [Callers -> PCs]
         /\ \A c \in Callers : pc'[c] = pc[c] \/ (pc[c] = "waiting" /\ pc'[c] = "woken")
<1>1. /\ ack \in [done : BOOLEAN, waiter : Callers \cup {None}] /\ pc \in [Callers -> PCs]
      /\ ack.done = FALSE
  BY DEF IInv, TypeOK, AckInv
<1>2. PICK c \in Callers : pc[c] \in {"wait", "waiting"}
  BY DEF IInv, MsgInv
<1>3. ack' = [done |-> TRUE, waiter |-> None]
  BY <1>1 DEF Acknowledge
<1>4. CASE ack.waiter = None
  <2>1. pc' = pc
    BY <1>1, <1>4 DEF Acknowledge
  <2>2. pc'[c] \in Waiting
    BY <1>2, <2>1 DEF Waiting
  <2> QED
    BY <1>1, <1>3, <2>1, <2>2 DEF IInv, LockInv, AckInv
<1>5. CASE ack.waiter # None
  <2>1. /\ ack.waiter \in Callers /\ pc[ack.waiter] = "waiting"
        /\ pc' = [pc EXCEPT ![ack.waiter] = "woken"]
    BY <1>1, <1>5 DEF Acknowledge, IInv, AckInv
  <2>2. /\ pc' \in [Callers -> PCs]
        /\ pc'[ack.waiter] = "woken" /\ \A d \in Callers \ {ack.waiter} : pc'[d] = pc[d]
    BY <1>1, <2>1 DEF PCs
  <2>3. "woken" \in Waiting /\ "waiting" \in Holding /\ "woken" \in Holding
    BY DEF Waiting, Holding, PCs
  <2>4. LockInv'
    BY <2>1, <2>2, <2>3 DEF IInv, LockInv
  <2>5. AckInv'
    BY <1>3, <2>1, <2>2, <2>3 DEF AckInv
  <2> QED
    BY <1>1, <1>3, <2>1, <2>2, <2>4, <2>5
<1> QED
  BY <1>4, <1>5

\* Taking a message keeps the invariant, if the player goes where its new state
\* says.
LEMMA HandleInv ==
  ASSUME IInv, Handle, pp' \in PPs,
         StateMatchesPlayer'
  PROVE  IInv'
<1>1. /\ mq # <<>> /\ mq' = Tail(mq) /\ state' = StateAfter(Head(mq)) /\ Acknowledge
      /\ UNCHANGED <<uri, lock, fp, op, arg, after>>
  BY DEF Handle, callVars
<1>2. mq \in Seq(Messages) /\ Len(mq) = 1
  BY <1>1 DEF IInv, TypeOK, MsgInv, Messages
<1>3. mq' = <<>> /\ Head(mq) \in Messages
  BY <1>1, <1>2, OnlyMessage
<1>4. /\ LockInv' /\ AckInv'
      /\ ack' \in [done : BOOLEAN, waiter : Callers \cup {None}]
      /\ pc' \in [Callers -> PCs]
      /\ \A c \in Callers : pc'[c] = pc[c] \/ (pc[c] = "waiting" /\ pc'[c] = "woken")
  BY <1>1, <1>3, AcknowledgeInv
<1>5. state' \in {"STOPED", "PLAYING", "PAUSED"}
  BY <1>1, <1>3 DEF StateAfter, Messages
<1>6. TypeOK'
  <2>1. mq' \in Seq({"START", "STOP", "PAUSE", "RESUME"})
    BY <1>3
  <2> QED
    BY <1>1, <1>4, <1>5, <2>1 DEF IInv, TypeOK
<1>7. MsgInv' /\ HeadInv'
  BY <1>3 DEF MsgInv, HeadInv
<1>8. StopInv'
  <2> SUFFICES ASSUME NEW c \in Callers
               PROVE  /\ pc'[c] # "start"
                      /\ pc'[c] \in Waiting /\ after[c] = "start" => state' = "STOPED"
    BY <1>1, <1>3 DEF StopInv
  <2>1. pc[c] # "start"
    BY <1>1 DEF IInv, StopInv
  <2>2. pc'[c] # "start"
    BY <1>4, <2>1
  <2>3. ASSUME pc'[c] \in Waiting, after[c] = "start"
        PROVE  state' = "STOPED"
    <3>1. pc[c] \in Waiting
      BY <1>4, <2>3 DEF Waiting
    <3>2. Head(mq) = "STOP"
      BY <1>1, <2>3, <3>1 DEF IInv, StopInv
    <3> QED
      BY <1>1, <3>2 DEF StateAfter
  <2> QED
    BY <2>2, <2>3
<1> QED
  BY <1>4, <1>6, <1>7, <1>8 DEF IInv

\* Without a message the player may change the state to STOPED only, and while it
\* is not waiting for one.
LEMMA MoveInv ==
  ASSUME IInv, pp' \in PPs, fp' \in Uris \cup {None},
         UNCHANGED <<uri, mq, lock, ack, pc, op, arg, after>>,
         state' = state \/ state' = "STOPED",
         pp' # "paused", StateMatchesPlayer'
  PROVE  IInv'
<1>1. TypeOK'
  BY DEF IInv, TypeOK
<1>2. LockInv' /\ MsgInv' /\ AckInv'
  BY DEF IInv, LockInv, MsgInv, AckInv
<1>3. StopInv'
  BY DEF IInv, StopInv
<1>4. HeadInv'
  BY DEF IInv, HeadInv
<1> QED
  BY <1>1, <1>2, <1>3, <1>4 DEF IInv

\* A step of the player keeps the invariant.
LEMMA PlayerInv ==
  ASSUME IInv, Player
  PROVE  IInv'
<1>1. /\ mq # <<>> => Head(mq) \in Messages
      /\ uri \in Uris \cup {None} /\ fp \in Uris \cup {None}
      /\ state \in {"STOPED", "PLAYING", "PAUSED"}
  BY OnlyMessage DEF IInv, TypeOK, MsgInv, Messages
<1>2. CASE Recv
  <2>1. Handle /\ pp' = (IF Head(mq) = "START" THEN "open" ELSE "recv")
    BY <1>2 DEF Recv
  <2>2. state' = StateAfter(Head(mq)) /\ Head(mq) \in Messages
    BY <1>1, <2>1 DEF Handle
  <2>3. StateMatchesPlayer' /\ pp' \in PPs
    BY <2>1, <2>2 DEF StateMatchesPlayer, StateAfter, Messages, PPs
  <2> QED
    BY <2>1, <2>3, HandleInv
<1>3. CASE Poll
  <2>1. /\ Handle /\ pp' = (IF Head(mq) = "PAUSE" THEN "paused"
                            ELSE IF state' = "STOPED" THEN "close" ELSE "poll")
    BY <1>3 DEF Poll
  <2>2. state' = StateAfter(Head(mq)) /\ Head(mq) \in Messages
    BY <1>1, <2>1 DEF Handle
  <2>3. StateMatchesPlayer' /\ pp' \in PPs
    BY <2>1, <2>2 DEF StateMatchesPlayer, StateAfter, Messages, PPs
  <2> QED
    BY <2>1, <2>3, HandleInv
<1>4. CASE Paused
  <2>1. Handle /\ pp = "paused" /\ pp' = (IF state' = "STOPED" THEN "close" ELSE "poll")
    BY <1>4 DEF Paused
  <2>2. state' = StateAfter(Head(mq)) /\ Head(mq) \in Messages \ {"PAUSE"}
    BY <1>1, <2>1 DEF Handle, IInv, HeadInv
  <2>3. StateMatchesPlayer' /\ pp' \in PPs
    BY <2>1, <2>2 DEF StateMatchesPlayer, StateAfter, Messages, PPs
  <2> QED
    BY <2>1, <2>3, HandleInv
<1>5. CASE OpenFile \/ PollNone \/ Read \/ Write \/ Close
  <2>1. /\ UNCHANGED <<state, uri, mq, lock, ack, pc, op, arg, after>>
        /\ pp' \in PPs \ {"paused"} /\ fp' \in Uris \cup {None}
    BY <1>1, <1>5 DEF OpenFile, PollNone, Read, Write, Close, callVars, PPs
  <2>2. StateMatchesPlayer'
    BY <1>1, <1>5 DEF OpenFile, PollNone, Read, Write, Close, IInv, StateMatchesPlayer
  <2> QED
    BY <2>1, <2>2, MoveInv
<1>6. CASE OpenFails \/ ReadEnd
  <2>1. /\ UNCHANGED <<uri, mq, lock, ack, fp, pc, op, arg, after>> /\ state' = "STOPED"
        /\ pp' \in {"recv", "close"}
    BY <1>6 DEF OpenFails, ReadEnd, callVars
  <2>2. StateMatchesPlayer' /\ pp' \in PPs
    BY <2>1 DEF StateMatchesPlayer, PPs
  <2> QED
    BY <1>1, <2>1, <2>2, MoveInv
<1> QED
  BY <1>2, <1>3, <1>4, <1>5, <1>6 DEF Player

\* The invariant holds in every state the system reaches.
THEOREM InvAlways == Spec => []IInv
<1>1. IInv /\ [Next]_vars => IInv'
  <2> SUFFICES ASSUME IInv, [Next]_vars PROVE IInv'
    OBVIOUS
  <2>1. CASE Next
    BY <2>1, CallerInv, PlayerInv DEF Next
  <2>2. CASE UNCHANGED vars
    BY <2>2 DEF vars, callVars, IInv, TypeOK, LockInv, MsgInv, AckInv, StopInv, HeadInv,
                StateMatchesPlayer
  <2> QED
    BY <2>1, <2>2
<1> QED
  BY <1>1, InvInit, PTL DEF Spec

\* Whoever calls while others wait, at most one message is queued: rt_mq_send
\* finds room every time.
THEOREM OneMessageAlways == Spec => []OneMessage
<1>1. IInv => OneMessage
  <2> SUFFICES ASSUME IInv PROVE Len(mq) <= 1
    BY DEF OneMessage
  <2>1. CASE mq = <<>>
    BY <2>1, EmptySeq
  <2>2. CASE mq # <<>>
    <3>1. MsgInv
      BY Zenon DEF IInv
    <3>2. Len(mq) = 1
      BY Zenon, <2>2, <3>1 DEF MsgInv
    <3> QED
      BY <3>2
  <2> QED
    BY <2>1, <2>2
<1> QED
  BY <1>1, InvAlways, PTL

\* The state that the callers test is the one the player acts by, as long as a
\* file is open.
THEOREM StateAlwaysMatches == Spec => []StateMatchesPlayer
<1>1. IInv => StateMatchesPlayer
  BY DEF IInv
<1> QED
  BY <1>1, InvAlways, PTL

\* A start is taken by the outer loop, never for a resume by the inner ones.
THEOREM StartAlwaysFindsIdle == Spec => []StartFindsIdle
<1>1. IInv => StartFindsIdle
  BY DEF IInv, TypeOK, PPs, HeadInv, StateMatchesPlayer, StartFindsIdle
<1> QED
  BY <1>1, InvAlways, PTL

\* While wav_p works on a file no caller's step changes the uri, the file or where
\* wav_p is: the caller that would start another one knows that wav_p has stopped.
LEMMA CallerLeavesFile ==
  ASSUME IInv, pp \in {"open", "poll", "read", "write", "paused"}, NEW c \in Callers,
         \/ \E o \in Ops \ {"play"} : Call(c, o, None)
         \/ \E u \in Uris : Call(c, "play", u)
         \/ Step(c)
  PROVE  UNCHANGED <<uri, fp, pp>>
<1>1. ASSUME StartPlay(c) PROVE FALSE
  <2>1. state = "STOPED"
    BY <1>1 DEF StartPlay, IInv, StopInv
  <2> QED
    BY <2>1 DEF IInv, StateMatchesPlayer
<1> QED
  BY <1>1 DEF Step, Call, TakeLock, CheckPlay, CheckOther, NestedStop, NestedCheck, Wait,
              Woken, Unlock

\* wavplayer_play frees the uri only while wav_p is not opening a file by it.
THEOREM UriAlwaysStable == Spec => UriStable
<1>1. IInv /\ [Next]_vars => [pp = "open" => uri' = uri]_vars
  <2> SUFFICES ASSUME IInv, Next, pp = "open" PROVE uri' = uri
    OBVIOUS
  <2>1. CASE Player
    BY <2>1 DEF Player, Recv, OpenFile, OpenFails, PollNone, Poll, Paused, Read, ReadEnd,
                Write, Close, Handle
  <2> QED
    BY <2>1, CallerLeavesFile DEF Next
<1> QED
  BY <1>1, InvAlways, PTL DEF Spec, UriStable

\* From the moment a file is opened until it is closed, it is the one the last
\* wavplayer_play asked for.
THEOREM AlwaysPlaysLastUri == Spec => []PlaysLastUri
<1>1. Init => PlaysLastUri
  BY DEF Init, PlaysLastUri
<1>2. IInv /\ PlaysLastUri /\ [Next]_vars => PlaysLastUri'
  <2> SUFFICES ASSUME IInv, PlaysLastUri, [Next]_vars,
                      pp' \in {"poll", "read", "write", "paused"}
               PROVE  fp' = uri'
    BY DEF PlaysLastUri
  <2>1. CASE Player
    BY <2>1 DEF Player, Recv, OpenFile, OpenFails, PollNone, Poll, Paused, Read, ReadEnd,
                Write, Close, Handle, PlaysLastUri
  <2>2. ASSUME NEW c \in Callers,
               \/ \E o \in Ops \ {"play"} : Call(c, o, None)
               \/ \E u \in Uris : Call(c, "play", u)
               \/ Step(c)
        PROVE  fp' = uri'
    <3>1. pp' = pp
      BY <2>2 DEF Step, Call, TakeLock, CheckPlay, CheckOther, NestedStop, NestedCheck,
                  StartPlay, Wait, Woken, Unlock
    <3>2. UNCHANGED <<uri, fp>>
      BY <2>2, <3>1, CallerLeavesFile
    <3> QED
      BY <3>1, <3>2 DEF PlaysLastUri
  <2>3. CASE UNCHANGED vars
    BY <2>3 DEF vars, PlaysLastUri
  <2> QED
    BY <2>1, <2>2, <2>3 DEF Next
<1> QED
  BY <1>1, <1>2, InvAlways, PTL DEF Spec
=============================================================================
