-------------------------- MODULE NesPlayerProofs --------------------------
(***************************************************************************)
(* Proofs about NesPlayer, for mailboxes and a keyboard of any size and    *)
(* any number of games: the display comes back, and LVGL is off while a    *)
(* game draws; the game that is loaded is the one that was asked for; the  *)
(* joypad follows the keyboard; and nothing meant for an earlier game ends *)
(* the one that is played.                                                 *)
(***************************************************************************)
EXTENDS NesPlayer, SequenceTheorems, FiniteSetTheorems, TLAPS

\* Where LVGL has switched the display off and has not sent its message.
Switching == {"test", "again", "playstop", "free", "dup", "start"}

Starts(q) == {i \in 1 .. Len(q) : q[i] # Stop}

\* Who is on the way to a start has a number for it.
CallInv ==
  /\ mb \in Seq(Nat) /\ calls \in Nat
  /\ op # "back" \/ gui \in Switching \cup {"disable"} => calls # Stop

\* Somebody will switch the display on.
BackInv == ~enabled => gui \in Switching \/ player # "recv" \/ Starts(mb) # {}

\* A game that is going to start finds the player idle and the display off, and is
\* the only one, unless the display was switched off too early.
SwitchedInv ==
  ~late =>
    /\ gui \in Switching \/ Starts(mb) # {} => player = "recv" /\ ~enabled
    /\ gui \in Switching => Starts(mb) = {}
    /\ \A i, j \in Starts(mb) : i = j
    /\ player # "recv" => ~enabled

IInv == CallInv /\ BackInv /\ SwitchedInv

-----------------------------------------------------------------------------
(* Messages. *)

\* A stop that is sent is no start.
LEMMA SendStop ==
  ASSUME NEW q \in Seq(Nat)
  PROVE  Append(q, Stop) \in Seq(Nat) /\ Starts(Append(q, Stop)) = Starts(q)
BY DEF Starts, Stop

\* A start that is sent is one more.
LEMMA SendStart ==
  ASSUME NEW q \in Seq(Nat), NEW m \in Nat, m # Stop
  PROVE  /\ Append(q, m) \in Seq(Nat)
         /\ Starts(Append(q, m)) # {}
         /\ q = <<>> => Starts(Append(q, m)) = {1}
<1>1. Append(q, m) \in Seq(Nat) /\ Len(Append(q, m)) = Len(q) + 1
      /\ Append(q, m)[Len(q) + 1] = m /\ Len(q) \in Nat
  OBVIOUS
<1>2. Len(q) + 1 \in Starts(Append(q, m))
  BY <1>1 DEF Starts
<1>3. ASSUME q = <<>> PROVE Starts(Append(q, m)) = {1}
  BY <1>3, <1>1 DEF Starts
<1> QED
  BY <1>1, <1>2, <1>3

\* Taking a message leaves the starts behind it; taking a stop leaves all.
LEMMA TakeOne ==
  ASSUME NEW q \in Seq(Nat), q # <<>>
  PROVE  /\ Tail(q) \in Seq(Nat) /\ Head(q) \in Nat
         /\ \A i \in Starts(Tail(q)) : i + 1 \in Starts(q) /\ i \in Nat \ {0}
         /\ Head(q) = Stop => \A i \in Starts(q) : i - 1 \in Starts(Tail(q))
         /\ Head(q) # Stop => 1 \in Starts(q)
<1>1. /\ Tail(q) \in Seq(Nat) /\ Len(q) \in Nat \ {0} /\ Len(Tail(q)) = Len(q) - 1
      /\ Head(q) = q[1] /\ Head(q) \in Nat
      /\ \A i \in 1 .. Len(q) - 1 : Tail(q)[i] = q[i + 1]
  BY EmptySeq, HeadTailProperties
<1>2. \A i \in Starts(Tail(q)) : i + 1 \in Starts(q) /\ i \in Nat \ {0}
  BY <1>1 DEF Starts
<1>3. ASSUME Head(q) = Stop, NEW i \in Starts(q) PROVE i - 1 \in Starts(Tail(q))
  <2>1. i \in 1 .. Len(q) /\ q[i] # Stop /\ i # 1
    BY <1>1, <1>3 DEF Starts
  <2>2. i - 1 \in 1 .. Len(q) - 1 /\ Tail(q)[i - 1] = q[(i - 1) + 1] /\ (i - 1) + 1 = i
    BY <2>1, <1>1
  <2> QED
    BY <2>1, <2>2, <1>1 DEF Starts
<1>4. Head(q) # Stop => 1 \in Starts(q)
  BY <1>1 DEF Starts
<1> QED
  BY <1>1, <1>2, <1>3, <1>4

-----------------------------------------------------------------------------
\* The initial state.
LEMMA InvInit == Init => IInv
BY DEF Init, IInv, CallInv, BackInv, SwitchedInv, Starts, Switching, Stop

\* A stop that is sent, by the mouse or by LVGL, or refused.
LEMMA InvSendStop ==
  ASSUME IInv, Send(Stop), UNCHANGED <<player, enabled, late, calls, op>>,
         \/ gui' = gui
         \/ gui = "stop" /\ gui' = "delay"
         \/ gui = "playstop" /\ gui' = "free"
  PROVE  IInv'
<1>1. mb' \in Seq(Nat) /\ Starts(mb') = Starts(mb)
  BY SendStop DEF Send, IInv, CallInv
<1>2. gui' \in Switching <=> gui \in Switching
  BY DEF Switching
<1>3. CallInv'
  BY <1>1, <1>2 DEF IInv, CallInv, Switching
<1>4. BackInv'
  BY <1>1, <1>2 DEF IInv, BackInv
<1>5. SwitchedInv'
  BY <1>1, <1>2 DEF IInv, SwitchedInv
<1> QED
  BY <1>3, <1>4, <1>5 DEF IInv

\* A step of LVGL.
LEMMA InvGui ==
  ASSUME IInv, GuiStep, NesAssumption
  PROVE  IInv'
<1> USE DEF Gui, gaming, mail, screen
<1>1. CASE GuiAsk
  <2>1. calls' \in Nat /\ (op' # "back" => calls' # Stop) /\ mb' = mb
    BY <1>1 DEF GuiAsk, IInv, CallInv, Stop
  <2>2. gui \notin Switching /\ gui' \notin Switching \cup {"disable"}
    BY <1>1 DEF GuiAsk, Switching
  <2>3. UNCHANGED <<mb, enabled, late, player>>
    BY <1>1 DEF GuiAsk
  <2> QED
    BY <2>1, <2>2, <2>3 DEF IInv, CallInv, BackInv, SwitchedInv
<1>2. CASE GuiStop
  BY <1>2, InvSendStop DEF GuiStop
<1>3. CASE GuiDelay
  <2>1. UNCHANGED <<mb, enabled, late, player, calls>>
    BY <1>3 DEF GuiDelay
  <2>2. /\ gui \notin Switching /\ gui' \notin Switching /\ op' = "back"
        /\ gui' = "disable" => op # "back"
    BY <1>3 DEF GuiDelay, Switching
  <2> QED
    BY <2>1, <2>2 DEF IInv, CallInv, BackInv, SwitchedInv
<1>4. CASE GuiDisable
  <2>1. UNCHANGED <<mb, player, calls, op>> /\ gui = "disable" /\ gui' = "test"
        /\ enabled' = FALSE /\ late' = (player # "recv")
    BY <1>4 DEF GuiDisable
  <2>2. player = "recv" => Starts(mb) = {}
    BY <1>4 DEF GuiDisable, PlayerSleeps, Starts
  <2>3. CallInv' /\ BackInv'
    BY <2>1 DEF IInv, CallInv, BackInv, Switching
  <2>4. SwitchedInv'
    BY <2>1, <2>2 DEF SwitchedInv
  <2> QED
    BY <2>3, <2>4 DEF IInv
<1>5. CASE GuiTest \/ GuiTestAgain \/ GuiFree \/ GuiDup
  <2>1. UNCHANGED <<mb, enabled, late, player, calls, op>>
        /\ gui \in Switching /\ gui' \in Switching
    BY <1>5 DEF GuiTest, GuiTestAgain, GuiFree, GuiDup, Switching
  <2> QED
    BY <2>1 DEF IInv, CallInv, BackInv, SwitchedInv
<1>6. CASE GuiPlayStop
  BY <1>6, InvSendStop DEF GuiPlayStop
<1>7. CASE GuiStart
  <2>1. UNCHANGED <<enabled, late, player, calls, op>> /\ gui = "start" /\ gui' = "idle"
        /\ Send(calls) /\ gui \in Switching /\ gui' \notin Switching \cup {"disable"}
    BY <1>7 DEF GuiStart, Switching
  <2>2. player = "recv" => mb = <<>>
    BY <1>7 DEF GuiStart, PlayerSleeps
  <2>3. calls \in Nat /\ calls # Stop /\ mb \in Seq(Nat)
    BY <2>1 DEF IInv, CallInv
  <2>4. CASE HasRoom
    <3>1. mb' = Append(mb, calls)
      BY <2>1, <2>4 DEF Send
    <3>2. mb' \in Seq(Nat) /\ Starts(mb') # {} /\ (player = "recv" => Starts(mb') = {1})
      BY <3>1, <2>2, <2>3, SendStart
    <3> QED
      BY <3>2, <2>1 DEF IInv, CallInv, BackInv, SwitchedInv
  <2>5. CASE ~HasRoom
    <3>1. mb' = mb
      BY <2>1, <2>5 DEF Send
    <3>2. player # "recv"
      BY <2>2, <2>5 DEF HasRoom, NesAssumption
    <3> QED
      BY <3>1, <3>2, <2>1 DEF IInv, CallInv, BackInv, SwitchedInv
  <2> QED
    BY <2>4, <2>5
<1> QED
  BY <1>1, <1>2, <1>3, <1>4, <1>5, <1>6, <1>7 DEF GuiStep

\* A step of the player that takes no message.
LEMMA InvQuiet ==
  ASSUME IInv, UNCHANGED <<mb, enabled, late, calls, op, gui>>,
         player # "recv", player' # "recv"
  PROVE  IInv'
BY DEF IInv, CallInv, BackInv, SwitchedInv

\* A step of the player.
LEMMA InvPlayer ==
  ASSUME IInv, PlayerStep
  PROVE  IInv'
<1> USE DEF Player, mail, screen, caller
<1>1. CASE PlayerTake
  <2>1. UNCHANGED <<enabled, late, calls, op, gui>> /\ player = "recv"
        /\ mb # <<>> /\ mb' = Tail(mb) /\ mb \in Seq(Nat)
    BY <1>1 DEF PlayerTake, IInv, CallInv
  <2>2. /\ mb' \in Seq(Nat)
        /\ \A i \in Starts(mb') : i + 1 \in Starts(mb) /\ i \in Nat \ {0}
        /\ Head(mb) = Stop => \A i \in Starts(mb) : i - 1 \in Starts(mb')
        /\ Head(mb) # Stop => 1 \in Starts(mb)
    BY <2>1, TakeOne
  <2>3. CallInv'
    BY <2>1, <2>2 DEF IInv, CallInv
  <2>4. CASE Head(mb) = Stop
    <3>1. player' = "recv"
      BY <1>1, <2>1, <2>4 DEF PlayerTake, IsStart
    <3>2. Starts(mb') = {} <=> Starts(mb) = {}
      BY <2>2, <2>4
    <3>3. ASSUME \A i, j \in Starts(mb) : i = j, NEW i \in Starts(mb'), NEW j \in Starts(mb')
          PROVE  i = j
      BY <2>2, <3>3
    <3> QED
      BY <2>1, <2>3, <3>1, <3>2, <3>3 DEF IInv, BackInv, SwitchedInv
  <2>5. CASE Head(mb) # Stop
    <3>1. player' = "reset"
      BY <1>1, <2>1, <2>5 DEF PlayerTake, IsStart
    <3>2. ASSUME \A i, j \in Starts(mb) : i = j PROVE Starts(mb') = {}
      <4> SUFFICES ASSUME NEW i \in Starts(mb') PROVE FALSE
        OBVIOUS
      <4>1. i + 1 \in Starts(mb) /\ 1 \in Starts(mb) /\ i \in Nat \ {0}
        BY <2>2, <2>5
      <4> QED
        BY <4>1, <3>2
    <3>3. BackInv'
      BY <3>1 DEF BackInv
    <3>4. ASSUME ~late PROVE ~enabled /\ Starts(mb') = {} /\ gui \notin Switching
      BY <3>4, <3>2, <2>2, <2>5 DEF IInv, SwitchedInv
    <3>5. SwitchedInv'
      BY <3>4, <2>1 DEF SwitchedInv
    <3> QED
      BY <2>3, <3>3, <3>5 DEF IInv
  <2> QED
    BY <2>4, <2>5
<1>2. CASE PlayerPoll
  <2>1. UNCHANGED <<enabled, late, calls, op, gui>> /\ player # "recv" /\ player' # "recv"
        /\ (mb' = mb \/ (mb # <<>> /\ mb' = Tail(mb))) /\ mb \in Seq(Nat)
    BY <1>2 DEF PlayerPoll, IInv, CallInv
  <2>2. mb' \in Seq(Nat) /\ (Starts(mb) = {} => Starts(mb') = {})
    BY <2>1, TakeOne
  <2> QED
    BY <2>1, <2>2 DEF IInv, CallInv, BackInv, SwitchedInv
<1>3. CASE PlayerEnable
  BY <1>3 DEF PlayerEnable, IInv, CallInv, BackInv, SwitchedInv
<1>4. CASE PlayerReset \/ PlayerMark \/ PlayerClear \/ PlayerOpen \/ PlayerRead
  BY <1>4, InvQuiet DEF PlayerReset, PlayerMark, PlayerClear, PlayerOpen, PlayerRead
<1>5. CASE PlayerFails \/ PlayerFrame \/ PlayerKey
  BY <1>5, InvQuiet DEF PlayerFails, PlayerFrame, PlayerKey, AfterFailure
<1>6. CASE PlayerSound \/ PlayerClose \/ PlayerStopped
  BY <1>6, InvQuiet DEF PlayerSound, PlayerClose, PlayerStopped
<1> QED
  BY <1>1, <1>2, <1>3, <1>4, <1>5, <1>6 DEF PlayerStep

\* Every step.
LEMMA InvNext ==
  ASSUME IInv, [Next]_vars, NesAssumption
  PROVE  IInv'
<1>1. CASE MouseStop
  BY <1>1, InvSendStop DEF MouseStop, screen, caller
<1>2. CASE KeyReport
  <2>1. UNCHANGED <<mb, enabled, late, calls, op, gui, player>>
    BY <1>2 DEF KeyReport, mail, screen, caller
  <2> QED
    BY <2>1 DEF IInv, CallInv, BackInv, SwitchedInv
<1>3. CASE UNCHANGED vars
  BY <1>3 DEF vars, mail, screen, caller, IInv, CallInv, BackInv, SwitchedInv
<1> QED
  BY <1>1, <1>2, <1>3, InvGui, InvPlayer DEF Next

\* The invariant holds in every reachable state.
LEMMA InvAlways == Spec => []IInv
<1>1. NesAssumption
  BY NesAssumption
<1> QED
  BY <1>1, InvInit, InvNext, PTL DEF Spec

-----------------------------------------------------------------------------
\* With nobody between disp_disable_update and its message, and nothing to play, the
\* display is on, whatever was refused, lost or stopped before.
THEOREM DisplayAlwaysReturns == Spec => []DisplayReturns
<1>1. IInv => DisplayReturns
  BY DEF IInv, BackInv, DisplayReturns, Switching, Starts
<1> QED
  BY <1>1, InvAlways, PTL

\* LVGL is off while a game draws whose caller switched it off after the last game.
THEOREM GameAlwaysOwnsDisplay == Spec => []GameOwnsDisplay
<1>1. IInv => GameOwnsDisplay
  BY DEF IInv, SwitchedInv, GameOwnsDisplay
<1> QED
  BY <1>1, InvAlways, PTL

-----------------------------------------------------------------------------
(* Reports of the keyboard and the events they become. *)

\* Nth counts through a set of slots: every number up to its size is the place of
\* one slot.
LEMMA NthSlot ==
  ASSUME NEW N \in Nat, NEW S \in SUBSET (1 .. N)
  PROVE  /\ Cardinality(S) \in Nat
         /\ \A n \in 1 .. Cardinality(S) : Nth(S, n) \in S
         /\ \A n, m \in 1 .. Cardinality(S) : Nth(S, n) = Nth(S, m) => n = m
         /\ \A i \in S : \E n \in 1 .. Cardinality(S) : Nth(S, n) = i
<1> DEFINE Upto(i) == {j \in S : j <= i}
           size == Cardinality(S)
           place == [i \in S |-> Cardinality(Upto(i))]
<1>1. IsFiniteSet(S) /\ size \in Nat /\ S \subseteq Nat
  <2>1. IsFiniteSet(1 .. N)
    BY FS_Interval
  <2>2. IsFiniteSet(S)
    BY <2>1, FS_Subset
  <2> QED
    BY <2>2, FS_CardinalityType
<1>2. ASSUME NEW i \in S
      PROVE  /\ IsFiniteSet(Upto(i)) /\ Cardinality(Upto(i)) \in 1 .. size
  <2>1. Upto(i) \in SUBSET S /\ i \in Upto(i)
    OBVIOUS
  <2>2. IsFiniteSet(Upto(i)) /\ Cardinality(Upto(i)) <= size
    BY <1>1, <2>1, FS_Subset
  <2>3. Cardinality(Upto(i)) \in Nat /\ Cardinality(Upto(i)) # 0
    BY <2>1, <2>2, FS_CardinalityType, FS_EmptySet
  <2> HIDE DEF Upto, size
  <2> QED
    BY <1>1, <2>2, <2>3
<1>3. ASSUME NEW i \in S, NEW j \in S, Cardinality(Upto(i)) = Cardinality(Upto(j))
      PROVE  i = j
  <2>1. ASSUME NEW a \in S, NEW b \in S, a <= b, Cardinality(Upto(a)) = Cardinality(Upto(b))
        PROVE  a = b
    <3>1. Upto(a) \in SUBSET Upto(b)
      <4>1. ASSUME NEW e \in S, e <= a PROVE e <= b
        <5>1. e \in Nat /\ a \in Nat /\ b \in Nat
          BY <1>1
        <5>2. a <= b
          BY <2>1
        <5> HIDE DEF Upto, place, size
        <5> QED
          BY <4>1, <5>1, <5>2
      <4> QED
        BY <4>1
    <3>2. Upto(a) = Upto(b)
      BY <1>2, <2>1, <3>1, FS_Subset
    <3>3. b \in Upto(b)
      OBVIOUS
    <3>4. b <= a
      BY <3>2, <3>3
    <3> QED
      BY <2>1, <3>4
  <2> QED
    BY <1>3, <2>1
<1>4. place \in [S -> 1 .. size]
  BY <1>2
<1>5. place \in Injection(S, 1 .. size)
  BY <1>3, <1>4 DEF Injection, IsInjective
<1>6. IsFiniteSet(1 .. size) /\ Cardinality(1 .. size) = size
  BY <1>1, FS_Interval
<1>7. place \in Surjection(S, 1 .. size)
  <2> HIDE DEF place
  <2>1. Cardinality(S) = Cardinality(1 .. size)
    BY <1>6
  <2> QED
    BY <1>5, <1>6, <2>1, FS_Injection
<1>8. ASSUME NEW n \in 1 .. size PROVE \E i \in S : Cardinality(Upto(i)) = n
  BY <1>7 DEF Surjection
<1>9. ASSUME NEW n \in 1 .. size
      PROVE  Nth(S, n) \in S /\ Cardinality(Upto(Nth(S, n))) = n
  BY <1>8 DEF Nth
<1>10. ASSUME NEW n \in 1 .. size, NEW m \in 1 .. size, Nth(S, n) = Nth(S, m)
       PROVE  n = m
  <2>1. Cardinality(Upto(Nth(S, n))) = n /\ Cardinality(Upto(Nth(S, m))) = m
    BY <1>9
  <2> HIDE DEF Upto
  <2> QED
    BY <1>10, <2>1
<1>11. ASSUME NEW i \in S PROVE \E n \in 1 .. size : Nth(S, n) = i
  <2>1. Cardinality(Upto(i)) \in 1 .. size
    BY <1>2
  <2>2. PICK n \in 1 .. size : n = Cardinality(Upto(i))
    BY <2>1
  <2>3. Nth(S, n) \in S /\ Cardinality(Upto(Nth(S, n))) = Cardinality(Upto(i))
    BY <1>9, <2>2
  <2>4. Nth(S, n) = i
    BY <1>3, <2>3
  <2> QED
    BY <2>4
<1> QED
  BY <1>1, <1>9, <1>10, <1>11

\* Each slot that changed is one event.
LEMMA EventsOfSlots ==
  ASSUME NesAssumption, NEW old \in Reports, NEW new \in Reports
  PROVE  LET ev == Events(old, new)
             S == Changed(old, new)
         IN  /\ Len(ev) = Cardinality(S) /\ Len(ev) \in Nat
             /\ DOMAIN ev = 1 .. Len(ev)
             /\ ev \in Seq(Keys \X {"press", "release"})
             /\ \A n \in 1 .. Len(ev) : Nth(S, n) \in S /\ ev[n] = Event(old, new, Nth(S, n))
             /\ \A n, m \in 1 .. Len(ev) : Nth(S, n) = Nth(S, m) => n = m
             /\ \A i \in S : \E n \in 1 .. Len(ev) : Nth(S, n) = i
<1> DEFINE ev == Events(old, new)
           S == Changed(old, new)
<1>1. S \in SUBSET (1 .. Slots) /\ Slots \in Nat
  BY DEF Changed, NesAssumption
<1>2. /\ Cardinality(S) \in Nat
      /\ \A n \in 1 .. Cardinality(S) : Nth(S, n) \in S
      /\ \A n, m \in 1 .. Cardinality(S) : Nth(S, n) = Nth(S, m) => n = m
      /\ \A i \in S : \E n \in 1 .. Cardinality(S) : Nth(S, n) = i
  <2> HIDE DEF S
  <2> QED
    BY <1>1, NthSlot
<1>3. ev = [n \in 1 .. Cardinality(S) |-> Event(old, new, Nth(S, n))]
  BY DEF Events
<1>4. ASSUME NEW i \in S
      PROVE  Event(old, new, i) \in Keys \X {"press", "release"}
  BY DEF Changed, Event, Reports
<1> HIDE DEF ev, S
<1>5. ev \in [1 .. Cardinality(S) -> Keys \X {"press", "release"}]
  BY <1>2, <1>3, <1>4
<1>6. ev \in Seq(Keys \X {"press", "release"}) /\ Len(ev) = Cardinality(S)
  BY <1>2, <1>5
<1> QED
  BY <1>2, <1>3, <1>5, <1>6 DEF ev, S

\* One event of a key, and none.
OneEvent(ev, k, kind) ==
  \E n \in 1 .. Len(ev) : ev[n] = <<k, kind>> /\ \A m \in 1 .. Len(ev) \ {n} : ev[m][1] # k
NoEvent(ev, k) == \A m \in 1 .. Len(ev) : ev[m][1] # k

\* A key that came is one press, a key that went is one release, and no other key
\* is in an event, if it kept its slot and no other key took it.
LEMMA EventsOfKey ==
  ASSUME NesAssumption, NEW old \in Reports, NEW new \in Reports,
         NEW k \in Keys, k \notin Moved(old, new)
  PROVE  /\ k \in Down(new) \ Down(old) => OneEvent(Events(old, new), k, "press")
         /\ k \in Down(old) \ Down(new) => OneEvent(Events(old, new), k, "release")
         /\ (k \in Down(old) <=> k \in Down(new)) => NoEvent(Events(old, new), k)
<1> DEFINE ev == Events(old, new)
           S == Changed(old, new)
<1>1. /\ Len(ev) \in Nat
      /\ \A n \in 1 .. Len(ev) : Nth(S, n) \in S /\ ev[n] = Event(old, new, Nth(S, n))
      /\ \A n, m \in 1 .. Len(ev) : Nth(S, n) = Nth(S, m) => n = m
      /\ \A i \in S : \E n \in 1 .. Len(ev) : Nth(S, n) = i
  BY EventsOfSlots
<1>2. k # NoKey
  BY DEF Keys, NesAssumption
<1>3. \A i \in 1 .. Slots : old[i] = k /\ new[i] # k => new[i] = NoKey /\ k \notin Down(new)
  BY DEF Moved
<1>4. ASSUME NEW i \in S
      PROVE  /\ i \in 1 .. Slots
             /\ new[i] = k => Event(old, new, i) = <<k, "press">> /\ k \in Down(new) \ Down(old)
             /\ new[i] # k /\ old[i] = k =>
                  Event(old, new, i) = <<k, "release">> /\ k \in Down(old) \ Down(new)
             /\ Event(old, new, i)[1] = k => new[i] = k \/ old[i] = k
  <2>1. i \in 1 .. Slots /\ old[i] # new[i]
    BY DEF Changed
  <2>3. ASSUME new[i] = k
        PROVE  Event(old, new, i) = <<k, "press">> /\ k \in Down(new) \ Down(old)
    <3>1. Event(old, new, i) = <<k, "press">> /\ k \in Down(new)
      BY <1>2, <2>1, <2>3 DEF Event, Down
    <3>2. ASSUME NEW j \in 1 .. Slots, old[j] = k PROVE FALSE
      <4>1. j # i
        BY <2>1, <2>3, <3>2
      <4>2. new[j] # k
        BY <1>2, <2>1, <2>3, <4>1 DEF Reports
      <4> QED
        BY <1>3, <3>1, <3>2, <4>2
    <3> QED
      BY <3>1, <3>2 DEF Down
  <2>4. ASSUME new[i] # k, old[i] = k
        PROVE  Event(old, new, i) = <<k, "release">> /\ k \in Down(old) \ Down(new)
    BY <1>2, <1>3, <2>1, <2>4 DEF Event, Down
  <2>5. Event(old, new, i)[1] = k => new[i] = k \/ old[i] = k
    BY DEF Event
  <2> QED
    BY <2>1, <2>3, <2>4, <2>5
<1>5. ASSUME NEW i \in S, NEW j \in S, new[i] = k \/ old[i] = k, new[j] = k \/ old[j] = k
      PROVE  i = j
  <2>1. i \in 1 .. Slots /\ j \in 1 .. Slots
    BY <1>4
  <2>2. CASE new[i] = k
    <3>1. new[j] = k
      BY <1>4, <1>5, <2>2
    <3> QED
      BY <1>2, <2>1, <2>2, <3>1 DEF Reports
  <2>3. CASE new[i] # k
    <3>1. old[i] = k /\ old[j] = k
      BY <1>4, <1>5, <2>3
    <3> QED
      BY <1>2, <2>1, <3>1 DEF Reports
  <2> QED
    BY <2>2, <2>3
<1>6. ASSUME NEW i \in S, new[i] = k \/ old[i] = k
      PROVE  \E n \in 1 .. Len(ev) : /\ ev[n] = Event(old, new, i)
                                     /\ \A m \in 1 .. Len(ev) \ {n} : ev[m][1] # k
  <2>1. PICK n \in 1 .. Len(ev) : Nth(S, n) = i
    BY <1>1
  <2>2. ASSUME NEW m \in 1 .. Len(ev) \ {n}, ev[m][1] = k PROVE FALSE
    <3>1. Nth(S, m) \in S /\ ev[m] = Event(old, new, Nth(S, m))
      BY <1>1
    <3>2. new[Nth(S, m)] = k \/ old[Nth(S, m)] = k
      BY <1>4, <2>2, <3>1
    <3>3. Nth(S, m) = i
      BY <1>5, <1>6, <3>1, <3>2
    <3> QED
      BY <1>1, <2>1, <3>3
  <2> QED
    BY <1>1, <2>1, <2>2
<1>7. ASSUME k \in Down(new) \ Down(old) PROVE \E i \in S : new[i] = k
  BY <1>2, <1>7 DEF Down, Changed
<1>8. ASSUME k \in Down(old) \ Down(new) PROVE \E i \in S : new[i] # k /\ old[i] = k
  BY <1>2, <1>8 DEF Down, Changed
<1>9. ASSUME k \in Down(old) <=> k \in Down(new) PROVE NoEvent(ev, k)
  BY <1>1, <1>4, <1>9 DEF NoEvent
<1> HIDE DEF ev, S
<1>10. ASSUME k \in Down(new) \ Down(old)
       PROVE  OneEvent(ev, k, "press")
  BY <1>4, <1>6, <1>7, <1>10 DEF OneEvent
<1>11. ASSUME k \in Down(old) \ Down(new)
       PROVE  OneEvent(ev, k, "release")
  BY <1>4, <1>6, <1>8, <1>11 DEF OneEvent
<1> QED
  BY <1>9, <1>10, <1>11 DEF ev

-----------------------------------------------------------------------------
(* Type correctness. *)

\* The keyboard reports no key in two slots.
TypeInv == TypeOK /\ slots \in Reports

\* The keys of events are keys.
LEMMA KeysOfEvents ==
  ASSUME NEW q \in Seq(Keys \X {"press", "release"}), NEW n \in Nat \ {0}
  PROVE  KeysOf(q, n) \subseteq Keys
BY DEF KeysOf

\* What fits into the mailbox of keys.
LEMMA FittingOK ==
  ASSUME NesAssumption, NEW T, NEW q \in Seq(T)
  PROVE  /\ Fitting(q) \in Seq(T) /\ Len(Fitting(q)) <= KeySize
         /\ Len(q) <= KeySize => Fitting(q) = q
         /\ \A n \in 1 .. Len(Fitting(q)) : n \in 1 .. Len(q) /\ Fitting(q)[n] = q[n]
         /\ Len(Fitting(q)) = IF Len(q) < KeySize THEN Len(q) ELSE KeySize
<1> DEFINE size == IF Len(q) < KeySize THEN Len(q) ELSE KeySize
<1>1. Len(q) \in Nat /\ KeySize \in Nat /\ size \in Nat /\ size <= Len(q) /\ size <= KeySize
  BY DEF NesAssumption
<1>2. /\ Fitting(q) = [n \in 1 .. size |-> q[n]]
      /\ \A n \in 1 .. size : n \in 1 .. Len(q) /\ q[n] \in T
  BY <1>1 DEF Fitting
<1>3. Len(q) <= KeySize => size = Len(q)
  BY <1>1
<1> HIDE DEF size
<1>4. Fitting(q) \in Seq(T) /\ Len(Fitting(q)) = size
  BY <1>1, <1>2
<1>5. ASSUME Len(q) <= KeySize PROVE Fitting(q) = q
  <2>1. Fitting(q) = [n \in 1 .. Len(q) |-> q[n]]
    BY <1>2, <1>3, <1>5
  <2>2. q = [n \in 1 .. Len(q) |-> q[n]]
    OBVIOUS
  <2> QED
    BY <2>1, <2>2
<1> QED
  BY <1>1, <1>2, <1>4, <1>5 DEF size

\* What a mailbox holds after a message was sent to it, or taken.
LEMMA Sent ==
  ASSUME NEW T, NEW q \in Seq(T), NEW m \in T
  PROVE  /\ Append(q, m) \in Seq(T) /\ Append(q, m) # <<>> /\ Len(q) \in Nat
         /\ Len(Append(q, m)) = Len(q) + 1
         /\ \A i \in 1 .. Len(q) : Append(q, m)[i] = q[i]
         /\ Append(q, m)[Len(q) + 1] = m
OBVIOUS

\* What a mailbox holds after its first message was taken.
LEMMA Taken ==
  ASSUME NEW T, NEW q \in Seq(T), q # <<>>
  PROVE  /\ Tail(q) \in Seq(T) /\ Head(q) \in T /\ Head(q) = q[1]
         /\ Len(q) \in Nat \ {0} /\ Len(Tail(q)) = Len(q) - 1
         /\ \A i \in 1 .. Len(q) - 1 : Tail(q)[i] = q[i + 1]
         /\ Tail(q) # <<>> => Tail(q)[Len(Tail(q))] = q[Len(q)]
<1>1. /\ Tail(q) \in Seq(T) /\ Head(q) \in T /\ Head(q) = q[1]
      /\ Len(q) \in Nat \ {0} /\ Len(Tail(q)) = Len(q) - 1
      /\ \A i \in 1 .. Len(q) - 1 : Tail(q)[i] = q[i + 1]
  BY EmptySeq, HeadTailProperties
<1>2. ASSUME Tail(q) # <<>> PROVE Len(q) - 1 \in 1 .. Len(q) - 1
  BY <1>1, <1>2, EmptySeq
<1> QED
  BY <1>1, <1>2

\* A bound that is kept while messages are taken.
LEMMA TakenFits ==
  ASSUME NEW T, NEW q \in Seq(T), NEW n \in Nat, Len(q) <= n, q # <<>>
  PROVE  Tail(q) \in Seq(T) /\ Len(Tail(q)) <= n
<1>1. Tail(q) \in Seq(T) /\ Len(q) \in Nat /\ Len(Tail(q)) = Len(q) - 1
  BY Taken
<1> QED
  BY <1>1

\* An empty mailbox of keys.
LEMMA NoEvents ==
  ASSUME NesAssumption
  PROVE  /\ <<>> \in Seq(Keys \X {"press", "release"}) /\ Len(<<>>) <= KeySize
         /\ <<>> \in Seq(Calls \cup {Stop}) /\ Len(<<>>) <= MbSize
<1>1. KeySize \in Nat /\ MbSize \in Nat
  BY DEF NesAssumption
<1>2. Len(<<>>) = 0
  OBVIOUS
<1> QED
  BY <1>1, <1>2

\* Sending, if it succeeds, keeps the mailbox in its bounds.
LEMMA SendType ==
  ASSUME NesAssumption, TypeOK, NEW m \in Calls \cup {Stop}, Send(m)
  PROVE  /\ mb' \in Seq(Calls \cup {Stop}) /\ Len(mb') <= MbSize
         /\ asked' \in Calls \cup {Stop} /\ over' \in BOOLEAN
<1>1. mb \in Seq(Calls \cup {Stop}) /\ Len(mb) <= MbSize /\ asked \in Calls \cup {Stop}
      /\ over \in BOOLEAN
  BY DEF TypeOK
<1>2. CASE HasRoom
  BY <1>1, <1>2, Sent DEF Send, HasRoom, NesAssumption
<1>3. CASE ~HasRoom
  BY <1>1, <1>3 DEF Send
<1> QED
  BY <1>2, <1>3

\* The initial state has its types.
LEMMA TypeInit == ASSUME NesAssumption, Init PROVE TypeInv
<1>1. [i \in 1 .. Slots |-> NoKey] \in Reports
  BY DEF Reports
<1>2. /\ state = "STOPPED" /\ mb = <<>> /\ keys = <<>>
      /\ uri = Dangling /\ path = Dangling /\ file = Dangling /\ quit = FALSE
      /\ joypad = {} /\ slots = [i \in 1 .. Slots |-> NoKey]
      /\ enabled = TRUE
      /\ player = "recv" /\ gui = "idle" /\ op = "back" /\ calls = 0
      /\ asked = Stop /\ game = 0 /\ over = FALSE /\ late = FALSE
      /\ held = {} /\ spoilt = {} /\ escaped = FALSE
  BY DEF Init
<1>3. /\ mb \in Seq(Calls \cup {Stop}) /\ Len(mb) <= MbSize
      /\ keys \in Seq(Keys \X {"press", "release"}) /\ Len(keys) <= KeySize
  BY <1>2, NoEvents
<1>4. slots \in [1 .. Slots -> Keys \cup {NoKey}] /\ slots \in Reports
  BY <1>1, <1>2
<1>5. calls \in 0 .. MaxCalls /\ game \in 0 .. MaxCalls
  BY <1>2 DEF NesAssumption
<1> QED
  BY <1>2, <1>3, <1>4, <1>5 DEF TypeInv, TypeOK, Dangling

\* A step of LVGL or the mouse.
LEMMA TypeGui ==
  ASSUME NesAssumption, TypeInv, GuiStep \/ MouseStop
  PROVE  TypeInv'
<1> USE DEF Gui, gaming, mail, screen, loading, keyboard, caller
<1>1. Stop \in Calls \cup {Stop} /\ calls \in 0 .. MaxCalls /\ calls \in Calls \cup {Stop}
  BY DEF TypeInv, TypeOK, Calls, Stop, NesAssumption
<1>2. CASE MouseStop \/ GuiStop \/ GuiPlayStop \/ GuiStart
  <2>1. /\ mb' \in Seq(Calls \cup {Stop}) /\ Len(mb') <= MbSize
        /\ asked' \in Calls \cup {Stop} /\ over' \in BOOLEAN
    BY <1>1, <1>2, SendType DEF MouseStop, GuiStop, GuiPlayStop, GuiStart, TypeInv
  <2>2. UNCHANGED <<state, keys, uri, path, file, quit, joypad, slots, enabled, late, player, op,
                    calls, game, held, spoilt, escaped>>
        /\ (gui' = gui \/ gui' \in {"delay", "free", "idle"})
    BY <1>2 DEF MouseStop, GuiStop, GuiPlayStop, GuiStart
  <2> QED
    BY <2>1, <2>2 DEF TypeInv, TypeOK
<1>3. CASE GuiAsk
  <2>1. UNCHANGED <<state, mb, keys, uri, path, file, quit, joypad, slots, enabled, late, player,
                    asked, over, game, held, spoilt, escaped>>
        /\ gui' \in {"stop", "delay"} /\ op' \in {"play", "back"} /\ calls' \in 0 .. MaxCalls
    BY <1>1, <1>3 DEF GuiAsk, NesAssumption
  <2> QED
    BY <2>1 DEF TypeInv, TypeOK
<1>4. CASE GuiDelay \/ GuiDisable \/ GuiTest \/ GuiTestAgain
  <2>1. UNCHANGED <<state, mb, keys, uri, path, file, quit, joypad, slots, player,
                    asked, over, game, held, spoilt, escaped, calls>>
        /\ gui' \in {"idle", "disable", "test", "again", "playstop", "free"} /\ op' \in {op, "back"}
        /\ enabled' \in BOOLEAN /\ late' \in BOOLEAN
    BY <1>4 DEF GuiDelay, GuiDisable, GuiTest, GuiTestAgain, TypeInv, TypeOK
  <2> QED
    BY <2>1 DEF TypeInv, TypeOK
<1>5. CASE GuiFree \/ GuiDup
  <2>1. UNCHANGED <<state, mb, keys, file, quit, joypad, slots, enabled, late, player,
                    asked, over, game, held, spoilt, escaped, op, calls>>
        /\ gui' \in {"dup", "start"} /\ uri' \in {Dangling, calls} /\ path' \in {Dangling, path}
    BY <1>5 DEF GuiFree, GuiDup
  <2> QED
    BY <1>1, <2>1 DEF TypeInv, TypeOK, Dangling, Stop
<1> QED
  BY <1>2, <1>3, <1>4, <1>5 DEF GuiStep

\* A report of the keyboard.
LEMMA TypeKey ==
  ASSUME NesAssumption, TypeInv, KeyReport
  PROVE  TypeInv'
<1>1. PICK new \in Reports :
        /\ slots' = new
        /\ IF state = "PLAYING"
           THEN /\ keys' = Fitting(keys \o Events(slots, new))
                /\ held' = (held \cup (Down(new) \ Down(slots))) \cap Down(new)
                /\ spoilt' = (spoilt \ KeysOf(Events(slots, new), 1)) \cup Moved(slots, new)
                             \cup KeysOf(keys \o Events(slots, new), KeySize + 1)
                /\ escaped' = (escaped \/ Left(slots, new, Esc))
           ELSE UNCHANGED <<keys, held, spoilt, escaped>>
        /\ UNCHANGED <<state, mail, screen, loading, quit, joypad, player, caller, game>>
  BY DEF KeyReport
<1>2. new \in [1 .. Slots -> Keys \cup {NoKey}] /\ Down(new) \subseteq Keys
  BY DEF Reports, Down
<1>3. keys \o Events(slots, new) \in Seq(Keys \X {"press", "release"})
  <2>1. Events(slots, new) \in Seq(Keys \X {"press", "release"})
    BY EventsOfSlots DEF TypeInv
  <2> QED
    BY <2>1, ConcatProperties DEF TypeInv, TypeOK
<1>4. keys' \in Seq(Keys \X {"press", "release"}) /\ Len(keys') <= KeySize
  <2>1. /\ Fitting(keys \o Events(slots, new)) \in Seq(Keys \X {"press", "release"})
        /\ Len(Fitting(keys \o Events(slots, new))) <= KeySize
    BY <1>3, FittingOK
  <2> QED
    BY <1>1, <2>1, Zenon DEF TypeInv, TypeOK
<1>5. held' \subseteq Keys /\ escaped' \in BOOLEAN
  BY <1>1, <1>2 DEF TypeInv, TypeOK
<1>6. spoilt' \subseteq Keys
  <2>1. KeySize + 1 \in Nat \ {0}
    BY DEF NesAssumption
  <2>2. KeysOf(keys \o Events(slots, new), KeySize + 1) \subseteq Keys
    BY <1>3, <2>1, KeysOfEvents
  <2>3. Moved(slots, new) \subseteq Keys /\ spoilt \subseteq Keys
    BY DEF Moved, TypeInv, TypeOK
  <2> QED
    BY <1>1, <2>2, <2>3
<1> QED
  BY <1>1, <1>2, <1>4, <1>5, <1>6 DEF TypeInv, TypeOK, mail, screen, loading, caller

\* A step of the player.
LEMMA TypePlayer ==
  ASSUME NesAssumption, TypeInv, PlayerStep
  PROVE  TypeInv'
<1> USE DEF Player, mail, screen, loading, keyboard, caller
<1>1. CASE PlayerTake
  <2>1. mb # <<>> /\ mb' = Tail(mb) /\ mb \in Seq(Calls \cup {Stop}) /\ Len(mb) <= MbSize
    BY <1>1 DEF PlayerTake, TypeInv, TypeOK
  <2>2. mb' \in Seq(Calls \cup {Stop}) /\ Len(mb') <= MbSize /\ Head(mb) \in Calls \cup {Stop}
    BY <2>1, Taken DEF NesAssumption
  <2>3. UNCHANGED <<state, asked, over, keyboard, screen, loading, quit, joypad, caller>>
        /\ (game' = Head(mb) \/ game' = game) /\ player' \in {"recv", "reset"}
    BY <1>1 DEF PlayerTake
  <2>4. game' \in 0 .. MaxCalls
    BY <2>2, <2>3 DEF TypeInv, TypeOK, Calls, Stop, NesAssumption
  <2> QED
    BY <2>2, <2>3, <2>4 DEF TypeInv, TypeOK
<1>2. CASE PlayerPoll
  <2>1. mb \in Seq(Calls \cup {Stop}) /\ Len(mb) <= MbSize /\ (mb' = mb \/ (mb # <<>> /\ mb' = Tail(mb)))
    BY <1>2 DEF PlayerPoll, TypeInv, TypeOK
  <2>2. mb' \in Seq(Calls \cup {Stop}) /\ Len(mb') <= MbSize
    BY <2>1, TakenFits DEF NesAssumption
  <2>3. UNCHANGED <<state, asked, over, keyboard, screen, loading, joypad, caller, game>>
        /\ quit' \in BOOLEAN /\ player' = "key"
    BY <1>2 DEF PlayerPoll, TypeInv, TypeOK
  <2> QED
    BY <2>2, <2>3 DEF TypeInv, TypeOK
<1>3. CASE PlayerKey
  <2>1. keys \in Seq(Keys \X {"press", "release"}) /\ Len(keys) <= KeySize
        /\ (keys' = keys \/ (keys # <<>> /\ keys' = Tail(keys)))
    BY <1>3 DEF PlayerKey, TypeInv, TypeOK
  <2>2. keys' \in Seq(Keys \X {"press", "release"}) /\ Len(keys') <= KeySize
    BY <2>1, TakenFits DEF NesAssumption
  <2>3. UNCHANGED <<state, mail, slots, held, spoilt, escaped, screen, loading, caller, game>>
        /\ quit' \in BOOLEAN /\ player' = "sound" /\ joypad' \subseteq Buttons
    BY <1>3 DEF PlayerKey, TypeInv, TypeOK
  <2> QED
    BY <2>2, <2>3 DEF TypeInv, TypeOK
<1>4. CASE PlayerReset \/ PlayerMark \/ PlayerClear \/ PlayerRead
  <2>1. /\ UNCHANGED <<mail, slots, held, spoilt, escaped, screen, uri, file, caller, game>>
        /\ (keys' = keys \/ keys' = <<>>) /\ state' \in {state, "PLAYING"}
        /\ joypad' \in {joypad, {}} /\ path' \in {path, uri} /\ quit' \in BOOLEAN
        /\ player' \in {"mark", "clear", "open", "frame"}
    BY <1>4 DEF PlayerReset, PlayerMark, PlayerClear, PlayerRead, KeysAfterReset, QuitAtStart,
                TypeInv, TypeOK
  <2>2. keys' \in Seq(Keys \X {"press", "release"}) /\ Len(keys') <= KeySize
    BY <2>1, NoEvents DEF TypeInv, TypeOK
  <2> QED
    BY <2>1, <2>2 DEF TypeInv, TypeOK
<1>5. CASE PlayerOpen
  <2>1. UNCHANGED <<state, mail, keyboard, screen, uri, quit, joypad, caller, game>>
        /\ player' = "read" /\ path' = Dangling /\ file' \in Calls \cup {Dangling}
    BY <1>5 DEF PlayerOpen, TypeInv, TypeOK
  <2> QED
    BY <2>1 DEF TypeInv, TypeOK
<1>6. CASE PlayerFails \/ PlayerFrame \/ PlayerSound \/ PlayerClose
  <2>1. UNCHANGED <<state, mail, keyboard, screen, uri, quit, joypad, caller, game>>
        /\ player' \in {"stopped", "poll", "close", "frame"}
        /\ path' \in {path, Dangling} /\ file' \in {file, Dangling}
    BY <1>6 DEF PlayerFails, PlayerFrame, PlayerSound, PlayerClose, AfterFailure
  <2> QED
    BY <2>1 DEF TypeInv, TypeOK
<1>7. CASE PlayerStopped \/ PlayerEnable
  <2>1. UNCHANGED <<mail, keys, slots, late, loading, quit, joypad, caller, game>>
        /\ state' \in {state, "STOPPED"} /\ enabled' \in BOOLEAN
        /\ held' \subseteq Keys /\ spoilt' \subseteq Keys /\ escaped' \in BOOLEAN
        /\ player' \in {"enable", "recv"}
    BY <1>7 DEF PlayerStopped, PlayerEnable, TypeInv, TypeOK
  <2> QED
    BY <2>1 DEF TypeInv, TypeOK
<1> QED
  BY <1>1, <1>2, <1>3, <1>4, <1>5, <1>6, <1>7 DEF PlayerStep

\* Every step keeps every variable in its range.
LEMMA TypeNext == ASSUME NesAssumption, TypeInv, [Next]_vars PROVE TypeInv'
<1>1. CASE UNCHANGED vars
  BY <1>1 DEF vars, mail, screen, loading, keyboard, caller, TypeInv, TypeOK
<1> QED
  BY <1>1, TypeGui, TypeKey, TypePlayer DEF Next

-----------------------------------------------------------------------------
(* Which game is played.  Every start that is sent has a number of its own,  *)
(* above all those before it.                                                *)

InGame   == {"read", "frame", "poll", "key", "sound"}

\* The callers see a game from the moment before it is loaded until it was closed.
StateInv ==
  state = "PLAYING" <=>
    player \in {"clear", "open", "read", "frame", "poll", "key", "sound", "close", "stopped"}

Below(q, n)   == \A i \in 1 .. Len(q) : q[i] < n
Above(q, n)   == \A i \in 1 .. Len(q) : q[i] = Stop \/ q[i] > n
Ascending(q)  == \A i, j \in 1 .. Len(q) : i < j => q[j] = Stop \/ q[j] > q[i]

\* What has been sent and taken is at most the number of the last call, and less
\* while that call has not sent its message.
NumberInv ==
  /\ game <= calls /\ asked <= calls /\ Below(mb, calls + 1)
  /\ gui \in Switching \cup {"disable"} => op = "back"
  /\ op = "play" \/ gui \in Switching \cup {"disable"} =>
       game < calls /\ asked < calls /\ Below(mb, calls)
  /\ player # "recv" => game # 0

\* The mailbox holds what was sent after the game that is played, in order.
OrderInv ==
  /\ Above(mb, game) /\ Ascending(mb)
  /\ mb # <<>> => asked = mb[Len(mb)]

\* From the call on that sends a start until the game is over or a stop was sent,
\* LVGL is between two calls and the uri is that of the game.
UriInv ==
  /\ gui = "start" => uri = calls
  /\ asked # Stop /\ ~over /\ (player # "recv" \/ mb # <<>>) =>
       gui \in {"idle", "stop"} /\ uri = asked

FileInv ==
  ~over /\ asked = game =>
    /\ player = "open" => path = game
    /\ player \in InGame => file = game

GameInv == StateInv /\ NumberInv /\ OrderInv /\ UriInv /\ FileInv

\* A message at the end, or one less at the front.
LEMMA OneMore ==
  ASSUME NEW q \in Seq(Nat), NEW m \in Nat
  PROVE  /\ \A n \in Nat : Below(q, n) /\ m < n => Below(Append(q, m), n)
         /\ \A n \in Nat : Above(q, n) /\ (m = Stop \/ m > n) => Above(Append(q, m), n)
         /\ Ascending(q) /\ (m = Stop \/ Below(q, m)) => Ascending(Append(q, m))
<1>1. /\ Len(q) \in Nat /\ Len(Append(q, m)) = Len(q) + 1
      /\ \A i \in 1 .. Len(q) : Append(q, m)[i] = q[i] /\ q[i] \in Nat
      /\ Append(q, m)[Len(q) + 1] = m
  BY Sent
<1> QED
  BY <1>1 DEF Below, Above, Ascending

\* The orders of a mailbox survive the message taken at its front.
LEMMA OneLess ==
  ASSUME NEW q \in Seq(Nat), q # <<>>
  PROVE  /\ \A n \in Nat : Below(q, n) => Below(Tail(q), n) /\ Head(q) < n
         /\ \A n \in Nat : Above(q, n) => Above(Tail(q), n) /\ (Head(q) = Stop \/ Head(q) > n)
         /\ Ascending(q) => Ascending(Tail(q)) /\ Above(Tail(q), Head(q))
<1>1. /\ Head(q) = q[1] /\ Len(q) \in Nat \ {0} /\ Len(Tail(q)) = Len(q) - 1
      /\ \A i \in 1 .. Len(q) - 1 : Tail(q)[i] = q[i + 1]
      /\ \A i \in 1 .. Len(q) : q[i] \in Nat
  BY Taken
<1>2. \A n \in Nat : Below(q, n) => Below(Tail(q), n) /\ Head(q) < n
  BY <1>1 DEF Below
<1>3. \A n \in Nat : Above(q, n) => Above(Tail(q), n) /\ (Head(q) = Stop \/ Head(q) > n)
  BY <1>1 DEF Above
<1>4. Ascending(q) => Ascending(Tail(q)) /\ Above(Tail(q), Head(q))
  BY <1>1 DEF Ascending, Above
<1> QED
  BY <1>2, <1>3, <1>4

\* The ranges the steps below need.
LEMMA Numbers ==
  ASSUME NesAssumption, TypeInv
  PROVE  /\ mb \in Seq(Nat) /\ calls \in Nat /\ game \in Nat /\ asked \in Nat
         /\ Stop = 0 /\ Dangling = 0
<1>1. Calls \cup {Stop} \subseteq Nat
  BY DEF Calls, Stop
<1>2. mb \in Seq(Nat)
  <2>1. mb \in Seq(Calls \cup {Stop})
    BY DEF TypeInv, TypeOK
  <2> QED
    BY <1>1, <2>1
<1> QED
  BY <1>1, <1>2 DEF TypeInv, TypeOK, Stop, Dangling, NesAssumption

\* What of the numbers a stop, or the start of the last call, leaves true.
LEMMA SendNumbers ==
  ASSUME NesAssumption, TypeInv, NumberInv, OrderInv, NEW m, Send(m),
         \/ m = Stop
         \/ m = calls /\ game < calls /\ asked < calls /\ Below(mb, calls)
  PROVE  /\ asked' <= calls /\ Below(mb', calls + 1) /\ Above(mb', game) /\ Ascending(mb')
         /\ mb' # <<>> => asked' = mb'[Len(mb')]
         /\ m = Stop /\ calls # 0 /\ asked < calls /\ Below(mb, calls) =>
              asked' < calls /\ Below(mb', calls)
         /\ asked' = game /\ game # 0 => asked = game /\ mb' = mb
         /\ over \/ over' \/ asked' = m
         /\ over => over'
<1>1. /\ mb \in Seq(Nat) /\ calls \in Nat /\ game \in Nat /\ asked \in Nat /\ Stop = 0
      /\ m \in Nat /\ m <= calls
  BY Numbers
<1>2. CASE HasRoom
  <2>1. mb' = Append(mb, m) /\ asked' = m /\ over' = over
    BY <1>2 DEF Send
  <2>2. mb' # <<>> /\ mb'[Len(mb')] = m
    <3>1. Len(mb') = Len(mb) + 1 /\ mb' # <<>> /\ mb'[Len(mb) + 1] = m
      BY <1>1, <2>1, Sent
    <3> QED
      BY <3>1
  <2>3. Below(mb', calls + 1) /\ (m = Stop /\ calls # 0 /\ Below(mb, calls) => Below(mb', calls))
    BY <1>1, <2>1, OneMore DEF NumberInv
  <2>4. Above(mb', game) /\ Ascending(mb')
    BY <1>1, <2>1, OneMore DEF OrderInv
  <2>5. asked' <= calls /\ (m = Stop /\ calls # 0 => asked' < calls)
    BY <1>1, <2>1
  <2>6. ~(asked' = game /\ game # 0)
    BY <1>1, <2>1
  <2> QED
    BY <2>1, <2>2, <2>3, <2>4, <2>5, <2>6
<1>3. CASE ~HasRoom
  BY <1>1, <1>3 DEF Send, NumberInv, OrderInv
<1> QED
  BY <1>2, <1>3

\* At the start there is no game.
LEMMA GameInit == ASSUME NesAssumption, Init PROVE GameInv
<1>1. /\ state = "STOPPED" /\ mb = <<>> /\ player = "recv" /\ gui = "idle" /\ op = "back"
      /\ calls = 0 /\ asked = 0 /\ game = 0
  BY DEF Init, Stop
<1>2. Len(mb) = 0
  BY <1>1
<1> QED
  BY <1>1, <1>2 DEF GameInv, StateInv, NumberInv, OrderInv, UriInv, FileInv, Below, Above,
                    Ascending, Switching, InGame, Stop

\* A stop that the mouse sends, or LVGL on its way.
LEMMA GameStop ==
  ASSUME NesAssumption, TypeInv, GameInv, Send(Stop),
         UNCHANGED <<state, uri, path, file, player, op, calls, game>>,
         \/ gui' = gui
         \/ gui = "stop" /\ gui' = "delay"
         \/ gui = "playstop" /\ gui' = "free"
  PROVE  GameInv'
<1>1. /\ mb \in Seq(Nat) /\ calls \in Nat /\ game \in Nat /\ asked \in Nat
      /\ Stop = 0 /\ Dangling = 0
  BY Numbers
<1>2. NumberInv /\ OrderInv /\ UriInv /\ FileInv /\ StateInv
  BY DEF GameInv
<1>3. /\ asked' <= calls /\ Below(mb', calls + 1) /\ Above(mb', game) /\ Ascending(mb')
      /\ mb' # <<>> => asked' = mb'[Len(mb')]
      /\ calls # 0 /\ asked < calls /\ Below(mb, calls) => asked' < calls /\ Below(mb', calls)
      /\ asked' = game /\ game # 0 => asked = game /\ mb' = mb
      /\ over \/ over' \/ asked' = Stop
      /\ over => over'
  BY <1>2, SendNumbers
<1>4. StateInv'
  BY <1>2 DEF StateInv
<1>5. gui' \in Switching \cup {"disable"} <=> gui \in Switching \cup {"disable"}
  BY DEF Switching
<1>6. NumberInv'
  BY <1>1, <1>2, <1>3, <1>5 DEF NumberInv
<1>7. OrderInv'
  BY <1>3 DEF OrderInv
<1>8. UriInv'
  <2>1. gui' = "start" => gui = "start"
    OBVIOUS
  <2>2. asked' = Stop \/ over'
    BY <1>3
  <2> QED
    BY <1>2, <2>1, <2>2 DEF UriInv
<1>9. FileInv'
  <2>1. player = "open" \/ player \in InGame => game # 0
    BY <1>2 DEF NumberInv, InGame
  <2>2. ASSUME ~over', asked' = game, player = "open" \/ player \in InGame
        PROVE  ~over /\ asked = game
    BY <1>3, <2>1, <2>2
  <2> QED
    BY <1>2, <2>2 DEF FileInv
<1> QED
  BY <1>4, <1>6, <1>7, <1>8, <1>9 DEF GameInv

\* LVGL's steps in which it sends nothing.
LEMMA GameMoves ==
  ASSUME NesAssumption, TypeInv, GameInv,
         GuiAsk \/ GuiDelay \/ GuiDisable \/ GuiTest \/ GuiTestAgain \/ GuiFree \/ GuiDup
  PROVE  GameInv'
<1>1. /\ mb \in Seq(Nat) /\ calls \in Nat /\ game \in Nat /\ asked \in Nat
      /\ Stop = 0 /\ Dangling = 0
  BY Numbers
<1>2. NumberInv /\ OrderInv /\ UriInv /\ FileInv /\ StateInv
  BY DEF GameInv
<1>3. UNCHANGED <<state, mb, asked, over, file, player, game>> /\ PlayerSleeps
  BY DEF GuiAsk, GuiDelay, GuiDisable, GuiTest, GuiTestAgain, GuiFree, GuiDup, Gui, gaming,
         mail, screen, loading
<1>4. StateInv' /\ OrderInv'
  BY <1>2, <1>3 DEF StateInv, OrderInv
<1>5. CASE GuiAsk
  <2>1. /\ UNCHANGED <<uri, path>> /\ gui = "idle" /\ gui' \in {"stop", "delay"}
        /\ gui' = "delay" => state = "STOPPED"
        /\ \/ op' = "back" /\ calls' = calls
           \/ op' = "play" /\ calls' = calls + 1
    <3>1. state \in {"STOPPED", "PLAYING"}
      BY DEF TypeInv, TypeOK
    <3> QED
      BY <1>5, <3>1 DEF GuiAsk, Gui, Playing, loading
  <2>2. gui' \notin Switching \cup {"disable"}
    BY <2>1 DEF Switching
  <2>3. NumberInv'
    <3>1. CASE op' = "back" /\ calls' = calls
      BY <1>2, <1>3, <2>2, <3>1 DEF NumberInv
    <3>2. CASE op' = "play" /\ calls' = calls + 1
      <4>1. Below(mb, calls + 2) /\ Below(mb', calls') /\ Below(mb', calls' + 1)
        <5>1. Len(mb) \in Nat /\ \A i \in 1 .. Len(mb) : mb[i] \in Nat /\ mb[i] < calls + 1
          BY <1>1, <1>2 DEF NumberInv, Below
        <5> QED
          BY <1>1, <1>3, <3>2, <5>1 DEF Below
      <4> QED
        BY <1>1, <1>2, <1>3, <2>2, <3>2, <4>1 DEF NumberInv
    <3> QED
      BY <2>1, <3>1, <3>2
  <2>4. state = "STOPPED" => player = "recv" /\ mb = <<>>
    BY <1>2, <1>3 DEF StateInv, PlayerSleeps
  <2>5. UriInv'
    BY <1>2, <1>3, <2>1, <2>4 DEF UriInv
  <2>6. FileInv'
    BY <1>2, <1>3, <2>1 DEF FileInv
  <2> QED
    BY <1>4, <2>3, <2>5, <2>6 DEF GameInv
<1>6. CASE GuiDelay
  <2>1. /\ UNCHANGED <<uri, path, calls>> /\ gui = "delay" /\ gui' \in {"idle", "disable"}
        /\ op' = "back" /\ (gui' = "disable" => op = "play")
    BY <1>6 DEF GuiDelay, Gui, loading, TypeInv, TypeOK
  <2>2. gui' \in Switching \cup {"disable"} => op = "play"
    BY <2>1 DEF Switching
  <2>3. NumberInv'
    BY <1>2, <1>3, <2>1, <2>2 DEF NumberInv
  <2>4. UriInv' /\ FileInv'
    BY <1>2, <1>3, <2>1 DEF UriInv, FileInv
  <2> QED
    BY <1>4, <2>3, <2>4 DEF GameInv
<1>7. CASE GuiDisable \/ GuiTest \/ GuiTestAgain \/ GuiFree \/ GuiDup
  <2>1. /\ UNCHANGED <<op, calls>> /\ gui \in Switching \cup {"disable"} /\ gui' \in Switching
        /\ gui \notin {"idle", "stop"}
    BY <1>7 DEF GuiDisable, GuiTest, GuiTestAgain, GuiFree, GuiDup, Gui, Switching
  <2>2. gui' = "start" => uri' = calls
    BY <1>7 DEF GuiDisable, GuiTest, GuiTestAgain, GuiFree, GuiDup, Gui
  <2>3. NumberInv'
    BY <1>2, <1>3, <2>1 DEF NumberInv
  <2>4. ~(asked # Stop /\ ~over /\ (player # "recv" \/ mb # <<>>))
    BY <1>2, <2>1 DEF UriInv
  <2>5. UriInv'
    BY <1>3, <2>1, <2>2, <2>4 DEF UriInv
  <2>6. FileInv'
    <3>1. asked = game /\ ~over => player = "recv" \/ game = 0
      BY <1>1, <2>4
    <3>2. player = "open" \/ player \in InGame => player # "recv" /\ game # 0
      BY <1>2 DEF NumberInv, InGame
    <3> QED
      BY <1>3, <3>1, <3>2 DEF FileInv
  <2> QED
    BY <1>4, <2>3, <2>5, <2>6 DEF GameInv
<1> QED
  BY <1>5, <1>6, <1>7

\* The start of a game.
LEMMA GameStart ==
  ASSUME NesAssumption, TypeInv, GameInv, GuiStart
  PROVE  GameInv'
<1>1. /\ mb \in Seq(Nat) /\ calls \in Nat /\ game \in Nat /\ asked \in Nat
      /\ Stop = 0 /\ Dangling = 0
  BY Numbers
<1>2. NumberInv /\ OrderInv /\ UriInv /\ FileInv /\ StateInv
  BY DEF GameInv
<1>3. /\ gui = "start" /\ gui' = "idle" /\ Send(calls)
      /\ UNCHANGED <<state, uri, path, file, player, op, calls, game>>
  BY DEF GuiStart, Gui, gaming, loading
<1>4. op = "back" /\ game < calls /\ asked < calls /\ Below(mb, calls) /\ uri = calls
  BY <1>2, <1>3 DEF NumberInv, UriInv, Switching
<1>5. /\ asked' <= calls /\ Below(mb', calls + 1) /\ Above(mb', game) /\ Ascending(mb')
      /\ mb' # <<>> => asked' = mb'[Len(mb')]
      /\ asked' = game /\ game # 0 => asked = game /\ mb' = mb
      /\ over \/ over' \/ asked' = calls
      /\ over => over'
  BY <1>2, <1>3, <1>4, SendNumbers
<1>6. StateInv'
  BY <1>2, <1>3 DEF StateInv
<1>7. NumberInv'
  BY <1>2, <1>3, <1>4, <1>5 DEF NumberInv, Switching
<1>8. OrderInv'
  BY <1>3, <1>5 DEF OrderInv
<1>9. UriInv'
  BY <1>3, <1>4, <1>5 DEF UriInv
<1>10. FileInv'
  <2>1. player = "open" \/ player \in InGame => game # 0
    BY <1>2 DEF NumberInv, InGame
  <2>2. ASSUME ~over', asked' = game, player = "open" \/ player \in InGame
        PROVE  ~over /\ asked = game
    BY <1>5, <2>1, <2>2
  <2> QED
    BY <1>2, <1>3, <2>2 DEF FileInv
<1> QED
  BY <1>6, <1>7, <1>8, <1>9, <1>10 DEF GameInv

\* A step of the player.
LEMMA GamePlayer ==
  ASSUME NesAssumption, TypeInv, GameInv, PlayerStep
  PROVE  GameInv'
<1> USE DEF Player, mail, screen, loading, keyboard, caller
<1>1. /\ mb \in Seq(Nat) /\ calls \in Nat /\ game \in Nat /\ asked \in Nat
      /\ Stop = 0 /\ Dangling = 0
  BY Numbers
<1>2. NumberInv /\ OrderInv /\ UriInv /\ FileInv /\ StateInv
  BY DEF GameInv
<1>3. UNCHANGED <<uri, gui, op, calls, asked, over>>
  BY DEF PlayerStep, PlayerTake, PlayerReset, PlayerMark, PlayerClear, PlayerOpen, PlayerFails,
         PlayerRead, PlayerFrame, PlayerPoll, PlayerKey, PlayerSound, PlayerClose, PlayerStopped,
         PlayerEnable
<1>4. CASE PlayerTake
  <2>1. /\ mb # <<>> /\ mb' = Tail(mb) /\ UNCHANGED <<state, path, file>> /\ player = "recv"
        /\ \/ Head(mb) # Stop /\ player' = "reset" /\ game' = Head(mb)
           \/ Head(mb) = Stop /\ player' = "recv" /\ game' = game
    BY <1>4 DEF PlayerTake, IsStart
  <2>2. /\ \A n \in Nat : Below(mb, n) => Below(mb', n) /\ Head(mb) < n
        /\ \A n \in Nat : Above(mb, n) => Above(mb', n) /\ (Head(mb) = Stop \/ Head(mb) > n)
        /\ Ascending(mb') /\ Above(mb', Head(mb))
        /\ Head(mb) \in Nat /\ (mb' # <<>> => mb'[Len(mb')] = mb[Len(mb)])
    BY <1>1, <1>2, <2>1, OneLess, Taken DEF OrderInv
  <2>3. StateInv'
    BY <1>2, <2>1 DEF StateInv
  <2>4. NumberInv'
    BY <1>1, <1>2, <1>3, <2>1, <2>2 DEF NumberInv
  <2>5. OrderInv'
    BY <1>1, <1>2, <1>3, <2>1, <2>2 DEF OrderInv
  <2>6. UriInv'
    BY <1>2, <1>3, <2>1 DEF UriInv
  <2>7. FileInv'
    BY <2>1 DEF FileInv, InGame
  <2> QED
    BY <2>3, <2>4, <2>5, <2>6, <2>7 DEF GameInv
<1>5. CASE PlayerPoll
  <2>1. /\ mb' = mb \/ (mb # <<>> /\ mb' = Tail(mb))
        /\ UNCHANGED <<state, path, file, game>> /\ player = "poll" /\ player' = "key"
    BY <1>5 DEF PlayerPoll
  <2>2. mb # <<>> =>
          /\ \A n \in Nat : Below(mb, n) => Below(Tail(mb), n)
          /\ \A n \in Nat : Above(mb, n) => Above(Tail(mb), n)
          /\ Ascending(Tail(mb)) /\ (Tail(mb) # <<>> => Tail(mb)[Len(Tail(mb))] = mb[Len(mb)])
    BY <1>1, <1>2, <2>1, OneLess, Taken DEF OrderInv
  <2>3. StateInv'
    BY <1>2, <2>1 DEF StateInv
  <2>4. NumberInv'
    <3>1. /\ Below(mb, calls + 1) => Below(mb', calls + 1)
          /\ Below(mb, calls) => Below(mb', calls)
      <4>1. calls + 1 \in Nat /\ calls \in Nat
        BY <1>1
      <4>2. CASE mb' = mb
        BY <4>2, Zenon
      <4>3. CASE mb # <<>> /\ mb' = Tail(mb)
        BY <2>2, <4>1, <4>3, Zenon
      <4> QED
        BY <2>1, <4>2, <4>3
    <3> QED
      BY <1>2, <1>3, <2>1, <3>1 DEF NumberInv
  <2>5. OrderInv'
    BY <1>1, <1>2, <1>3, <2>1, <2>2 DEF OrderInv
  <2>6. UriInv' /\ FileInv'
    BY <1>2, <1>3, <2>1 DEF UriInv, FileInv, InGame
  <2> QED
    BY <2>3, <2>4, <2>5, <2>6 DEF GameInv
<1>6. ASSUME UNCHANGED <<mb, game>>, player # "recv", StateInv', FileInv' PROVE GameInv'
  <2>1. NumberInv'
    BY <1>2, <1>3, <1>6 DEF NumberInv
  <2>2. OrderInv'
    BY <1>2, <1>3, <1>6 DEF OrderInv
  <2>3. UriInv'
    BY <1>2, <1>3, <1>6 DEF UriInv
  <2> QED
    BY <1>6, <2>1, <2>2, <2>3 DEF GameInv
<1>7. CASE PlayerClear
  <2>1. UNCHANGED <<mb, game, state, file>> /\ player = "clear" /\ player' = "open" /\ path' = uri
    BY <1>7 DEF PlayerClear
  <2>2. StateInv'
    BY <1>2, <2>1 DEF StateInv
  <2>3. ~over /\ asked = game => uri = game
    BY <1>1, <1>2, <2>1 DEF NumberInv, UriInv
  <2>4. FileInv'
    BY <1>3, <2>1, <2>3 DEF FileInv, InGame
  <2> QED
    BY <1>6, <2>1, <2>2, <2>4
<1>8. CASE PlayerOpen
  <2>1. /\ UNCHANGED <<mb, game, state>> /\ player = "open" /\ player' = "read"
        /\ path # Dangling => file' = path
    BY <1>8 DEF PlayerOpen
  <2>2. StateInv'
    BY <1>2, <2>1 DEF StateInv
  <2>3. FileInv'
    BY <1>1, <1>2, <1>3, <2>1 DEF FileInv, NumberInv
  <2> QED
    BY <1>6, <2>1, <2>2, <2>3
<1>9. CASE PlayerRead \/ PlayerFrame \/ PlayerKey \/ PlayerSound
  <2>1. /\ UNCHANGED <<mb, game, state, file>> /\ player \in InGame
        /\ player' \in {"frame", "poll", "sound", "close"}
    BY <1>9 DEF PlayerRead, PlayerFrame, PlayerKey, PlayerSound, InGame
  <2>2. StateInv' /\ player # "recv"
    BY <1>2, <2>1 DEF StateInv, InGame
  <2>3. FileInv'
    BY <1>2, <1>3, <2>1 DEF FileInv
  <2> QED
    BY <1>6, <2>1, <2>2, <2>3
<1>10. CASE PlayerReset \/ PlayerMark \/ PlayerFails \/ PlayerClose \/ PlayerStopped \/ PlayerEnable
  <2>1. UNCHANGED <<mb, game>> /\ player # "recv" /\ player' \notin InGame \cup {"open"}
    BY <1>10 DEF PlayerReset, PlayerMark, PlayerFails, PlayerClose, PlayerStopped, PlayerEnable,
                 AfterFailure, InGame
  <2>2. StateInv'
    BY <1>2, <1>10 DEF PlayerReset, PlayerMark, PlayerFails, PlayerClose, PlayerStopped,
                       PlayerEnable, AfterFailure, StateInv
  <2>3. FileInv'
    BY <2>1 DEF FileInv
  <2> QED
    BY <1>6, <2>1, <2>2, <2>3
<1> QED
  BY <1>4, <1>5, <1>7, <1>8, <1>9, <1>10 DEF PlayerStep

\* Every step.
LEMMA GameNext == ASSUME NesAssumption, TypeInv, GameInv, [Next]_vars PROVE GameInv'
<1>1. CASE MouseStop
  BY <1>1, GameStop DEF MouseStop, loading, caller
<1>2. CASE GuiStep
  <2>1. CASE GuiStop \/ GuiPlayStop
    BY <2>1, GameStop DEF GuiStop, GuiPlayStop, Gui, gaming, loading
  <2> QED
    BY <1>2, <2>1, GameMoves, GameStart DEF GuiStep
<1>3. CASE KeyReport \/ UNCHANGED vars
  <2>1. UNCHANGED <<state, mb, uri, path, file, player, gui, op, calls, asked, game, over>>
    BY <1>3 DEF KeyReport, vars, mail, loading, caller
  <2> QED
    BY <2>1 DEF GameInv, StateInv, NumberInv, OrderInv, UriInv, FileInv
<1> QED
  BY <1>1, <1>2, <1>3, GamePlayer DEF Next

-----------------------------------------------------------------------------
(* The keys.  What the joypad will hold when the events that wait are taken  *)
(* is what is held.                                                          *)

Polling == {"open", "read", "frame", "poll", "key", "sound"}

\* Whether key k is down once the events of q are applied to what j holds.
Pressed(q, j, k) ==
  \/ \E i \in 1 .. Len(q) : q[i] = <<k, "press">> /\ \A m \in i + 1 .. Len(q) : q[m][1] # k
  \/ k \in j /\ \A m \in 1 .. Len(q) : q[m][1] # k

HeldInv ==
  /\ held \subseteq Down(slots)
  /\ state = "STOPPED" => held = {}
  /\ player = "mark" => keys = <<>>
  /\ player = "clear" => \A b \in Buttons \ spoilt : Pressed(keys, {}, b) <=> b \in held
  /\ player \in Polling => \A b \in Buttons \ spoilt : Pressed(keys, joypad, b) <=> b \in held

\* A release of escape waits only if escape left its slot in this game, and a game
\* that was asked for last gets its flag from nothing else.
EscapeWaits == \E i \in 1 .. Len(keys) : keys[i] = <<Esc, "release">>
QuitInv ==
  /\ player \in {"mark", "clear"} \cup Polling /\ EscapeWaits => escaped
  /\ player \in {"frame", "poll", "key", "sound"} /\ quit /\ asked = game => escaped

EventSeq == Seq(Keys \X {"press", "release"})

\* Taking the first event and applying it changes nothing in the end.
LEMMA PressedTail ==
  ASSUME NesAssumption, NEW q \in EventSeq, q # <<>>, NEW j, NEW j2, NEW b \in Buttons,
         j2 = IF Head(q)[2] = "release" THEN j \ {Head(q)[1]}
              ELSE j \cup ({Head(q)[1]} \cap Buttons)
  PROVE  Pressed(Tail(q), j2, b) <=> Pressed(q, j, b)
<1>1. /\ Head(q) = q[1] /\ Len(q) \in Nat \ {0} /\ Len(Tail(q)) = Len(q) - 1
      /\ \A i \in 1 .. Len(q) - 1 : Tail(q)[i] = q[i + 1]
      /\ \A i \in 1 .. Len(q) : q[i] \in Keys \X {"press", "release"}
      /\ q[1] \in Keys \X {"press", "release"}
  <2>1. /\ Head(q) = q[1] /\ Len(q) \in Nat \ {0} /\ Len(Tail(q)) = Len(q) - 1
        /\ \A i \in 1 .. Len(q) - 1 : Tail(q)[i] = q[i + 1]
        /\ Head(q) \in Keys \X {"press", "release"}
    BY Taken DEF EventSeq
  <2>2. \A i \in 1 .. Len(q) : q[i] \in Keys \X {"press", "release"}
    BY ElementOfSeq DEF EventSeq
  <2> QED
    BY <2>1, <2>2
<1>2. (\A m \in 1 .. Len(q) : q[m][1] # b) <=>
        q[1][1] # b /\ \A m \in 1 .. Len(q) - 1 : Tail(q)[m][1] # b
  <2>1. ASSUME \A m \in 1 .. Len(q) : q[m][1] # b
        PROVE  q[1][1] # b /\ \A m \in 1 .. Len(q) - 1 : Tail(q)[m][1] # b
    BY <1>1, <2>1
  <2>2. ASSUME q[1][1] # b, \A m \in 1 .. Len(q) - 1 : Tail(q)[m][1] # b, NEW m \in 1 .. Len(q)
        PROVE  q[m][1] # b
    <3>1. CASE m = 1
      BY <2>2, <3>1
    <3>2. CASE m # 1
      <4>1. m - 1 \in 1 .. Len(q) - 1 /\ (m - 1) + 1 = m
        BY <1>1, <3>2
      <4>2. Tail(q)[m - 1] = q[m]
        BY <1>1, <4>1
      <4> QED
        BY <2>2, <4>1, <4>2
    <3> QED
      BY <3>1, <3>2
  <2> QED
    BY <2>1, <2>2
<1>3. ASSUME NEW i \in 1 .. Len(q) - 1
      PROVE  /\ i + 1 \in 1 .. Len(q)
             /\ (\A m \in (i + 1) + 1 .. Len(q) : q[m][1] # b) <=>
                  \A m \in i + 1 .. Len(q) - 1 : Tail(q)[m][1] # b
  <2>1. i + 1 \in 1 .. Len(q)
    BY <1>1
  <2>2. ASSUME \A m \in (i + 1) + 1 .. Len(q) : q[m][1] # b, NEW m \in i + 1 .. Len(q) - 1
        PROVE  Tail(q)[m][1] # b
    <3>1. m \in 1 .. Len(q) - 1 /\ m + 1 \in (i + 1) + 1 .. Len(q)
      BY <1>1
    <3> QED
      BY <1>1, <2>2, <3>1
  <2>3. ASSUME \A m \in i + 1 .. Len(q) - 1 : Tail(q)[m][1] # b, NEW m \in (i + 1) + 1 .. Len(q)
        PROVE  q[m][1] # b
    <3>1. m - 1 \in 1 .. Len(q) - 1 /\ m - 1 \in i + 1 .. Len(q) - 1 /\ (m - 1) + 1 = m
      BY <1>1
    <3>2. Tail(q)[m - 1] = q[m]
      BY <1>1, <3>1
    <3> QED
      BY <2>3, <3>1, <3>2
  <2> QED
    BY <2>1, <2>2, <2>3
<1>4. ASSUME Pressed(q, j, b) PROVE Pressed(Tail(q), j2, b)
  <2>1. CASE b \in j /\ \A m \in 1 .. Len(q) : q[m][1] # b
    <3>1. b \in j2
      BY <1>1, <1>2, <2>1
    <3> QED
      BY <1>1, <1>2, <2>1, <3>1 DEF Pressed
  <2>2. ASSUME NEW i \in 1 .. Len(q), q[i] = <<b, "press">>,
               \A m \in i + 1 .. Len(q) : q[m][1] # b
        PROVE  Pressed(Tail(q), j2, b)
    <3>1. CASE i = 1
      <4>1. Head(q)[1] = b /\ Head(q)[2] = "press"
        BY <1>1, <2>2, <3>1
      <4>2. b \in j2
        BY <4>1
      <4>3. \A m \in 1 .. Len(q) - 1 : Tail(q)[m][1] # b
        <5> SUFFICES ASSUME NEW m \in 1 .. Len(q) - 1 PROVE q[m + 1][1] # b
          BY <1>1
        <5>1. m + 1 \in 1 + 1 .. Len(q)
          BY <1>1
        <5> QED
          BY <2>2, <3>1, <5>1
      <4> QED
        BY <1>1, <4>2, <4>3 DEF Pressed
    <3>2. CASE i # 1
      <4>1. i - 1 \in 1 .. Len(q) - 1 /\ (i - 1) + 1 = i
        BY <1>1, <3>2
      <4>2. PICK k \in 1 .. Len(q) - 1 : k + 1 = i
        BY <4>1
      <4>3. Tail(q)[k] = <<b, "press">> /\ \A m \in k + 1 .. Len(q) - 1 : Tail(q)[m][1] # b
        BY <1>1, <1>3, <2>2, <4>2
      <4> QED
        BY <1>1, <4>3 DEF Pressed
    <3> QED
      BY <3>1, <3>2
  <2> QED
    BY <1>4, <2>1, <2>2 DEF Pressed
<1>5. ASSUME Pressed(Tail(q), j2, b) PROVE Pressed(q, j, b)
  <2>1. CASE b \in j2 /\ \A m \in 1 .. Len(q) - 1 : Tail(q)[m][1] # b
    <3>1. CASE q[1][1] = b
      <4>1. q[1] = <<b, "press">>
        BY <1>1, <2>1, <3>1
      <4>2. \A m \in 1 + 1 .. Len(q) : q[m][1] # b
        <5> SUFFICES ASSUME NEW m \in 1 + 1 .. Len(q) PROVE q[m][1] # b
          OBVIOUS
        <5>1. m - 1 \in 1 .. Len(q) - 1 /\ (m - 1) + 1 = m
          BY <1>1
        <5>2. Tail(q)[m - 1] = q[m]
          BY <1>1, <5>1
        <5> QED
          BY <2>1, <5>1, <5>2
      <4>3. 1 \in 1 .. Len(q)
        BY <1>1
      <4> QED
        BY <4>1, <4>2, <4>3 DEF Pressed
    <3>2. CASE q[1][1] # b
      <4>1. b \in j
        BY <1>1, <2>1, <3>2
      <4> QED
        BY <1>2, <2>1, <3>2, <4>1 DEF Pressed
    <3> QED
      BY <3>1, <3>2
  <2>2. ASSUME NEW i \in 1 .. Len(q) - 1, Tail(q)[i] = <<b, "press">>,
               \A m \in i + 1 .. Len(q) - 1 : Tail(q)[m][1] # b
        PROVE  Pressed(q, j, b)
    <3>1. i + 1 \in 1 .. Len(q) /\ q[i + 1] = <<b, "press">>
          /\ \A m \in (i + 1) + 1 .. Len(q) : q[m][1] # b
      BY <1>1, <1>3, <2>2
    <3> QED
      BY <3>1 DEF Pressed
  <2> QED
    BY <1>1, <1>5, <2>1, <2>2 DEF Pressed
<1> QED
  BY <1>4, <1>5

\* Events of other keys at the end change nothing.
LEMMA PressedPrefix ==
  ASSUME NEW q, NEW r, NEW j, NEW b,
         Len(q) \in Nat, Len(r) \in Nat, Len(q) <= Len(r),
         \A i \in 1 .. Len(q) : r[i] = q[i],
         \A i \in Len(q) + 1 .. Len(r) : r[i][1] # b
  PROVE  Pressed(r, j, b) <=> Pressed(q, j, b)
<1>1. ASSUME Pressed(r, j, b) PROVE Pressed(q, j, b)
  <2>1. CASE b \in j /\ \A m \in 1 .. Len(r) : r[m][1] # b
    <3>1. \A m \in 1 .. Len(q) : m \in 1 .. Len(r) /\ q[m] = r[m]
      OBVIOUS
    <3> QED
      BY <2>1, <3>1 DEF Pressed
  <2>2. ASSUME NEW i \in 1 .. Len(r), r[i] = <<b, "press">>, \A m \in i + 1 .. Len(r) : r[m][1] # b
        PROVE  Pressed(q, j, b)
    <3>1. r[i][1] = b
      BY <2>2
    <3>2. ~(i \in Len(q) + 1 .. Len(r))
      BY <3>1
    <3>3. i \in 1 .. Len(q)
      BY <3>2
    <3>4. \A m \in i + 1 .. Len(q) : m \in i + 1 .. Len(r) /\ q[m] = r[m]
      OBVIOUS
    <3>5. q[i] = <<b, "press">> /\ \A m \in i + 1 .. Len(q) : q[m][1] # b
      BY <2>2, <3>3, <3>4
    <3> QED
      BY <3>3, <3>5 DEF Pressed
  <2> QED
    BY <1>1, <2>1, <2>2 DEF Pressed
<1>2. ASSUME Pressed(q, j, b) PROVE Pressed(r, j, b)
  <2>1. ASSUME NEW m \in 1 .. Len(r) PROVE (m \in 1 .. Len(q) /\ r[m] = q[m]) \/ r[m][1] # b
    OBVIOUS
  <2>2. CASE b \in j /\ \A m \in 1 .. Len(q) : q[m][1] # b
    <3>1. \A m \in 1 .. Len(r) : r[m][1] # b
      BY <2>1, <2>2
    <3> QED
      BY <2>2, <3>1 DEF Pressed
  <2>3. ASSUME NEW i \in 1 .. Len(q), q[i] = <<b, "press">>, \A m \in i + 1 .. Len(q) : q[m][1] # b
        PROVE  Pressed(r, j, b)
    <3>1. i \in 1 .. Len(r) /\ r[i] = <<b, "press">>
      BY <2>3
    <3>2. ASSUME NEW m \in i + 1 .. Len(r) PROVE r[m][1] # b
      <4>1. m \in 1 .. Len(r) /\ (m \in 1 .. Len(q) => m \in i + 1 .. Len(q))
        OBVIOUS
      <4> QED
        BY <2>1, <2>3, <4>1
    <3> QED
      BY <3>1, <3>2 DEF Pressed
  <2> QED
    BY <1>2, <2>2, <2>3 DEF Pressed
<1> QED
  BY <1>1, <1>2

\* New events at the end: the one of the key, if there is one, decides.
LEMMA PressedMore ==
  ASSUME NesAssumption, NEW q \in EventSeq, NEW ev \in EventSeq, NEW j, NEW b \in Buttons
  PROVE  /\ OneEvent(ev, b, "press") => Pressed(q \o ev, j, b)
         /\ OneEvent(ev, b, "release") => ~Pressed(q \o ev, j, b)
         /\ NoEvent(ev, b) => (Pressed(q \o ev, j, b) <=> Pressed(q, j, b))
<1> DEFINE r == q \o ev
<1>1. /\ Len(q) \in Nat /\ Len(ev) \in Nat /\ Len(r) = Len(q) + Len(ev)
      /\ \A i \in 1 .. Len(q) : r[i] = q[i]
      /\ \A i \in 1 .. Len(ev) : r[Len(q) + i] = ev[i]
  BY DEF EventSeq
<1> HIDE DEF r
<1>2. ASSUME NEW i \in Len(q) + 1 .. Len(r)
      PROVE  i - Len(q) \in 1 .. Len(ev) /\ r[i] = ev[i - Len(q)]
  <2>1. i - Len(q) \in 1 .. Len(ev) /\ Len(q) + (i - Len(q)) = i
    BY <1>1
  <2> QED
    BY <1>1, <2>1
<1>3. ASSUME NEW n \in 1 .. Len(ev), ev[n] = <<b, "press">>,
             \A m \in 1 .. Len(ev) \ {n} : ev[m][1] # b
      PROVE  Pressed(r, j, b)
  <2>1. Len(q) + n \in 1 .. Len(r) /\ r[Len(q) + n] = <<b, "press">>
    BY <1>1, <1>3
  <2>2. ASSUME NEW m \in (Len(q) + n) + 1 .. Len(r) PROVE r[m][1] # b
    <3>1. m \in Len(q) + 1 .. Len(r) /\ m - Len(q) # n
      BY <1>1
    <3> QED
      BY <1>2, <1>3, <3>1
  <2> QED
    BY <2>1, <2>2 DEF Pressed
<1>4. ASSUME NEW n \in 1 .. Len(ev), ev[n] = <<b, "release">>,
             \A m \in 1 .. Len(ev) \ {n} : ev[m][1] # b, Pressed(r, j, b)
      PROVE  FALSE
  <2>1. Len(q) + n \in 1 .. Len(r) /\ r[Len(q) + n] = <<b, "release">>
    BY <1>1, <1>4
  <2>2. r[Len(q) + n][1] = b
    BY <2>1
  <2>3. PICK i \in 1 .. Len(r) : r[i] = <<b, "press">> /\ \A m \in i + 1 .. Len(r) : r[m][1] # b
    BY <1>4, <2>1, <2>2 DEF Pressed
  <2>4. ~(Len(q) + n \in i + 1 .. Len(r))
    BY <2>2, <2>3
  <2>5. i >= Len(q) + n
    BY <1>1, <2>1, <2>4
  <2>6. i # Len(q) + n
    BY <2>1, <2>3
  <2>7. i \in Len(q) + 1 .. Len(r) /\ i - Len(q) # n
    BY <1>1, <2>5, <2>6
  <2>8. r[i][1] # b
    BY <1>2, <1>4, <2>7
  <2> QED
    BY <2>3, <2>8
<1>5. ASSUME \A m \in 1 .. Len(ev) : ev[m][1] # b
      PROVE  Pressed(r, j, b) <=> Pressed(q, j, b)
  <2>1. \A i \in Len(q) + 1 .. Len(r) : r[i][1] # b
    BY <1>2, <1>5
  <2> QED
    BY <1>1, <2>1, PressedPrefix
<1> QED
  BY <1>3, <1>4, <1>5 DEF r, OneEvent, NoEvent

\* What is refused is of keys of KeysOf.
LEMMA PressedFitting ==
  ASSUME NesAssumption, NEW q \in EventSeq, NEW j, NEW b, b \notin KeysOf(q, KeySize + 1)
  PROVE  Pressed(Fitting(q), j, b) <=> Pressed(q, j, b)
<1> DEFINE p == Fitting(q)
<1>1. /\ p \in EventSeq /\ \A n \in 1 .. Len(p) : n \in 1 .. Len(q) /\ p[n] = q[n]
      /\ Len(p) = IF Len(q) < KeySize THEN Len(q) ELSE KeySize
  BY FittingOK DEF EventSeq
<1>2. Len(p) \in Nat /\ Len(q) \in Nat /\ KeySize \in Nat
  BY <1>1 DEF EventSeq, NesAssumption
<1>3. ASSUME NEW i \in Len(p) + 1 .. Len(q) PROVE q[i][1] # b
  <2>1. i \in KeySize + 1 .. Len(q)
    BY <1>1, <1>2
  <2> QED
    BY <2>1 DEF KeysOf
<1> HIDE DEF p
<1>4. Len(p) <= Len(q)
  BY <1>1, <1>2
<1>5. Pressed(q, j, b) <=> Pressed(p, j, b)
  BY <1>1, <1>2, <1>3, <1>4, PressedPrefix
<1> QED
  BY <1>5 DEF p

\* A report while the game is on.
LEMMA HeldReport ==
  ASSUME NesAssumption, TypeInv, HeldInv, KeyReport, state = "PLAYING", NEW j,
         \A b \in Buttons \ spoilt : Pressed(keys, j, b) <=> b \in held
  PROVE  \A b \in Buttons \ spoilt' : Pressed(keys', j, b) <=> b \in held'
<1>1. PICK new \in Reports :
        /\ slots' = new
        /\ keys' = Fitting(keys \o Events(slots, new))
        /\ held' = (held \cup (Down(new) \ Down(slots))) \cap Down(new)
        /\ spoilt' = (spoilt \ KeysOf(Events(slots, new), 1)) \cup Moved(slots, new)
                     \cup KeysOf(keys \o Events(slots, new), KeySize + 1)
  BY DEF KeyReport
<1>2. slots \in Reports /\ keys \in EventSeq /\ held \subseteq Down(slots)
  BY DEF TypeInv, TypeOK, EventSeq, HeldInv
<1>3. Events(slots, new) \in EventSeq
  BY <1>2, EventsOfSlots DEF EventSeq
<1> DEFINE ev == Events(slots, new)
           arriving == keys \o ev
<1>4. arriving \in EventSeq /\ Len(arriving) \in Nat /\ KeySize \in Nat
  BY <1>2, <1>3 DEF EventSeq, NesAssumption
<1>5. SUFFICES ASSUME NEW b \in Buttons \ spoilt'
               PROVE  Pressed(keys', j, b) <=> b \in held'
  OBVIOUS
<1>6. /\ b \notin Moved(slots, new) /\ b \notin KeysOf(arriving, KeySize + 1)
      /\ b \notin spoilt \/ b \in KeysOf(ev, 1)
  BY <1>1
<1>7. Pressed(keys', j, b) <=> Pressed(arriving, j, b)
  <2>1. keys' = Fitting(arriving)
    BY <1>1
  <2> HIDE DEF arriving
  <2> QED
    BY <1>4, <1>6, <2>1, PressedFitting
<1>8. b \in Keys
  BY DEF Keys
<1>9. /\ b \in Down(new) \ Down(slots) => OneEvent(ev, b, "press")
      /\ b \in Down(slots) \ Down(new) => OneEvent(ev, b, "release")
      /\ (b \in Down(slots) <=> b \in Down(new)) => NoEvent(ev, b)
  BY <1>2, <1>6, <1>8, EventsOfKey
<1>10. /\ OneEvent(ev, b, "press") => Pressed(arriving, j, b)
       /\ OneEvent(ev, b, "release") => ~Pressed(arriving, j, b)
       /\ NoEvent(ev, b) => (Pressed(arriving, j, b) <=> Pressed(keys, j, b))
  BY <1>2, <1>3, PressedMore
<1>11. b \in held' <=> (b \in held \/ b \in Down(new) \ Down(slots)) /\ b \in Down(new)
  BY <1>1
<1>12. b \in held => b \in Down(slots)
  BY <1>2
<1>13. NoEvent(ev, b) => (Pressed(keys, j, b) <=> b \in held)
  BY <1>6 DEF NoEvent, KeysOf
<1> HIDE DEF ev, arriving
<1>14. CASE b \in Down(new) \ Down(slots)
  BY <1>7, <1>9, <1>10, <1>11, <1>14, Zenon
<1>15. CASE b \in Down(slots) \ Down(new)
  BY <1>7, <1>9, <1>10, <1>11, <1>15, Zenon
<1>16. CASE b \in Down(slots) <=> b \in Down(new)
  BY <1>7, <1>9, <1>10, <1>11, <1>12, <1>13, <1>16
<1> QED
  BY <1>14, <1>15, <1>16

\* At the start no key is down.
LEMMA HeldInit == Init => HeldInv
BY DEF Init, HeldInv, Polling

\* What the player does to the keys.
LEMMA HeldPlayer ==
  ASSUME NesAssumption, TypeInv, StateInv, HeldInv, PlayerStep
  PROVE  HeldInv'
<1> USE DEF Player, mail, screen, loading, keyboard, caller
<1>1. CASE PlayerMark
  <2>1. /\ UNCHANGED <<keys, slots, held, joypad>> /\ player = "mark" /\ player' = "clear"
        /\ state' = "PLAYING"
    BY <1>1 DEF PlayerMark
  <2>2. keys = <<>> /\ held = {}
    BY <2>1 DEF HeldInv, StateInv, TypeInv, TypeOK
  <2>3. \A b \in Buttons : ~Pressed(<<>>, {}, b)
    BY DEF Pressed
  <2> QED
    BY <2>1, <2>2, <2>3 DEF HeldInv, Polling
<1>2. CASE PlayerClear
  <2>1. /\ UNCHANGED <<state, keys, slots, held, spoilt>> /\ player = "clear"
        /\ player' = "open" /\ joypad' = {}
    BY <1>2 DEF PlayerClear
  <2> QED
    BY <2>1 DEF HeldInv
<1>3. CASE PlayerKey
  <2>1. /\ UNCHANGED <<state, slots, held, spoilt>> /\ player = "key" /\ player' = "sound"
        /\ keys = <<>> => UNCHANGED <<keys, joypad>>
        /\ keys # <<>> => /\ keys' = Tail(keys)
                          /\ joypad' = IF Head(keys)[2] = "release" THEN joypad \ {Head(keys)[1]}
                                       ELSE joypad \cup ({Head(keys)[1]} \cap Buttons)
    BY <1>3 DEF PlayerKey
  <2>2. keys \in EventSeq
    BY DEF TypeInv, TypeOK, EventSeq
  <2>3. \A b \in Buttons : Pressed(keys', joypad', b) <=> Pressed(keys, joypad, b)
    <3>1. CASE keys = <<>>
      <4>1. keys' = keys /\ joypad' = joypad
        BY <2>1, <3>1
      <4> QED
        BY <4>1
    <3>2. CASE keys # <<>>
      <4>1. \A b \in Buttons : Pressed(Tail(keys), joypad', b) <=> Pressed(keys, joypad, b)
        BY <2>1, <2>2, <3>2, PressedTail
      <4> QED
        BY <2>1, <3>2, <4>1
    <3> QED
      BY <3>1, <3>2
  <2> QED
    BY <2>1, <2>3 DEF HeldInv, Polling
<1>4. CASE PlayerReset
  BY <1>4 DEF PlayerReset, KeysAfterReset, HeldInv, Polling
<1>5. CASE PlayerStopped
  BY <1>5 DEF PlayerStopped, HeldInv, Polling
<1>6. CASE PlayerTake \/ PlayerFails \/ PlayerClose \/ PlayerEnable
  BY <1>6 DEF PlayerTake, PlayerFails, PlayerClose, PlayerEnable, AfterFailure, HeldInv, Polling
<1>7. CASE PlayerOpen \/ PlayerRead \/ PlayerFrame \/ PlayerPoll \/ PlayerSound
  <2>1. /\ UNCHANGED <<state, keys, slots, held, spoilt, joypad>>
        /\ player \in Polling /\ player' \in Polling \cup {"close"}
    BY <1>7 DEF PlayerOpen, PlayerRead, PlayerFrame, PlayerPoll, PlayerSound, Polling
  <2> QED
    BY <2>1 DEF HeldInv, Polling
<1> QED
  BY <1>1, <1>2, <1>3, <1>4, <1>5, <1>6, <1>7 DEF PlayerStep

\* Every step keeps what is held and what waits together.
LEMMA HeldNext ==
  ASSUME NesAssumption, TypeInv, StateInv, HeldInv, [Next]_vars
  PROVE  HeldInv'
<1>1. CASE KeyReport
  <2>1. PICK new \in Reports :
          /\ slots' = new
          /\ IF state = "PLAYING"
             THEN held' = (held \cup (Down(new) \ Down(slots))) \cap Down(new)
             ELSE UNCHANGED held
    BY <1>1 DEF KeyReport
  <2>2. /\ UNCHANGED <<state, player, joypad>>
        /\ state # "PLAYING" => UNCHANGED <<keys, held, spoilt>>
    BY <1>1 DEF KeyReport, caller
  <2>3. CASE state = "PLAYING"
    <3>1. held' \subseteq Down(slots')
      BY <2>1, <2>3
    <3>2. player # "mark" /\ state' # "STOPPED"
      BY <2>2, <2>3 DEF StateInv
    <3>3. player = "clear" => \A b \in Buttons \ spoilt' : Pressed(keys', {}, b) <=> b \in held'
      BY <1>1, <2>2, <2>3, HeldReport DEF HeldInv
    <3>4. player \in Polling =>
            \A b \in Buttons \ spoilt' : Pressed(keys', joypad, b) <=> b \in held'
      BY <1>1, <2>2, <2>3, HeldReport DEF HeldInv
    <3> QED
      BY <2>2, <3>1, <3>2, <3>3, <3>4 DEF HeldInv
  <2>4. CASE state # "PLAYING"
    <3>1. state = "STOPPED" /\ held = {}
      BY <2>4 DEF TypeInv, TypeOK, HeldInv
    <3>2. player \notin Polling \cup {"clear"}
      BY <2>4 DEF StateInv, Polling
    <3> QED
      BY <2>2, <2>4, <3>1, <3>2 DEF HeldInv
  <2> QED
    BY <2>3, <2>4
<1>2. CASE MouseStop \/ GuiStep \/ UNCHANGED vars
  <2>1. UNCHANGED <<state, keys, slots, held, spoilt, joypad, player>>
    BY <1>2 DEF MouseStop, GuiStep, GuiAsk, GuiStop, GuiDelay, GuiDisable, GuiTest, GuiTestAgain,
                GuiPlayStop, GuiFree, GuiDup, GuiStart, gaming, keyboard, vars
  <2> QED
    BY <2>1 DEF HeldInv
<1> QED
  BY <1>1, <1>2, HeldPlayer DEF Next

-----------------------------------------------------------------------------
(* What ends a game. *)

\* At the start there is no flag.
LEMMA QuitInit == Init => QuitInv
BY DEF Init, QuitInv, Polling, EscapeWaits

\* A report: escape enters the mailbox by its release.
LEMMA QuitReport ==
  ASSUME NesAssumption, TypeInv, QuitInv, KeyReport
  PROVE  QuitInv'
<1>1. /\ UNCHANGED <<quit, asked, game, player>>
      /\ escaped => escaped'
  BY DEF KeyReport, mail, caller
<1>2. CASE state # "PLAYING"
  <2>1. UNCHANGED <<keys, escaped>>
    BY <1>2 DEF KeyReport
  <2> QED
    BY <1>1, <2>1 DEF QuitInv, EscapeWaits
<1>3. CASE state = "PLAYING"
  <2>1. PICK new \in Reports :
          /\ keys' = Fitting(keys \o Events(slots, new))
          /\ escaped' = (escaped \/ Left(slots, new, Esc))
    BY <1>3 DEF KeyReport
  <2> DEFINE ev == Events(slots, new)
             arriving == keys \o ev
  <2>2. /\ slots \in Reports /\ keys \in Seq(Keys \X {"press", "release"})
        /\ ev \in Seq(Keys \X {"press", "release"})
    BY EventsOfSlots DEF TypeInv, TypeOK
  <2>3. ASSUME EscapeWaits', ~EscapeWaits PROVE escaped'
    <3>1. ASSUME NEW i \in Changed(slots, new), Event(slots, new, i) = <<Esc, "release">>
          PROVE  Left(slots, new, Esc)
      <4>1. i \in 1 .. Slots /\ new[i] = NoKey /\ slots[i] = Esc
        BY <3>1 DEF Changed, Event
      <4>2. Esc # NoKey
        BY DEF NesAssumption
      <4> QED
        BY <4>1, <4>2 DEF Left
    <3>2. \A n \in 1 .. Len(ev) : \E i \in Changed(slots, new) : ev[n] = Event(slots, new, i)
      BY <2>2, EventsOfSlots
    <3>4. PICK i \in 1 .. Len(keys') : keys'[i] = <<Esc, "release">>
      BY <2>3 DEF EscapeWaits
    <3>5. arriving \in Seq(Keys \X {"press", "release"})
      BY <2>2
    <3>6. i \in 1 .. Len(arriving) /\ arriving[i] = <<Esc, "release">>
      <4>1. keys' = Fitting(arriving)
        BY <2>1
      <4> HIDE DEF arriving
      <4> QED
        BY <3>4, <3>5, <4>1, FittingOK
    <3>7. ~(i \in 1 .. Len(keys))
      <4>1. i \in 1 .. Len(keys) => arriving[i] = keys[i]
        BY <2>2
      <4> QED
        BY <2>3, <3>6, <4>1 DEF EscapeWaits
    <3>8. i - Len(keys) \in 1 .. Len(ev) /\ ev[i - Len(keys)] = <<Esc, "release">>
      <4> HIDE DEF ev
      <4> QED
        BY <2>2, <3>6, <3>7
    <3> HIDE DEF ev
    <3>9. PICK n \in 1 .. Len(ev) : ev[n] = <<Esc, "release">>
      BY <3>8
    <3>10. Left(slots, new, Esc)
      BY <3>1, <3>2, <3>9
    <3> QED
      BY <2>1, <3>10
  <2> QED
    BY <1>1, <2>3 DEF QuitInv
<1> QED
  BY <1>2, <1>3

\* A message that is sent asks for another game or for none.
LEMMA QuitSend ==
  ASSUME NesAssumption, TypeInv, GameInv, QuitInv, MouseStop \/ GuiStep
  PROVE  QuitInv'
<1>1. UNCHANGED <<keys, quit, game, player, spoilt, escaped>>
  BY DEF MouseStop, GuiStep, GuiAsk, GuiStop, GuiDelay, GuiDisable, GuiTest, GuiTestAgain,
         GuiPlayStop, GuiFree, GuiDup, GuiStart, gaming, keyboard
<1>2. asked' = asked \/ asked' = Stop \/ asked' > game
  <2>1. CASE GuiStart
    <3>1. asked' = asked \/ asked' = calls
      BY <2>1 DEF GuiStart, Send
    <3>2. game < calls /\ calls \in Nat /\ game \in Nat
      BY <2>1 DEF GuiStart, Gui, GameInv, NumberInv, Switching, TypeInv, TypeOK, NesAssumption
    <3> QED
      BY <3>1, <3>2
  <2>2. CASE MouseStop \/ GuiStop \/ GuiPlayStop
    BY <2>2 DEF MouseStop, GuiStop, GuiPlayStop, Send
  <2>3. CASE GuiAsk \/ GuiDelay \/ GuiDisable \/ GuiTest \/ GuiTestAgain \/ GuiFree \/ GuiDup
    BY <2>3 DEF GuiAsk, GuiDelay, GuiDisable, GuiTest, GuiTestAgain, GuiFree, GuiDup, mail
  <2> QED
    BY <2>1, <2>2, <2>3 DEF GuiStep
<1>3. player # "recv" => game # Stop
  BY DEF GameInv, NumberInv, Stop
<1>4. game \in Nat
  BY DEF TypeInv, TypeOK
<1>5. player # "recv" /\ asked' = game => asked = game
  BY <1>2, <1>3, <1>4
<1> QED
  BY <1>1, <1>5 DEF QuitInv, EscapeWaits

\* A step of the player: the flag is set by escape, or by a message after its game.
LEMMA QuitPlayer ==
  ASSUME NesAssumption, TypeInv, GameInv, QuitInv, PlayerStep
  PROVE  QuitInv'
<1> USE DEF Player, mail, screen, loading, keyboard, caller
<1>1. CASE PlayerPoll
  <2>1. /\ UNCHANGED <<keys, asked, game, spoilt, escaped>>
        /\ player = "poll" /\ player' = "key" /\ (mb = <<>> => quit' = quit)
    BY <1>1 DEF PlayerPoll
  <2>2. ASSUME mb # <<>> PROVE asked # game
    <3>1. mb \in Seq(Nat) /\ Len(mb) \in 1 .. Len(mb) /\ game \in Nat
      BY <2>2, Taken DEF TypeInv, TypeOK, Calls, Stop
    <3>2. asked = mb[Len(mb)] /\ (asked = Stop \/ asked > game)
      BY <2>2, <3>1 DEF GameInv, OrderInv, Above
    <3>3. game # Stop
      BY <2>1 DEF GameInv, NumberInv, Stop
    <3> QED
      BY <3>1, <3>2, <3>3
  <2> QED
    BY <2>1, <2>2 DEF QuitInv, EscapeWaits, Polling
<1>2. CASE PlayerKey
  <2>1. /\ UNCHANGED <<asked, game, spoilt, escaped>> /\ player = "key" /\ player' = "sound"
        /\ keys = <<>> => UNCHANGED <<keys, quit>>
        /\ keys # <<>> =>
             /\ keys' = Tail(keys)
             /\ quit' => quit \/ (Head(keys)[1] = Esc /\ Head(keys)[2] = "release")
    BY <1>2 DEF PlayerKey
  <2>2. CASE keys = <<>>
    BY <2>1, <2>2 DEF QuitInv, EscapeWaits, Polling
  <2>3. CASE keys # <<>>
    <3>1. /\ Head(keys) = keys[1] /\ Len(keys) \in Nat \ {0} /\ Len(Tail(keys)) = Len(keys) - 1
          /\ \A i \in 1 .. Len(keys) - 1 : Tail(keys)[i] = keys[i + 1]
          /\ Head(keys) \in Keys \X {"press", "release"}
      BY <2>3, Taken DEF TypeInv, TypeOK
    <3>2. EscapeWaits' => EscapeWaits
      BY <2>1, <2>3, <3>1 DEF EscapeWaits
    <3>3. Head(keys)[1] = Esc /\ Head(keys)[2] = "release" => EscapeWaits
      BY <3>1 DEF EscapeWaits
    <3> QED
      BY <2>1, <2>3, <3>2, <3>3 DEF QuitInv, Polling
  <2> QED
    BY <2>2, <2>3
<1>3. CASE PlayerRead
  BY <1>3 DEF PlayerRead, QuitAtStart, QuitInv, EscapeWaits, Polling
<1>4. CASE PlayerReset
  BY <1>4 DEF PlayerReset, KeysAfterReset, QuitInv, EscapeWaits, Polling
<1>5. CASE PlayerTake \/ PlayerFails \/ PlayerClose \/ PlayerStopped \/ PlayerEnable
  <2>1. player' \notin {"mark", "clear"} \cup Polling
    BY <1>5 DEF PlayerTake, PlayerFails, PlayerClose, PlayerStopped, PlayerEnable, AfterFailure,
                Polling
  <2> QED
    BY <2>1 DEF QuitInv, Polling
<1>6. CASE PlayerMark \/ PlayerClear \/ PlayerOpen \/ PlayerFrame \/ PlayerSound
  <2>1. UNCHANGED <<keys, asked, game, spoilt, escaped, quit>>
        /\ player \in {"mark", "clear"} \cup Polling
        /\ (player' \in {"frame", "poll", "key", "sound"} =>
              player \in {"frame", "poll", "key", "sound"})
    BY <1>6 DEF PlayerMark, PlayerClear, PlayerOpen, PlayerFrame, PlayerSound, Polling
  <2> QED
    BY <2>1 DEF QuitInv, EscapeWaits
<1> QED
  BY <1>1, <1>2, <1>3, <1>4, <1>5, <1>6 DEF PlayerStep

\* Every step keeps the flag to its game.
LEMMA QuitNext ==
  ASSUME NesAssumption, TypeInv, GameInv, QuitInv, [Next]_vars
  PROVE  QuitInv'
<1>1. CASE UNCHANGED vars
  <2>1. UNCHANGED <<keys, quit, asked, game, player, spoilt, escaped>>
    BY <1>1 DEF vars, keyboard, mail
  <2> QED
    BY <2>1 DEF QuitInv, EscapeWaits
<1> QED
  BY <1>1, QuitReport, QuitSend, QuitPlayer DEF Next

-----------------------------------------------------------------------------
(* The games. *)

GamesInv == TypeInv /\ GameInv /\ HeldInv /\ QuitInv

\* The invariant of the games holds in every reachable state.
LEMMA GamesAlways == Spec => []GamesInv
<1>1. NesAssumption
  BY NesAssumption
<1>2. Init => GamesInv
  BY <1>1, TypeInit, GameInit, HeldInit, QuitInit DEF GamesInv
<1>3. GamesInv /\ [Next]_vars => GamesInv'
  BY <1>1, TypeNext, GameNext, HeldNext, QuitNext DEF GamesInv, GameInv
<1> QED
  BY <1>2, <1>3, PTL DEF Spec

\* Every variable stays in its range, the mailboxes in their capacities.
THEOREM TypeCorrect == Spec => []TypeOK
<1>1. GamesInv => TypeOK
  BY DEF GamesInv, TypeInv
<1> QED
  BY <1>1, GamesAlways, PTL

\* A game that nobody asked to stop or to replace is the one that was asked for,
\* though its name is freed and allocated while games are loaded and ended, as long as
\* no message was refused.
THEOREM AlwaysTheRightFile == Spec => []RightFile
<1>1. GamesInv => RightFile
  BY DEF GamesInv, GameInv, FileInv, InGame, RightFile
<1> QED
  BY <1>1, GamesAlways, PTL

\* Whatever is pressed before, during or between games, on a keyboard with any number
\* of slots: as soon as the events are taken the joypad agrees with the keys about every
\* button, but for those whose key moved, was replaced or had its event refused and has
\* not had an event since.
THEOREM JoypadAlwaysFollows == Spec => []JoypadFollowsKeys
<1>1. GamesInv => JoypadFollowsKeys
  <2> SUFFICES ASSUME GamesInv, player \in Polling, keys = <<>>
               PROVE  joypad \ spoilt = held \ ({Esc} \cup spoilt)
    BY DEF JoypadFollowsKeys, Polling
  <2>1. joypad \subseteq Buttons /\ held \subseteq Keys
    BY DEF GamesInv, TypeInv, TypeOK
  <2>2. \A b \in Buttons \ spoilt : Pressed(<<>>, joypad, b) <=> b \in held
    BY DEF GamesInv, HeldInv
  <2>3. \A b \in Buttons : Pressed(<<>>, joypad, b) <=> b \in joypad
    BY DEF Pressed
  <2>4. Keys = Buttons \cup {Esc} /\ Esc \notin Buttons
    BY NesAssumption DEF Keys, NesAssumption
  <2> QED
    BY <2>1, <2>2, <2>3, <2>4
<1> QED
  BY <1>1, GamesAlways, PTL

\* No stop, flag or escape of an earlier game ends a game that was asked for last: only
\* an escape that left its slot in this game does.
THEOREM GameAlwaysPlaysOn == Spec => PlaysOn
<1>1. ASSUME GamesInv, [Next]_vars
      PROVE  [player = "sound" /\ player' = "close" /\ asked = game => escaped]_vars
  <2>1. SUFFICES ASSUME Next, player = "sound", player' = "close", asked = game
                 PROVE  escaped
    BY <1>1
  <2>2. quit
    <3>1. PlayerSound
      BY <2>1 DEF Next, PlayerStep, Player, MouseStop, KeyReport, GuiStep, GuiAsk, GuiStop,
                  GuiDelay, GuiDisable, GuiTest, GuiTestAgain, GuiPlayStop, GuiFree, GuiDup,
                  GuiStart, gaming, PlayerTake, PlayerReset, PlayerMark, PlayerClear, PlayerOpen,
                  PlayerFails, PlayerRead, PlayerFrame, PlayerPoll, PlayerKey, PlayerClose,
                  PlayerStopped, PlayerEnable, AfterFailure
    <3> QED
      BY <2>1, <3>1 DEF PlayerSound, Player
  <2> QED
    BY <1>1, <2>1, <2>2 DEF GamesInv, QuitInv
<1> QED
  BY <1>1, GamesAlways, PTL DEF PlaysOn, Spec
=============================================================================
