----------------------------- MODULE NesPlayer -----------------------------
(***************************************************************************)
(* The player of games (nesplayer.c).  LVGL ("gui": the list of games, or  *)
(* nes_start) asks for a game or goes back, a release of the right button  *)
(* of the mouse stops the game, in an interrupt, and the keyboard's        *)
(* reports, in an interrupt, become events of keys.  The thread that plays *)
(* takes messages from one mailbox and events of keys from another; it is  *)
(* more urgent than LVGL, which runs only where the player sleeps.         *)
(***************************************************************************)
EXTENDS Integers, Sequences, FiniteSets

CONSTANTS
  MbSize, KeySize,   \* capacities of play_mb and key_mb, 32 in the code
  Buttons, Esc,      \* the keys that move a button of the joypad, and escape
  NoKey,             \* an empty slot of a report
  Slots,             \* slots of a report, 6 in the code
  MaxCalls           \* bound: games that are asked for

ASSUME NesAssumption ==
  /\ MbSize \in Nat \ {0} /\ KeySize \in Nat \ {0} /\ MaxCalls \in Nat
  /\ Slots \in Nat \ {0}
  /\ Esc \notin Buttons /\ NoKey \notin Buttons \cup {Esc}

Keys == Buttons \cup {Esc}

\* A message to start carries, for the properties, the number of the call that
\* sent it; each call names a game of its own.
Stop == 0
Calls == 1 .. MaxCalls
Dangling == 0

VARIABLES
  state,         \* _player.state
  mb, keys,      \* _player.play_mb, _player.key_mb
  uri, path,     \* the game _player.uri names, and the one nes_load was called with
  file, quit,    \* the game that is loaded, and system_task_return
  joypad,        \* the buttons that are down for the game
  slots,         \* key_buffer
  enabled,       \* disp_flush_enabled
  player, gui,   \* where the player and LVGL are
  op, calls,     \* what LVGL was asked for, and how many games so far
  asked, game,   \* history: the last message that was delivered, and the call of
                 \* the last start that was taken
  over, late,    \* history: a message was refused; the display was switched off
                 \* while a game was not over
  held, spoilt,  \* history: the keys pressed since the game began and still down;
                 \* those whose last event was refused, or told of another slot
  escaped        \* history: escape left its slot in this game

mail == <<mb, asked, over>>
keyboard == <<keys, slots, held, spoilt, escaped>>
screen == <<enabled, late>>
loading == <<uri, path, file>>
caller == <<gui, op, calls>>
vars == <<state, mail, keyboard, screen, loading, quit, joypad, player, caller, game>>

Init ==
  /\ state = "STOPPED" /\ mb = <<>> /\ keys = <<>>
  /\ uri = Dangling /\ path = Dangling /\ file = Dangling /\ quit = FALSE
  /\ joypad = {} /\ slots = [i \in 1 .. Slots |-> NoKey]
  /\ enabled = TRUE
  /\ player = "recv" /\ gui = "idle" /\ op = "back" /\ calls = 0
  /\ asked = Stop /\ game = 0 /\ over = FALSE /\ late = FALSE
  /\ held = {} /\ spoilt = {} /\ escaped = FALSE

\* The player sleeps without a message, for the card, at the start of a frame and
\* for the sound.
PlayerSleeps ==
  \/ player \in {"open", "read", "frame", "sound", "close"}
  \/ player = "recv" /\ mb = <<>>

Player(from, to) == player = from /\ player' = to
Gui(from, to) == gui = from /\ PlayerSleeps /\ gui' = to

-----------------------------------------------------------------------------
(* Wrong forms of definitions below, each a slip the code could have.        *)

\* a new game does not stop the one that runs
NeverPlaying == FALSE

\* the events of the last game are left for this one
KeysKept == keys

\* a game that cannot be loaded leaves at once
LeavesAtOnce == "recv"

\* the outer loop takes every message for a start
TakesStop(m) == TRUE

\* the flag of the last game is left
QuitKept == quit

-----------------------------------------------------------------------------
(* Callers. *)

HasRoom == Len(mb) < MbSize

\* rt_mb_send refuses at once when the mailbox is full; nobody looks.
Send(m) ==
  IF HasRoom
  THEN mb' = Append(mb, m) /\ asked' = m /\ UNCHANGED over
  ELSE over' = TRUE /\ UNCHANGED <<mb, asked>>

Playing == state # "STOPPED"

\* usr_mouse_process_data: nesplayer_stop in the interrupt of the mouse.
MouseStop ==
  /\ Playing
  /\ Send(Stop)
  /\ UNCHANGED <<state, keyboard, screen, loading, quit, joypad, player, caller, game>>

gaming == <<state, keyboard, quit, joypad, player, game>>

\* _screen_btn_event_cb and nes_start begin with nesplayer_stop.
GuiAsk ==
  /\ Gui("idle", IF Playing THEN "stop" ELSE "delay")
  /\ \/ op' = "back" /\ UNCHANGED calls
     \/ op' = "play" /\ calls < MaxCalls /\ calls' = calls + 1
  /\ UNCHANGED <<gaming, mail, screen, loading>>

GuiStop ==
  /\ Gui("stop", "delay")
  /\ Send(Stop)
  /\ UNCHANGED <<gaming, screen, loading, op, calls>>

\* 300 ms, in which the game may end or not.
GuiDelay ==
  /\ Gui("delay", IF op = "back" THEN "idle" ELSE "disable")
  /\ op' = "back"
  /\ UNCHANGED <<gaming, mail, screen, loading, calls>>

GuiDisable ==
  /\ Gui("disable", "test")
  /\ enabled' = FALSE
  /\ late' = (player # "recv")
  /\ UNCHANGED <<gaming, mail, loading, op, calls>>

\* nesplayer_play, which tests the state once itself and once in nesplayer_stop.
GuiTest ==
  /\ Gui("test", IF Playing THEN "again" ELSE "free")
  /\ UNCHANGED <<gaming, mail, screen, loading, op, calls>>

GuiTestAgain ==
  /\ Gui("again", IF Playing THEN "playstop" ELSE "free")
  /\ UNCHANGED <<gaming, mail, screen, loading, op, calls>>

GuiPlayStop ==
  /\ Gui("playstop", "free")
  /\ Send(Stop)
  /\ UNCHANGED <<gaming, screen, loading, op, calls>>

\* The old uri is freed, also under a player that is opening the file by it.
GuiFree ==
  /\ Gui("free", "dup")
  /\ uri' = Dangling
  /\ path' = IF player = "open" THEN Dangling ELSE path
  /\ UNCHANGED <<gaming, mail, screen, file, op, calls>>

GuiDup ==
  /\ Gui("dup", "start")
  /\ uri' = calls
  /\ UNCHANGED <<gaming, mail, screen, path, file, op, calls>>

GuiStart ==
  /\ Gui("start", "idle")
  /\ Send(calls)
  /\ UNCHANGED <<gaming, screen, loading, op, calls>>

GuiStep ==
  \/ GuiAsk \/ GuiStop \/ GuiDelay \/ GuiDisable \/ GuiTest \/ GuiTestAgain
  \/ GuiPlayStop \/ GuiFree \/ GuiDup \/ GuiStart

-----------------------------------------------------------------------------
(* The keyboard. *)

Down(report) == {report[i] : i \in 1 .. Slots} \ {NoKey}

\* What a keyboard may report next: no key is in two slots.
Reports ==
  {r \in [1 .. Slots -> Keys \cup {NoKey}] :
     \A i, j \in 1 .. Slots : r[i] = r[j] /\ r[i] # NoKey => i = j}

\* The slots that changed, and the n-th of them.
Changed(old, new) == {i \in 1 .. Slots : old[i] # new[i]}
Nth(S, n) == CHOOSE i \in S : Cardinality({j \in S : j <= i}) = n

\* keyboard_scan: a slot that changed is a press of what it holds now or, if it is
\* empty, a release of what it held.
Event(old, new, i) == IF new[i] # NoKey THEN <<new[i], "press">> ELSE <<old[i], "release">>
Events(old, new) ==
  LET changed == Changed(old, new)
  IN  [n \in 1 .. Cardinality(changed) |-> Event(old, new, Nth(changed, n))]

\* The keys of which the events of a report tell nothing, or too much: a key whose slot
\* is taken by another one is not released, and one that moves to another slot is
\* pressed there and, if it leaves an empty slot, released, in the order of the slots.
Left(old, new, k) == \E i \in 1 .. Slots : old[i] = k /\ new[i] # k
Moved(old, new) ==
  {k \in Keys : \E i \in 1 .. Slots :
     old[i] = k /\ new[i] # k /\ (new[i] # NoKey \/ k \in Down(new))}

\* nesplayer_send_key_event drops the events that find no room, and all of them if
\* no game is played.
KeysOf(events, from) == {events[n][1] : n \in from .. Len(events)}
Fitting(events) == [n \in 1 .. (IF Len(events) < KeySize THEN Len(events) ELSE KeySize)
                      |-> events[n]]

KeyReport ==
  \E new \in Reports \ {slots} :
    LET events   == Events(slots, new)
        arriving == keys \o events
    IN  /\ slots' = new
        /\ IF state = "PLAYING"
           THEN /\ keys' = Fitting(arriving)
                /\ held' = (held \cup (Down(new) \ Down(slots))) \cap Down(new)
                /\ spoilt' = (spoilt \ KeysOf(events, 1)) \cup Moved(slots, new)
                             \cup KeysOf(arriving, KeySize + 1)
                /\ escaped' = (escaped \/ Left(slots, new, Esc))
           ELSE UNCHANGED <<keys, held, spoilt, escaped>>
        /\ UNCHANGED <<state, mail, screen, loading, quit, joypad, player, caller, game>>

-----------------------------------------------------------------------------
(* The player: nesplayer_entry, nes_load and nes_emulate_frame. *)

IsStart(m) == m # Stop

PlayerTake ==
  /\ player = "recv" /\ mb # <<>>
  /\ mb' = Tail(mb)
  /\ IF IsStart(Head(mb))
     THEN player' = "reset" /\ game' = Head(mb)
     ELSE UNCHANGED <<player, game>>
  /\ UNCHANGED <<state, asked, over, keyboard, screen, loading, quit, joypad, caller>>

KeysAfterReset == <<>>

PlayerReset ==
  /\ Player("reset", "mark")
  /\ keys' = KeysAfterReset
  /\ UNCHANGED <<state, mail, slots, held, spoilt, escaped, screen, loading, quit, joypad,
                 caller, game>>

PlayerMark ==
  /\ Player("mark", "clear")
  /\ state' = "PLAYING"
  /\ UNCHANGED <<mail, keyboard, screen, loading, quit, joypad, caller, game>>

PlayerClear ==
  /\ Player("clear", "open")
  /\ joypad' = {}
  /\ path' = uri
  /\ UNCHANGED <<state, mail, keyboard, screen, uri, file, quit, caller, game>>

\* What is opened by a string that was freed can be any game.
PlayerOpen ==
  /\ Player("open", "read")
  /\ file' \in (IF path = Dangling THEN Calls ELSE {path})
  /\ path' = Dangling
  /\ UNCHANGED <<state, mail, keyboard, screen, uri, quit, joypad, caller, game>>

AfterFailure == "stopped"

\* No such file, no memory, a cartridge that is not supported.
PlayerFails ==
  /\ player \in {"open", "read"} /\ player' = AfterFailure
  /\ path' = Dangling /\ file' = Dangling
  /\ UNCHANGED <<state, mail, keyboard, screen, uri, quit, joypad, caller, game>>

QuitAtStart == FALSE

PlayerRead ==
  /\ Player("read", "frame")
  /\ quit' = QuitAtStart
  /\ UNCHANGED <<state, mail, keyboard, screen, loading, joypad, caller, game>>

\* A frame is drawn.
PlayerFrame ==
  /\ Player("frame", "poll")
  /\ UNCHANGED <<state, mail, keyboard, screen, loading, quit, joypad, caller, game>>

\* nes_get_gamepadval: one message and one event of a key in each frame.
PlayerPoll ==
  /\ Player("poll", "key")
  /\ IF mb = <<>> THEN UNCHANGED <<mb, quit>>
     ELSE mb' = Tail(mb) /\ quit' = (quit \/ Head(mb) = Stop)
  /\ UNCHANGED <<state, asked, over, keyboard, screen, loading, joypad, caller, game>>

PlayerKey ==
  /\ Player("key", "sound")
  /\ IF keys = <<>> THEN UNCHANGED <<keys, joypad, quit>>
     ELSE LET key == Head(keys)[1]
              released == Head(keys)[2] = "release"
          IN  /\ keys' = Tail(keys)
              /\ quit' = (quit \/ (key = Esc /\ released))
              /\ joypad' = IF released THEN joypad \ {key} ELSE joypad \cup ({key} \cap Buttons)
  /\ UNCHANGED <<state, mail, slots, held, spoilt, escaped, screen, loading, caller, game>>

\* The sound of the frame is written.
PlayerSound ==
  /\ Player("sound", IF quit THEN "close" ELSE "frame")
  /\ UNCHANGED <<state, mail, keyboard, screen, loading, quit, joypad, caller, game>>

PlayerClose ==
  /\ Player("close", "stopped")
  /\ file' = Dangling
  /\ UNCHANGED <<state, mail, keyboard, screen, uri, path, quit, joypad, caller, game>>

PlayerStopped ==
  /\ Player("stopped", "enable")
  /\ state' = "STOPPED"
  /\ held' = {} /\ spoilt' = {} /\ escaped' = FALSE
  /\ UNCHANGED <<mail, keys, slots, screen, loading, quit, joypad, caller, game>>

\* disp_enable_update
PlayerEnable ==
  /\ Player("enable", "recv")
  /\ enabled' = TRUE
  /\ UNCHANGED <<state, mail, keyboard, late, loading, quit, joypad, caller, game>>

PlayerStep ==
  \/ PlayerTake \/ PlayerReset \/ PlayerMark \/ PlayerClear \/ PlayerOpen \/ PlayerFails
  \/ PlayerRead \/ PlayerFrame \/ PlayerPoll \/ PlayerKey \/ PlayerSound
  \/ PlayerClose \/ PlayerStopped \/ PlayerEnable

-----------------------------------------------------------------------------
Next == MouseStop \/ KeyReport \/ GuiStep \/ PlayerStep

Spec == Init /\ [][Next]_vars

\* The player goes on: files are read or fail, sound is played.  Nobody has to call.
FairSpec == Spec /\ WF_vars(PlayerStep)

-----------------------------------------------------------------------------
(* Properties. *)

\* Every variable stays in its range.
TypeOK ==
  /\ state \in {"STOPPED", "PLAYING"}
  /\ mb \in Seq(Calls \cup {Stop}) /\ Len(mb) <= MbSize
  /\ keys \in Seq(Keys \X {"press", "release"}) /\ Len(keys) <= KeySize
  /\ uri \in Calls \cup {Dangling} /\ path \in Calls \cup {Dangling}
  /\ file \in Calls \cup {Dangling} /\ quit \in BOOLEAN
  /\ joypad \subseteq Buttons /\ slots \in [1 .. Slots -> Keys \cup {NoKey}]
  /\ enabled \in BOOLEAN /\ late \in BOOLEAN
  /\ player \in {"recv", "reset", "mark", "clear", "open", "read", "frame", "poll", "key",
                 "sound", "close", "stopped", "enable"}
  /\ gui \in {"idle", "stop", "delay", "disable", "test", "again", "playstop", "free",
              "dup", "start"}
  /\ op \in {"play", "back"} /\ calls \in 0 .. MaxCalls
  /\ asked \in Calls \cup {Stop} /\ game \in 0 .. MaxCalls
  /\ over \in BOOLEAN /\ held \subseteq Keys
  /\ spoilt \subseteq Keys /\ escaped \in BOOLEAN

\* The display never stays switched off with nobody left to switch it on: with no
\* message and no game, only a caller between disp_disable_update and its message
\* keeps it off, also if a message was refused, or taken by the wrong loop.
DisplayReturns ==
  player = "recv" /\ mb = <<>> /\ ~enabled
    => gui \in {"test", "again", "playstop", "free", "dup", "start"}

\* While a game draws, LVGL does not, unless the game before was not over when the
\* caller's 300 ms were, and then switched the display on itself.
GameOwnsDisplay == player \in {"read", "frame", "poll", "key", "sound"} /\ ~late => ~enabled

\* A game that nobody asked to stop or to replace is the one that was asked for, the
\* free of the last uri and its use included, unless a message was refused.
RightFile ==
  player \in {"read", "frame", "poll", "key", "sound"} /\ asked = game /\ ~over => file = game

\* Once the events are taken the joypad holds the buttons pressed in this game and
\* still down: nothing is left of an earlier game, nothing is missed as the game
\* begins.  It may be wrong about a button whose key moved to another slot, or gave its
\* slot to another key, or whose event was refused (usbh_hid_template.c:26), but only
\* until the next event of that key, and never about any other button.
JoypadFollowsKeys ==
  player \in {"open", "read", "frame", "poll", "key", "sound"} /\ keys = <<>>
    => joypad \ spoilt = held \ ({Esc} \cup spoilt)

\* A game that was asked for last only ends when escape has left its slot in the
\* reports of this game: no stop, no flag and no escape meant for an earlier game ends it.
PlaysOn ==
  [][player = "sound" /\ player' = "close" /\ asked = game => escaped]_vars

\* What was asked for last happens, be it a game (that begins, or fails to load) or a
\* stop, also if it came while another game was loading or ending, unless another
\* message follows or one was refused.
FollowsLastRequest ==
  /\ \A n \in Calls : asked = n ~> game = n \/ asked # n \/ over
  /\ asked = Stop ~> state = "STOPPED" \/ asked # Stop \/ over
=============================================================================
