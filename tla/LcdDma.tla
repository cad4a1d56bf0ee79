------------------------------- MODULE LcdDma -------------------------------
(***************************************************************************)
(* The display: one SPI bus, one DMA stream and one set of counters        *)
(* (drv_lcd.c) with two users, the LVGL thread ("gui") and the emulator    *)
(* ("emu"), which is more urgent and fills the panel while LVGL's flushes  *)
(* are switched off (lv_port_disp.c).  Neither waits for the other's       *)
(* transfer: a fill stops what is being sent.  A statement of the fill is  *)
(* a step, as in the build without optimisation, and the call that starts  *)
(* a transfer is four; the commands that set the address are one.  Either  *)
(* user may be held up at any of them, by threads that are not modelled,   *)
(* for longer than a transfer lasts.  Lengths are in some unit of pixels.  *)
(***************************************************************************)
EXTENDS Integers

CONSTANTS
  Chunk,      \* the longest transfer: 65535 in the code
  Screen,     \* the whole screen, 240 x 280: more than one transfer
  Areas,      \* the sizes of what LVGL redraws
  Frame       \* a picture of the game, 240 x 240: one transfer

ASSUME LcdAssumption ==
  /\ Chunk \in Nat \ {0} /\ Screen \in Areas
  /\ Areas \subseteq Nat \ {0}
  /\ Frame \in 1 .. Chunk

Users == {"gui", "emu"}
Buffers == Users \X {1, 2}
\* late is history: a picture was begun since the transfer was asked for.
Transfers == [buf : Buffers, from : Nat, len : 0 .. Chunk, late : BOOLEAN]
Piece(b, f, n) == [buf |-> b, from |-> f, len |-> n, late |-> FALSE]
NoDma == Piece(<<"gui", 1>>, 0, 0)

PCs == {"handler", "render", "test", "swap", "loop", "forced",   \* of LVGL
        "off", "load", "frame", "draw",                          \* of the emulator
        "clear", "narrow", "address", "wide", "length",          \* of a fill
        "index", "color", "left", "call", "check", "start", "unlock", "count"}

VARIABLES
  total, index, color,   \* _lcd_dma_total_len, _lcd_dma_write_index, _lcd_pcolor
  width,                 \* the configured width of the bus, 8 or 16
  busy, locked, dma,     \* the HAL's state is not READY; its lock; the running transfer
  pc, send, arg,         \* where each user is, its send_len, the transfer it asks for
  enabled, force,        \* disp_flush_enabled, disp_force_refresh
  flushing, area,        \* draw_buf->flushing, and the size of what is redrawn
  invalid,               \* size of what LVGL has to redraw, 0 for nothing
  buf,                   \* the buffer each user draws in: buf_act, _lcd_framebuffer
  flushed, own, sent,    \* history: the buffer last flushed, whether it met no game and
  refused                \* nothing came too early for it, how much of it was then sent
                         \* in a row; whether the lock refused a piece of it

counters == <<total, index, color>>
bus == <<width, busy, locked, dma>>
local == <<send, arg>>
lvgl == <<flushing, area, invalid>>
hist == <<flushed, own, sent, refused>>
vars == <<counters, bus, pc, local, enabled, force, lvgl, buf, hist>>

Init ==
  /\ total = 0 /\ index = 0 /\ color = <<"gui", 1>>
  /\ width = 8 /\ busy = FALSE /\ locked = FALSE /\ dma = NoDma
  /\ pc = [u \in Users |-> IF u = "gui" THEN "handler" ELSE "off"]
  /\ send = [u \in Users |-> 0] /\ arg = [u \in Users |-> NoDma]
  /\ enabled = TRUE /\ force = FALSE
  /\ flushing = FALSE /\ area = Screen /\ invalid = Screen
  /\ buf = [u \in Users |-> 1]
  /\ flushed = <<"gui", 2>> /\ sent = 0 /\ own = FALSE /\ refused = FALSE

\* Between games, while one is loaded, and at the end of a frame (a delay, and the
\* wait for the sound) the emulator sleeps, and only then LVGL runs.
Runs(u) == u = "gui" => pc["emu"] \in {"off", "load", "frame"}

At(u, from, to) == pc[u] = from /\ Runs(u) /\ pc' = [pc EXCEPT ![u] = to]

-----------------------------------------------------------------------------
(* Wrong forms of definitions below, each a slip the code could have.        *)

\* what is left is not cut to one transfer
Uncut == total - index

\* the second transfer begins where the first did
IndexKept(n) == index

\* what was sent is complete with its first transfer
FirstIsAll == FALSE

\* the bus gets its new width, the transfer goes on
KeepsSending(w) == width' = w /\ UNCHANGED <<busy, locked, dma>>

\* the display is switched on again and shows what it showed
EnableOnly == enabled' = TRUE /\ UNCHANGED force

\* one buffer for each
NoFlip(u) == buf[u]

-----------------------------------------------------------------------------
(* The bus and the DMA. *)

Idle == dma = NoDma

\* rt_spi_configure with another width sets the SPI and its DMA stream up from
\* reset: what was being sent ends without a callback, and the lock is open.
Reconfigure(w) == width' = w /\ busy' = FALSE /\ locked' = FALSE /\ dma' = NoDma

\* rt_hw_lcd_spi_change_data_width: nothing happens if it is the width there is.
ChangeWidth(w) == IF width = w THEN UNCHANGED bus ELSE Reconfigure(w)

\* The unsigned difference of both counters, cut to one transfer.
NextLen == IF total - index \in 0 .. Chunk THEN total - index ELSE Chunk

\* A piece of the flushed area counts if it follows on what was sent of it; any
\* other piece of it spoils the picture.
Sent(d) == IF d.buf # flushed THEN sent
           ELSE IF d.from = sent THEN sent + d.len ELSE -1

More == total > index
IndexAfter(n) == index + n

\* LVGL has started its transfer and not yet counted it.
Uncounted == pc["gui"] \in {"unlock", "count"}

\* The transfer is complete: HAL_SPI_TxCpltCallback and _async_done, which sends
\* the next piece or, once, tells LVGL that the flush is over.  It counts the next
\* piece also when the lock, held by the thread below it, refuses it.
DmaDone ==
  /\ ~Idle
  /\ own' = (own /\ ~Uncounted)
  /\ sent' = IF own' THEN Sent(dma) ELSE 0
  /\ IF total # 0 /\ More
     THEN /\ dma' = IF locked THEN NoDma
                    ELSE Piece(color, index, NextLen)
          /\ busy' = ~locked
          /\ refused' = (refused \/ locked)
          /\ index' = IndexAfter(NextLen)
          /\ UNCHANGED <<total, flushing>>
     ELSE /\ dma' = NoDma /\ busy' = FALSE
          /\ total' = 0
          /\ flushing' = IF total # 0 THEN FALSE ELSE flushing
          /\ UNCHANGED <<index, refused>>
  /\ UNCHANGED <<color, width, locked, pc, local, enabled, force, area, invalid, buf,
                 flushed>>

-----------------------------------------------------------------------------
(* lcd_fill_array_async: of the area of LVGL, or of a picture of the game. *)

rest == <<enabled, force, lvgl, buf, hist>>
Size(u) == IF u = "gui" THEN area ELSE Frame

Clear(u) ==
  /\ At(u, "clear", "narrow")
  /\ total' = 0
  /\ UNCHANGED <<index, color, bus, local, rest>>

Narrow(u) ==
  /\ At(u, "narrow", "address")
  /\ ChangeWidth(8)
  /\ UNCHANGED <<counters, local, rest>>

\* lcd_address_set: a command that finds the bus busy fails and makes it ready; one
\* that finds it locked fails.
Address(u) ==
  /\ At(u, "address", "wide")
  /\ busy' = (busy /\ locked)
  /\ UNCHANGED <<counters, width, locked, dma, local, rest>>

Widen(u) ==
  /\ At(u, "wide", "length")
  /\ ChangeWidth(16)
  /\ UNCHANGED <<counters, local, rest>>

SetLength(u) ==
  /\ At(u, "length", "index")
  /\ total' = Size(u)
  /\ UNCHANGED <<index, color, bus, local, rest>>

SetIndex(u) ==
  /\ At(u, "index", "color")
  /\ index' = 0
  /\ UNCHANGED <<total, color, bus, local, rest>>

SetColor(u) ==
  /\ At(u, "color", "left")
  /\ color' = <<u, buf[u]>>
  /\ UNCHANGED <<total, index, bus, local, rest>>

Left(u) ==
  /\ At(u, "left", "call")
  /\ send' = [send EXCEPT ![u] = NextLen]
  /\ UNCHANGED <<counters, bus, arg, rest>>

\* HAL_SPI_Transmit_DMA, whose result nobody looks at: refused while another call of
\* it holds the lock, ...
Call(u) ==
  /\ At(u, "call", IF locked THEN "count" ELSE "check")
  /\ arg' = IF locked THEN arg
            ELSE [arg EXCEPT ![u] = Piece(color, index, send[u])]
  /\ locked' = TRUE
  /\ UNCHANGED <<counters, width, busy, dma, send, rest>>

\* ... while the bus is not ready, or for no length ...
Check(u) ==
  /\ At(u, "check", IF busy \/ arg[u].len = 0 THEN "unlock" ELSE "start")
  /\ busy' = (busy \/ arg[u].len # 0)
  /\ UNCHANGED <<counters, width, locked, dma, local, rest>>

\* ... and with the stream running, which makes the bus ready.
Start(u) ==
  /\ At(u, "start", "unlock")
  /\ dma' = IF Idle THEN [arg[u] EXCEPT !.late = arg[u].buf # color] ELSE dma
  /\ busy' = (busy /\ Idle)
  /\ UNCHANGED <<counters, width, locked, local, rest>>

\* The call returns.
Unlock(u) ==
  /\ At(u, "unlock", "count")
  /\ locked' = FALSE
  /\ arg' = [arg EXCEPT ![u] = NoDma]
  /\ UNCHANGED <<counters, width, busy, dma, send, rest>>

\* The fill returns.
Count(u) ==
  /\ At(u, "count", IF u = "gui" THEN "swap" ELSE "frame")
  /\ index' = IndexAfter(send[u])
  /\ send' = [send EXCEPT ![u] = 0]
  /\ UNCHANGED <<total, color, bus, arg, rest>>

Fill(u) ==
  \/ Clear(u) \/ Narrow(u) \/ Address(u) \/ Widen(u) \/ SetLength(u)
  \/ SetIndex(u) \/ SetColor(u) \/ Left(u)
  \/ Call(u) \/ Check(u) \/ Start(u) \/ Unlock(u) \/ Count(u)

-----------------------------------------------------------------------------
(* LVGL: the loop of its thread, and a refresh of one area (lv_refr.c). *)

\* lv_task_handler with nothing to draw.
GuiNothing ==
  /\ At("gui", "handler", "loop")
  /\ invalid = 0
  /\ UNCHANGED <<counters, bus, local, rest>>

\* refr_area_part, for the screen that was invalidated or for whatever changed on
\* it, waits for the last flush before it draws.
GuiRender ==
  /\ At("gui", "handler", "render")
  /\ ~flushing
  /\ area' \in (IF invalid # 0 THEN {invalid} ELSE Areas) /\ invalid' = 0
  /\ UNCHANGED <<counters, bus, local, enabled, force, flushing, buf, hist>>

GuiFlush ==
  /\ At("gui", "render", "test")
  /\ flushing' = TRUE
  /\ flushed' = <<"gui", buf["gui"]>> /\ sent' = 0
  /\ own' = (pc["emu"] = "off" /\ Idle) /\ refused' = FALSE
  /\ UNCHANGED <<counters, bus, local, enabled, force, area, invalid, buf>>

\* disp_flush: filled, or dropped while flushing is switched off.
GuiTest ==
  /\ At("gui", "test", IF enabled THEN "clear" ELSE "swap")
  /\ flushing' = (flushing /\ enabled)
  /\ own' = (own /\ enabled)
  /\ UNCHANGED <<counters, bus, local, enabled, force, area, invalid, buf,
                 flushed, sent, refused>>

Other(u) == 3 - buf[u]

GuiSwap ==
  /\ At("gui", "swap", "loop")
  /\ buf' = [buf EXCEPT !["gui"] = Other("gui")]
  /\ UNCHANGED <<counters, bus, local, enabled, force, lvgl, hist>>

\* After lv_task_handler: a request to draw the whole screen.
GuiLoop ==
  /\ At("gui", "loop", IF force THEN "forced" ELSE "handler")
  /\ force' = FALSE
  /\ UNCHANGED <<counters, bus, local, enabled, lvgl, buf, hist>>

GuiInvalidate ==
  /\ At("gui", "forced", "handler")
  /\ invalid' = Screen
  /\ UNCHANGED <<counters, bus, local, enabled, force, flushing, area, buf, hist>>

GuiStep ==
  \/ GuiNothing \/ GuiRender \/ GuiFlush \/ GuiTest \/ GuiSwap
  \/ GuiLoop \/ GuiInvalidate
  \/ Fill("gui")

-----------------------------------------------------------------------------
(* Games. *)

\* nes_start switches LVGL's flushes off and starts the player.
GameStart ==
  /\ At("emu", "off", "load")
  /\ enabled' = FALSE
  /\ own' = FALSE /\ sent' = 0
  /\ UNCHANGED <<counters, bus, local, force, lvgl, buf, flushed, refused>>

\* The file is loaded.
GameLoad ==
  /\ At("emu", "load", "frame")
  /\ UNCHANGED <<counters, bus, local, rest>>

\* A frame: the other buffer is drawn in, and shown.
GameDraw ==
  /\ At("emu", "frame", "draw")
  /\ buf' = [buf EXCEPT !["emu"] = Other("emu")]
  /\ UNCHANGED <<counters, bus, local, enabled, force, lvgl, hist>>

GameShow ==
  /\ At("emu", "draw", "clear")
  /\ UNCHANGED <<counters, bus, local, rest>>

\* disp_enable_update
SwitchOn == enabled' = TRUE /\ force' = TRUE

\* The game ends, or could not be loaded.
GameEnd ==
  /\ pc["emu"] \in {"load", "frame"} /\ pc' = [pc EXCEPT !["emu"] = "off"]
  /\ SwitchOn
  /\ UNCHANGED <<counters, bus, local, lvgl, buf, hist>>

EmuStep == GameShow \/ Fill("emu")

-----------------------------------------------------------------------------
Next ==
  \/ DmaDone
  \/ GuiStep
  \/ GameStart \/ GameLoad \/ GameDraw \/ EmuStep \/ GameEnd

Spec == Init /\ [][Next]_vars

\* Transfers end; LVGL runs whenever the emulator sleeps, which it does in each
\* frame; the emulator is the more urgent.  Nothing has to change on the screen,
\* no game has to start, to draw or to end.
FairSpec == Spec /\ WF_vars(DmaDone) /\ SF_vars(GuiStep) /\ WF_vars(EmuStep)

-----------------------------------------------------------------------------
(* Properties. *)

\* Every variable stays in its range.
TypeOK ==
  /\ total \in Nat /\ index \in Nat /\ color \in Buffers
  /\ width \in {8, 16} /\ busy \in BOOLEAN /\ locked \in BOOLEAN
  /\ dma \in Transfers
  /\ pc \in [Users -> PCs]
  /\ send \in [Users -> 0 .. Chunk] /\ arg \in [Users -> Transfers]
  /\ enabled \in BOOLEAN /\ force \in BOOLEAN
  /\ flushing \in BOOLEAN /\ area \in Areas /\ invalid \in Areas \cup {0}
  /\ buf \in [Users -> {1, 2}]
  /\ flushed \in Buffers /\ sent \in Nat \cup {-1}
  /\ own \in BOOLEAN /\ refused \in BOOLEAN

\* The game never draws in the buffer that is being sent, although it waits for no
\* transfer: each picture stops what is being sent.  Only a call of LVGL that was held
\* up over a picture may start the one before it, late.
GameBuffer == pc["emu"] = "draw" /\ ~Idle /\ ~dma.late => dma.buf # <<"emu", buf["emu"]>>

\* A picture of the game is never refused, neither by the lock nor by the bus nor by
\* the stream, wherever in a fill, a call of the HAL or a transfer of its own LVGL was
\* interrupted.
FrameStarts ==
  /\ pc["emu"] = "call" => ~locked /\ ~busy /\ Idle /\ send["emu"] = Frame
  /\ pc["emu"] = "start" => Idle

\* "'lv_disp_flush_ready()' has to be called when finished" (lv_port_disp.c:49): the
\* flush of an area that found the bus quiet, met no game, and whose first transfer did
\* not end before it was counted, is acknowledged when all of it was sent, in one row,
\* and no earlier.  (A transfer that ends before it is counted is sent again.)
ReadyWhenSent == [][flushing /\ ~flushing' /\ own' => sent' = area]_vars

\* LVGL, which waits without a limit for its flush, is answered, by its own transfer
\* or by that of the game that stopped it, unless one picture after the other stops the
\* transfer of the last for ever, or a transfer ended while the call that had started it
\* still held the lock, which refused the next one.
FlushAcknowledged ==
  <>[](pc["emu"] \in {"off", "load", "frame"}) => (flushing ~> ~flushing \/ refused)

\* The same without exception, as the comment quoted above has it, even if no game
\* is ever started.
FlushReady == [](pc["emu"] = "off") => (flushing ~> ~flushing)

\* Once the games are over the whole screen is drawn again and its transfer really
\* begins, whatever LVGL and the bus were doing when the last one ended; unless the
\* lock has refused a transfer and LVGL waits for ever.
Frozen == flushing /\ refused
ScreenSent == /\ pc["gui"] = "start" /\ Idle
              /\ arg["gui"].buf = <<"gui", buf["gui"]>> /\ arg["gui"].from = 0
              /\ area = Screen /\ index = 0 /\ total = Screen
ScreenRestored ==
  <>[](pc["emu"] = "off") /\ []<>~Frozen
    => (pc["emu"] # "off" ~> pc["emu"] = "off" /\ ScreenSent)
=============================================================================
