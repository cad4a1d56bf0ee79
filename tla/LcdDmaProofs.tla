---------------------------- MODULE LcdDmaProofs ----------------------------
(***************************************************************************)
(* Proofs about LcdDma, for screens, areas and transfers of any length and *)
(* any number of pictures: a picture of the game is never refused, the     *)
(* game draws in the buffer that is being sent only if LVGL sent it late,  *)
(* and a flush that meets no game and is counted before its first transfer *)
(* ends is acknowledged when all of it was sent.                           *)
(***************************************************************************)
EXTENDS LcdDma, TLAPS

Filling == {"length", "index", "color", "left", "call", "check", "start"}
Holding == {"check", "start", "unlock"}

\* Only a call of the HAL holds its lock.
LockInv == locked => \E u \in Users : pc[u] \in Holding

\* What the emulator's fill has established, at each of its statements; LVGL does not
\* run there, and an idle DMA completes nothing.
FillInv ==
  /\ pc["emu"] \in {"address", "wide"} => width = 8
  /\ pc["emu"] \in Filling => Idle
  /\ pc["emu"] \in Filling \ {"start"} => ~busy
  /\ pc["emu"] \in Filling \ {"check", "start"} => ~locked
  /\ pc["emu"] \in {"index", "color", "left", "call"} => total = Frame
  /\ pc["emu"] \in {"color", "left", "call"} => index = 0
  /\ pc["emu"] = "call" => send["emu"] = Frame

\* Between pictures what is sent, or will be by an interrupt, is not the buffer the
\* game draws in next; from then on it is not the one it draws in.
Drawing == {"draw", "clear", "narrow", "address", "wide", "length", "index", "color"}
Unshown == IF pc["emu"] \in Drawing THEN <<"emu", buf["emu"]>> ELSE <<"emu", Other("emu")>>
BufInv == color # Unshown /\ (~Idle /\ ~dma.late => dma.buf # Unshown)

IInv == TypeOK /\ LockInv /\ FillInv /\ BufInv

-----------------------------------------------------------------------------
\* A step that moves one user on, and nothing of the bus.
LEMMA Moves ==
  ASSUME TypeOK, NEW u \in Users, NEW from, NEW to, At(u, from, to)
  PROVE  /\ pc[u] = from /\ pc'[u] = to
         /\ \A v \in Users : v # u => pc'[v] = pc[v]
         /\ u = "gui" => pc["emu"] \in {"off", "load", "frame"}
BY DEF TypeOK, At, Runs, Users

\* No transfer is one, and so is the next piece of an area.
LEMMA TransferTypes ==
  /\ NoDma \in Transfers
  /\ \A b \in Buffers, f \in Nat, l \in 0 .. Chunk : Piece(b, f, l) \in Transfers
BY LcdAssumption DEF NoDma, Piece, Transfers, Buffers, Users

\* The next transfer is never too long, and is the whole picture of a game.
LEMMA NextLenType ==
  ASSUME TypeOK
  PROVE  /\ NextLen \in 0 .. Chunk
         /\ total = Frame /\ index = 0 => NextLen = Frame
<1>1. Chunk \in Nat /\ Frame \in 1 .. Chunk /\ total \in Nat /\ index \in Nat
  BY LcdAssumption DEF TypeOK
<1> QED
  BY <1>1 DEF NextLen

\* The initial state.
LEMMA InvInit == Init => IInv
<1> SUFFICES ASSUME Init PROVE IInv
  OBVIOUS
<1>1. TypeOK
  <2>1. /\ pc \in [Users -> PCs] /\ send \in [Users -> 0 .. Chunk]
        /\ buf \in [Users -> {1, 2}] /\ arg \in [Users -> Transfers]
    BY LcdAssumption, TransferTypes DEF Init, PCs
  <2>2. dma \in Transfers /\ color \in Buffers /\ flushed \in Buffers
    BY TransferTypes DEF Init, Buffers, Users
  <2>3. area \in Areas /\ invalid \in Areas
    BY LcdAssumption DEF Init
  <2>4. /\ total \in Nat /\ index \in Nat /\ width \in {8, 16} /\ busy \in BOOLEAN
        /\ locked \in BOOLEAN /\ refused \in BOOLEAN /\ enabled \in BOOLEAN /\ force \in BOOLEAN /\ flushing \in BOOLEAN
        /\ sent \in Nat /\ own \in BOOLEAN
    BY DEF Init
  <2> QED
    BY <2>1, <2>2, <2>3, <2>4 DEF TypeOK
<1>2. FillInv /\ LockInv
  BY DEF Init, FillInv, Filling, LockInv, Users
<1>3. BufInv
  BY DEF Init, BufInv, Unshown, Drawing, Idle, Users
<1> QED
  BY <1>1, <1>2, <1>3 DEF IInv

-----------------------------------------------------------------------------
(* Types. *)

\* A user that moves stays at a place there is.
LEMMA PcType ==
  ASSUME TypeOK, NEW u \in Users, NEW from, NEW to \in PCs, At(u, from, to)
  PROVE  pc' \in [Users -> PCs]
BY DEF TypeOK, At

\* A completed transfer leaves every variable in its range.
LEMMA DoneType ==
  ASSUME TypeOK, DmaDone
  PROVE  TypeOK'
<1>1. NextLen \in 0 .. Chunk /\ NextLen \in Nat
  BY NextLenType, LcdAssumption
<1>2. sent' \in Nat \cup {-1}
  <2>1. dma.from \in Nat /\ dma.len \in Nat /\ sent \in Nat \cup {-1}
    BY LcdAssumption DEF TypeOK, Transfers
  <2> QED
    BY <2>1 DEF DmaDone, Sent
<1>3. dma' \in Transfers /\ refused' \in BOOLEAN /\ own' \in BOOLEAN
      /\ busy' \in BOOLEAN /\ index' \in Nat /\ total' \in Nat /\ flushing' \in BOOLEAN
  <2>1. CASE total # 0 /\ More
    BY <1>1, <2>1, TransferTypes DEF DmaDone, TypeOK, IndexAfter
  <2>2. CASE ~(total # 0 /\ More)
    <3>1. /\ dma' = NoDma /\ busy' = FALSE /\ total' = 0 /\ index' = index
          /\ flushing' = (IF total # 0 THEN FALSE ELSE flushing) /\ refused' = refused
          /\ own' = (own /\ ~Uncounted)
      BY <2>2 DEF DmaDone
    <3> QED
      BY <3>1, TransferTypes DEF TypeOK
  <2> QED
    BY <2>1, <2>2
<1> QED
  BY <1>2, <1>3 DEF DmaDone, local, TypeOK

\* So does a statement of a fill.
LEMMA FillType ==
  ASSUME TypeOK, NEW u \in Users, Fill(u)
  PROVE  TypeOK'
<1> USE DEF rest, lvgl, hist, counters, bus, local
<1>1. NextLen \in 0 .. Chunk /\ NextLen \in Nat /\ Chunk \in Nat
  BY NextLenType, LcdAssumption
<1>2. pc' \in [Users -> PCs]
  BY PcType DEF Fill, Clear, Narrow, Address, Widen, SetLength, SetIndex, SetColor, Left,
                Call, Check, Start, Unlock, Count, PCs
<1>3. CASE Clear(u) \/ SetIndex(u) \/ Address(u)
  <2>1. CASE Clear(u)
    BY <1>2, <2>1 DEF Clear, TypeOK
  <2>2. CASE SetIndex(u)
    BY <1>2, <2>2 DEF SetIndex, TypeOK
  <2>3. CASE Address(u)
    BY <1>2, <2>3 DEF Address, TypeOK
  <2> QED
    BY <1>3, <2>1, <2>2, <2>3
<1>4. CASE Narrow(u) \/ Widen(u)
  <2>1. /\ width' \in {8, 16} /\ busy' \in BOOLEAN /\ locked' \in BOOLEAN
        /\ dma' \in Transfers
    BY <1>4, TransferTypes DEF Narrow, Widen, ChangeWidth, Reconfigure, TypeOK
  <2> QED
    BY <1>2, <1>4, <2>1 DEF Narrow, Widen, TypeOK
<1>5. CASE SetLength(u)
  <2>1. total' \in Nat
    <3>1. area \in Nat /\ Frame \in Nat
      BY LcdAssumption DEF TypeOK
    <3> QED
      BY <3>1, <1>5 DEF SetLength, Size
  <2> QED
    BY <1>2, <1>5, <2>1 DEF SetLength, TypeOK
<1>6. CASE SetColor(u)
  <2>1. color' \in Buffers
    BY <1>6 DEF SetColor, TypeOK, Buffers
  <2> QED
    BY <1>2, <1>6, <2>1 DEF SetColor, TypeOK
<1>7. CASE Left(u)
  <2>1. send' \in [Users -> 0 .. Chunk]
    BY <1>1, <1>7 DEF Left, TypeOK
  <2> QED
    BY <1>2, <1>7, <2>1 DEF Left, TypeOK
<1>8. CASE Call(u)
  <2>1. Piece(color, index, send[u]) \in Transfers
    BY TransferTypes DEF TypeOK
  <2>2. arg' \in [Users -> Transfers] /\ locked' \in BOOLEAN
    BY <1>8, <2>1 DEF Call, TypeOK
  <2> QED
    BY <1>2, <1>8, <2>2 DEF Call, TypeOK
<1>9. CASE Check(u)
  <2>1. busy' \in BOOLEAN
    BY <1>9 DEF Check
  <2> QED
    BY <1>2, <1>9, <2>1 DEF Check, TypeOK
<1>10. CASE Start(u)
  <2>1. arg[u] \in Transfers
    BY DEF TypeOK
  <2>2. [arg[u] EXCEPT !.late = arg[u].buf # color] \in Transfers
    BY <2>1 DEF Transfers
  <2>3. dma' \in Transfers /\ busy' \in BOOLEAN
    BY <1>10, <2>2 DEF Start, TypeOK
  <2> QED
    BY <1>2, <1>10, <2>3 DEF Start, TypeOK
<1>11. CASE Unlock(u)
  <2>1. arg' \in [Users -> Transfers] /\ locked' \in BOOLEAN
    BY <1>11, TransferTypes DEF Unlock, TypeOK
  <2> QED
    BY <1>2, <1>11, <2>1 DEF Unlock, TypeOK
<1>12. CASE Count(u)
  <2>1. send[u] \in Nat /\ index \in Nat /\ 0 \in 0 .. Chunk
    BY <1>1 DEF TypeOK
  <2>2. index' \in Nat
    BY <1>12, <2>1 DEF Count, IndexAfter
  <2>3. send' \in [Users -> 0 .. Chunk]
    BY <1>12, <2>1 DEF Count, TypeOK
  <2> QED
    BY <1>2, <1>12, <2>2, <2>3 DEF Count, TypeOK
<1> QED
  BY <1>3, <1>4, <1>5, <1>6, <1>7, <1>8, <1>9, <1>10, <1>11, <1>12 DEF Fill

\* So does a step of LVGL.
LEMMA GuiType ==
  ASSUME TypeOK, GuiStep
  PROVE  TypeOK'
<1> USE DEF rest, lvgl, hist, counters, bus, local
<1>1. "gui" \in Users
  BY DEF Users
<1>2. ~Fill("gui") => pc' \in [Users -> PCs]
  BY <1>1, PcType DEF GuiStep, GuiNothing, GuiRender, GuiFlush, GuiTest, GuiSwap, GuiLoop,
                      GuiInvalidate, PCs
<1>3. CASE GuiNothing \/ GuiLoop \/ GuiInvalidate
  <2>1. CASE GuiNothing
    BY <1>1, <1>2, <2>1, FillType DEF GuiNothing, TypeOK
  <2>2. CASE GuiLoop
    BY <1>1, <1>2, <2>2, FillType DEF GuiLoop, TypeOK
  <2>3. CASE GuiInvalidate
    <3>1. invalid' \in Areas
      BY <2>3, LcdAssumption DEF GuiInvalidate
    <3> QED
      BY <1>1, <1>2, <2>3, <3>1, FillType DEF GuiInvalidate, TypeOK
  <2> QED
    BY <1>3, <2>1, <2>2, <2>3
<1>4. CASE GuiRender
  BY <1>2, <1>4, FillType, <1>1 DEF GuiRender, TypeOK
<1>5. CASE GuiFlush
  BY <1>2, <1>5, FillType, <1>1 DEF GuiFlush, TypeOK, Buffers
<1>6. CASE GuiTest
  BY <1>2, <1>6, FillType, <1>1 DEF GuiTest, TypeOK
<1>7. CASE GuiSwap
  <2>1. buf' \in [Users -> {1, 2}]
    <3>1. Other("gui") \in {1, 2}
      BY DEF Other, TypeOK, Users
    <3> QED
      BY <3>1, <1>7 DEF GuiSwap, TypeOK
  <2> QED
    BY <1>2, <1>7, <2>1, FillType, <1>1 DEF GuiSwap, TypeOK
<1>8. CASE Fill("gui")
  BY <1>1, <1>8, FillType
<1> QED
  BY <1>3, <1>4, <1>5, <1>6, <1>7, <1>8 DEF GuiStep

\* So does a step of a game.
LEMMA GameType ==
  ASSUME TypeOK, GameStart \/ GameLoad \/ GameDraw \/ GameEnd \/ EmuStep
  PROVE  TypeOK'
<1> USE DEF rest, lvgl, hist, counters, bus, local
<1>1. "emu" \in Users
  BY DEF Users
<1>2. CASE GameStart \/ GameLoad \/ GameShow
  <2>1. pc' \in [Users -> PCs]
    BY <1>1, <1>2, PcType DEF GameStart, GameLoad, GameShow, PCs
  <2>2. CASE GameStart
    BY <2>1, <2>2 DEF GameStart, TypeOK
  <2>3. CASE GameLoad \/ GameShow
    BY <2>1, <2>3 DEF GameLoad, GameShow, TypeOK
  <2> QED
    BY <1>2, <2>2, <2>3
<1>3. CASE GameDraw
  <2>1. pc' \in [Users -> PCs]
    BY <1>1, <1>3, PcType DEF GameDraw, PCs
  <2>2. buf' \in [Users -> {1, 2}]
    <3>1. Other("emu") \in {1, 2}
      BY DEF Other, TypeOK, Users
    <3> QED
      BY <3>1, <1>3 DEF GameDraw, TypeOK
  <2> QED
    BY <1>3, <2>1, <2>2 DEF GameDraw, TypeOK
<1>4. CASE GameEnd
  <2>1. pc' \in [Users -> PCs]
    BY <1>4 DEF GameEnd, TypeOK, PCs
  <2> QED
    BY <1>4, <2>1 DEF GameEnd, SwitchOn, TypeOK
<1>5. CASE Fill("emu")
  BY <1>1, <1>5, FillType
<1> QED
  BY <1>2, <1>3, <1>4, <1>5 DEF EmuStep

-----------------------------------------------------------------------------
(* The fill of the emulator, and the buffers. *)

\* Whoever takes the lock is in the call, and leaves it open at the end.
LEMMA LockStep ==
  ASSUME TypeOK, LockInv, Next
  PROVE  LockInv'
<1> USE DEF rest, lvgl, hist, counters, bus, local
<1>1. ASSUME NEW u \in Users, Fill(u)
      PROVE  LockInv'
  <2>1. ASSUME NEW v \in Users, v # u PROVE pc'[v] = pc[v]
    BY <1>1, <2>1, Moves DEF Fill, Clear, Narrow, Address, Widen, SetLength, SetIndex,
       SetColor, Left, Call, Check, Start, Unlock, Count
  <2>2. CASE Clear(u) \/ Narrow(u) \/ Address(u) \/ Widen(u) \/ SetLength(u) \/ SetIndex(u)
             \/ SetColor(u) \/ Left(u) \/ Count(u)
    <3>1. pc[u] \notin Holding /\ (locked' = locked \/ ~locked')
      BY <2>2, Moves DEF Clear, Narrow, Address, Widen, SetLength, SetIndex, SetColor, Left,
         Count, ChangeWidth, Reconfigure, Holding
    <3> QED
      BY <2>1, <3>1 DEF LockInv
  <2>3. CASE Call(u)
    <3>1. locked \/ pc'[u] \in Holding
      BY <2>3, Moves DEF Call, Holding
    <3>2. pc[u] \notin Holding
      BY <2>3, Moves DEF Call, Holding
    <3> QED
      BY <2>1, <3>1, <3>2 DEF LockInv
  <2>4. CASE Check(u) \/ Start(u)
    <3>1. pc'[u] \in Holding
      BY <2>4, Moves DEF Check, Start, Holding
    <3> QED
      BY <3>1 DEF LockInv
  <2>5. CASE Unlock(u)
    BY <2>5 DEF Unlock, LockInv
  <2> QED
    BY <1>1, <2>2, <2>3, <2>4, <2>5 DEF Fill
<1>2. CASE DmaDone
  BY <1>2 DEF DmaDone, LockInv
<1>3. ASSUME NEW u \in Users, pc[u] \notin Holding, locked' = locked,
             \A v \in Users : v # u => pc'[v] = pc[v]
      PROVE  LockInv'
  BY <1>3 DEF LockInv
<1>4. CASE GuiStep /\ ~Fill("gui")
  BY <1>3, <1>4, Moves DEF GuiStep, GuiNothing, GuiRender, GuiFlush, GuiTest, GuiSwap,
     GuiLoop, GuiInvalidate, Holding, Users
<1>5. CASE GameStart \/ GameLoad \/ GameDraw \/ GameShow
  BY <1>3, <1>5, Moves DEF GameStart, GameLoad, GameDraw, GameShow, Holding, Users
<1>6. CASE GameEnd
  BY <1>3, <1>6 DEF GameEnd, Holding, Users, TypeOK
<1> QED
  BY <1>1, <1>2, <1>4, <1>5, <1>6 DEF Next, GuiStep, EmuStep, Users

\* A completed transfer is none of an emulator's that is past its address.
LEMMA DoneInv ==
  ASSUME IInv, DmaDone
  PROVE  FillInv' /\ BufInv'
<1>1. /\ ~Idle /\ UNCHANGED <<pc, width, locked, send, buf, color>>
      /\ dma' = NoDma \/ dma'.buf = color
  <2>1. ~Idle /\ UNCHANGED <<pc, width, locked, send, buf, color>>
    BY DEF DmaDone, local
  <2>2. CASE total # 0 /\ More
    BY <2>1, <2>2 DEF DmaDone, Piece
  <2>3. CASE ~(total # 0 /\ More)
    BY <2>1, <2>3 DEF DmaDone
  <2> QED
    BY <2>1, <2>2, <2>3
<1>2. pc["emu"] \notin Filling
  BY <1>1 DEF IInv, FillInv
<1>3. ASSUME pc["emu"] \in {"address", "wide"} PROVE width = 8
  BY <1>3 DEF IInv, FillInv
<1>4. FillInv'
  BY <1>1, <1>2, <1>3 DEF FillInv, Filling
<1>5. Unshown' = Unshown
  BY <1>1 DEF Unshown, Other
<1>6. BufInv'
  BY <1>1, <1>5 DEF IInv, BufInv, Idle
<1> QED
  BY <1>4, <1>6

\* A transfer that starts is late, or of the buffer that is shown.
LEMMA LateBuf ==
  ASSUME TypeOK, NEW u \in Users, NEW d, d = [arg[u] EXCEPT !.late = arg[u].buf # color]
  PROVE  /\ d.late \/ d.buf = color
         /\ d.buf = arg[u].buf /\ d.from = arg[u].from /\ d.len = arg[u].len
BY DEF TypeOK, Transfers

\* LVGL runs only where the emulator is not in a fill, and sends its own buffer.
LEMMA GuiInv ==
  ASSUME IInv, GuiStep
  PROVE  FillInv' /\ BufInv'
<1> USE DEF rest, lvgl, hist, counters, bus, local
<1>1. TypeOK /\ "gui" \in Users /\ "emu" \in Users /\ "gui" # "emu"
  BY DEF IInv, Users
<1>2. pc["emu"] \in {"off", "load", "frame"} /\ pc'["emu"] = pc["emu"]
  BY <1>1, Moves DEF GuiStep, Fill, Clear, Narrow, Address, Widen, SetLength, SetIndex,
     SetColor, Left, Call, Check, Start, Unlock, Count, GuiNothing, GuiRender, GuiFlush, GuiTest, GuiSwap,
     GuiLoop, GuiInvalidate
<1>3. FillInv'
  BY <1>2 DEF FillInv, Filling
<1>4. buf'["emu"] = buf["emu"]
  BY <1>1 DEF GuiStep, Fill, Clear, Narrow, Address, Widen, SetLength, SetIndex,
     SetColor, Left, Call, Check, Start, Unlock, Count, GuiNothing, GuiRender, GuiFlush, GuiTest, GuiSwap,
     GuiLoop, GuiInvalidate, TypeOK
<1>5. Unshown' = Unshown /\ Unshown = <<"emu", Other("emu")>>
  BY <1>2, <1>4 DEF Unshown, Drawing, Other
<1>6. color' = color \/ color' = <<"gui", buf["gui"]>>
  BY DEF GuiStep, Fill, Clear, Narrow, Address, Widen, SetLength, SetIndex,
     SetColor, Left, Call, Check, Start, Unlock, Count, GuiNothing, GuiRender, GuiFlush, GuiTest, GuiSwap,
     GuiLoop, GuiInvalidate
<1>7. dma' = dma \/ dma' = NoDma \/ dma'.late \/ dma'.buf = color
  <2>1. CASE Start("gui")
    BY <1>1, <2>1, LateBuf DEF Start
  <2>2. CASE ~Start("gui")
    BY <2>2 DEF GuiStep, Fill, Clear, Narrow, Address, Widen, SetLength, SetIndex,
     SetColor, Left, Call, Check, Start, Unlock, Count, GuiNothing, GuiRender, GuiFlush, GuiTest, GuiSwap,
     GuiLoop, GuiInvalidate, ChangeWidth, Reconfigure
  <2> QED
    BY <2>1, <2>2
<1>8. BufInv'
  BY <1>5, <1>6, <1>7 DEF IInv, BufInv, Idle
<1> QED
  BY <1>3, <1>8

\* Each statement of a fill of the emulator establishes what the next relies on.
LEMMA FillStep ==
  ASSUME IInv, Fill("emu")
  PROVE  FillInv' /\ BufInv'
<1> USE DEF rest, lvgl, hist, counters, bus, local
<1>1. TypeOK /\ "emu" \in Users
  BY DEF IInv, Users
<1>2. NextLen \in 0 .. Chunk /\ (total = Frame /\ index = 0 => NextLen = Frame)
      /\ Frame > 0 /\ Size("emu") = Frame
  BY <1>1, NextLenType, LcdAssumption DEF Size
<1>3. CASE Clear("emu")
  <2>1. pc["emu"] = "clear" /\ pc'["emu"] = "narrow" /\ UNCHANGED <<color, dma, buf>>
    BY <1>1, <1>3, Moves DEF Clear
  <2> QED
    BY <2>1 DEF IInv, FillInv, Filling, BufInv, Unshown, Drawing, Idle
<1>4. CASE Narrow("emu")
  <2>1. /\ pc["emu"] = "narrow" /\ pc'["emu"] = "address" /\ UNCHANGED <<color, buf>>
        /\ width' = 8 /\ (dma' = dma \/ dma' = NoDma)
    BY <1>1, <1>4, Moves DEF Narrow, ChangeWidth, Reconfigure
  <2> QED
    BY <2>1 DEF IInv, FillInv, Filling, BufInv, Unshown, Drawing, Idle
<1>5. CASE Address("emu")
  <2>1. /\ pc["emu"] = "address" /\ pc'["emu"] = "wide"
        /\ UNCHANGED <<color, buf, width, dma>>
    BY <1>1, <1>5, Moves DEF Address
  <2> QED
    BY <2>1 DEF IInv, FillInv, Filling, BufInv, Unshown, Drawing, Idle
<1>6. CASE Widen("emu")
  <2>1. pc["emu"] = "wide" /\ pc'["emu"] = "length" /\ UNCHANGED <<color, buf>>
    BY <1>1, <1>6, Moves DEF Widen
  <2>2. width = 8
    BY <2>1 DEF IInv, FillInv
  <2>3. dma' = NoDma /\ busy' = FALSE /\ locked' = FALSE
    BY <1>6, <2>2 DEF Widen, ChangeWidth, Reconfigure
  <2> QED
    BY <2>1, <2>3 DEF IInv, FillInv, Filling, BufInv, Unshown, Drawing, Idle
<1>7. CASE SetLength("emu")
  <2>1. /\ pc["emu"] = "length" /\ pc'["emu"] = "index" /\ total' = Frame
        /\ UNCHANGED <<color, buf, width, dma, busy, locked>>
    BY <1>1, <1>2, <1>7, Moves DEF SetLength
  <2> QED
    BY <2>1 DEF IInv, FillInv, Filling, BufInv, Unshown, Drawing, Idle
<1>8. CASE SetIndex("emu")
  <2>1. /\ pc["emu"] = "index" /\ pc'["emu"] = "color" /\ index' = 0
        /\ UNCHANGED <<total, color, buf, width, dma, busy, locked>>
    BY <1>1, <1>8, Moves DEF SetIndex
  <2> QED
    BY <2>1 DEF IInv, FillInv, Filling, BufInv, Unshown, Drawing, Idle
<1>9. CASE SetColor("emu")
  <2>1. /\ pc["emu"] = "color" /\ pc'["emu"] = "left" /\ color' = <<"emu", buf["emu"]>>
        /\ UNCHANGED <<total, index, buf, width, dma, busy, locked>>
    BY <1>1, <1>9, Moves DEF SetColor
  <2>2. buf["emu"] # Other("emu")
    BY <1>1 DEF TypeOK, Other
  <2> QED
    BY <2>1, <2>2 DEF IInv, FillInv, Filling, BufInv, Unshown, Drawing, Idle, Other
<1>10. CASE Left("emu")
  <2>1. /\ pc["emu"] = "left" /\ pc'["emu"] = "call"
        /\ UNCHANGED <<total, index, color, buf, width, dma, busy, locked>>
    BY <1>1, <1>10, Moves DEF Left
  <2>2. send'["emu"] = NextLen
    BY <1>1, <1>10 DEF Left, TypeOK
  <2> QED
    BY <1>2, <2>1, <2>2 DEF IInv, FillInv, Filling, BufInv, Unshown, Drawing, Idle, Other
<1>11. CASE Call("emu")
  <2>1. /\ pc["emu"] = "call" /\ pc'["emu"] \in {"check", "count"}
        /\ UNCHANGED <<color, buf, dma, busy>>
    BY <1>1, <1>11, Moves DEF Call
  <2> QED
    BY <2>1 DEF IInv, FillInv, Filling, BufInv, Unshown, Drawing, Idle, Other
<1>12. CASE Check("emu")
  <2>1. /\ pc["emu"] = "check" /\ pc'["emu"] \in {"start", "unlock"}
        /\ UNCHANGED <<color, buf, dma>>
    BY <1>1, <1>12, Moves DEF Check
  <2> QED
    BY <2>1 DEF IInv, FillInv, Filling, BufInv, Unshown, Drawing, Idle, Other
<1>13. CASE Start("emu")
  <2>1. /\ pc["emu"] = "start" /\ pc'["emu"] = "unlock" /\ UNCHANGED <<color, buf>>
    BY <1>1, <1>13, Moves DEF Start
  <2>2. dma' = dma \/ dma'.late \/ dma'.buf = color
    BY <1>1, <1>13, LateBuf DEF Start
  <2> QED
    BY <2>1, <2>2 DEF IInv, FillInv, Filling, BufInv, Unshown, Drawing, Idle, Other
<1>14. CASE Unlock("emu") \/ Count("emu")
  <2>1. /\ pc["emu"] \in {"unlock", "count"} /\ pc'["emu"] \in {"count", "frame"}
        /\ UNCHANGED <<color, buf, dma>>
    BY <1>1, <1>14, Moves DEF Unlock, Count
  <2> QED
    BY <2>1 DEF IInv, FillInv, Filling, BufInv, Unshown, Drawing, Idle, Other
<1> QED
  BY <1>3, <1>4, <1>5, <1>6, <1>7, <1>8, <1>9, <1>10, <1>11, <1>12, <1>13, <1>14 DEF Fill

\* The other steps of a game: a picture is drawn in the buffer that is not shown.
LEMMA GameInv ==
  ASSUME IInv, GameStart \/ GameLoad \/ GameDraw \/ GameEnd \/ GameShow
  PROVE  FillInv' /\ BufInv'
<1> USE DEF rest, lvgl, hist, counters, bus, local
<1>1. TypeOK /\ "emu" \in Users
  BY DEF IInv, Users
<1>2. CASE GameStart \/ GameLoad \/ GameEnd
  <2>1. /\ pc["emu"] \in {"off", "load", "frame"} /\ pc'["emu"] \in {"off", "load", "frame"}
        /\ UNCHANGED <<color, dma, buf>>
    BY <1>1, <1>2, Moves DEF GameStart, GameLoad, GameEnd, TypeOK
  <2> QED
    BY <2>1 DEF IInv, FillInv, Filling, BufInv, Unshown, Drawing, Idle, Other
<1>3. CASE GameShow
  <2>1. pc["emu"] = "draw" /\ pc'["emu"] = "clear" /\ UNCHANGED <<color, dma, buf>>
    BY <1>1, <1>3, Moves DEF GameShow
  <2> QED
    BY <2>1 DEF IInv, FillInv, Filling, BufInv, Unshown, Drawing, Idle, Other
<1>4. CASE GameDraw
  <2>1. pc["emu"] = "frame" /\ pc'["emu"] = "draw" /\ UNCHANGED <<color, dma>>
    BY <1>1, <1>4, Moves DEF GameDraw
  <2>2. buf'["emu"] = Other("emu")
    BY <1>1, <1>4 DEF GameDraw, TypeOK
  <2>3. Unshown' = Unshown
    BY <2>1, <2>2 DEF Unshown, Drawing
  <2> QED
    BY <2>1, <2>3 DEF IInv, FillInv, Filling, BufInv, Idle
<1> QED
  BY <1>2, <1>3, <1>4

\* Every step.
LEMMA InvNext ==
  ASSUME IInv, [Next]_vars
  PROVE  IInv'
<1>1. CASE DmaDone
  BY <1>1, DoneType, DoneInv, LockStep DEF IInv, Next
<1>2. CASE GuiStep
  BY <1>2, GuiType, GuiInv, LockStep DEF IInv, Next
<1>3. CASE GameStart \/ GameLoad \/ GameDraw \/ GameEnd \/ EmuStep
  <2>1. TypeOK' /\ LockInv'
    BY <1>3, GameType, LockStep DEF IInv, Next
  <2> QED
    BY <1>3, <2>1, GameInv, FillStep DEF IInv, EmuStep
<1>4. CASE UNCHANGED vars
  BY <1>4 DEF vars, lvgl, hist, counters, bus, local, IInv, TypeOK, LockInv, FillInv,
              BufInv, Idle, Unshown, Other
<1> QED
  BY <1>1, <1>2, <1>3, <1>4 DEF Next

\* The invariant holds in every reachable state.
LEMMA InvAlways == Spec => []IInv
BY InvInit, InvNext, PTL DEF Spec

-----------------------------------------------------------------------------
\* Every variable stays in its range.
THEOREM TypeAlwaysOK == Spec => []TypeOK
BY InvAlways, PTL DEF IInv

\* A picture of the game is sent whole, at once, wherever LVGL was interrupted, in a
\* call of the HAL that holds its lock too.
THEOREM FrameAlwaysStarts == Spec => []FrameStarts
<1>1. IInv => FrameStarts
  BY DEF IInv, FillInv, Filling, FrameStarts
<1> QED
  BY <1>1, InvAlways, PTL

\* The game never draws in the buffer that is being sent, but by a call of LVGL that
\* began before the picture and started its transfer after it.
THEOREM GameBufferAlways == Spec => []GameBuffer
<1>1. IInv => GameBuffer
  BY DEF IInv, BufInv, Unshown, Drawing, GameBuffer
<1> QED
  BY <1>1, InvAlways, PTL
-----------------------------------------------------------------------------
(* The acknowledgement of a flush that meets no game. *)

\* Until its transfer starts, a flush that found the bus quiet leaves it quiet; then
\* the pieces of its area follow on one another and end where the area ends.
Preparing == {"test", "clear", "narrow", "address", "wide"} \cup Filling
Sending ==
  /\ ~Idle /\ dma.buf = flushed /\ color = flushed
  /\ dma.from = sent /\ index = sent + dma.len
  /\ total = area /\ index <= total
Counted ==
  /\ dma.buf = flushed /\ color = flushed
  /\ dma.from = 0 /\ dma.len = send["gui"] /\ index = 0 /\ sent = 0
  /\ ~Idle /\ total = area /\ send["gui"] <= total
Asked ==
  /\ arg["gui"].buf = flushed /\ arg["gui"].from = 0 /\ arg["gui"].len = send["gui"]
  /\ send["gui"] > 0 /\ send["gui"] <= total

OwnInv ==
  own =>
    /\ pc["emu"] = "off"
    /\ pc["gui"] \in Preparing =>
         Idle /\ flushing /\ sent = 0 /\ flushed = <<"gui", buf["gui"]>>
    /\ pc["gui"] \in {"wide"} \cup (Filling \ {"start"}) => ~busy
    /\ pc["gui"] \in Filling \ {"length"} => total = area
    /\ pc["gui"] \in {"color", "left", "call", "check", "start"} => index = 0
    /\ pc["gui"] \in {"left", "call", "check", "start"} => color = flushed
    /\ pc["gui"] = "call" => send["gui"] > 0 /\ send["gui"] <= total
    /\ pc["gui"] \in {"check", "start"} => Asked
    /\ Uncounted => flushing /\ Counted
    /\ pc["gui"] \notin Preparing \cup {"unlock", "count"} /\ flushing => Sending

\* The next transfer is as much as there is, up to the longest.
LEMMA NextLenFits ==
  ASSUME TypeOK, total > index
  PROVE  NextLen > 0 /\ index + NextLen <= total
BY LcdAssumption DEF TypeOK, NextLen

\* No transfer that starts is taken for none.
LEMMA StartedIsOne ==
  ASSUME NEW d, d.len > 0
  PROVE  d # NoDma
<1>1. NoDma.len = 0
  BY DEF NoDma, Piece
<1> QED
  BY <1>1

\* A completion sends the next piece, or acknowledges when all was sent.
LEMMA DoneOwn ==
  ASSUME TypeOK, LockInv, OwnInv, DmaDone
  PROVE  OwnInv' /\ (flushing /\ ~flushing' /\ own' => sent' = area)
<1> SUFFICES ASSUME own'
             PROVE  OwnInv' /\ (flushing /\ ~flushing' => sent' = area)
  BY DEF OwnInv
<1>1. ~Idle /\ own /\ ~Uncounted /\ sent' = Sent(dma)
      /\ UNCHANGED <<color, pc, send, arg, area, buf, flushed>>
  BY DEF DmaDone, local
<1>2. pc["emu"] = "off" /\ pc["gui"] \notin Preparing
  BY <1>1 DEF OwnInv
<1>3. pc["gui"] \notin {"unlock", "count"} /\ ~locked
  BY <1>1, <1>2 DEF Uncounted, LockInv, Holding, Users, Preparing, Filling
<1>4. CASE ~flushing
  <2>1. ~flushing'
    BY <1>4 DEF DmaDone
  <2> QED
    BY <1>1, <1>2, <1>3, <1>4, <2>1 DEF OwnInv, Preparing, Filling, Uncounted
<1>5. CASE flushing
  <2>1. Sending
    BY <1>1, <1>2, <1>3, <1>5 DEF OwnInv
  <2>2. /\ total \in Nat /\ index \in Nat /\ area \in Nat \ {0} /\ sent \in Int
        /\ dma.len \in Nat /\ NextLen \in 0 .. Chunk /\ Chunk \in Nat
    BY NextLenType, LcdAssumption DEF TypeOK, Transfers
  <2>3. sent' = index
    BY <1>1, <2>1, <2>2 DEF Sending, Sent
  <2>4. CASE total > index
    <3>1. /\ dma' = Piece(color, index, NextLen)
          /\ index' = index + NextLen /\ UNCHANGED <<total, flushing>>
      BY <1>3, <2>1, <2>2, <2>4 DEF DmaDone, More, IndexAfter, Sending
    <3>2. NextLen > 0 /\ index + NextLen <= total
      BY <2>4, NextLenFits
    <3>3. ~Idle'
      BY <2>2, <3>1, <3>2, StartedIsOne DEF Idle, Piece
    <3>4. Sending'
      BY <1>1, <2>1, <2>3, <3>1, <3>2, <3>3 DEF Sending, Piece
    <3> QED
      BY <1>1, <1>2, <1>3, <3>1, <3>4 DEF OwnInv, Preparing, Filling, Uncounted
  <2>5. CASE ~(total > index)
    <3>1. index = area /\ total # 0 /\ ~More
      BY <2>1, <2>2, <2>5 DEF More, Sending
    <3>2. ~flushing'
      BY <3>1 DEF DmaDone
    <3> QED
      BY <1>1, <1>2, <1>3, <2>3, <3>1, <3>2 DEF OwnInv, Preparing, Filling, Uncounted
  <2> QED
    BY <2>2, <2>4, <2>5
<1> QED
  BY <1>4, <1>5

\* Each statement of the fill prepares the next.
LEMMA FillOwn ==
  ASSUME TypeOK, LockInv, OwnInv, Fill("gui")
  PROVE  OwnInv' /\ flushing' = flushing
<1> USE DEF rest, lvgl, hist, counters, bus, local
<1>1. "gui" \in Users /\ "emu" \in Users /\ "gui" # "emu"
  BY DEF Users
<1>2. /\ own' = own /\ flushing' = flushing /\ sent' = sent /\ flushed' = flushed
      /\ area' = area /\ buf' = buf
  BY DEF Fill, Clear, Narrow, Address, Widen, SetLength, SetIndex, SetColor, Left,
         Call, Check, Start, Unlock, Count
<1> SUFFICES ASSUME own PROVE OwnInv'
  BY <1>2 DEF OwnInv
<1>3. pc'["emu"] = pc["emu"] /\ pc["emu"] = "off"
  BY <1>1, Moves DEF OwnInv, Fill, Clear, Narrow, Address, Widen, SetLength, SetIndex,
     SetColor, Left, Call, Check, Start, Unlock, Count
<1>4. CASE Clear("gui") \/ Narrow("gui")
  <2>1. /\ pc["gui"] \in {"clear", "narrow"} /\ pc'["gui"] \in {"narrow", "address"}
        /\ dma' = dma \/ dma' = NoDma
    BY <1>1, <1>4, Moves DEF Clear, Narrow, ChangeWidth, Reconfigure
  <2> QED
    BY <1>2, <1>3, <2>1 DEF OwnInv, Preparing, Filling, Uncounted, Idle
<1>5. CASE Address("gui")
  <2>1. pc["gui"] = "address" /\ pc'["gui"] = "wide" /\ dma' = dma
        /\ busy' = (busy /\ locked)
    BY <1>1, <1>5, Moves DEF Address
  <2>2. ~locked
    BY <1>3, <2>1 DEF LockInv, Holding, Users
  <2> QED
    BY <1>2, <1>3, <2>1, <2>2 DEF OwnInv, Preparing, Filling, Uncounted, Idle
<1>6. CASE Widen("gui")
  <2>1. /\ pc["gui"] = "wide" /\ pc'["gui"] = "length"
        /\ (dma' = dma /\ busy' = busy) \/ (dma' = NoDma /\ busy' = FALSE)
    BY <1>1, <1>6, Moves DEF Widen, ChangeWidth, Reconfigure
  <2> QED
    BY <1>2, <1>3, <2>1 DEF OwnInv, Preparing, Filling, Uncounted, Idle
<1>7. CASE SetLength("gui")
  <2>1. /\ pc["gui"] = "length" /\ pc'["gui"] = "index" /\ dma' = dma /\ busy' = busy
        /\ total' = area
    BY <1>1, <1>7, Moves DEF SetLength, Size
  <2> QED
    BY <1>2, <1>3, <2>1 DEF OwnInv, Preparing, Filling, Uncounted, Idle
<1>8. CASE SetIndex("gui")
  <2>1. /\ pc["gui"] = "index" /\ pc'["gui"] = "color" /\ dma' = dma /\ busy' = busy
        /\ total' = total /\ index' = 0
    BY <1>1, <1>8, Moves DEF SetIndex
  <2> QED
    BY <1>2, <1>3, <2>1 DEF OwnInv, Preparing, Filling, Uncounted, Idle
<1>9. CASE SetColor("gui")
  <2>1. /\ pc["gui"] = "color" /\ pc'["gui"] = "left" /\ dma' = dma /\ busy' = busy
        /\ total' = total /\ index' = index /\ color' = <<"gui", buf["gui"]>>
    BY <1>1, <1>9, Moves DEF SetColor
  <2> QED
    BY <1>2, <1>3, <2>1 DEF OwnInv, Preparing, Filling, Uncounted, Idle
<1>10. CASE Left("gui")
  <2>1. /\ pc["gui"] = "left" /\ pc'["gui"] = "call" /\ dma' = dma /\ busy' = busy
        /\ total' = total /\ index' = index /\ color' = color /\ send'["gui"] = NextLen
    BY <1>1, <1>10, Moves DEF Left, TypeOK
  <2>2. NextLen > 0 /\ NextLen <= total
    <3>1. area \in Nat \ {0} /\ total = area /\ index = 0
      BY <2>1, LcdAssumption DEF OwnInv, TypeOK, Filling
    <3>2. NextLen > 0 /\ index + NextLen <= total
      BY <3>1, NextLenFits
    <3> QED
      BY <3>1, <3>2, NextLenType, LcdAssumption
  <2> QED
    BY <1>2, <1>3, <2>1, <2>2 DEF OwnInv, Preparing, Filling, Uncounted, Idle
<1>11. CASE Call("gui")
  <2>1. /\ pc["gui"] = "call" /\ pc'["gui"] = (IF locked THEN "count" ELSE "check")
        /\ UNCHANGED <<total, index, color, dma, busy, send>>
    BY <1>1, <1>11, Moves DEF Call
  <2>2. ~locked
    BY <1>3, <2>1 DEF LockInv, Holding, Users
  <2>3. arg'["gui"] = Piece(color, index, send["gui"])
    BY <1>1, <1>11, <2>2 DEF Call, TypeOK
  <2>4. Asked'
    BY <1>2, <2>1, <2>3 DEF OwnInv, Asked, Piece
  <2> QED
    BY <1>2, <1>3, <2>1, <2>2, <2>4 DEF OwnInv, Preparing, Filling, Uncounted, Idle
<1>12. CASE Check("gui")
  <2>1. /\ pc["gui"] = "check"
        /\ pc'["gui"] = (IF busy \/ arg["gui"].len = 0 THEN "unlock" ELSE "start")
        /\ UNCHANGED <<total, index, color, dma, send, arg>>
    BY <1>1, <1>12, Moves DEF Check
  <2>2. Asked /\ ~busy
    BY <2>1 DEF OwnInv, Filling
  <2>3. send["gui"] \in Nat
    BY <1>1, LcdAssumption DEF TypeOK
  <2>4. Asked' /\ pc'["gui"] = "start"
    BY <1>2, <2>1, <2>2, <2>3 DEF Asked
  <2> QED
    BY <1>2, <1>3, <2>1, <2>4 DEF OwnInv, Preparing, Filling, Uncounted, Idle
<1>13. CASE Start("gui")
  <2>1. /\ pc["gui"] = "start" /\ pc'["gui"] = "unlock"
        /\ UNCHANGED <<total, index, color, send>>
    BY <1>1, <1>13, Moves DEF Start
  <2>2. flushing /\ Idle /\ sent = 0 /\ total = area /\ index = 0 /\ color = flushed /\ Asked
    BY <2>1 DEF OwnInv, Preparing, Filling
  <2>3. dma' = [arg["gui"] EXCEPT !.late = arg["gui"].buf # color]
    BY <1>13, <2>2 DEF Start
  <2>4. dma'.buf = flushed /\ dma'.from = 0 /\ dma'.len = send["gui"]
    BY <1>1, <2>2, <2>3, LateBuf DEF Asked
  <2>5. ~Idle'
    BY <2>2, <2>4, StartedIsOne DEF Idle, Asked
  <2>6. Counted'
    BY <1>2, <2>1, <2>2, <2>4, <2>5 DEF Counted, Asked
  <2> QED
    BY <1>2, <1>3, <2>1, <2>2, <2>6 DEF OwnInv, Preparing, Filling, Uncounted
<1>14. CASE Unlock("gui")
  <2>1. /\ pc["gui"] = "unlock" /\ pc'["gui"] = "count"
        /\ UNCHANGED <<total, index, color, dma, send>>
    BY <1>1, <1>14, Moves DEF Unlock
  <2>2. Counted'
    BY <1>2, <2>1 DEF OwnInv, Uncounted, Counted, Idle
  <2> QED
    BY <1>2, <1>3, <2>1, <2>2 DEF OwnInv, Preparing, Filling, Uncounted
<1>15. CASE Count("gui")
  <2>1. /\ pc["gui"] = "count" /\ pc'["gui"] = "swap" /\ dma' = dma
        /\ total' = total /\ color' = color /\ index' = index + send["gui"]
    BY <1>1, <1>15, Moves DEF Count, IndexAfter
  <2>2. Counted
    BY <2>1 DEF OwnInv, Uncounted
  <2>3. send["gui"] \in Nat
    BY <1>1, LcdAssumption DEF TypeOK
  <2>4. Sending'
    BY <1>2, <2>1, <2>2, <2>3 DEF Sending, Counted, Idle
  <2> QED
    BY <1>2, <1>3, <2>1, <2>4 DEF OwnInv, Preparing, Filling, Uncounted
<1> QED
  BY <1>4, <1>5, <1>6, <1>7, <1>8, <1>9, <1>10, <1>11, <1>12, <1>13, <1>14, <1>15 DEF Fill

\* The other steps of LVGL: only a dropped flush is over without a transfer, and
\* only a quiet bus makes one its own.
LEMMA GuiOwn ==
  ASSUME TypeOK, OwnInv, GuiStep, ~Fill("gui")
  PROVE  OwnInv' /\ ~(flushing /\ ~flushing' /\ own')
<1> USE DEF rest, lvgl, hist, counters, bus, local
<1>1. "gui" \in Users /\ "emu" \in Users /\ "gui" # "emu"
  BY DEF Users
<1>2. CASE GuiFlush
  <2>1. /\ pc'["gui"] = "test" /\ pc'["emu"] = pc["emu"]
    BY <1>1, <1>2, Moves DEF GuiFlush
  <2>2. /\ flushing' = TRUE /\ sent' = 0 /\ flushed' = <<"gui", buf["gui"]>>
        /\ dma' = dma /\ buf' = buf /\ own' = (pc["emu"] = "off" /\ Idle)
    BY <1>2 DEF GuiFlush
  <2> QED
    BY <2>1, <2>2 DEF OwnInv, Preparing, Filling, Uncounted, Idle
<1>3. CASE GuiTest
  <2>1. /\ pc["gui"] = "test" /\ pc'["gui"] = (IF enabled THEN "clear" ELSE "swap")
        /\ pc'["emu"] = pc["emu"]
    BY <1>1, <1>3, Moves DEF GuiTest
  <2>2. /\ own' = (own /\ enabled) /\ flushing' = (flushing /\ enabled)
        /\ UNCHANGED <<dma, sent, flushed, buf>>
    BY <1>3 DEF GuiTest
  <2> QED
    BY <2>1, <2>2 DEF OwnInv, Preparing, Filling, Uncounted, Idle
<1>4. CASE GuiRender
  <2>1. /\ pc["gui"] = "handler" /\ pc'["gui"] = "render" /\ pc'["emu"] = pc["emu"]
    BY <1>1, <1>4, Moves DEF GuiRender
  <2>2. ~flushing /\ ~flushing' /\ own' = own
    BY <1>4 DEF GuiRender
  <2> QED
    BY <2>1, <2>2 DEF OwnInv, Preparing, Filling, Uncounted
<1>5. CASE GuiNothing \/ GuiSwap \/ GuiLoop \/ GuiInvalidate
  <2>1. /\ pc["gui"] \in {"handler", "swap", "loop", "forced"}
        /\ pc'["gui"] \in {"handler", "loop", "forced"} /\ pc'["emu"] = pc["emu"]
    BY <1>1, <1>5, Moves DEF GuiNothing, GuiSwap, GuiLoop, GuiInvalidate
  <2>2. UNCHANGED <<counters, bus, flushing, area, hist>>
    BY <1>5 DEF GuiNothing, GuiSwap, GuiLoop, GuiInvalidate
  <2> QED
    BY <2>1, <2>2 DEF OwnInv, Preparing, Filling, Uncounted, Sending, Idle
<1> QED
  BY <1>2, <1>3, <1>4, <1>5 DEF GuiStep

\* A game takes the flush it meets for its own.
LEMMA GameOwn ==
  ASSUME TypeOK, OwnInv, GameStart \/ GameLoad \/ GameDraw \/ GameEnd \/ EmuStep
  PROVE  ~own' /\ flushing' = flushing
<1> USE DEF rest, lvgl, hist, counters, bus, local
<1>1. "emu" \in Users
  BY DEF Users
<1>2. CASE GameStart
  BY <1>2 DEF GameStart
<1>3. CASE GameLoad \/ GameDraw \/ GameEnd \/ EmuStep
  <2>1. pc["emu"] # "off"
    BY <1>1, <1>3, Moves DEF GameLoad, GameDraw, GameEnd, EmuStep, GameShow, Fill, Clear,
       Narrow, Address, Widen, SetLength, SetIndex, SetColor, Left, Call, Check, Start, Unlock, Count
  <2>2. own' = own /\ flushing' = flushing
    BY <1>3 DEF GameLoad, GameDraw, GameEnd, EmuStep, GameShow, Fill, Clear,
       Narrow, Address, Widen, SetLength, SetIndex, SetColor, Left, Call, Check, Start, Unlock, Count
  <2> QED
    BY <2>1, <2>2 DEF OwnInv
<1> QED
  BY <1>2, <1>3

\* Every step.
LEMMA OwnNext ==
  ASSUME TypeOK, LockInv, OwnInv, [Next]_vars
  PROVE  OwnInv' /\ (flushing /\ ~flushing' /\ own' => sent' = area)
<1>1. CASE DmaDone
  BY <1>1, DoneOwn
<1>2. CASE GuiStep
  BY <1>2, FillOwn, GuiOwn
<1>3. CASE GameStart \/ GameLoad \/ GameDraw \/ GameEnd \/ EmuStep
  BY <1>3, GameOwn DEF OwnInv
<1>4. CASE UNCHANGED vars
  BY <1>4 DEF vars, lvgl, hist, counters, bus, local, OwnInv, Uncounted, Sending,
              Counted, Asked, Idle
<1> QED
  BY <1>1, <1>2, <1>3, <1>4 DEF Next

\* LVGL is told that a flush is over, if it found the bus quiet, met no game, and was
\* counted before its first transfer ended, when every piece of its area was sent, in a
\* row, and no earlier: areas and transfers of any length, the lock of the HAL included.
THEOREM ReadyAlwaysWhenSent == Spec => ReadyWhenSent
<1>1. Init => OwnInv
  BY DEF Init, OwnInv
<1>2. IInv /\ OwnInv /\ [Next]_vars => OwnInv'
  BY OwnNext DEF IInv
<1>3. IInv /\ OwnInv /\ [Next]_vars => [flushing /\ ~flushing' /\ own' => sent' = area]_vars
  BY OwnNext DEF IInv
<1> QED
  BY <1>1, <1>2, <1>3, InvAlways, PTL DEF Spec, ReadyWhenSent
=============================================================================
