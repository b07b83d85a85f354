------------------------------ MODULE Vdp1Draw ------------------------------
(***************************************************************************)
(* Threaded instant drawing of src/mednafen/ss/vdp1.cpp (the setting       *)
(* ss.vdp1.threaded, games with VDP1INSTANT): the emulation thread         *)
(* ("main") freezes VRAM and the command table and hands the list to a     *)
(* thread, which draws it once for each band of rows.  Main waits for the  *)
(* band of a row it displays, and for the whole draw before anything else  *)
(* that touches the framebuffer or the drawing registers.                  *)
(*                                                                         *)
(* A call of main is a list of instructions, one for each access to what   *)
(* the threads share.  A row is what was painted on it since its last      *)
(* fill, a command list the one content it was fetched from.  Update need  *)
(* not draw: SCU_CheckVDP1HaltKludge may hold it up.  Operators named      *)
(* Bad... are plausible bugs; no specification uses them.                  *)
(***************************************************************************)
EXTENDS Vdp1Instant

CONSTANTS
    DrawNumBands,   \* bands of a framebuffer (4)
    DrawBands       \* band b is the rows DrawBands[b] .. DrawBands[b + 1] - 1

ASSUME BandAssumption ==
    /\ DrawNumBands \in Nat \ {0} /\ Rows \in Nat
    /\ DrawBands \in [0 .. DrawNumBands -> Nat]
    /\ DrawBands[0] = 0 /\ DrawBands[DrawNumBands] = Rows
    /\ \A b \in 0 .. DrawNumBands - 1 : DrawBands[b] < DrawBands[b + 1]
ASSUME DataAssumption ==
    /\ Rotating \subseteq Modes
    /\ ClipAfter \in [Contents -> [Clips -> Clips]]

VARIABLES
    todo,               \* instructions left in main's call
    DrawThreadWanted,   \* the setting
    DrawThread,         \* the thread exists
    DrawJobActive,      \* a draw was handed over and not waited for
    DrawTVMR,           \* the drawing code's TVMR
    DVRAM, DrawVRAM, DrawCmdSnapshot,   \* where it reads textures; the frozen copies
    DrawBandsDone,
    DrawThreadSem, DrawThreadQuit,      \* tokens, and why the last one was posted
    tpc, regs, band, row                \* the thread: what it does next, and its locals,
                                        \* which last for one list

jobVars    == <<DrawJobActive, DrawTVMR, DVRAM, DrawVRAM, DrawCmdSnapshot>>
threadVars == <<tpc, regs, band, row>>
syncVars   == <<DrawBandsDone, DrawThreadSem, DrawThreadQuit>>
lifeVars   == <<DrawThreadWanted, DrawThread>>
cpuVars    == <<FBDrawWhich, VRAM, VRAMCmdSnapshot, TVMR, DrawingActive>>
allVars    == <<todo, lifeVars, jobVars, syncVars, threadVars, cpuVars, FB, clip, seen>>

Bands == 0 .. DrawNumBands - 1

InitDraw ==
    /\ Init
    /\ todo = <<>> /\ DrawThreadWanted \in BOOLEAN /\ DrawThread = FALSE
    /\ DrawJobActive = FALSE /\ DrawTVMR = TVMR
    /\ DVRAM = "VRAM" /\ DrawVRAM = VRAM /\ DrawCmdSnapshot = VRAM
    /\ DrawBandsDone = DrawNumBands /\ DrawThreadSem = 0 /\ DrawThreadQuit = FALSE
    /\ tpc = "none" /\ regs = "none" /\ band = 0 /\ row = 0

----------------------------------------------------------------------------
(* Calls of main.                                                          *)

Do(k)    == [do |-> k, arg |-> 0]
Wait(n) == [do |-> "wait", arg |-> n]

\* WaitDrawThread.
WaitAll == Wait(DrawNumBands)

\* The band the loop of WaitDrawThreadRow stops at.
RowBand(r) == CHOOSE b \in Bands : /\ b = DrawNumBands - 1 \/ r < DrawBands[b + 1]
                                   /\ \A a \in Bands : a < b => r >= DrawBands[a + 1]
BadWaitRow(r) == Wait(RowBand(r))
WaitRow(r)    == Wait(RowBand(r) + 1)

BadHandOver == <<Do("arm"), Do("post"), Do("publish")>>
\* The end of ThreadedInstantDraw.
HandOver == <<Do("arm"), Do("publish"), Do("post")>>

\* DoDrawing.
DrawNow == IF DrawThreadWanted THEN <<WaitAll, Do("freeze")>> \o HandOver ELSE <<Do("draw")>>

\* What the Update in a call may do first.
Updates == IF DrawingActive THEN {<<>>, DrawNow} ELSE {<<>>}

\* A call forgets what the one before it read.
Call(instructions) ==
    /\ todo = <<>>
    /\ todo' = instructions
    /\ seen' = Nothing
    /\ UNCHANGED <<lifeVars, jobVars, syncVars, threadVars, cpuVars, FB, clip>>

\* The VDP1 event.
Update == DrawingActive /\ \E u \in Updates \ {<<>>} : Call(u)

\* SetHBVB at the end of the vertical blank: a swap of the framebuffers, a fill,
\* and a draw, as FBCR and PTMR say; at its beginning, and SetMeshImproved: a wait.
SetHBVB == \E rest \in {<<>>, <<Do("swap")>>, <<Do("swap"), Do("start")>>,
                        <<Do("swap"), Do("start")>> \o DrawNow} : Call(<<WaitAll>> \o rest)

BadRestart == <<Do("fill"), Do("start")>>
\* PTMR = 1: fill the draw framebuffer and start.
Restart == <<WaitAll, Do("fill"), Do("start")>>

\* TVMR, PTMR, and ENDR, which stops a list not drawn yet.
WriteReg == \E u \in Updates :
               \/ \E m \in Modes : Call(u \o <<[do |-> "TVMR", arg |-> m]>>)
               \/ Call(u \o Restart)
               \/ Call(u \o <<Do("stop")>>)

\* The CPU writes VRAM; a scanline without a write to the command table freezes it.
WriteVRAM_DB == \E v \in Contents : Call(<<[do |-> "VRAM", arg |-> v]>>)
IdleScanline == Call(<<Do("snapshot")>>)

\* Write8_DB, Write16_DB and Read16_DB of the draw framebuffer.
AccessFB == \E k \in {"poke", "peek"}, r \in Row : Call(<<WaitAll, [do |-> k, arg |-> r]>>)

\* GetLine.
ReadLine == IF TVMR \in Rotating
            THEN Call(<<WaitAll, Do("all")>>)
            ELSE \E r \in Row : Call(<<WaitRow(r), [do |-> "line", arg |-> r]>>)

SetRegister == \E x \in Clips : Call(<<WaitAll, [do |-> "clip", arg |-> x]>>)
StateReset  == \E k \in {"save", "load", "reset"} : Call(<<WaitAll, Do(k)>>)

BadStop == <<Do("quit"), Do("join")>>
\* StopDrawThread.
Stop == <<WaitAll, Do("quit"), Do("join")>>

\* Kill, then the next game: SetThreaded and a power-on reset.
Kill == Call((IF DrawThread THEN Stop ELSE <<>>) \o <<Do("want"), WaitAll, Do("load")>>)

MainCall == \/ Update \/ SetHBVB \/ WriteReg \/ WriteVRAM_DB \/ IdleScanline \/ AccessFB
            \/ ReadLine \/ SetRegister \/ StateReset \/ Kill

----------------------------------------------------------------------------
(* Instructions of main.                                                   *)

Executes(k) == todo # <<>> /\ Head(todo).do = k /\ todo' = Tail(todo)
arg == Head(todo).arg

\* SyncDrawRegs, for a new TVMR.
BadSynced(mode) == mode
Synced(mode) == IF DrawJobActive THEN DrawTVMR ELSE mode

\* WaitDrawThreadBands: after a wait for all bands, catch up; until then, spin.
BadCaughtUp(n) == DrawJobActive' = FALSE /\ DVRAM' = "VRAM" /\ UNCHANGED DrawTVMR
CaughtUp(n) == DrawJobActive' = FALSE /\ DVRAM' = "VRAM" /\ DrawTVMR' = TVMR

WaitDrawThreadBands ==
    /\ Executes("wait")
    /\ \/ ~DrawJobActive /\ UNCHANGED <<DrawJobActive, DVRAM, DrawTVMR>>
       \/ /\ DrawJobActive /\ DrawBandsDone >= arg
          /\ IF arg >= DrawNumBands THEN CaughtUp(arg)
                                    ELSE UNCHANGED <<DrawJobActive, DVRAM, DrawTVMR>>
    /\ UNCHANGED <<lifeVars, DrawVRAM, DrawCmdSnapshot, syncVars, threadVars, cpuVars, FB, clip, seen>>

\* std::this_thread::yield().
Spin ==
    /\ todo # <<>> /\ Head(todo).do = "wait"
    /\ DrawJobActive /\ DrawBandsDone < arg
    /\ UNCHANGED allVars

\* ThreadedInstantDraw: create the thread, freeze VRAM and the command table, ...
FreezeVRAM ==
    /\ Executes("freeze")
    /\ DrawThread' = TRUE
    /\ tpc' = IF DrawThread THEN tpc ELSE "wait"
    /\ DrawVRAM' = VRAM /\ DrawCmdSnapshot' = VRAMCmdSnapshot
    /\ UNCHANGED <<DrawThreadWanted, DrawJobActive, DrawTVMR, DVRAM, syncVars, regs, band, row,
                   cpuVars, FB, clip, seen>>

\* ... walk the list, ...
Arm ==
    /\ Executes("arm")
    /\ DrawingActive' = FALSE
    /\ DVRAM' = "DrawVRAM" /\ DrawJobActive' = TRUE
    /\ UNCHANGED <<lifeVars, DrawTVMR, DrawVRAM, DrawCmdSnapshot, syncVars, threadVars, FBDrawWhich,
                   VRAM, VRAMCmdSnapshot, TVMR, FB, clip, seen>>

\* ... and hand it over.
Publish ==
    /\ Executes("publish")
    /\ DrawBandsDone' = 0
    /\ UNCHANGED <<lifeVars, jobVars, DrawThreadSem, DrawThreadQuit, threadVars, cpuVars, FB, clip, seen>>

Post ==
    /\ Executes("post")
    /\ DrawThreadSem' = DrawThreadSem + 1
    /\ UNCHANGED <<lifeVars, jobVars, DrawBandsDone, DrawThreadQuit, threadVars, cpuVars, FB, clip, seen>>

\* The paint of a list drawn now.
Brush(cmds) == [cmds |-> cmds, tex |-> IF DVRAM = "VRAM" THEN VRAM ELSE DrawVRAM,
                mode |-> DrawTVMR, clip |-> clip]

\* Accesses to what the thread draws with: the inline draw, swap, fill, the CPU's, VDP2's.
Access ==
    /\ \/ /\ Executes("draw")
          /\ FB' = [FB EXCEPT ![FBDrawWhich] = [r \in Row |-> Append(@[r], Brush(VRAMCmdSnapshot))]]
          /\ clip' = ClipAfter[VRAMCmdSnapshot][clip]
          /\ DrawingActive' = FALSE
          /\ UNCHANGED <<FBDrawWhich, VRAM, VRAMCmdSnapshot, TVMR, DrawTVMR, seen>>
       \/ /\ Executes("swap")
          /\ FBDrawWhich' = 1 - FBDrawWhich
          /\ FB' = [FB EXCEPT ![FBDrawWhich'] = Filled]
          /\ VRAMCmdSnapshot' \in {VRAM, VRAMCmdSnapshot}
          /\ DrawingActive' = FALSE
          /\ UNCHANGED <<VRAM, TVMR, DrawTVMR, clip, seen>>
       \/ /\ Executes("fill")
          /\ FB' = [FB EXCEPT ![FBDrawWhich] = Filled]
          /\ UNCHANGED <<cpuVars, DrawTVMR, clip, seen>>
       \/ /\ Executes("poke")
          /\ FB' = [FB EXCEPT ![FBDrawWhich][arg] = <<>>]
          /\ UNCHANGED <<cpuVars, DrawTVMR, clip, seen>>
       \/ /\ \/ Executes("peek") /\ seen' = [word |-> FB[FBDrawWhich][arg]]
             \/ Executes("line") /\ seen' = [line |-> <<FB[0][arg], FB[1][arg]>>]
             \/ Executes("all")  /\ seen' = [all |-> FB]
             \/ Executes("save") /\ seen' = [clip |-> clip]
          /\ UNCHANGED <<cpuVars, DrawTVMR, FB, clip>>
       \/ /\ Executes("clip")
          /\ clip' = arg
          /\ UNCHANGED <<cpuVars, DrawTVMR, FB, seen>>
       \/ /\ Executes("reset")
          /\ FBDrawWhich' = 0 /\ DrawingActive' = FALSE
          /\ TVMR' \in Modes \ Rotating /\ DrawTVMR' = Synced(TVMR')
          /\ UNCHANGED <<VRAM, VRAMCmdSnapshot, FB, clip, seen>>
       \/ /\ Executes("load")
          /\ FB' = [w \in {0, 1} |-> Filled] /\ clip' \in Clips
          /\ FBDrawWhich' \in {0, 1} /\ DrawingActive' \in BOOLEAN
          /\ VRAM' \in Contents /\ VRAMCmdSnapshot' \in Contents
          /\ TVMR' \in Modes /\ DrawTVMR' = Synced(TVMR')
          /\ UNCHANGED seen
    /\ UNCHANGED <<lifeVars, DrawJobActive, DVRAM, DrawVRAM, DrawCmdSnapshot, syncVars, threadVars>>

\* What main does without waiting.
Register ==
    /\ \/ /\ Executes("TVMR") /\ TVMR' = arg /\ DrawTVMR' = Synced(arg)
          /\ UNCHANGED <<VRAM, VRAMCmdSnapshot, DrawingActive>>
       \/ /\ Executes("VRAM") /\ VRAM' = arg
          /\ UNCHANGED <<TVMR, DrawTVMR, VRAMCmdSnapshot, DrawingActive>>
       \/ /\ Executes("snapshot") /\ VRAMCmdSnapshot' = VRAM
          /\ UNCHANGED <<TVMR, DrawTVMR, VRAM, DrawingActive>>
       \/ /\ Executes("start") /\ DrawingActive' = TRUE
          /\ UNCHANGED <<TVMR, DrawTVMR, VRAM, VRAMCmdSnapshot>>
       \/ /\ Executes("stop") /\ DrawingActive' = FALSE
          /\ UNCHANGED <<TVMR, DrawTVMR, VRAM, VRAMCmdSnapshot>>
    /\ UNCHANGED <<lifeVars, DrawJobActive, DVRAM, DrawVRAM, DrawCmdSnapshot, syncVars, threadVars,
                   FBDrawWhich, FB, clip, seen>>

\* StopDrawThread ...
Quit ==
    /\ Executes("quit")
    /\ DrawThreadQuit' = TRUE /\ DrawThreadSem' = DrawThreadSem + 1
    /\ UNCHANGED <<lifeVars, jobVars, DrawBandsDone, threadVars, cpuVars, FB, clip, seen>>
Join ==
    /\ Executes("join")
    /\ tpc = "exited" /\ tpc' = "none"
    /\ DrawThread' = FALSE /\ DrawThreadSem' = 0 /\ DrawThreadQuit' = FALSE
    /\ UNCHANGED <<DrawThreadWanted, jobVars, DrawBandsDone, regs, band, row, cpuVars, FB, clip, seen>>

\* ... and SetThreaded.
SetThreaded ==
    /\ Executes("want")
    /\ DrawThreadWanted' \in BOOLEAN
    /\ UNCHANGED <<DrawThread, jobVars, syncVars, threadVars, cpuVars, FB, clip, seen>>

MainStep == \/ WaitDrawThreadBands \/ Spin \/ FreezeVRAM \/ Arm \/ Publish \/ Post \/ Access \/ Register
            \/ Quit \/ Join \/ SetThreaded

----------------------------------------------------------------------------
(* DrawThreadEntry.                                                        *)

SemWait ==
    /\ tpc = "wait" /\ DrawThreadSem > 0
    /\ DrawThreadSem' = DrawThreadSem - 1
    /\ tpc' = "woken"
    /\ UNCHANGED <<todo, lifeVars, jobVars, DrawBandsDone, DrawThreadQuit, regs, band, row, cpuVars,
                   FB, clip, seen>>

Woken ==
    /\ tpc = "woken"
    /\ IF DrawThreadQuit THEN tpc' = "exited" /\ UNCHANGED <<regs, band>>
                         ELSE tpc' = "band" /\ regs' = clip /\ band' = 0
    /\ UNCHANGED <<todo, lifeVars, jobVars, syncVars, row, cpuVars, FB, clip, seen>>

\* A pass starts with the registers the list was handed over with.
BadStartBand == tpc = "band" /\ tpc' = "row" /\ row' = DrawBands[band] /\ UNCHANGED clip
StartBand == tpc = "band" /\ tpc' = "row" /\ row' = DrawBands[band] /\ clip' = regs

BandPass ==
    /\ StartBand
    /\ UNCHANGED <<todo, lifeVars, jobVars, syncVars, regs, band, cpuVars, FB, seen>>

\* DrawListPass, a row at a time; its commands leave other registers behind.
DrawListPass ==
    /\ tpc = "row"
    /\ FB' = [FB EXCEPT ![FBDrawWhich][row] = Append(@, Brush(DrawCmdSnapshot))]
    /\ IF row + 1 < DrawBands[band + 1]
       THEN row' = row + 1 /\ UNCHANGED <<tpc, clip>>
       ELSE tpc' = "done" /\ clip' = ClipAfter[DrawCmdSnapshot][clip] /\ UNCHANGED row
    /\ UNCHANGED <<todo, lifeVars, jobVars, syncVars, regs, band, cpuVars, seen>>

BandDone ==
    /\ tpc = "done"
    /\ DrawBandsDone' = band + 1
    /\ IF band + 1 < DrawNumBands THEN tpc' = "band" /\ band' = band + 1 /\ UNCHANGED <<regs, row>>
                                  ELSE tpc' = "wait" /\ regs' = "none" /\ band' = 0 /\ row' = 0
    /\ UNCHANGED <<todo, lifeVars, jobVars, DrawThreadSem, DrawThreadQuit, cpuVars, FB, clip, seen>>

ThreadStep == SemWait \/ Woken \/ BandPass \/ DrawListPass \/ BandDone

----------------------------------------------------------------------------
NextDraw == MainCall \/ MainStep \/ ThreadStep

SpecDraw == InitDraw /\ [][NextDraw]_allVars

\* Both threads are scheduled.
FairSpec == SpecDraw /\ WF_allVars(MainStep) /\ WF_allVars(ThreadStep)

----------------------------------------------------------------------------
(* Properties.                                                             *)

Doing(ks) == todo # <<>> /\ Head(todo).do \in ks

\* Every variable has its type.
TypeOK ==
    /\ FB \in [{0, 1} -> [Row -> Seq(Paint)]] /\ FBDrawWhich \in {0, 1}
    /\ VRAM \in Contents /\ VRAMCmdSnapshot \in Contents /\ TVMR \in Modes /\ clip \in Clips
    /\ DrawingActive \in BOOLEAN
    /\ DrawThreadWanted \in BOOLEAN /\ DrawThread \in BOOLEAN
    /\ DrawJobActive \in BOOLEAN /\ DrawTVMR \in Modes
    /\ DVRAM \in {"VRAM", "DrawVRAM"} /\ DrawVRAM \in Contents /\ DrawCmdSnapshot \in Contents
    /\ DrawBandsDone \in 0 .. DrawNumBands /\ DrawThreadSem \in 0 .. 1 /\ DrawThreadQuit \in BOOLEAN
    /\ tpc \in {"none", "wait", "woken", "band", "row", "done", "exited"}
    /\ regs \in Clips \union {"none"} /\ band \in Bands /\ row \in Row

\* The thread has a list to draw, or is drawing one.
Busy == DrawThreadSem > 0 \/ tpc \in {"woken", "band", "row", "done"}

\* Main touches the draw framebuffer, the drawing registers or the frozen copies
\* only while the thread does not (WaitDrawThread in front of every such access).
Exclusive == Doing({"freeze", "draw", "swap", "fill", "poke", "peek", "all", "clip", "save",
                    "load", "reset"}) => ~Busy

\* Every call of main returns: no wait lasts for ever.
CallsReturn == todo # <<>> ~> todo = <<>>

\* Rows of the draw under way that are still to be painted.
Unpainted ==
    {r \in Row : /\ DrawJobActive
                 /\ \/ Doing({"publish", "post"})
                    \/ tpc \in {"wait", "woken"} /\ DrawBandsDone # DrawNumBands
                    \/ tpc = "band" /\ r >= DrawBands[band]
                    \/ tpc = "row" /\ r >= row
                    \/ tpc = "done" /\ r >= DrawBands[band + 1]}

\* The registers a list under way began, and will end, with.
Started   == IF tpc \in {"band", "row", "done"} THEN regs ELSE clip
Underway  == Unpainted # {} \/ tpc \in {"band", "row", "done"}
FinalClip == IF Underway THEN ClipAfter[DrawCmdSnapshot][Started] ELSE clip
FinalRow(w, r) == IF w = FBDrawWhich /\ r \in Unpainted
                  THEN Append(FB[w][r], [cmds |-> DrawCmdSnapshot, tex |-> DrawVRAM,
                                         mode |-> DrawTVMR, clip |-> Started])
                  ELSE FB[w][r]

Instant == INSTANCE Vdp1Instant WITH
              FB <- [w \in {0, 1} |-> [r \in Row |-> FinalRow(w, r)]], clip <- FinalClip

\* To the CPU, to VDP2 and to a saved state the framebuffers and registers are those
\* of a draw in one go, whatever they write while the thread draws.
InstantDraw == Instant!Spec

=============================================================================
