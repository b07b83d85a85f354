------------------------------ MODULE Vdp1Frame ------------------------------
(***************************************************************************)
(* The frame change of VDP1 (src/mednafen/ss/vdp1.cpp, SetHBVB): when the  *)
(* two framebuffers are exchanged, how the one shown is erased, when a     *)
(* list is started, and for VDP1INSTANT games the copy of the command      *)
(* table that is drawn from.  VDP2's beam (vdp2.cpp) drives it; the game   *)
(* writes registers and VRAM between any two steps of the beam.            *)
(*                                                                         *)
(* A framebuffer is the set of its rows that hold paint; the two are named *)
(* by what they are for, so exchanging them is FBDrawWhich = !FBDrawWhich. *)
(* Of the copy of the command table only the commands that differ from     *)
(* VRAM are kept.  The registers of the erase area name the whole          *)
(* framebuffer.  The status registers EDSR and LOPR, and what threaded     *)
(* drawing adds (Vdp1Draw.tla), are left out, and so is LATESWAP, which no *)
(* game has.  Operators named Bad... are plausible bugs; no specification  *)
(* uses them.                                                              *)
(***************************************************************************)
EXTENDS Naturals

CONSTANTS
    Rows,       \* rows of a framebuffer, and lines of the active display
    Lines,      \* lines of a field
    CmdTable,   \* the commands of the table in VRAM
    Games       \* kinds of game: standard, latch (FBCRLATCH), instant (VDP1INSTANT)

ASSUME LinesAssumption == Rows \in Nat \ {0} /\ Lines \in Nat /\ Lines >= Rows + 2
ASSUME GamesAssumption == Games \subseteq {"standard", "latch", "instant"}

VARIABLES
    game,
    VCounter, HPhase, Out_VB,   \* VDP2's beam
    v                           \* the variables of VDP1, and history (see InitFrame)

frameVars == <<game, VCounter, HPhase, Out_VB, v>>

Row   == 0 .. Rows - 1
Tvmrs == {{}, {"VBE"}, {"ROTATE"}}
None  == [none |-> 0]           \* no FBCR is latched

InitFrame ==
    /\ game \in Games
    /\ VCounter = 0 /\ HPhase = "active" /\ Out_VB = FALSE
    /\ v = [hb |-> FALSE, vb |-> FALSE, vbcdpending |-> FALSE,
            FCM |-> FALSE, FCT |-> FALSE, FBManualPending |-> FALSE, FBCRLatch |-> None,
            TVMR |-> {}, PTMR |-> FALSE,        \* bit 1: draw at a frame change
            FBVBErasePending |-> FALSE, FBVBEraseActive |-> FALSE,
            EraseYCounter |-> Rows,             \* Rows: no line is erased
            y_end |-> 0,                        \* EraseParams
            draw |-> Row, show |-> Row,         \* rows with paint in the two framebuffers
            DrawingActive |-> FALSE,
            behind |-> CmdTable,    \* commands whose copy in VRAMCmdSnapshot is old
            fresh |-> {},           \* VRAMCmdWriteFrame[i] = VDP1FrameNum
            thisLine |-> FALSE,     \* VRAMCmdWrittenThisScanline
            any |-> FALSE,          \* VRAMCmdSeenAnyWrite
            ready |-> FALSE,        \* VDP1InstantDrawDoneThisFrame
            \* history:
            cut |-> TRUE,           \* no vertical blanking since a reset
            erasing |-> FALSE,      \* the last change asked for an erase of what is shown
            ghost |-> FALSE,        \* drawing got a buffer that should have been erased
            lost |-> CmdTable,      \* not written since a reset
            late |-> {},            \* written last behind the idle line of its frame
            old |-> {},             \* behind at the last change, not written or lost since
            aged |-> FALSE]         \* a command was still behind at the change after that

-----------------------------------------------------------------------------
(* The parts of SetHBVB.  Update may draw any rows, and end the list or not: a
   list takes time, and instant drawing may be halted (SCU_CheckVDP1HaltKludge)
   or run into its limit. *)
DoDrawing(w) ==
    {[w EXCEPT !.draw = @ \cup R, !.DrawingActive = a] : R \in SUBSET Row, a \in BOOLEAN}

StartDrawing(w) == [w EXCEPT !.DrawingActive = TRUE]

\* An FBCR latched during the last blanking takes effect as this one begins.
LatchTaken(w) ==
    IF w.FBCRLatch = None THEN w
    ELSE [w EXCEPT !.FCM = w.FBCRLatch.FCM, !.FCT = w.FBCRLatch.FCT,
                   !.FBManualPending = @ \/ w.FBCRLatch.FCM, !.FBCRLatch = None]

SwapDue(w)  == ~w.FCM \/ (w.FBManualPending /\ w.FCT)
EraseDue(w) == ~w.FCM \/ (w.FBManualPending /\ ~w.FCT)

\* SwapDrawFB and the erase parameters, which are read again here.
SwapDrawFB(w) ==
    [w EXCEPT !.draw = w.show, !.show = w.draw, !.DrawingActive = FALSE, !.y_end = Rows - 1]

Ghosts(w) == [w EXCEPT !.ghost = @ \/ (w.erasing /\ w.draw # {})]

Started(w) == IF w.PTMR THEN DoDrawing(StartDrawing(w)) ELSE {w}

BadEraseChosen(w) ==
    [w EXCEPT !.EraseYCounter = IF EraseDue(w) /\ "ROTATE" \notin w.TVMR THEN 0 ELSE Rows,
              !.FBManualPending = FALSE,
              !.erasing = EraseDue(w) /\ w.y_end = Rows - 1 /\ ~w.cut]

\* The erase of what is shown in the field that begins: line by line as it is
\* displayed, or, rotated, all at once in the next blanking.
EraseChosen(w) ==
    LET rotate == "ROTATE" \in w.TVMR
    IN  [w EXCEPT !.EraseYCounter = IF EraseDue(w) /\ ~rotate THEN 0 ELSE Rows,
                  !.FBVBErasePending = @ \/ (EraseDue(w) /\ rotate),
                  !.FBManualPending = FALSE,
                  !.erasing = EraseDue(w) /\ w.y_end = Rows - 1 /\ ~w.cut]

EnterBlanking(w) ==
    IF "VBE" \in w.TVMR \/ w.FBVBErasePending
    THEN [w EXCEPT !.FBVBErasePending = FALSE, !.FBVBEraseActive = TRUE]
    ELSE w

Erased(w) ==
    IF w.FBVBEraseActive
    THEN [w EXCEPT !.show = @ \ (0 .. w.y_end), !.FBVBEraseActive = FALSE]
    ELSE w

LeaveBlanking(w) ==
    LET e == Erased(w)
    IN  {EraseChosen(x) : x \in IF SwapDue(e) THEN Started(Ghosts(SwapDrawFB(e))) ELSE {e}}

\* VDP1INSTANT: a line of the active display during which the table was not
\* written, after it was: the whole table is copied.
IdleScanline(w) ==
    IF w.any /\ ~w.thisLine
    THEN [w EXCEPT !.ready = TRUE, !.behind = {}, !.lost = {}, !.late = {}]
    ELSE [w EXCEPT !.thisLine = FALSE]

BadComposed(w) ==
    [w EXCEPT !.fresh = {}, !.ready = FALSE, !.any = FALSE, !.thisLine = FALSE,
              !.old = w.behind \ w.lost]

\* The copy the list is drawn from: that of the idle line, or the last one with the
\* commands written since the last change.
Composed(w) ==
    LET behind == IF w.ready THEN w.behind ELSE w.behind \ w.fresh
    IN  [w EXCEPT !.behind = behind, !.fresh = {},
                  !.ready = FALSE, !.any = FALSE, !.thisLine = FALSE,
                  !.aged = @ \/ behind \cap w.old # {}, !.old = behind \ w.lost]

BadEarlySwap(w) ==
    LET e == [w EXCEPT !.FBVBEraseActive = FALSE]
        f == [Composed(SwapDrawFB(e)) EXCEPT !.draw = {}]
    IN  {EraseChosen(x) : x \in IF SwapDue(e) THEN Started(f) ELSE {e}}

\* VDP1INSTANT: the change as blanking ends.  Only the draw buffer is filled.
EarlySwap(w) ==
    LET e == [w EXCEPT !.vbcdpending = FALSE, !.FBVBEraseActive = FALSE]
        f == [Composed(SwapDrawFB(e)) EXCEPT !.draw = {}]
    IN  {EraseChosen(x) : x \in IF SwapDue(e) THEN Started(f) ELSE {e}}

SetHBVB(u, hb, vb) ==
    LET rising == hb /\ ~u.hb
        latched == [(IF vb /\ ~u.vb THEN LatchTaken(u) ELSE u) EXCEPT !.hb = hb, !.vb = vb]
        done == [latched EXCEPT !.vbcdpending = FALSE]
        changed == IF ~(u.vbcdpending /\ rising) THEN {latched}
                   ELSE IF vb THEN {EnterBlanking(done)} ELSE LeaveBlanking(done)
        pending == {[w EXCEPT !.vbcdpending = @ \/ u.vb # vb] : w \in changed}
        idle == IF game = "instant" /\ ~vb /\ rising
                THEN {IdleScanline(w) : w \in pending} ELSE pending
    IN  IF game = "instant" /\ hb /\ u.vb /\ ~vb
        THEN UNION {EarlySwap(w) : w \in idle} ELSE idle

BadGetLine(u) ==
    IF u.EraseYCounter <= u.y_end
    THEN [u EXCEPT !.show = @ \ {u.EraseYCounter}, !.EraseYCounter = @ + 1]
    ELSE u

\* GetLine erases a row of what is shown behind the line it has read.
GetLine(u) ==
    IF game # "instant" /\ u.EraseYCounter <= u.y_end
    THEN [u EXCEPT !.show = @ \ {u.EraseYCounter}, !.EraseYCounter = @ + 1]
    ELSE u

-----------------------------------------------------------------------------
(* The beam: each line is displayed, then its right border, then hsync, where
   the lines are counted.  Blanking ends one line before the field does. *)
Active ==
    /\ HPhase = "hsync" /\ HPhase' = "active"
    /\ v' \in SetHBVB(IF VCounter < Rows THEN GetLine(v) ELSE v, FALSE, Out_VB)
    /\ UNCHANGED <<game, VCounter, Out_VB>>

RightBorder ==
    /\ HPhase = "active" /\ HPhase' = "border"
    /\ v' \in SetHBVB(v, TRUE, Out_VB)
    /\ UNCHANGED <<game, VCounter, Out_VB>>

BadHSync ==
    /\ HPhase = "border" /\ HPhase' = "hsync"
    /\ VCounter' = (VCounter + 1) % Lines
    /\ Out_VB' = (VCounter' \in Rows .. Lines - 1)
    /\ \E w \in SetHBVB(v, TRUE, Out_VB') : v' = [w EXCEPT !.cut = @ /\ VCounter' # Rows]
    /\ UNCHANGED game

HSync ==
    /\ HPhase = "border" /\ HPhase' = "hsync"
    /\ VCounter' = (VCounter + 1) % Lines
    /\ Out_VB' = (VCounter' \in Rows .. Lines - 2)
    /\ \E w \in SetHBVB(v, TRUE, Out_VB') : v' = [w EXCEPT !.cut = @ /\ VCounter' # Rows]
    /\ UNCHANGED game

\* VDP2 is brought up to date between two phases: it may tell of a blanking that a
\* reset has ended.
VDP2Update ==
    /\ v.vb # Out_VB
    /\ v' \in SetHBVB(v, v.hb, Out_VB)
    /\ UNCHANGED <<game, VCounter, HPhase, Out_VB>>

\* The VDP1 event, or an access that brings VDP1 up to date.
Update ==
    /\ v.DrawingActive
    /\ v' \in DoDrawing(v)
    /\ UNCHANGED <<game, VCounter, HPhase, Out_VB>>

-----------------------------------------------------------------------------
(* The game.  A register write begins with an update of VDP2. *)
WriteFBCR(fcm, fct) ==
    IF game = "latch" /\ v.vb
    THEN v' = [v EXCEPT !.FBCRLatch = [FCM |-> fcm, FCT |-> fct]]
    ELSE v' = [v EXCEPT !.FCM = fcm, !.FCT = fct, !.FBManualPending = @ \/ fcm]

\* Bit 0 restarts drawing at once, in a filled buffer if drawing is instant.
WritePTMR(now, later) ==
    v' = IF now THEN StartDrawing([v EXCEPT !.PTMR = later,
                                            !.draw = IF game = "instant" THEN {} ELSE @])
         ELSE [v EXCEPT !.PTMR = later]

WriteReg ==
    /\ v.vb = Out_VB
    /\ \/ \E fcm, fct \in BOOLEAN : WriteFBCR(fcm, fct)
       \/ \E now, later \in BOOLEAN : WritePTMR(now, later)
       \/ \E t \in Tvmrs : v' = [v EXCEPT !.TVMR = t]
       \/ v' = [v EXCEPT !.DrawingActive = FALSE]      \* ENDR
    /\ UNCHANGED <<game, VCounter, HPhase, Out_VB>>

WriteVRAM(c) ==
    /\ game = "instant"
    /\ v' = [v EXCEPT !.behind = @ \cup {c}, !.fresh = @ \cup {c},
                      !.thisLine = TRUE, !.any = TRUE,
                      !.late = IF v.ready THEN @ \cup {c} ELSE @ \ {c},
                      !.lost = @ \ {c}, !.old = @ \ {c}]
    /\ UNCHANGED <<game, VCounter, HPhase, Out_VB>>

WriteFB ==
    /\ \E r \in Row : v' = [v EXCEPT !.draw = @ \cup {r}]
    /\ UNCHANGED <<game, VCounter, HPhase, Out_VB>>

\* A reset, or a change of the clock: VDP1 and VDP2 are reset, the phase within the
\* line stays.  FBDrawWhich becomes 0, whatever it was; the pending change stays.
Reset ==
    /\ VCounter' = 0 /\ Out_VB' = FALSE
    /\ \E w \in {v, [v EXCEPT !.draw = v.show, !.show = v.draw]} :
         v' = [w EXCEPT !.FCM = FALSE, !.FCT = FALSE, !.FBManualPending = FALSE,
                        !.FBCRLatch = None, !.TVMR = {}, !.PTMR = FALSE,
                        !.FBVBErasePending = FALSE, !.FBVBEraseActive = FALSE,
                        !.EraseYCounter = Rows, !.y_end = 0, !.DrawingActive = FALSE,
                        !.fresh = {}, !.thisLine = FALSE, !.any = FALSE, !.ready = FALSE,
                        !.cut = TRUE, !.erasing = FALSE, !.lost = @ \cup w.behind, !.late = {},
                        !.old = {}]
    /\ UNCHANGED <<game, HPhase>>

NextFrame ==
    \/ Active \/ RightBorder \/ HSync \/ VDP2Update \/ Update
    \/ WriteReg \/ (\E c \in CmdTable : WriteVRAM(c)) \/ WriteFB \/ Reset

SpecFrame == InitFrame /\ [][NextFrame]_frameVars

-----------------------------------------------------------------------------
\* The variables that are not Boolean have their types.
FrameTypeOK ==
    /\ game \in Games /\ VCounter \in 0 .. Lines - 1 /\ Out_VB \in BOOLEAN
    /\ v.TVMR \in Tvmrs /\ v.draw \subseteq Row /\ v.show \subseteq Row
    /\ v.FBCRLatch \in {None} \cup [FCM : BOOLEAN, FCT : BOOLEAN]
    /\ v.EraseYCounter \in 0 .. Rows /\ v.y_end \in 0 .. Rows - 1
    /\ v.behind \cup v.fresh \cup v.late \cup v.lost \cup v.old \subseteq CmdTable

\* A buffer that was to be erased while it was shown holds no paint when drawing
\* gets it ("old sprite pixels ... that appeared as ghost sprites", SetHBVB).
NoGhosts == ~v.ghost

\* While a field is displayed the beam changes neither framebuffer, except for rows
\* of the shown one that were displayed already, and in instant games, which show
\* both, not even these: no exchange comes late, no row is erased ahead (SetHBVB,
\* GetLine).  A field cut by a reset is exempt.
SteadyWhileShown ==
    [][HPhase' # HPhase /\ VCounter < Rows /\ VCounter' < Rows /\ ~v.cut =>
         /\ v'.draw = v.draw
         /\ v'.show \subseteq v.show /\ v.show \ v'.show \subseteq (0 .. VCounter)
         /\ game = "instant" => v'.show = v.show]_frameVars

\* A command's copy differs from VRAM only if it was written since the last change,
\* behind the idle line of its frame, or not since a reset (Write16_DB, SetHBVB).
LagsOnlyLate == v.behind \subseteq v.fresh \cup v.late \cup v.lost

\* What the comment on VRAMCmdSnapshot says: commands are drawn as they are in VRAM,
\* or else as they were one frame ago.
OneFrameOld == ~v.aged

=============================================================================
