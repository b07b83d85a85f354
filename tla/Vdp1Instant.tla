---------------------------- MODULE Vdp1Instant -----------------------------
(***************************************************************************)
(* What a VDP1INSTANT game sees of the VDP1 (src/mednafen/ss/vdp1.cpp):    *)
(* the whole command list is drawn in one go, with what VRAM and the       *)
(* drawing registers hold at that moment.  Vdp1Draw.tla draws on a thread  *)
(* and implements this.                                                    *)
(***************************************************************************)
EXTENDS Integers, Sequences

CONSTANTS
    Rows,       \* framebuffer rows are 0 .. Rows - 1 (256)
    Contents,   \* what VRAM, and so a command list, may hold
    Modes,      \* values of TVMR; the ones that rotate are Rotating
    Rotating,
    Clips,      \* values of the clip and local coordinate registers
    ClipAfter   \* ClipAfter[l][c]: those list l leaves when it starts with c

VARIABLES
    FB,                 \* what was painted on each row of the two framebuffers since a fill
    FBDrawWhich,        \* the one drawn to
    VRAM,
    VRAMCmdSnapshot,    \* the frozen command table
    TVMR,
    clip,
    DrawingActive,      \* StartDrawing was called, the list not drawn yet
    seen                \* what main's last call read

vars == <<FB, FBDrawWhich, VRAM, VRAMCmdSnapshot, TVMR, clip, DrawingActive, seen>>

Row    == 0 .. Rows - 1
Filled == [r \in Row |-> <<>>]
Nothing == [nothing |-> 0]

Paint == [cmds : Contents, tex : Contents, mode : Modes, clip : Clips]

Init ==
    /\ FB = [w \in {0, 1} |-> Filled] /\ FBDrawWhich = 0
    /\ VRAM \in Contents /\ VRAMCmdSnapshot \in Contents /\ TVMR \in Modes /\ clip \in Clips
    /\ DrawingActive = FALSE /\ seen = Nothing

\* The list is drawn.
DoDrawing ==
    /\ DrawingActive
    /\ FB' = [FB EXCEPT ![FBDrawWhich] =
                 [r \in Row |-> Append(@[r], [cmds |-> VRAMCmdSnapshot, tex |-> VRAM,
                                              mode |-> TVMR, clip |-> clip])]]
    /\ clip' = ClipAfter[VRAMCmdSnapshot][clip]
    /\ DrawingActive' = FALSE /\ seen' = Nothing
    /\ UNCHANGED <<FBDrawWhich, VRAM, VRAMCmdSnapshot, TVMR>>

\* The CPU writes VRAM or TVMR, or the command table is frozen.
WriteVRAM ==
    /\ VRAM' \in Contents /\ seen' = Nothing
    /\ UNCHANGED <<FB, FBDrawWhich, VRAMCmdSnapshot, TVMR, clip, DrawingActive>>
WriteTVMR ==
    /\ TVMR' \in Modes /\ seen' = Nothing
    /\ UNCHANGED <<FB, FBDrawWhich, VRAM, VRAMCmdSnapshot, clip, DrawingActive>>
Freeze ==
    /\ VRAMCmdSnapshot' = VRAM /\ seen' = Nothing
    /\ UNCHANGED <<FB, FBDrawWhich, VRAM, TVMR, clip, DrawingActive>>

\* The draw framebuffer is filled, after a swap or not; drawing is started, or
\* stopped.
Fill ==
    /\ FBDrawWhich' \in {0, 1} /\ VRAMCmdSnapshot' \in {VRAM, VRAMCmdSnapshot}
    /\ FB' = [FB EXCEPT ![FBDrawWhich'] = Filled]
    /\ DrawingActive' \in {FALSE, DrawingActive} /\ seen' = Nothing
    /\ UNCHANGED <<VRAM, TVMR, clip>>
StartDrawing ==
    /\ DrawingActive' \in BOOLEAN /\ seen' = Nothing
    /\ UNCHANGED <<FB, FBDrawWhich, VRAM, VRAMCmdSnapshot, TVMR, clip>>

\* VDP2 reads a row, or all rows if the framebuffer is rotated; the CPU reads the
\* draw framebuffer, or a saved state the registers.
GetLine ==
    /\ \/ \E r \in Row : seen' = [line |-> <<FB[0][r], FB[1][r]>>]
       \/ TVMR \in Rotating /\ seen' = [all |-> FB]
    /\ UNCHANGED <<FB, FBDrawWhich, VRAM, VRAMCmdSnapshot, TVMR, clip, DrawingActive>>
ReadFB ==
    /\ \E r \in Row : seen' = [word |-> FB[FBDrawWhich][r]]
    /\ UNCHANGED <<FB, FBDrawWhich, VRAM, VRAMCmdSnapshot, TVMR, clip, DrawingActive>>
ReadRegisters ==
    /\ seen' = [clip |-> clip]
    /\ UNCHANGED <<FB, FBDrawWhich, VRAM, VRAMCmdSnapshot, TVMR, clip, DrawingActive>>

\* The CPU writes to the draw framebuffer, a debugger to the registers.
WriteFB ==
    /\ \E r \in Row : FB' = [FB EXCEPT ![FBDrawWhich][r] = <<>>]
    /\ seen' = Nothing
    /\ UNCHANGED <<FBDrawWhich, VRAM, VRAMCmdSnapshot, TVMR, clip, DrawingActive>>
WriteRegisters ==
    /\ clip' \in Clips /\ seen' = Nothing
    /\ UNCHANGED <<FB, FBDrawWhich, VRAM, VRAMCmdSnapshot, TVMR, DrawingActive>>

\* A reset; a power-on reset, or a loaded state.
Reset ==
    /\ FBDrawWhich' = 0 /\ TVMR' \in Modes \ Rotating /\ DrawingActive' = FALSE
    /\ seen' = Nothing
    /\ UNCHANGED <<FB, VRAM, VRAMCmdSnapshot, clip>>
Load ==
    /\ FB' = [w \in {0, 1} |-> Filled] /\ FBDrawWhich' \in {0, 1}
    /\ VRAM' \in Contents /\ VRAMCmdSnapshot' \in Contents
    /\ TVMR' \in Modes /\ clip' \in Clips /\ DrawingActive' \in BOOLEAN
    /\ seen' = Nothing

\* A call that neither changes nor reads any of this.
Other ==
    /\ seen' = Nothing
    /\ UNCHANGED <<FB, FBDrawWhich, VRAM, VRAMCmdSnapshot, TVMR, clip, DrawingActive>>

Next == \/ DoDrawing \/ WriteVRAM \/ WriteTVMR \/ Freeze \/ Fill \/ StartDrawing
        \/ GetLine \/ ReadFB \/ ReadRegisters \/ WriteFB \/ WriteRegisters \/ Reset \/ Load \/ Other

Spec == Init /\ [][Next]_vars

=============================================================================
