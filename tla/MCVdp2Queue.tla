---------------------------- MODULE MCVdp2Queue -----------------------------
(* Vdp2Queue.tla for TLC: which of main's calls are made, so that liveness *)
(* can be checked along with what the frames show.                         *)
EXTENDS Vdp2Queue

CONSTANTS v, w

Writes == mpc = "ready" /\ todo' # <<>> /\ Head(todo').op = "WRITE"

\* Main writes, or resets the VDP2, behind the first row and in blanking ...
WritesPaced ==
    Writes => /\ phase = "frame" /\ line \in {1, VisibleLines}
              /\ main' = (IF line = 1 THEN w ELSE v) /\ main' # main

\* ... fills a line's buffer from the memory of the moment ...
FilledFromMemory ==
    mpc = "ready" /\ phase = "frame" /\ VPhase = "ACTIVE" /\ ~Writes =>
        LIB'[LibLine(VCounter)] = main

\* ... and the picture has a border below it only.
NoTopBorder == VPhase' # "TOP_BORDER"

Paced == WritesPaced /\ FilledFromMemory /\ NoTopBorder
=============================================================================
