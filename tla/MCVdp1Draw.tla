----------------------------- MODULE MCVdp1Draw -----------------------------
(* Instances of Vdp1Draw for TLC.  Contents and clips are numbered; list   *)
(* 0 leaves clip0 and the other lists keep what they find.                 *)
EXTENDS Vdp1Draw

CONSTANTS Lists, ClipRegs     \* how many contents and clips there are

MCContents  == 0 .. Lists - 1
MCClips     == {"clip0"} \union (IF ClipRegs = 2 THEN {"clip1"} ELSE {})
MCClipAfter == [l \in MCContents |-> [c \in MCClips |-> IF l = 0 THEN "clip0" ELSE c]]
MCDrawBands == [b \in 0 .. DrawNumBands |-> IF b = DrawNumBands THEN Rows ELSE b]

\* Lists differ, or modes, or clips: a call of main brings in one kind of difference
\* only while there is none of another kind.  It bounds calls, and what a loaded
\* state holds, but no other step.
OneList == {VRAM, VRAMCmdSnapshot, DrawVRAM, DrawCmdSnapshot} = {0}
OneMode == {TVMR, DrawTVMR} = {"plain"}
OneClip == clip = "clip0" /\ regs # "clip1"
Asks(k, x) == \E i \in DOMAIN todo' : todo'[i].do = k /\ todo'[i].arg # x
Alike == (OneList /\ OneMode) \/ (OneList /\ OneClip) \/ (OneMode /\ OneClip)
OneKind ==
    /\ todo = <<>> => /\ Asks("VRAM", 0)       => OneMode /\ OneClip
                      /\ Asks("TVMR", "plain") => OneList /\ OneClip
                      /\ Asks("clip", "clip0") => OneList /\ OneMode
    /\ todo # <<>> /\ Head(todo).do = "load" => Alike'

MCInit == InitDraw /\ Alike
MCSpec == /\ MCInit /\ [][NextDraw]_allVars
          /\ WF_allVars(MainStep) /\ WF_allVars(ThreadStep)
=============================================================================
