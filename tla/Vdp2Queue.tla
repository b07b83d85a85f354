----------------------------- MODULE Vdp2Queue ------------------------------
(***************************************************************************)
(* The VDP2 render thread of src/mednafen/ss/vdp2_render.cpp: the          *)
(* emulation thread ("main") queues memory writes and lines to draw, the   *)
(* render thread executes them on its own copy of the VDP2's memory and    *)
(* draws on the frontend's surface, and main waits for it at the end of a  *)
(* frame and when a state is saved or loaded.                              *)
(*                                                                         *)
(* A line has two numbers: its row on the surface, counted by line         *)
(* (CRTLineCounter of vdp2.cpp), and its number in the picture, VCounter,  *)
(* by which the buffer LIB for its data is chosen.  A reset of the VDP2    *)
(* starts VCounter again in the middle of a frame, but not line.           *)
(*                                                                         *)
(* mpc/todo/then and rpc are the program counters and locals of the two    *)
(* threads; want and kept are history variables.  Operators named Bad...   *)
(* are plausible bugs; no specification uses them.                         *)
(***************************************************************************)
EXTENDS Integers, Sequences

CONSTANTS
    WQ_Size,        \* entries of the ring (0x80000)
    VisibleLines,   \* lines of a frame (240 or 288)
    ActiveMin,      \* lines of a picture, at least (224)
    ActiveMax,      \* and at most (256)
    BusyLines,      \* the thread busy-waits for this many last lines (48)
    WakeupAt,       \* lines queued that make main wake the thread (64)
    Values,         \* what a write or reset leaves in memory, a line in its buffer
    SemCap          \* bound: tokens of WakeupSem beyond this one change nothing

NoLine == -1                                \* the number of a border line
Border == "border"                          \* the line data it shows

ASSUME RingAssumption == WQ_Size \in Nat \ {0} /\ SemCap \in Nat \ {0}
ASSUME LineAssumption == /\ VisibleLines \in Nat /\ BusyLines \in Nat
                         /\ VisibleLines >= BusyLines /\ WakeupAt \in Nat
ASSUME ActiveAssumption == /\ ActiveMin \in Nat /\ ActiveMax \in Nat
                           /\ ActiveMax >= ActiveMin /\ ActiveMin > 1
ASSUME ValueAssumption == Border \notin Values

VARIABLES
    mpc, todo, then,    \* main: what it does next, entries and posts to go, where then
    phase,              \* "between" frames, in a "frame", "closed"
    VPhase, VCounter,   \* part of the field, number of the picture's line to come
    InternalVB,         \* is the display off for this picture?
    line, NextOutLine,  \* row to come (VisibleLines: not visible), after the last queued
    DoWakeupIfNecessary,
    main,               \* main's copy of the VDP2's memory and settings
    LIB,                \* per-line data main hands over outside the queue
    espec,              \* is the frame's surface there?
    WQ, WQ_ReadPos, WQ_WritePos, WQ_InCount,
    DrawCounter, WakeupSem,
    rpc, DoBusyWait,    \* render thread: what it does next, whether it spins
    mem,                \* its copy of the memory and settings
    surface,            \* what each row of the surface shows
    want, kept          \* what it shall show, row at which VCounter last started

callVars   == <<mpc, todo, then>>
beamVars   == <<VPhase, VCounter, InternalVB, line, kept>>
frameVars  == <<phase, beamVars, NextOutLine, DoWakeupIfNecessary, main, LIB, espec, want>>
ringVars   == <<WQ, WQ_ReadPos, WQ_WritePos, WQ_InCount>>
threadVars == <<rpc, DoBusyWait, mem>>
vars == <<callVars, frameVars, ringVars, DrawCounter, WakeupSem, threadVars, surface>>

Lines == 0 .. VisibleLines - 1
Numbers == 0 .. ActiveMax - 1
Black == [mem |-> "black", lib |-> Border]  \* what EndFrame leaves on a line
Shown == [mem : Values, lib : Values \union {Border}] \union {Black}

Cmd(op, arg) == [op |-> op, arg |-> arg]
\* The rows of a line on the surface and in the picture.
Draws == [out : Lines, vdp2 : Numbers \union {NoLine}]
Entry == [op : {"WRITE"}, arg : Values] \union [op : {"DRAW_LINE"}, arg : Draws]
         \union [op : {"SET_BUSYWAIT"}, arg : BOOLEAN] \union [op : {"EXIT"}, arg : {0}]
Post  == Cmd("POST", 0)                     \* in todo: Sem_Post(WakeupSem)
NoEntry == Cmd("NONE", 0)

Init ==
    /\ mpc = "ready" /\ todo = <<>> /\ then = "ready" /\ phase = "between"
    /\ VPhase = "ACTIVE" /\ VCounter = 0 /\ InternalVB = TRUE
    /\ line = 0 /\ NextOutLine = 0 /\ DoWakeupIfNecessary = FALSE
    /\ main \in Values /\ mem = main
    /\ LIB \in [Numbers -> {main}] /\ espec = FALSE
    /\ WQ = [i \in 0 .. WQ_Size - 1 |-> NoEntry]
    /\ WQ_ReadPos = 0 /\ WQ_WritePos = 0 /\ WQ_InCount = 0
    /\ DrawCounter = 0 /\ WakeupSem = 0
    /\ rpc = "poll" /\ DoBusyWait = FALSE
    /\ kept = 0
    /\ want = [l \in Lines |-> Black] /\ surface = want

----------------------------------------------------------------------------
(* The calls of main.                                                      *)

Call(entries, k) == todo' = entries /\ mpc' = "push" /\ then' = k

\* VDP2REND_Write8_DB/Write16_DB, SetLayerEnableMask, SetRenderDeinterlace; a write to
\* TVMD may put the display off.
VDP2REND_Write(v) ==
    /\ mpc = "ready" /\ phase # "closed"
    /\ main' = v
    /\ InternalVB' \in {InternalVB, TRUE}
    /\ Call(<<Cmd("WRITE", v)>>, "ready")
    /\ UNCHANGED <<phase, VPhase, VCounter, line, kept, NextOutLine, DoWakeupIfNecessary, LIB,
                   espec, want, ringVars, DrawCounter, WakeupSem, threadVars, surface>>

\* VDP2::Reset, at a change of the clock also in the middle of a frame: VCounter starts
\* again, and steps at once when this line was drawn already.
VDP2REND_Reset(v) ==
    /\ mpc = "ready" /\ phase # "closed"
    /\ main' = v
    /\ VPhase' = "ACTIVE" /\ VCounter' \in {0, 1} /\ InternalVB' = TRUE
    /\ kept' = IF phase = "frame" THEN line ELSE kept
    /\ Call(<<Cmd("WRITE", v)>>, "ready")
    /\ UNCHANGED <<phase, line, NextOutLine, DoWakeupIfNecessary, LIB, espec, want, ringVars,
                   DrawCounter, WakeupSem, threadVars, surface>>

VDP2REND_StartFrame ==
    /\ mpc = "ready" /\ phase = "between"
    /\ phase' = "frame" /\ espec' = TRUE
    /\ line' = 0 /\ NextOutLine' = 0 /\ kept' = 0
    /\ want' = [l \in Lines |-> Black]
    /\ UNCHANGED <<callVars, VPhase, VCounter, InternalVB, DoWakeupIfNecessary, main, LIB,
                   ringVars, DrawCounter, WakeupSem, threadVars, surface>>

BadBusyWaitOn == <<Cmd("SET_BUSYWAIT", TRUE)>>
\* What the line BusyLines from the end adds.
BusyWaitOn == <<Cmd("SET_BUSYWAIT", TRUE), Post>>

\* What VDP2REND_DrawLine does after queueing a line, wdcq lines being queued.
Wakeup(draw, wdcq) ==
    LET bwthresh == VisibleLines - BusyLines
        posts    == line < bwthresh /\ wdcq > 0 /\ wdcq + 1 >= WakeupAt /\ DoWakeupIfNecessary
    IN  /\ DoWakeupIfNecessary' = IF line < bwthresh /\ wdcq = 0 THEN TRUE
                                  ELSE DoWakeupIfNecessary /\ ~posts
        /\ Call(<<draw>> \o
                (IF line = bwthresh THEN BusyWaitOn ELSE IF posts THEN <<Post>> ELSE <<>>),
                "ready")

\* Line vdp2 of the picture, or a border line, goes to the next row, if that is visible.
VDP2REND_DrawLine(vdp2, lib) ==
    \/ /\ line < VisibleLines
       /\ DrawCounter' = DrawCounter + 1
       /\ Wakeup(Cmd("DRAW_LINE", [out |-> line, vdp2 |-> vdp2]), DrawCounter)
       /\ NextOutLine' = line + 1
       /\ want' = [want EXCEPT ![line] = [mem |-> main, lib |-> lib]]
    \/ /\ line = VisibleLines
       /\ UNCHANGED <<callVars, DoWakeupIfNecessary, NextOutLine, DrawCounter, want>>

\* The parts of a field that may come next; VSYNC and the blankings around it are one.
Follows(p) == CASE p = "ACTIVE"        -> {"BOTTOM_BORDER", "BLANKING"}
                [] p = "BOTTOM_BORDER" -> {"BOTTOM_BORDER", "BLANKING"}
                [] p = "BLANKING"      -> {"BLANKING", "TOP_BORDER", "ACTIVE"}
                [] p = "TOP_BORDER"    -> {"TOP_BORDER", "ACTIVE"}

\* IncVCounter at the line's HSYNC, row being the next: the picture goes on ...
PictureGoesOn(row) ==
    /\ VPhase = "ACTIVE" /\ VCounter + 1 < ActiveMax
    /\ VCounter' = VCounter + 1 /\ line' = row
    /\ UNCHANGED <<VPhase, InternalVB, kept>>

\* ... or the next part of the field, or another line of it, comes.
IncVPhase(row) ==
    /\ VPhase = "ACTIVE" => VCounter + 1 >= ActiveMin
    /\ VPhase' \in Follows(VPhase) /\ VCounter' = 0
    /\ InternalVB' \in (IF VPhase' = "ACTIVE" THEN BOOLEAN ELSE {TRUE})
    /\ line' = IF VPhase # "BLANKING" /\ VPhase' = "BLANKING" THEN VisibleLines ELSE row
    /\ kept' = IF VPhase' = "ACTIVE" THEN line' ELSE kept

IncVCounter(row) == PictureGoesOn(row) \/ IncVPhase(row)

\* CRTLineCounter++
NextRow == IF line < VisibleLines THEN line + 1 ELSE VisibleLines

BadLibLine(vdp2) == vdp2 % (ActiveMax - 1)
\* VDP2REND_GetLIB: the buffer of a line.
LibLine(vdp2) == vdp2

\* A line of the picture: the line's buffer is filled in, then the line is queued.
ActiveLine(x) ==
    /\ mpc = "ready" /\ phase = "frame" /\ VPhase = "ACTIVE"
    /\ LIB' = [LIB EXCEPT ![LibLine(VCounter)] = x]
    /\ IF InternalVB THEN VDP2REND_DrawLine(NoLine, Border) ELSE VDP2REND_DrawLine(VCounter, x)
    /\ IncVCounter(NextRow)
    /\ UNCHANGED <<phase, main, espec, ringVars, WakeupSem, threadVars, surface>>

BorderLine ==
    /\ mpc = "ready" /\ phase = "frame" /\ VPhase \in {"TOP_BORDER", "BOTTOM_BORDER"}
    /\ VDP2REND_DrawLine(NoLine, Border)
    /\ IncVCounter(NextRow)
    /\ UNCHANGED <<phase, main, LIB, espec, ringVars, WakeupSem, threadVars, surface>>

BlankLine ==
    /\ mpc = "ready" /\ phase = "frame" /\ VPhase = "BLANKING"
    /\ IncVCounter(line)
    /\ UNCHANGED <<callVars, phase, NextOutLine, DoWakeupIfNecessary, main, LIB, espec, want,
                   ringVars, DrawCounter, WakeupSem, threadVars, surface>>

\* VDP2REND_EndFrame: a frame may end before all its lines were queued.
VDP2REND_EndFrame ==
    /\ mpc = "ready" /\ phase = "frame" /\ VPhase \in {"BLANKING", "TOP_BORDER"}
    /\ mpc' = "spin"
    /\ UNCHANGED <<todo, then, frameVars, ringVars, DrawCounter, WakeupSem, threadVars, surface>>

BadAllDrawn == WQ_InCount <= 1
AllDrawn == DrawCounter = 0

BusyWaitOff == <<Cmd("SET_BUSYWAIT", FALSE)>>

EndFrameSpun ==
    /\ mpc = "spin" /\ AllDrawn
    /\ Call(BusyWaitOff, "blank")
    /\ UNCHANGED <<frameVars, ringVars, DrawCounter, WakeupSem, threadVars, surface>>

\* The lines that were not queued turn black, from this one.
FirstBlank == NextOutLine

EndFrameBlank ==
    /\ mpc = "blank"
    /\ surface' = [l \in Lines |-> IF l >= FirstBlank THEN Black ELSE surface[l]]
    /\ espec' = FALSE /\ phase' = "between" /\ mpc' = "ready"
    /\ UNCHANGED <<todo, then, beamVars, NextOutLine, DoWakeupIfNecessary, main, LIB, want,
                   ringVars, DrawCounter, WakeupSem, threadVars>>

\* VDP2REND_StateAction waits ...
VDP2REND_StateAction ==
    /\ mpc = "ready" /\ phase = "between"
    /\ mpc' = "state"
    /\ UNCHANGED <<todo, then, frameVars, ringVars, DrawCounter, WakeupSem, threadVars, surface>>

BadIdle == DrawCounter = 0
Idle == WQ_InCount = 0

StateSpun ==
    /\ mpc = "state" /\ Idle
    /\ mpc' = "access"
    /\ UNCHANGED <<todo, then, frameVars, ringVars, DrawCounter, WakeupSem, threadVars, surface>>

\* A field is met where a state may have been saved, or a game begins.
BeamLoaded ==
    /\ VPhase' \in {"BLANKING", "TOP_BORDER", "ACTIVE"} /\ InternalVB' = TRUE
    /\ VCounter' \in (IF VPhase' = "ACTIVE" THEN {0, 1} ELSE {0})
    /\ UNCHANGED <<line, kept>>

\* ... then saves, or loads both copies.
StateAccess ==
    /\ mpc = "access"
    /\ mpc' = "ready"
    /\ \/ UNCHANGED <<main, mem, beamVars>>
       \/ BeamLoaded /\ \E v \in Values : main' = v /\ mem' = v
    /\ UNCHANGED <<todo, then, phase, NextOutLine, DoWakeupIfNecessary, LIB, espec, want,
                   ringVars, DrawCounter, WakeupSem, rpc, DoBusyWait, surface>>

\* VDP2REND_Kill when the game is closed, VDP2REND_Init when the next is loaded.
VDP2REND_Kill ==
    /\ mpc = "ready" /\ phase = "between"
    /\ phase' = "closed"
    /\ Call(<<Cmd("EXIT", 0)>>, "join")
    /\ UNCHANGED <<beamVars, NextOutLine, DoWakeupIfNecessary, main, LIB, espec, want, ringVars,
                   DrawCounter, WakeupSem, threadVars, surface>>

Join ==
    /\ mpc = "join" /\ rpc = "exited"
    /\ mpc' = "ready" /\ rpc' = "none" /\ WakeupSem' = 0
    /\ UNCHANGED <<todo, then, frameVars, ringVars, DrawCounter, DoBusyWait, mem, surface>>

VDP2REND_Init ==
    /\ mpc = "ready" /\ phase = "closed" /\ rpc = "none"
    /\ phase' = "between" /\ rpc' = "poll"
    /\ WQ_ReadPos' = 0 /\ WQ_WritePos' = 0 /\ WQ_InCount' = 0 /\ DrawCounter' = 0
    /\ BeamLoaded /\ \E v \in Values : main' = v /\ mem' = v
    /\ UNCHANGED <<callVars, NextOutLine, DoWakeupIfNecessary, LIB, espec, want, WQ, WakeupSem,
                   DoBusyWait, surface>>

----------------------------------------------------------------------------
(* WWQ(Head(todo)) and Sem_Post.                                           *)

Full == WQ_InCount = WQ_Size

\* After the entry or the post just made.
Continue ==
    /\ todo' = Tail(todo)
    /\ IF Tail(todo) = <<>> THEN mpc' = then /\ then' = "ready"
                            ELSE mpc' = "push" /\ UNCHANGED then

\* The sleep of a full ring is the guard.
PushLook ==
    /\ mpc = "push" /\ Head(todo) # Post /\ ~Full
    /\ mpc' = "slot"
    /\ UNCHANGED <<todo, then, frameVars, ringVars, DrawCounter, WakeupSem, threadVars, surface>>

NextPos(pos) == (pos + 1) % WQ_Size

PushSlot ==
    /\ mpc = "slot"
    /\ WQ' = [WQ EXCEPT ![WQ_WritePos] = Head(todo)]
    /\ WQ_WritePos' = NextPos(WQ_WritePos)
    /\ mpc' = "publish"
    /\ UNCHANGED <<todo, then, frameVars, WQ_ReadPos, WQ_InCount, DrawCounter, WakeupSem,
                   threadVars, surface>>

PushPublish ==
    /\ mpc = "publish"
    /\ WQ_InCount' = WQ_InCount + 1
    /\ Continue
    /\ UNCHANGED <<frameVars, WQ, WQ_ReadPos, WQ_WritePos, DrawCounter, WakeupSem, threadVars,
                   surface>>

SemPost ==
    /\ mpc = "push" /\ Head(todo) = Post
    /\ WakeupSem' = IF WakeupSem < SemCap THEN WakeupSem + 1 ELSE WakeupSem
    /\ Continue
    /\ UNCHANGED <<frameVars, ringVars, DrawCounter, threadVars, surface>>

----------------------------------------------------------------------------
(* RThreadEntry.                                                           *)

\* An entry is there; or spin; or sleep.
Poll ==
    /\ rpc = "poll"
    /\ rpc' = IF WQ_InCount # 0 THEN "exec" ELSE IF DoBusyWait THEN "poll" ELSE "wait"
    /\ UNCHANGED <<callVars, frameVars, ringVars, DrawCounter, WakeupSem, DoBusyWait, mem,
                   surface>>

SemTaken ==
    /\ rpc = "wait" /\ WakeupSem > 0
    /\ WakeupSem' = WakeupSem - 1
    /\ rpc' = "poll"
    /\ UNCHANGED <<callVars, frameVars, ringVars, DrawCounter, DoBusyWait, mem, surface>>

SemTimeout ==
    /\ rpc = "wait"
    /\ rpc' = "poll"
    /\ UNCHANGED <<callVars, frameVars, ringVars, DrawCounter, WakeupSem, DoBusyWait, mem,
                   surface>>

\* The entry is executed where it lies; a line takes a while.
Execute ==
    /\ rpc = "exec"
    /\ LET e == WQ[WQ_ReadPos] IN
          /\ rpc' = IF e.op = "DRAW_LINE" THEN "draw" ELSE "pop"
          /\ mem' = IF e.op = "WRITE" THEN e.arg ELSE mem
          /\ DoBusyWait' = IF e.op = "SET_BUSYWAIT" THEN e.arg ELSE DoBusyWait
    /\ UNCHANGED <<callVars, frameVars, ringVars, DrawCounter, WakeupSem, surface>>

BadDrawn == DrawCounter
\* DrawCounter.fetch_sub
Drawn == DrawCounter - 1

\* What is drawn: a line of the picture from its buffer as it is now.
Picture(a) == [mem |-> mem, lib |-> IF a.vdp2 = NoLine THEN Border ELSE LIB[LibLine(a.vdp2)]]

DrawLine ==
    /\ rpc = "draw"
    /\ LET a == WQ[WQ_ReadPos].arg IN surface' = [surface EXCEPT ![a.out] = Picture(a)]
    /\ DrawCounter' = Drawn
    /\ rpc' = "pop"
    /\ UNCHANGED <<callVars, frameVars, ringVars, WakeupSem, DoBusyWait, mem>>

Pop ==
    /\ rpc = "pop"
    /\ rpc' = IF WQ[WQ_ReadPos].op = "EXIT" THEN "exited" ELSE "poll"
    /\ WQ_ReadPos' = NextPos(WQ_ReadPos)
    /\ WQ_InCount' = WQ_InCount - 1
    /\ UNCHANGED <<callVars, frameVars, WQ, WQ_WritePos, DrawCounter, WakeupSem, DoBusyWait, mem,
                   surface>>

----------------------------------------------------------------------------
MainCall == \/ (\E v \in Values : VDP2REND_Write(v) \/ VDP2REND_Reset(v) \/ ActiveLine(v))
            \/ VDP2REND_StartFrame \/ BorderLine \/ BlankLine \/ VDP2REND_EndFrame
            \/ VDP2REND_StateAction \/ VDP2REND_Kill \/ VDP2REND_Init

MainStep == \/ PushLook \/ PushSlot \/ PushPublish \/ SemPost
            \/ EndFrameSpun \/ EndFrameBlank \/ StateSpun \/ StateAccess \/ Join

ThreadStep == Poll \/ SemTaken \/ Execute \/ DrawLine \/ Pop

Next == MainCall \/ MainStep \/ ThreadStep \/ SemTimeout

Spec == Init /\ [][Next]_vars

\* Both threads are scheduled; the timed wait need not ever time out.
FairSpec == Spec /\ WF_vars(MainStep) /\ WF_vars(ThreadStep)

----------------------------------------------------------------------------
(* Properties.                                                             *)

\* Every variable has its type.
TypeOK ==
    /\ mpc \in {"ready", "push", "slot", "publish", "spin", "blank", "state", "access", "join"}
    /\ todo \in Seq(Entry \union {Post}) /\ then \in {"ready", "blank", "join"}
    /\ phase \in {"between", "frame", "closed"}
    /\ VPhase \in {"ACTIVE", "BOTTOM_BORDER", "BLANKING", "TOP_BORDER"}
    /\ VCounter \in Numbers /\ InternalVB \in BOOLEAN /\ kept \in 0 .. VisibleLines
    /\ line \in 0 .. VisibleLines /\ NextOutLine \in 0 .. VisibleLines
    /\ DoWakeupIfNecessary \in BOOLEAN /\ espec \in BOOLEAN /\ DoBusyWait \in BOOLEAN
    /\ main \in Values /\ mem \in Values /\ LIB \in [Numbers -> Values]
    /\ WQ \in [0 .. WQ_Size - 1 -> Entry \union {NoEntry}]
    /\ WQ_ReadPos \in 0 .. WQ_Size - 1 /\ WQ_WritePos \in 0 .. WQ_Size - 1
    /\ WQ_InCount \in 0 .. WQ_Size /\ DrawCounter \in 0 .. VisibleLines
    /\ WakeupSem \in 0 .. SemCap
    /\ rpc \in {"none", "poll", "wait", "exec", "draw", "pop", "exited"}
    /\ surface \in [Lines -> Shown] /\ want \in [Lines -> Shown]

\* The thread draws only while the frame's surface is there and main does not work
\* on it (the spin of VDP2REND_EndFrame, which ends in espec = NULL).
SurfaceExclusive == rpc = "draw" => espec /\ mpc # "blank"

\* A row shows the memory of the moment it was issued and, unless VCounter started again
\* after it, its line data of that moment.
AsIssued(l) ==
    /\ surface[l].mem = want[l].mem
    /\ l >= kept \/ want[l].lib = Border => surface[l] = want[l]

\* A finished frame shows, on each row, the memory and the line's buffer as they were when
\* the line was issued, however far the thread lagged; rows that were not issued are
\* black (the queue's order, LIB, DrawCounter, NextOutLine).  Only a picture's lines
\* before a reset in the middle of the frame, whose buffers were filled again, may show
\* later line data; the memory they show is right even so.
FrameAsIssued == phase = "between" => \A l \in Lines : AsIssued(l)

\* A state is saved or loaded only when the thread has executed everything and is
\* between two entries: its copy of the memory is main's (VDP2REND_StateAction).
StateComplete == mpc = "access" => mem = main /\ rpc \in {"poll", "wait"}

\* Every call of main returns, given that the timed wait times out.
CallsReturn == WF_vars(SemTimeout) => (mpc # "ready" ~> mpc = "ready")

\* A frame that got as far as the busy-waiting lines ends without a timeout's help.
EndsUnaided == mpc = "spin" /\ NextOutLine > VisibleLines - BusyLines ~> mpc # "spin"

=============================================================================
