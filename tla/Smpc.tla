-------------------------------- MODULE Smpc --------------------------------
(***************************************************************************)
(* The command loop of the SMPC, SMPC_Update of src/mednafen/ss/smpc.cpp:  *)
(* a coroutine that runs until it has to let clocks pass or to wait for a  *)
(* condition, and takes up there when it is called again, by its event or  *)
(* by a register write of the game.  Around it, the game, the vertical     *)
(* phases of VDP2 (SMPC_SetVBVS), frames (SMPC_StartFrame) and the run     *)
(* loop that switches the slave CPU (SMPC_ProcessSlaveOffOn).              *)
(*                                                                         *)
(* SNDON stands for the commands that are done at once, SETTIME for those  *)
(* that let clocks pass; what they do, the clock, the reset button and the *)
(* contents of a report are left out, and so is IR0WA, which decides only  *)
(* how soon the loop is called after a Continue.  The game obeys SF: it    *)
(* sets it when it is clear, and then writes the command.  Operators named *)
(* Bad... are plausible bugs; no specification uses them.                  *)
(***************************************************************************)
EXTENDS Naturals, Sequences

CONSTANT MaxBlocks      \* bound: reports of 32 bytes of one INTBACK

ASSUME MaxBlocksAssumption == MaxBlocks \in Nat

Commands == {"SNDON", "SETTIME", "SSHON", "SSHOFF", "CKCHG", "SYSRES", "INTBACK"}

VARIABLES
    ph,             \* SubPhase: where the coroutine is
    pend, cmd,      \* PendingCommand and ExecutingCommand
    sf,
    pvb,            \* PendingVB
    cont, brk,      \* bits 7 and 6 of IREG[0]: Continue and Break
    want, peri,     \* IREG[0] and IREG[1] ask for the status, for peripheral data
    next,           \* JRS.NextContBit
    npe,            \* SR_NPE: more to come
    blocks,         \* reports of this INTBACK that more follows
    slave, slavePending,    \* SlaveSH2On; SlaveSH2Pending: none, on or off
    divisor,        \* a clock change is pending
    reset,          \* ResetPending
    vp, vb, vsync,  \* VDP2's vertical phase, and what the SMPC was told of it
    asking,         \* the game has set SF and not written the command
    unread,         \* history: a report that more follows, and the game has not asked for
    cut             \* history: vertical blanking began since the command was written

loop == <<ph, pend, cmd, sf>>
ireg == <<cont, brk, want, peri>>
report == <<next, npe, blocks, unread>>
requests == <<slave, slavePending, divisor, reset>>
beam == <<vp, vb, vsync>>
vars == <<loop, pvb, ireg, report, requests, beam, asking, cut>>

\* The phases, and the order of them: the frame ends before the last one.
VPhases == <<"active", "bottom", "vsync", "blanking", "border">>
Blank(p) == p # "active"

Init ==
    /\ ph = "idle" /\ pend = "none" /\ cmd = "none" /\ sf = FALSE /\ pvb = FALSE
    /\ cont = FALSE /\ brk = FALSE /\ want = FALSE /\ peri = FALSE
    /\ next = FALSE /\ npe = FALSE /\ blocks = 0 /\ unread = FALSE
    /\ slave = FALSE /\ slavePending = "none" /\ divisor = FALSE /\ reset = FALSE
    /\ vp = 1 /\ vb = FALSE /\ vsync = FALSE /\ asking = FALSE /\ cut = FALSE

----------------------------------------------------------------------------
(* The coroutine: each step runs from one place where it stops to another. *)

Goto(p) == ph' = p /\ UNCHANGED <<pend, cmd, sf>>
Finish == /\ ph' = "idle" /\ cmd' = "none" /\ sf' = FALSE /\ UNCHANGED pend
          /\ unread' = FALSE

BadTakeVB == ph' = "vb" /\ UNCHANGED <<pend, cmd, sf, pvb>>
TakeVB == ph' = "vb" /\ pvb' = FALSE /\ UNCHANGED <<pend, cmd, sf>>

Idle ==
    /\ ph = "idle"
    /\ \/ pvb /\ pend = "none" /\ TakeVB
       \/ /\ pend # "none"
          /\ ph' = "start" /\ cmd' = pend /\ pend' = "none" /\ UNCHANGED <<sf, pvb>>
    /\ UNCHANGED <<ireg, report, requests>>

VBDone == ph = "vb" /\ Goto("idle") /\ UNCHANGED <<pvb, ireg, report, requests>>

\* The 92 clocks before a command are over.
Plain ==
    /\ \/ cmd = "SNDON" /\ Finish
       \/ cmd = "SETTIME" /\ Goto("set") /\ UNCHANGED unread
    /\ UNCHANGED <<next, npe, blocks, requests>>

SlaveCommand ==
    /\ cmd \in {"SSHON", "SSHOFF"}
    /\ IF slave # (cmd = "SSHON")
       THEN Goto("slave") /\ slavePending' = (IF slave THEN "off" ELSE "on") /\ UNCHANGED unread
       ELSE Finish /\ UNCHANGED slavePending
    /\ UNCHANGED <<next, npe, blocks, slave, divisor, reset>>

SysRes ==
    /\ cmd = "SYSRES" /\ Goto("sysres") /\ reset' = TRUE
    /\ UNCHANGED <<report, slave, slavePending, divisor>>

\* The VDP2 is reset with the rest: the SMPC hears of its new phase with the next line.
ClockChange ==
    /\ cmd = "CKCHG" /\ Goto("ck1") /\ divisor' = TRUE
    /\ slavePending' = IF slave THEN "off" ELSE slavePending
    /\ UNCHANGED <<report, slave, reset>>

IntBack ==
    /\ cmd = "INTBACK" /\ npe' = FALSE /\ blocks' = 0
    /\ \/ want /\ Goto("status") /\ UNCHANGED <<next, unread>>
       \/ ~want /\ peri /\ Goto("novb") /\ next' = TRUE /\ UNCHANGED unread
       \/ ~want /\ ~peri /\ Finish /\ UNCHANGED next
    /\ UNCHANGED requests

Start ==
    /\ ph = "start"
    /\ Plain \/ SlaveCommand \/ SysRes \/ ClockChange \/ IntBack
    /\ UNCHANGED <<pvb, ireg>>

SetDone == ph = "set" /\ Finish /\ UNCHANGED <<pvb, ireg, next, npe, blocks, requests>>

SlaveDone ==
    /\ ph = "slave" /\ slavePending = "none"
    /\ Finish /\ UNCHANGED <<pvb, ireg, next, npe, blocks, requests>>

\* A few vertical blankings, the new clock, and one more.
ClockSteps == <<~vb, vb, ~vb, vb, ~divisor, ~vb, vb, vsync>>
ClockPlaces == <<"ck1", "ck2", "ck3", "ck4", "ck5", "ck6", "ck7", "ck8">>

ClockWait ==
    /\ \E i \in 1 .. 8 :
         /\ ph = ClockPlaces[i] /\ ClockSteps[i]
         /\ IF i < 8 THEN Goto(ClockPlaces[i + 1]) /\ UNCHANGED unread ELSE Finish
    /\ UNCHANGED <<pvb, ireg, next, npe, blocks, requests>>

----------------------------------------------------------------------------
(* INTBACK.                                                                *)

\* JR_WAIT and JR_EAT give up when vertical blanking has begun.
BadAborted == FALSE
Aborted == pvb

BadAbort == ph' = "abort" /\ sf' = FALSE /\ UNCHANGED <<pend, cmd>>
Abort == Goto("abort")

AbortDone == ph = "abort" /\ Finish /\ UNCHANGED <<pvb, ireg, next, npe, blocks, requests>>

\* The status is reported with an interrupt.
StatusDone ==
    /\ ph = "status" /\ npe' = peri
    /\ \/ peri /\ Goto("cont") /\ next' = TRUE /\ unread' = TRUE
       \/ ~peri /\ Finish /\ UNCHANGED next
    /\ UNCHANGED <<pvb, ireg, blocks, requests>>

\* The game has asked for more: the bit must change each time.
BadGoOn == next' = next /\ UNCHANGED <<npe, blocks, unread>>
GoOn == next' = ~next /\ UNCHANGED <<npe, blocks, unread>>

ContOrBreak ==
    /\ ph = "cont"
    /\ \/ (Aborted \/ (brk /\ cont # next)) /\ Abort /\ UNCHANGED report
       \/ ~Aborted /\ cont = next /\ Goto("novb") /\ GoOn
    /\ UNCHANGED <<pvb, ireg, requests>>

NoVB ==
    /\ ph = "novb"
    /\ \/ Aborted /\ Abort
       \/ ~Aborted /\ ~vb /\ Goto("collect")
    /\ UNCHANGED <<pvb, ireg, report, requests>>

\* The ports are read until the report is full, or all is read.
Collect ==
    /\ ph = "collect"
    /\ \/ Aborted /\ Abort /\ UNCHANGED report
       \/ /\ ~Aborted /\ blocks < MaxBlocks
          /\ Goto("more") /\ npe' = TRUE /\ unread' = TRUE /\ blocks' = blocks + 1
          /\ UNCHANGED next
       \/ ~Aborted /\ Finish /\ npe' = FALSE /\ UNCHANGED <<next, blocks>>
    /\ UNCHANGED <<pvb, ireg, requests>>

More ==
    /\ ph = "more"
    /\ \/ (Aborted \/ brk) /\ Abort /\ UNCHANGED report
       \/ ~Aborted /\ ~brk /\ cont = next /\ Goto("collect") /\ GoOn
    /\ UNCHANGED <<pvb, ireg, requests>>

Run ==
    \/ Idle \/ VBDone \/ Start \/ SetDone \/ SlaveDone \/ ClockWait
    \/ AbortDone \/ StatusDone \/ ContOrBreak \/ NoVB \/ Collect \/ More

\* VDP2::Reset is called by the clock change.
SMPC_Update ==
    /\ Run
    /\ vp' = IF ph = "start" /\ ph' = "ck1" THEN 1 ELSE vp
    /\ UNCHANGED <<vb, vsync, asking, cut>>

\* Stopped at a wait: every register write brings the coroutine up to date first.
Stopped ==
    /\ ph = "idle" => pend = "none" /\ ~pvb
    /\ ph = "slave" => slavePending # "none"
    /\ \A i \in 1 .. 8 : ph = ClockPlaces[i] => ~ClockSteps[i]
    /\ ph \in {"cont", "more"} => ~pvb /\ ~brk /\ cont # next
    /\ ph = "novb" => ~pvb /\ vb

----------------------------------------------------------------------------
(* The game.                                                               *)

SetSF ==
    /\ ~sf /\ ~asking /\ Stopped
    /\ sf' = TRUE /\ asking' = TRUE
    /\ UNCHANGED <<ph, pend, cmd, pvb, ireg, report, requests, beam, cut>>

\* The input registers, and COMREG.
WriteCommand(c, status, data) ==
    /\ asking /\ asking' = FALSE /\ Stopped
    /\ pend' = c /\ cut' = FALSE
    /\ cont' = FALSE /\ brk' = FALSE /\ want' = status /\ peri' = data
    /\ UNCHANGED <<ph, cmd, sf, pvb, report, requests, beam>>

ContinueOrBreak ==
    /\ cmd = "INTBACK" /\ unread /\ Stopped /\ unread' = FALSE
    /\ \/ cont' = ~cont /\ UNCHANGED brk
       \/ brk' = TRUE /\ UNCHANGED cont
    /\ UNCHANGED <<loop, pvb, want, peri, next, npe, blocks, requests, beam, asking, cut>>

----------------------------------------------------------------------------
(* The machine.                                                            *)

SMPC_ProcessSlaveOffOn ==
    /\ slavePending # "none"
    /\ slave' = (slavePending = "on") /\ slavePending' = "none"
    /\ UNCHANGED <<loop, pvb, ireg, report, divisor, reset, beam, asking, cut>>

\* SMPC_SetVBVS, at the end of each line.  The 234 clocks of "vb" are over long before
\* the next blanking.
SetVBVS(p) ==
    LET blank == Blank(VPhases[p])
        begins == blank /\ ~vb
    IN  /\ vb' = blank /\ vsync' = (VPhases[p] = "vsync")
        /\ begins => ph # "vb"
        /\ pvb' = (pvb \/ begins) /\ cut' = (cut \/ begins)

Line ==
    /\ vb # Blank(VPhases[vp]) /\ SetVBVS(vp) /\ UNCHANGED vp
    /\ UNCHANGED <<loop, ireg, report, requests, asking>>

NextPhase ==
    /\ vb = Blank(VPhases[vp]) /\ vp # 4
    /\ vp' = (vp % 5) + 1 /\ SetVBVS(vp')
    /\ UNCHANGED <<loop, ireg, report, requests, asking>>

\* SMPC_Reset, and what it does to the game and to VDP2.
SMPC_Reset ==
    /\ ph' = "idle" /\ pend' = "none" /\ cmd' = "none" /\ sf' = FALSE /\ pvb' = FALSE
    /\ cont' = FALSE /\ brk' = FALSE /\ want' = FALSE /\ peri' = FALSE
    /\ next' = FALSE /\ npe' = FALSE /\ blocks' = 0 /\ unread' = FALSE
    /\ slave' = FALSE /\ slavePending' = "none" /\ divisor' = FALSE /\ reset' = FALSE
    /\ vp' = 1 /\ asking' = FALSE /\ cut' = FALSE /\ UNCHANGED <<vb, vsync>>

\* The frame ends and SMPC_StartFrame begins the next one; with a new line if nothing is
\* reset.
StartFrame ==
    /\ vb = Blank(VPhases[vp]) /\ vp = 4
    /\ \/ reset /\ SMPC_Reset
       \/ /\ ~reset /\ divisor' = FALSE
          /\ vp' = 5 /\ SetVBVS(5)
          /\ UNCHANGED <<loop, ireg, report, slave, slavePending, reset, asking>>

Next ==
    \/ SMPC_Update
    \/ SetSF \/ ContinueOrBreak
    \/ \E c \in Commands, status, data \in BOOLEAN :
         (c # "INTBACK" => ~status /\ ~data) /\ WriteCommand(c, status, data)
    \/ SMPC_ProcessSlaveOffOn \/ Line \/ NextPhase \/ StartFrame

Spec == Init /\ [][Next]_vars

Ask == \E c \in Commands, status, data \in BOOLEAN : WriteCommand(c, status, data)

\* Events call the coroutine, before a condition that it waits for has passed by; lines
\* and frames go on; the run loop switches the slave; the game writes the command.
FairSpec ==
    /\ Spec
    /\ SF_vars(SMPC_Update) /\ WF_vars(SMPC_ProcessSlaveOffOn)
    /\ WF_vars(Line) /\ WF_vars(NextPhase) /\ WF_vars(StartFrame)
    /\ SF_vars(Ask)

----------------------------------------------------------------------------
(* Properties.                                                             *)

\* Every variable has its type.
TypeOK ==
    /\ ph \in {"idle", "vb", "start", "set", "slave", "sysres", "status", "cont", "novb", "collect",
              "more", "abort"} \union {ClockPlaces[i] : i \in 1 .. 8}
    /\ pend \in Commands \union {"none"} /\ cmd \in Commands \union {"none"}
    /\ {sf, pvb, cont, brk, want, peri, next, npe, unread, slave, divisor, reset, vb, vsync,
        asking, cut} \subseteq BOOLEAN
    /\ blocks \in 0 .. MaxBlocks /\ slavePending \in {"none", "on", "off"}
    /\ vp \in 1 .. Len(VPhases)

\* While a command is pending or executed SF is set: a game that waits for SF never
\* writes a command over another one, however the last one ended.
SFTells == (pend # "none" \/ cmd # "none") => sf

\* SF is cleared in the end, whatever the game does or does not do during INTBACK.
CommandsEnd == sf ~> ~sf

\* A report that more follows stays in the output registers until the game asks to go
\* on, although the Continue bit keeps its last value.
BlockKept == ph = "collect" => ~unread

\* INTBACK is cut short only by its Break or by a blanking that began after the command
\* was written, never by one that it was late to notice.
CutByNewBlanking == [][ph' = "abort" /\ ph # "abort" => cut \/ brk]_vars
=============================================================================
