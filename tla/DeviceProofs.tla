---------------------------- MODULE DeviceProofs ----------------------------
(***************************************************************************)
(* Three devices that have a module each:                                  *)
(*   - the SMPC: SFTells, BlockKept and CutByNewBlanking of Smpc.tla,      *)
(*     however many reports an INTBACK has;                                *)
(*   - the EEPROM behind its port on an ST-V board: NeverEarly of          *)
(*     Eeprom.tla, for words and addresses of any size and any             *)
(*     programming time and length of a frame;                             *)
(*   - the frame change of VDP1: NoGhosts, LagsOnlyLate and SteadyDisplay  *)
(*     of Vdp1Frame.tla, for any number of lines and any command table.    *)
(***************************************************************************)
EXTENDS Smpc, Eeprom, Vdp1Frame, ModArith, Integers, TLAPS

----------------------------------------------------------------------------
(* The inductive invariant.                                                *)

\* SF is set from before a command is written until it is over, and the loop is at rest
\* when nothing is pending or executed.
Busy ==
    /\ asking \/ pend # "none" \/ cmd # "none" => sf
    /\ asking => pend = "none" /\ cmd = "none"
    /\ pend # "none" => cmd = "none"
    /\ cmd = "none" <=> ph \in {"idle", "vb"}
    /\ ph \in {"status", "cont", "novb", "collect", "more", "abort"} => cmd = "INTBACK"

\* The Continue bit differs from the value that is waited for next, unless the game
\* has changed it; it starts from 0.
Toggled ==
    /\ ph \in {"novb", "collect"} => cont # next /\ ~unread
    /\ ph \in {"cont", "more"} /\ unread => cont # next
    /\ pend = "INTBACK" \/ (ph \in {"start", "status"} /\ cmd = "INTBACK") => ~cont
    /\ ph \in {"idle", "vb", "start", "status"} => ~unread

\* A blanking that is not taken up while there is a command began after it was written.
Noticed ==
    /\ pvb /\ (pend # "none" \/ cmd # "none") => cut
    /\ ph = "vb" => ~pvb

\* What the prover has to know of types.
Bits == cont \in BOOLEAN /\ next \in BOOLEAN

IInv == Bits /\ Busy /\ Toggled /\ Noticed

----------------------------------------------------------------------------
(* It holds.                                                               *)

LEMMA InitIInv == Init => IInv
  BY DEF Init, IInv, Bits, Busy, Toggled, Noticed

LEMMA NextBits == IInv /\ [Next]_vars => Bits'
<1> SUFFICES ASSUME IInv, [Next]_vars PROVE Bits' OBVIOUS
<1>1. cont' = cont \/ cont' \in BOOLEAN
  <2>1. CASE SMPC_Update
    BY <2>1 DEF SMPC_Update, Run, Idle, VBDone, Start, SetDone, SlaveDone, ClockWait, AbortDone,
                StatusDone, ContOrBreak, NoVB, Collect, More, ireg
  <2>2. CASE UNCHANGED ireg BY <2>2 DEF ireg
  <2>3. CASE ContinueOrBreak BY <2>3 DEF ContinueOrBreak
  <2>4. ASSUME NEW c \in Commands, NEW status \in BOOLEAN, NEW data \in BOOLEAN,
               WriteCommand(c, status, data)
        PROVE  cont' \in BOOLEAN
    BY <2>4 DEF WriteCommand
  <2>5. CASE SMPC_Reset BY <2>5 DEF SMPC_Reset
  <2> QED
    BY <2>1, <2>2, <2>3, <2>4, <2>5
       DEF Next, SetSF, SMPC_ProcessSlaveOffOn, Line, NextPhase, StartFrame, vars
<1>2. next' = next \/ next' \in BOOLEAN
  <2>1. CASE SMPC_Update
    BY <2>1 DEF SMPC_Update, Run, Idle, VBDone, Start, Plain, SlaveCommand, SysRes, ClockChange,
                IntBack, SetDone, SlaveDone, ClockWait, AbortDone, StatusDone, ContOrBreak, NoVB,
                Collect, More, GoOn, report
  <2>2. CASE UNCHANGED next BY <2>2
  <2>3. CASE SMPC_Reset BY <2>3 DEF SMPC_Reset
  <2> QED
    BY <2>1, <2>2, <2>3
       DEF Next, SetSF, ContinueOrBreak, WriteCommand, SMPC_ProcessSlaveOffOn, Line, NextPhase,
           StartFrame, vars, report
<1> QED BY <1>1, <1>2 DEF IInv, Bits

\* The value that is waited for turns over when the game has answered.
LEMMA TurnsOver ==
    ASSUME Bits, cont = next, GoOn, cont' = cont
    PROVE  cont' # next' /\ unread' = unread
<1>1. next \in BOOLEAN BY DEF Bits
<1>2. CASE next BY <1>2 DEF GoOn
<1>3. CASE ~next BY <1>3 DEF GoOn
<1> QED BY <1>1, <1>2, <1>3

LEMMA RunKeeps == ASSUME IInv, Run, UNCHANGED asking PROVE Busy' /\ Toggled'
<1> USE DEF IInv
<1>0. cont \in BOOLEAN /\ next \in BOOLEAN BY DEF Bits
<1>1. CASE Idle BY <1>1 DEF Idle, TakeVB, Busy, Toggled, ireg, report
<1>2. CASE VBDone BY <1>2 DEF VBDone, Goto, Busy, Toggled, ireg, report
<1>3. CASE Start
  <2>1. CASE Plain BY <1>3, <2>1 DEF Start, Plain, Goto, Finish, Busy, Toggled, ireg
  <2>2. CASE SlaveCommand
    BY <1>3, <2>2 DEF Start, SlaveCommand, Goto, Finish, Busy, Toggled, ireg
  <2>3. CASE SysRes BY <1>3, <2>3 DEF Start, SysRes, Goto, Busy, Toggled, ireg, report
  <2>4. CASE ClockChange
    BY <1>3, <2>4 DEF Start, ClockChange, Goto, Busy, Toggled, ireg, report
  <2>5. CASE IntBack
    <3>0. cmd = "INTBACK" /\ ~cont /\ ~unread /\ UNCHANGED <<ireg, asking>>
      BY <1>3, <2>5 DEF Start, IntBack, Toggled
    <3>1. CASE Goto("status") /\ UNCHANGED unread
      BY <1>3, <3>0, <3>1 DEF Start, Goto, Busy, Toggled, ireg
    <3>2. CASE Goto("novb") /\ next' = TRUE /\ UNCHANGED unread
      <4>1. cont' # next' BY <3>0, <3>2, Zenon DEF ireg
      <4>2. ph' = "novb" /\ UNCHANGED <<pend, cmd, sf, unread>> BY <3>2 DEF Goto
      <4>3. Busy' BY <1>3, <3>0, <4>2 DEF Start, Busy
      <4>4. Toggled' BY <1>3, <3>0, <4>1, <4>2 DEF Start, Busy, Toggled, ireg
      <4> QED BY <4>3, <4>4
    <3>3. CASE Finish BY <1>3, <3>0, <3>3 DEF Start, Finish, Busy, Toggled, ireg
    <3> QED BY <2>5, <3>1, <3>2, <3>3 DEF IntBack
  <2> QED BY <1>3, <2>1, <2>2, <2>3, <2>4, <2>5 DEF Start
<1>4. CASE SetDone BY <1>4 DEF SetDone, Finish, Busy, Toggled, ireg
<1>5. CASE SlaveDone BY <1>5 DEF SlaveDone, Finish, Busy, Toggled, ireg
<1>6. CASE ClockWait
  BY <1>6 DEF ClockWait, ClockPlaces, Goto, Finish, Busy, Toggled, ireg
<1>7. CASE AbortDone BY <1>7 DEF AbortDone, Finish, Busy, Toggled, ireg
<1>8. CASE StatusDone BY <1>0, <1>8 DEF StatusDone, Goto, Finish, Busy, Toggled, ireg
<1>9. CASE ContOrBreak
  <2>1. CASE Abort /\ UNCHANGED report
    BY <1>9, <2>1 DEF ContOrBreak, Abort, Goto, Busy, Toggled, ireg, report
  <2>2. CASE cont = next /\ Goto("novb") /\ GoOn
    <3>1. cont' # next' /\ unread' = unread BY <1>9, <2>2, TurnsOver DEF ContOrBreak, ireg
    <3> QED BY <1>9, <2>2, <3>1 DEF ContOrBreak, Goto, Busy, Toggled, ireg
  <2> QED BY <1>9, <2>1, <2>2 DEF ContOrBreak
<1>10. CASE NoVB BY <1>10 DEF NoVB, Abort, Goto, Busy, Toggled, ireg, report
<1>11. CASE Collect
  BY <1>11 DEF Collect, Abort, Goto, Finish, Busy, Toggled, ireg, report
<1>12. CASE More
  <2>1. CASE Abort /\ UNCHANGED report
    BY <1>12, <2>1 DEF More, Abort, Goto, Busy, Toggled, ireg, report
  <2>2. CASE cont = next /\ Goto("collect") /\ GoOn
    <3>1. cont' # next' /\ unread' = unread BY <1>12, <2>2, TurnsOver DEF More, ireg
    <3> QED BY <1>12, <2>2, <3>1 DEF More, Goto, Busy, Toggled, ireg
  <2> QED BY <1>12, <2>1, <2>2 DEF More
<1> QED
  BY <1>1, <1>2, <1>3, <1>4, <1>5, <1>6, <1>7, <1>8, <1>9, <1>10, <1>11, <1>12 DEF Run

LEMMA GameKeeps ==
    ASSUME IInv, \/ SetSF \/ ContinueOrBreak
                 \/ \E c \in Commands, status, data \in BOOLEAN : WriteCommand(c, status, data)
    PROVE  Busy' /\ Toggled'
<1> USE DEF IInv
<1>0. cont \in BOOLEAN /\ next \in BOOLEAN BY DEF Bits
<1>1. CASE SetSF BY <1>1 DEF SetSF, Busy, Toggled, ireg, report
<1>2. CASE ContinueOrBreak BY <1>0, <1>2 DEF ContinueOrBreak, Busy, Toggled, loop
<1>3. ASSUME NEW c \in Commands, NEW status \in BOOLEAN, NEW data \in BOOLEAN,
             WriteCommand(c, status, data)
      PROVE  Busy' /\ Toggled'
  <2>1. ph \in {"idle", "vb"} BY <1>3 DEF WriteCommand, Busy
  <2> QED BY <1>3, <2>1 DEF WriteCommand, Busy, Toggled, Commands, report
<1> QED BY <1>1, <1>2, <1>3

LEMMA MachineKeeps ==
    ASSUME IInv, SMPC_ProcessSlaveOffOn \/ Line \/ NextPhase \/ StartFrame
    PROVE  Busy' /\ Toggled'
<1> USE DEF IInv
<1>1. CASE SMPC_ProcessSlaveOffOn
  BY <1>1 DEF SMPC_ProcessSlaveOffOn, Busy, Toggled, loop, ireg, report
<1>2. CASE Line BY <1>2 DEF Line, Busy, Toggled, loop, ireg, report
<1>3. CASE NextPhase BY <1>3 DEF NextPhase, Busy, Toggled, loop, ireg, report
<1>4. CASE StartFrame
  <2>1. CASE SMPC_Reset BY <2>1 DEF SMPC_Reset, Busy, Toggled
  <2>2. CASE UNCHANGED <<loop, ireg, report, asking>>
    BY <2>2 DEF Busy, Toggled, loop, ireg, report
  <2> QED BY <1>4, <2>1, <2>2 DEF StartFrame
<1> QED BY <1>1, <1>2, <1>3, <1>4

LEMMA NextNoticed == IInv /\ [Next]_vars => Noticed'
<1> SUFFICES ASSUME IInv, [Next]_vars PROVE Noticed' OBVIOUS
<1> USE DEF IInv
<1>1. CASE SMPC_Update
  <2>1. /\ pend' # "none" \/ cmd' # "none" => pend # "none" \/ cmd # "none"
        /\ pvb' => pvb
        /\ ph' = "vb" => ~pvb'
    <3>1. CASE Idle BY <3>1 DEF Idle, TakeVB
    <3>2. CASE Start
      BY <3>2 DEF Start, Plain, SlaveCommand, SysRes, ClockChange, IntBack, Goto, Finish, Busy
    <3>3. CASE ClockWait BY <3>3 DEF ClockWait, ClockPlaces, Goto, Finish
    <3>4. CASE VBDone \/ SetDone \/ SlaveDone \/ AbortDone \/ StatusDone
      BY <3>4 DEF VBDone, SetDone, SlaveDone, AbortDone, StatusDone, Goto, Finish
    <3>5. CASE ContOrBreak \/ NoVB \/ Collect \/ More
      BY <3>5 DEF ContOrBreak, NoVB, Collect, More, Abort, Goto, Finish
    <3> QED BY <1>1, <3>1, <3>2, <3>3, <3>4, <3>5 DEF SMPC_Update, Run
  <2>2. UNCHANGED cut BY <1>1 DEF SMPC_Update
  <2> QED BY <2>1, <2>2 DEF Noticed
<1>2. CASE SetSF BY <1>2 DEF SetSF, Noticed
<1>3. CASE ContinueOrBreak BY <1>3 DEF ContinueOrBreak, Noticed, loop
<1>4. ASSUME NEW c \in Commands, NEW status \in BOOLEAN, NEW data \in BOOLEAN,
             WriteCommand(c, status, data)
      PROVE  Noticed'
  <2>1. ~pvb BY <1>4 DEF WriteCommand, Stopped, Busy, Noticed
  <2> QED BY <1>4, <2>1 DEF WriteCommand, Noticed
<1>5. CASE SMPC_ProcessSlaveOffOn BY <1>5 DEF SMPC_ProcessSlaveOffOn, Noticed, loop
<1>6. ASSUME NEW p, SetVBVS(p), UNCHANGED loop
      PROVE  Noticed'
  BY <1>6 DEF SetVBVS, Noticed, loop
<1>7. CASE Line BY <1>6, <1>7 DEF Line
<1>8. CASE NextPhase BY <1>6, <1>8 DEF NextPhase
<1>9. CASE StartFrame BY <1>6, <1>9 DEF StartFrame, SMPC_Reset, Noticed
<1>10. CASE UNCHANGED vars BY <1>10 DEF vars, loop, Noticed
<1> QED BY <1>1, <1>2, <1>3, <1>4, <1>5, <1>7, <1>8, <1>9, <1>10 DEF Next

LEMMA NextIInv == IInv /\ [Next]_vars => IInv'
<1> SUFFICES ASSUME IInv, [Next]_vars PROVE Busy' /\ Toggled'
  BY NextBits, NextNoticed DEF IInv
<1>1. CASE SMPC_Update BY <1>1, RunKeeps DEF SMPC_Update
<1>2. CASE SetSF \/ ContinueOrBreak
           \/ \E c \in Commands, status, data \in BOOLEAN : WriteCommand(c, status, data)
  BY <1>2, GameKeeps
<1>3. CASE SMPC_ProcessSlaveOffOn \/ Line \/ NextPhase \/ StartFrame BY <1>3, MachineKeeps
<1>4. CASE UNCHANGED vars BY <1>4 DEF vars, loop, ireg, report, IInv, Busy, Toggled
<1> QED BY <1>1, <1>2, <1>3, <1>4 DEF Next

\* SF, the place of the coroutine and the Continue bit agree at all times.
THEOREM SmpcInvariance == Spec => []IInv
  BY InitIInv, NextIInv, PTL DEF Spec

----------------------------------------------------------------------------
(* The theorems.                                                           *)

\* A game that waits for SF never writes a command over another one (SMPC_Update's
\* ways out clear SF and ExecutingCommand together).
THEOREM SFTellsHolds == Spec => []SFTells
<1>1. IInv => SFTells BY DEF IInv, Busy, SFTells
<1> QED BY <1>1, SmpcInvariance, PTL

\* However many reports there are, none is overwritten before the game has asked for
\* the next one (JR_WAIT on the Continue bit, and NextContBit).
THEOREM BlocksKept == Spec => []BlockKept
<1>1. IInv => BlockKept BY DEF IInv, Toggled, BlockKept
<1> QED BY <1>1, SmpcInvariance, PTL

\* INTBACK is cut short only by its Break or by a blanking that began after the command
\* was written (PendingVB, which SMPC_Update takes up before a new command).
THEOREM CutOnlyByNew == Spec => CutByNewBlanking
<1>1. IInv /\ [Next]_vars => [ph' = "abort" /\ ph # "abort" => cut \/ brk]_vars
  <2> SUFFICES ASSUME IInv, Next, ph' = "abort", ph # "abort" PROVE cut \/ brk
    OBVIOUS
  <2>1. CASE ContOrBreak \/ NoVB \/ Collect \/ More
    <3>1. cmd = "INTBACK" BY <2>1 DEF IInv, Busy, ContOrBreak, NoVB, Collect, More
    <3>2. pvb \/ brk
      BY <2>1 DEF ContOrBreak, NoVB, Collect, More, Aborted, Goto, Finish
    <3> QED BY <3>1, <3>2 DEF IInv, Noticed
  <2>2. CASE Start
    BY <2>2 DEF Start, Plain, SlaveCommand, SysRes, ClockChange, IntBack, Goto, Finish
  <2>3. CASE ClockWait BY <2>3 DEF ClockWait, ClockPlaces, Goto, Finish
  <2>4. CASE Idle \/ VBDone \/ SetDone \/ SlaveDone \/ AbortDone \/ StatusDone
    BY <2>4 DEF Idle, TakeVB, VBDone, SetDone, SlaveDone, AbortDone, StatusDone, Goto, Finish
  <2>5. CASE SetSF \/ ContinueOrBreak \/ SMPC_ProcessSlaveOffOn \/ Line \/ NextPhase
    BY <2>5 DEF SetSF, ContinueOrBreak, SMPC_ProcessSlaveOffOn, Line, NextPhase, loop
  <2>6. CASE StartFrame BY <2>6 DEF StartFrame, SMPC_Reset, loop
  <2>7. ASSUME NEW c \in Commands, NEW status \in BOOLEAN, NEW data \in BOOLEAN,
               WriteCommand(c, status, data)
        PROVE  FALSE
    BY <2>7 DEF WriteCommand
  <2> QED BY <2>1, <2>2, <2>3, <2>4, <2>5, <2>6, <2>7 DEF Next, SMPC_Update, Run
<1> QED BY <1>1, SmpcInvariance, PTL DEF Spec, CutByNewBlanking

----------------------------------------------------------------------------
(* The types.                                                              *)

Places == {"idle", "vb", "start", "set", "slave", "sysres", "status", "cont", "novb", "collect",
           "more", "abort", "ck1", "ck2", "ck3", "ck4", "ck5", "ck6", "ck7", "ck8"}

\* The variables' types, in groups that no step mixes.
LoopTypes    == ph \in Places /\ pend \in Commands \union {"none"} /\ cmd \in Commands \union {"none"}
FlagTypes    == sf \in BOOLEAN /\ pvb \in BOOLEAN /\ asking \in BOOLEAN /\ cut \in BOOLEAN
InputTypes   == cont \in BOOLEAN /\ brk \in BOOLEAN /\ want \in BOOLEAN /\ peri \in BOOLEAN
ReportTypes  == next \in BOOLEAN /\ npe \in BOOLEAN /\ unread \in BOOLEAN /\ peri \in BOOLEAN
CountTypes   == blocks \in 0 .. MaxBlocks
RequestTypes == /\ slave \in BOOLEAN /\ divisor \in BOOLEAN /\ reset \in BOOLEAN
                /\ slavePending \in {"none", "on", "off"}
BeamTypes    == vb \in BOOLEAN /\ vsync \in BOOLEAN /\ vp \in 1 .. 5

LEMMA LoopTyped == LoopTypes /\ [Next]_vars => LoopTypes'
<1> SUFFICES ASSUME LoopTypes, [Next]_vars PROVE LoopTypes' OBVIOUS
<1> USE DEF LoopTypes, Places
<1>1. CASE SMPC_Update
  <2>1. CASE Start
    BY <1>1, <2>1
       DEF SMPC_Update, Start, Plain, SlaveCommand, SysRes, ClockChange, IntBack, Goto, Finish,
           loop, ireg, report, requests, beam
  <2>2. CASE Idle \/ VBDone \/ SetDone \/ SlaveDone \/ ClockWait \/ AbortDone \/ StatusDone
    BY <1>1, <2>2
       DEF SMPC_Update, Idle, TakeVB, VBDone, SetDone, SlaveDone, ClockWait, ClockPlaces,
           AbortDone, StatusDone, Goto, Finish, loop, ireg, report, requests, beam
  <2>3. CASE ContOrBreak \/ NoVB \/ Collect \/ More
    BY <1>1, <2>3
       DEF SMPC_Update, ContOrBreak, NoVB, Collect, More, Abort, GoOn, Goto, Finish,
           loop, ireg, report, requests, beam
  <2> QED BY <1>1, <2>1, <2>2, <2>3 DEF SMPC_Update, Run
<1>2. CASE SetSF \/ ContinueOrBreak BY <1>2 DEF SetSF, ContinueOrBreak, loop, ireg, report, requests, beam
<1>3. ASSUME NEW c \in Commands, NEW status \in BOOLEAN, NEW data \in BOOLEAN,
             WriteCommand(c, status, data)
      PROVE  LoopTypes'
  BY <1>3 DEF WriteCommand, loop, ireg, report, requests, beam
<1>4. CASE SMPC_ProcessSlaveOffOn BY <1>4 DEF SMPC_ProcessSlaveOffOn, loop, ireg, report, requests, beam
<1>5. CASE Line \/ NextPhase BY <1>5 DEF Line, NextPhase, SetVBVS, Blank, loop, ireg, report, requests, beam
<1>6. CASE StartFrame
  BY <1>6 DEF StartFrame, SMPC_Reset, SetVBVS, Blank, loop, ireg, report, requests, beam
<1>7. CASE UNCHANGED vars BY <1>7 DEF vars, loop, ireg, report, requests, beam
<1> QED BY <1>1, <1>2, <1>3, <1>4, <1>5, <1>6, <1>7 DEF Next

LEMMA FlagsTyped == FlagTypes /\ [Next]_vars => FlagTypes'
<1> SUFFICES ASSUME FlagTypes, [Next]_vars PROVE FlagTypes' OBVIOUS
<1> USE DEF FlagTypes
<1>1. CASE SMPC_Update
  <2>1. CASE Start
    BY <1>1, <2>1
       DEF SMPC_Update, Start, Plain, SlaveCommand, SysRes, ClockChange, IntBack, Goto, Finish,
           loop, ireg, report, requests, beam
  <2>2. CASE Idle \/ VBDone \/ SetDone \/ SlaveDone \/ ClockWait \/ AbortDone \/ StatusDone
    BY <1>1, <2>2
       DEF SMPC_Update, Idle, TakeVB, VBDone, SetDone, SlaveDone, ClockWait, ClockPlaces,
           AbortDone, StatusDone, Goto, Finish, loop, ireg, report, requests, beam
  <2>3. CASE ContOrBreak \/ NoVB \/ Collect \/ More
    BY <1>1, <2>3
       DEF SMPC_Update, ContOrBreak, NoVB, Collect, More, Abort, GoOn, Goto, Finish,
           loop, ireg, report, requests, beam
  <2> QED BY <1>1, <2>1, <2>2, <2>3 DEF SMPC_Update, Run
<1>2. CASE SetSF \/ ContinueOrBreak BY <1>2 DEF SetSF, ContinueOrBreak, loop, ireg, report, requests, beam
<1>3. ASSUME NEW c \in Commands, NEW status \in BOOLEAN, NEW data \in BOOLEAN,
             WriteCommand(c, status, data)
      PROVE  FlagTypes'
  BY <1>3 DEF WriteCommand, loop, ireg, report, requests, beam
<1>4. CASE SMPC_ProcessSlaveOffOn BY <1>4 DEF SMPC_ProcessSlaveOffOn, loop, ireg, report, requests, beam
<1>5. CASE Line \/ NextPhase BY <1>5 DEF Line, NextPhase, SetVBVS, Blank, loop, ireg, report, requests, beam
<1>6. CASE StartFrame
  BY <1>6 DEF StartFrame, SMPC_Reset, SetVBVS, Blank, loop, ireg, report, requests, beam
<1>7. CASE UNCHANGED vars BY <1>7 DEF vars, loop, ireg, report, requests, beam
<1> QED BY <1>1, <1>2, <1>3, <1>4, <1>5, <1>6, <1>7 DEF Next

LEMMA InputsTyped == InputTypes /\ [Next]_vars => InputTypes'
<1> SUFFICES ASSUME InputTypes, [Next]_vars PROVE InputTypes' OBVIOUS
<1> USE DEF InputTypes
<1>1. CASE SMPC_Update
  <2>1. CASE Start
    BY <1>1, <2>1
       DEF SMPC_Update, Start, Plain, SlaveCommand, SysRes, ClockChange, IntBack, Goto, Finish,
           loop, ireg, report, requests, beam
  <2>2. CASE Idle \/ VBDone \/ SetDone \/ SlaveDone \/ ClockWait \/ AbortDone \/ StatusDone
    BY <1>1, <2>2
       DEF SMPC_Update, Idle, TakeVB, VBDone, SetDone, SlaveDone, ClockWait, ClockPlaces,
           AbortDone, StatusDone, Goto, Finish, loop, ireg, report, requests, beam
  <2>3. CASE ContOrBreak \/ NoVB \/ Collect \/ More
    BY <1>1, <2>3
       DEF SMPC_Update, ContOrBreak, NoVB, Collect, More, Abort, GoOn, Goto, Finish,
           loop, ireg, report, requests, beam
  <2> QED BY <1>1, <2>1, <2>2, <2>3 DEF SMPC_Update, Run
<1>2. CASE SetSF \/ ContinueOrBreak BY <1>2 DEF SetSF, ContinueOrBreak, loop, ireg, report, requests, beam
<1>3. ASSUME NEW c \in Commands, NEW status \in BOOLEAN, NEW data \in BOOLEAN,
             WriteCommand(c, status, data)
      PROVE  InputTypes'
  BY <1>3 DEF WriteCommand, loop, ireg, report, requests, beam
<1>4. CASE SMPC_ProcessSlaveOffOn BY <1>4 DEF SMPC_ProcessSlaveOffOn, loop, ireg, report, requests, beam
<1>5. CASE Line \/ NextPhase BY <1>5 DEF Line, NextPhase, SetVBVS, Blank, loop, ireg, report, requests, beam
<1>6. CASE StartFrame
  BY <1>6 DEF StartFrame, SMPC_Reset, SetVBVS, Blank, loop, ireg, report, requests, beam
<1>7. CASE UNCHANGED vars BY <1>7 DEF vars, loop, ireg, report, requests, beam
<1> QED BY <1>1, <1>2, <1>3, <1>4, <1>5, <1>6, <1>7 DEF Next

LEMMA ReportTyped == ReportTypes /\ [Next]_vars => ReportTypes'
<1> SUFFICES ASSUME ReportTypes, [Next]_vars PROVE ReportTypes' OBVIOUS
<1> USE DEF ReportTypes
<1>1. CASE SMPC_Update
  <2>1. CASE Start
    BY <1>1, <2>1
       DEF SMPC_Update, Start, Plain, SlaveCommand, SysRes, ClockChange, IntBack, Goto, Finish,
           loop, ireg, report, requests, beam
  <2>2. CASE Idle \/ VBDone \/ SetDone \/ SlaveDone \/ ClockWait \/ AbortDone \/ StatusDone
    BY <1>1, <2>2
       DEF SMPC_Update, Idle, TakeVB, VBDone, SetDone, SlaveDone, ClockWait, ClockPlaces,
           AbortDone, StatusDone, Goto, Finish, loop, ireg, report, requests, beam
  <2>3. CASE ContOrBreak \/ NoVB \/ Collect \/ More
    BY <1>1, <2>3
       DEF SMPC_Update, ContOrBreak, NoVB, Collect, More, Abort, GoOn, Goto, Finish,
           loop, ireg, report, requests, beam
  <2> QED BY <1>1, <2>1, <2>2, <2>3 DEF SMPC_Update, Run
<1>2. CASE SetSF \/ ContinueOrBreak BY <1>2 DEF SetSF, ContinueOrBreak, loop, ireg, report, requests, beam
<1>3. ASSUME NEW c \in Commands, NEW status \in BOOLEAN, NEW data \in BOOLEAN,
             WriteCommand(c, status, data)
      PROVE  ReportTypes'
  BY <1>3 DEF WriteCommand, loop, ireg, report, requests, beam
<1>4. CASE SMPC_ProcessSlaveOffOn BY <1>4 DEF SMPC_ProcessSlaveOffOn, loop, ireg, report, requests, beam
<1>5. CASE Line \/ NextPhase BY <1>5 DEF Line, NextPhase, SetVBVS, Blank, loop, ireg, report, requests, beam
<1>6. CASE StartFrame
  BY <1>6 DEF StartFrame, SMPC_Reset, SetVBVS, Blank, loop, ireg, report, requests, beam
<1>7. CASE UNCHANGED vars BY <1>7 DEF vars, loop, ireg, report, requests, beam
<1> QED BY <1>1, <1>2, <1>3, <1>4, <1>5, <1>6, <1>7 DEF Next

LEMMA CountTyped == CountTypes /\ [Next]_vars => CountTypes'
<1> SUFFICES ASSUME CountTypes, [Next]_vars PROVE CountTypes' OBVIOUS
<1> USE DEF CountTypes
<1>1. CASE SMPC_Update
  <2>1. CASE Start
    BY <1>1, <2>1, MaxBlocksAssumption
       DEF SMPC_Update, Start, Plain, SlaveCommand, SysRes, ClockChange, IntBack, Goto, Finish,
           loop, ireg, report, requests, beam
  <2>2. CASE Idle \/ VBDone \/ SetDone \/ SlaveDone \/ ClockWait \/ AbortDone \/ StatusDone
    BY <1>1, <2>2, MaxBlocksAssumption
       DEF SMPC_Update, Idle, TakeVB, VBDone, SetDone, SlaveDone, ClockWait, ClockPlaces,
           AbortDone, StatusDone, Goto, Finish, loop, ireg, report, requests, beam
  <2>3. CASE ContOrBreak \/ NoVB \/ Collect \/ More
    BY <1>1, <2>3, MaxBlocksAssumption
       DEF SMPC_Update, ContOrBreak, NoVB, Collect, More, Abort, GoOn, Goto, Finish,
           loop, ireg, report, requests, beam
  <2> QED BY <1>1, <2>1, <2>2, <2>3 DEF SMPC_Update, Run
<1>2. CASE SetSF \/ ContinueOrBreak BY <1>2 DEF SetSF, ContinueOrBreak, loop, ireg, report, requests, beam
<1>3. ASSUME NEW c \in Commands, NEW status \in BOOLEAN, NEW data \in BOOLEAN,
             WriteCommand(c, status, data)
      PROVE  CountTypes'
  BY <1>3 DEF WriteCommand, loop, ireg, report, requests, beam
<1>4. CASE SMPC_ProcessSlaveOffOn BY <1>4 DEF SMPC_ProcessSlaveOffOn, loop, ireg, report, requests, beam
<1>5. CASE Line \/ NextPhase BY <1>5 DEF Line, NextPhase, SetVBVS, Blank, loop, ireg, report, requests, beam
<1>6. CASE StartFrame
  BY <1>6, MaxBlocksAssumption DEF StartFrame, SMPC_Reset, SetVBVS, Blank, loop, ireg, report, requests, beam
<1>7. CASE UNCHANGED vars BY <1>7 DEF vars, loop, ireg, report, requests, beam
<1> QED BY <1>1, <1>2, <1>3, <1>4, <1>5, <1>6, <1>7 DEF Next

LEMMA RequestsTyped == RequestTypes /\ [Next]_vars => RequestTypes'
<1> SUFFICES ASSUME RequestTypes, [Next]_vars PROVE RequestTypes' OBVIOUS
<1> USE DEF RequestTypes
<1>1. CASE SMPC_Update
  <2>1. CASE Start
    BY <1>1, <2>1
       DEF SMPC_Update, Start, Plain, SlaveCommand, SysRes, ClockChange, IntBack, Goto, Finish,
           loop, ireg, report, requests, beam
  <2>2. CASE Idle \/ VBDone \/ SetDone \/ SlaveDone \/ ClockWait \/ AbortDone \/ StatusDone
    BY <1>1, <2>2
       DEF SMPC_Update, Idle, TakeVB, VBDone, SetDone, SlaveDone, ClockWait, ClockPlaces,
           AbortDone, StatusDone, Goto, Finish, loop, ireg, report, requests, beam
  <2>3. CASE ContOrBreak \/ NoVB \/ Collect \/ More
    BY <1>1, <2>3
       DEF SMPC_Update, ContOrBreak, NoVB, Collect, More, Abort, GoOn, Goto, Finish,
           loop, ireg, report, requests, beam
  <2> QED BY <1>1, <2>1, <2>2, <2>3 DEF SMPC_Update, Run
<1>2. CASE SetSF \/ ContinueOrBreak BY <1>2 DEF SetSF, ContinueOrBreak, loop, ireg, report, requests, beam
<1>3. ASSUME NEW c \in Commands, NEW status \in BOOLEAN, NEW data \in BOOLEAN,
             WriteCommand(c, status, data)
      PROVE  RequestTypes'
  BY <1>3 DEF WriteCommand, loop, ireg, report, requests, beam
<1>4. CASE SMPC_ProcessSlaveOffOn BY <1>4 DEF SMPC_ProcessSlaveOffOn, loop, ireg, report, requests, beam
<1>5. CASE Line \/ NextPhase BY <1>5 DEF Line, NextPhase, SetVBVS, Blank, loop, ireg, report, requests, beam
<1>6. CASE StartFrame
  BY <1>6 DEF StartFrame, SMPC_Reset, SetVBVS, Blank, loop, ireg, report, requests, beam
<1>7. CASE UNCHANGED vars BY <1>7 DEF vars, loop, ireg, report, requests, beam
<1> QED BY <1>1, <1>2, <1>3, <1>4, <1>5, <1>6, <1>7 DEF Next

LEMMA BeamTold ==
    ASSUME NEW p, SetVBVS(p)
    PROVE  vb' \in BOOLEAN /\ vsync' \in BOOLEAN
  BY Zenon DEF SetVBVS, Blank

LEMMA BeamTyped == BeamTypes /\ [Next]_vars => BeamTypes'
<1> SUFFICES ASSUME BeamTypes, [Next]_vars PROVE BeamTypes' OBVIOUS
<1> USE DEF BeamTypes
<1>1. CASE SMPC_Update BY <1>1 DEF SMPC_Update
<1>2. CASE SetSF \/ ContinueOrBreak \/ SMPC_ProcessSlaveOffOn \/ UNCHANGED vars
  BY <1>2 DEF SetSF, ContinueOrBreak, SMPC_ProcessSlaveOffOn, vars, beam
<1>3. ASSUME NEW c \in Commands, NEW status \in BOOLEAN, NEW data \in BOOLEAN,
             WriteCommand(c, status, data)
      PROVE  BeamTypes'
  BY <1>3 DEF WriteCommand, beam
<1>4. CASE Line BY <1>4, BeamTold DEF Line
<1>5. CASE NextPhase
  <2>1. vp' \in 1 .. 5 BY <1>5 DEF NextPhase
  <2> QED BY <1>5, <2>1, BeamTold DEF NextPhase
<1>6. CASE StartFrame
  <2>1. CASE SMPC_Reset BY <2>1 DEF SMPC_Reset
  <2>2. CASE vp' = 5 /\ SetVBVS(5) BY <2>2, BeamTold
  <2> QED BY <1>6, <2>1, <2>2 DEF StartFrame
<1> QED BY <1>1, <1>2, <1>3, <1>4, <1>5, <1>6 DEF Next

LEMMA TypesAre ==
    ASSUME LoopTypes, FlagTypes, InputTypes, ReportTypes, CountTypes, RequestTypes, BeamTypes
    PROVE  TypeOK
<1>1. {"ck1", "ck2", "ck3", "ck4", "ck5", "ck6", "ck7", "ck8"} \subseteq {ClockPlaces[i] : i \in 1 .. 8}
  BY DEF ClockPlaces
<1>2. ph \in {"idle", "vb", "start", "set", "slave", "sysres", "status", "cont", "novb", "collect",
              "more", "abort"} \union {ClockPlaces[i] : i \in 1 .. 8}
  BY <1>1 DEF LoopTypes, Places
<1>3. {sf, pvb, cont, brk, want, peri, next, npe, unread, slave, divisor, reset, vb, vsync,
       asking, cut} \subseteq BOOLEAN
  BY Zenon DEF FlagTypes, InputTypes, ReportTypes, RequestTypes, BeamTypes
<1>4. Len(VPhases) = 5 BY DEF VPhases
<1> QED BY <1>2, <1>3, <1>4 DEF LoopTypes, CountTypes, RequestTypes, BeamTypes, TypeOK

LEMMA InitTypes ==
    ASSUME Init
    PROVE  /\ LoopTypes /\ FlagTypes /\ InputTypes /\ ReportTypes
           /\ CountTypes /\ RequestTypes /\ BeamTypes
<1>1. LoopTypes /\ FlagTypes BY DEF Init, LoopTypes, Places, FlagTypes
<1>2. InputTypes /\ ReportTypes BY DEF Init, InputTypes, ReportTypes
<1>3. RequestTypes BY DEF Init, RequestTypes
<1>4. vb \in BOOLEAN /\ vsync \in BOOLEAN BY DEF Init
<1>5. BeamTypes BY <1>4 DEF Init, BeamTypes
<1>6. CountTypes BY MaxBlocksAssumption DEF Init, CountTypes
<1> QED BY <1>1, <1>2, <1>3, <1>5, <1>6

\* Every variable of the SMPC has its type, for any number of reports.
THEOREM SmpcTypes == Spec => []TypeOK
  BY InitTypes, LoopTyped, FlagsTyped, InputsTyped, ReportTyped, CountTyped, RequestsTyped,
     BeamTyped, TypesAre, PTL DEF Spec

----------------------------------------------------------------------------
(* The EEPROM behind the SMPC's port of an ST-V board.                     *)

Times ==
    /\ write_finish_counter \in Int /\ ts \in Int /\ lastts \in Int /\ lastts <= ts
    /\ dead \in Int /\ dead <= WriteTime

\* The chip counts down what is left of the time that has not passed, or more: clocks
\* between its last access and the end of a frame are not counted.
Counted == phase = "writing" => dead = WriteTime \/ WriteTime - dead <= Left

\* What the prover has to know of the constants (SizeAssumption of Eeprom.tla).
ClocksAssumed == WriteTime \in Nat \ {0} /\ FrameTime \in Nat \ {0}

LEMMA InitCounted == ClocksAssumed /\ InitEeprom => Times /\ Counted
  BY DEF ClocksAssumed, InitEeprom, Times, Counted

\* No rising edge of the clock makes the chip busy.
LEMMA EdgeLeaves ==
    ASSUME NEW di \in {0, 1}, Now # "writing", Edge(Now, di)
    PROVE  phase' # "writing"
<1>1. CASE Now = "idle" BY <1>1 DEF Edge, Idling
<1>2. CASE Now # "idle"
  <2>1. phase # "writing" BY <1>2 DEF Now
  <2> QED
    BY <1>2, <2>1 DEF Edge, WaitStart, Opcode, Addr, Decode, ReadData, WriteData,
                      NextWord
<1> QED BY <1>1, <1>2

LEMMA BusKeeps ==
    ASSUME ClocksAssumed, Times, Counted, NEW cs \in BOOLEAN, NEW sk \in BOOLEAN, NEW di \in {0, 1},
           UpdateBus(cs, sk, di)
    PROVE  Times' /\ Counted'
<1> USE DEF ClocksAssumed
<1>0. lastts' = ts /\ ts' = ts BY DEF UpdateBus
<1>1. CASE Commit /\ ~cs
  <2>1. write_finish_counter' = WriteTime /\ dead' = 0 BY <1>1 DEF Commit
  <2> QED BY <1>0, <2>1 DEF Times, Counted, Left, Elapsed
<1>2. CASE cs \/ ~Commit
  <2>0. write_finish_counter' = Left /\ UNCHANGED dead
    BY <1>2 DEF UpdateBus, Selected, Deselected
  <2>1. phase' = "writing" => phase = "writing"
    <3>1. CASE cs
      BY <3>1, EdgeLeaves DEF UpdateBus, Selected, Now
    <3>2. CASE ~cs
      BY <1>2, <3>2 DEF UpdateBus, Deselected, Now
    <3> QED BY <3>1, <3>2
  <2>2. Left \in Int BY DEF Times, Left, Elapsed
  <2>3. Left' = Left BY <1>0, <2>0 DEF Times, Left, Elapsed
  <2> QED BY <1>0, <2>0, <2>1, <2>2, <2>3 DEF Times, Counted
<1> QED BY <1>1, <1>2

LEMMA NextCounted == ClocksAssumed /\ Times /\ Counted /\ [NextEeprom]_eepromVars => Times' /\ Counted'
<1> SUFFICES ASSUME ClocksAssumed, Times, Counted, [NextEeprom]_eepromVars PROVE Times' /\ Counted'
  OBVIOUS
<1> USE DEF ClocksAssumed
<1>1. CASE Tick BY <1>1 DEF Tick, regs, Times, Counted, Left, Elapsed
<1>2. CASE EndFrame
  BY <1>2 DEF EndFrame, ResetTS, regs, Times, Counted, Left, Elapsed
<1>3. CASE Power BY <1>3 DEF Power, timeVars, Times, Counted
<1>4. ASSUME NEW cs \in BOOLEAN, NEW sk \in BOOLEAN, NEW di \in {0, 1}, UpdateBus(cs, sk, di)
      PROVE  Times' /\ Counted'
  BY <1>4, BusKeeps
<1>5. CASE UNCHANGED eepromVars
  BY <1>5 DEF eepromVars, regs, timeVars, Times, Counted, Left, Elapsed
<1> QED BY <1>1, <1>2, <1>3, <1>4, <1>5 DEF NextEeprom

\* The chip is never ready before the time that programming takes has passed, however
\* that time is spread over frames (UpdateBus, ResetTS).
THEOREM NeverEarlyHolds == SpecEeprom => []NeverEarly
<1>1. ClocksAssumed BY SizeAssumption DEF ClocksAssumed
<1>2. InitEeprom => Times /\ Counted BY <1>1, InitCounted
<1>3. Times /\ Counted /\ [NextEeprom]_eepromVars => (Times /\ Counted)' BY <1>1, NextCounted
<1>4. Times /\ Counted => NeverEarly
  BY <1>1 DEF ClocksAssumed, Times, Counted, NeverEarly, Over, Left, Elapsed
<1> QED BY <1>2, <1>3, <1>4, PTL DEF SpecEeprom

----------------------------------------------------------------------------
(* The inductive invariant of the frame change.                            *)

\* The variables of VDP1.
VDP1 == [hb : BOOLEAN, vb : BOOLEAN, vbcdpending : BOOLEAN,
         FCM : BOOLEAN, FCT : BOOLEAN, FBManualPending : BOOLEAN,
         FBCRLatch : {None} \cup [FCM : BOOLEAN, FCT : BOOLEAN],
         TVMR : Tvmrs, PTMR : BOOLEAN,
         FBVBErasePending : BOOLEAN, FBVBEraseActive : BOOLEAN,
         EraseYCounter : 0 .. Rows, y_end : 0 .. Rows - 1,
         draw : SUBSET Row, show : SUBSET Row, DrawingActive : BOOLEAN,
         behind : SUBSET CmdTable, fresh : SUBSET CmdTable, thisLine : BOOLEAN, any : BOOLEAN,
         ready : BOOLEAN, cut : BOOLEAN, erasing : BOOLEAN, ghost : BOOLEAN,
         lost : SUBSET CmdTable, late : SUBSET CmdTable, old : SUBSET CmdTable, aged : BOOLEAN]

\* VDP1 hears of every phase, and of every blanking but one that a reset ends.
Heard ==
    /\ VCounter \in 0 .. Lines - 1
    /\ HPhase \in {"active", "border", "hsync"}
    /\ Out_VB \in BOOLEAN /\ (Out_VB <=> VCounter \in Rows .. Lines - 2)
    /\ v.hb <=> HPhase # "active"
    /\ ~v.cut => v.vb = Out_VB

\* A change is pending from the line it is heard of to that line's border; instant
\* games change at once as the blanking ends.
Changing ==
    ~v.cut => /\ HPhase = "border" => ~v.vbcdpending
              /\ v.vbcdpending /\ ~Out_VB => game # "instant" /\ VCounter = Lines - 1
              /\ VCounter = Lines - 1 /\ HPhase # "border" /\ game # "instant" => v.vbcdpending
              /\ v.erasing /\ VCounter = Rows /\ HPhase # "border" => v.vbcdpending

\* Lines of the field that were displayed, and whether its blanking was entered.
Displayed ==
    IF VCounter >= Rows
    THEN IF VCounter = Lines - 1 /\ HPhase = "border" THEN 0 ELSE Rows
    ELSE IF HPhase = "hsync" THEN VCounter ELSE VCounter + 1
Entered == \/ VCounter = Rows /\ HPhase = "border"
           \/ VCounter \in Rows + 1 .. Lines - 2
           \/ VCounter = Lines - 1 /\ HPhase # "border"

\* The erase keeps up with the beam, and never overtakes it; or the blanking erases.
Erasing ==
    /\ v.erasing => ~v.cut
    /\ ~v.cut /\ game # "instant" => v.EraseYCounter > v.y_end \/ v.EraseYCounter <= Displayed
    /\ v.erasing /\ game # "instant" =>
         /\ v.y_end = Rows - 1
         /\ \/ v.FBVBErasePending /\ ~Entered
            \/ v.FBVBEraseActive
            \/ v.EraseYCounter = Displayed /\ \A r \in v.show : r >= v.EraseYCounter

\* The copy of the command table.
Lags(w) == /\ w.behind \subseteq w.fresh \cup w.late \cup w.lost
           /\ w.ready => w.behind \subseteq w.late \cup w.lost

FInv == v \in VDP1 /\ Heard /\ Changing /\ Erasing /\ Lags(v) /\ ~v.ghost

\* What the proofs need of the constants.
FieldAssumed == Rows \in Nat \ {0} /\ Lines \in Nat /\ Lines >= Rows + 2

----------------------------------------------------------------------------
(* The parts of SetHBVB.                                                   *)

\* What the erase, the exchange and the table work on.
Picture(w) == <<w.EraseYCounter, w.y_end, w.show, w.draw, w.FBVBErasePending, w.FBVBEraseActive>>
History(w) == <<w.cut, w.erasing, w.ghost>>
Table(w) == <<w.behind, w.fresh, w.late, w.lost, w.ready>>
Signals(w) == <<w.hb, w.vb, w.vbcdpending>>

LEMMA LatchTakenIs ==
    ASSUME NEW w \in VDP1
    PROVE  /\ LatchTaken(w) \in VDP1
           /\ Picture(LatchTaken(w)) = Picture(w) /\ History(LatchTaken(w)) = History(w)
           /\ Table(LatchTaken(w)) = Table(w) /\ Signals(LatchTaken(w)) = Signals(w)
  <1>1. CASE w.FBCRLatch = None
    BY <1>1 DEF LatchTaken
  <1>2. CASE w.FBCRLatch # None
    <2>1. w.FBCRLatch \in [FCM : BOOLEAN, FCT : BOOLEAN]
      BY <1>2 DEF VDP1
    <2>2. w.FBCRLatch.FCM \in BOOLEAN /\ w.FBCRLatch.FCT \in BOOLEAN
      BY <2>1
    <2> DEFINE a == w.FBCRLatch.FCM
               b == w.FBCRLatch.FCT
               m == w.FBManualPending \/ a
               x == [w EXCEPT !.FCM = a, !.FCT = b, !.FBManualPending = m, !.FBCRLatch = None]
    <2>3. LatchTaken(w) = x
      BY <1>2 DEF LatchTaken
    <2>3a. a \in BOOLEAN /\ b \in BOOLEAN /\ m \in BOOLEAN
      BY <2>2 DEF VDP1
    <2> HIDE DEF a, b, m
    <2>4. x \in VDP1
      BY <2>3a DEF VDP1
    <2> QED
      BY <2>3, <2>4 DEF Picture, History, Table, Signals, VDP1
  <1> QED
    BY <1>1, <1>2

LEMMA EnterBlankingIs ==
    ASSUME NEW w \in VDP1
    PROVE  LET x == EnterBlanking(w)
           IN  /\ x \in VDP1
               /\ x.EraseYCounter = w.EraseYCounter /\ x.y_end = w.y_end /\ x.show = w.show
               /\ w.FBVBErasePending \/ w.FBVBEraseActive => x.FBVBEraseActive
               /\ x.FBVBErasePending = FALSE
               /\ History(x) = History(w) /\ Table(x) = Table(w) /\ Signals(x) = Signals(w)
  <1>1. CASE "VBE" \in w.TVMR \/ w.FBVBErasePending
    <2> DEFINE x == [w EXCEPT !.FBVBErasePending = FALSE, !.FBVBEraseActive = TRUE]
    <2>1. EnterBlanking(w) = x
      BY <1>1 DEF EnterBlanking
    <2>2. x \in VDP1
      BY DEF VDP1
    <2> QED
      BY <2>1, <2>2 DEF History, Table, Signals, VDP1
  <1>2. CASE ~("VBE" \in w.TVMR \/ w.FBVBErasePending)
    <2>1. EnterBlanking(w) = w /\ w.FBVBErasePending = FALSE
      BY <1>2 DEF EnterBlanking, VDP1
    <2> QED
      BY <2>1
  <1> QED
    BY <1>1, <1>2

LEMMA ErasedIs ==
    ASSUME NEW w \in VDP1
    PROVE  LET x == Erased(w)
           IN  /\ x \in VDP1
               /\ x.show = IF w.FBVBEraseActive THEN w.show \ (0 .. w.y_end) ELSE w.show
               /\ x.FBVBEraseActive = FALSE
               /\ x.y_end = w.y_end
               /\ History(x) = History(w) /\ Table(x) = Table(w) /\ Signals(x) = Signals(w)
  <1>1. CASE w.FBVBEraseActive
    <2> DEFINE S == w.show \ (0 .. w.y_end)
               x == [w EXCEPT !.show = S, !.FBVBEraseActive = FALSE]
    <2>1. Erased(w) = x
      BY <1>1 DEF Erased
    <2>2. S \in SUBSET Row
      BY DEF VDP1
    <2> HIDE DEF S
    <2>3. x \in VDP1
      BY <2>2 DEF VDP1
    <2>4. x.show = S /\ x.FBVBEraseActive = FALSE /\ x.y_end = w.y_end
      BY DEF VDP1
    <2> QED
      BY <1>1, <2>1, <2>3, <2>4 DEF History, Table, Signals, VDP1, S
  <1>2. CASE ~w.FBVBEraseActive
    <2>1. Erased(w) = w /\ w.FBVBEraseActive = FALSE
      BY <1>2 DEF Erased, VDP1
    <2> QED
      BY <1>2, <2>1
  <1> QED
    BY <1>1, <1>2

LEMMA SwapDrawFBIs ==
    ASSUME FieldAssumed, NEW w \in VDP1
    PROVE  LET x == SwapDrawFB(w)
           IN  /\ x \in VDP1 /\ x.draw = w.show /\ x.FBVBEraseActive = w.FBVBEraseActive
               /\ History(x) = History(w) /\ Table(x) = Table(w) /\ Signals(x) = Signals(w)
  <1> DEFINE n == Rows - 1
             x == [w EXCEPT !.draw = w.show, !.show = w.draw, !.DrawingActive = FALSE, !.y_end = n]
  <1>1. SwapDrawFB(w) = x
    BY DEF SwapDrawFB
  <1>2. n \in 0 .. n
    BY DEF FieldAssumed
  <1> HIDE DEF n
  <1>3. x \in VDP1
    BY <1>2 DEF VDP1, n
  <1> QED
    BY <1>1, <1>3 DEF History, Table, Signals, VDP1

LEMMA EraseChosenIs ==
    ASSUME FieldAssumed, NEW w \in VDP1
    PROVE  LET x == EraseChosen(w)
           IN  /\ x \in VDP1
               /\ x.EraseYCounter = 0 \/ x.EraseYCounter = Rows
               /\ x.erasing => ~x.cut /\ x.y_end = Rows - 1 /\ (x.FBVBErasePending \/ x.EraseYCounter = 0)
               /\ x.cut = w.cut /\ x.ghost = w.ghost /\ x.FBVBEraseActive = w.FBVBEraseActive
               /\ Table(x) = Table(w) /\ Signals(x) = Signals(w)
  <1> DEFINE due == EraseDue(w)
             rot == "ROTATE" \in w.TVMR
             c == IF due /\ ~rot THEN 0 ELSE Rows
             p == w.FBVBErasePending \/ (due /\ rot)
             e == due /\ w.y_end = Rows - 1 /\ ~w.cut
             x == [w EXCEPT !.EraseYCounter = c, !.FBVBErasePending = p, !.FBManualPending = FALSE,
                            !.erasing = e]
  <1>1. EraseChosen(w) = x
    BY DEF EraseChosen
  <1>2. c \in 0 .. Rows /\ (c = 0 \/ c = Rows) /\ (e => ~w.cut /\ w.y_end = Rows - 1 /\ (p \/ c = 0))
    BY DEF FieldAssumed
  <1>3. p \in BOOLEAN /\ e \in BOOLEAN
    BY DEF VDP1
  <1> HIDE DEF c, p, e, due, rot
  <1>4. x \in VDP1
    BY <1>2, <1>3 DEF VDP1
  <1>5. x.EraseYCounter = c /\ x.FBVBErasePending = p /\ x.erasing = e /\ x.cut = w.cut /\ x.y_end = w.y_end
        /\ x.ghost = w.ghost /\ x.FBVBEraseActive = w.FBVBEraseActive
    BY DEF VDP1
  <1>6. Table(x) = Table(w) /\ Signals(x) = Signals(w)
    BY DEF Table, Signals, VDP1
  <1> HIDE DEF x
  <1> QED
    BY <1>1, <1>2, <1>4, <1>5, <1>6

\* A list that painted the rows R.
Painted(w, R, a) == [w EXCEPT !.draw = @ \cup R, !.DrawingActive = a]

LEMMA PaintedIs ==
    ASSUME NEW w
    PROVE  DoDrawing(w) = {Painted(w, R, a) : R \in SUBSET Row, a \in BOOLEAN}
  BY DEF DoDrawing, Painted

LEMMA DoDrawingIs ==
    ASSUME NEW w \in VDP1, NEW x \in DoDrawing(w)
    PROVE  /\ x \in VDP1 /\ Signals(x) = Signals(w) /\ Table(x) = Table(w) /\ History(x) = History(w)
           /\ x.EraseYCounter = w.EraseYCounter /\ x.y_end = w.y_end /\ x.show = w.show
           /\ x.FBVBErasePending = w.FBVBErasePending /\ x.FBVBEraseActive = w.FBVBEraseActive
  <1>0. PICK R \in SUBSET Row, a \in BOOLEAN : x = Painted(w, R, a)
    BY PaintedIs
  <1>1. x = [w EXCEPT !.draw = @ \cup R, !.DrawingActive = a]
    BY <1>0 DEF Painted
  <1>2. w.draw \cup R \in SUBSET Row
    BY DEF VDP1
  <1>3. x \in VDP1
    BY <1>1, <1>2 DEF VDP1
  <1>4. /\ x.EraseYCounter = w.EraseYCounter /\ x.y_end = w.y_end /\ x.show = w.show
        /\ x.FBVBErasePending = w.FBVBErasePending /\ x.FBVBEraseActive = w.FBVBEraseActive
    BY <1>1 DEF VDP1
  <1>5. Signals(x) = Signals(w) /\ Table(x) = Table(w) /\ History(x) = History(w)
    BY <1>1 DEF VDP1, Signals, Table, History
  <1> QED
    BY <1>3, <1>4, <1>5

LEMMA StartDrawingIs ==
    ASSUME NEW w \in VDP1
    PROVE  LET x == StartDrawing(w)
           IN  /\ x \in VDP1 /\ Signals(x) = Signals(w) /\ Table(x) = Table(w)
               /\ History(x) = History(w) /\ Picture(x) = Picture(w)
  <1> DEFINE x == [w EXCEPT !.DrawingActive = TRUE]
  <1>1. StartDrawing(w) = x
    BY DEF StartDrawing
  <1>2. x \in VDP1
    BY DEF VDP1
  <1>3. Signals(x) = Signals(w) /\ Table(x) = Table(w)
    BY DEF VDP1, Signals, Table
  <1>4. History(x) = History(w) /\ Picture(x) = Picture(w)
    BY DEF VDP1, History, Picture
  <1> HIDE DEF x
  <1> QED
    BY <1>1, <1>2, <1>3, <1>4

LEMMA StartedIs ==
    ASSUME NEW w \in VDP1, NEW x \in Started(w)
    PROVE  /\ x \in VDP1 /\ Signals(x) = Signals(w) /\ Table(x) = Table(w) /\ History(x) = History(w)
           /\ x.FBVBEraseActive = w.FBVBEraseActive
  <1>1. CASE w.PTMR
    <2> DEFINE y == StartDrawing(w)
    <2>1. x \in DoDrawing(y)
      BY <1>1 DEF Started
    <2>2. /\ y \in VDP1 /\ Signals(y) = Signals(w) /\ Table(y) = Table(w)
          /\ History(y) = History(w) /\ Picture(y) = Picture(w)
      BY StartDrawingIs
    <2> HIDE DEF y
    <2>3. y.FBVBEraseActive = w.FBVBEraseActive
      BY <2>2 DEF Picture
    <2> QED
      BY <2>1, <2>2, <2>3, DoDrawingIs
  <1>2. CASE ~w.PTMR
    BY <1>2 DEF Started
  <1> QED
    BY <1>1, <1>2

LEMMA GhostsIs ==
    ASSUME NEW w \in VDP1
    PROVE  LET x == Ghosts(w)
           IN  /\ x \in VDP1 /\ Signals(x) = Signals(w) /\ Table(x) = Table(w)
               /\ x.cut = w.cut /\ x.erasing = w.erasing /\ x.FBVBEraseActive = w.FBVBEraseActive
               /\ x.ghost => w.ghost \/ (w.erasing /\ w.draw # {})
  <1> DEFINE g == w.ghost \/ (w.erasing /\ w.draw # {})
             x == [w EXCEPT !.ghost = g]
  <1>1. Ghosts(w) = x
    BY DEF Ghosts
  <1>2. g \in BOOLEAN
    BY DEF VDP1
  <1> HIDE DEF g
  <1>3. x \in VDP1 /\ x.ghost = g
    BY <1>2 DEF VDP1
  <1>4. Signals(x) = Signals(w) /\ Table(x) = Table(w)
    BY DEF VDP1, Signals, Table
  <1>5. x.cut = w.cut /\ x.erasing = w.erasing /\ x.FBVBEraseActive = w.FBVBEraseActive
    BY DEF VDP1
  <1> HIDE DEF x
  <1> QED
    BY <1>1, <1>3, <1>4, <1>5 DEF g

\* The change of a game that does not draw instantly.
LEMMA LeaveBlankingIs ==
    ASSUME FieldAssumed, NEW w \in VDP1, NEW x \in LeaveBlanking(w)
    PROVE  /\ x \in VDP1 /\ Signals(x) = Signals(w) /\ Table(x) = Table(w) /\ x.cut = w.cut
           /\ x.EraseYCounter = 0 \/ x.EraseYCounter = Rows
           /\ x.erasing => ~x.cut /\ x.y_end = Rows - 1 /\ (x.FBVBErasePending \/ x.EraseYCounter = 0)
           /\ x.ghost => \/ w.ghost
                         \/ /\ w.erasing
                            /\ (IF w.FBVBEraseActive THEN w.show \ (0 .. w.y_end) ELSE w.show) # {}
  <1> DEFINE e == Erased(w)
             S == IF w.FBVBEraseActive THEN w.show \ (0 .. w.y_end) ELSE w.show
             f == SwapDrawFB(e)
             g == Ghosts(f)
  <1>1. PICK y \in IF SwapDue(e) THEN Started(g) ELSE {e} : x = EraseChosen(y)
    BY DEF LeaveBlanking
  <1>2. /\ e \in VDP1 /\ e.show = S
        /\ History(e) = History(w) /\ Table(e) = Table(w) /\ Signals(e) = Signals(w)
    BY ErasedIs
  <1> HIDE DEF e, S
  <1>3. /\ f \in VDP1 /\ f.draw = e.show
        /\ History(f) = History(e) /\ Table(f) = Table(e) /\ Signals(f) = Signals(e)
    BY <1>2, SwapDrawFBIs
  <1> HIDE DEF f
  <1>4. /\ g \in VDP1 /\ Signals(g) = Signals(f) /\ Table(g) = Table(f)
        /\ g.cut = f.cut /\ g.erasing = f.erasing
        /\ g.ghost => f.ghost \/ (f.erasing /\ f.draw # {})
    BY <1>3, GhostsIs
  <1> HIDE DEF g
  <1>5. /\ y \in VDP1 /\ Signals(y) = Signals(w) /\ Table(y) = Table(w) /\ y.cut = w.cut
        /\ y.ghost => w.ghost \/ (w.erasing /\ S # {})
    <2>1. CASE y \in Started(g)
      <3>1. /\ y \in VDP1 /\ Signals(y) = Signals(g) /\ Table(y) = Table(g) /\ History(y) = History(g)
        BY <1>4, <2>1, StartedIs
      <3>2. y.cut = g.cut /\ y.ghost = g.ghost /\ f.cut = e.cut /\ f.erasing = e.erasing
            /\ f.ghost = e.ghost /\ e.cut = w.cut /\ e.erasing = w.erasing /\ e.ghost = w.ghost
        BY <1>2, <1>3, <3>1 DEF History
      <3> QED
        BY <1>2, <1>3, <1>4, <3>1, <3>2
    <2>2. CASE y = e
      <3>1. e.cut = w.cut /\ e.ghost = w.ghost
        BY <1>2 DEF History
      <3> QED
        BY <1>2, <2>2, <3>1
    <2> QED
      BY <1>1, <2>1, <2>2
  <1>6. /\ x \in VDP1
        /\ x.EraseYCounter = 0 \/ x.EraseYCounter = Rows
        /\ x.erasing => ~x.cut /\ x.y_end = Rows - 1 /\ (x.FBVBErasePending \/ x.EraseYCounter = 0)
        /\ x.cut = y.cut /\ x.ghost = y.ghost
        /\ Table(x) = Table(y) /\ Signals(x) = Signals(y)
    BY <1>1, <1>5, EraseChosenIs
  <1> QED
    BY <1>5, <1>6 DEF S

LEMMA IdleScanlineIs ==
    ASSUME NEW w \in VDP1
    PROVE  LET x == IdleScanline(w)
           IN  /\ x \in VDP1 /\ Signals(x) = Signals(w) /\ History(x) = History(w)
               /\ Picture(x) = Picture(w)
               /\ Lags(w) => Lags(x)
  <1>1. CASE w.any /\ ~w.thisLine
    <2> DEFINE x == [w EXCEPT !.ready = TRUE, !.behind = {}, !.lost = {}, !.late = {}]
    <2>1. IdleScanline(w) = x
      BY <1>1 DEF IdleScanline
    <2>2. x \in VDP1 /\ x.behind = {}
      BY DEF VDP1
    <2>3. Signals(x) = Signals(w) /\ History(x) = History(w) /\ Picture(x) = Picture(w)
      BY DEF VDP1, Signals, History, Picture
    <2> HIDE DEF x
    <2> QED
      BY <2>1, <2>2, <2>3 DEF Lags
  <1>2. CASE ~(w.any /\ ~w.thisLine)
    <2> DEFINE x == [w EXCEPT !.thisLine = FALSE]
    <2>1. IdleScanline(w) = x
      BY <1>2 DEF IdleScanline
    <2>3. x \in VDP1
      BY DEF VDP1
    <2>4. Signals(x) = Signals(w) /\ History(x) = History(w) /\ Picture(x) = Picture(w)
      BY DEF VDP1, Signals, History, Picture
    <2>5. Lags(w) => Lags(x)
      BY DEF VDP1, Lags
    <2> HIDE DEF x
    <2> QED
      BY <2>1, <2>3, <2>4, <2>5
  <1> QED
    BY <1>1, <1>2

LEMMA ComposedIs ==
    ASSUME NEW w \in VDP1
    PROVE  LET x == Composed(w)
           IN  /\ x \in VDP1 /\ Signals(x) = Signals(w) /\ History(x) = History(w)
               /\ Picture(x) = Picture(w)
               /\ Lags(w) => Lags(x)
  <1> DEFINE b == IF w.ready THEN w.behind ELSE w.behind \ w.fresh
             g == w.aged \/ b \cap w.old # {}
             o == b \ w.lost
             x == [w EXCEPT !.behind = b, !.fresh = {}, !.ready = FALSE, !.any = FALSE,
                            !.thisLine = FALSE, !.aged = g, !.old = o]
  <1>1. Composed(w) = x
    BY DEF Composed
  <1>2. b \in SUBSET CmdTable /\ o \in SUBSET CmdTable /\ g \in BOOLEAN
    BY DEF VDP1
  <1>3. Lags(w) => b \subseteq w.late \cup w.lost
    BY DEF Lags
  <1> HIDE DEF b, g, o
  <1>4. x \in VDP1
    BY ZenonT(60), <1>2 DEF VDP1
  <1>4a. x.behind = b /\ x.late = w.late /\ x.lost = w.lost /\ x.ready = FALSE
    BY <1>2 DEF VDP1
  <1>5. Signals(x) = Signals(w) /\ History(x) = History(w) /\ Picture(x) = Picture(w)
    BY DEF VDP1, Signals, History, Picture
  <1> HIDE DEF x
  <1> QED
    BY <1>1, <1>3, <1>4, <1>4a, <1>5 DEF Lags

LEMMA SameTable ==
    ASSUME NEW w, NEW x, Table(x) = Table(w), Lags(w)
    PROVE  Lags(x)
  BY DEF Table, Lags

\* The change of a game that draws instantly.
LEMMA EarlySwapIs ==
    ASSUME FieldAssumed, NEW w \in VDP1, NEW x \in EarlySwap(w)
    PROVE  /\ x \in VDP1 /\ x.hb = w.hb /\ x.vb = w.vb /\ x.vbcdpending = FALSE
           /\ x.cut = w.cut /\ x.ghost = w.ghost
           /\ x.erasing => ~x.cut
           /\ Lags(w) => Lags(x)
  <1> DEFINE e == [w EXCEPT !.vbcdpending = FALSE, !.FBVBEraseActive = FALSE]
             s == SwapDrawFB(e)
             c == Composed(s)
             f == [c EXCEPT !.draw = {}]
  <1>1. PICK y \in IF SwapDue(e) THEN Started(f) ELSE {e} : x = EraseChosen(y)
    BY DEF EarlySwap
  <1>2. e \in VDP1
    BY DEF VDP1
  <1>3. e.hb = w.hb /\ e.vb = w.vb /\ e.vbcdpending = FALSE /\ e.cut = w.cut /\ e.ghost = w.ghost
    BY DEF VDP1
  <1>4. Table(e) = Table(w)
    BY DEF VDP1, Table
  <1> HIDE DEF e
  <1>5. s \in VDP1 /\ History(s) = History(e) /\ Table(s) = Table(e) /\ Signals(s) = Signals(e)
    BY <1>2, SwapDrawFBIs
  <1> HIDE DEF s
  <1>6. c \in VDP1 /\ Signals(c) = Signals(s) /\ History(c) = History(s) /\ (Lags(s) => Lags(c))
    BY <1>5, ComposedIs
  <1> HIDE DEF c
  <1>7. f \in VDP1
    BY <1>6 DEF VDP1
  <1>8. Signals(f) = Signals(c) /\ History(f) = History(c)
    BY <1>6 DEF VDP1, Signals, History
  <1>9. Table(f) = Table(c)
    BY <1>6 DEF VDP1, Table
  <1> HIDE DEF f
  <1>10. Lags(w) => Lags(e) /\ Lags(f)
    BY <1>4, <1>5, <1>6, <1>9, SameTable
  <1>11. /\ y \in VDP1 /\ Signals(y) = Signals(e) /\ y.cut = e.cut /\ y.ghost = e.ghost
         /\ Lags(w) => Lags(y)
    <2>1. CASE y \in Started(f)
      <3>1. /\ y \in VDP1 /\ Signals(y) = Signals(f) /\ Table(y) = Table(f) /\ History(y) = History(f)
        BY <1>7, <2>1, StartedIs
      <3>2. History(y) = History(e) /\ Signals(y) = Signals(e)
        BY <1>5, <1>6, <1>8, <3>1
      <3>3. y.cut = e.cut /\ y.ghost = e.ghost
        BY <3>2 DEF History
      <3> QED
        BY <1>10, <3>1, <3>2, <3>3, SameTable
    <2>2. CASE y = e
      BY <1>2, <1>10, <2>2
    <2> QED
      BY <1>1, <2>1, <2>2
  <1>12. /\ x \in VDP1 /\ (x.erasing => ~x.cut) /\ x.cut = y.cut /\ x.ghost = y.ghost
         /\ Table(x) = Table(y) /\ Signals(x) = Signals(y)
    BY <1>1, <1>11, EraseChosenIs
  <1>13. x.hb = e.hb /\ x.vb = e.vb /\ x.vbcdpending = e.vbcdpending
    BY <1>11, <1>12 DEF Signals
  <1> QED
    BY <1>3, <1>11, <1>12, <1>13, SameTable

\* What SetHBVB leaves behind.
Kept(u, w) ==
    /\ w.EraseYCounter = u.EraseYCounter /\ w.y_end = u.y_end /\ w.show = u.show
    /\ w.cut = u.cut /\ w.erasing = u.erasing /\ w.ghost = u.ghost
Unchanged(u, w) ==
    /\ Kept(u, w) /\ w.draw = u.draw
    /\ w.FBVBErasePending = u.FBVBErasePending /\ w.FBVBEraseActive = u.FBVBEraseActive
Entering(u, w) ==
    /\ Kept(u, w)
    /\ u.FBVBErasePending \/ u.FBVBEraseActive => w.FBVBEraseActive
Leaving(u, w) ==
    /\ w.cut = u.cut
    /\ w.EraseYCounter = 0 \/ w.EraseYCounter = Rows
    /\ w.erasing => ~w.cut /\ w.y_end = Rows - 1 /\ (w.FBVBErasePending \/ w.EraseYCounter = 0)
    /\ w.ghost => \/ u.ghost
                  \/ /\ u.erasing
                     /\ (IF u.FBVBEraseActive THEN u.show \ (0 .. u.y_end) ELSE u.show) # {}

\* SetHBVB up to the change of an instant game.
Stepped(u, hb, blank) ==
    LET rising == hb /\ ~u.hb
        latched == [(IF blank /\ ~u.vb THEN LatchTaken(u) ELSE u) EXCEPT !.hb = hb, !.vb = blank]
        done == [latched EXCEPT !.vbcdpending = FALSE]
        changed == IF ~(u.vbcdpending /\ rising) THEN {latched}
                   ELSE IF blank THEN {EnterBlanking(done)} ELSE LeaveBlanking(done)
        pending == {[w EXCEPT !.vbcdpending = @ \/ u.vb # blank] : w \in changed}
    IN  IF game = "instant" /\ ~blank /\ rising THEN {IdleScanline(w) : w \in pending} ELSE pending

Turns(u, hb, blank) == game = "instant" /\ hb /\ u.vb /\ ~blank

LEMMA SetHBVBIs ==
    ASSUME NEW u, NEW hb, NEW blank
    PROVE  SetHBVB(u, hb, blank) = IF Turns(u, hb, blank)
                                   THEN UNION {EarlySwap(w) : w \in Stepped(u, hb, blank)}
                                   ELSE Stepped(u, hb, blank)
  BY DEF SetHBVB, Stepped, Turns

LEMMA SteppedIs ==
    ASSUME FieldAssumed, NEW u \in VDP1, NEW hb \in BOOLEAN, NEW blank \in BOOLEAN,
           NEW w \in Stepped(u, hb, blank)
    PROVE  /\ w \in VDP1 /\ w.hb = hb /\ w.vb = blank /\ (Lags(u) => Lags(w))
           /\ ~(u.vbcdpending /\ hb /\ ~u.hb) =>
                 Unchanged(u, w) /\ w.vbcdpending = (u.vbcdpending \/ u.vb # blank)
           /\ u.vbcdpending /\ hb /\ ~u.hb =>
                 /\ w.vbcdpending = (u.vb # blank)
                 /\ IF blank THEN Entering(u, w) ELSE Leaving(u, w)
  <1> DEFINE rising == hb /\ ~u.hb
             t == IF blank /\ ~u.vb THEN LatchTaken(u) ELSE u
             l == [t EXCEPT !.hb = hb, !.vb = blank]
             d == [l EXCEPT !.vbcdpending = FALSE]
             changed == IF ~(u.vbcdpending /\ rising) THEN {l}
                        ELSE IF blank THEN {EnterBlanking(d)} ELSE LeaveBlanking(d)
             q(x) == [x EXCEPT !.vbcdpending = @ \/ u.vb # blank]
             idle == game = "instant" /\ ~blank /\ rising
  <1>1. PICK x \in changed : w = IF idle THEN IdleScanline(q(x)) ELSE q(x)
    BY DEF Stepped
  <1>2. /\ t \in VDP1 /\ Picture(t) = Picture(u) /\ History(t) = History(u) /\ Table(t) = Table(u)
        /\ Signals(t) = Signals(u)
    BY LatchTakenIs
  <1> HIDE DEF t
  <1>3. l \in VDP1
    BY ZenonT(60), <1>2 DEF VDP1
  <1>4. l.hb = hb /\ l.vb = blank /\ l.vbcdpending = t.vbcdpending
    BY <1>2 DEF VDP1
  <1>5. Picture(l) = Picture(t) /\ History(l) = History(t) /\ Table(l) = Table(t)
    BY <1>2 DEF VDP1, Picture, History, Table
  <1> HIDE DEF l
  <1>6. d \in VDP1
    BY <1>3 DEF VDP1
  <1>7. d.hb = hb /\ d.vb = blank /\ d.vbcdpending = FALSE
    BY <1>3, <1>4 DEF VDP1
  <1>8. Picture(d) = Picture(l) /\ History(d) = History(l) /\ Table(d) = Table(l)
    BY <1>3 DEF VDP1, Picture, History, Table
  <1> HIDE DEF d
  <1>9. Picture(d) = Picture(u) /\ History(d) = History(u) /\ Table(d) = Table(u)
        /\ Picture(l) = Picture(u) /\ History(l) = History(u) /\ Table(l) = Table(u)
        /\ l.vbcdpending = u.vbcdpending
    BY <1>2, <1>4, <1>5, <1>8 DEF Signals
  <1>10. /\ x \in VDP1 /\ x.hb = hb /\ x.vb = blank /\ Table(x) = Table(u)
         /\ ~(u.vbcdpending /\ rising) => Unchanged(u, x) /\ x.vbcdpending = u.vbcdpending
         /\ u.vbcdpending /\ rising => /\ x.vbcdpending = FALSE
                                       /\ IF blank THEN Entering(u, x) ELSE Leaving(u, x)
    <2>1. CASE ~(u.vbcdpending /\ rising)
      <3>1. x = l
        BY <2>1
      <3>2. Unchanged(u, l)
        BY <1>9 DEF Unchanged, Kept, Picture, History
      <3> HIDE DEF rising
      <3> QED
        BY <1>3, <1>4, <1>9, <2>1, <3>1, <3>2
    <2>2. CASE u.vbcdpending /\ rising /\ blank
      <3>1. x = EnterBlanking(d)
        BY <2>2
      <3>2. /\ x \in VDP1
            /\ x.EraseYCounter = d.EraseYCounter /\ x.y_end = d.y_end /\ x.show = d.show
            /\ d.FBVBErasePending \/ d.FBVBEraseActive => x.FBVBEraseActive
            /\ History(x) = History(d) /\ Table(x) = Table(d) /\ Signals(x) = Signals(d)
        BY <1>6, <3>1, EnterBlankingIs
      <3>3. Entering(u, x)
        BY <1>9, <3>2 DEF Entering, Kept, Picture, History
      <3>4. x.hb = hb /\ x.vb = blank /\ x.vbcdpending = FALSE
        BY <1>7, <3>2 DEF Signals
      <3> HIDE DEF rising
      <3> QED
        BY <1>9, <2>2, <3>2, <3>3, <3>4
    <2>3. CASE u.vbcdpending /\ rising /\ ~blank
      <3>1. x \in LeaveBlanking(d)
        BY <2>3
      <3>2. /\ x \in VDP1 /\ Signals(x) = Signals(d) /\ Table(x) = Table(d) /\ Leaving(d, x)
        BY <1>6, <3>1, LeaveBlankingIs DEF Leaving
      <3>3. /\ d.cut = u.cut /\ d.ghost = u.ghost /\ d.erasing = u.erasing /\ d.show = u.show
            /\ d.y_end = u.y_end /\ d.FBVBEraseActive = u.FBVBEraseActive
        BY <1>9 DEF Picture, History
      <3>4. Leaving(u, x)
        BY <3>2, <3>3 DEF Leaving
      <3>5. x.hb = hb /\ x.vb = blank /\ x.vbcdpending = FALSE
        BY <1>7, <3>2 DEF Signals
      <3> HIDE DEF rising
      <3> QED
        BY <1>9, <2>3, <3>2, <3>4, <3>5
    <2> HIDE DEF changed, rising
    <2> QED
      BY <2>1, <2>2, <2>3
  <1> DEFINE y == q(x)
             p == x.vbcdpending \/ u.vb # blank
  <1>11. y \in VDP1 /\ y.vbcdpending = p
    <2>1. p \in BOOLEAN /\ y = [x EXCEPT !.vbcdpending = p]
      BY <1>10 DEF VDP1
    <2> HIDE DEF p, y
    <2> QED
      BY <1>10, <2>1 DEF VDP1
  <1>12. Picture(y) = Picture(x) /\ History(y) = History(x) /\ Table(y) = Table(x)
         /\ y.hb = x.hb /\ y.vb = x.vb
    BY <1>10 DEF VDP1, Picture, History, Table
  <1> HIDE DEF y, p
  <1>13. /\ w \in VDP1 /\ Signals(w) = Signals(y) /\ History(w) = History(y) /\ Picture(w) = Picture(y)
         /\ Lags(y) => Lags(w)
    <2>1. w = IF idle THEN IdleScanline(y) ELSE y
      BY <1>1 DEF y
    <2> HIDE DEF idle
    <2>2. CASE idle
      BY <1>11, <2>1, <2>2, IdleScanlineIs
    <2>3. CASE ~idle
      BY <1>11, <2>1, <2>3
    <2> QED
      BY <2>2, <2>3
  <1>14. Lags(u) => Lags(w)
    BY <1>10, <1>12, <1>13, SameTable
  <1>15. w.hb = hb /\ w.vb = blank /\ w.vbcdpending = p
    BY <1>10, <1>11, <1>12, <1>13 DEF Signals
  <1>16. /\ w.EraseYCounter = x.EraseYCounter /\ w.y_end = x.y_end /\ w.show = x.show /\ w.draw = x.draw
         /\ w.FBVBErasePending = x.FBVBErasePending /\ w.FBVBEraseActive = x.FBVBEraseActive
         /\ w.cut = x.cut /\ w.erasing = x.erasing /\ w.ghost = x.ghost
    BY <1>12, <1>13 DEF Picture, History
  <1>17. /\ Unchanged(u, x) => Unchanged(u, w)
         /\ Entering(u, x) => Entering(u, w)
         /\ Leaving(u, x) => Leaving(u, w)
    BY <1>16 DEF Unchanged, Entering, Leaving, Kept
  <1>18. p = (x.vbcdpending \/ u.vb # blank)
    BY DEF p
  <1>19. x.vbcdpending = FALSE => p = (u.vb # blank)
    BY DEF p
  <1>20. x.vbcdpending = u.vbcdpending => p = (u.vbcdpending \/ u.vb # blank)
    BY DEF p
  <1> HIDE DEF changed
  <1> QED
    BY <1>10, <1>13, <1>14, <1>15, <1>17, <1>19, <1>20

\* Any step of the signals.
LEMMA HBVBKeeps ==
    ASSUME FieldAssumed, NEW u \in VDP1, NEW hb \in BOOLEAN, NEW blank \in BOOLEAN,
           NEW w \in SetHBVB(u, hb, blank), ~u.ghost, u.erasing => ~u.cut
    PROVE  /\ w \in VDP1 /\ w.hb = hb /\ w.vb = blank /\ (Lags(u) => Lags(w))
           /\ w.cut = u.cut /\ (w.erasing => ~w.cut)
           /\ (u.erasing => ~(u.vbcdpending /\ hb /\ ~u.hb /\ ~blank)) => ~w.ghost
           /\ Turns(u, hb, blank) => ~w.vbcdpending
  <1>1. ASSUME NEW x \in Stepped(u, hb, blank)
        PROVE  /\ x \in VDP1 /\ x.hb = hb /\ x.vb = blank /\ (Lags(u) => Lags(x))
               /\ x.cut = u.cut /\ (x.erasing => ~x.cut)
               /\ (u.erasing => ~(u.vbcdpending /\ hb /\ ~u.hb /\ ~blank)) => ~x.ghost
    <2>1. /\ x \in VDP1 /\ x.hb = hb /\ x.vb = blank /\ (Lags(u) => Lags(x))
          /\ ~(u.vbcdpending /\ hb /\ ~u.hb) => Unchanged(u, x)
          /\ u.vbcdpending /\ hb /\ ~u.hb => IF blank THEN Entering(u, x) ELSE Leaving(u, x)
      BY SteppedIs
    <2>2. CASE u.vbcdpending /\ hb /\ ~u.hb /\ ~blank
      BY <2>1, <2>2 DEF Leaving
    <2>3. CASE ~(u.vbcdpending /\ hb /\ ~u.hb /\ ~blank)
      BY <2>1, <2>3 DEF Unchanged, Entering, Kept
    <2> QED
      BY <2>1, <2>2, <2>3
  <1>2. CASE Turns(u, hb, blank)
    <2>1. PICK x \in Stepped(u, hb, blank) : w \in EarlySwap(x)
      BY <1>2, SetHBVBIs
    <2>2. /\ x \in VDP1 /\ x.hb = hb /\ x.vb = blank /\ (Lags(u) => Lags(x))
          /\ x.cut = u.cut
          /\ (u.erasing => ~(u.vbcdpending /\ hb /\ ~u.hb /\ ~blank)) => ~x.ghost
      BY <1>1
    <2>3. /\ w \in VDP1 /\ w.hb = x.hb /\ w.vb = x.vb /\ w.vbcdpending = FALSE
          /\ w.cut = x.cut /\ w.ghost = x.ghost
          /\ w.erasing => ~w.cut
          /\ Lags(x) => Lags(w)
      BY <2>1, <2>2, EarlySwapIs
    <2> QED
      BY <2>2, <2>3
  <1>3. CASE ~Turns(u, hb, blank)
    <2>1. w \in Stepped(u, hb, blank)
      BY <1>3, SetHBVBIs
    <2> QED
      BY <1>1, <1>3, <2>1
  <1> QED
    BY <1>2, <1>3

----------------------------------------------------------------------------
(* The steps of the beam and of the game.                                  *)

\* Steps that leave the change, the erase and the shown buffer alone.
Same(u, w) ==
    /\ Kept(u, w) /\ w.hb = u.hb /\ w.vb = u.vb /\ w.vbcdpending = u.vbcdpending
    /\ w.FBVBErasePending = u.FBVBErasePending /\ w.FBVBEraseActive = u.FBVBEraseActive

LEMMA SameKeeps ==
    ASSUME FInv, v' \in VDP1, Same(v, v'), Lags(v'), UNCHANGED <<game, VCounter, HPhase, Out_VB>>
    PROVE  FInv'
  <1>1. Heard'
    BY DEF FInv, Heard, Same, Kept
  <1>2. Changing'
    BY DEF FInv, Changing, Same, Kept
  <1>3. Displayed' = Displayed /\ Entered' = Entered
    BY DEF Displayed, Entered
  <1>4. Erasing'
    BY <1>3 DEF FInv, Erasing, Same, Kept
  <1>5. ~v'.ghost
    BY DEF FInv, Same, Kept
  <1>6. Lags(v)'
    BY DEF Lags
  <1>7. (v \in VDP1)'
    BY DEF VDP1, Row
  <1> QED
    BY <1>1, <1>2, <1>4, <1>5, <1>6, <1>7 DEF FInv

\* A field cut by a reset: nothing is owed until its blanking.
LEMMA CutKeeps ==
    ASSUME v' \in VDP1, Heard', v'.cut, ~v'.erasing, ~v'.ghost, Lags(v')
    PROVE  FInv'
  <1>1. Changing' /\ Erasing'
    BY DEF Changing, Erasing
  <1>2. Lags(v)'
    BY DEF Lags
  <1>3. (v \in VDP1)'
    BY DEF VDP1, Row
  <1> QED
    BY <1>1, <1>2, <1>3 DEF FInv

LEMMA NextLine ==
    ASSUME FieldAssumed, NEW c \in 0 .. Lines - 1
    PROVE  (c + 1) % Lines = IF c = Lines - 1 THEN 0 ELSE c + 1
  <1>1. Lines \in Nat \ {0}
    BY DEF FieldAssumed
  <1>2. CASE c = Lines - 1
    <2>1. 1 \in Nat /\ 0 \in 0 .. Lines - 1 /\ Lines * 1 + 0 = c + 1
      BY <1>1, <1>2
    <2>2. (Lines * 1 + 0) % Lines = 0
      BY <1>1, <2>1, ModUnique
    <2> QED
      BY <1>2, <2>1, <2>2
  <1>3. CASE c # Lines - 1
    <2>1. c + 1 \in 0 .. Lines - 1
      BY <1>1, <1>3
    <2>2. (c + 1) % Lines = c + 1
      BY <1>1, <2>1, ModSmall
    <2> QED
      BY <1>3, <2>2
  <1> QED
    BY <1>2, <1>3

LEMMA InitFInv ==
    ASSUME FieldAssumed, InitFrame
    PROVE  FInv
  <1>1. v \in VDP1
    <2>1. /\ Row \in SUBSET Row /\ CmdTable \in SUBSET CmdTable /\ {} \in Tvmrs
          /\ 0 \in 0 .. Rows - 1 /\ Rows \in 0 .. Rows
      BY DEF FieldAssumed, Tvmrs
    <2> QED
      BY <2>1 DEF InitFrame, VDP1
  <1>2. Heard
    <2>1. 0 \notin Rows .. Lines - 2 /\ 0 \in 0 .. Lines - 1
      BY DEF FieldAssumed
    <2>2. VCounter = 0 /\ HPhase = "active" /\ Out_VB = FALSE /\ v.hb = FALSE /\ v.cut = TRUE
      BY DEF InitFrame
    <2> QED
      BY <2>1, <2>2 DEF Heard
  <1>3. v.cut = TRUE /\ v.erasing = FALSE /\ v.ghost = FALSE
    BY DEF InitFrame
  <1>4. Changing /\ Erasing
    BY <1>3 DEF Changing, Erasing
  <1>5. v.behind = CmdTable /\ v.fresh = {} /\ v.late = {} /\ v.lost = CmdTable
    BY DEF InitFrame
  <1>6. Lags(v)
    BY <1>5 DEF Lags
  <1> QED
    BY <1>1, <1>2, <1>3, <1>4, <1>6 DEF FInv

LEMMA GetLineIs ==
    ASSUME FieldAssumed, NEW u \in VDP1
    PROVE  LET x == GetLine(u)
           IN  /\ x \in VDP1 /\ Signals(x) = Signals(u) /\ Table(x) = Table(u)
               /\ History(x) = History(u) /\ x.y_end = u.y_end /\ x.draw = u.draw
               /\ x.FBVBErasePending = u.FBVBErasePending /\ x.FBVBEraseActive = u.FBVBEraseActive
               /\ IF game # "instant" /\ u.EraseYCounter <= u.y_end
                  THEN x.EraseYCounter = u.EraseYCounter + 1 /\ x.show = u.show \ {u.EraseYCounter}
                  ELSE x.EraseYCounter = u.EraseYCounter /\ x.show = u.show
  <1>1. CASE game # "instant" /\ u.EraseYCounter <= u.y_end
    <2> DEFINE S == u.show \ {u.EraseYCounter}
               n == u.EraseYCounter + 1
               x == [u EXCEPT !.show = S, !.EraseYCounter = n]
    <2>1. GetLine(u) = x
      BY <1>1 DEF GetLine
    <2>2. S \in SUBSET Row
      BY DEF VDP1
    <2>3. u.EraseYCounter \in 0 .. Rows /\ u.y_end \in 0 .. Rows - 1
      BY DEF VDP1
    <2>4. n \in 0 .. Rows
      BY <1>1, <2>3 DEF FieldAssumed
    <2> HIDE DEF S, n
    <2>5. x \in VDP1 /\ x.show = S /\ x.EraseYCounter = n
      BY <2>2, <2>4 DEF VDP1
    <2>6. Signals(x) = Signals(u) /\ Table(x) = Table(u) /\ History(x) = History(u)
      BY DEF VDP1, Signals, Table, History
    <2>7. x.y_end = u.y_end /\ x.draw = u.draw
          /\ x.FBVBErasePending = u.FBVBErasePending /\ x.FBVBEraseActive = u.FBVBEraseActive
      BY DEF VDP1
    <2> HIDE DEF x
    <2> QED
      BY <1>1, <2>1, <2>5, <2>6, <2>7 DEF S, n
  <1>2. CASE ~(game # "instant" /\ u.EraseYCounter <= u.y_end)
    BY <1>2 DEF GetLine
  <1> QED
    BY <1>1, <1>2

\* A line is displayed; GetLine erases behind it.
LEMMA ActiveKeeps ==
    ASSUME FieldAssumed, FInv, Active
    PROVE  FInv'
  <1> DEFINE u == IF VCounter < Rows THEN GetLine(v) ELSE v
  <1>1. v \in VDP1 /\ Heard /\ Changing /\ Erasing /\ Lags(v) /\ ~v.ghost
    BY DEF FInv
  <1>2. /\ HPhase = "hsync" /\ HPhase' = "active" /\ v' \in SetHBVB(u, FALSE, Out_VB)
        /\ game' = game /\ VCounter' = VCounter /\ Out_VB' = Out_VB
    BY DEF Active
  <1>3. /\ u \in VDP1 /\ Signals(u) = Signals(v) /\ Table(u) = Table(v)
        /\ History(u) = History(v) /\ u.y_end = v.y_end
        /\ u.FBVBErasePending = v.FBVBErasePending /\ u.FBVBEraseActive = v.FBVBEraseActive
        /\ IF VCounter < Rows /\ game # "instant" /\ v.EraseYCounter <= v.y_end
           THEN u.EraseYCounter = v.EraseYCounter + 1 /\ u.show = v.show \ {v.EraseYCounter}
           ELSE u.EraseYCounter = v.EraseYCounter /\ u.show = v.show
    BY <1>1, GetLineIs
  <1> HIDE DEF u
  <1>4. /\ u.hb = v.hb /\ u.vb = v.vb /\ u.vbcdpending = v.vbcdpending
        /\ u.cut = v.cut /\ u.erasing = v.erasing /\ u.ghost = v.ghost
    BY <1>3 DEF Signals, History
  <1>5a. Out_VB \in BOOLEAN
    BY <1>1 DEF Heard
  <1>5. v' \in Stepped(u, FALSE, Out_VB)
    BY <1>2, SetHBVBIs DEF Turns
  <1>6. /\ v' \in VDP1 /\ v'.hb = FALSE /\ v'.vb = Out_VB /\ (Lags(u) => Lags(v'))
        /\ Unchanged(u, v') /\ v'.vbcdpending = (u.vbcdpending \/ u.vb # Out_VB)
    BY ZenonT(60), <1>3, <1>5a, <1>5, SteppedIs
  <1>7. /\ v'.EraseYCounter = u.EraseYCounter /\ v'.y_end = v.y_end /\ v'.show = u.show
        /\ v'.cut = v.cut /\ v'.erasing = v.erasing /\ v'.ghost = v.ghost
        /\ v'.FBVBErasePending = v.FBVBErasePending /\ v'.FBVBEraseActive = v.FBVBEraseActive
    BY <1>3, <1>4, <1>6 DEF Unchanged, Kept
  <1>8. Lags(v')
    BY <1>1, <1>3, <1>6, SameTable
  <1>9. Heard'
    BY <1>1, <1>2, <1>6 DEF Heard
  <1>10. CASE v.cut
    BY <1>1, <1>6, <1>7, <1>8, <1>9, <1>10, CutKeeps DEF Erasing
  <1>11. CASE ~v.cut
    <2>1. v'.vbcdpending = v.vbcdpending
      BY <1>1, <1>4, <1>6, <1>11 DEF Heard, VDP1
    <2>2. Changing'
      BY <1>1, <1>2, <1>7, <2>1 DEF Changing
    <2>3. Entered' <=> Entered
      BY <1>2 DEF Entered
    <2>4. VCounter \in Nat /\ Rows \in Nat \ {0} /\ VCounter <= Lines - 1 /\ Lines \in Nat
      BY <1>1 DEF Heard, FieldAssumed
    <2>5. Displayed = IF VCounter >= Rows THEN Rows ELSE VCounter
      BY <1>2 DEF Displayed
    <2>6. Displayed' = IF VCounter >= Rows THEN Rows ELSE VCounter + 1
      BY <1>2 DEF Displayed
    <2>7. /\ v.EraseYCounter \in 0 .. Rows /\ v.y_end \in 0 .. Rows - 1 /\ v.show \subseteq 0 .. Rows - 1
      BY <1>1 DEF VDP1, Row
    <2>8. game # "instant" => v.EraseYCounter > v.y_end \/ v.EraseYCounter <= Displayed
      BY <1>1, <1>11 DEF Erasing
    <2>9. game # "instant" => v'.EraseYCounter > v'.y_end \/ v'.EraseYCounter <= Displayed'
      BY <1>3, <1>7, <2>4, <2>5, <2>6, <2>7, <2>8
    <2>10. ASSUME v.erasing, game # "instant"
           PROVE  /\ v'.y_end = Rows - 1
                  /\ \/ v'.FBVBErasePending /\ ~Entered'
                     \/ v'.FBVBEraseActive
                     \/ v'.EraseYCounter = Displayed' /\ \A r \in v'.show : r >= v'.EraseYCounter
      <3>1. /\ v.y_end = Rows - 1
            /\ \/ v.FBVBErasePending /\ ~Entered
               \/ v.FBVBEraseActive
               \/ v.EraseYCounter = Displayed /\ \A r \in v.show : r >= v.EraseYCounter
        BY <1>1, <2>10 DEF Erasing
      <3>2. ASSUME v.EraseYCounter = Displayed, \A r \in v.show : r >= v.EraseYCounter
            PROVE  v'.EraseYCounter = Displayed' /\ \A r \in v'.show : r >= v'.EraseYCounter
        <4>1. CASE VCounter >= Rows
          BY <1>3, <1>7, <2>4, <2>5, <2>6, <2>7, <3>2, <4>1
        <4>2. CASE VCounter < Rows
          <5>1. v.EraseYCounter = VCounter /\ v.EraseYCounter <= v.y_end
            BY <2>4, <2>5, <3>1, <3>2, <4>2
          <5>2. v'.EraseYCounter = VCounter + 1 /\ v'.show = v.show \ {VCounter}
            BY <1>3, <1>7, <2>10, <4>2, <5>1
          <5> QED
            BY <2>4, <2>6, <2>7, <3>2, <4>2, <5>1, <5>2
        <4> QED
          BY <2>4, <4>1, <4>2
      <3> QED
        BY <1>7, <2>3, <3>1, <3>2
    <2>11. Erasing'
      BY <1>1, <1>2, <1>7, <1>11, <2>9, <2>10 DEF Erasing
    <2>12. Lags(v)' /\ (v \in VDP1)' /\ ~v'.ghost
      BY <1>1, <1>6, <1>7, <1>8 DEF Lags, VDP1, Row
    <2> QED
      BY <1>9, <2>2, <2>11, <2>12 DEF FInv
  <1> QED
    BY <1>10, <1>11

\* The right border: where a change that is pending is made.
LEMMA RightBorderKeeps ==
    ASSUME FieldAssumed, FInv, RightBorder
    PROVE  FInv'
  <1>1. v \in VDP1 /\ Heard /\ Changing /\ Erasing /\ Lags(v) /\ ~v.ghost
    BY DEF FInv
  <1>2. /\ HPhase = "active" /\ HPhase' = "border" /\ v' \in SetHBVB(v, TRUE, Out_VB)
        /\ game' = game /\ VCounter' = VCounter /\ Out_VB' = Out_VB
    BY DEF RightBorder
  <1>3. Out_VB \in BOOLEAN /\ v.hb = FALSE /\ (v.erasing => ~v.cut)
    BY <1>1, <1>2 DEF Heard, Erasing, VDP1
  <1>4. /\ v' \in VDP1 /\ v'.hb = TRUE /\ v'.vb = Out_VB /\ Lags(v')
        /\ v'.cut = v.cut /\ (v'.erasing => ~v'.cut)
        /\ (v.erasing => ~(v.vbcdpending /\ TRUE /\ ~v.hb /\ ~Out_VB)) => ~v'.ghost
    BY <1>1, <1>2, <1>3, HBVBKeeps
  <1>5. Heard'
    BY <1>1, <1>2, <1>4 DEF Heard
  <1>6. CASE v.cut
    <2>1. ~v'.ghost /\ ~v'.erasing
      BY <1>3, <1>4, <1>6
    <2> QED
      BY <1>4, <1>5, <1>6, <2>1, CutKeeps
  <1>7. CASE ~v.cut
    <2>1. v.vb = Out_VB
      BY <1>1, <1>7 DEF Heard
    <2>2. v' \in Stepped(v, TRUE, Out_VB)
      BY <1>2, <2>1, SetHBVBIs DEF Turns
    <2>3. /\ ~v.vbcdpending => Unchanged(v, v') /\ v'.vbcdpending = (v.vbcdpending \/ v.vb # Out_VB)
          /\ v.vbcdpending => /\ v'.vbcdpending = (v.vb # Out_VB)
                              /\ IF Out_VB THEN Entering(v, v') ELSE Leaving(v, v')
      BY ZenonT(60), <1>1, <1>3, <2>2, SteppedIs
    <2>4. v'.vbcdpending = FALSE
      BY <1>1, <1>3, <2>1, <2>3 DEF VDP1
    <2>5. Changing'
      <3>1. VCounter' = VCounter /\ HPhase' = "border"
        BY <1>2
      <3> QED
        BY <2>4, <3>1 DEF Changing
    <2>6. /\ VCounter \in Nat /\ Rows \in Nat \ {0} /\ VCounter <= Lines - 1
          /\ Lines \in Nat /\ Lines >= Rows + 2
      BY <1>1 DEF Heard, FieldAssumed
    <2>7. Displayed = IF VCounter >= Rows THEN Rows ELSE VCounter + 1
      BY <1>2 DEF Displayed
    <2>8. Displayed' = IF VCounter >= Rows THEN IF VCounter = Lines - 1 THEN 0 ELSE Rows ELSE VCounter + 1
      BY <1>2 DEF Displayed
    <2>9. Entered <=> (VCounter \in Rows + 1 .. Lines - 2 \/ VCounter = Lines - 1)
      BY <1>2 DEF Entered
    <2>10. Entered' <=> (VCounter = Rows \/ VCounter \in Rows + 1 .. Lines - 2)
      BY <1>2, <2>6 DEF Entered
    <2>11. /\ v.EraseYCounter \in 0 .. Rows /\ v.y_end \in 0 .. Rows - 1 /\ v.show \subseteq 0 .. Rows - 1
           /\ v'.EraseYCounter \in 0 .. Rows /\ v'.y_end \in 0 .. Rows - 1
      BY <1>1, <1>4 DEF VDP1, Row
    <2>12. /\ game # "instant" => v.EraseYCounter > v.y_end \/ v.EraseYCounter <= Displayed
           /\ v.erasing /\ game # "instant" =>
                /\ v.y_end = Rows - 1
                /\ \/ v.FBVBErasePending /\ ~Entered
                   \/ v.FBVBEraseActive
                   \/ v.EraseYCounter = Displayed /\ \A r \in v.show : r >= v.EraseYCounter
      BY <1>1, <1>7 DEF Erasing
    <2>13. ASSUME game # "instant"
           PROVE  /\ v'.EraseYCounter > v'.y_end \/ v'.EraseYCounter <= Displayed'
                  /\ v'.erasing =>
                       /\ v'.y_end = Rows - 1
                       /\ \/ v'.FBVBErasePending /\ ~Entered'
                          \/ v'.FBVBEraseActive
                          \/ v'.EraseYCounter = Displayed' /\ \A r \in v'.show : r >= v'.EraseYCounter
      <3>1. CASE ~v.vbcdpending
        <4>1. /\ v'.EraseYCounter = v.EraseYCounter /\ v'.y_end = v.y_end /\ v'.show = v.show
              /\ v'.erasing = v.erasing
              /\ v'.FBVBErasePending = v.FBVBErasePending /\ v'.FBVBEraseActive = v.FBVBEraseActive
          BY <2>3, <3>1 DEF Unchanged, Kept
        <4>2. VCounter # Lines - 1 /\ (v.erasing => VCounter # Rows)
          BY <1>1, <1>2, <1>7, <2>13, <3>1 DEF Changing
        <4>3. Displayed' = Displayed /\ (v.erasing => (Entered' <=> Entered))
          BY <2>7, <2>8, <2>9, <2>10, <4>2
        <4> QED
          BY <2>12, <2>13, <4>1, <4>3
      <3>2. CASE v.vbcdpending /\ Out_VB
        <4>1. /\ v'.EraseYCounter = v.EraseYCounter /\ v'.y_end = v.y_end /\ v'.show = v.show
              /\ v'.erasing = v.erasing
              /\ v.FBVBErasePending \/ v.FBVBEraseActive => v'.FBVBEraseActive
          BY <2>3, <3>2 DEF Entering, Kept
        <4>2. VCounter \in Rows .. Lines - 2
          BY <1>1, <3>2 DEF Heard
        <4>3. Displayed' = Displayed
          BY <2>6, <2>7, <2>8, <4>2
        <4> QED
          BY <2>12, <2>13, <4>1, <4>3
      <3>3. CASE v.vbcdpending /\ ~Out_VB
        <4>1. /\ v'.EraseYCounter = 0 \/ v'.EraseYCounter = Rows
              /\ v'.erasing => v'.y_end = Rows - 1 /\ (v'.FBVBErasePending \/ v'.EraseYCounter = 0)
          BY <2>3, <3>3 DEF Leaving
        <4>2. VCounter = Lines - 1
          BY <1>1, <1>7, <3>3 DEF Changing
        <4>3a. Displayed' = 0
          BY <2>6, <2>8, <4>2
        <4>3b. ~Entered'
          BY <2>6, <2>10, <4>2
        <4>3. Displayed' = 0 /\ ~Entered'
          BY <4>3a, <4>3b
        <4>4. v'.show \subseteq 0 .. Rows - 1
          BY <1>4 DEF VDP1, Row
        <4>5. \A r \in v'.show : r >= 0
          BY <2>6, <4>4
        <4>6. v'.EraseYCounter > v'.y_end \/ v'.EraseYCounter <= 0
          BY <2>6, <2>11, <4>1
        <4> QED
          BY <4>1, <4>3, <4>5, <4>6
      <3> QED
        BY <3>1, <3>2, <3>3
    <2>14. Erasing'
      BY <1>2, <1>4, <2>13 DEF Erasing
    <2>15. ~v'.ghost
      <3>1. CASE ~(v.erasing /\ v.vbcdpending /\ ~Out_VB)
        BY <1>4, <3>1
      <3>2. CASE v.erasing /\ v.vbcdpending /\ ~Out_VB
        <4>1. game # "instant" /\ VCounter = Lines - 1
          BY <1>1, <1>7, <3>2 DEF Changing
        <4>2a. Displayed = Rows
          BY <2>6, <2>7, <4>1
        <4>2. Displayed = Rows /\ Entered
          BY <2>9, <4>1, <4>2a
        <4>3. /\ v.y_end = Rows - 1
              /\ v.FBVBEraseActive \/ \A r \in v.show : r >= Rows
          BY <2>12, <3>2, <4>1, <4>2
        <4>4. v.show \ (0 .. v.y_end) = {} /\ (~v.FBVBEraseActive => v.show = {})
          BY <2>6, <2>11, <4>3
        <4>5. v'.ghost => \/ v.ghost
                          \/ /\ v.erasing
                             /\ (IF v.FBVBEraseActive THEN v.show \ (0 .. v.y_end) ELSE v.show) # {}
          BY <2>3, <3>2 DEF Leaving
        <4> QED
          BY <1>1, <4>4, <4>5
      <3> QED
        BY <3>1, <3>2
    <2>16. Lags(v)' /\ (v \in VDP1)'
      BY <1>4 DEF Lags, VDP1, Row
    <2> QED
      BY <1>5, <2>5, <2>14, <2>15, <2>16 DEF FInv
  <1> QED
    BY <1>6, <1>7

LEMMA MembershipIs ==
    ASSUME NEW x, NEW a, NEW S, x = (a \in S)
    PROVE  x \in BOOLEAN /\ (x <=> a \in S)
  <1>1. x \in BOOLEAN
    OBVIOUS
  <1>2. x <=> a \in S
    OBVIOUS
  <1> QED
    BY <1>1, <1>2

\* hsync: the next line begins, and with it perhaps a blanking, or the end of one.
LEMMA HSyncKeeps ==
    ASSUME FieldAssumed, FInv, HSync
    PROVE  FInv'
  <1>1. v \in VDP1 /\ Heard /\ Changing /\ Erasing /\ Lags(v) /\ ~v.ghost
    BY DEF FInv
  <1>2. PICK w \in SetHBVB(v, TRUE, Out_VB') : v' = [w EXCEPT !.cut = @ /\ VCounter' # Rows]
    BY DEF HSync
  <1>3. /\ HPhase = "border" /\ HPhase' = "hsync" /\ game' = game
        /\ VCounter' = (VCounter + 1) % Lines
        /\ Out_VB' = (VCounter' \in Rows .. Lines - 2)
    BY DEF HSync
  <1>4. VCounter \in 0 .. Lines - 1 /\ Rows \in Nat \ {0} /\ Lines \in Nat /\ Lines >= Rows + 2
    BY <1>1 DEF Heard, FieldAssumed
  <1>5. VCounter' = IF VCounter = Lines - 1 THEN 0 ELSE VCounter + 1
    BY <1>3, <1>4, NextLine
  <1>6. Out_VB' \in BOOLEAN /\ (Out_VB' <=> VCounter' \in Rows .. Lines - 2)
    <2> DEFINE S == Rows .. Lines - 2
    <2>1. Out_VB' = (VCounter' \in S)
      BY <1>3
    <2> HIDE DEF S
    <2>2. Out_VB' \in BOOLEAN /\ (Out_VB' <=> VCounter' \in S)
      BY <2>1, MembershipIs
    <2> QED
      BY <2>2 DEF S
  <1>7. v.hb = TRUE /\ v.vb \in BOOLEAN /\ v.vbcdpending \in BOOLEAN /\ (v.erasing => ~v.cut)
    BY <1>1, <1>3 DEF Heard, Erasing, VDP1
  <1>8. /\ w \in VDP1 /\ w.hb = TRUE /\ w.vb = Out_VB' /\ Lags(w)
        /\ w.cut = v.cut /\ (w.erasing => ~w.cut)
        /\ (v.erasing => ~(v.vbcdpending /\ TRUE /\ ~v.hb /\ ~Out_VB')) => ~w.ghost
        /\ Turns(v, TRUE, Out_VB') => ~w.vbcdpending
    BY ZenonT(60), <1>1, <1>2, <1>6, <1>7, HBVBKeeps
  <1> DEFINE c == w.cut /\ VCounter' # Rows
  <1>9a. c \in BOOLEAN
    BY <1>8 DEF VDP1
  <1>9b. v' = [w EXCEPT !.cut = c]
    BY <1>2
  <1>10. c <=> w.cut /\ VCounter' # Rows
    OBVIOUS
  <1> HIDE DEF c
  <1>11. v' \in VDP1 /\ v'.cut = c
    BY <1>8, <1>9a, <1>9b DEF VDP1
  <1>12. /\ v'.hb = TRUE /\ v'.vb = Out_VB' /\ v'.vbcdpending = w.vbcdpending
         /\ v'.EraseYCounter = w.EraseYCounter /\ v'.y_end = w.y_end /\ v'.show = w.show
         /\ v'.erasing = w.erasing /\ v'.ghost = w.ghost
         /\ v'.FBVBErasePending = w.FBVBErasePending /\ v'.FBVBEraseActive = w.FBVBEraseActive
    BY <1>8, <1>9a, <1>9b DEF VDP1
  <1>13. Table(v') = Table(w)
    BY <1>8, <1>9a, <1>9b DEF VDP1, Table
  <1>14. Lags(v')
    BY <1>8, <1>13, SameTable
  <1>15. ~v'.ghost
    BY <1>7, <1>8, <1>12
  <1>16. Heard'
    <2>1. VCounter' \in 0 .. Lines - 1
      BY <1>4, <1>5
    <2> QED
      BY <1>3, <1>6, <1>12, <2>1 DEF Heard
  <1>17. ~Turns(v, TRUE, Out_VB') => /\ Unchanged(v, w)
                                     /\ w.vbcdpending = (v.vbcdpending \/ v.vb # Out_VB')
    <2>1. ASSUME ~Turns(v, TRUE, Out_VB')
          PROVE  w \in Stepped(v, TRUE, Out_VB')
      BY <1>2, <2>1, SetHBVBIs
    <2> QED
      BY ZenonT(60), <1>1, <1>6, <1>7, <2>1, SteppedIs
  <1>18. CASE v'.cut
    <2>1. ~v'.erasing
      BY <1>8, <1>10, <1>11, <1>12, <1>18
    <2> QED
      BY <1>11, <1>14, <1>15, <1>16, <1>18, <2>1, CutKeeps
  <1>19. CASE ~v'.cut /\ v.cut
    <2>1. VCounter' = Rows
      BY <1>8, <1>10, <1>11, <1>19
    <2>2. Out_VB' /\ VCounter' # Lines - 1
      BY <1>4, <1>6, <2>1
    <2>3. ~v'.erasing
      BY <1>8, <1>12, <1>19
    <2>4. Changing'
      BY <1>3, <2>2, <2>3 DEF Changing
    <2>5. Displayed' = Rows
      BY <1>3, <1>4, <2>1 DEF Displayed
    <2>6. v'.EraseYCounter <= Displayed'
      BY <1>4, <1>11, <2>5 DEF VDP1
    <2>7. Erasing'
      BY <2>3, <2>6 DEF Erasing
    <2>8. Lags(v)' /\ (v \in VDP1)'
      BY <1>11, <1>14 DEF Lags, VDP1, Row
    <2> QED
      BY <1>15, <1>16, <2>4, <2>7, <2>8 DEF FInv
  <1>20. CASE ~v'.cut /\ ~v.cut
    <2>1. v.vb = Out_VB /\ ~v.vbcdpending
      BY <1>1, <1>3, <1>20 DEF Heard, Changing
    <2>2. (Out_VB <=> VCounter \in Rows .. Lines - 2) /\ Out_VB \in BOOLEAN
      BY <1>1 DEF Heard
    <2>3. Out_VB /\ ~Out_VB' => VCounter' = Lines - 1
      BY <1>4, <1>5, <1>6, <2>2
    <2>4. CASE Turns(v, TRUE, Out_VB')
      <3>1. game = "instant" /\ ~v'.vbcdpending /\ VCounter' = Lines - 1
        BY <1>8, <1>12, <2>1, <2>3, <2>4 DEF Turns
      <3>2. VCounter' # Rows
        BY <1>4, <3>1
      <3>3. Changing'
        BY <1>3, <3>1, <3>2 DEF Changing
      <3>4. Erasing'
        BY <1>3, <1>20, <3>1 DEF Erasing
      <3>5. Lags(v)' /\ (v \in VDP1)'
        BY <1>11, <1>14 DEF Lags, VDP1, Row
      <3> QED
        BY <1>15, <1>16, <3>3, <3>4, <3>5 DEF FInv
    <2>5. CASE ~Turns(v, TRUE, Out_VB')
      <3>1. v'.vbcdpending <=> ~(Out_VB <=> Out_VB')
        BY <1>6, <1>12, <1>17, <2>1, <2>2, <2>5
      <3>2. ~Out_VB \/ Out_VB' \/ game # "instant"
        BY <2>1, <2>5 DEF Turns
      <3>3. v'.vbcdpending /\ ~Out_VB' => game # "instant" /\ VCounter' = Lines - 1
        BY <2>3, <3>1, <3>2
      <3>4. VCounter' = Lines - 1 => v'.vbcdpending
        BY <1>4, <1>5, <1>6, <2>2, <3>1
      <3>5. VCounter' = Rows => v'.vbcdpending
        BY <1>4, <1>5, <1>6, <2>2, <3>1
      <3>6. Changing'
        BY <1>3, <3>3, <3>4, <3>5 DEF Changing
      <3>7. Displayed' = Displayed
        BY <1>3, <1>4, <1>5 DEF Displayed
      <3>8. Entered' <=> Entered
        BY <1>3, <1>4, <1>5 DEF Entered
      <3>9. /\ v'.EraseYCounter = v.EraseYCounter /\ v'.y_end = v.y_end /\ v'.show = v.show
            /\ v'.erasing = v.erasing
            /\ v'.FBVBErasePending = v.FBVBErasePending /\ v'.FBVBEraseActive = v.FBVBEraseActive
        BY <1>12, <1>17, <2>5 DEF Unchanged, Kept
      <3>10. Erasing'
        BY <1>1, <1>3, <1>20, <3>7, <3>8, <3>9 DEF Erasing
      <3>11. Lags(v)' /\ (v \in VDP1)'
        BY <1>11, <1>14 DEF Lags, VDP1, Row
      <3> QED
        BY <1>15, <1>16, <3>6, <3>10, <3>11 DEF FInv
    <2> QED
      BY <2>4, <2>5
  <1> QED
    BY <1>18, <1>19, <1>20

\* VDP2 tells of a blanking that a reset has ended.
LEMMA VDP2UpdateKeeps ==
    ASSUME FieldAssumed, FInv, VDP2Update
    PROVE  FInv'
  <1>1. v \in VDP1 /\ Heard /\ Changing /\ Erasing /\ Lags(v) /\ ~v.ghost
    BY DEF FInv
  <1>2. /\ v.vb # Out_VB /\ v' \in SetHBVB(v, v.hb, Out_VB)
        /\ UNCHANGED <<game, VCounter, HPhase, Out_VB>>
    BY DEF VDP2Update
  <1>3. v.cut /\ ~v.erasing /\ v.hb \in BOOLEAN /\ Out_VB \in BOOLEAN
    BY <1>1, <1>2 DEF Heard, Erasing, VDP1
  <1>4. /\ v' \in VDP1 /\ v'.hb = v.hb /\ v'.vb = Out_VB /\ Lags(v')
        /\ v'.cut = v.cut /\ (v'.erasing => ~v'.cut)
        /\ (v.erasing => ~(v.vbcdpending /\ v.hb /\ ~v.hb /\ ~Out_VB)) => ~v'.ghost
    BY ZenonT(60), <1>1, <1>2, <1>3, HBVBKeeps
  <1>5. Heard'
    BY <1>1, <1>2, <1>3, <1>4 DEF Heard
  <1>6. ~v'.erasing /\ ~v'.ghost
    BY <1>3, <1>4
  <1> QED
    BY <1>3, <1>4, <1>5, <1>6, CutKeeps

LEMMA ListKeeps ==
    ASSUME FieldAssumed, FInv, Update
    PROVE  FInv'
  <1>1. v \in VDP1 /\ Lags(v) /\ v' \in DoDrawing(v) /\ UNCHANGED <<game, VCounter, HPhase, Out_VB>>
    BY DEF FInv, Update
  <1>2. /\ v' \in VDP1 /\ Signals(v') = Signals(v) /\ Table(v') = Table(v) /\ History(v') = History(v)
        /\ v'.EraseYCounter = v.EraseYCounter /\ v'.y_end = v.y_end /\ v'.show = v.show
        /\ v'.FBVBErasePending = v.FBVBErasePending /\ v'.FBVBEraseActive = v.FBVBEraseActive
    BY <1>1, DoDrawingIs
  <1>3. Same(v, v')
    BY <1>2 DEF Same, Kept, Signals, History
  <1> QED
    BY <1>1, <1>2, <1>3, SameTable, SameKeeps

LEMMA RegistersKeep ==
    ASSUME FieldAssumed, FInv, WriteReg
    PROVE  FInv'
  <1>1. v \in VDP1 /\ Lags(v) /\ UNCHANGED <<game, VCounter, HPhase, Out_VB>>
    BY DEF FInv, WriteReg
  <1>2. v' \in VDP1 /\ Same(v, v') /\ Table(v') = Table(v)
    <2>1. ASSUME NEW fcm \in BOOLEAN, NEW fct \in BOOLEAN, WriteFBCR(fcm, fct)
          PROVE  v' \in VDP1 /\ Same(v, v') /\ Table(v') = Table(v)
      <3>1. CASE game = "latch" /\ v.vb
        <4>1. v' = [v EXCEPT !.FBCRLatch = [FCM |-> fcm, FCT |-> fct]]
          BY <2>1, <3>1 DEF WriteFBCR
        <4> QED
          BY <1>1, <4>1 DEF VDP1, Same, Kept, Table
      <3>2. CASE ~(game = "latch" /\ v.vb)
        <4> DEFINE m == v.FBManualPending \/ fcm
                   a == fcm
                   b == fct
        <4>1a. v' = [v EXCEPT !.FCM = a, !.FCT = b, !.FBManualPending = m]
          BY <2>1, <3>2 DEF WriteFBCR
        <4>1b. m \in BOOLEAN /\ a \in BOOLEAN /\ b \in BOOLEAN
          BY <1>1 DEF VDP1
        <4>1. m \in BOOLEAN /\ a \in BOOLEAN /\ b \in BOOLEAN
              /\ v' = [v EXCEPT !.FCM = a, !.FCT = b, !.FBManualPending = m]
          BY <4>1a, <4>1b
        <4> HIDE DEF m, a, b
        <4> DEFINE y == [v EXCEPT !.FCM = a, !.FCT = b, !.FBManualPending = m]
        <4>2a. y \in VDP1
          BY <1>1, <4>1 DEF VDP1
        <4>2. v' \in VDP1
          BY <4>1, <4>2a
        <4>3. Same(v, v') /\ Table(v') = Table(v)
          BY <1>1, <4>1 DEF VDP1, Same, Kept, Table
        <4> QED
          BY <4>2, <4>3
      <3> QED
        BY <3>1, <3>2
    <2>2. ASSUME NEW now \in BOOLEAN, NEW later \in BOOLEAN, WritePTMR(now, later)
          PROVE  v' \in VDP1 /\ Same(v, v') /\ Table(v') = Table(v)
      <3>1. CASE now
        <4> DEFINE d == IF game = "instant" THEN {} ELSE v.draw
        <4>1. d \in SUBSET Row
          BY <1>1 DEF VDP1
        <4>2a. v' = StartDrawing([v EXCEPT !.PTMR = later, !.draw = d])
          BY <1>1, <2>2, <3>1 DEF WritePTMR, VDP1
        <4> HIDE DEF d
        <4>2. v' = [v EXCEPT !.PTMR = later, !.draw = d, !.DrawingActive = TRUE]
          BY <1>1, <4>2a DEF StartDrawing, VDP1
        <4> QED
          BY ZenonT(60), <1>1, <4>1, <4>2 DEF VDP1, Same, Kept, Table
      <3>2. CASE ~now
        <4>1. v' = [v EXCEPT !.PTMR = later]
          BY <2>2, <3>2 DEF WritePTMR
        <4> QED
          BY <1>1, <4>1 DEF VDP1, Same, Kept, Table
      <3> QED
        BY <3>1, <3>2
    <2>3. ASSUME NEW t \in Tvmrs, v' = [v EXCEPT !.TVMR = t]
          PROVE  v' \in VDP1 /\ Same(v, v') /\ Table(v') = Table(v)
      BY <1>1, <2>3 DEF VDP1, Same, Kept, Table
    <2>4. ASSUME v' = [v EXCEPT !.DrawingActive = FALSE]
          PROVE  v' \in VDP1 /\ Same(v, v') /\ Table(v') = Table(v)
      BY ZenonT(60), <1>1, <2>4 DEF VDP1, Same, Kept, Table
    <2> QED
      BY <2>1, <2>2, <2>3, <2>4 DEF WriteReg
  <1> QED
    BY <1>1, <1>2, SameTable, SameKeeps

LEMMA WriteVRAMKeeps ==
    ASSUME FieldAssumed, FInv, NEW c \in CmdTable, WriteVRAM(c)
    PROVE  FInv'
  <1>1. v \in VDP1 /\ Lags(v) /\ UNCHANGED <<game, VCounter, HPhase, Out_VB>>
    BY DEF FInv, WriteVRAM
  <1> DEFINE l == IF v.ready THEN v.late \cup {c} ELSE v.late \ {c}
             b == v.behind \cup {c}
             f == v.fresh \cup {c}
             s == v.lost \ {c}
             o == v.old \ {c}
  <1>2. v' = [v EXCEPT !.behind = b, !.fresh = f, !.thisLine = TRUE, !.any = TRUE, !.late = l,
                       !.lost = s, !.old = o]
    BY <1>1 DEF WriteVRAM
  <1>3. /\ l \in SUBSET CmdTable /\ b \in SUBSET CmdTable /\ f \in SUBSET CmdTable
        /\ s \in SUBSET CmdTable /\ o \in SUBSET CmdTable
    BY <1>1 DEF VDP1
  <1>4. b \subseteq f \cup l \cup s /\ (v.ready => b \subseteq l \cup s)
    BY <1>1 DEF Lags
  <1> HIDE DEF l, b, f, s, o
  <1>5. v' \in VDP1 /\ Same(v, v')
    BY ZenonT(60), <1>1, <1>2, <1>3 DEF VDP1, Same, Kept
  <1>6. v'.behind = b /\ v'.fresh = f /\ v'.late = l /\ v'.lost = s /\ v'.ready = v.ready
    BY <1>1, <1>2, <1>3 DEF VDP1
  <1>7. Lags(v')
    BY <1>4, <1>6 DEF Lags
  <1> QED
    BY <1>1, <1>5, <1>7, SameKeeps

LEMMA WriteFBKeeps ==
    ASSUME FieldAssumed, FInv, WriteFB
    PROVE  FInv'
  <1>1. v \in VDP1 /\ Lags(v) /\ UNCHANGED <<game, VCounter, HPhase, Out_VB>>
    BY DEF FInv, WriteFB
  <1>2. PICK r \in Row : v' = [v EXCEPT !.draw = @ \cup {r}]
    BY DEF WriteFB
  <1> DEFINE d == v.draw \cup {r}
  <1>3. d \in SUBSET Row /\ v' = [v EXCEPT !.draw = d]
    BY <1>1, <1>2 DEF VDP1
  <1> HIDE DEF d
  <1>4. v' \in VDP1 /\ Same(v, v') /\ Table(v') = Table(v)
    BY <1>1, <1>3 DEF VDP1, Same, Kept, Table
  <1> QED
    BY <1>1, <1>4, SameTable, SameKeeps

\* What a reset makes of the variables, the two framebuffers apart.
Cleared(w) ==
    [w EXCEPT !.FCM = FALSE, !.FCT = FALSE, !.FBManualPending = FALSE,
              !.FBCRLatch = None, !.TVMR = {}, !.PTMR = FALSE,
              !.FBVBErasePending = FALSE, !.FBVBEraseActive = FALSE,
              !.EraseYCounter = Rows, !.y_end = 0, !.DrawingActive = FALSE,
              !.fresh = {}, !.thisLine = FALSE, !.any = FALSE, !.ready = FALSE,
              !.cut = TRUE, !.erasing = FALSE, !.lost = @ \cup w.behind, !.late = {},
              !.old = {}]

LEMMA ClearedIs ==
    ASSUME FieldAssumed, NEW w \in VDP1
    PROVE  LET x == Cleared(w)
           IN  /\ x \in VDP1 /\ x.hb = w.hb /\ x.cut = TRUE /\ x.erasing = FALSE
               /\ x.ghost = w.ghost /\ Lags(x)
  <1> DEFINE s == w.lost \cup w.behind
             c == {}
             n == 0
             m == Rows
             x == Cleared(w)
             a == [w EXCEPT !.FCM = FALSE, !.FCT = FALSE, !.FBManualPending = FALSE,
                            !.FBCRLatch = None]
             b == [a EXCEPT !.TVMR = c]
             d == [b EXCEPT !.PTMR = FALSE, !.FBVBErasePending = FALSE, !.FBVBEraseActive = FALSE]
             e == [d EXCEPT !.EraseYCounter = m, !.y_end = n]
             f == [e EXCEPT !.DrawingActive = FALSE, !.fresh = c]
             y == [f EXCEPT !.thisLine = FALSE, !.any = FALSE, !.ready = FALSE]
             z == [y EXCEPT !.cut = TRUE, !.erasing = FALSE]
  <1>1. s \in SUBSET CmdTable /\ n \in 0 .. Rows - 1 /\ m \in 0 .. Rows
        /\ c \in Tvmrs /\ c \in SUBSET CmdTable
    BY DEF VDP1, FieldAssumed, Tvmrs
  <1>2. x = [z EXCEPT !.lost = s, !.late = c, !.old = c]
    BY DEF Cleared
  <1> HIDE DEF s, x, c, n, m
  <1>3. a \in VDP1 /\ a.hb = w.hb /\ a.ghost = w.ghost /\ a.behind = w.behind
    <2>1. a \in VDP1
      BY <1>1 DEF VDP1
    <2>2. a.hb = w.hb /\ a.ghost = w.ghost /\ a.behind = w.behind
      BY <1>1 DEF VDP1
    <2> QED
      BY <2>1, <2>2
  <1> HIDE DEF a
  <1>4. b \in VDP1 /\ b.hb = a.hb /\ b.ghost = a.ghost /\ b.behind = a.behind
    <2>1. b \in VDP1
      BY <1>1, <1>3 DEF VDP1
    <2>2. b.hb = a.hb /\ b.ghost = a.ghost /\ b.behind = a.behind
      BY <1>1, <1>3 DEF VDP1
    <2> QED
      BY <2>1, <2>2
  <1> HIDE DEF b
  <1>5. d \in VDP1 /\ d.hb = b.hb /\ d.ghost = b.ghost /\ d.behind = b.behind
    <2>1. d \in VDP1
      BY ZenonT(60), <1>1, <1>4 DEF VDP1
    <2>2. d.hb = b.hb /\ d.ghost = b.ghost /\ d.behind = b.behind
      BY <1>1, <1>4 DEF VDP1
    <2> QED
      BY <2>1, <2>2
  <1> HIDE DEF d
  <1>6. e \in VDP1 /\ e.hb = d.hb /\ e.ghost = d.ghost /\ e.behind = d.behind
    <2>1. e \in VDP1
      BY <1>1, <1>5 DEF VDP1
    <2>2. e.hb = d.hb /\ e.ghost = d.ghost /\ e.behind = d.behind
      BY <1>1, <1>5 DEF VDP1
    <2> QED
      BY <2>1, <2>2
  <1> HIDE DEF e
  <1>7. f \in VDP1 /\ f.hb = e.hb /\ f.ghost = e.ghost /\ f.behind = e.behind
    <2>1. f \in VDP1
      BY ZenonT(60), <1>1, <1>6 DEF VDP1
    <2>2. f.hb = e.hb /\ f.ghost = e.ghost /\ f.behind = e.behind
      BY <1>1, <1>6 DEF VDP1
    <2> QED
      BY <2>1, <2>2
  <1> HIDE DEF f
  <1>8. y \in VDP1 /\ y.hb = f.hb /\ y.ghost = f.ghost /\ y.behind = f.behind /\ y.ready = FALSE
    <2>1. y \in VDP1
      BY ZenonT(60), <1>1, <1>7 DEF VDP1
    <2>2. y.hb = f.hb /\ y.ghost = f.ghost /\ y.behind = f.behind /\ y.ready = FALSE
      BY <1>1, <1>7 DEF VDP1
    <2> QED
      BY <2>1, <2>2
  <1> HIDE DEF y
  <1>9. z \in VDP1
    BY ZenonT(60), <1>8 DEF VDP1
  <1>10. z.hb = y.hb /\ z.ghost = y.ghost /\ z.behind = y.behind /\ z.ready = y.ready
         /\ z.cut = TRUE /\ z.erasing = FALSE
    BY <1>8 DEF VDP1
  <1> HIDE DEF z
  <1>11. x \in VDP1
    BY ZenonT(60), <1>1, <1>2, <1>9 DEF VDP1
  <1>12. /\ x.hb = z.hb /\ x.cut = z.cut /\ x.erasing = z.erasing /\ x.ghost = z.ghost
         /\ x.behind = z.behind /\ x.lost = s /\ x.ready = z.ready
    BY <1>2, <1>9 DEF VDP1
  <1>13. x.behind = w.behind /\ x.ready = FALSE /\ x.hb = w.hb /\ x.ghost = w.ghost
    BY <1>3, <1>4, <1>5, <1>6, <1>7, <1>8, <1>10, <1>12
  <1>14. Lags(x)
    BY <1>12, <1>13 DEF Lags, s
  <1> QED
    BY <1>10, <1>11, <1>12, <1>13, <1>14 DEF x

LEMMA ResetKeeps ==
    ASSUME FieldAssumed, FInv, Reset
    PROVE  FInv'
  <1>1. v \in VDP1 /\ Heard /\ ~v.ghost /\ VCounter' = 0 /\ Out_VB' = FALSE /\ HPhase' = HPhase
    BY DEF FInv, Reset
  <1>2. PICK w \in {v, [v EXCEPT !.draw = v.show, !.show = v.draw]} : v' = Cleared(w)
    BY DEF Reset, Cleared
  <1>3. w \in VDP1 /\ w.hb = v.hb /\ w.ghost = v.ghost
    BY ZenonT(60), <1>1, <1>2 DEF VDP1
  <1>4. /\ v' \in VDP1 /\ v'.hb = v.hb /\ v'.cut = TRUE /\ v'.erasing = FALSE
        /\ v'.ghost = v.ghost /\ Lags(v')
    BY <1>2, <1>3, ClearedIs
  <1>5. 0 \in 0 .. Lines - 1 /\ 0 \notin Rows .. Lines - 2
    BY DEF FieldAssumed
  <1>6. Heard'
    BY <1>1, <1>4, <1>5 DEF Heard
  <1> QED
    BY <1>1, <1>4, <1>6, CutKeeps

LEMMA NextFInv ==
    ASSUME FieldAssumed, FInv, [NextFrame]_frameVars
    PROVE  FInv'
  <1>1. CASE UNCHANGED frameVars
    <2>1. v' = v /\ UNCHANGED <<game, VCounter, HPhase, Out_VB>>
      BY <1>1 DEF frameVars
    <2>2. v' \in VDP1 /\ Lags(v') /\ Same(v, v')
      BY <2>1 DEF FInv, Same, Kept
    <2> QED
      BY <2>1, <2>2, SameKeeps
  <1> QED
    BY <1>1, ActiveKeeps, RightBorderKeeps, HSyncKeeps, VDP2UpdateKeeps, ListKeeps, RegistersKeep,
       WriteVRAMKeeps, WriteFBKeeps, ResetKeeps DEF NextFrame

----------------------------------------------------------------------------
(* What follows.                                                           *)

\* A step of the beam within the display of a field that no reset has cut.
LEMMA ActiveSteady ==
    ASSUME FieldAssumed, FInv, Active, VCounter < Rows, ~v.cut
    PROVE  /\ v'.draw = v.draw
           /\ v'.show \subseteq v.show /\ v.show \ v'.show \subseteq (0 .. VCounter)
           /\ game = "instant" => v'.show = v.show
  <1> DEFINE u == GetLine(v)
  <1>1. v \in VDP1 /\ Heard /\ Erasing
    BY DEF FInv
  <1>2. HPhase = "hsync" /\ v' \in SetHBVB(u, FALSE, Out_VB)
    BY DEF Active
  <1>3. /\ u \in VDP1 /\ u.draw = v.draw
        /\ IF game # "instant" /\ v.EraseYCounter <= v.y_end
           THEN u.show = v.show \ {v.EraseYCounter}
           ELSE u.show = v.show
    BY <1>1, GetLineIs
  <1> HIDE DEF u
  <1>4. Out_VB \in BOOLEAN
    BY <1>1 DEF Heard
  <1>5. v' \in Stepped(u, FALSE, Out_VB)
    BY <1>2, SetHBVBIs DEF Turns
  <1>6. Unchanged(u, v')
    BY <1>3, <1>4, <1>5, SteppedIs
  <1>7. v'.draw = v.draw /\ v'.show = u.show
    BY <1>3, <1>6 DEF Unchanged, Kept
  <1>8. VCounter \in Nat /\ v.EraseYCounter \in Nat /\ v.y_end \in Nat /\ Rows \in Nat
    BY <1>1 DEF Heard, VDP1, FieldAssumed
  <1>9. Displayed = VCounter
    BY <1>2, <1>8 DEF Displayed
  <1>10. game # "instant" => v.EraseYCounter > v.y_end \/ v.EraseYCounter <= VCounter
    BY <1>1, <1>9 DEF Erasing
  <1> QED
    BY <1>3, <1>7, <1>8, <1>10

LEMMA RightBorderSteady ==
    ASSUME FieldAssumed, FInv, RightBorder, VCounter < Rows, ~v.cut
    PROVE  v'.draw = v.draw /\ v'.show = v.show
  <1>1. v \in VDP1 /\ Heard /\ Changing
    BY DEF FInv
  <1>2. v' \in SetHBVB(v, TRUE, Out_VB)
    BY DEF RightBorder
  <1>3. VCounter \in Nat /\ Rows \in Nat /\ VCounter # Lines - 1
    BY <1>1 DEF Heard, FieldAssumed
  <1>4. Out_VB \in BOOLEAN /\ ~Out_VB /\ v.vb = Out_VB
    BY <1>1, <1>3 DEF Heard, FieldAssumed
  <1>5. ~v.vbcdpending
    BY <1>1, <1>3, <1>4 DEF Changing
  <1>6. v' \in Stepped(v, TRUE, Out_VB)
    BY <1>2, <1>4, SetHBVBIs DEF Turns
  <1>7. Unchanged(v, v')
    BY <1>1, <1>4, <1>5, <1>6, SteppedIs
  <1> QED
    BY <1>7 DEF Unchanged, Kept

LEMMA HSyncSteady ==
    ASSUME FieldAssumed, FInv, HSync, VCounter < Rows, VCounter' < Rows, ~v.cut
    PROVE  v'.draw = v.draw /\ v'.show = v.show
  <1>1. v \in VDP1 /\ Heard /\ Changing
    BY DEF FInv
  <1>2. PICK w \in SetHBVB(v, TRUE, Out_VB') : v' = [w EXCEPT !.cut = @ /\ VCounter' # Rows]
    BY DEF HSync
  <1>3. HPhase = "border" /\ Out_VB' = (VCounter' \in Rows .. Lines - 2)
    BY DEF HSync
  <1>4. VCounter \in Nat /\ Rows \in Nat
    BY <1>1 DEF Heard, FieldAssumed
  <1>5. Out_VB' \in BOOLEAN
    BY <1>3, MembershipIs
  <1>6. ~v.vb /\ ~v.vbcdpending
    BY <1>1, <1>3, <1>4 DEF Heard, Changing
  <1>7. w \in Stepped(v, TRUE, Out_VB')
    BY <1>2, <1>6, SetHBVBIs DEF Turns
  <1>8. w \in VDP1 /\ Unchanged(v, w)
    BY <1>1, <1>5, <1>6, <1>7, SteppedIs
  <1>9. v'.draw = w.draw /\ v'.show = w.show
    BY <1>2, <1>8 DEF VDP1
  <1> QED
    BY <1>8, <1>9 DEF Unchanged, Kept

LEMMA Steady ==
    ASSUME FieldAssumed, FInv, [NextFrame]_frameVars,
           HPhase' # HPhase, VCounter < Rows, VCounter' < Rows, ~v.cut
    PROVE  /\ v'.draw = v.draw
           /\ v'.show \subseteq v.show /\ v.show \ v'.show \subseteq (0 .. VCounter)
           /\ game = "instant" => v'.show = v.show
  <1>1. Active \/ RightBorder \/ HSync
    BY DEF NextFrame, frameVars, VDP2Update, Update, WriteReg, WriteVRAM, WriteFB, Reset
  <1> QED
    BY <1>1, ActiveSteady, RightBorderSteady, HSyncSteady

LEMMA FInvHolds == SpecFrame => []FInv
  <1>0. FieldAssumed
    BY LinesAssumption DEF FieldAssumed
  <1>1. InitFrame => FInv
    BY <1>0, InitFInv
  <1>2. FInv /\ [NextFrame]_frameVars => FInv'
    BY <1>0, NextFInv
  <1> QED
    BY <1>1, <1>2, PTL DEF SpecFrame

\* Every variable of the beam and of VDP1 has its type.
THEOREM FrameTypes == SpecFrame => []FrameTypeOK
  <1>1. InitFrame => game \in Games
    BY DEF InitFrame
  <1>2. game \in Games /\ [NextFrame]_frameVars => (game \in Games)'
    <2> SUFFICES ASSUME [NextFrame]_frameVars PROVE UNCHANGED game
      OBVIOUS
    <2>1. CASE NextFrame
      BY <2>1, Zenon DEF NextFrame, Active, RightBorder, HSync, VDP2Update, Update, WriteReg,
                         WriteVRAM, WriteFB, Reset
    <2>2. CASE UNCHANGED frameVars
      BY <2>2 DEF frameVars
    <2> QED
      BY <2>1, <2>2
  <1>3. FInv /\ game \in Games => FrameTypeOK
    <2> SUFFICES ASSUME FInv, game \in Games PROVE FrameTypeOK
      OBVIOUS
    <2>1. v \in VDP1 /\ Heard
      BY DEF FInv
    <2>2. /\ v.draw \subseteq Row /\ v.show \subseteq Row
          /\ v.FBCRLatch \in {None} \cup [FCM : BOOLEAN, FCT : BOOLEAN]
      BY <2>1 DEF VDP1
    <2>3. v.EraseYCounter \in 0 .. Rows /\ v.y_end \in 0 .. Rows - 1
      BY <2>1 DEF VDP1
    <2>4. v.behind \cup v.fresh \cup v.late \cup v.lost \cup v.old \subseteq CmdTable
      BY <2>1 DEF VDP1
    <2>5. v.TVMR \in Tvmrs
      BY <2>1 DEF VDP1
    <2> QED
      BY <2>1, <2>2, <2>3, <2>4, <2>5 DEF Heard, FrameTypeOK
  <1> QED
    BY <1>1, <1>2, <1>3, FInvHolds, PTL DEF SpecFrame

\* NoGhosts: a buffer that was to be erased while it was shown is clean when drawing
\* gets it (SetHBVB, GetLine).
THEOREM GhostsNever == SpecFrame => []NoGhosts
  <1>1. FInv => NoGhosts
    BY DEF FInv, NoGhosts
  <1> QED
    BY <1>1, FInvHolds, PTL

\* LagsOnlyLate: only a command written behind the idle line of its frame is drawn from
\* an older copy (Write16_DB, SetHBVB).
THEOREM LagsLate == SpecFrame => []LagsOnlyLate
  <1>1. FInv => LagsOnlyLate
    BY DEF FInv, Lags, LagsOnlyLate
  <1> QED
    BY <1>1, FInvHolds, PTL

\* SteadyWhileShown: no exchange while a field is displayed, and no row erased ahead of
\* the beam (SetHBVB, GetLine).
THEOREM DisplayIsSteady == SpecFrame => SteadyWhileShown
  <1>0. FieldAssumed
    BY LinesAssumption DEF FieldAssumed
  <1>1. FInv /\ [NextFrame]_frameVars =>
          [HPhase' # HPhase /\ VCounter < Rows /\ VCounter' < Rows /\ ~v.cut =>
             /\ v'.draw = v.draw
             /\ v'.show \subseteq v.show /\ v.show \ v'.show \subseteq (0 .. VCounter)
             /\ game = "instant" => v'.show = v.show]_frameVars
    BY <1>0, Steady
  <1> QED
    BY <1>1, FInvHolds, PTL DEF SpecFrame, SteadyWhileShown

=============================================================================
