------------------------------- MODULE Events -------------------------------
(***************************************************************************)
(* The event scheduler and the execution loop of src/mednafen/ss/ss.cpp:   *)
(* the time-ordered list of events, SS_SetEventNT, ForceEventUpdates,      *)
(* EventHandler (called by the loop and, through CheckEventsByMemTS, from  *)
(* inside a bus access), the two requests that break out of the loop, the  *)
(* switching of the slave SH-2, and the rebasing of every timestamp when   *)
(* an emulated frame ends.                                                 *)
(*                                                                         *)
(* Five of the eleven events stand for all: the DMA of the slave SH-2      *)
(* (enabled with that CPU, and itself a bus master), SMPC, VDP1, VDP2 and  *)
(* MIDSYNC, in the order of the enumeration.  What a device does is        *)
(* abstracted to when it was last brought up to date, which events its     *)
(* handler moves, and which exit of the loop it asks for.  Time is a small *)
(* integer; a frame is over when VDP2 reaches FrameTime.                   *)
(*                                                                         *)
(* Everything below runs on one thread.  The hazard is re-entrance: a      *)
(* handler reached from a bus access moves events of a list that an outer  *)
(* loop is walking, and changes Running and next_event_ts under it.        *)
(***************************************************************************)
EXTENDS Integers, FiniteSets, SequencesExt

CONSTANTS
  FrameTime,  \* when VDP2 reaches the line that ends the frame
  Slack,      \* how far past FrameTime the bus may carry the clock
  Delays,     \* how far ahead a device asks to be called again
  MaxStep     \* how far one turn of the loop may carry the clock

LastTime == FrameTime + Slack
TurnsCap == 3                     \* where counting turns stops
DISABLED == 1000 * LastTime       \* SS_EVENT_DISABLED_TS, past any real time
Time == 0 .. DISABLED

(* No event of a running device is put off as far as DISABLED: in the code
   that is two orders of magnitude past the longest of these delays. *)
ASSUME EventsAssumption ==
  /\ FrameTime \in Nat \ {0}
  /\ Slack \in Nat
  /\ MaxStep \in Nat \ {0}
  /\ Delays \subseteq Nat \ {0} /\ Delays # {}
  /\ \A d \in Delays : LastTime + d < DISABLED

Enum == <<"SDMA", "SMPC", "VDP1", "VDP2", "MIDSYNC">>
Event == ToSet(Enum)
Device == {"SMPC", "VDP1", "VDP2"}

(* `s` holds what handlers change: the list (queue and time), Running,
   next_event_ts (next), SlaveSH2Pending (pending) and, per device, the time
   it was last updated to (last).  `asked` and `turns` record the strongest
   exit asked for, and the turns of the loop since. *)
VARIABLES s, SlaveSH2On, mem_ts, eff_ts, pc, evnum

vars == <<s, SlaveSH2On, mem_ts, eff_ts, pc, evnum>>

PC == {"start", "force", "step", "nested", "access", "events",
       "forceEnd", "rebase", "between"}

TypeOK ==
  /\ s \in [queue : Seq(Event), time : [Event -> Time],
            Running : {-1, 0, 1}, next : Time,
            pending : {-1, 0, 1}, last : [Device -> Time],
            asked : {"no", "ehl", "ml"}, turns : 0 .. TurnsCap]
  /\ Len(s.queue) = Len(Enum) /\ IsInjective(s.queue)
  /\ SlaveSH2On \in BOOLEAN
  /\ mem_ts \in 0 .. LastTime /\ eff_ts \in 0 .. LastTime
  /\ pc \in PC /\ evnum \in 1 .. Len(Enum) + 1

----------------------------------------------------------------------------
(* The list *)

First(S) == S.queue[1]
HeadTime(S) == S.time[First(S)]
NextTs(S) == IF S.Running > 0 THEN HeadTime(S) ELSE 0

BadEarlier(S, e, nt) ==     \* mutant: not unlinked from its old place
  LET p == CHOOSE i \in DOMAIN S.queue : S.queue[i] = e
      behind == Max({0} \cup {i \in 1 .. p - 1 : S.time[S.queue[i]] <= nt})
  IN  InsertAt(S.queue, behind + 1, e)

(* The two walks of SS_SetEventNT.  An event that moves earlier goes behind
   the last one, walking back from it, that is not later; one that moves later
   goes before the first one, walking on from it, that is not earlier. *)
Earlier(S, e, nt) ==
  LET p == CHOOSE i \in DOMAIN S.queue : S.queue[i] = e
      behind == Max({0} \cup {i \in 1 .. p - 1 : S.time[S.queue[i]] <= nt})
  IN  InsertAt(RemoveAt(S.queue, p), behind + 1, e)

BadLater(S, e, nt) ==     \* mutant: compares with the event's old time
  LET n == Len(S.queue)
      p == CHOOSE i \in DOMAIN S.queue : S.queue[i] = e
      before == Min({n + 1} \cup {i \in p + 1 .. n : S.time[S.queue[i]] >= S.time[e]})
  IN  InsertAt(RemoveAt(S.queue, p), before - 1, e)

Later(S, e, nt) ==
  LET n == Len(S.queue)
      p == CHOOSE i \in DOMAIN S.queue : S.queue[i] = e
      before == Min({n + 1} \cup {i \in p + 1 .. n : S.time[S.queue[i]] >= nt})
  IN  InsertAt(RemoveAt(S.queue, p), before - 1, e)

Relinked(S, e, nt) ==
  CASE nt < S.time[e] -> Earlier(S, e, nt)
    [] nt > S.time[e] -> Later(S, e, nt)
    [] OTHER -> S.queue

BadSetEventNT(S, e, nt) ==     \* mutant: forgets that an exit is pending
  LET moved == [S EXCEPT !.queue = Relinked(S, e, nt), !.time[e] = nt]
  IN  [moved EXCEPT !.next = HeadTime(moved)]

SetEventNT(S, e, nt) ==
  LET moved == [S EXCEPT !.queue = Relinked(S, e, nt), !.time[e] = nt]
  IN  [moved EXCEPT !.next = NextTs(moved)]

(* Leaving the loop: for good (ML), or to switch the slave CPU (EHL). *)
RequestMLExit(S) == [S EXCEPT !.Running = 0, !.next = 0, !.asked = "ml"]

BadRequestEHLExit(S) ==     \* mutant: also when the frame is over
  [S EXCEPT !.Running = -1, !.next = 0,
            !.asked = IF S.asked = "no" THEN "ehl" ELSE S.asked]

RequestEHLExit(S) ==
  IF S.Running = 0 THEN S
  ELSE [S EXCEPT !.Running = -1, !.next = 0,
                 !.asked = IF S.asked = "no" THEN "ehl" ELSE S.asked]

----------------------------------------------------------------------------
(* What the handlers do: each operator is the set of states that may follow
   bringing the device up to date at ts and setting its event. *)

Updated(S, d, ts) == [S EXCEPT !.last[d] = ts]

Vdp1Update(S, ts) ==
  {SetEventNT(Updated(S, "VDP1", ts), "VDP1", ts + d) : d \in Delays}

(* A command may switch the slave on or off: SSHON waits until it has been
   done, SSHOFF and CKCHG need the slave on. *)
SlaveSwitches(S) ==
  {[S EXCEPT !.pending = v] :
     v \in IF SlaveSH2On THEN {-1} ELSE IF S.pending = 0 THEN {1} ELSE {}}

SmpcCommand(S, ts) ==
  {S, SetEventNT(S, "MIDSYNC", ts + 1)}
    \cup {RequestEHLExit(X) : X \in SlaveSwitches(S)}

SmpcUpdate(S, ts) ==
  {SetEventNT(X, "SMPC", ts + d) :
     X \in SmpcCommand(Updated(S, "SMPC", ts), ts), d \in Delays}

BadSetVBVS(S, ts) ==     \* mutant: SMPC is to be called at once
  SetEventNT(IF S.time["MIDSYNC"] = DISABLED
               THEN SetEventNT(S, "MIDSYNC", ts + 1) ELSE S,
             "SMPC", ts)

(* SMPC_SetVBVS when vblank begins; when it ends, only SMPC is called *)
SetVBVS(S, ts) ==
  SetEventNT(IF S.time["MIDSYNC"] = DISABLED
               THEN SetEventNT(S, "MIDSYNC", ts + 1) ELSE S,
             "SMPC", ts + 1)

(* A line of VDP2: nothing to report, the bottom border, vblank, or, once,
   the line that ends the frame. *)
Lines(S, ts) ==
  IF ts >= FrameTime /\ S.Running # 0
    THEN {RequestMLExit(S)}
    ELSE {S, SetEventNT(S, "SMPC", ts + 1),
          SetVBVS(S, ts), SetVBVS(SetEventNT(S, "MIDSYNC", ts + 1), ts)}

(* VDP1::SetHBVB, called last, may start a drawing list. *)
Vdp2Update(S, ts) ==
  {SetEventNT(X, "VDP2",
              IF ts < FrameTime /\ ts + d > FrameTime THEN FrameTime ELSE ts + d) :
     X \in UNION {{L} \cup Vdp1Update(L, ts) : L \in Lines(Updated(S, "VDP2", ts), ts)},
     d \in Delays}

(* A write to a register of a device, at the time of the bus.  VDP1 and SMPC
   bring VDP2 up to date first. *)
DeviceAccess(S, ts) ==
  Vdp2Update(S, ts)
    \cup UNION {Vdp1Update(X, ts) \cup SmpcUpdate(X, ts) : X \in Vdp2Update(S, ts)}

(* SH_DMA_EventHandler: not before the bus is that far; later when the bus is
   locked; otherwise transfers, which may write to a device. *)
DmaUpdate(S, ts) ==
  IF ts < mem_ts
    THEN {SetEventNT(S, "SDMA", mem_ts)}
    ELSE {SetEventNT(S, "SDMA", ts + 1)}
           \cup {SetEventNT(X, "SDMA", ts + d) :
                   X \in {S} \cup DeviceAccess(S, mem_ts), d \in Delays}

(* MidSync is done once asked for. *)
MidSync(S) == {SetEventNT(S, "MIDSYNC", DISABLED)}

Handled(S, e, ts) ==
  CASE e = "SDMA" -> DmaUpdate(S, ts)
    [] e = "SMPC" -> SmpcUpdate(S, ts)
    [] e = "VDP1" -> Vdp1Update(S, ts)
    [] e = "VDP2" -> Vdp2Update(S, ts)
    [] e = "MIDSYNC" -> MidSync(S)

----------------------------------------------------------------------------
(* RunLoop *)

(* InitEvents, with the slave off *)
Init ==
  /\ s = [queue |-> <<"SMPC", "VDP1", "VDP2", "SDMA", "MIDSYNC">>,
          time |-> [e \in Event |-> IF e \in Device THEN 0 ELSE DISABLED],
          Running |-> 0, next |-> 0, pending |-> 0,
          last |-> [d \in Device |-> 0], asked |-> "no", turns |-> 0]
  /\ SlaveSH2On = FALSE
  /\ mem_ts = 0 /\ eff_ts = 0
  /\ pc = "start" /\ evnum = 1

(* SetActive: the DMA event lives and dies with the CPU. *)
BadSetActive(S, on) ==     \* mutant: leaves the event of a CPU switched off
  IF on /\ ~SlaveSH2On THEN SetEventNT(S, "SDMA", mem_ts + 1) ELSE S

SetActive(S, on) ==
  CASE on /\ ~SlaveSH2On -> SetEventNT(S, "SDMA", mem_ts + 1)
    [] ~on /\ SlaveSH2On -> SetEventNT(S, "SDMA", DISABLED)
    [] OTHER -> S

(* SMPC_ProcessSlaveOffOn *)
BadSwitchSlave(S) ==     \* mutant: only a switch on is seen
  IF S.pending <= 0 THEN S
  ELSE [SetActive(S, S.pending > 0) EXCEPT !.pending = 0]

SwitchSlave(S) ==
  IF S.pending = 0 THEN S
  ELSE [SetActive(S, S.pending > 0) EXCEPT !.pending = 0]

StartLoop ==
  /\ pc = "start"
  /\ s' = [SwitchSlave(s) EXCEPT !.Running = 1,
                                 !.asked = IF s.asked = "ehl" THEN "no" ELSE @,
                                 !.turns = IF s.asked = "ehl" THEN 0 ELSE @]
  /\ SlaveSH2On' = IF s.pending = 0 THEN SlaveSH2On ELSE s.pending > 0
  /\ pc' = "force" /\ evnum' = 1
  /\ UNCHANGED <<mem_ts, eff_ts>>

(* ForceEventUpdates, one event at a time, in the order of the enumeration *)
ForceEventUpdates(end) ==
  IF evnum <= Len(Enum)
    THEN /\ IF s.time[Enum[evnum]] = DISABLED
              THEN UNCHANGED s
              ELSE s' \in Handled(s, Enum[evnum], eff_ts)
         /\ evnum' = evnum + 1
         /\ UNCHANGED pc
    ELSE /\ s' = [s EXCEPT !.next = NextTs(s)]
         /\ pc' = end
         /\ evnum' = 1

ForceFirst ==
  /\ pc = "force"
  /\ ForceEventUpdates("step")
  /\ UNCHANGED <<SlaveSH2On, mem_ts, eff_ts>>

(* One turn of the inner loop ends: the clock of the master may have moved,
   and the bus may be ahead of it. *)
Turn ==
  /\ pc = "step"
  /\ \E t \in eff_ts .. eff_ts + MaxStep :
       /\ t <= LastTime
       /\ eff_ts' = IF mem_ts > t THEN mem_ts ELSE t
       /\ mem_ts' = eff_ts'
       /\ pc' = IF eff_ts' < s.next THEN "step" ELSE "events"
  /\ s' = [s EXCEPT !.turns = IF s.asked = "no" THEN 0 ELSE Min({@ + 1, TurnsCap})]
  /\ UNCHANGED <<SlaveSH2On, evnum>>

(* A bus access of either CPU in the middle of a turn: it moves the time of
   the bus, and handles the events due by then before it reaches the device. *)
BusAccess ==
  /\ pc = "step"
  /\ \E t \in mem_ts .. mem_ts + MaxStep :
       /\ t <= LastTime
       /\ mem_ts' = t
       /\ pc' = IF t >= s.next THEN "nested" ELSE "access"
  /\ UNCHANGED <<s, SlaveSH2On, eff_ts, evnum>>

Access ==
  /\ pc = "access"
  /\ s' \in DeviceAccess(s, mem_ts)
  /\ pc' = "step"
  /\ UNCHANGED <<SlaveSH2On, mem_ts, eff_ts, evnum>>

(* EventHandler: from an access up to the time of the bus, from the loop up
   to the time of the turn. *)
Due == HeadTime(s) <= (IF pc = "nested" THEN mem_ts ELSE eff_ts)

EventHandler ==
  /\ pc \in {"nested", "events"}
  /\ Due
  /\ s' \in Handled(s, First(s), HeadTime(s))
  /\ UNCHANGED <<SlaveSH2On, mem_ts, eff_ts, pc, evnum>>

EventHandlerDone ==
  /\ pc \in {"nested", "events"}
  /\ ~Due
  /\ pc' = CASE pc = "nested" -> "access"
             [] pc = "events" /\ s.Running > 0 -> "step"
             [] pc = "events" /\ s.Running < 0 -> "start"
             [] OTHER -> "forceEnd"
  /\ UNCHANGED <<s, SlaveSH2On, mem_ts, eff_ts, evnum>>

(* Emulate: the frame is over. *)
ForceLast ==
  /\ pc = "forceEnd"
  /\ ForceEventUpdates("rebase")
  /\ UNCHANGED <<SlaveSH2On, mem_ts, eff_ts>>

(* RebaseTS and the AdjustTS of every device *)
RebaseTS ==
  /\ pc = "rebase"
  /\ LET rebased == [s EXCEPT !.time = [e \in Event |-> IF s.time[e] = DISABLED
                                                          THEN DISABLED
                                                          ELSE s.time[e] - eff_ts],
                              !.last = [d \in Device |-> s.last[d] - eff_ts],
                              !.asked = "no", !.turns = 0]
     IN  s' = [rebased EXCEPT !.next = HeadTime(rebased)]
  /\ mem_ts' = mem_ts - eff_ts
  /\ eff_ts' = 0
  /\ pc' = "between"
  /\ UNCHANGED <<SlaveSH2On, evnum>>

NextFrame ==
  /\ pc = "between"
  /\ pc' = "start"
  /\ UNCHANGED <<s, SlaveSH2On, mem_ts, eff_ts, evnum>>

(* SMPC_Reset, part of SS_Reset: between frames *)
Reset ==
  /\ pc = "between"
  /\ s' = [SetActive(s, FALSE) EXCEPT !.pending = 0]
  /\ SlaveSH2On' = FALSE
  /\ UNCHANGED <<mem_ts, eff_ts, pc, evnum>>

Next ==
  \/ StartLoop \/ ForceFirst \/ Turn \/ BusAccess \/ Access
  \/ EventHandler \/ EventHandlerDone
  \/ ForceLast \/ RebaseTS \/ NextFrame \/ Reset

Spec == Init /\ [][Next]_vars

----------------------------------------------------------------------------
(* Properties *)

(* Whenever the CPUs run or a device register is reached, no event up to the
   clock the code goes by is left unhandled, and next_event_ts is the head of
   the list, or 0 while an exit is pending: nothing an access did to the list
   or to Running is hidden from the inner loop, which looks at next_event_ts
   only. *)
NothingOverdue ==
  /\ pc \in {"step", "access"} => HeadTime(s) > eff_ts
  /\ pc = "access" => HeadTime(s) > mem_ts
  /\ pc = "step" => s.next = NextTs(s)

(* A device is never brought up to date at a time earlier than it was before:
   the condition that VDP1::Update, VDP2::Update report as a [BUG] and that
   SMPC_Write brings VDP2 up to date for.  Only the end of a frame moves the
   origin of time. *)
InTemporalOrder ==
  [][pc # "rebase" => \A d \in Device : s'.last[d] >= s.last[d]]_vars

(* After an exit is asked for, in a handler at any depth, at most one more
   turn of the loop is executed: a frame that is over is not prolonged, nor
   is a switch of the slave put off. *)
PromptExit == s.turns <= 1

(* The CPUs do not run on with a switch of the slave still to be made, unless
   the loop is already on its way out: a request that comes while the frame
   is ending, or during the forced updates, is not forgotten. *)
SwitchStops == pc = "step" /\ s.pending # 0 => s.Running <= 0

(* The assertion of RebaseTS: when timestamps are rebased no event is left at
   or before the end of the frame. *)
RebaseHolds == pc = "rebase" => HeadTime(s) > eff_ts

(* The DMA event of the slave is live exactly while the slave is on (the
   assertion of DMA_Update). *)
DmaWithSlave == (s.time["SDMA"] # DISABLED) <=> SlaveSH2On

=============================================================================
