------------------------------ MODULE SoundInt ------------------------------
(***************************************************************************)
(* How the SCSP's main-CPU interrupt crosses from the sound thread to the  *)
(* SCU (src/mednafen/ss/sound.cpp): the thread posts transitions in the    *)
(* atomic SMainIntEvents, and SOUND_Update replays them into the SCU       *)
(* (ScuInt.tla) on the emulation thread ("main"), which runs the CPUs too. *)
(* Without a thread the SCSP calls SCU_SetInt itself.                      *)
(*                                                                         *)
(* SoundQueue.tla models the queue that makes the thread run; here it just *)
(* runs.  edge, due and stale are history variables.  Operators named      *)
(* Bad... are plausible bugs; no specification uses them.                  *)
(***************************************************************************)
EXTENDS ScuInt

CONSTANT SavedMasks     \* bound: states are saved with these masks, and a quiet SCU

VARIABLES
    SThreaded,
    mci,                \* (MCIPD & MCIEB) # 0: the line the SCSP drives
    spc,                \* sound thread: "run", or "clear" inside a fall
    SMainIntEvents,     \* bits 0, 1, 2: a subset of {"rose", "fell", "level"}
    mpc, ev,            \* main: "ready", replaying the "rise" or "fall" of ev
    snap,               \* the SCSP's and the SCU's part of a saved state
    edge, due,          \* mci rose since the last exchange; ... before this one
    stale               \* a state was loaded over events not exchanged yet

threadVars == <<mci, spc>>
replayVars == <<mpc, ev, due>>
histVars   == <<edge, stale>>
vars == <<SThreaded, threadVars, SMainIntEvents, replayVars, scu, snap, histVars>>

Events == {"rose", "fell", "level"}

Init ==
    /\ SThreaded = FALSE /\ mci = FALSE /\ spc = "run" /\ SMainIntEvents = {}
    /\ mpc = "ready" /\ ev = {} /\ due = FALSE /\ edge = FALSE /\ stale = FALSE
    /\ ScuInit
    /\ snap = [mci |-> FALSE, scu |-> ScuReset({})]

----------------------------------------------------------------------------
(* The SCU.                                                                *)

\* Its input from the SCSP, and an interrupt of the SCSP that the CPU has still to take.
High(u)  == SCSP \in u.IAsserted
Owing(u) == SCSP \in u.IPending \/ u.IVec = SCSP

\* The CPUs and the other devices use it between two updates of the sound.
Others ==
    /\ mpc = "ready" /\ ScuNext
    /\ UNCHANGED <<SThreaded, threadVars, SMainIntEvents, replayVars, snap, histVars>>

----------------------------------------------------------------------------
(* SCSP_MainIntChanged(state), called by every RecalcMainInt.              *)

\* What a rise, and the first step of a fall, leave in SMainIntEvents.
Posted(state) == SMainIntEvents \union (IF state THEN {"rose", "level"} ELSE {"fell"})

ChangedInline(state) ==
    /\ ~SThreaded /\ mpc = "ready"
    /\ mci' = state
    /\ scu' = SetInt(scu, SCSP, state)
    /\ UNCHANGED <<SThreaded, spc, SMainIntEvents, replayVars, snap, histVars>>

ChangedThreaded(state) ==
    /\ SThreaded /\ spc = "run"
    /\ mci' = state
    /\ SMainIntEvents' = Posted(state)
    /\ spc' = IF state THEN "run" ELSE "clear"
    /\ edge' = (edge \/ (state /\ ~mci))
    /\ UNCHANGED <<SThreaded, replayVars, scu, snap, stale>>

\* The second step of a fall.
Cleared(events) == events \ {"level"}
ClearLevel ==
    /\ spc = "clear"
    /\ SMainIntEvents' = Cleared(SMainIntEvents)
    /\ spc' = "run"
    /\ UNCHANGED <<SThreaded, mci, replayVars, scu, snap, histVars>>

----------------------------------------------------------------------------
(* Main.                                                                   *)

BadFreshEvents == SMainIntEvents
\* SMainIntEvents.store(0)
FreshEvents == {}

SoundThread_Start ==
    /\ ~SThreaded /\ mpc = "ready"
    /\ SThreaded' = TRUE
    /\ SMainIntEvents' = FreshEvents /\ edge' = FALSE /\ stale' = FALSE
    /\ UNCHANGED <<threadVars, replayVars, scu, snap>>

\* SS_Reset when the next game is loaded, without a thread: the SCU's and the SCSP's.
PowerOn == scu' = ScuReset({}) /\ mci' = FALSE

\* SOUND_Kill, then the next game.
Restart ==
    /\ SThreaded /\ spc = "run" /\ mpc = "ready"
    /\ SThreaded' = FALSE
    /\ PowerOn
    /\ UNCHANGED <<spc, SMainIntEvents, replayVars, snap, histVars>>

\* SOUND_Update: the exchange ...
Exchange ==
    /\ SThreaded /\ mpc = "ready"
    /\ ev' = SMainIntEvents /\ SMainIntEvents' = {}
    /\ due' = edge /\ edge' = FALSE
    /\ mpc' = "rise"
    /\ UNCHANGED <<SThreaded, threadVars, scu, snap, stale>>

\* ... then the rise ...
ReplayRise ==
    /\ mpc = "rise"
    /\ scu' = IF "rose" \in ev THEN SetInt(scu, SCSP, TRUE) ELSE scu
    /\ mpc' = "fall"
    /\ UNCHANGED <<SThreaded, threadVars, SMainIntEvents, ev, due, snap, histVars>>

BadFalls == "fell" \in ev
Falls == "fell" \in ev /\ "level" \notin ev
\* ... then the fall, unless the level is high again.
ReplayFall ==
    /\ mpc = "fall"
    /\ scu' = IF Falls THEN SetInt(scu, SCSP, FALSE) ELSE scu
    /\ mpc' = "ready" /\ ev' = {} /\ due' = FALSE /\ stale' = FALSE
    /\ UNCHANGED <<SThreaded, threadVars, SMainIntEvents, snap, edge>>

----------------------------------------------------------------------------
(* Saved states.  SOUND_StateAction has drained the queue; the mailbox is  *)
(* not part of the state.                                                  *)

Quiet == /\ scu.IAsserted \union scu.IPending \subseteq {SCSP} /\ scu.ABusIProhibit = {}
         /\ scu.IMask \in SavedMasks

SaveState ==
    /\ mpc = "ready" /\ spc = "run" /\ Quiet
    /\ snap' = [mci |-> mci, scu |-> scu]
    /\ UNCHANGED <<SThreaded, threadVars, SMainIntEvents, replayVars, scu, histVars>>

BadReposted(state) == SMainIntEvents
\* SS_SCSP::StateAction ends with RecalcMainInt: the loaded level is posted.
Reposted(state) == IF state THEN Posted(TRUE) ELSE Cleared(Posted(FALSE))

LoadState ==
    /\ mpc = "ready" /\ spc = "run"
    /\ mci' = snap.mci
    /\ IF SThreaded
       THEN scu' = snap.scu /\ SMainIntEvents' = Reposted(snap.mci)
       ELSE scu' = SetInt(snap.scu, SCSP, snap.mci) /\ UNCHANGED SMainIntEvents
    /\ edge' = (snap.mci /\ ~High(snap.scu))
    /\ stale' = (stale \/ SMainIntEvents # {})
    /\ UNCHANGED <<SThreaded, spc, replayVars, snap>>

----------------------------------------------------------------------------
Changed == \E state \in BOOLEAN : ChangedInline(state) \/ ChangedThreaded(state)

Replay == Exchange \/ ReplayRise \/ ReplayFall

Next == \/ Changed \/ ClearLevel \/ SoundThread_Start \/ Restart \/ Replay \/ Others
        \/ SaveState \/ LoadState

Spec == Init /\ [][Next]_vars

\* The SOUND event recurs, and a fall that has begun is completed.
FairSpec == Spec /\ WF_vars(Replay) /\ WF_vars(ClearLevel)

----------------------------------------------------------------------------
(* Properties.                                                             *)

\* Every variable has its type; the level bit is never there without a rise.
TypeOK ==
    /\ SThreaded \in BOOLEAN /\ mci \in BOOLEAN /\ spc \in {"run", "clear"}
    /\ SMainIntEvents \subseteq Events
    /\ mpc \in {"ready", "rise", "fall"} /\ ev \subseteq Events
    /\ scu \in ScuState /\ snap \in [mci : BOOLEAN, scu : ScuState]
    /\ edge \in BOOLEAN /\ due \in BOOLEAN /\ stale \in BOOLEAN
    /\ spc = "clear" => SThreaded /\ ~mci
    /\ \A events \in {SMainIntEvents, ev} : "level" \in events => "rose" \in events

\* A level that is high is not lost, whatever falls and rises were merged into one
\* exchange and whatever states were loaded in between: the SCU has it, or the
\* rise is still on its way (SCSP_MainIntChanged, SOUND_Update, StateAction).
HighNotLost ==
    SThreaded /\ mci => \/ "rose" \in SMainIntEvents
                        \/ mpc = "rise" /\ "rose" \in ev
                        \/ High(scu) /\ (mpc = "ready" \/ ~Falls)

\* The step that replays a rise.
Replays == mpc = "rise" /\ mpc' = "fall"

\* Replaying sets the pending bit only for a line that really rose since the
\* exchange before: no fall, repeated recalculation, restart or half-posted fall
\* makes an interrupt of its own; only events left behind by the timeline that a
\* loaded state ended can (SOUND_Update, SOUND_StateAction).
NoSpurious == [][Replays /\ ~Owing(scu) /\ Owing(scu') => due \/ stale]_vars

\* A line that stays high reaches the SCU (SOUND_Update recurs).
HighArrives == SThreaded /\ mci ~> High(scu) \/ ~mci \/ ~SThreaded

\* "bit 2 = current level": with nothing posted and nothing being replayed, the
\* SCU's input is the level of the line.
LevelFollows ==
    SThreaded /\ spc = "run" /\ mpc = "ready" /\ SMainIntEvents = {} => (High(scu) <=> mci)

=============================================================================
