--------------------------- MODULE SoundIntProofs ---------------------------
(***************************************************************************)
(* NoneHeldBack of ScuInt.tla: the SCU holds no interrupt back.            *)
(* HighNotLost and NoSpurious of SoundInt.tla: no rise of the SCSP's line  *)
(* is lost in the mailbox and none is invented there.                      *)
(* FetchesPushed and AccessSeesAll of SoundWake.tla: the memory order of   *)
(* the queue's atomics is enough.                                          *)
(***************************************************************************)
EXTENDS SoundInt, SoundWake, ModArith, SequenceTheorems, WellFoundedInduction, TLAPS

----------------------------------------------------------------------------
(* The SCU's operators.                                                    *)

\* A set of numbers that is not empty has a lowest one.
LEMMA LowestIn ==
    ASSUME NEW S \in SUBSET Nat, S # {}
    PROVE  Lowest(S) \in S
<1>1. PICK x \in S : \A y \in S : ~(<<y, x>> \in OpToRel(<, Nat))
  BY WFMin, NatLessThanWellFounded
<1>2. ASSUME NEW y \in S PROVE x <= y
  <2>1. <<y, x>> \in Nat \X Nat /\ <<y, x>>[1] = y /\ <<y, x>>[2] = x OBVIOUS
  <2>2. y < x => <<y, x>> \in OpToRel(<, Nat) BY <2>1, Zenon DEF OpToRel
  <2>3. ~(y < x) BY <1>1, <2>2
  <2> QED BY <2>1, <2>3
<1> QED BY <1>2 DEF Lowest

\* One of the interrupts that may be taken is chosen.
LEMMA ChosenIn ==
    ASSUME NEW open \in SUBSET Sources, open # {}
    PROVE  Chosen(open) \in open
<1> DEFINE wi == open \ External
           we == open \ wi
<1>1. wi \in SUBSET Nat /\ we \in SUBSET Nat BY SourcesAssumption DEF Internal, External
<1>2. wi # {} => Lowest(wi) \in wi BY <1>1, LowestIn
<1>3. we # {} => Lowest(we) \in we BY <1>1, LowestIn
<1>4. wi # {} \/ we # {} OBVIOUS
<1>5. Chosen(open) \in {Lowest(we), Lowest(wi)} /\ (we = {} => Chosen(open) = Lowest(wi))
      /\ (wi = {} /\ we # {} => Chosen(open) = Lowest(we))
  BY DEF Chosen
<1> QED BY <1>2, <1>3, <1>4, <1>5

LEMMA LevelType ==
    ASSUME NEW s \in Sources
    PROVE  Level(s) \in 1 .. 15
<1>1. CASE s \in 0 .. 13
  BY <1>1 DEF Level, internal_tab
<1>2. CASE s \in 16 .. 31
  BY <1>2 DEF Level, external_tab
<1> QED BY <1>1, <1>2, SourcesAssumption DEF Internal, External

LEMMA SourceNot == NoVector \notin Sources
  BY SourcesAssumption DEF NoVector, Internal, External

\* CheckDoMasterInt changes no input, makes no interrupt, and leaves none held back.
LEMMA CheckKeeps ==
    ASSUME NEW u \in ScuState, NEW w, w = CheckDoMasterInt(u)
    PROVE  /\ w \in ScuState /\ w.IAsserted = u.IAsserted
           /\ Owing(w) => Owing(u)
           /\ u.IRL = ILevel(u) => Settled(w)
<1> DEFINE s == Chosen(Unmasked(u))
<1>1. CASE u.IVec # NoVector \/ Unmasked(u) = {}
  BY <1>1 DEF CheckDoMasterInt, Settled
<1>2. CASE u.IVec = NoVector /\ Unmasked(u) # {}
  <2>1. Unmasked(u) \subseteq u.IPending /\ u.IPending \subseteq Sources
    BY DEF Unmasked, ScuState
  <2>2. s \in u.IPending /\ s \in Sources
    <3>1. s \in Unmasked(u) BY <1>2, <2>1, ChosenIn
    <3> QED BY <2>1, <3>1
  <2>3. w = [u EXCEPT !.IPending = @ \ {s}, !.IVec = s, !.IRL = Level(s)]
    BY <1>2 DEF CheckDoMasterInt
  <2> HIDE DEF s
  <2>4. Level(s) \in 0 .. 15 BY <2>2, LevelType
  <2>5. /\ w \in ScuState /\ w.IAsserted = u.IAsserted
        /\ w.IPending = u.IPending \ {s} /\ w.IVec = s /\ w.IRL = Level(s)
    BY <2>2, <2>3, <2>4 DEF ScuState
  <2>6. s # NoVector BY <2>2, SourceNot
  <2> QED BY <2>2, <2>5, <2>6 DEF Owing, Settled, ILevel
<1> QED BY <1>1, <1>2

LEMMA ABusKeeps ==
    ASSUME NEW u \in ScuState, NEW w, w = ABusIRQCheck(u)
    PROVE  /\ w \in ScuState /\ w.IAsserted = u.IAsserted
           /\ Owing(w) => Owing(u)
           /\ Settled(u) => Settled(w)
<1> DEFINE high == u.IAsserted \intersect External
           tt   == high \ u.ABusIProhibit
           x    == [u EXCEPT !.IPending = @ \union tt, !.ABusIProhibit = @ \union high]
<1>1. /\ x \in ScuState /\ x.IAsserted = u.IAsserted /\ x.IPending = u.IPending \union tt
      /\ x.IVec = u.IVec /\ x.IRL = u.IRL /\ x.IMask = u.IMask
  BY DEF ScuState
<1>2. SCSP \notin tt BY DEF SCSP, External
<1>3. Owing(x) => Owing(u) BY <1>1, <1>2 DEF Owing
<1>4. ILevel(x) = ILevel(u) BY <1>1 DEF ILevel
<1>5. w = IF tt = {} THEN x ELSE CheckDoMasterInt(x) BY DEF ABusIRQCheck
<1> HIDE DEF x
<1>6. CASE tt = {}
  <2>1. w = x /\ Unmasked(x) = Unmasked(u) BY <1>1, <1>5, <1>6 DEF Unmasked
  <2> QED BY <1>1, <1>3, <1>4, <2>1 DEF Settled
<1>7. CASE tt # {}
  <2>1. w = CheckDoMasterInt(x) BY <1>5, <1>7
  <2>2. /\ w \in ScuState /\ w.IAsserted = x.IAsserted
        /\ Owing(w) => Owing(x)
        /\ x.IRL = ILevel(x) => Settled(w)
    BY <1>1, <2>1, CheckKeeps
  <2> QED BY <1>1, <1>3, <1>4, <2>2 DEF Settled
<1> QED BY <1>6, <1>7

\* SCU_SetInt changes the one input; only a rise makes an interrupt of the SCSP's.
LEMMA SetIntKeeps ==
    ASSUME NEW u \in ScuState, NEW which \in Sources, NEW active \in BOOLEAN,
           NEW w, w = SetInt(u, which, active)
    PROVE  /\ w \in ScuState
           /\ w.IAsserted = IF active THEN u.IAsserted \union {which} ELSE u.IAsserted \ {which}
           /\ Owing(w) => Owing(u) \/ (which = SCSP /\ active /\ ~High(u))
           /\ Settled(u) => Settled(w)
<1> DEFINE i == IF active THEN u.IAsserted \union {which} ELSE u.IAsserted \ {which}
           x == [u EXCEPT !.IAsserted = i]
           y == [x EXCEPT !.IPending = @ \union {which}]
<1>1. /\ x \in ScuState /\ x.IAsserted = i /\ x.IPending = u.IPending
      /\ x.IVec = u.IVec /\ x.IRL = u.IRL /\ x.IMask = u.IMask
  BY DEF ScuState
<1>2. (Owing(x) <=> Owing(u)) /\ (Settled(u) => Settled(x))
  BY <1>1 DEF Owing, Settled, Unmasked, ILevel
<1>3. w = IF which \in External THEN ABusIRQCheck(x)
          ELSE IF Rises(u, which, active) THEN CheckDoMasterInt(y) ELSE x
  BY DEF SetInt
<1>4. CASE which \in External
  <2>1. w = ABusIRQCheck(x) BY <1>3, <1>4
  <2> HIDE DEF x
  <2>2. /\ w \in ScuState /\ w.IAsserted = x.IAsserted
        /\ Owing(w) => Owing(x)
        /\ Settled(x) => Settled(w)
    BY <1>1, <2>1, ABusKeeps
  <2> QED BY <1>1, <1>2, <2>2
<1>5. CASE which \notin External /\ Rises(u, which, active)
  <2>1. w = CheckDoMasterInt(y) BY <1>3, <1>5
  <2>2. /\ y \in ScuState /\ y.IAsserted = i /\ y.IPending = u.IPending \union {which}
        /\ y.IVec = u.IVec /\ y.IRL = u.IRL
    BY <1>1 DEF ScuState
  <2> HIDE DEF y
  <2>3. /\ w \in ScuState /\ w.IAsserted = y.IAsserted
        /\ Owing(w) => Owing(y)
        /\ y.IRL = ILevel(y) => Settled(w)
    BY <2>1, <2>2, CheckKeeps
  <2>4. Owing(y) => Owing(u) \/ which = SCSP BY <2>2 DEF Owing
  <2>5. Settled(u) => y.IRL = ILevel(y) BY <2>2 DEF Settled, ILevel
  <2>6. which = SCSP => active /\ ~High(u) BY <1>5 DEF Rises, High
  <2> QED BY <2>2, <2>3, <2>4, <2>5, <2>6
<1>6. CASE which \notin External /\ ~Rises(u, which, active)
  BY <1>1, <1>2, <1>3, <1>6
<1> QED BY <1>4, <1>5, <1>6

LEMMA ResetKeeps ==
    ASSUME NEW asserted \in SUBSET Sources
    PROVE  ScuReset(asserted) \in ScuState /\ Settled(ScuReset(asserted))
  BY DEF ScuReset, ScuState, Settled, ILevel, Unmasked

\* Nor does anything else hold an interrupt back, or touch the SCSP's input.
LEMMA ScuKeeps ==
    ASSUME scu \in ScuState, Settled(scu), ScuNext
    PROVE  scu' \in ScuState /\ Settled(scu') /\ High(scu') = High(scu)
<1>1. CASE SCU_Reset
  <2>1. scu.IAsserted \in SUBSET Sources BY DEF ScuState
  <2> QED BY <1>1, <2>1, ResetKeeps DEF SCU_Reset, ScuReset, High
<1>2. CASE SCU_MSH2VectorFetch
  <2>1. /\ scu' \in ScuState /\ scu'.IAsserted = scu.IAsserted
        /\ scu'.IPending \subseteq Sources /\ scu'.IMask = AllMasked
        /\ scu'.IVec = NoVector /\ scu'.IRL = 0
    <3>1. scu' = [scu EXCEPT !.IMask = AllMasked, !.IVec = NoVector, !.IRL = 0]
      BY <1>2 DEF SCU_MSH2VectorFetch, Fetched
    <3>2. AllMasked \in SUBSET AllMasked /\ NoVector \in Sources \union {NoVector} /\ 0 \in 0 .. 15
      OBVIOUS
    <3> HIDE DEF SCU_MSH2VectorFetch
    <3> QED BY <3>1, <3>2 DEF ScuState
  <2>2. Unmasked(scu') = {}
    <3>1. ASSUME NEW s \in Sources PROVE (IF s < 16 THEN s ELSE 15) \in AllMasked
      <4>1. s \in 0 .. 13 \/ s \in 16 .. 31
        BY SourcesAssumption DEF Internal, External
      <4>2. CASE s \in 0 .. 13 BY <4>2 DEF AllMasked, Internal
      <4>3. CASE s \in 16 .. 31 BY <4>3 DEF AllMasked
      <4> QED BY <4>1, <4>2, <4>3
    <3> HIDE DEF AllMasked
    <3> QED BY <2>1, <3>1 DEF Unmasked
  <2> QED BY <2>1, <2>2 DEF Settled, ILevel, High
<1>3. ASSUME NEW mask \in Masks, scu' = CheckDoMasterInt([scu EXCEPT !.IMask = mask])
      PROVE  scu' \in ScuState /\ Settled(scu') /\ High(scu') = High(scu)
  <2> DEFINE x == [scu EXCEPT !.IMask = mask]
  <2>1. /\ x \in ScuState /\ x.IAsserted = scu.IAsserted
        /\ x.IVec = scu.IVec /\ x.IRL = scu.IRL
    BY MasksAssumption DEF ScuState
  <2>2. x.IRL = ILevel(x) BY <2>1 DEF Settled, ILevel
  <2>3. scu' = CheckDoMasterInt(x) BY <1>3
  <2> HIDE DEF x
  <2>4. scu' \in ScuState /\ Settled(scu') /\ scu'.IAsserted = x.IAsserted
    BY <2>1, <2>2, <2>3, CheckKeeps
  <2> QED BY <2>1, <2>4 DEF High
<1>4. CASE WriteIST
  <2>1. PICK kept \in SUBSET scu.IPending : scu' = [scu EXCEPT !.IPending = kept]
    BY <1>4 DEF WriteIST
  <2>2. /\ scu' \in ScuState /\ scu'.IAsserted = scu.IAsserted /\ scu'.IPending = kept
        /\ scu'.IVec = scu.IVec /\ scu'.IRL = scu.IRL /\ scu'.IMask = scu.IMask
    BY <2>1 DEF ScuState
  <2> QED BY <2>2 DEF Settled, Unmasked, ILevel, High
<1>5. CASE WriteAIACK
  <2> DEFINE x == [scu EXCEPT !.ABusIProhibit = {}]
  <2>1. /\ x \in ScuState /\ x.IAsserted = scu.IAsserted /\ x.IPending = scu.IPending
        /\ x.IVec = scu.IVec /\ x.IRL = scu.IRL /\ x.IMask = scu.IMask
    BY DEF ScuState
  <2>2. Settled(x) BY <2>1 DEF Settled, Unmasked, ILevel
  <2>3. scu' = ABusIRQCheck(x) BY <1>5 DEF WriteAIACK
  <2> HIDE DEF x
  <2>4. scu' \in ScuState /\ Settled(scu') /\ scu'.IAsserted = x.IAsserted
    BY <2>1, <2>2, <2>3, ABusKeeps
  <2> QED BY <2>1, <2>4 DEF High
<1>6. ASSUME NEW which \in Sources \ {SCSP}, NEW active \in BOOLEAN,
             scu' = SetInt(scu, which, active)
      PROVE  scu' \in ScuState /\ Settled(scu') /\ High(scu') = High(scu)
  <2>1. /\ scu' \in ScuState /\ Settled(scu')
        /\ scu'.IAsserted = IF active THEN scu.IAsserted \union {which}
                                      ELSE scu.IAsserted \ {which}
    BY <1>6, SetIntKeeps
  <2> QED BY <2>1 DEF High
<1> QED BY <1>1, <1>2, <1>3, <1>4, <1>5, <1>6 DEF ScuNext, WriteIMS, Device

----------------------------------------------------------------------------
(* The inductive invariant.                                                *)

\* Main replays only with a thread, and a fall that has begun is a fall of the line.
Control ==
    /\ mpc \in {"ready", "rise", "fall"}
    /\ mpc # "ready" => SThreaded
    /\ spc = "clear" => SThreaded /\ ~mci

\* Without a thread the SCU sees the line itself.
Inline == ~SThreaded => (mci <=> High(scu))

\* What is posted for a line that is high says so, whatever was posted before.
Raised ==
    SThreaded /\ mci /\ ("rose" \in SMainIntEvents \/ "fell" \in SMainIntEvents)
        => "rose" \in SMainIntEvents /\ "level" \in SMainIntEvents

\* A fall is replayed under a line that is high only if the rise is posted again.
FallsLate == SThreaded /\ mci /\ mpc # "ready" /\ Falls => "rose" \in SMainIntEvents

\* The SCU's input will be high when what is being replayed has been.
WillBeHigh ==
    \/ mpc = "ready" /\ High(scu)
    \/ mpc = "rise" /\ "rose" \in ev /\ ~Falls
    \/ mpc # "ready" /\ High(scu) /\ ~Falls

\* A rise that is posted without an edge finds the SCU's input high, so that it makes no
\* interrupt; or it is left over from before a state was loaded.
PostedWhy ==
    SThreaded /\ "rose" \in SMainIntEvents => edge \/ WillBeHigh \/ (stale /\ mpc = "ready")

\* The same of a rise that is about to be replayed.
ReplayedWhy == mpc = "rise" /\ "rose" \in ev => High(scu) \/ due \/ stale

\* The SCU and its saved copy are types, and hold nothing back.
Typed ==
    /\ scu \in ScuState /\ Settled(scu) /\ mci \in BOOLEAN
    /\ snap \in [mci : BOOLEAN, scu : ScuState] /\ Settled(snap.scu)

Mailbox == Control /\ Inline /\ Raised /\ FallsLate /\ HighNotLost /\ PostedWhy /\ ReplayedWhy
IInv == Typed /\ Mailbox

----------------------------------------------------------------------------
(* It holds.                                                               *)

LEMMA InitIInv == Init => IInv
<1> SUFFICES ASSUME Init PROVE IInv OBVIOUS
<1>1. ScuReset({}) \in ScuState /\ Settled(ScuReset({})) /\ ~High(ScuReset({}))
  BY ResetKeeps DEF ScuReset, High
<1>2. Typed BY <1>1 DEF Init, ScuInit, Typed
<1>3. Mailbox
  BY <1>1 DEF Init, ScuInit, Mailbox, Control, Inline, Raised, FallsLate, HighNotLost,
              PostedWhy, ReplayedWhy
<1> QED BY <1>2, <1>3 DEF IInv

\* The SCSP's own use of the SCU.
LEMMA SetKeeps ==
    ASSUME NEW u \in ScuState, Settled(u), NEW active \in BOOLEAN
    PROVE  /\ SetInt(u, SCSP, active) \in ScuState /\ Settled(SetInt(u, SCSP, active))
           /\ High(SetInt(u, SCSP, active)) = active
           /\ Owing(SetInt(u, SCSP, active)) => Owing(u) \/ (active /\ ~High(u))
<1> DEFINE w == SetInt(u, SCSP, active)
<1>1. SCSP \in Sources BY SourcesAssumption
<1>2. /\ w \in ScuState
      /\ w.IAsserted = IF active THEN u.IAsserted \union {SCSP} ELSE u.IAsserted \ {SCSP}
      /\ Owing(w) => Owing(u) \/ (SCSP = SCSP /\ active /\ ~High(u))
      /\ Settled(u) => Settled(w)
  BY <1>1, SetIntKeeps
<1> HIDE DEF w
<1>3. High(w) = active BY <1>2 DEF High
<1> QED BY <1>2, <1>3 DEF w

LEMMA TypedKept == Typed /\ [Next]_vars => Typed'
<1> SUFFICES ASSUME Typed, [Next]_vars PROVE Typed' OBVIOUS
<1> USE DEF Typed
<1>1. ASSUME NEW state \in BOOLEAN, ChangedInline(state) PROVE Typed'
  BY <1>1, SetKeeps DEF ChangedInline
<1>2. ASSUME NEW state \in BOOLEAN, ChangedThreaded(state) PROVE Typed'
  BY <1>2 DEF ChangedThreaded
<1>3. CASE ClearLevel \/ SoundThread_Start \/ Exchange \/ UNCHANGED vars
  BY <1>3 DEF ClearLevel, SoundThread_Start, Exchange, vars, threadVars
<1>4. CASE Restart
  BY <1>4, ResetKeeps DEF Restart, PowerOn
<1>5. CASE ReplayRise
  BY <1>5, SetKeeps DEF ReplayRise, threadVars
<1>6. CASE ReplayFall
  BY <1>6, SetKeeps DEF ReplayFall, threadVars
<1>7. CASE Others
  BY <1>7, ScuKeeps DEF Others, threadVars
<1>8. CASE SaveState
  BY <1>8 DEF SaveState, threadVars
<1>9. CASE LoadState
  BY <1>9, SetKeeps DEF LoadState
<1> QED BY <1>1, <1>2, <1>3, <1>4, <1>5, <1>6, <1>7, <1>8, <1>9 DEF Next, Changed, Replay

\* A line that is high, and nothing posted: the replay, when it ends, leaves the input high.
LEMMA HighWillBe ==
    ASSUME Mailbox, SThreaded, mci, "rose" \notin SMainIntEvents
    PROVE  WillBeHigh
  BY DEF Mailbox, Control, FallsLate, HighNotLost, WillBeHigh

LEMMA ThreadKeeps ==
    ASSUME Mailbox, ClearLevel \/ \E state \in BOOLEAN : ChangedThreaded(state)
    PROVE  Mailbox'
<1> USE DEF Mailbox
<1>1. CASE ClearLevel
  <2>1. /\ UNCHANGED <<SThreaded, mci, mpc, ev, due, High(scu), edge, stale>>
        /\ "rose" \in SMainIntEvents' <=> "rose" \in SMainIntEvents
        /\ spc' = "run" /\ SThreaded /\ ~mci
    BY <1>1 DEF ClearLevel, Cleared, replayVars, histVars, Control
  <2>2. WillBeHigh => WillBeHigh' BY <2>1 DEF WillBeHigh, Falls
  <2> QED
    BY <2>1, <2>2
       DEF Control, Inline, Raised, FallsLate, HighNotLost, PostedWhy, ReplayedWhy, Falls
<1>2. ASSUME ChangedThreaded(TRUE) PROVE Mailbox'
  <2>1. /\ UNCHANGED <<SThreaded, mpc, ev, due, High(scu), stale>> /\ SThreaded
        /\ mci' /\ spc' = "run"
        /\ "rose" \in SMainIntEvents' /\ "level" \in SMainIntEvents'
        /\ ~mci \/ edge => edge'
    BY <1>2 DEF ChangedThreaded, Posted, replayVars
  <2>2. WillBeHigh => WillBeHigh' BY <2>1 DEF WillBeHigh, Falls
  <2>3. PostedWhy'
    BY <2>1, <2>2, HighWillBe DEF PostedWhy
  <2> QED
    BY <2>1, <2>3
       DEF Control, Inline, Raised, FallsLate, HighNotLost, ReplayedWhy
<1>3. ASSUME ChangedThreaded(FALSE) PROVE Mailbox'
  <2>1. /\ UNCHANGED <<SThreaded, mpc, ev, due, High(scu), stale>> /\ SThreaded
        /\ ~mci' /\ spc' = "clear"
        /\ "rose" \in SMainIntEvents' <=> "rose" \in SMainIntEvents
        /\ edge => edge'
    BY <1>3 DEF ChangedThreaded, Posted, replayVars
  <2>2. WillBeHigh => WillBeHigh' BY <2>1 DEF WillBeHigh, Falls
  <2> QED
    BY <2>1, <2>2
       DEF Control, Inline, Raised, FallsLate, HighNotLost, PostedWhy, ReplayedWhy
<1> QED BY <1>1, <1>2, <1>3

LEMMA ReplayKeeps == ASSUME Typed, Mailbox, Replay PROVE Mailbox'
<1> USE DEF Mailbox
<1>1. CASE Exchange
  <2>1. /\ UNCHANGED <<SThreaded, mci, spc, High(scu), stale>> /\ SThreaded
        /\ mpc = "ready" /\ mpc' = "rise"
        /\ ev' = SMainIntEvents /\ SMainIntEvents' = {} /\ due' = edge
    BY <1>1 DEF Exchange, threadVars
  <2>2. mci => ~Falls' BY <2>1 DEF Raised, Falls
  <2>3. ReplayedWhy' BY <2>1 DEF PostedWhy, WillBeHigh, ReplayedWhy
  <2> QED
    BY <2>1, <2>2, <2>3 DEF Control, Inline, Raised, FallsLate, HighNotLost, PostedWhy
<1>2. CASE ReplayRise
  <2>1. /\ UNCHANGED <<SThreaded, mci, spc, SMainIntEvents, ev, due, edge, stale>>
        /\ mpc = "rise" /\ mpc' = "fall" /\ SThreaded
        /\ "rose" \in ev \/ High(scu) => High(scu)'
    BY <1>2, SetKeeps DEF Typed, ReplayRise, threadVars, histVars, Control
  <2>2. Falls' <=> Falls BY <2>1 DEF Falls
  <2>3. WillBeHigh => WillBeHigh' BY <2>1, <2>2 DEF WillBeHigh
  <2>4. HighNotLost' BY <2>1, <2>2 DEF HighNotLost, FallsLate
  <2> QED
    BY <2>1, <2>2, <2>3, <2>4
       DEF Control, Inline, Raised, FallsLate, PostedWhy, ReplayedWhy
<1>3. CASE ReplayFall
  <2>1. /\ UNCHANGED <<SThreaded, mci, spc, SMainIntEvents, edge>>
        /\ mpc = "fall" /\ mpc' = "ready" /\ SThreaded
        /\ High(scu) /\ ~Falls => High(scu)'
    BY <1>3 DEF ReplayFall, threadVars, Control
  <2>2. WillBeHigh => WillBeHigh' BY <2>1 DEF WillBeHigh
  <2> QED
    BY <2>1, <2>2
       DEF Control, Inline, Raised, FallsLate, HighNotLost, PostedWhy, ReplayedWhy
<1> QED BY <1>1, <1>2, <1>3 DEF Replay

LEMMA MainKeeps ==
    ASSUME Typed, Mailbox, \/ SoundThread_Start \/ Restart \/ Others \/ SaveState
                        \/ \E state \in BOOLEAN : ChangedInline(state)
    PROVE  Mailbox'
<1> USE DEF Mailbox
<1>1. CASE SoundThread_Start
  <2>1. /\ UNCHANGED <<mci, spc, mpc, ev, due, High(scu)>>
        /\ mpc = "ready" /\ ~SThreaded /\ SThreaded' /\ SMainIntEvents' = {}
    BY <1>1 DEF SoundThread_Start, FreshEvents, threadVars, replayVars
  <2> QED
    BY <2>1 DEF Control, Inline, Raised, FallsLate, HighNotLost, PostedWhy, ReplayedWhy
<1>2. CASE Restart
  <2>1. ~High(scu') BY <1>2 DEF Restart, PowerOn, ScuReset, High
  <2> QED
    BY <1>2, <2>1 DEF Restart, PowerOn, Control, Inline, Raised, FallsLate, HighNotLost, PostedWhy,
                      ReplayedWhy, replayVars
<1>3. CASE Others \/ SaveState
  <2>1. /\ UNCHANGED <<SThreaded, mci, spc, SMainIntEvents, mpc, ev, due, edge, stale>>
        /\ High(scu') = High(scu)
    BY <1>3, ScuKeeps DEF Typed, Others, SaveState, threadVars, replayVars, histVars
  <2> QED
    BY <2>1 DEF Control, Inline, Raised, FallsLate, HighNotLost, PostedWhy, ReplayedWhy,
                WillBeHigh, Falls
<1>4. ASSUME NEW state \in BOOLEAN, ChangedInline(state) PROVE Mailbox'
  <2>1. /\ UNCHANGED <<SThreaded, spc, mpc>> /\ ~SThreaded /\ mpc = "ready"
        /\ mci' = state /\ High(scu') = state
    BY <1>4, SetKeeps DEF Typed, ChangedInline, replayVars
  <2> QED
    BY <2>1 DEF Control, Inline, Raised, FallsLate, HighNotLost, PostedWhy, ReplayedWhy
<1> QED BY <1>1, <1>2, <1>3, <1>4

LEMMA LoadKeeps == ASSUME Typed, Mailbox, LoadState PROVE Mailbox'
<1> USE DEF Mailbox
<1>0. /\ UNCHANGED <<SThreaded, spc, mpc>> /\ mpc = "ready" /\ spc = "run"
      /\ mci' = snap.mci
  BY DEF LoadState, replayVars
<1>1. CASE ~SThreaded
  <2>1. High(scu') = snap.mci BY <1>1, SetKeeps DEF Typed, LoadState
  <2> QED
    BY <1>0, <1>1, <2>1
       DEF Control, Inline, Raised, FallsLate, HighNotLost, PostedWhy, ReplayedWhy
<1>2. CASE SThreaded
  <2>1. /\ scu' = snap.scu /\ SMainIntEvents' = Reposted(snap.mci)
        /\ edge' = (snap.mci /\ ~High(snap.scu))
        /\ stale' = (stale \/ SMainIntEvents # {})
    BY <1>2 DEF LoadState
  <2>2. mci' => "rose" \in SMainIntEvents' /\ "level" \in SMainIntEvents'
    BY <1>0, <2>1 DEF Reposted, Posted
  <2>3. "rose" \in SMainIntEvents' => snap.mci \/ "rose" \in SMainIntEvents
    BY <2>1 DEF Reposted, Posted, Cleared
  <2>4. PostedWhy'
    <3>1. CASE "rose" \in SMainIntEvents
      <4>1. stale' BY <2>1, <3>1
      <4> QED BY <1>0, <4>1 DEF PostedWhy
    <3>2. CASE snap.mci
      <4>1. edge' \/ High(scu)' BY <2>1, <3>2
      <4> QED BY <1>0, <4>1 DEF PostedWhy, WillBeHigh
    <3> QED BY <2>3, <3>1, <3>2 DEF PostedWhy
  <2> QED
    BY <1>0, <1>2, <2>2, <2>4
       DEF Control, Inline, Raised, FallsLate, HighNotLost, ReplayedWhy
<1> QED BY <1>1, <1>2

LEMMA NextIInv == IInv /\ [Next]_vars => IInv'
<1> SUFFICES ASSUME IInv, [Next]_vars PROVE IInv' OBVIOUS
<1>0. Typed /\ Mailbox /\ Typed' BY TypedKept DEF IInv
<1>1. CASE UNCHANGED vars
  BY <1>0, <1>1 DEF vars, threadVars, replayVars, histVars, IInv, Mailbox, Control, Inline, Raised,
              FallsLate, HighNotLost, PostedWhy, ReplayedWhy, WillBeHigh, Falls
<1>2. CASE Next
  <2>1. Mailbox' BY <1>0, <1>2, ThreadKeeps, ReplayKeeps, MainKeeps, LoadKeeps DEF Next, Changed
  <2> QED BY <1>0, <2>1 DEF IInv
<1> QED BY <1>1, <1>2

\* The mailbox and the SCU's input never disagree beyond what is being replayed.
THEOREM SoundIntInvariance == Spec => []IInv
  BY InitIInv, NextIInv, PTL DEF Spec

----------------------------------------------------------------------------
(* The theorems.                                                           *)

\* A level that is high is not lost, whatever falls, rises and loaded states were merged
\* into one exchange (SCSP_MainIntChanged, SOUND_Update, SOUND_StateAction).
THEOREM HighKept == Spec => []HighNotLost
<1>1. IInv => HighNotLost BY DEF IInv, Mailbox
<1> QED BY <1>1, SoundIntInvariance, PTL

\* No interrupt that may be taken is held back from a CPU that is offered none, for every
\* set of interrupts and masks (CheckDoMasterInt and what calls it).
THEOREM NothingHeldBack == Spec => []NoneHeldBack
<1>1. IInv => NoneHeldBack BY DEF IInv, Typed, NoneHeldBack
<1> QED BY <1>1, SoundIntInvariance, PTL

\* Replaying makes an interrupt only of a line that rose, or of what a loaded state left
\* behind (SOUND_Update, SOUND_StateAction).
THEOREM NothingSpurious == Spec => NoSpurious
<1>1. IInv /\ [Next]_vars => [Replays /\ ~Owing(scu) /\ Owing(scu') => due \/ stale]_vars
  <2> SUFFICES ASSUME IInv, Next, Replays, ~Owing(scu), Owing(scu') PROVE due \/ stale
    OBVIOUS
  <2>1. CASE ReplayRise
    <3>1. "rose" \in ev /\ scu' = SetInt(scu, SCSP, TRUE) BY <2>1 DEF ReplayRise
    <3>2. ~High(scu) BY <3>1, SetKeeps DEF IInv, Typed
    <3> QED BY <3>1, <3>2 DEF IInv, Mailbox, ReplayedWhy, Replays
  <2>2. CASE ~ReplayRise
    <3>1. mpc' # mpc BY DEF Replays
    <3> QED
      BY <2>2, <3>1 DEF Next, Changed, ChangedInline, ChangedThreaded, ClearLevel,
            SoundThread_Start, Restart, PowerOn, Replay, Exchange, ReplayFall, Others, SaveState,
            LoadState, Replays, replayVars
  <2> QED BY <2>1, <2>2
<1> QED BY <1>1, SoundIntInvariance, PTL DEF Spec, NoSpurious

----------------------------------------------------------------------------
(* The types.                                                              *)

\* A level in the mailbox, or among the events taken out of it, came with a rise.
MailTypes ==
    /\ SMainIntEvents \subseteq Events /\ ev \subseteq Events /\ spc \in {"run", "clear"}
    /\ "level" \in SMainIntEvents => "rose" \in SMainIntEvents
    /\ "level" \in ev => "rose" \in ev

FlagTypes == SThreaded \in BOOLEAN /\ edge \in BOOLEAN /\ due \in BOOLEAN /\ stale \in BOOLEAN

LEMMA PostedTypes ==
    ASSUME MailTypes, NEW state \in BOOLEAN
    PROVE  /\ Posted(state) \subseteq Events /\ Reposted(state) \subseteq Events
           /\ "level" \in Posted(state) => "rose" \in Posted(state)
           /\ "level" \in Reposted(state) => "rose" \in Reposted(state)
  BY DEF MailTypes, Posted, Reposted, Cleared, Events

LEMMA MailTyped == IInv /\ MailTypes /\ [Next]_vars => MailTypes'
<1> SUFFICES ASSUME IInv, MailTypes, [Next]_vars PROVE MailTypes' OBVIOUS
<1> USE DEF threadVars, replayVars, histVars
<1>1. ASSUME NEW state \in BOOLEAN, ChangedInline(state) PROVE MailTypes'
  BY <1>1 DEF ChangedInline, MailTypes
<1>2. ASSUME NEW state \in BOOLEAN, ChangedThreaded(state) PROVE MailTypes'
  BY <1>2, PostedTypes DEF ChangedThreaded, MailTypes
<1>3. CASE ClearLevel BY <1>3 DEF ClearLevel, Cleared, MailTypes
<1>4. CASE SoundThread_Start BY <1>4 DEF SoundThread_Start, FreshEvents, MailTypes
<1>5. CASE Restart \/ Others \/ SaveState
  BY <1>5 DEF Restart, PowerOn, Others, SaveState, MailTypes
<1>6. CASE Replay BY <1>6 DEF Replay, Exchange, ReplayRise, ReplayFall, MailTypes
<1>7. CASE LoadState
  <2>1. snap.mci \in BOOLEAN BY DEF IInv, Typed
  <2> QED BY <1>7, <2>1, PostedTypes DEF LoadState, MailTypes
<1>8. CASE UNCHANGED vars BY <1>8 DEF vars, MailTypes
<1> QED BY <1>1, <1>2, <1>3, <1>4, <1>5, <1>6, <1>7, <1>8 DEF Next, Changed

LEMMA FlagsTyped == FlagTypes /\ [Next]_vars => FlagTypes'
<1> SUFFICES ASSUME FlagTypes, [Next]_vars PROVE FlagTypes' OBVIOUS
<1> USE DEF threadVars, replayVars, histVars, FlagTypes
<1>1. SThreaded' \in BOOLEAN
  BY DEF Next, Changed, ChangedInline, ChangedThreaded, ClearLevel, SoundThread_Start,
         Restart, PowerOn, Replay, Exchange, ReplayRise, ReplayFall, Others, SaveState, LoadState, vars
<1>2. edge' \in BOOLEAN
  BY Zenon
     DEF Next, Changed, ChangedInline, ChangedThreaded, ClearLevel, SoundThread_Start,
         Restart, PowerOn, Replay, Exchange, ReplayRise, ReplayFall, Others, SaveState, LoadState, vars
<1>3. due' \in BOOLEAN
  BY DEF Next, Changed, ChangedInline, ChangedThreaded, ClearLevel, SoundThread_Start,
         Restart, PowerOn, Replay, Exchange, ReplayRise, ReplayFall, Others, SaveState, LoadState, vars
<1>4. stale' \in BOOLEAN
  BY Zenon
     DEF Next, Changed, ChangedInline, ChangedThreaded, ClearLevel, SoundThread_Start,
         Restart, PowerOn, Replay, Exchange, ReplayRise, ReplayFall, Others, SaveState, LoadState, vars
<1> QED BY <1>1, <1>2, <1>3, <1>4

\* Every variable of the mailbox and of the SCU has its type, for all inputs and masks.
THEOREM SoundIntTypes == Spec => []TypeOK
<1>1. Init => MailTypes /\ FlagTypes
  BY DEF Init, MailTypes, FlagTypes, Events
<1>2. IInv /\ MailTypes /\ FlagTypes => TypeOK
  BY DEF IInv, Mailbox, Control, Typed, MailTypes, FlagTypes, TypeOK
<1> QED BY <1>1, <1>2, MailTyped, FlagsTyped, SoundIntInvariance, PTL DEF Spec

----------------------------------------------------------------------------
(* SoundWake.tla: the queue with the memory order its atomics ask for.     *)

\* What memory and the two buffers may hold.
Memory       == [SQ : [Slots -> Nat], SQ_Enq : Nat, SQ_Done : Nat,
                 SThreadSleeping : BOOLEAN, dev : Nat]
MainStores   == [at : {"SQ", "SQ_Enq"}, val : Nat]
ThreadStores == [at : {"dev", "SQ_Done"}, val : Nat]
                \union [at : {"SThreadSleeping"}, val : BOOLEAN]


\* Commands main pushed that memory does not count yet, and whether the slot of the
\* oldest of them is in memory already.
Unseen == enq - mem.SQ_Enq
Half   == 2 * Unseen - Len(mbuf)

\* Every variable has its type.
WakeTypes ==
    /\ enq \in Nat /\ d \in Nat /\ c \in Nat /\ SSem \in Nat
    /\ mem \in Memory /\ mbuf \in Seq(MainStores) /\ tbuf \in Seq(ThreadStores)

\* Main's buffer holds, for each command memory does not count, its slot and its
\* count, in this order.
MainBuffer ==
    /\ Unseen \in Nat /\ Half \in {0, 1} /\ (Unseen = 0 => Half = 0)
    /\ \A k \in 1 .. Unseen :
          /\ mbuf[2 * k - Half] = Store("SQ_Enq", mem.SQ_Enq + k)
          /\ 2 * k - 1 - Half >= 1 => mbuf[2 * k - 1 - Half] = Store("SQ", mem.SQ_Enq + k)

\* No slot is given away before the thread is done with it, and one that is written
\* holds its command until then.
Ring ==
    /\ mem.SQ_Done <= d /\ d <= mem.SQ_Enq
    /\ threadpc \in {"fetch", "exec"} => d < mem.SQ_Enq
    /\ enq - mem.SQ_Done <= SQ_SIZE
    /\ \A e \in d + 1 .. mem.SQ_Enq + Half : mem.SQ[(e - 1) % SQ_SIZE] = e
    /\ threadpc = "exec" => c = d + 1

\* The thread's buffer: what a command does to the hardware is right in front of its
\* completion, and completions are in order.
ThreadBuffer ==
    /\ \A i \in 1 .. Len(tbuf) : tbuf[i].at = "dev" =>
          i < Len(tbuf) /\ tbuf[i + 1] = Store("SQ_Done", tbuf[i].val)
    /\ \A i \in 1 .. Len(tbuf) : tbuf[i].at = "SQ_Done" =>
          /\ mem.SQ_Done < tbuf[i].val /\ tbuf[i].val <= d
          /\ i > 1 => tbuf[i - 1] = Store("dev", tbuf[i].val)
    /\ \A i, j \in 1 .. Len(tbuf) :
          i < j /\ tbuf[i].at = "SQ_Done" /\ tbuf[j].at = "SQ_Done" => tbuf[i].val < tbuf[j].val
    /\ mem.dev = IF tbuf # <<>> /\ tbuf[1].at = "SQ_Done" THEN tbuf[1].val ELSE mem.SQ_Done

\* The inductive invariant.
WakeInv ==
    /\ WakeTypes /\ MainBuffer /\ Ring /\ ThreadBuffer
    /\ mainpc = "access" => mem.SQ_Done = enq

USE DEF mainVars, soundVars

\* The ring has slots.
LEMMA WakeSize == SQ_SIZE \in Nat \ {0}
  BY SizeAssumption

\* Every command has a slot.
LEMMA WakeSlot ==
    ASSUME NEW x \in Nat
    PROVE  x % SQ_SIZE \in Slots
  BY WakeSize, ModBound DEF Slots

\* What a store does to memory.
LEMMA WrittenSlot ==
    ASSUME mem \in Memory, NEW s, NEW v \in Nat \ {0}, s = Store("SQ", v)
    PROVE  /\ Written(s) \in Memory
           /\ Written(s).SQ = [mem.SQ EXCEPT ![(v - 1) % SQ_SIZE] = v]
           /\ Written(s).SQ_Enq = mem.SQ_Enq /\ Written(s).SQ_Done = mem.SQ_Done
           /\ Written(s).dev = mem.dev
  <1>1. s.at = "SQ" /\ s.val = v
    BY DEF Store
  <1>2. Written(s) = [mem EXCEPT !.SQ[(v - 1) % SQ_SIZE] = v]
    BY <1>1 DEF Written
  <1>3. (v - 1) % SQ_SIZE \in Slots
    BY WakeSlot
  <1> QED
    BY <1>2, <1>3 DEF Memory

LEMMA WrittenCount ==
    ASSUME mem \in Memory, NEW s, NEW v \in Nat, s = Store("SQ_Enq", v)
    PROVE  /\ Written(s) \in Memory /\ Written(s).SQ = mem.SQ
           /\ Written(s).SQ_Enq = v /\ Written(s).SQ_Done = mem.SQ_Done
           /\ Written(s).dev = mem.dev
  BY DEF Store, Written, Memory

LEMMA WrittenDone ==
    ASSUME mem \in Memory, NEW s, NEW v \in Nat, s = Store("SQ_Done", v)
    PROVE  /\ Written(s) \in Memory /\ Written(s).SQ = mem.SQ
           /\ Written(s).SQ_Enq = mem.SQ_Enq /\ Written(s).SQ_Done = v
           /\ Written(s).dev = mem.dev
  BY DEF Store, Written, Memory

LEMMA WrittenDevice ==
    ASSUME mem \in Memory, NEW s, NEW v \in Nat, s = Store("dev", v)
    PROVE  /\ Written(s) \in Memory /\ Written(s).SQ = mem.SQ
           /\ Written(s).SQ_Enq = mem.SQ_Enq /\ Written(s).SQ_Done = mem.SQ_Done
           /\ Written(s).dev = v
  BY DEF Store, Written, Memory

LEMMA WrittenSleep ==
    ASSUME mem \in Memory, NEW s, NEW v \in BOOLEAN, s = Store("SThreadSleeping", v)
    PROVE  /\ Written(s) \in Memory /\ Written(s).SQ = mem.SQ
           /\ Written(s).SQ_Enq = mem.SQ_Enq /\ Written(s).SQ_Done = mem.SQ_Done
           /\ Written(s).dev = mem.dev
  BY DEF Store, Written, Memory

\* At first all is 0 and the buffers are empty.
LEMMA WakeInit == InitWake => WakeInv
  <1> SUFFICES ASSUME InitWake PROVE WakeInv
    OBVIOUS
  <1>1. WakeTypes
    BY DEF InitWake, WakeTypes, Memory
  <1>2. Unseen = 0 /\ Half = 0 /\ Len(mbuf) = 0 /\ Len(tbuf) = 0 /\ tbuf = <<>>
    BY DEF InitWake, Unseen, Half
  <1>3. MainBuffer /\ Ring
    BY <1>2, SizeAssumption DEF InitWake, MainBuffer, Ring
  <1>4. ThreadBuffer
    BY <1>2 DEF InitWake, ThreadBuffer
  <1> QED
    BY <1>1, <1>3, <1>4 DEF InitWake, WakeInv

\* A command goes into main's buffer: its slot, then its count.
LEMMA WakePush == WakeInv /\ Push => WakeInv'
  <1> SUFFICES ASSUME WakeInv, Push PROVE WakeInv'
    OBVIOUS
  <1> DEFINE e == enq + 1
             p == Published(e)
             n == Len(mbuf)
  <1>0. /\ enq \in Nat /\ d \in Nat /\ mem.SQ_Done \in Nat /\ mem.SQ_Enq \in Nat
        /\ mbuf \in Seq(MainStores) /\ n \in Nat /\ SQ_SIZE \in Nat
    BY WakeSize DEF WakeInv, WakeTypes, Memory
  <1>1. p \in Seq(MainStores) /\ Len(p) = 2 /\ p[1] = Store("SQ", e) /\ p[2] = Store("SQ_Enq", e)
    BY <1>0 DEF Published, Store, MainStores
  <1> HIDE DEF p
  <1>2. /\ mbuf' \in Seq(MainStores) /\ Len(mbuf') = n + 2
        /\ \A i \in 1 .. n : mbuf'[i] = mbuf[i]
        /\ mbuf'[n + 1] = Store("SQ", e) /\ mbuf'[n + 2] = Store("SQ_Enq", e)
    <2>1. mbuf' = mbuf \o p
      BY DEF Push, p
    <2>2. /\ mbuf' \in Seq(MainStores) /\ Len(mbuf') = n + 2
          /\ \A i \in 1 .. n + 2 : mbuf'[i] = IF i <= n THEN mbuf[i] ELSE p[i - n]
      <3>1. /\ mbuf \o p \in Seq(MainStores) /\ Len(mbuf \o p) = Len(mbuf) + Len(p)
            /\ \A i \in 1 .. Len(mbuf) + Len(p) :
                  (mbuf \o p)[i] = IF i <= Len(mbuf) THEN mbuf[i] ELSE p[i - Len(mbuf)]
        BY <1>0, <1>1, ConcatProperties
      <3> QED
        BY <1>1, <2>1, <3>1
    <2> HIDE DEF n
    <2>3. (n + 1) - n = 1 /\ (n + 2) - n = 2 /\ ~(n + 1 <= n) /\ ~(n + 2 <= n)
          /\ n + 1 \in 1 .. n + 2 /\ n + 2 \in 1 .. n + 2
      BY <1>0
    <2>4. /\ \A i \in 1 .. n : i \in 1 .. n + 2 /\ i <= n
      BY <1>0
    <2>5. \A i \in 1 .. n : mbuf'[i] = mbuf[i]
      BY <2>2, <2>4
    <2>6. mbuf'[n + 1] = p[1] /\ mbuf'[n + 2] = p[2]
      BY <2>2, <2>3
    <2> QED
      BY <1>1, <2>2, <2>5, <2>6
  <1>3. /\ enq' = enq + 1 /\ mainpc' = "look" /\ enq - mem.SQ_Done < SQ_SIZE
        /\ UNCHANGED <<threadpc, d, c, mem, tbuf, SSem>>
    BY DEF Push
  <1>4. Unseen \in Nat /\ Half \in {0, 1} /\ n = 2 * Unseen - Half
    BY <1>0 DEF WakeInv, MainBuffer, Half
  <1>5. Unseen' = Unseen + 1 /\ Half' = Half
    <2>1. Unseen' = (enq + 1) - mem.SQ_Enq
      BY <1>3 DEF Unseen
    <2>2. Unseen' = Unseen + 1
      BY <1>0, <2>1 DEF Unseen
    <2>3. Half' = 2 * Unseen' - (n + 2)
      BY <1>2 DEF Half
    <2> HIDE DEF n
    <2> QED
      BY <1>0, <1>4, <2>2, <2>3
  <1>6. WakeTypes'
    BY <1>2, <1>3 DEF WakeInv, WakeTypes
  <1>7. MainBuffer'
    <2> SUFFICES ASSUME NEW k \in 1 .. Unseen + 1
                 PROVE  /\ mbuf'[2 * k - Half] = Store("SQ_Enq", mem.SQ_Enq + k)
                        /\ 2 * k - 1 - Half >= 1 =>
                              mbuf'[2 * k - 1 - Half] = Store("SQ", mem.SQ_Enq + k)
      BY <1>3, <1>4, <1>5 DEF MainBuffer
    <2>1. CASE k \in 1 .. Unseen
      <3> DEFINE a == 2 * k - Half
                 b == 2 * k - 1 - Half
      <3>1. a \in 1 .. n /\ (b >= 1 => b \in 1 .. n)
        BY <1>4, <2>1
      <3>2. /\ mbuf[a] = Store("SQ_Enq", mem.SQ_Enq + k)
            /\ b >= 1 => mbuf[b] = Store("SQ", mem.SQ_Enq + k)
        BY <2>1 DEF WakeInv, MainBuffer
      <3>3. /\ mbuf'[a] = Store("SQ_Enq", mem.SQ_Enq + k)
            /\ b >= 1 => mbuf'[b] = Store("SQ", mem.SQ_Enq + k)
        <4> HIDE DEF a, b
        <4> QED
          BY <1>2, <3>1, <3>2
      <3> QED
        BY <3>3
    <2>2. CASE k = Unseen + 1
      <3>1. mem.SQ_Enq + k = e
        BY <1>0, <2>2 DEF Unseen
      <3>2. 2 * k - Half = n + 2 /\ 2 * k - 1 - Half = n + 1
        <4> HIDE DEF n, e
        <4> QED
          BY <1>0, <1>4, <2>2
      <3> QED
        BY <1>2, <3>1, <3>2
    <2> QED
      BY <1>4, <2>1, <2>2
  <1>8. Ring'
    BY <1>0, <1>3, <1>5 DEF WakeInv, Ring
  <1>9. ThreadBuffer'
    BY <1>3 DEF WakeInv, ThreadBuffer
  <1> QED
    BY <1>3, <1>6, <1>7, <1>8, <1>9 DEF WakeInv

\* The oldest store of main reaches memory.
LEMMA WakeFlushMain == WakeInv /\ FlushMain => WakeInv'
  <1> SUFFICES ASSUME WakeInv, FlushMain PROVE WakeInv'
    OBVIOUS
  <1> DEFINE m == mem.SQ_Enq
             n == Len(mbuf)
  <1>0. /\ enq \in Nat /\ d \in Nat /\ mem.SQ_Done \in Nat /\ m \in Nat /\ mem \in Memory
        /\ mem.SQ \in [Slots -> Nat]
        /\ mbuf \in Seq(MainStores) /\ mbuf # <<>> /\ SQ_SIZE \in Nat \ {0}
    BY WakeSize DEF WakeInv, WakeTypes, Memory, FlushMain
  <1>1. /\ mem' = Written(mbuf[1]) /\ n \in Nat \ {0}
        /\ mbuf' \in Seq(MainStores) /\ Len(mbuf') = n - 1
        /\ \A i \in 1 .. n - 1 : mbuf'[i] = mbuf[i + 1]
    <2>1. Head(mbuf) = mbuf[1] /\ n \in Nat \ {0}
      BY <1>0
    <2>2. /\ Tail(mbuf) \in Seq(MainStores) /\ Len(Tail(mbuf)) = n - 1
          /\ \A i \in 1 .. Len(Tail(mbuf)) : Tail(mbuf)[i] = mbuf[i + 1]
      BY <1>0, HeadTailProperties
    <2> QED
      BY <2>1, <2>2 DEF FlushMain
  <1>2. UNCHANGED <<mainpc, enq, threadpc, d, c, tbuf, SSem>>
    BY DEF FlushMain
  <1>3. Unseen \in Nat /\ Half \in {0, 1} /\ n = 2 * Unseen - Half /\ Unseen > 0
    BY <1>0, <1>1 DEF WakeInv, MainBuffer, Half
  <1>4. /\ mbuf[2 - Half] = Store("SQ_Enq", m + 1)
        /\ Half = 0 => mbuf[1] = Store("SQ", m + 1)
    <2>1. 1 \in 1 .. Unseen /\ 2 * 1 - Half = 2 - Half /\ 2 * 1 - 1 - Half = 1 - Half
      BY <1>3
    <2>2. /\ mbuf[2 * 1 - Half] = Store("SQ_Enq", m + 1)
          /\ 2 * 1 - 1 - Half >= 1 => mbuf[2 * 1 - 1 - Half] = Store("SQ", m + 1)
      BY <2>1 DEF WakeInv, MainBuffer
    <2> QED
      BY <2>1, <2>2
  <1>5. /\ mem.SQ_Done <= d /\ d <= m /\ m + 1 <= enq /\ enq - mem.SQ_Done <= SQ_SIZE
        /\ \A e \in d + 1 .. m + Half : mem.SQ[(e - 1) % SQ_SIZE] = e
    BY <1>0, <1>3 DEF WakeInv, Ring, Unseen
  <1>6. CASE Half = 0
    <2>1. /\ mem' \in Memory /\ mem'.SQ_Enq = m /\ mem'.SQ_Done = mem.SQ_Done
          /\ mem'.dev = mem.dev /\ mem'.SQ = [mem.SQ EXCEPT ![m % SQ_SIZE] = m + 1]
      <3>1. m + 1 \in Nat \ {0} /\ (m + 1) - 1 = m
        BY <1>0
      <3> QED
        BY SMTT(30), <1>0, <1>1, <1>4, <1>6, <3>1, WrittenSlot
    <2>2. Unseen' = Unseen /\ Half' = 1
      <3>1. Unseen' = Unseen
        BY <1>2, <2>1 DEF Unseen
      <3>2. Half' = 2 * Unseen - (n - 1)
        BY <1>1, <3>1 DEF Half
      <3> HIDE DEF n
      <3> QED
        BY <1>1, <1>3, <1>6, <3>1, <3>2
    <2>3. MainBuffer'
      <3> SUFFICES ASSUME NEW k \in 1 .. Unseen
                   PROVE  /\ mbuf'[2 * k - 1] = Store("SQ_Enq", m + k)
                          /\ 2 * k - 2 >= 1 => mbuf'[2 * k - 2] = Store("SQ", m + k)
        BY <1>3, <2>1, <2>2 DEF MainBuffer
      <3> DEFINE a == 2 * k - 1
                 b == 2 * k - 2
      <3>1. /\ a \in 1 .. n - 1 /\ a + 1 = 2 * k - Half
            /\ b >= 1 => b \in 1 .. n - 1 /\ b + 1 = 2 * k - 1 - Half
        BY <1>3, <1>6
      <3>2. /\ mbuf[2 * k - Half] = Store("SQ_Enq", m + k)
            /\ 2 * k - 1 - Half >= 1 => mbuf[2 * k - 1 - Half] = Store("SQ", m + k)
        BY DEF WakeInv, MainBuffer
      <3>3. b \in Int
        BY <1>3
      <3>4. /\ mbuf'[a] = Store("SQ_Enq", m + k)
            /\ b >= 1 => mbuf'[b] = Store("SQ", m + k)
        <4>1. mbuf[a + 1] = Store("SQ_Enq", m + k)
              /\ (b >= 1 => mbuf[b + 1] = Store("SQ", m + k))
          <5> HIDE DEF a, b
          <5>1. b >= 1 => b + 1 >= 1
            BY <3>3
          <5> QED
            BY <3>1, <3>2, <5>1
        <4> HIDE DEF a, b, n
        <4> QED
          BY <1>1, <3>1, <4>1
      <3> QED
        BY <3>4
    <2>4. Ring'
      <3>1. \A e \in d + 1 .. m + 1 : mem'.SQ[(e - 1) % SQ_SIZE] = e
        <4> SUFFICES ASSUME NEW e \in d + 1 .. m + 1 PROVE mem'.SQ[(e - 1) % SQ_SIZE] = e
          OBVIOUS
        <4>1. m % SQ_SIZE \in Slots
          BY <1>0, WakeSlot
        <4>2. CASE e = m + 1
          <5>1. e - 1 = m
            BY <1>0, <4>2
          <5> QED
            BY <1>0, <2>1, <4>1, <4>2, <5>1
        <4>3. CASE e # m + 1
          <5>1. e \in d + 1 .. m + Half /\ e - 1 \in Nat /\ e - 1 < m /\ m - (e - 1) < SQ_SIZE
            <6>1. SQ_SIZE \in Nat /\ enq \in Nat /\ mem.SQ_Done \in Nat /\ d \in Nat /\ m \in Nat
              BY <1>0
            <6>2. /\ mem.SQ_Done <= d /\ d <= m /\ m + 1 <= enq
                  /\ enq - mem.SQ_Done <= SQ_SIZE
              BY <1>5
            <6> HIDE DEF m
            <6>3. e \in Nat /\ d + 1 <= e /\ e <= m
              BY <4>3, <6>1
            <6>4. e \in d + 1 .. m + Half
              BY <1>6, <6>1, <6>3
            <6> QED
              BY <6>1, <6>2, <6>3, <6>4
          <5>2. (e - 1) % SQ_SIZE # m % SQ_SIZE /\ (e - 1) % SQ_SIZE \in Slots
            <6> HIDE DEF m
            <6>1. (e - 1) % SQ_SIZE # m % SQ_SIZE
              BY <1>0, <5>1, ModNear
            <6>2. (e - 1) % SQ_SIZE \in Slots
              BY <5>1, WakeSlot
            <6> QED
              BY <6>1, <6>2
          <5> QED
            BY <1>0, <1>5, <2>1, <4>1, <5>1, <5>2
        <4> QED
          BY <4>2, <4>3
      <3> QED
        BY <1>2, <1>5, <2>1, <2>2, <3>1 DEF WakeInv, Ring
    <2>5. WakeTypes' /\ ThreadBuffer' /\ (mainpc' = "access" => mem'.SQ_Done = enq')
      BY <1>1, <1>2, <2>1 DEF WakeInv, WakeTypes, ThreadBuffer
    <2> QED
      BY <2>3, <2>4, <2>5 DEF WakeInv
  <1>7. CASE Half = 1
    <2>1. /\ mem' \in Memory /\ mem'.SQ_Enq = m + 1 /\ mem'.SQ_Done = mem.SQ_Done
          /\ mem'.dev = mem.dev /\ mem'.SQ = mem.SQ
      <3>1. m + 1 \in Nat /\ 2 - Half = 1
        BY <1>0, <1>7
      <3> QED
        BY <1>0, <1>1, <1>4, <1>7, <3>1, WrittenCount
    <2>2. Unseen' = Unseen - 1 /\ Half' = 0
      <3>1. Unseen' = enq - (m + 1)
        BY <1>2, <2>1 DEF Unseen
      <3>2. Unseen' = Unseen - 1
        BY <1>0, <3>1 DEF Unseen
      <3>3. Half' = 2 * Unseen' - (n - 1)
        BY <1>1 DEF Half
      <3> HIDE DEF n
      <3> QED
        BY <1>1, <1>3, <1>7, <3>2, <3>3
    <2>3. MainBuffer'
      <3> SUFFICES ASSUME NEW k \in 1 .. Unseen - 1
                   PROVE  /\ mbuf'[2 * k] = Store("SQ_Enq", (m + 1) + k)
                          /\ 2 * k - 1 >= 1 => mbuf'[2 * k - 1] = Store("SQ", (m + 1) + k)
        BY <1>3, <2>1, <2>2 DEF MainBuffer
      <3> DEFINE a == 2 * k
                 b == 2 * k - 1
      <3>1. /\ a \in 1 .. n - 1 /\ a + 1 = 2 * (k + 1) - Half
            /\ b \in 1 .. n - 1 /\ b + 1 = 2 * (k + 1) - 1 - Half /\ b + 1 >= 1
            /\ k + 1 \in 1 .. Unseen /\ m + (k + 1) = (m + 1) + k
        <4> HIDE DEF n, m
        <4> QED
          BY <1>0, <1>1, <1>3, <1>7
      <3>2. /\ mbuf[2 * (k + 1) - Half] = Store("SQ_Enq", m + (k + 1))
            /\ 2 * (k + 1) - 1 - Half >= 1 =>
                  mbuf[2 * (k + 1) - 1 - Half] = Store("SQ", m + (k + 1))
        BY <3>1 DEF WakeInv, MainBuffer
      <3>4. /\ mbuf'[a] = Store("SQ_Enq", (m + 1) + k)
            /\ mbuf'[b] = Store("SQ", (m + 1) + k)
        <4>1. mbuf[a + 1] = Store("SQ_Enq", (m + 1) + k)
              /\ mbuf[b + 1] = Store("SQ", (m + 1) + k)
          <5> HIDE DEF a, b
          <5> QED
            BY <3>1, <3>2
        <4> HIDE DEF a, b, n
        <4> QED
          BY <1>1, <3>1, <4>1
      <3> QED
        BY <3>4
    <2>4. Ring'
      <3>1. \A e \in d + 1 .. (m + 1) + 0 : mem'.SQ[(e - 1) % SQ_SIZE] = e
        <4>1. (m + 1) + 0 = m + Half
          BY <1>0, <1>7
        <4>2. \A e \in d + 1 .. m + Half : mem.SQ[(e - 1) % SQ_SIZE] = e
          BY <1>5
        <4> HIDE DEF m
        <4> QED
          BY <2>1, <4>1, <4>2
      <3>2. d < m + 1 /\ d <= m + 1
        BY <1>0, <1>5
      <3> QED
        BY <1>2, <1>5, <2>1, <2>2, <3>1, <3>2 DEF WakeInv, Ring
    <2>5. WakeTypes' /\ ThreadBuffer' /\ (mainpc' = "access" => mem'.SQ_Done = enq')
      BY <1>1, <1>2, <2>1 DEF WakeInv, WakeTypes, ThreadBuffer
    <2> QED
      BY <2>3, <2>4, <2>5 DEF WakeInv
  <1> QED
    BY <1>3, <1>6, <1>7

\* The oldest store of the thread reaches memory.
LEMMA WakeFlushThread == WakeInv /\ FlushThread => WakeInv'
  <1> SUFFICES ASSUME WakeInv, FlushThread PROVE WakeInv'
    OBVIOUS
  <1> DEFINE n == Len(tbuf)
             s == tbuf[1]
  <1>0. /\ mem \in Memory /\ tbuf \in Seq(ThreadStores) /\ tbuf # <<>>
        /\ d \in Nat /\ enq \in Nat /\ mem.SQ_Done \in Nat /\ mem.SQ_Enq \in Nat /\ SQ_SIZE \in Nat
    BY WakeSize DEF WakeInv, WakeTypes, Memory, FlushThread
  <1>1. /\ mem' = Written(s) /\ n \in Nat \ {0} /\ s \in ThreadStores
        /\ tbuf' \in Seq(ThreadStores) /\ Len(tbuf') = n - 1
        /\ \A i \in 1 .. n - 1 : tbuf'[i] = tbuf[i + 1]
    <2>1. Head(tbuf) = s /\ n \in Nat \ {0} /\ s \in ThreadStores
      BY <1>0
    <2>2. /\ Tail(tbuf) \in Seq(ThreadStores) /\ Len(Tail(tbuf)) = n - 1
          /\ \A i \in 1 .. Len(Tail(tbuf)) : Tail(tbuf)[i] = tbuf[i + 1]
      BY <1>0, HeadTailProperties
    <2> QED
      BY <2>1, <2>2 DEF FlushThread
  <1>2. UNCHANGED <<mainpc, enq, threadpc, d, c, mbuf, SSem>>
    BY DEF FlushThread
  <1>3. 1 \in 1 .. n /\ (n > 1 => 2 \in 1 .. n /\ 1 \in 1 .. n - 1) /\ (tbuf' # <<>> <=> n > 1)
    <2>1. tbuf' # <<>> <=> Len(tbuf') # 0
      BY <1>1
    <2> HIDE DEF n
    <2> QED
      BY <1>1, <2>1
  \* What holds of the stores behind the oldest one, whatever memory counts.
  <1>4. \A i \in 1 .. n - 1 : tbuf'[i].at = "dev" =>
           i < n - 1 /\ tbuf'[i + 1] = Store("SQ_Done", tbuf'[i].val)
    <2> SUFFICES ASSUME NEW i \in 1 .. n - 1, tbuf'[i].at = "dev"
                 PROVE  i < n - 1 /\ tbuf'[i + 1] = Store("SQ_Done", tbuf'[i].val)
      OBVIOUS
    <2>1. tbuf'[i] = tbuf[i + 1] /\ i + 1 \in 1 .. n
      BY <1>1
    <2>2. i + 1 < n /\ tbuf[(i + 1) + 1] = Store("SQ_Done", tbuf[i + 1].val)
      BY <2>1 DEF WakeInv, ThreadBuffer
    <2>3. i < n - 1 /\ i + 1 \in 1 .. n - 1
      BY <1>1, <2>2
    <2> QED
      BY <1>1, <2>1, <2>2, <2>3
  <1>5. \A i \in 1 .. n - 1 : tbuf'[i].at = "SQ_Done" =>
           /\ mem.SQ_Done < tbuf'[i].val /\ tbuf'[i].val <= d
           /\ i > 1 => tbuf'[i - 1] = Store("dev", tbuf'[i].val)
           /\ i = 1 => s = Store("dev", tbuf'[i].val)
           /\ s.at = "SQ_Done" => s.val < tbuf'[i].val
    <2> SUFFICES ASSUME NEW i \in 1 .. n - 1, tbuf'[i].at = "SQ_Done"
                 PROVE  /\ mem.SQ_Done < tbuf'[i].val /\ tbuf'[i].val <= d
                        /\ i > 1 => tbuf'[i - 1] = Store("dev", tbuf'[i].val)
                        /\ i = 1 => s = Store("dev", tbuf'[i].val)
                        /\ s.at = "SQ_Done" => s.val < tbuf'[i].val
      OBVIOUS
    <2>1. tbuf'[i] = tbuf[i + 1] /\ i + 1 \in 1 .. n /\ i + 1 > 1 /\ (i + 1) - 1 = i
      BY <1>1
    <2>2. /\ mem.SQ_Done < tbuf[i + 1].val /\ tbuf[i + 1].val <= d
          /\ tbuf[(i + 1) - 1] = Store("dev", tbuf[i + 1].val)
      BY <2>1 DEF WakeInv, ThreadBuffer
    <2>3. tbuf[i] = Store("dev", tbuf[i + 1].val)
      BY <2>1, <2>2
    <2>4. i > 1 => tbuf'[i - 1] = tbuf[i]
      BY <1>1
    <2>5. s.at = "SQ_Done" => s.val < tbuf[i + 1].val
      BY <1>3, <2>1 DEF WakeInv, ThreadBuffer
    <2> QED
      BY <2>1, <2>2, <2>3, <2>4, <2>5
  <1>a. tbuf' # <<>> /\ tbuf'[1].at = "SQ_Done" => s.at = "dev"
    <2> SUFFICES ASSUME tbuf' # <<>>, tbuf'[1].at = "SQ_Done" PROVE s.at = "dev"
      OBVIOUS
    <2>1. 1 \in 1 .. n - 1
      BY <1>1, <1>3
    <2>2. s = Store("dev", tbuf'[1].val)
      BY <1>5, <2>1
    <2>3. Store("dev", tbuf'[1].val).at = "dev"
      BY DEF Store
    <2> HIDE DEF s
    <2> QED
      BY <2>2, <2>3
  <1>6. \A i, j \in 1 .. n - 1 :
           i < j /\ tbuf'[i].at = "SQ_Done" /\ tbuf'[j].at = "SQ_Done" =>
              tbuf'[i].val < tbuf'[j].val
    <2> SUFFICES ASSUME NEW i \in 1 .. n - 1, NEW j \in 1 .. n - 1, i < j,
                        tbuf'[i].at = "SQ_Done", tbuf'[j].at = "SQ_Done"
                 PROVE  tbuf'[i].val < tbuf'[j].val
      OBVIOUS
    <2>1. /\ tbuf'[i] = tbuf[i + 1] /\ i + 1 \in 1 .. n
          /\ tbuf'[j] = tbuf[j + 1] /\ j + 1 \in 1 .. n /\ i + 1 < j + 1
      BY <1>1
    <2> QED
      BY <2>1 DEF WakeInv, ThreadBuffer
  <1>7. CASE s.at = "dev"
    <2> DEFINE v == s.val
    <2>1. v \in Nat /\ s = Store("dev", v)
      BY <1>1, <1>7 DEF ThreadStores, Store
    <2>2. /\ mem' \in Memory /\ mem'.SQ = mem.SQ
          /\ mem'.SQ_Enq = mem.SQ_Enq /\ mem'.SQ_Done = mem.SQ_Done /\ mem'.dev = v
      BY <1>0, <1>1, <2>1, WrittenDevice
    <2>3. n > 1 /\ tbuf'[1] = Store("SQ_Done", v)
      <3>1. 1 < n /\ tbuf[1 + 1] = Store("SQ_Done", v)
        BY <1>3, <1>7 DEF WakeInv, ThreadBuffer
      <3> QED
        BY <1>1, <1>3, <3>1
    <2>4. ThreadBuffer'
      BY <1>1, <1>2, <1>3, <1>4, <1>5, <1>6, <2>2, <2>3 DEF ThreadBuffer, Store
    <2>5. WakeTypes' /\ MainBuffer' /\ Ring' /\ (mainpc' = "access" => mem'.SQ_Done = enq')
      BY <1>1, <1>2, <2>2 DEF WakeInv, WakeTypes, MainBuffer, Ring, Unseen, Half
    <2> QED
      BY <2>4, <2>5 DEF WakeInv
  <1>8. CASE s.at = "SThreadSleeping"
    <2> DEFINE v == s.val
    <2>1. v \in BOOLEAN /\ s = Store("SThreadSleeping", v)
      BY <1>1, <1>8 DEF ThreadStores, Store
    <2>2. /\ mem' \in Memory /\ mem'.SQ = mem.SQ /\ mem'.dev = mem.dev
          /\ mem'.SQ_Enq = mem.SQ_Enq /\ mem'.SQ_Done = mem.SQ_Done
      BY <1>0, <1>1, <2>1, WrittenSleep
    <2>3. mem'.dev = mem'.SQ_Done /\ (tbuf' # <<>> => tbuf'[1].at # "SQ_Done")
      <3>1. mem.dev = mem.SQ_Done
        BY <1>0, <1>8 DEF WakeInv, ThreadBuffer
      <3>2. tbuf' # <<>> => tbuf'[1].at # "SQ_Done"
        BY <1>a, <1>8
      <3> QED
        BY <2>2, <3>1, <3>2
    <2>4. ThreadBuffer'
      BY <1>1, <1>2, <1>3, <1>4, <1>5, <1>6, <2>2, <2>3 DEF ThreadBuffer
    <2>5. WakeTypes' /\ MainBuffer' /\ Ring' /\ (mainpc' = "access" => mem'.SQ_Done = enq')
      BY <1>1, <1>2, <2>2 DEF WakeInv, WakeTypes, MainBuffer, Ring, Unseen, Half
    <2> QED
      BY <2>4, <2>5 DEF WakeInv
  <1>9. CASE s.at = "SQ_Done"
    <2> DEFINE v == s.val
    <2>1. v \in Nat /\ s = Store("SQ_Done", v)
      BY <1>1, <1>9 DEF ThreadStores, Store
    <2>2. /\ mem' \in Memory /\ mem'.SQ = mem.SQ /\ mem'.dev = mem.dev
          /\ mem'.SQ_Enq = mem.SQ_Enq /\ mem'.SQ_Done = v
      BY <1>0, <1>1, <2>1, WrittenDone
    <2>3. mem.SQ_Done < v /\ v <= d /\ mem.dev = v
      BY <1>0, <1>3, <1>9 DEF WakeInv, ThreadBuffer
    <2>4. ThreadBuffer'
      <3>1. tbuf' # <<>> => tbuf'[1].at # "SQ_Done"
        BY <1>a, <1>9
      <3> QED
        BY <1>1, <1>2, <1>4, <1>5, <1>6, <1>9, <2>2, <2>3, <3>1 DEF ThreadBuffer
    <2>5. Ring'
      <3>1. Unseen' = Unseen /\ Half' = Half
        BY <1>2, <2>2 DEF Unseen, Half
      <3>2. enq - v <= SQ_SIZE
        BY <1>0, <2>1, <2>3 DEF WakeInv, Ring
      <3> QED
        BY <1>2, <2>2, <2>3, <3>1, <3>2 DEF WakeInv, Ring
    <2>6. WakeTypes' /\ MainBuffer'
      BY <1>1, <1>2, <2>2 DEF WakeInv, WakeTypes, MainBuffer, Unseen, Half
    <2>7. mainpc' = "access" => mem'.SQ_Done = enq'
      <3>1. enq >= mem.SQ_Enq
        BY <1>0 DEF WakeInv, MainBuffer, Unseen
      <3>2. mainpc = "access" => mem.SQ_Done = enq
        BY DEF WakeInv
      <3>3. d <= enq
        BY <1>0, <3>1 DEF WakeInv, Ring
      <3> QED
        BY <1>0, <1>2, <2>1, <2>2, <2>3, <3>2, <3>3
    <2> QED
      BY <2>4, <2>5, <2>6, <2>7 DEF WakeInv
  <1> QED
    BY <1>1, <1>7, <1>8, <1>9 DEF ThreadStores

\* An announced sleep, or its end, goes into the thread's buffer.
LEMMA SleepStore ==
    ASSUME WakeInv, NEW b \in BOOLEAN, tbuf' = Append(tbuf, Store("SThreadSleeping", b)),
           UNCHANGED <<mem, d>>
    PROVE  tbuf' \in Seq(ThreadStores) /\ ThreadBuffer'
  <1> DEFINE n == Len(tbuf)
             x == Store("SThreadSleeping", b)
  <1>0. tbuf \in Seq(ThreadStores) /\ n \in Nat /\ x \in ThreadStores
    BY DEF WakeInv, WakeTypes, ThreadStores, Store
  <1>1. /\ tbuf' \in Seq(ThreadStores) /\ tbuf' # <<>> /\ Len(tbuf') = n + 1
        /\ \A i \in 1 .. n : tbuf'[i] = tbuf[i]
        /\ tbuf'[n + 1] = x
    BY <1>0, AppendProperties
  <1>2. x.at = "SThreadSleeping"
    BY DEF Store
  <1>3. tbuf # <<>> <=> n > 0
    BY <1>0
  <1> HIDE DEF n, x
  <1>4. \A i \in 1 .. n + 1 : tbuf'[i].at \in {"dev", "SQ_Done"} => i \in 1 .. n /\ tbuf'[i] = tbuf[i]
    BY <1>0, <1>1, <1>2
  <1>5. \A i \in 1 .. n + 1 : tbuf'[i].at = "dev" =>
           i < n + 1 /\ tbuf'[i + 1] = Store("SQ_Done", tbuf'[i].val)
    <2> SUFFICES ASSUME NEW i \in 1 .. n, tbuf[i].at = "dev"
                 PROVE  i < n + 1 /\ tbuf'[i + 1] = Store("SQ_Done", tbuf[i].val)
      BY <1>4
    <2>1. i < n /\ tbuf[i + 1] = Store("SQ_Done", tbuf[i].val)
      BY DEF WakeInv, ThreadBuffer, n
    <2>2. i + 1 \in 1 .. n
      BY <1>0, <2>1
    <2> QED
      BY <1>0, <1>1, <2>1, <2>2
  <1>6. \A i \in 1 .. n + 1 : tbuf'[i].at = "SQ_Done" =>
           /\ mem.SQ_Done < tbuf'[i].val /\ tbuf'[i].val <= d
           /\ i > 1 => tbuf'[i - 1] = Store("dev", tbuf'[i].val)
    <2> SUFFICES ASSUME NEW i \in 1 .. n, tbuf[i].at = "SQ_Done"
                 PROVE  /\ mem.SQ_Done < tbuf[i].val /\ tbuf[i].val <= d
                        /\ i > 1 => tbuf'[i - 1] = Store("dev", tbuf[i].val)
      BY <1>4
    <2>1. /\ mem.SQ_Done < tbuf[i].val /\ tbuf[i].val <= d
          /\ i > 1 => tbuf[i - 1] = Store("dev", tbuf[i].val)
      BY DEF WakeInv, ThreadBuffer, n
    <2>2. i > 1 => i - 1 \in 1 .. n
      BY <1>0
    <2> QED
      BY <1>1, <2>1, <2>2
  <1>7. \A i, j \in 1 .. n + 1 :
           i < j /\ tbuf'[i].at = "SQ_Done" /\ tbuf'[j].at = "SQ_Done" =>
              tbuf'[i].val < tbuf'[j].val
    BY <1>4 DEF WakeInv, ThreadBuffer, n
  <1>8. mem.dev = IF tbuf'[1].at = "SQ_Done" THEN tbuf'[1].val ELSE mem.SQ_Done
    <2>1. CASE n > 0
      <3>1. 1 \in 1 .. n
        BY <1>0, <2>1
      <3> QED
        BY <1>1, <1>3, <2>1, <3>1 DEF WakeInv, ThreadBuffer
    <2>2. CASE n = 0
      BY <1>1, <1>2, <1>3, <2>2 DEF WakeInv, ThreadBuffer
    <2> QED
      BY <1>0, <2>1, <2>2
  <1> QED
    BY <1>1, <1>5, <1>6, <1>7, <1>8 DEF ThreadBuffer

\* A command takes effect and is completed.
LEMMA WakeExecute == WakeInv /\ Execute => WakeInv'
  <1> SUFFICES ASSUME WakeInv, Execute PROVE WakeInv'
    OBVIOUS
  <1> DEFINE n == Len(tbuf)
             x == Store("dev", d + 1)
             y == Store("SQ_Done", d + 1)
             p == Reported
  <1>0. /\ tbuf \in Seq(ThreadStores) /\ n \in Nat /\ d \in Nat /\ c = d + 1
        /\ mem.SQ_Done \in Nat /\ mem.SQ_Enq \in Nat /\ d < mem.SQ_Enq
        /\ mem.SQ_Done <= d /\ Half \in Nat
    BY DEF WakeInv, WakeTypes, Memory, Ring, MainBuffer, Execute
  <1>1. /\ p \in Seq(ThreadStores) /\ Len(p) = 2 /\ p[1] = x /\ p[2] = y
        /\ x.at = "dev" /\ x.val = d + 1 /\ y.at = "SQ_Done" /\ y.val = d + 1
    BY <1>0 DEF Reported, Store, ThreadStores
  <1>2. UNCHANGED <<mainpc, enq, c, mem, mbuf, SSem>> /\ d' = d + 1 /\ threadpc' = "poll"
    BY DEF Execute
  <1>3. /\ tbuf' \in Seq(ThreadStores) /\ Len(tbuf') = n + 2
        /\ \A i \in 1 .. n : tbuf'[i] = tbuf[i]
        /\ tbuf'[n + 1] = x /\ tbuf'[n + 2] = y
    <2> HIDE DEF p
    <2>1. tbuf' = tbuf \o p
      BY DEF Execute, p
    <2>2. /\ tbuf \o p \in Seq(ThreadStores) /\ Len(tbuf \o p) = Len(tbuf) + Len(p)
          /\ \A i \in 1 .. Len(tbuf) + Len(p) :
                (tbuf \o p)[i] = IF i <= Len(tbuf) THEN tbuf[i] ELSE p[i - Len(tbuf)]
      BY <1>0, <1>1, ConcatProperties
    <2>3. \A i \in 1 .. n + 2 : tbuf'[i] = IF i <= n THEN tbuf[i] ELSE p[i - n]
      BY <1>1, <2>1, <2>2
    <2>4. tbuf' \in Seq(ThreadStores) /\ Len(tbuf') = n + 2
      BY <1>1, <2>1, <2>2
    <2> HIDE DEF n, x, y
    <2>5. /\ (n + 1) - n = 1 /\ (n + 2) - n = 2 /\ ~(n + 1 <= n) /\ ~(n + 2 <= n)
          /\ n + 1 \in 1 .. n + 2 /\ n + 2 \in 1 .. n + 2
          /\ \A i \in 1 .. n : i \in 1 .. n + 2 /\ i <= n
      BY <1>0
    <2> QED
      BY <1>1, <2>3, <2>4, <2>5
  <1>4. (tbuf # <<>> <=> n > 0) /\ tbuf' # <<>>
    BY <1>0, <1>3
  <1> HIDE DEF n, x, y, p
  <1>5. \A i \in 1 .. n + 2 : i \in 1 .. n \/ i = n + 1 \/ i = n + 2
    BY <1>0
  <1>6. \A i \in 1 .. n + 2 : tbuf'[i].at = "dev" =>
           i < n + 2 /\ tbuf'[i + 1] = Store("SQ_Done", tbuf'[i].val)
    <2> SUFFICES ASSUME NEW i \in 1 .. n + 2, tbuf'[i].at = "dev"
                 PROVE  i < n + 2 /\ tbuf'[i + 1] = Store("SQ_Done", tbuf'[i].val)
      OBVIOUS
    <2>1. CASE i \in 1 .. n
      <3>1. i < n /\ tbuf[i + 1] = Store("SQ_Done", tbuf[i].val)
        BY <1>3, <2>1 DEF WakeInv, ThreadBuffer, n
      <3>2. i + 1 \in 1 .. n
        BY <1>0, <2>1, <3>1
      <3> QED
        BY <1>0, <1>3, <2>1, <3>1, <3>2
    <2>2. CASE i = n + 1
      <3>1. i < n + 2 /\ i + 1 = n + 2
        BY <1>0, <2>2
      <3>2. y = Store("SQ_Done", x.val)
        BY <1>1 DEF y
      <3> QED
        BY <1>3, <2>2, <3>1, <3>2
    <2>3. CASE i = n + 2
      BY <1>1, <1>3, <2>3
    <2> QED
      BY <1>5, <2>1, <2>2, <2>3
  <1>7. \A i \in 1 .. n + 2 : tbuf'[i].at = "SQ_Done" =>
           /\ mem.SQ_Done < tbuf'[i].val /\ tbuf'[i].val <= d + 1
           /\ i > 1 => tbuf'[i - 1] = Store("dev", tbuf'[i].val)
    <2> SUFFICES ASSUME NEW i \in 1 .. n + 2, tbuf'[i].at = "SQ_Done"
                 PROVE  /\ mem.SQ_Done < tbuf'[i].val /\ tbuf'[i].val <= d + 1
                        /\ i > 1 => tbuf'[i - 1] = Store("dev", tbuf'[i].val)
      OBVIOUS
    <2>1. CASE i \in 1 .. n
      <3>1. /\ mem.SQ_Done < tbuf[i].val /\ tbuf[i].val <= d
            /\ i > 1 => tbuf[i - 1] = Store("dev", tbuf[i].val)
        BY <1>3, <2>1 DEF WakeInv, ThreadBuffer, n
      <3>2. (i > 1 => i - 1 \in 1 .. n) /\ tbuf[i].val <= d + 1
        <4>1. tbuf[i] \in ThreadStores
          BY <1>0, <2>1, ElementOfSeq DEF n
        <4>2. tbuf[i].val \in Nat
          BY <1>3, <2>1, <4>1 DEF ThreadStores
        <4> QED
          BY <1>0, <2>1, <3>1, <4>2
      <3> QED
        BY <1>3, <2>1, <3>1, <3>2
    <2>2. CASE i = n + 1
      BY <1>1, <1>3, <2>2
    <2>3. CASE i = n + 2
      <3>1. i - 1 = n + 1
        BY <1>0, <2>3
      <3>2. x = Store("dev", y.val)
        BY <1>1 DEF x
      <3> QED
        BY <1>0, <1>1, <1>3, <2>3, <3>1, <3>2
    <2> QED
      BY <1>5, <2>1, <2>2, <2>3
  <1>8. \A i, j \in 1 .. n + 2 :
           i < j /\ tbuf'[i].at = "SQ_Done" /\ tbuf'[j].at = "SQ_Done" =>
              tbuf'[i].val < tbuf'[j].val
    <2> SUFFICES ASSUME NEW i \in 1 .. n + 2, NEW j \in 1 .. n + 2, i < j,
                        tbuf'[i].at = "SQ_Done", tbuf'[j].at = "SQ_Done"
                 PROVE  tbuf'[i].val < tbuf'[j].val
      OBVIOUS
    <2>1. i # n + 1 /\ j # n + 1
      BY <1>1, <1>3
    <2>2. i \in 1 .. n
      BY <1>0, <1>5, <2>1
    <2>3. CASE j \in 1 .. n
      BY <1>3, <2>2, <2>3 DEF WakeInv, ThreadBuffer, n
    <2>4. CASE j = n + 2
      <3>1. tbuf[i].val <= d /\ tbuf[i] \in ThreadStores /\ tbuf[i].at = "SQ_Done"
        BY <1>0, <1>3, <2>2, ElementOfSeq DEF WakeInv, ThreadBuffer, n
      <3>2. tbuf[i].val \in Nat
        BY <3>1 DEF ThreadStores
      <3> QED
        BY <1>0, <1>1, <1>3, <2>2, <2>4, <3>1, <3>2
    <2> QED
      BY <1>5, <2>1, <2>3, <2>4
  <1>9. mem.dev = IF tbuf'[1].at = "SQ_Done" THEN tbuf'[1].val ELSE mem.SQ_Done
    <2>1. CASE n > 0
      <3>1. 1 \in 1 .. n
        BY <1>0, <2>1
      <3> QED
        BY <1>3, <1>4, <2>1, <3>1 DEF WakeInv, ThreadBuffer
    <2>2. CASE n = 0
      <3>1. tbuf'[1] = x
        BY <1>3, <2>2
      <3> QED
        BY <1>1, <1>4, <2>2, <3>1 DEF WakeInv, ThreadBuffer
    <2> QED
      BY <1>0, <2>1, <2>2
  <1>10. ThreadBuffer'
    BY <1>2, <1>3, <1>4, <1>6, <1>7, <1>8, <1>9 DEF ThreadBuffer
  <1>11. MainBuffer' /\ Unseen' = Unseen /\ Half' = Half
    BY <1>2 DEF WakeInv, MainBuffer, Unseen, Half
  <1>12. Ring'
    <2>1. mem.SQ_Done <= d + 1 /\ d + 1 <= mem.SQ_Enq
      BY <1>0
    <2>2. \A e \in (d + 1) + 1 .. mem.SQ_Enq + Half : e \in d + 1 .. mem.SQ_Enq + Half
      BY <1>0
    <2> QED
      BY <1>2, <1>11, <2>1, <2>2 DEF WakeInv, Ring
  <1>13. WakeTypes' /\ (mainpc' = "access" => mem'.SQ_Done = enq')
    BY <1>0, <1>2, <1>3 DEF WakeInv, WakeTypes
  <1> QED
    BY <1>10, <1>11, <1>12, <1>13 DEF WakeInv

\* The thread looks for a command, or announces a sleep; a look again; a wake-up.
LEMMA WakePoll == WakeInv /\ (Poll \/ Awake \/ Recheck \/ Sleep \/ SemTaken \/ SemTimeout)
                    => WakeInv'
  <1> SUFFICES ASSUME WakeInv, Poll \/ Awake \/ Recheck \/ Sleep \/ SemTaken \/ SemTimeout
               PROVE  WakeInv'
    OBVIOUS
  <1>1. /\ UNCHANGED <<mainpc, enq, d, c, mem, mbuf>> /\ SSem' \in Nat
        /\ threadpc' # "exec" /\ (threadpc' = "fetch" => mem.SQ_Enq # d)
        /\ \/ UNCHANGED tbuf
           \/ \E b \in BOOLEAN : tbuf' = Append(tbuf, Store("SThreadSleeping", b))
    <2>0. SSem \in Nat
      BY DEF WakeInv, WakeTypes
    <2>1. CASE Poll
      BY <2>0, <2>1 DEF Poll
    <2>2. CASE Awake
      BY <2>0, <2>2 DEF Awake
    <2>3. CASE Recheck \/ Sleep \/ SemTaken \/ SemTimeout
      BY <2>0, <2>3 DEF Recheck, Sleep, SemTaken, SemTimeout
    <2> QED
      BY <2>1, <2>2, <2>3
  <1>2. tbuf' \in Seq(ThreadStores) /\ ThreadBuffer'
    <2>1. CASE UNCHANGED tbuf
      BY <1>1, <2>1 DEF WakeInv, WakeTypes, ThreadBuffer
    <2>2. CASE \E b \in BOOLEAN : tbuf' = Append(tbuf, Store("SThreadSleeping", b))
      BY <1>1, <2>2, SleepStore
    <2> QED
      BY <1>1, <2>1, <2>2
  <1>3. WakeTypes' /\ MainBuffer' /\ Unseen' = Unseen /\ Half' = Half
    BY <1>1, <1>2 DEF WakeInv, WakeTypes, MainBuffer, Unseen, Half
  <1>4. Ring'
    <2>1. threadpc' = "fetch" => d < mem.SQ_Enq
      BY <1>1 DEF WakeInv, WakeTypes, Memory, Ring
    <2> QED
      BY <1>1, <1>3, <2>1 DEF WakeInv, Ring
  <1> QED
    BY <1>1, <1>2, <1>3, <1>4 DEF WakeInv

\* The thread copies the command: it is the one pushed at its place.
LEMMA WakeFetch == WakeInv /\ Fetch => WakeInv'
  <1> SUFFICES ASSUME WakeInv, Fetch PROVE WakeInv'
    OBVIOUS
  <1>1. /\ UNCHANGED <<mainpc, enq, d, mem, mbuf, tbuf, SSem>> /\ threadpc = "fetch" /\ threadpc' = "exec"
        /\ c' = mem.SQ[d % SQ_SIZE]
    BY DEF Fetch
  <1>2. /\ d \in Nat /\ mem.SQ_Enq \in Nat /\ Half \in Nat /\ d < mem.SQ_Enq
    BY <1>1 DEF WakeInv, WakeTypes, Memory, MainBuffer, Ring
  <1>3. c' = d + 1
    <2>1. d + 1 \in d + 1 .. mem.SQ_Enq + Half /\ (d + 1) - 1 = d
      BY <1>2
    <2>2. mem.SQ[((d + 1) - 1) % SQ_SIZE] = d + 1
      BY <2>1 DEF WakeInv, Ring
    <2> QED
      BY <1>1, <2>1, <2>2
  <1>4. WakeTypes' /\ MainBuffer' /\ ThreadBuffer'
    BY <1>1, <1>2, <1>3 DEF WakeInv, WakeTypes, MainBuffer, Unseen, Half, ThreadBuffer
  <1>5. Ring'
    BY <1>1, <1>2, <1>3 DEF WakeInv, Ring, Unseen, Half
  <1> QED
    BY <1>1, <1>4, <1>5 DEF WakeInv

\* Main looks for a sleeper, posts, drains and works on the hardware.
LEMMA WakeMain == WakeInv /\ (Look \/ Post \/ Drain \/ DrainSeen \/ DirectAccess
                              \/ UNCHANGED wakeVars) => WakeInv'
  <1> SUFFICES ASSUME WakeInv, Look \/ Post \/ Drain \/ DrainSeen \/ DirectAccess
                               \/ UNCHANGED wakeVars
               PROVE  WakeInv'
    OBVIOUS
  <1>1. /\ UNCHANGED <<enq, threadpc, d, c, mem, mbuf, tbuf>> /\ SSem' \in Nat
        /\ mainpc' = "access" => mem.SQ_Done = enq
    BY DEF Look, Post, Drain, DrainSeen, DirectAccess, wakeVars, WakeInv, WakeTypes
  <1>2. WakeTypes' /\ MainBuffer' /\ Ring' /\ ThreadBuffer'
    BY <1>1 DEF WakeInv, WakeTypes, MainBuffer, Ring, Unseen, Half, ThreadBuffer
  <1> QED
    BY <1>1, <1>2 DEF WakeInv

\* The invariant of the store buffers.
LEMMA WakeInvariance == SpecWake => []WakeInv
  <1>1. WakeInv /\ [NextWake]_(wakeVars) => WakeInv'
    BY WakePush, WakeFlushMain, WakeFlushThread, WakeExecute, WakePoll, WakeFetch, WakeMain
       DEF NextWake, MainStep, ThreadStep
  <1> QED
    BY <1>1, WakeInit, PTL DEF SpecWake

\* However long a store stays in a core's buffer, the thread copies the command that
\* was pushed, for every ring and every number of commands (SoundThread_Push stores
\* the slot before it releases SQ_Enq).
THEOREM PushedIsFetched == SpecWake => []FetchesPushed
  <1>1. WakeInv => FetchesPushed
    BY DEF WakeInv, Ring, FetchesPushed
  <1> QED
    BY <1>1, WakeInvariance, PTL

\* ... and main, behind a drain, sees all that the thread did to the hardware (the
\* thread releases SQ_Done behind it).
THEOREM DrainSeesAll == SpecWake => []AccessSeesAll
  <1>1. WakeInv => AccessSeesAll
    <2> SUFFICES ASSUME WakeInv, mainpc = "access" PROVE mem.dev = enq
      BY DEF AccessSeesAll
    <2>1. /\ mem.SQ_Done = enq /\ enq \in Nat /\ d \in Nat /\ mem.SQ_Enq \in Nat
          /\ tbuf \in Seq(ThreadStores)
      BY DEF WakeInv, WakeTypes, Memory
    <2>2. d <= enq
      BY <2>1 DEF WakeInv, MainBuffer, Unseen, Ring
    <2>3. ~(tbuf # <<>> /\ tbuf[1].at = "SQ_Done")
      <3> SUFFICES ASSUME tbuf # <<>>, tbuf[1].at = "SQ_Done" PROVE FALSE
        OBVIOUS
      <3>1. 1 \in 1 .. Len(tbuf) /\ tbuf[1] \in ThreadStores
        BY <2>1
      <3>2. tbuf[1].val \in Nat
        BY <3>1 DEF ThreadStores
      <3>3. mem.SQ_Done < tbuf[1].val /\ tbuf[1].val <= d
        BY <3>1 DEF WakeInv, ThreadBuffer
      <3> QED
        BY <2>1, <2>2, <3>2, <3>3
    <2> QED
      BY <2>1, <2>3 DEF WakeInv, ThreadBuffer
  <1> QED
    BY <1>1, WakeInvariance, PTL

=============================================================================
