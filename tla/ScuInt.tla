------------------------------- MODULE ScuInt -------------------------------
(***************************************************************************)
(* The interrupt controller of the SCU (src/mednafen/ss/scu.inc) and the   *)
(* interrupt input of the master SH-2: latches, masks, priorities, the     *)
(* vector fetch and the A-bus acknowledge.  SoundInt.tla adds the sound    *)
(* thread, which drives one of its inputs.                                 *)
(*                                                                         *)
(* An interrupt is the number of its bit: 0 .. 13 are internal and latched *)
(* on a rise, 16 .. 31 come over the A-bus and are latched as long as they *)
(* are high and not prohibited.  The CPU fetches its vectors from the SCU  *)
(* (ICR bit 0).  What an interrupt starts besides (DMA) is left out.       *)
(* Operators named Bad... are plausible bugs; no specification uses them.  *)
(***************************************************************************)
EXTENDS Naturals

CONSTANTS
    Sources,    \* the interrupts that happen
    Masks       \* what the game writes to IMS

SCSP      == 6              \* SCU_INT_SCSP
Internal  == 0 .. 13
External  == 16 .. 31
AllMasked == Internal \union {15}   \* 0xBFFF: bit 15 masks the A-bus
NoVector  == 32

ASSUME SourcesAssumption == SCSP \in Sources /\ Sources \subseteq Internal \union External
ASSUME MasksAssumption == Masks \subseteq SUBSET AllMasked

VARIABLE scu    \* the SCU, and IRL of the CPU (see ScuReset)

----------------------------------------------------------------------------
(* CheckDoMasterInt.                                                       *)

internal_tab == <<15, 14, 13, 12, 11, 10, 9, 8, 8, 6, 6, 5, 3, 2>>
external_tab == <<7, 7, 7, 7, 4, 4, 4, 4, 1, 1, 1, 1, 1, 1, 1, 1>>
Level(s) == IF s < 16 THEN internal_tab[s + 1] ELSE external_tab[s - 15]

\* IPending &~ (int16)IMask
Unmasked(u) == {s \in u.IPending : (IF s < 16 THEN s ELSE 15) \notin u.IMask}

Lowest(S) == CHOOSE s \in S : \A t \in S : s <= t

\* Of the lowest internal and the lowest external bit, the one of the higher level.
Chosen(open) ==
    LET wi == open \ External
        we == open \ wi
    IN  IF we # {} /\ (wi = {} \/ Level(Lowest(we)) > Level(Lowest(wi)))
        THEN Lowest(we) ELSE Lowest(wi)

\* IVec stands for ILevel too: it is NoVector when ILevel is 0.
ILevel(u) == IF u.IVec = NoVector THEN 0 ELSE Level(u.IVec)

\* One interrupt is offered to the CPU until its vector is fetched.
CheckDoMasterInt(u) ==
    LET open == Unmasked(u)
        s    == Chosen(open)
    IN  IF u.IVec # NoVector \/ open = {} THEN u
        ELSE [u EXCEPT !.IPending = @ \ {s}, !.IVec = s, !.IRL = Level(s)]

----------------------------------------------------------------------------
(* SCU_SetInt.                                                             *)

\* An A-bus interrupt is latched once, until it is acknowledged.
ABusIRQCheck(u) ==
    LET high == u.IAsserted \intersect External
        tt   == high \ u.ABusIProhibit
        w    == [u EXCEPT !.IPending = @ \union tt, !.ABusIProhibit = @ \union high]
    IN  IF tt = {} THEN w ELSE CheckDoMasterInt(w)

BadRises(u, which, active) == active
Rises(u, which, active) == active /\ which \notin u.IAsserted

SetInt(u, which, active) ==
    LET w == [u EXCEPT !.IAsserted = IF active THEN @ \union {which} ELSE @ \ {which}]
    IN  IF which \in External THEN ABusIRQCheck(w)
        ELSE IF Rises(u, which, active)
             THEN CheckDoMasterInt([w EXCEPT !.IPending = @ \union {which}]) ELSE w

----------------------------------------------------------------------------
(* What the CPUs and the other devices do with it.                         *)

\* SCU_Reset; the inputs stay as they are.
ScuReset(asserted) ==
    [IAsserted |-> asserted, IPending |-> {}, ABusIProhibit |-> {}, IMask |-> AllMasked,
     IVec |-> NoVector, IRL |-> 0]
SCU_Reset == scu' = ScuReset(scu.IAsserted)

BadFetched(u) == [u EXCEPT !.IVec = NoVector, !.IRL = 0]
\* The vector fetch masks everything; the handler opens what it wants.
Fetched(u) == [u EXCEPT !.IMask = AllMasked, !.IVec = NoVector, !.IRL = 0]
SCU_MSH2VectorFetch == scu.IRL # 0 /\ scu' = Fetched(scu)

WriteIMS == \E mask \in Masks : scu' = CheckDoMasterInt([scu EXCEPT !.IMask = mask])
WriteIST == \E kept \in SUBSET scu.IPending : scu' = [scu EXCEPT !.IPending = kept]

\* The A-bus acknowledge: a level that is still high is latched again.
WriteAIACK == scu' = ABusIRQCheck([scu EXCEPT !.ABusIProhibit = {}])

Device == \E which \in Sources \ {SCSP}, active \in BOOLEAN :
              scu' = SetInt(scu, which, active)

ScuInit == scu = ScuReset({})
ScuNext == \/ SCU_Reset \/ SCU_MSH2VectorFetch \/ WriteIMS \/ WriteIST \/ WriteAIACK
           \/ Device

----------------------------------------------------------------------------
(* Properties.                                                             *)

ScuState ==
    [IAsserted : SUBSET Sources, IPending : SUBSET Sources, ABusIProhibit : SUBSET Sources,
     IMask : SUBSET AllMasked, IVec : Sources \union {NoVector}, IRL : 0 .. 15]

Settled(u) == (u.IVec = NoVector => Unmasked(u) = {}) /\ u.IRL = ILevel(u)

\* No interrupt that is pending and unmasked is held back from a CPU that is not being
\* offered one, whichever of pending, mask, prohibition and offer changed last; and the
\* CPU's IRL is the level of the offer, so that no vector is fetched without one ("[BUG]
\* SCU_MSH2VectorFetch() called when ILevel == 0").
NoneHeldBack == Settled(scu)

=============================================================================
