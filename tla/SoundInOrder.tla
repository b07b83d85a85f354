---------------------------- MODULE SoundInOrder ----------------------------
(***************************************************************************)
(* What the sound thread promises the rest of the emulator (the comment    *)
(* at the head of the threading code of src/mednafen/ss/sound.cpp): RUN    *)
(* slices and register commands take effect in the order main issued them, *)
(* a register command at the emulated time it was issued at, and whoever   *)
(* touches the sound hardware directly finds everything issued so far      *)
(* done.  A RUN directly behind a RUN may replace it: running to t1 and    *)
(* then to t2 is running to t2.                                            *)
(*                                                                         *)
(* No threads, no ring, no batching: SoundQueue.tla implements it.         *)
(***************************************************************************)
EXTENDS Integers, Sequences

CONSTANTS FrameSlices, RegCmds

VARIABLES
    chan,       \* commands issued and not yet performed
    clock,      \* time the sound hardware has run to
    dev,        \* the last register command the hardware took
    now         \* emulated time of the issuer

vars == <<chan, clock, dev, now>>

Init == chan = <<>> /\ clock = 0 /\ dev = "NONE" /\ now = 0

Last == chan[Len(chan)]

Issue(k) ==
    \/ chan' = Append(chan, k)
    \/ /\ k.cmd = "RUN" /\ chan # <<>> /\ Last.cmd = "RUN"
       /\ chan' = [chan EXCEPT ![Len(chan)] = k]

\* The issuer lets time pass; without a thread the hardware follows at once.
Run(ts) ==
    /\ ts >= now /\ now' = ts
    /\ \/ Issue([cmd |-> "RUN", at |-> ts]) /\ UNCHANGED clock
       \/ chan = <<>> /\ clock' = ts /\ UNCHANGED chan
    /\ UNCHANGED dev

Register(r) ==
    /\ \/ Issue([cmd |-> r, at |-> now]) /\ UNCHANGED dev
       \/ chan = <<>> /\ clock = now /\ dev' = r /\ UNCHANGED chan
    /\ UNCHANGED <<clock, now>>

Stop == Issue([cmd |-> "EXIT", at |-> now]) /\ UNCHANGED <<clock, dev, now>>

\* The oldest command takes effect.  A register command does so when the
\* hardware has run exactly as far as the issuer had.
Perform ==
    /\ chan # <<>>
    /\ chan' = Tail(chan)
    /\ UNCHANGED now
    /\ LET h == Head(chan) IN
       \/ h.cmd = "RUN" /\ h.at >= clock /\ clock' = h.at /\ UNCHANGED dev
       \/ h.cmd \in RegCmds /\ h.at = clock /\ dev' = h.cmd /\ UNCHANGED clock
       \/ h.cmd = "EXIT" /\ h.at = clock /\ UNCHANGED <<clock, dev>>

\* The frame is over: time starts again from 0.
Rebase == chan = <<>> /\ clock = now /\ clock' = 0 /\ now' = 0 /\ UNCHANGED <<chan, dev>>

\* A state is loaded, or another game is.
Load == chan = <<>> /\ clock = now /\ dev' \in RegCmds /\ UNCHANGED <<chan, clock, now>>
Restart == /\ chan = <<>> /\ clock = now
           /\ clock' = 0 /\ now' = 0 /\ dev' = "NONE" /\ UNCHANGED chan

Next == \/ \E ts \in 0 .. FrameSlices : Run(ts)
        \/ \E r \in RegCmds : Register(r)
        \/ Stop \/ Perform \/ Rebase \/ Load \/ Restart

Spec == Init /\ [][Next]_vars

=============================================================================
