------------------------------- MODULE Saves -------------------------------
(***************************************************************************)
(* What outlives a session of src/mednafen/ss/ss.cpp: a memory of the game *)
(* and its file.  Of the three kinds, "bkr" (backup memory, written in     *)
(* place) and "nv" (memory of a cart, truncated when it is opened) are     *)
(* saved some time after a change and at the end; "seep" (the EEPROM of an *)
(* ST-V board) only at the end.  The files are independent, so one of them *)
(* is modelled at a time.                                                  *)
(*                                                                         *)
(* A write stores cell after cell, any step of it may fail, and the        *)
(* process may die at any point; while it is off, memory holds nothing     *)
(* (mem is Factory).  When a session begins the file is copied to the next *)
(* of Backups slots (MDFN_BackupSavFile of src/mednafen/file.cpp).         *)
(* good and loads are history variables.  Operators named Bad... are       *)
(* plausible bugs; no specification uses them.                             *)
(***************************************************************************)
EXTENDS Integers

CONSTANTS
    Cells, Values,      \* a memory is a function from 1 .. Cells
    Factory, Zero,      \* contents of a new memory and of a cart's after a short file
    Backups,            \* slots (10)
    SaveDelay,          \* clocks from the last change to the save (3 s)
    RetryDelay,         \* clocks to the next attempt (60 s)
    FrameCycles,        \* lengths of a frame
    MaxLoads,           \* bound: sessions after the last clean end
    MaxChanges,         \* bound: changes of the memory
    MaxFails            \* bound: saves that fail

Memories == [1 .. Cells -> Values]

ASSUME CellsAssumption == Cells \in Nat \ {0} /\ Factory \in Memories /\ Zero \in Memories
ASSUME BackupsAssumption == Backups \in Nat \ {0}
ASSUME DelayAssumption ==
    SaveDelay \in Nat \ {0} /\ RetryDelay \in Nat \ {0} /\ FrameCycles \subseteq Nat \ {0}
ASSUME BoundAssumption == MaxLoads \in Nat /\ MaxChanges \in Nat /\ MaxFails \in Nat

VARIABLES
    kind,
    pc,             \* off, backup, counter (of the backups), run, open, write
    mem, dirty, delay,
    closing,        \* the save belongs to the end of the session
    file, size,     \* the first size cells of file are on the disk; -1: no file
    pos,            \* cells written
    slots, last,    \* the backups ({} or one content each), and the newest's number
    good,           \* content at the last clean end ({} or one memory)
    loads,          \* sessions begun since then
    changes, fails

disk == <<file, size>>
backupVars == <<slots, last>>
history == <<good, loads>>
bounds == <<changes, fails>>
vars == <<kind, pc, mem, dirty, delay, closing, disk, pos, backupVars, history, bounds>>

Delayed == kind \in {"bkr", "nv"}
Slots   == 0 .. Backups - 1
Content == [i \in 1 .. size |-> file[i]]

\* What a session finds in its memory; a short file of an EEPROM lets none begin.
Loadable == kind = "seep" => size \in {-1, Cells}
Restored == IF size = Cells THEN file
            ELSE IF kind = "nv" /\ size >= 0 THEN Zero ELSE Factory

Init ==
    /\ kind \in {"bkr", "nv", "seep"} /\ pc = "off"
    /\ mem = Factory /\ dirty = FALSE /\ delay = 0 /\ closing = FALSE /\ pos = 0
    /\ file = Zero /\ size = -1
    /\ slots = [c \in Slots |-> {}] /\ last = Backups - 1
    /\ good = {} /\ loads = 0 /\ changes = 0 /\ fails = 0

----------------------------------------------------------------------------
(* The session begins.                                                     *)

BadNextSlot == last
NextSlot == (last + 1) % Backups

Load ==
    /\ pc = "off" /\ loads < MaxLoads /\ Loadable
    /\ mem' = Restored /\ dirty' = FALSE /\ delay' = 0
    /\ loads' = loads + 1
    /\ IF ~Delayed \/ size = -1 \/ slots[last] = {Content}
       THEN pc' = "run" /\ UNCHANGED slots
       ELSE pc' = "backup" /\ slots' = [slots EXCEPT ![NextSlot] = {<<>>}]
    /\ UNCHANGED <<kind, closing, disk, pos, last, good, bounds>>

BackupWritten ==
    /\ pc = "backup" /\ pc' = "counter"
    /\ slots' = [slots EXCEPT ![NextSlot] = {Content}]
    /\ UNCHANGED <<kind, mem, dirty, delay, closing, disk, pos, last, history, bounds>>

CounterWritten ==
    /\ pc = "counter" /\ pc' = "run"
    /\ last' = NextSlot
    /\ UNCHANGED <<kind, mem, dirty, delay, closing, disk, pos, slots, history, bounds>>

----------------------------------------------------------------------------
(* The game runs.                                                          *)

\* A bus access that changes the memory.
Write(i, v) ==
    /\ pc = "run" /\ changes < MaxChanges
    /\ mem[i] # v
    /\ mem' = [mem EXCEPT ![i] = v] /\ dirty' = Delayed /\ changes' = changes + 1
    /\ UNCHANGED <<kind, pc, delay, closing, disk, pos, backupVars, history, fails>>

\* A state is loaded, and the memory with it.
BadMarked(m) == dirty
Marked(m) == dirty \/ (Delayed /\ m # mem)

StateAction(m) ==
    /\ pc = "run" /\ changes < MaxChanges
    /\ mem' = m /\ dirty' = Marked(m) /\ changes' = changes + 1
    /\ UNCHANGED <<kind, pc, delay, closing, disk, pos, backupVars, history, fails>>

\* Emulate.
EndFrame(cycles) ==
    /\ pc = "run"
    /\ \/ /\ dirty
          /\ dirty' = FALSE /\ delay' = SaveDelay /\ UNCHANGED pc
       \/ /\ ~dirty /\ delay > 0
          /\ delay' = (IF delay > cycles THEN delay - cycles ELSE 0)
          /\ pc' = (IF delay > cycles THEN "run" ELSE "open")
          /\ UNCHANGED dirty
    /\ UNCHANGED <<kind, mem, closing, disk, pos, backupVars, history, bounds>>

CloseGame ==
    /\ pc = "run" /\ pc' = "open" /\ closing' = TRUE
    /\ UNCHANGED <<kind, mem, dirty, delay, disk, pos, backupVars, history, bounds>>

----------------------------------------------------------------------------
(* A save.                                                                 *)

Open ==
    /\ pc = "open" /\ pc' = "write" /\ pos' = 0
    /\ IF kind = "nv" THEN size' = 0 /\ file' = Zero
       ELSE size' = (IF size = -1 THEN 0 ELSE size) /\ UNCHANGED file
    /\ UNCHANGED <<kind, mem, dirty, delay, closing, backupVars, history, bounds>>

WriteCell ==
    /\ pc = "write" /\ pos < Cells
    /\ pos' = pos + 1
    /\ file' = [file EXCEPT ![pos'] = mem[pos']]
    /\ size' = IF size < pos' THEN pos' ELSE size
    /\ UNCHANGED <<kind, pc, mem, dirty, delay, closing, backupVars, history, bounds>>

\* The process is gone.
Off == /\ pc' = "off" /\ mem' = Factory /\ dirty' = FALSE /\ delay' = 0
       /\ closing' = FALSE /\ pos' = 0

Saved ==
    /\ pc = "write" /\ pos = Cells
    /\ \/ closing /\ Off /\ good' = {mem} /\ loads' = 0
       \/ /\ ~closing /\ pc' = "run" /\ pos' = 0
          /\ UNCHANGED <<mem, dirty, delay, closing, history>>
    /\ UNCHANGED <<kind, disk, backupVars, bounds>>

\* The disk is full or the file cannot be opened: the exception is caught and reported.
BadRetry == 0
Retry == RetryDelay

SaveFails ==
    /\ pc \in {"open", "write"} /\ fails < MaxFails
    /\ fails' = fails + 1
    /\ \/ closing /\ Off
       \/ /\ ~closing /\ pc' = "run" /\ pos' = 0 /\ delay' = Retry
          /\ UNCHANGED <<mem, dirty, closing>>
    /\ UNCHANGED <<kind, disk, backupVars, history, changes>>

\* The process dies, or a load fails half way.
Crash ==
    /\ pc # "off" /\ Off
    /\ UNCHANGED <<kind, disk, backupVars, history, bounds>>

----------------------------------------------------------------------------

Frame == \E cycles \in FrameCycles : EndFrame(cycles)

Next ==
    \/ Load \/ BackupWritten \/ CounterWritten
    \/ \E i \in 1 .. Cells, v \in Values : Write(i, v)
    \/ \E m \in Memories : StateAction(m)
    \/ Frame \/ CloseGame
    \/ Open \/ WriteCell \/ Saved \/ SaveFails \/ Crash

Spec == Init /\ [][Next]_vars

\* Frames go on, and a save takes its steps.
FairSpec == Spec /\ WF_vars(Frame) /\ WF_vars(Open \/ WriteCell \/ Saved)

----------------------------------------------------------------------------
(* Properties.                                                             *)

TypeOK ==
    /\ kind \in {"bkr", "nv", "seep"}
    /\ pc \in {"off", "backup", "counter", "run", "open", "write"}
    /\ mem \in Memories /\ dirty \in BOOLEAN /\ delay \in Nat /\ closing \in BOOLEAN
    /\ file \in Memories /\ size \in -1 .. Cells /\ pos \in 0 .. Cells
    /\ slots = [c \in Slots |-> slots[c]] /\ last \in Slots /\ loads \in Nat

\* While nothing is left to save, the file holds what the memory holds: neither a
\* failed save nor a loaded state nor a change during the delay is forgotten.
Settled ==
    pc = "run" /\ Delayed /\ ~dirty /\ delay = 0 => Restored = mem

\* What the memory held at the last clean end can be had again, from the file or from
\* a backup, for as many unclean sessions as there are slots.
LastGoodKept ==
    Delayed /\ loads <= Backups =>
        \A m \in good : Restored = m \/ \E c \in Slots : slots[c] = {m}

\* A change reaches the file while the game runs, whatever saves fail.
SavedInTheEnd ==
    (pc = "run" /\ Delayed /\ Restored # mem) ~> (pc = "off" \/ Restored = mem)
=============================================================================
