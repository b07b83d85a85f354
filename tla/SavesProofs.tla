---------------------------- MODULE SavesProofs ----------------------------
(***************************************************************************)
(* Settled and LastGoodKept of Saves.tla, for memories of any size, any    *)
(* delays and any number of backups.                                       *)
(***************************************************************************)
EXTENDS Saves, TLAPS

----------------------------------------------------------------------------
(* The inductive invariant.                                                *)

\* The cells written are on the disk.
Prefix == pc = "write" => pos <= size /\ \A i \in 1 .. pos : file[i] = mem[i]

\* Settled, from the time memory is loaded.
SettledSoon ==
    pc \in {"backup", "counter", "run"} /\ Delayed /\ ~dirty /\ delay = 0 => Restored = mem

\* The number of backups after the one in slot c.
Age(c) == IF c <= last THEN last - c ELSE last - c + Backups

Copying == pc \in {"backup", "counter"}
Intact(m) == size = Cells /\ file = m
InSlot(m) == \E c \in Slots : slots[c] = {m} /\ Age(c) + (IF Copying THEN 1 ELSE 0) < loads

\* A session does not touch the file before a backup of it is complete, and a backup
\* outlives as many others as there are sessions.
Kept ==
    Delayed /\ loads <= Backups =>
        \A m \in good : InSlot(m) \/ (Intact(m) /\ pc \in {"off", "backup", "counter"})

Copied == pc = "counter" => slots[NextSlot] = {Content}

Begun == pc # "off" => loads > 0

IInv == TypeOK /\ Prefix /\ SettledSoon /\ Kept /\ Copied /\ Begun

----------------------------------------------------------------------------
(* The slots.                                                              *)

\* The next slot is the one after the newest backup, or the first one.
LEMMA NextSlotIs ==
    ASSUME NEW l \in Slots
    PROVE  (l + 1) % Backups = IF l = Backups - 1 THEN 0 ELSE l + 1
  BY BackupsAssumption DEF Slots

\* A whole file is a memory.
LEMMA WholeContent ==
    ASSUME TypeOK, size = Cells
    PROVE  Content = file
  BY CellsAssumption DEF TypeOK, Content, Memories

----------------------------------------------------------------------------
(* Types.                                                                  *)

LEMMA InitTypeOK == Init => TypeOK
<1> SUFFICES ASSUME Init PROVE TypeOK OBVIOUS
<1>1. slots = [c \in Slots |-> slots[c]] BY DEF Init
<1>2. last \in Slots BY BackupsAssumption DEF Init, Slots
<1>3. mem \in Memories /\ file \in Memories /\ size \in -1 .. Cells /\ pos \in 0 .. Cells
  BY CellsAssumption DEF Init
<1> QED BY <1>1, <1>2, <1>3 DEF Init, TypeOK

LEMMA RestoredType == ASSUME TypeOK PROVE Restored \in Memories
  BY CellsAssumption DEF TypeOK, Restored

LEMMA OffType == ASSUME Off PROVE pc' = "off" /\ mem' \in Memories /\ dirty' \in BOOLEAN
                                  /\ delay' \in Nat /\ closing' \in BOOLEAN /\ pos' \in 0 .. Cells
<1>1. mem' \in Memories /\ pos' \in 0 .. Cells BY CellsAssumption DEF Off
<1> QED BY <1>1 DEF Off

LEMMA NextTypeOK == TypeOK /\ [Next]_vars => TypeOK'
<1> SUFFICES ASSUME TypeOK, [Next]_vars PROVE TypeOK' OBVIOUS
<1> USE CellsAssumption, BackupsAssumption, DelayAssumption
<1>1. CASE Load
  <2>1. slots' = [c \in Slots |-> slots'[c]]
    <3>1. CASE UNCHANGED slots BY <3>1 DEF TypeOK
    <3>2. CASE slots' = [slots EXCEPT ![NextSlot] = {<<>>}] BY <3>2 DEF TypeOK
    <3> QED BY <1>1, <3>1, <3>2 DEF Load
  <2>2. pc' \in {"backup", "run"} BY <1>1 DEF Load
  <2>3. mem' \in Memories /\ dirty' = FALSE /\ delay' = 0 /\ loads' = loads + 1
    BY <1>1, RestoredType DEF Load
  <2>4. UNCHANGED <<kind, closing, file, size, pos, last>> BY <1>1 DEF Load, disk
  <2>5. loads' \in Nat BY <2>3 DEF TypeOK
  <2>6. last' \in Slots /\ file' \in Memories /\ size' \in -1 .. Cells /\ pos' \in 0 .. Cells
        /\ closing' \in BOOLEAN /\ kind' = kind
    BY <2>4 DEF TypeOK
  <2> QED BY <2>1, <2>2, <2>3, <2>5, <2>6, Zenon DEF TypeOK
<1>2. CASE BackupWritten
  BY <1>2 DEF BackupWritten, TypeOK, Slots, NextSlot, disk, backupVars, history, bounds
<1>3. CASE CounterWritten
  <2>1. last' \in Slots BY <1>3, NextSlotIs DEF CounterWritten, TypeOK, Slots, NextSlot
  <2> QED BY <1>3, <2>1 DEF CounterWritten, TypeOK, disk, history, bounds
<1>4. ASSUME NEW i \in 1 .. Cells, NEW v \in Values, Write(i, v) PROVE TypeOK'
  BY <1>4 DEF Write, TypeOK, Memories, Delayed, Slots, disk, backupVars, history, bounds
<1>5. ASSUME NEW m \in Memories, StateAction(m) PROVE TypeOK'
  BY <1>5 DEF StateAction, Marked, TypeOK, Delayed, Slots, disk, backupVars, history, bounds
<1>6. ASSUME NEW cycles \in FrameCycles, EndFrame(cycles) PROVE TypeOK'
  <2>1. delay' \in Nat BY <1>6 DEF EndFrame, TypeOK
  <2>2. pc' \in {"run", "open"} /\ dirty' = FALSE BY <1>6 DEF EndFrame
  <2> QED BY <1>6, <2>1, <2>2 DEF EndFrame, TypeOK, disk, backupVars, history
<1>7. CASE CloseGame
  BY <1>7 DEF CloseGame, TypeOK, Slots, disk, backupVars, history, bounds
<1>8. CASE Open
  BY <1>8 DEF Open, TypeOK, Slots, backupVars, history, bounds
<1>9. CASE WriteCell
  BY <1>9 DEF WriteCell, TypeOK, Memories, Slots, backupVars, history, bounds
<1>10. CASE Saved
  BY <1>10, OffType DEF Saved, TypeOK, Slots, disk, backupVars, history, bounds
<1>11. CASE SaveFails
  BY <1>11, OffType DEF SaveFails, Retry, TypeOK, Slots, disk, backupVars, history, bounds
<1>12. CASE Crash
  BY <1>12, OffType DEF Crash, TypeOK, Slots, disk, backupVars, history, bounds
<1>13. CASE UNCHANGED vars
  BY <1>13 DEF vars, TypeOK, Slots, disk, backupVars, history, bounds
<1> QED
  BY <1>1, <1>2, <1>3, <1>4, <1>5, <1>6, <1>7, <1>8, <1>9, <1>10, <1>11, <1>12, <1>13
  DEF Next, Frame

----------------------------------------------------------------------------
(* The file and the memory.                                                *)

\* After the last cell the file is the memory.
LEMMA WholeFile ==
    ASSUME TypeOK, Prefix, pc = "write", pos = Cells
    PROVE  size = Cells /\ file = mem
<1>1. size = Cells BY CellsAssumption DEF TypeOK, Prefix
<1>2. \A i \in 1 .. Cells : file[i] = mem[i] BY DEF Prefix
<1> QED BY <1>1, <1>2 DEF TypeOK, Memories

LEMMA NextPrefix == TypeOK /\ Prefix /\ [Next]_vars => Prefix'
<1> SUFFICES ASSUME TypeOK, Prefix, [Next]_vars, pc' = "write"
             PROVE  (pos <= size /\ \A i \in 1 .. pos : file[i] = mem[i])'
  BY DEF Prefix
<1>1. CASE Open
  BY <1>1 DEF Open, TypeOK
<1>2. CASE WriteCell
  BY <1>2, CellsAssumption DEF WriteCell, TypeOK, Prefix, Memories
<1>3. CASE UNCHANGED vars
  BY <1>3 DEF vars, disk, Prefix
<1> QED
  BY <1>1, <1>2, <1>3
  DEF Next, Frame, Load, BackupWritten, CounterWritten, Write, StateAction, EndFrame, CloseGame,
      Saved, SaveFails, Crash, Off

\* What a step leaves alone.
LEMMA SameRestored ==
    ASSUME UNCHANGED <<kind, disk>>
    PROVE  Restored' = Restored /\ Delayed' = Delayed /\ Content' = Content
  BY DEF disk, Restored, Delayed, Content

LEMMA NextSettled == TypeOK /\ Prefix /\ SettledSoon /\ [Next]_vars => SettledSoon'
<1> SUFFICES ASSUME TypeOK, Prefix, SettledSoon, [Next]_vars PROVE SettledSoon' OBVIOUS
<1>1. CASE Load
  BY <1>1, SameRestored DEF Load, SettledSoon
<1>2. CASE BackupWritten \/ CounterWritten \/ CloseGame
  BY <1>2, SameRestored DEF BackupWritten, CounterWritten, CloseGame, SettledSoon
<1>3. ASSUME NEW i \in 1 .. Cells, NEW v \in Values, Write(i, v) PROVE SettledSoon'
  BY <1>3, SameRestored DEF Write, SettledSoon
<1>4. ASSUME NEW m \in Memories, StateAction(m) PROVE SettledSoon'
  BY <1>4, SameRestored DEF StateAction, Marked, SettledSoon
<1>5. ASSUME NEW cycles \in FrameCycles, EndFrame(cycles) PROVE SettledSoon'
  BY <1>5, SameRestored, DelayAssumption DEF EndFrame, SettledSoon, TypeOK
<1>6. CASE Open \/ WriteCell
  BY <1>6 DEF Open, WriteCell, SettledSoon
<1>7. CASE Saved
  BY <1>7, SameRestored, WholeFile DEF Saved, Off, SettledSoon, Restored
<1>8. CASE SaveFails \/ Crash
  BY <1>8, DelayAssumption DEF SaveFails, Crash, Off, Retry, SettledSoon
<1>9. CASE UNCHANGED vars
  BY <1>9, SameRestored DEF vars, SettledSoon
<1> QED BY <1>1, <1>2, <1>3, <1>4, <1>5, <1>6, <1>7, <1>8, <1>9 DEF Next, Frame

----------------------------------------------------------------------------
(* The backups.                                                            *)

\* A backup gets one older with each new one, which overwrites only the oldest.
LEMMA AgeNext ==
    ASSUME last \in Slots, NEW c \in Slots, Age(c) < Backups - 1
    PROVE  /\ NextSlot # c
           /\ (IF c <= NextSlot THEN NextSlot - c ELSE NextSlot - c + Backups) = Age(c) + 1
<1>1. NextSlot = IF last = Backups - 1 THEN 0 ELSE last + 1 BY NextSlotIs DEF NextSlot
<1> QED BY <1>1, BackupsAssumption DEF Age, Slots

\* A backup stays where it is while no other is written.
LEMMA SlotStays ==
    ASSUME UNCHANGED <<slots, last, loads>>, Copying' => Copying, TypeOK, NEW m, InSlot(m)
    PROVE  InSlot(m)'
<1>1. PICK c \in Slots : slots[c] = {m} /\ Age(c) + (IF Copying THEN 1 ELSE 0) < loads
  BY DEF InSlot
<1>2. Age(c) \in Int BY BackupsAssumption DEF Age, Slots, TypeOK
<1>3. Age(c)' = Age(c) BY DEF Age
<1>4. Age(c)' + (IF Copying' THEN 1 ELSE 0) < loads' BY <1>1, <1>2, <1>3 DEF TypeOK
<1> QED BY <1>1, <1>4 DEF InSlot, Slots

LEMMA NextCopied == TypeOK /\ Copied /\ [Next]_vars => Copied'
<1> SUFFICES ASSUME TypeOK, Copied, [Next]_vars, pc' = "counter"
             PROVE  (slots[NextSlot] = {Content})'
  BY DEF Copied
<1>1. CASE BackupWritten
  <2>1. NextSlot \in Slots BY NextSlotIs, BackupsAssumption DEF NextSlot, TypeOK, Slots
  <2>2. slots'[NextSlot] = {Content} BY <1>1, <2>1 DEF BackupWritten, TypeOK
  <2>3. NextSlot' = NextSlot /\ Content' = Content
    BY <1>1 DEF BackupWritten, NextSlot, Content, disk
  <2> QED BY <2>2, <2>3
<1>2. CASE UNCHANGED vars
  BY <1>2 DEF vars, disk, backupVars, Copied, NextSlot, Content
<1> QED
  BY <1>1, <1>2
  DEF Next, Frame, Load, CounterWritten, Write, StateAction, EndFrame, CloseGame, Open, WriteCell,
      Saved, SaveFails, Crash, Off

LEMMA NextBegun == TypeOK /\ Begun /\ [Next]_vars => Begun'
<1> SUFFICES ASSUME TypeOK, Begun, [Next]_vars, pc' # "off" PROVE loads' > 0
  BY DEF Begun
<1>1. CASE Load BY <1>1 DEF Load, TypeOK
<1>2. CASE UNCHANGED vars BY <1>2 DEF vars, history, Begun
<1> QED
  BY <1>1, <1>2
  DEF Next, Frame, BackupWritten, CounterWritten, Write, StateAction, EndFrame, CloseGame, Open,
      WriteCell, Saved, SaveFails, Crash, Off, history, Begun

\* A session begins.
LEMMA LoadKeeps ==
    ASSUME TypeOK, Kept, Load, Delayed, loads' <= Backups, NEW m \in good
    PROVE  InSlot(m)' \/ (Intact(m)' /\ pc' = "backup")
<1> USE DEF Copying
<1>1. loads + 1 <= Backups /\ loads' = loads + 1 /\ pc = "off" /\ last' = last BY DEF Load
<1>2. InSlot(m) \/ Intact(m) BY <1>1, BackupsAssumption DEF Kept, TypeOK
<1>3. ASSUME InSlot(m) PROVE InSlot(m)'
  <2>1. PICK c \in Slots : slots[c] = {m} /\ Age(c) < loads
    BY <1>1, <1>3, BackupsAssumption DEF InSlot, Age, Slots, TypeOK
  <2>2. NextSlot # c BY <1>1, <2>1, AgeNext, BackupsAssumption DEF TypeOK, Age, Slots
  <2>3. slots'[c] = {m} BY <2>1, <2>2 DEF Load, TypeOK
  <2>4. Age(c)' = Age(c) /\ Age(c) \in Int BY <1>1, BackupsAssumption DEF Age, Slots, TypeOK
  <2>5. Age(c)' + (IF Copying' THEN 1 ELSE 0) < loads' BY <1>1, <2>1, <2>4 DEF TypeOK
  <2> QED BY <2>3, <2>5 DEF InSlot, Slots
<1>4. ASSUME Intact(m) PROVE InSlot(m)' \/ (Intact(m)' /\ pc' = "backup")
  <2>1. Content = m /\ size # -1 BY <1>4, WholeContent, CellsAssumption DEF Intact
  <2>2. CASE pc' = "backup" BY <1>4, <2>2 DEF Load, Intact, disk
  <2>3. CASE pc' # "backup"
    <3>1. slots' = slots /\ slots[last] = {m} /\ pc' = "run" BY <2>1, <2>3 DEF Load
    <3>2. Age(last)' = 0 BY <1>1 DEF Age, TypeOK, Slots
    <3>3. Age(last)' + (IF Copying' THEN 1 ELSE 0) < loads' BY <1>1, <3>1, <3>2 DEF TypeOK
    <3>4. slots'[last] = {m} /\ last \in Slots BY <3>1 DEF TypeOK
    <3> QED BY <1>1, <3>3, <3>4 DEF InSlot, Slots, Age
  <2> QED BY <2>2, <2>3
<1> QED BY <1>2, <1>3, <1>4

\* The counter of the backups is written.
LEMMA CounterKeeps ==
    ASSUME TypeOK, Kept, Copied, Begun, CounterWritten, Delayed, loads <= Backups, NEW m \in good
    PROVE  InSlot(m)'
<1> USE DEF Copying
<1>1. /\ pc = "counter" /\ pc' = "run" /\ last' = NextSlot /\ slots' = slots /\ loads' = loads
      /\ loads > 0
  BY DEF CounterWritten, history, Begun
<1>2. InSlot(m) \/ Intact(m) BY DEF Kept
<1>3. ASSUME InSlot(m) PROVE InSlot(m)'
  <2>1. PICK c \in Slots : slots[c] = {m} /\ Age(c) + 1 < loads BY <1>1, <1>3 DEF InSlot
  <2>2. Age(c) \in Int BY BackupsAssumption DEF Age, Slots, TypeOK
  <2>3. Age(c) < Backups - 1 BY <2>1, <2>2, BackupsAssumption DEF TypeOK
  <2>4. Age(c)' = Age(c) + 1 BY <1>1, <2>3, AgeNext DEF TypeOK, Age
  <2>5. Age(c)' + (IF Copying' THEN 1 ELSE 0) < loads' BY <1>1, <2>1, <2>2, <2>4 DEF TypeOK
  <2> QED BY <1>1, <2>1, <2>5 DEF InSlot, Slots
<1>4. ASSUME Intact(m) PROVE InSlot(m)'
  <2>1. slots[NextSlot] = {m} BY <1>1, <1>4, WholeContent DEF Copied, Intact
  <2>2. NextSlot \in Slots BY NextSlotIs, BackupsAssumption DEF NextSlot, TypeOK, Slots
  <2>3. last' - last' = 0 BY <1>1, <2>2 DEF Slots
  <2>4. (IF NextSlot <= last' THEN last' - NextSlot ELSE last' - NextSlot + Backups) = 0
    BY <1>1, <2>2, <2>3 DEF Slots
  <2>5. (IF NextSlot <= last' THEN last' - NextSlot ELSE last' - NextSlot + Backups)
            + (IF Copying' THEN 1 ELSE 0) < loads'
    BY <1>1, <2>4 DEF TypeOK
  <2> QED BY <1>1, <2>1, <2>2, <2>5 DEF InSlot, Slots, Age
<1> QED BY <1>2, <1>3, <1>4

LEMMA NextKept == IInv /\ [Next]_vars => Kept'
<1> SUFFICES ASSUME IInv, [Next]_vars, Delayed', loads' <= Backups, NEW m \in good'
             PROVE  InSlot(m)' \/ (Intact(m)' /\ pc' \in {"off", "backup", "counter"})
  BY DEF Kept
<1> USE DEF IInv, Copying
<1>1. CASE Load
  <2>1. m \in good /\ Delayed BY <1>1 DEF Load, Delayed
  <2> QED BY <1>1, <2>1, LoadKeeps
<1>2. CASE BackupWritten
  <2>1. /\ m \in good /\ Delayed /\ loads' = loads /\ loads <= Backups /\ last' = last
        /\ pc = "backup" /\ pc' = "counter"
    BY <1>2 DEF BackupWritten, Delayed, history
  <2>2. ASSUME InSlot(m) PROVE InSlot(m)'
    <3>1. PICK c \in Slots : slots[c] = {m} /\ Age(c) + 1 < loads BY <2>1, <2>2 DEF InSlot
    <3>2. Age(c) \in Int BY BackupsAssumption DEF Age, Slots, TypeOK
    <3>3. NextSlot # c BY <2>1, <3>1, <3>2, AgeNext, BackupsAssumption DEF TypeOK
    <3>4. slots'[c] = {m} BY <1>2, <3>1, <3>3 DEF BackupWritten, TypeOK
    <3>5. Age(c)' = Age(c) BY <2>1 DEF Age
    <3>6. Age(c)' + (IF Copying' THEN 1 ELSE 0) < loads' BY <2>1, <3>1, <3>2, <3>5 DEF TypeOK
    <3> QED BY <3>4, <3>6 DEF InSlot, Slots
  <2>3. Intact(m) => Intact(m)' BY <1>2 DEF BackupWritten, Intact, disk
  <2> QED BY <2>1, <2>2, <2>3 DEF Kept
<1>3. CASE CounterWritten
  <2>1. m \in good /\ Delayed /\ loads <= Backups BY <1>3 DEF CounterWritten, Delayed, history
  <2> QED BY <1>3, <2>1, CounterKeeps
<1>4. CASE \/ \E i \in 1 .. Cells, v \in Values : Write(i, v)
           \/ \E n \in Memories : StateAction(n)
           \/ Frame \/ CloseGame \/ Open \/ WriteCell \/ (Saved /\ ~closing) \/ (SaveFails /\ ~closing)
  <2>1. /\ m \in good /\ Delayed /\ UNCHANGED <<slots, last, loads>>
        /\ pc \in {"run", "open", "write"} /\ pc' \in {"run", "open", "write"}
    BY <1>4 DEF Write, StateAction, Frame, EndFrame, CloseGame, Open, WriteCell, Saved, SaveFails,
                Delayed, history, backupVars
  <2>2. InSlot(m) BY <2>1 DEF Kept
  <2> QED BY <2>1, <2>2, SlotStays
<1>5. CASE Saved /\ closing
  <2>1. m = mem /\ UNCHANGED disk /\ pc' = "off" BY <1>5 DEF Saved, Off
  <2>2. size = Cells /\ file = mem BY <1>5, WholeFile DEF Saved
  <2> QED BY <2>1, <2>2 DEF Intact, disk
<1>6. CASE (SaveFails /\ closing) \/ Crash
  <2>1. /\ m \in good /\ Delayed /\ UNCHANGED <<slots, last, loads>> /\ pc' = "off" /\ UNCHANGED disk
    BY <1>6 DEF SaveFails, Crash, Off, Delayed, history, backupVars
  <2>2. InSlot(m) \/ Intact(m) BY <2>1 DEF Kept
  <2>3. Intact(m) => Intact(m)' BY <2>1 DEF Intact, disk
  <2> QED BY <2>1, <2>2, <2>3, SlotStays
<1>7. CASE UNCHANGED vars
  <2>1. /\ m \in good /\ Delayed /\ UNCHANGED <<slots, last, loads>> /\ pc' = pc /\ UNCHANGED disk
    BY <1>7 DEF vars, Delayed, history, backupVars
  <2>2. Intact(m) => Intact(m)' BY <2>1 DEF Intact, disk
  <2> QED BY <2>1, <2>2, SlotStays DEF Kept
<1> QED BY <1>1, <1>2, <1>3, <1>4, <1>5, <1>6, <1>7 DEF Next

----------------------------------------------------------------------------
(* The theorems.                                                           *)

LEMMA InitIInv == Init => IInv
<1> SUFFICES ASSUME Init PROVE IInv OBVIOUS
<1>1. TypeOK BY InitTypeOK
<1>2. Prefix /\ SettledSoon /\ Copied /\ Begun BY DEF Init, Prefix, SettledSoon, Copied, Begun
<1>3. Kept BY DEF Init, Kept
<1> QED BY <1>1, <1>2, <1>3 DEF IInv

LEMMA NextIInv == IInv /\ [Next]_vars => IInv'
  BY NextTypeOK, NextPrefix, NextSettled, NextKept, NextCopied, NextBegun DEF IInv

\* The inductive invariant holds in every state.
THEOREM SavesInvariance == Spec => []IInv
  BY InitIInv, NextIInv, PTL DEF Spec

\* Every variable keeps its type.
THEOREM SavesTypes == Spec => []TypeOK
<1>1. IInv => TypeOK BY DEF IInv
<1> QED BY <1>1, SavesInvariance, PTL

\* For memories of any size and any delays: when nothing is left to save, the file holds
\* what the memory holds.
THEOREM SettledHolds == Spec => []Settled
<1>1. IInv => Settled BY DEF IInv, SettledSoon, Settled
<1> QED BY <1>1, SavesInvariance, PTL

\* For any number of backups: the content of the last clean end survives as many
\* unclean sessions, wherever each of them is cut off.
THEOREM GoodKept == Spec => []LastGoodKept
<1>1. IInv => LastGoodKept
  BY DEF IInv, Kept, InSlot, Intact, LastGoodKept, Restored
<1> QED BY <1>1, SavesInvariance, PTL
=============================================================================
