------------------------------- MODULE Eeprom -------------------------------
(***************************************************************************)
(* AK93C45 of src/mednafen/ss/ak93c45.cpp, the EEPROM behind the SMPC's    *)
(* port of an ST-V board (src/mednafen/ss/stvio.cpp).  Every access of the *)
(* game to the port is an UpdateBus with the pins' new levels (port 0) or  *)
(* the levels it had (port 1, which reads dout).                           *)
(*                                                                         *)
(* Time counts from the beginning of a frame, in clocks of the chip;       *)
(* ResetTS ends the frame.  write_enable and prev_cs, which no code reads, *)
(* are left out.  The registers of an instruction that is over are 0 here: *)
(* the code leaves values in them that it overwrites before it reads them. *)
(* After an instruction the chip does not know, counter wraps to 255 and   *)
(* the address is decoded again 256 clocks later; MaxBits is short of      *)
(* that.  bits, dead and writes are history variables and bounds.          *)
(* Operators named Bad... are plausible bugs; no specification uses them.  *)
(***************************************************************************)
EXTENDS Integers, Sequences

CONSTANTS
    AddrBits, DataBits, Factory,    \* as in EepromChip
    WriteTime,      \* clocks that programming takes (10000)
    FrameTime,      \* clocks of a frame
    MaxBits,        \* bound: clocks that one select lasts
    MaxWrites       \* bound: times the chip is programmed

ASSUME SizeAssumption ==
    /\ AddrBits \in Nat \ {0, 1} /\ DataBits \in Nat \ {0} /\ DataBits % 2 = 0
    /\ WriteTime \in Nat \ {0} /\ FrameTime \in Nat \ {0}
    /\ MaxBits \in Nat /\ MaxWrites \in Nat

VARIABLES
    mem,
    phase, opcode, addr, counter, data_buffer, dout, prev_sk,
    write_finish_counter,
    ts, lastts,     \* now, and at the last UpdateBus
    bits,           \* what the chip was told since it was selected
    dead,           \* clocks since the last programming began, at most WriteTime
    writes

regs == <<phase, opcode, addr, counter, data_buffer, dout>>
timeVars == <<ts, lastts>>
eepromVars == <<mem, regs, prev_sk, write_finish_counter, timeVars, bits, dead, writes>>

AllWords == 65535       \* 0xFFFF in addr: the whole memory
WordMask == 2 ^ AddrBits

\* The values left behind, see above.
Forget == opcode' = 0 /\ addr' = 0 /\ counter' = 0 /\ data_buffer' = 0

InitEeprom ==
    /\ mem = Factory
    /\ phase = "idle" /\ opcode = 0 /\ addr = 0 /\ counter = 0 /\ data_buffer = 0
    /\ dout = TRUE /\ prev_sk = TRUE /\ write_finish_counter = 0
    /\ ts = 0 /\ lastts = 0 /\ bits = <<>> /\ dead = 0 /\ writes = 0

----------------------------------------------------------------------------
(* A rising edge of the clock.  Each operator is a case of the phase.      *)

Idling(di) ==
    /\ phase' = IF di = 0 THEN "wait_start" ELSE "idle"
    /\ UNCHANGED <<opcode, addr, counter, data_buffer>>

WaitStart(di) ==
    /\ IF di = 1 THEN phase' = "opcode" /\ counter' = 2 /\ opcode' = 0
                 ELSE UNCHANGED <<phase, counter, opcode>>
    /\ UNCHANGED <<addr, data_buffer>>

Opcode(di) ==
    /\ opcode' = 2 * opcode + di
    /\ IF counter = 1 THEN phase' = "addr" /\ counter' = AddrBits /\ addr' = 0
                      ELSE counter' = counter - 1 /\ UNCHANGED <<phase, addr>>
    /\ UNCHANGED data_buffer

\* The next word of a read.
BadNextWord(a) == data_buffer' = mem[a % WordMask] /\ addr' = a /\ counter' = DataBits
NextWord(a) == data_buffer' = mem[a % WordMask] /\ addr' = (a + 1) % WordMask /\ counter' = DataBits

\* The address is complete; an instruction the chip does not know leaves it here.
Decode(a) ==
    LET sub == (a \div 2 ^ (AddrBits - 2)) % 4
        Expect(where) == phase' = "data" /\ addr' = where /\ data_buffer' = 0 /\ counter' = DataBits
    IN  \/ opcode = 2 /\ phase' = "data" /\ NextWord(a)
        \/ opcode = 1 /\ Expect(a)
        \/ opcode = 0 /\ sub = 1 /\ Expect(AllWords)
        \/ /\ opcode \in {0, 3} /\ (opcode = 0 => sub # 1)
           /\ IF opcode = 0 /\ sub \in {0, 3}
              THEN phase' = "idle" /\ Forget
              ELSE addr' = a /\ counter' = 0 /\ UNCHANGED <<phase, data_buffer>>

\* counter is an uint8.
Addr(di) ==
    /\ LET a == (2 * addr + di) % 65536
       IN  IF counter = 1 THEN Decode(a)
                          ELSE /\ addr' = a /\ counter' = (counter - 1) % 256
                               /\ UNCHANGED <<phase, data_buffer>>
    /\ phase' # "idle" => UNCHANGED opcode

ReadData ==
    /\ IF counter = 1 THEN NextWord(addr)
                      ELSE /\ counter' = counter - 1
                           /\ data_buffer' = (2 * data_buffer) % 2 ^ DataBits
                           /\ UNCHANGED addr
    /\ UNCHANGED <<phase, opcode>>

WriteData(di) ==
    /\ data_buffer' = (2 * data_buffer + di) % 2 ^ DataBits
    /\ counter' = counter - 1
    /\ phase' = IF counter = 1 THEN "write_pending" ELSE "data"
    /\ UNCHANGED <<opcode, addr>>

HighBit == data_buffer \div 2 ^ (DataBits - 1) = 1

Edge(now, di) ==
    /\ \/ now = "idle" /\ Idling(di)
       \/ now = "wait_start" /\ WaitStart(di)
       \/ now = "opcode" /\ Opcode(di)
       \/ now = "addr" /\ Addr(di)
       \/ now = "data" /\ opcode = 2 /\ ReadData
       \/ now = "data" /\ opcode # 2 /\ WriteData(di)
       \/ now = "write_pending" /\ UNCHANGED <<phase, opcode, addr, counter, data_buffer>>
    /\ dout' = CASE now = "idle"                              -> TRUE
                 [] now = "data" /\ opcode = 2               -> HighBit
                 [] now = "addr" /\ opcode = 2 /\ counter = 1 -> FALSE
                 [] OTHER                                    -> dout
    /\ bits' = IF now = "addr" /\ phase' = "idle" THEN <<>> ELSE Append(bits, di)

----------------------------------------------------------------------------
(* Time.                                                                   *)

BadElapsed == ts
Elapsed == ts - lastts
Left == write_finish_counter - Elapsed
Over == phase = "writing" /\ Left <= 0
Now  == IF Over THEN "idle" ELSE phase

\* In the model, a clock passes; only the time that programming takes matters.
Tick ==
    /\ phase \in {"write_pending", "writing"} /\ ts < FrameTime
    /\ ts' = ts + 1 /\ dead' = IF dead < WriteTime THEN dead + 1 ELSE dead
    /\ UNCHANGED <<mem, regs, prev_sk, write_finish_counter, lastts, bits, writes>>

\* SMPC_ResetTS at the end of a frame.
BadResetTS == UNCHANGED <<write_finish_counter, lastts>>
ResetTS ==
    /\ lastts' = 0
    /\ write_finish_counter' = IF write_finish_counter < 0 THEN 0 ELSE write_finish_counter

EndFrame ==
    /\ phase \in {"write_pending", "writing"} => ts = FrameTime
    /\ ts' = 0 /\ ResetTS
    /\ UNCHANGED <<mem, regs, prev_sk, bits, dead, writes>>

----------------------------------------------------------------------------
(* The pins.                                                               *)

\* memset puts the low byte of the data in both bytes of each word.
Memset(value) == (value % 2 ^ (DataBits \div 2)) * (1 + 2 ^ (DataBits \div 2))

Commit ==
    /\ phase = "write_pending" /\ writes < MaxWrites
    /\ mem' = IF addr = AllWords THEN [a \in DOMAIN mem |-> Memset(data_buffer)]
                                 ELSE [mem EXCEPT ![addr % WordMask] = data_buffer]
    /\ phase' = "writing" /\ write_finish_counter' = WriteTime
    /\ dead' = 0 /\ writes' = writes + 1

Deselected ==
    /\ \/ Commit
       \/ /\ phase # "write_pending"
          /\ phase' = IF Now = "writing" THEN "writing" ELSE "idle"
          /\ write_finish_counter' = Left /\ UNCHANGED <<mem, dead, writes>>
    /\ dout' = TRUE /\ bits' = <<>> /\ Forget

Selected(sk, di) ==
    /\ \/ /\ Now = "writing" /\ dout' = FALSE
          /\ UNCHANGED <<phase, opcode, addr, counter, data_buffer, bits>>
       \/ /\ Now # "writing" /\ sk /\ ~prev_sk
          /\ Len(bits) < MaxBits /\ Edge(Now, di)
       \/ /\ Now # "writing" /\ ~(sk /\ ~prev_sk)
          /\ phase' = Now /\ dout' = (Over \/ dout)
          /\ UNCHANGED <<opcode, addr, counter, data_buffer, bits>>
    /\ write_finish_counter' = Left /\ UNCHANGED <<mem, dead, writes>>

UpdateBus(cs, sk, di) ==
    /\ IF cs THEN Selected(sk, di) ELSE Deselected
    /\ prev_sk' = sk /\ lastts' = ts /\ UNCHANGED ts

\* The machine is switched off and on, or reset with its memory kept.
Power ==
    /\ phase' = "idle" /\ Forget
    /\ dout' = TRUE /\ prev_sk' = TRUE /\ write_finish_counter' = 0 /\ bits' = <<>>
    /\ UNCHANGED <<mem, timeVars, dead, writes>>

NextEeprom ==
    \/ Tick \/ EndFrame \/ Power
    \/ \E cs, sk \in BOOLEAN, di \in {0, 1} : UpdateBus(cs, sk, di)

SpecEeprom == InitEeprom /\ [][NextEeprom]_eepromVars

\* The game polls the chip that it waits for, again and again and in every frame.
Poll == ts > lastts /\ \E cs, sk \in BOOLEAN, di \in {0, 1} : UpdateBus(cs, sk, di)
FairSpecEeprom ==
    /\ SpecEeprom
    /\ WF_eepromVars(Tick) /\ WF_eepromVars(EndFrame /\ phase = "writing")
    /\ SF_eepromVars(Poll /\ phase = "writing")

----------------------------------------------------------------------------
(* Properties.                                                             *)

\* Every variable has its type; counter and opcode are bytes.
EepromTypeOK ==
    /\ mem \in [0 .. WordMask - 1 -> Nat]
    /\ phase \in {"idle", "wait_start", "opcode", "addr", "data", "write_pending",
                  "writing"}
    /\ opcode \in 0 .. 3 /\ addr \in 0 .. AllWords /\ counter \in 0 .. 255 /\ data_buffer \in Nat
    /\ dout \in BOOLEAN /\ prev_sk \in BOOLEAN /\ write_finish_counter \in Int
    /\ ts \in 0 .. FrameTime /\ lastts \in Int /\ lastts <= ts
    /\ bits \in Seq({0, 1}) /\ dead \in 0 .. WriteTime /\ writes \in 0 .. MaxWrites

\* The phase machine does what the data sheet's instructions say: it programs the
\* word, or all words, only when a complete write is deselected, reads word after
\* word, ignores what is cut short or sent while it is busy, and keeps its contents
\* over a power cycle.
Chip == INSTANCE EepromChip WITH busy <- phase = "writing"
Reference == Chip!ChipSpec

\* The chip is never ready again, for any access of the game, before the time that
\* programming takes has passed, whether the frame ends meanwhile or not.
NeverEarly == Over => dead >= WriteTime

\* A game that polls the chip sees programming end.
BusyEnds == phase = "writing" ~> phase # "writing"
=============================================================================
