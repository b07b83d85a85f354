----------------------------- MODULE EepromChip -----------------------------
(***************************************************************************)
(* What the serial EEPROM of an ST-V board promises, in terms of the bits  *)
(* clocked in since it was selected: which words an instruction programs   *)
(* when the chip is deselected, and what its output pin shows.             *)
(* Eeprom.tla, the phase machine of src/mednafen/ss/ak93c45.cpp,           *)
(* implements this.                                                        *)
(***************************************************************************)
EXTENDS Integers, Sequences, SequencesExt

CONSTANTS
    AddrBits,   \* of an address (6)
    DataBits,   \* of a word (16)
    Factory     \* the words of a new chip

Words == 0 .. 2 ^ AddrBits - 1
Bit   == {0, 1}

VARIABLES
    mem,
    bits,   \* clocked in since the select, or since an instruction without data ended
    busy,   \* programming
    dout

chipVars == <<mem, bits, busy, dout>>

ChipInit == mem = Factory /\ bits = <<>> /\ busy = FALSE /\ dout = TRUE

Number(b) == FoldLeft(LAMBDA n, x : 2 * n + x, 0, b)

\* An instruction starts with the first 1 after a 0.
Starts(b) == {i \in 1 .. Len(b) : b[i] = 1 /\ \E j \in 1 .. i - 1 : b[j] = 0}
Body(b)   == IF Starts(b) = {} THEN <<>>
             ELSE SubSeq(b, 1 + CHOOSE i \in Starts(b) : \A j \in Starts(b) : i <= j, Len(b))

\* Two bits of opcode, then the address; where there is none, its first two bits
\* belong to the opcode.  An instruction not listed does nothing.
Instruction(b) ==
    LET body == Body(b)
        op   == Number(SubSeq(body, 1, 2))
        sub  == Number(SubSeq(body, 3, 4))
    IN  CASE Len(body) < 2 + AddrBits -> "none"
          [] op = 2                   -> "read"
          [] op = 1                   -> "write"
          [] op = 0 /\ sub = 1        -> "write all"
          [] op = 0 /\ sub \in {0, 3} -> "enable"
          [] OTHER                    -> "none"

Address(b) == Number(SubSeq(Body(b), 3, 2 + AddrBits))
Operand(b) == SubSeq(Body(b), 3 + AddrBits, Len(Body(b)))

\* A write takes effect with the deselect, if all its data has arrived.  Writing all
\* words, the chip takes the low half of the data, for both halves of each word.
Twice(value) == (value % 2 ^ (DataBits \div 2)) * (1 + 2 ^ (DataBits \div 2))
Programs(b) == Instruction(b) \in {"write", "write all"} /\ Len(Operand(b)) >= DataBits
Programmed(b) ==
    LET value == Number(SubSeq(Operand(b), 1, DataBits))
    IN  [a \in Words |-> CASE Instruction(b) = "write all" -> Twice(value)
                           [] Instruction(b) = "write" /\ a = Address(b) -> value
                           [] OTHER -> mem[a]]

\* A read answers with a zero and then with word after word, the high bit first.
Output(b) ==
    LET n    == Len(Operand(b))
        word == mem[(Address(b) + (n - 1) \div DataBits) % 2 ^ AddrBits]
    IN  IF Instruction(b) # "read" THEN TRUE
        ELSE n > 0 /\ (word \div 2 ^ (DataBits - 1 - ((n - 1) % DataBits))) % 2 = 1

\* One update of the pins: whether the chip is selected, whether the clock rises, the
\* data in, and whether programming has ended before.
Bus(cs, edge, di, over) ==
    LET still == busy /\ ~over
        heard == IF edge THEN Append(bits, di) ELSE bits
    IN  /\ over => busy
        /\ \/ /\ ~cs
              /\ bits' = <<>> /\ dout' = TRUE
              /\ IF Programs(bits) THEN mem' = Programmed(bits) /\ busy' = TRUE
                                   ELSE busy' = still /\ UNCHANGED mem
           \/ cs /\ still /\ dout' = FALSE /\ UNCHANGED <<mem, bits, busy>>
           \/ /\ cs /\ ~still
              /\ bits' = (IF Instruction(heard) = "enable" THEN <<>> ELSE heard)
              /\ dout' = Output(bits') /\ busy' = FALSE /\ UNCHANGED mem

\* The power goes off and on.
Power == bits' = <<>> /\ busy' = FALSE /\ dout' = TRUE /\ UNCHANGED mem

ChipNext == Power \/ \E cs, edge, over \in BOOLEAN, di \in Bit : Bus(cs, edge, di, over)

ChipSpec == ChipInit /\ [][ChipNext]_chipVars
=============================================================================
