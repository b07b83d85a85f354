------------------------------ MODULE MCEeprom ------------------------------
\* Eeprom with four words of two bits, each different when the chip is new.
EXTENDS Eeprom

MCFactory == [a \in 0 .. 3 |-> a]
=============================================================================
