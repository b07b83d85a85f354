\* The mailbox and the SCU, with threads starting and stopping and with saved states:
\* the SCSP's interrupt, and the CD block's, which is on the A-bus and below it.
CONSTANTS
    Sources = {6, 16}
    Masks = {{}, {15}, {6}}
    SavedMasks = {{}}
SPECIFICATION FairSpec
INVARIANTS HighNotLost NoneHeldBack
PROPERTIES NoSpurious HighArrives
