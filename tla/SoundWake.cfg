\* Five commands through a ring of two.
SPECIFICATION FairSpecWake
CONSTANTS
    SQ_SIZE = 2
    MaxPush = 5
INVARIANTS FetchesPushed AccessSeesAll
PROPERTIES DrainReturns
