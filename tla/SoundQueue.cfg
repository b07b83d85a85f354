\* A ring of two whose counters wrap every fourth command, frames of two slices,
\* games with and without a RAX board.
SPECIFICATION FairSpec
CONSTANTS
    SQ_SIZE = 2
    Wrap = 4
    RunBatch = 2
    FrameSlices = 2
    IBUF = 3
    SemCap = 1
    RegCmds = {"W"}
    SThreadWanted = TRUE
    RaxCarts = {FALSE, TRUE}
INVARIANTS NoOverwrite DirectAccessExclusive NoLostWakeup CaughtUp
PROPERTIES CallsReturn InOrder
