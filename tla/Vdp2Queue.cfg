\* Frames of three rows, pictures of two lines, the last row busy-waited for, through a ring
\* of two entries; two values.
SPECIFICATION FairSpec
CONSTANTS
    v = v
    w = w
    WQ_Size = 2
    VisibleLines = 3
    ActiveMin = 2
    ActiveMax = 2
    BusyLines = 1
    WakeupAt = 2
    Values = {v, w}
    SemCap = 1
ACTION_CONSTRAINT Paced
INVARIANTS SurfaceExclusive FrameAsIssued StateComplete
PROPERTIES EndsUnaided CallsReturn
