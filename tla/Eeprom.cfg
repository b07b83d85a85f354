SPECIFICATION FairSpecEeprom
CONSTANTS
    AddrBits = 2
    DataBits = 2
    Factory <- MCFactory
    WriteTime = 2
    FrameTime = 2
    MaxBits = 9
    MaxWrites = 1
INVARIANT NeverEarly
PROPERTIES Reference BusyEnds

