\* A game whose lists are drawn instantly, one command.
SPECIFICATION SpecFrame
CONSTANTS
    Rows = 2
    Lines = 4
    CmdTable = {c1}
    Games = {"instant"}
INVARIANTS OneFrameOld
