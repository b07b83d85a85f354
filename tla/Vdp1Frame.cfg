\* Two rows, four lines a field, two commands.
SPECIFICATION SpecFrame
CONSTANTS
    Rows = 2
    Lines = 4
    CmdTable = {c1, c2}
    Games = {"standard", "latch", "instant"}
ACTION_CONSTRAINT InstantRowsAlike
INVARIANTS NoGhosts LagsOnlyLate
PROPERTIES SteadyWhileShown
