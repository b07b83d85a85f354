\* Two lists, two sets of clip registers, a rotated mode; two rows in two bands.
SPECIFICATION MCSpec
CONSTANTS
    Rows = 2
    DrawNumBands = 2
    DrawBands <- MCDrawBands
    Lists = 2
    ClipRegs = 2
    Contents <- MCContents
    Clips <- MCClips
    ClipAfter <- MCClipAfter
    Modes = {"plain", "rotated"}
    Rotating = {"rotated"}
ACTION_CONSTRAINT OneKind
INVARIANTS Exclusive
PROPERTIES InstantDraw CallsReturn
