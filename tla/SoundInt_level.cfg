\* The exchange between the two steps of a fall.
CONSTANTS
    Sources = {6}
    Masks = {{}}
    SavedMasks = {{}}
SPECIFICATION Spec
INVARIANTS LevelFollows
