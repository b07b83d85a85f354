SPECIFICATION FairSpec
CONSTANT MaxBlocks = 2
INVARIANTS SFTells BlockKept
PROPERTIES CommandsEnd CutByNewBlanking
