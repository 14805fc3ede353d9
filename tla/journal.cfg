\* Three entries in arrays of two, one rotation, and a system file of any shape.
CONSTANTS
    Kind <- Published
    SystemFile <- System
    Slots = 2
    Chunk = 4
    MaxEntries = 3
SPECIFICATION FairSpec
INVARIANTS TypeOK NoRelaxation CountedAnchorsTaken ErrorsHaveACause UnreadableIsLoud
PROPERTY ReaderEnds
CHECK_DEADLOCK FALSE
