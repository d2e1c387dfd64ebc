SPECIFICATION Spec
CONSTANTS
    Buffers = {b1, b2, b3}
    NoBuffer = NoBuffer
    Players = {p1, p2}
    MaxSeq = 3
    MaxThrown = 1
    MaxRaces = 1
SYMMETRY Symmetry
INVARIANTS
    TypeOK
    OwnedOnce
    FreeBuffersAreOld
PROPERTIES
    DecodedFrameIsKept
    PlayedInOrder
CHECK_DEADLOCK FALSE
