SPECIFICATION FairSpec
CONSTANTS
    Modulus = 8
    Window = 2
    Patience = 1
    Again = 0
    LastPacket = 5
    MaxFlush = 1
    Spread = 2
    Size = 2
    Chunk = 1
    Readers = {r1}
    PipeCap = 3
    None = None
INVARIANTS
    AskedBeforeSkipped
    StreamInOrder
    OnePiece
    NoLostWakeup
    ClosedIsDrained
CHECK_DEADLOCK FALSE
PROPERTIES
    BufferMoves
