SPECIFICATION Spec
CONSTANTS
    BitCounts = {2, 3}
    StopCounts = {1, 2}
    Noise <- AllNoise
    Texts <- Pairs
    Gaps = {0, 1}
    MaxChunk = 5
    MaxSettings = 1
INVARIANTS
    TypeOK
    Resynchronises
PROPERTY ChunkIndependent
CHECK_DEADLOCK FALSE
