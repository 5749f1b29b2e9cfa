SPECIFICATION Spec
CONSTANTS
    Word <- Letters
    Other <- Noise
    Crc <- ParityCrc
    CrcLen = 2
    ScanSize = 5
    Limit = 9
    Chunks = {1, 4, 8}
    Transmissions <- SomeTransmissions
INVARIANTS
    TypeOK
    ChunkIndependent
    ClearSentencesFound
    LivePrintComplete
CHECK_DEADLOCK FALSE
