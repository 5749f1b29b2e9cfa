SPECIFICATION Spec
CONSTANTS
    None = None
    Sessions = {s1, s2}
    MaxMessages = 3
    BinaryMessages <- EvenMessages
SYMMETRY SessionSymmetry
INVARIANTS
    OneWriteAtATime
    QueueIsBacklog
    IoSendsToLiveSessions
PROPERTIES
    BroadcastReachesAll
    KeepsPromise
