SPECIFICATION Spec
CONSTANTS
    a1 = a1
    b1 = b1
    s = s
    l = l
    PktSize = 4
    Keys = {a1, b1}
    Ids = {1, 2}
    Sizes = {s, l}
    Streams <- AllStreams
    Chunks = {1, 3, 6}
INVARIANTS
    NoPacketLost
    SetIsARun
    BufferFits
PROPERTY PacketsComeOut
