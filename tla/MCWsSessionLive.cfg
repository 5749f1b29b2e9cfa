SPECIFICATION FairSpec
CONSTANTS
    None = None
    Sessions = {s1, s2}
    MaxMessages = 2
    BinaryMessages <- EvenMessages
PROPERTY MessageSettles
