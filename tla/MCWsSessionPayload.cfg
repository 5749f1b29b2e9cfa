SPECIFICATION Spec
CONSTANTS
    None = None
    Sessions = {s1}
    MaxMessages = 2
    BinaryMessages <- EvenMessages
INVARIANT PayloadsOutliveWrites
