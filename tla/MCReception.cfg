SPECIFICATION ReceptionSpec
CONSTANTS
    Spb = 8
    Vent = 72
    BitCounts = {2, 3}
    StopCounts = {1, 2}
    Noise <- SomeNoise
    Texts <- SomeTexts
    Gaps = {0, 11, 14}
    Shapes <- SomeShapes
    Glitches = {0, 5}
    Portions = {10, 26}
INVARIANTS
    ReceptionTypeOK
    BatchIndependent
    Recovers
CHECK_DEADLOCK FALSE
