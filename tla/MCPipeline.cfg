SPECIFICATION FairSpec
CONSTANTS
    Factors = {2, 3}
    MaxFactor = 3
    Fastest = 2
    Bandwidths = {1500, 3000}
    Lengths = {1, 3, 9}
    MinTaps = 1
    Block = 2
    Bins = 2
    Batches = {1, 4, 8}
    MaxSamples = 12
INVARIANTS
    InOrder
    LittleLeft
    FilterFits
PROPERTIES
    ProcessEnds
    SetterEnds
