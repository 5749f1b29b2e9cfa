SPECIFICATION TuningSpec
CONSTANTS
    None = None
    Frequencies <- TwoFrequencies
    Corrections <- SomeCorrections
    Threshold = 2
    MaxCorrections = 3
INVARIANTS
    AgreeUnlessOverlapped
PROPERTY CommandPrevails
