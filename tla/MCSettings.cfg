SPECIFICATION FairSpec
CONSTANTS
    None = None
    Values <- SetByClients
    Default <- Constructed
    Saved <- Files
    Precision = 4
    MaxCommands = 2
    MaxKills = 2
INVARIANTS
    ShownIsActual
    ParametersApply
PROPERTIES
    RestoresLastRun
    KeepsTrying
