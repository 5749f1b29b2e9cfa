SPECIFICATION Spec
CONSTANTS
    demod = demod
    stats = stats
    None = None
    Sockets = {s1, s2, s3, s4}
    Loops = {demod, stats}
    Period <- Periods
    Waiting = {demod}
    Delay = 5
    MaxClicks = 2
    MaxFaults = 2
    MaxLoops = 2
INVARIANTS
    OneForEachClick
    RefreshRuns
    Undisturbed
PROPERTY AlwaysBack
