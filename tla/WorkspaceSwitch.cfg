SPECIFICATION FairSpec
CONSTANTS
 Roots = {w0, w1}
 Launch = w0
 Sessions = {s1}
 Null = null
 None = none
 MaxFailures = 1
 MaxMoves = 1
 MaxSwitches = 1
 MaxCommands = 1
 MaxRestarts = 1
 Wander = TRUE
INVARIANTS ObservationFollows ReportedMeansClosed
 
CHECK_DEADLOCK FALSE
