SPECIFICATION FairSpec
CONSTANTS
    t1 = t1
    t2 = t2
    l1 = l1
    l2 = l2
    r1 = r1
    r2 = r2
    r3 = r3
    ClientToken = {t1}
    LaunchToken = {l1}
    Purpose = {"start", "plan", "fork"}
    RequestId = {r1, r2}
    MaxLive = 2
    MaxRetained = 2
    MaxCommands = 3
    MaxCrash = 0
INVARIANTS NothingOutlivesShutdown QuietMeansSaved
  
