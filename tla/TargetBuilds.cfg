SPECIFICATION FairSpec
CONSTANTS
 MaxJobs = 2
 MaxLost = 1
 MaxClicks = 2
INVARIANTS  FamiliesHeld
PROPERTIES NothingUnsaid JobsEndAndAreSeen
CHECK_DEADLOCK FALSE
