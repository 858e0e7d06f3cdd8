SPECIFICATION FairSpec
CONSTANTS
 MaxContents = 3
 MaxPosted = 1
 ActEarly = FALSE
 Faults = {"gone", "watch", "io", "crash"}
INVARIANT TabIsTrue
PROPERTIES  OutsideEditKept 
CHECK_DEADLOCK FALSE
