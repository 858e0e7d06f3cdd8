SPECIFICATION FairWorldSpec
CONSTANTS
 MaxWorlds = 3
 MaxFailures = 1
 MaxToggles = 2
INVARIANT GreenIsConsistent
PROPERTIES LateIsNothing 
CHECK_DEADLOCK FALSE
