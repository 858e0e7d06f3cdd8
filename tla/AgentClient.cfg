SPECIFICATION Spec
CONSTANTS
 Runs = {r1, r2}
 None = none
 MaxOps = 2
 MaxActs = 3
 MaxFaults = 1
 MaxGens = 2
SYMMETRY Interchangeable
 
PROPERTIES DraftKept ViewFollows
CHECK_DEADLOCK FALSE
