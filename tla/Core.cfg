SPECIFICATION FairSpec
CONSTANTS
 Reads = {}
 Saves = {s1}
 Agents = {a1}
 Commands = {}
 Faults = {"crash", "launch", "transport", "garbage", "broken"}
 MaxLaunches = 3
 MaxRestarts = 1
 a1 = a1
 s1 = s1
INVARIANTS RecoveryHolds MutationsAreSafe
PROPERTY CoresEnd
CHECK_DEADLOCK FALSE
