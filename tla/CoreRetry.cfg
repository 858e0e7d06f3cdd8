SPECIFICATION Spec
CONSTANTS
 Reads = {r1}
 Saves = {}
 Agents = {a1}
 Commands = {c1}
 Faults = {}
 MaxLaunches = 2
 MaxRestarts = 1
 r1 = r1
 a1 = a1
 c1 = c1
INVARIANTS RetryIsForReads
CHECK_DEADLOCK FALSE
