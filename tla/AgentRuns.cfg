SPECIFICATION FairSpec
CONSTANTS
    Runs = {x}
    Instructions = {i1}
    MaxEvents = 1
    MaxRequests = 1
    MaxCrash = 1
    x = x
    i1 = i1
INVARIANTS RecordIsTrue LaunchNeedsProof
PROPERTIES ShutdownInOrder EverythingEnds
CHECK_DEADLOCK FALSE
