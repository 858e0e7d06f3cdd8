SPECIFICATION FairOwnedSpec
CONSTANT Faults = {"core", "guardian", "init", "guardianHangs", "initHangs", "signal", "tool"}
PROPERTIES ImplementsLease ClosedEarlyNeverRuns EndsAndAnswers
CHECK_DEADLOCK FALSE
