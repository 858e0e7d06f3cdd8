SPECIFICATION FairSpec
CONSTANTS
    Forked = TRUE
    MaxTurn = 2
    Approval = {a1, a2}
    MaxWire = 2
INVARIANTS TurnsInOrder ApprovalsAnswered
PROPERTIES ImplementsLife StopEnds
CHECK_DEADLOCK FALSE
