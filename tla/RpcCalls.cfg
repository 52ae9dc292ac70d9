SPECIFICATION FairSpec
CONSTANTS
    Callers = {c1, c2}
    Generated = {c2}
    Capacity = 1
    MaxCalls <- OneOrTwo
INVARIANTS
    RightAnswer
    PendingOwned
PROPERTIES
    CallReturns
    RouterEnds
CHECK_DEADLOCK FALSE
