SPECIFICATION Spec
CONSTANTS
    Callers = {c1}
    Generated = {}
    Capacity = 1
    MaxCalls <- OneOrTwo
PROPERTIES
    NoAnswerLost
CHECK_DEADLOCK FALSE
