SPECIFICATION FairSpec
CONSTANTS
    Senders = {s1, s2}
    Strategy = "bounded"
    Capacity = 2
    Buffer = 2
    Word = 16
    Ops = {"send"}
    Droppable = {}
    Receives = {"recv"}
    DebugAssertions = FALSE
    MaxOps = 2
PROPERTIES
    SendReturns
CHECK_DEADLOCK FALSE
