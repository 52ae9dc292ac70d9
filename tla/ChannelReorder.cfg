SPECIFICATION Spec
CONSTANTS
    Senders = {s1, s2}
    Strategy = "unlimited"
    Capacity = 2
    Buffer = 2
    Word = 16
    Ops = {"send"}
    Droppable = {}
    Receives = {"recv"}
    DebugAssertions = TRUE
    MaxOps = 1
INVARIANTS
    NoReorderPanic
CHECK_DEADLOCK FALSE
