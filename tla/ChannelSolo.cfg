SPECIFICATION FairSpec
CONSTANTS
    Senders = {s1}
    Strategy = "bounded"
    Capacity = 2
    Buffer = 2
    Word = 16
    Ops = {"send", "send_request", "send_response"}
    Droppable = {}
    Receives = {"recv", "recv_envelope"}
    DebugAssertions = TRUE
    MaxOps = 4
INVARIANTS
    NoReorderPanic
    NoStrandedWaiter
PROPERTIES
    SendReturns
    EndIsTold
CHECK_DEADLOCK FALSE
