SPECIFICATION Spec
CONSTANTS
    Senders = {s1, s2}
    Strategy = "bounded"
    Capacity = 2
    Buffer = 2
    Word = 16
    Ops = {"send", "send_timeout", "try_send", "send_request"}
    Droppable = {"send"}
    Receives = {"recv", "recv_envelope"}
    DebugAssertions = TRUE
    MaxOps = 2
SYMMETRY Symmetry
INVARIANTS
    PerSenderFifo
    ErrorMeansNotSent
    OkMeansKept
    EndIsComplete
    DepthAtRest
PROPERTIES
    ImplementsFifo
CHECK_DEADLOCK FALSE
