SPECIFICATION FairSpec
CONSTANTS
    p = p
    q = q
    Conns = {1, 2}
    Protocols = {p, q}
    ClientCaps <- ClientChoices
    ServerCaps <- ServerChoices
    Serializers = {"json", "postcard"}
    Modes = {"listen", "manual", "accept"}
    MaxRequests = 2
    SystemBuffer = 1
INVARIANTS
    Agreement
    NoMutualWait
    AnswerIsOwn
    PendingOwned
    ChannelsAccounted
PROPERTIES
    HandshakeEnds
    RequestReturns
CHECK_DEADLOCK FALSE
