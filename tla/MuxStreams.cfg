SPECIFICATION FairSpec
CONSTANTS
    c1 = c1
    c2 = c2
    Channels = {c1, c2}
    Kinds <- SomeKinds
    MaxSends <- TwoAndOne
    MaxFaults = 2
INVARIANTS
    NoForeignMessages
PROPERTIES
    ImplementsStreams
    NothingLost
    Transferred
CHECK_DEADLOCK FALSE
