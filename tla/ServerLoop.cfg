SPECIFICATION FairSpec
CONSTANTS
    Requests = {1, 2}
    SystemBuffer = 1
    MaxFrames = 2
INVARIANTS
    WrittenWithoutGap
PROPERTIES
    WriterNotStarved
    AcceptedGoesOut
CHECK_DEADLOCK FALSE
