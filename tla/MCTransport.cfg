SPECIFICATION FairSpec
CONSTANTS
    c1 = c1
    c2 = c2
    Calls <- TwoCalls
    Capacity = 2
    MaxFrames = 6
    MaxChunks = 3
    None = None
INVARIANTS TypeOK FramesAccountedFor OrderedUnlessBacklog
PROPERTIES ReceiverReleased
CHECK_DEADLOCK FALSE
