SPECIFICATION Spec
CONSTANTS
    Base = 2
    PrefixBytes = 3
    MaxFrameBytes = 5
    CompactAt = 2
    Payloads <- BitPayloads
    MaxFrames = 3
    MaxChunk = 8
INVARIANT BufferOK DecodesTheWire
CHECK_DEADLOCK FALSE
