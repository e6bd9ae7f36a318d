SPECIFICATION LoopSpec
CONSTANTS
    kWireBitsPerByte = 8
    kCyclesPerUs = 1
    kAttSetupUs = 1
    kByteGapUs = 1
    kAckTimeoutUs = 6
    Buffers = {27, 29}
    MaxMoves = 2
INVARIANTS
    PrintsWhatIsWired
    TraceShowsFrame
PROPERTIES
    FrameEnds
