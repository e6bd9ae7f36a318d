SPECIFICATION Spec
CONSTANTS
    kCyclesPerUs = 8
    kWireBitsPerByte = 8
    Bytes <- MCBytes
    FrameLen = 3
    kAttSetupUs = 20
    kByteGapUs = 20
    kAckTimeoutUs = 100
    kAckDelayUs = 11
    AckDelays <- MCDelays
    kLagCycles = 4
PROPERTIES
    ExchangesBytes
    AcksArrive
    TraceShowsAckDelay
