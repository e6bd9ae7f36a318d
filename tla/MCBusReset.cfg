SPECIFICATION ResetSpec
CONSTANTS
    kCyclesPerUs = 8
    kWireBitsPerByte = 3
    Bytes <- MCBytes
    FrameLen = 2
    kAttSetupUs = 2
    kByteGapUs = 2
    kAckTimeoutUs = 11
    kAckDelayUs = 5
    AckDelays <- MCDelays
    kLagCycles = 1
    kFrameStart <- MCFrameStart
    MaxResets <- MCMaxResets
INVARIANTS
    OneLevelPerWire
    BootsIdle
    OneFrameLost
PROPERTIES
    AckedMeansHeard
