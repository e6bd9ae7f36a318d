SPECIFICATION Spec
CONSTANTS
    kPollPeriodUs = 1
    kMaxUs = 8
    Elapseds <- MCOnTime
    Lines <- MCLines
    MaxEvents = 3
INVARIANTS
    InStep
PROPERTIES
    StreamsModelPayload
    AcceptedIsHeld
    Reconverges
    UnplugNoticed
