SPECIFICATION Spec
CONSTANTS
    kPollPeriodUs = 1
    kMaxUs = 8
    Answers <- MCAnswers
    Elapseds <- MCElapseds
INVARIANTS
    TypeOK
    StageMatchesLink
    NegotiatingIsBounded
    StreamsWholeFrames
PROPERTIES
    ConfigModeIsBrief
    LinkRemembers
    KeepsPromise
