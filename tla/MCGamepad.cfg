SPECIFICATION CountSpec
CONSTANTS
    kPollPeriodUs = 1
    kMaxUs = 7
    Answers <- MCAnswers
    Elapseds <- MCElapseds
    kPollsPerSummary = 3
    PollsModulus = 7
INVARIANTS
    NeutralUnlessStreaming
    BusyFitsSummary
    BusyCountsUnsent
PROPERTIES
    NoStuckPress
    HostCatchesUp
