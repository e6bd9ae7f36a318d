SPECIFICATION Spec
CONSTANTS
    kPollPeriodUs = 1
    kMaxUs = 8
    kTraceGapUs = 2
    Answers <- MCAnswers
    Elapseds <- MCElapseds
INVARIANT FaultSaysWhy
