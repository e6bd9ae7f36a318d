SPECIFICATION Spec
CONSTANTS
    kPollPeriodUs = 1
    kMaxUs = 7
    kPollsPerSummary = 7
    Seconds = 2
    ModelsAtStart <- MCModels
    MaxFlight = 2
    MaxUnread = 1
INVARIANTS
    NoFalseAlarm
    JudgesAfterItsLines
PROPERTY RunEnds
