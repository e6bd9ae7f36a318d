SPECIFICATION LineSpec
CONSTANTS
    a = a
    b = b
    CR = CR
    LF = LF
    Letters = {a, b}
    kAnalogCommand <- MCCommand
    kMaxLineLen = 3
    MaxTyped = 7
PROPERTIES
    ObserverJudgesWholeLines
    EmulatorReadsWholeLines
