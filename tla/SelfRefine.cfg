CONSTANTS
    Lengths <- MCLengths
    MaxIterations = 3
    MinChars = 5
    GuardChars = 20
    StepPercent = 70
    TotalPercent = 65

SPECIFICATION LoopSpec

INVARIANTS
    LoopTypeOK
    LongAnswerKeepsItsLength
    UnreadOnlyIfTheCriticFailed
PROPERTY
    LoopEnds

CHECK_DEADLOCK FALSE
