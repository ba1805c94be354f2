CONSTANTS
    Threads = {t1}
    Workers = {w1}
    NoWorker = NoWorker
    MaxTurns = 8
    SummaryGap = 3
    RecentTurns = 5
    Faults = {"abort"}

SPECIFICATION Spec

INVARIANT NoTurnForgotten

