CONSTANTS
    Threads = {t1}
    Workers = {w1, w2}
    NoWorker = NoWorker
    MaxTurns = 5
    SummaryGap = 3
    RecentTurns = 5
    Faults = {"llm", "crash", "abort"}

SPECIFICATION Spec

SYMMETRY WorkerSymmetry

INVARIANTS
    TurnsNumberedOnce
    SummaryCountHonest


PROPERTY KeepsTheLog
