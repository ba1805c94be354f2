CONSTANTS
    t1 = t1
    t2 = t2
    t3 = t3
    Threads = {t1, t2, t3}
    Slots = 2
    Cap = 3
    MaxTurns <- MCMaxTurns

SPECIFICATION Spec

INVARIANTS
    SlotsAddUp
    MissingSectionsAreNamed

PROPERTY EveryTurnLeaves

CHECK_DEADLOCK FALSE
