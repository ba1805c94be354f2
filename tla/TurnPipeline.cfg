CONSTANTS
    Requests = {r1, r2}
    Threads = {t1, t2}
    Queries = {"q", "Q"}
    Languages = {"hi", "HI", "en"}
    Asks <- MCAsks
    Codes = {"hi", "en"}
    Folded <- MCFolded
    Endpoints = {"search", "search/stream"}
    MaxEntries = 1
    Ttl = 1
    Flaws = {"blocked", "fallback", "partial"}
    Brings = {"nothing", "files"}
    MaxTime = 2

SPECIFICATION Spec

INVARIANTS
    TypeOK
    CacheWithinLimit
    HitFitsTheRequest
    HitIsReplayable
    DoneMeansRemembered
PROPERTY
    EveryRequestEnds

CHECK_DEADLOCK FALSE
