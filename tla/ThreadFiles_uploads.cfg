CONSTANTS
    Uploads = {u1}
    PerUpload <- ThreeEach
    MaxFiles = 3
    Writers = 1
    MaxAttempts = 2

SPECIFICATION Spec

INVARIANTS
    TypeOK
    RecordedCollectionIsWhole
    SlotsBalance
PROPERTIES
    DeletedStaysDeleted
    EveryUploadEnds

CHECK_DEADLOCK FALSE
