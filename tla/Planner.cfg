CONSTANTS
    Replies <- SomeReplies
    Intents <- SomeIntents
    Requests <- SomeRequests

SPECIFICATION Spec

INVARIANTS
    TypeOK
    DraftingLeadsItsPlan
    DraftsAreConfirmed
    CodesAreReadOnce
    LongPromptReachesDraftingWhole

CHECK_DEADLOCK FALSE
