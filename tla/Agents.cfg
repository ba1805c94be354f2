SPECIFICATION Spec
CONSTANT Plans <- MCPlans
INVARIANTS TypeOK UnflaggedTextRestsOnHits PageShowsTheAnswer AgentWebAnswersAreNotCached
PROPERTY EveryTurnIsAnswered
