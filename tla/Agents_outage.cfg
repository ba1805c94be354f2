SPECIFICATION Spec
CONSTANT Plans <- MCPlans
INVARIANT WebAnswersAreNotCached
