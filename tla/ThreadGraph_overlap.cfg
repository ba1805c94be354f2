CONSTANTS
    Agents = {"Drafting", "Scenario"}
    Supporting = {}
    Runs = {r1, r2}
    MaxTurns = 2
    Endpoint = "batch"
    Queries = {"ask"}
    Files = {"none"}

SPECIFICATION Spec

SYMMETRY RunSymmetry

INVARIANTS
    SynthesisWaitsForThePlan
    ReplyIsForThisRequest

CHECK_DEADLOCK FALSE
