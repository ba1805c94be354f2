CONSTANTS
    Agents = {"Drafting", "Scenario", "Document"}
    Supporting = {"Document"}
    Runs = {r1}
    MaxTurns = 2
    Endpoint = "stream"
    Queries = {"empty", "ask", "greet", "regenerate"}
    Files = {"none", "text", "indexed"}

SPECIFICATION Spec

INVARIANTS
    TypeOK
    DraftTagMeansDraft
    RefinementStandsAlone

CHECK_DEADLOCK FALSE
