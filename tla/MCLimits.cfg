SPECIFICATION Spec
CONSTANTS
    Invocations = {a, b}
    Roles = {"role", "other"}
    MaxInvestigations = 3
    AgentWindow = 2
    MaxApiCalls = 2
    ApiWindow = 1
    MaxDailyCost = 2
    Day = 3
    MaxCost = 1
    ErrorPercent = 30
    ErrorWindow = 2
    MinEvents = 3
    Cooldown = 2
    MaxFailures = 3
INVARIANTS TypeOK  CostOverrunBounded
PROPERTIES TrippedBreakerPauses BreakerRecovers
