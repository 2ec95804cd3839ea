SPECIFICATION Spec
CONSTANTS
    Requests = {q1, q2}
    Groups = {g1, g2}
    MaxAlerts = 2
    RateLimit = 2
    Minute = 1
    Window = 1
    CleanupEvery = 2
    NoGroup = NoGroup
INVARIANTS TypeOK MarkedMeansRouted
PROPERTIES SuppressedOnlyAfterRouting StormsInvestigatedAgain
