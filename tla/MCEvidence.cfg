SPECIFICATION Spec
CONSTANTS
    Orders = {order1, order2}
    MaxRuns = 2
    MaxClock = 3
    MaxTouches = 1
    AttestAge = 1
    AttestLife = 3
    ScopeTicks = 1
    CredentialLife = 2
    EvidenceLife = 3
INVARIANTS CompleteRunAccepted OneRunAccepted ForgeryRejected
SYMMETRY OrderSymmetry
CHECK_DEADLOCK FALSE
