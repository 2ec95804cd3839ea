SPECIFICATION OHFairSpec
CONSTANTS
    MinTimeInState = 2
    FailoverCooldown = 10
    RecoveryCooldown = 4
    MaxDailyFailovers = 1
    RequireManualAuth = FALSE
    ConsecutiveDegradedChecksRequired = 3
    SecondaryConfigured = TRUE
    YearDays = 2
    DayLength = 12
    HealthClasses = {"bad", "fair", "good", "absent"}
    InitialFiles = {"HEALTHY", "PREPARING", "missing"}
    Faults <- FaultKinds
    NoState = NoState
INVARIANT TypeOK
PROPERTIES
    OrphanedOnlyByAbort RecordedControllerFailsOver GoodPrimaryFailsBack
    FailoverHasEvidence QuietBeforeFailback
