SPECIFICATION FairSpec
CONSTANTS
    MinTimeInState = 4
    FailoverCooldown = 22
    RecoveryCooldown = 8
    MaxDailyFailovers = 1
    RequireManualAuth = FALSE
    ConsecutiveDegradedChecksRequired = 3
    SecondaryConfigured = TRUE
    YearDays = 2
    DayLength = 24
    HealthClasses = {"bad", "fair", "good"}
    InitialFiles = {"missing"}
    Faults = {}
    NoState = NoState
PROPERTY BadPrimaryFailsOver
