SPECIFICATION FHSpec
CONSTANTS
    MinTimeInState = 2
    FailoverCooldown = 10
    RecoveryCooldown = 2
    MaxDailyFailovers = 1
    RequireManualAuth = FALSE
    ConsecutiveDegradedChecksRequired = 2
    SecondaryConfigured = TRUE
    YearDays = 2
    DayLength = 22
    HealthClasses = {"bad", "fair", "good", "absent"}
    InitialFiles = {"HEALTHY"}
    Faults <- FaultsButLoss
    NoState = NoState
PROPERTIES KeepsFlipDiscipline  SecondaryServesAWhile
