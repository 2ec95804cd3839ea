SPECIFICATION Spec
CONSTANTS
    Contracts = 1
    Passes = 2
    MaxAttempts = 3
    MaxBackends = 1
    Delay = 1
    AttemptTicks = 1
    RunLimit = 9
    Fresh = 1
    None = None
    Situations = {"stable", "empty"}
    MaxForgeries = 2
INVARIANTS HonestAccepted ForgeryRejected SatisfiedMeansProven
CHECK_DEADLOCK FALSE
