\* A pump that declares no emergency stop, and nothing fails.
SPECIFICATION Spec
CONSTANTS
    None = None
    Infinite = Infinite
    Low = 0
    High = 2
    Far = 1
    Default = 0
    Rate = 2
    Speed = 1
    Floor = 0
    Duration = 1
    Gated = TRUE
    Stoppable = FALSE
    Floats = TRUE
    Modes = {"reject"}
    Attempts = 2
    Faults = {}
INVARIANT
    ReportIsReached
CHECK_DEADLOCK FALSE
