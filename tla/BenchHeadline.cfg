\* A timed, rate-limited pump, against a middleware whose device may fail.
SPECIFICATION Spec
CONSTANTS
    None = None
    Infinite = Infinite
    Low = 0
    High = 2
    Far = 1
    Default = 0
    Rate = 2
    Speed = 1
    Floor = 0
    Duration = 1
    Gated = TRUE
    Stoppable = TRUE
    Floats = TRUE
    Modes = {"reject", "clamp"}
    Attempts = 2
    Faults = {"failed"}
INVARIANT
    HeadlineTrue
CHECK_DEADLOCK FALSE
