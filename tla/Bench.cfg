\* A timed, rate-limited pump, against a middleware that may fail or leak.
SPECIFICATION Spec
CONSTANTS
    None = None
    Infinite = Infinite
    Low = 0
    High = 2
    Far = 1
    Default = 0
    Rate = 2
    Speed = 1
    Floor = 0
    Duration = 1
    Gated = TRUE
    Stoppable = TRUE
    Floats = TRUE
    Modes = {"reject", "clamp", "estop", "discrete", "discrete_estop"}
    Attempts = 2
    Faults = {"desync", "failed", "lost", "leaky"}
INVARIANTS
    TypeOK
    PacedIsNotRated
    LeakIsReal
    LeakIsSeen
    TimerNoteTrue
CHECK_DEADLOCK FALSE
