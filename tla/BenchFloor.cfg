\* A valve whose probes beside the bounds are too near to be seen; reads fail.
SPECIFICATION Spec
CONSTANTS
    None = None
    Infinite = Infinite
    Low = 0
    High = 3
    Far = 2
    Default = 3
    Rate = 2
    Speed = 1
    Floor = 1
    Duration = 3
    Gated = TRUE
    Stoppable = TRUE
    Floats = TRUE
    Modes = {"reject", "clamp", "estop", "discrete", "discrete_estop"}
    Attempts = 1
    Faults = {"desync", "failed", "lost", "read", "leaky"}
INVARIANTS
    TypeOK
    PacedIsNotRated
    LeakIsReal
    LeakIsSeen
    TimerNoteTrue
CHECK_DEADLOCK FALSE
