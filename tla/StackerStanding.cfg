\* Run by hand: --standing wrong in kind, not only in number.
SPECIFICATION Spec
CONSTANTS
    None = None
    Order <- Four
    Retries = 1
    Grips = 2
PROPERTIES
    StandingIsCaught
CHECK_DEADLOCK FALSE
