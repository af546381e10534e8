SPECIFICATION Spec
CONSTANTS
    None = None
    NaN = NaN
    Unit = 1
    Devices <- RejectConditional
    Worlds <- AllWorlds
    Values <- Asked
    Faults = {"read"}
    MaxAge = 2
INVARIANT PassesInsideBoundInForce
