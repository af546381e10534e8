SPECIFICATION Spec
CONSTANTS
    None = None
    NaN = NaN
    Unit = 1
    Devices <- AllDevices
    Worlds <- AllWorlds
    Values <- Asked
    Faults = {"read", "transmit", "ack"}
    MaxAge = 3
INVARIANTS
    TypeOK
    StaysInEnvelope
    RateOverHistory
    ReadMeansInsideBound
PROPERTY NoStepChange
