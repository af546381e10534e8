SPECIFICATION Spec
CONSTANTS
    None = None
    NaN = NaN
    Unit = 1
    Targets <- Cell
    Actuator <- CellAct
    Limit <- CellTimed
    Safe <- CellSafe
    SafeOrder <- CellOrder
    PowerOn <- CellStart
    Supported = TRUE
    Values = {1, 2}
    Polls = 0
    MaxAge = 0
    Faults = {"read"}
    Tasks = {r1, e1}
    Requests = {r1}
    Expiries = {e1}
    MayReregister = FALSE
INVARIANTS
    EnvelopeAtHardware
    ReportedIsSent
PROPERTY GatedMovesConfirmed
