SPECIFICATION Spec
CONSTANTS
    None = None
    NaN = NaN
    Unit = 1
    Targets <- Flow
    Actuator <- FlowAct
    Limit <- FlowTimed
    Safe <- FlowSafe
    SafeOrder <- FlowOrder
    PowerOn <- FlowStart
    Supported = TRUE
    Values = {0, 1}
    Polls = 1
    MaxAge = 0
    Faults = {}
    Tasks = {r1, e1}
    Requests = {r1}
    Expiries = {e1}
    MayReregister = FALSE
PROPERTY StopSilencesTimers
