SPECIFICATION Spec
CONSTANTS
    None = None
    NaN = NaN
    Unit = 1
    Targets <- Flow
    Actuator <- FlowAct
    Limit <- FlowRated
    Safe <- FlowSafe
    SafeOrder <- FlowOrder
    PowerOn <- FlowStart
    Supported = TRUE
    Values = {0, 1, 2}
    Polls = 0
    MaxAge = 1
    Faults = {}
    Tasks = {r1, r2, e1}
    Requests = {r1, r2}
    Expiries = {e1}
    MayReregister = FALSE
INVARIANT AwayIsTimed
