SPECIFICATION Spec
CONSTANTS
    None = None
    NaN = NaN
    Unit = 1
    Targets <- Flow
    Actuator <- FlowRelative
    Limit <- FlowPlain
    Safe <- FlowSafe
    SafeOrder <- FlowOrder
    PowerOn <- FlowStart
    Supported = TRUE
    Values = {1, 2}
    Polls = 1
    MaxAge = 0
    Faults = {}
    Tasks = {r1, e1}
    Requests = {r1}
    Expiries = {e1}
    MayReregister = FALSE
INVARIANT ReportedIsSent
