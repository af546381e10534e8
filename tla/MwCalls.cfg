SPECIFICATION FairSpec
CONSTANTS
    None = None
    NaN = NaN
    Unit = 1
    Targets <- Flow
    Actuator <- FlowAct
    Limit <- FlowStops
    Safe <- FlowSafe
    SafeOrder <- FlowOrder
    PowerOn <- FlowStart
    Supported = TRUE
    Values = {1, 3}
    Polls = 1
    MaxAge = 0
    Faults = {"read", "transmit", "ack", "stuck"}
    Tasks = {r1, e1}
    Requests = {r1}
    Expiries = {e1}
    MayReregister = FALSE

PROPERTY EveryCallReturns
