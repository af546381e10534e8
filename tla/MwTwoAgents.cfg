SPECIFICATION Spec
CONSTANTS
    None = None
    NaN = NaN
    Unit = 1
    Targets <- Flow
    Actuator <- FlowAct
    Limit <- FlowTimed
    Safe <- FlowSafe
    SafeOrder <- FlowOrder
    PowerOn <- FlowStart
    Supported = TRUE
    Values = {1, 3}
    Polls = 1
    MaxAge = 0
    Faults = {"stuck", "read"}
    Tasks = {r1, r2, e1}
    Requests = {r1, r2}
    Expiries = {e1}
    MayReregister = FALSE
SYMMETRY SameRequests
INVARIANTS
    EnvelopeAtHardware
    HeldIsTimed
