SPECIFICATION FairSpec
CONSTANTS
    None = None
    c1 = c1
    c2 = c2
    Callers = {c1}
    Places = {0, 1}
    Home = 0
    Polls = 1
    Buffer = 2
    Unclosed = 1
    OneAtATime = TRUE
INVARIANTS
    TypeOK
    PortAccounted

PROPERTIES
    ImplementsLoop
    EveryExchangeEnds
