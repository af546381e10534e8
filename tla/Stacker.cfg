\* A tower of four, with two retries.
SPECIFICATION FairSpec
CONSTANTS
    None = None
    Order <- Four
    Retries = 2
    Grips = 2
INVARIANTS
    TypeOK
    ContactIsPlanned
PROPERTIES
    ClaimStands
    ResumesOnTower
    EveryRunEnds
CHECK_DEADLOCK FALSE
