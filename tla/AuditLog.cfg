SPECIFICATION Spec
CONSTANTS
    None = None
    Threads = {t1, t2}
    Payloads = {p, q}
    MaxLines = 3
    Faults = {"crash", "power", "torn", "error"}
    Changes = {"edit", "forge", "delete"}
SYMMETRY SameThreads
INVARIANTS
    TypeOK
    SoundUntilDamage
    AckedStays
    ChangeIsSeen
