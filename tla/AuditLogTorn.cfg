SPECIFICATION Spec
CONSTANTS
    None = None
    Threads = {t1}
    Payloads = {p}
    MaxLines = 3
    Faults = {"crash", "torn"}
    Changes = {}
INVARIANT RestartContinues
