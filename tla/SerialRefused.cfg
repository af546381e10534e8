SPECIFICATION Spec
CONSTANTS
    None = None
    c1 = c1
    c2 = c2
    Callers = {c1}
    Places = {0, 1}
    Home = 0
    Polls = 1
    Buffer = 1
    Unclosed = 1
    OneAtATime = TRUE
INVARIANT RefusalNeverSuccess
