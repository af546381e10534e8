\* A lamp and a pump; announcements, two clients, sweeps and timers interleave.
SPECIFICATION FairSpec
CONSTANTS
    None = None
    Devices <- Two
    Local = {1}
    Own <- TwoOwn
    Tags <- TwoTags
    Announced <- TwoAnnounced
    Clients <- TwoClients
    Expiries = {e1}
    Values = {0, 2, 3}
    Batches <- TwoBatches
    Faulty = TRUE
INVARIANTS
    TypeOK
    OwnEnvelope
    AnswersMatch
    StopAllReaches
PROPERTY
    TimedComesHome
