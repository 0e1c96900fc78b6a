CONSTANTS
    Syncs = {s1}
    Urls = {u1}
    Procs = {p1, p2}
    NoSync = NoSync
    NoUrl = NoUrl
    KnownUrls = {}
    MaxAttempts = 2
    PerSite = 1
    Batch = 2
    AbsenceThreshold = 2
    StaleOutlivesTask = TRUE
    MaxCopies = 1
    MaxFaults = 1
    MaxEdits = 0
SPECIFICATION FairSpec
INVARIANTS ReservationsBacked
PROPERTIES SyncSettles
