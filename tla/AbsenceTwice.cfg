CONSTANTS
    Syncs = {s1}
    Urls = {u1, u2}
    Procs = {p1, p2}
    NoSync = NoSync
    NoUrl = NoUrl
    KnownUrls = {u1}
    MaxAttempts = 2
    PerSite = 2
    Batch = 2
    AbsenceThreshold = 2
    StaleOutlivesTask = TRUE
    MaxCopies = 1
    MaxFaults = 0
    MaxEdits = 0
SPECIFICATION Spec
INVARIANTS AbsenceCountedOnce
