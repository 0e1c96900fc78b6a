CONSTANTS
    Syncs = {s1}
    Urls = {u1, u2}
    Procs = {p1, p2}
    NoSync = NoSync
    NoUrl = NoUrl
    KnownUrls = {}
    MaxAttempts = 1
    PerSite = 1
    Batch = 2
    AbsenceThreshold = 2
    StaleOutlivesTask = TRUE
    MaxCopies = 2
    MaxFaults = 1
    MaxEdits = 0
SPECIFICATION Spec
SYMMETRY Symmetry
INVARIANTS ExclusiveCrawl RunningWithinLimit
PROPERTIES SettledPagesStay LeasesImplemented
