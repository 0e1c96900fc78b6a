CONSTANTS
    Syncs = {s1, s2}
    Urls = {u1}
    Procs = {p1, p2}
    NoSync = NoSync
    NoUrl = NoUrl
    KnownUrls = {}
    MaxAttempts = 1
    PerSite = 2
    Batch = 2
    AbsenceThreshold = 2
    StaleOutlivesTask = TRUE
    MaxCopies = 1
    MaxFaults = 0
    MaxEdits = 1
SPECIFICATION Spec
SYMMETRY Symmetry
INVARIANTS TypeOK OneActiveSync
PROPERTIES CurrentSyncStaysActive
