CONSTANTS
    Syncs = {s1}
    Urls = {u1, u2, u3}
    Procs = {p1, p2}
    NoSync = NoSync
    NoUrl = NoUrl
    KnownUrls = {}
    MaxAttempts = 1
    PerSite = 1
    Batch = 2
    AbsenceThreshold = 2
    StaleOutlivesTask = TRUE
    MaxCopies = 1
    MaxFaults = 0
    MaxEdits = 0
SPECIFICATION UnsweptSpec
PROPERTIES SlotsRefilled
