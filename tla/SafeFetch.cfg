CONSTANTS
    Calls = {c1, c2}
    Names = {"h1", "h2"}
    Urls <- SmallUrls
    NoUrl = NoUrl
    MaxRedirects = 2
    CrawlConcurrency = {1, 2, 8}
    Interval = 2
    MaxTracked = 1
    MaxBytes = 2
SPECIFICATION FetchFair
INVARIANTS FetchTypeOK PermitsHold ContactsArePublic
PROPERTIES StartsArePaced FetchEnds
