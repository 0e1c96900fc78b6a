SPECIFICATION ServicesSpec
CHECK_DEADLOCK FALSE
CONSTANTS
  Events <- SmallEvents
  Sessions = {r1, r2}
  MaxKeys = 2
  Clients = {k1}
  Members = {m1}
  Registrations <- PostedClients
  MaxCodes = 1
  MaxPairs = 3
  Requests = {q1, q2}
  None = None
  Nil = Nil
  Sites = {"s1", "s2"}
  Pages = {"a", "b", "c"}
  SiteOf <- PageSites
  Hosts = {"h1", "h2"}
  Urls = {"u"}
  HostOf <- UrlHosts
  Links <- PageLinks
  Deleted = {d1, d2}
  Cleaners = {c1, c2}
  NoSite = NoSite
  Projects = {p1, p2}
  SiteHosts = {h1, h2}
  Tasks = {t1, t2}
  Batch = 1
  NoValue = NoValue
  Locations = {root, u1, u2}
  RootUrl = root
  MaxFiles = 4
  MaxDepth = 2
  MaxEntries = 5
  MaxPerFile = 2
  Stamps = {1, 2}
  Calls = {call1, call2}
  RateLimit = 1
  RateWindow = 2
  MaxSeconds = 3
  Sources = {"s1", "s2"}
  Articles = {1, 2, 3}
  SourceOf <- ArticleSources
  Domains = {"d1", "d2", "d3"}
  Tongues = {"en", "de"}
  Oversample = 2
  MaxChanges = 3
  PublicUrls = {1, 2, 3}
  Sections = {"static", "blog"}
  SectionOf <- UrlSections
  Dated = {2}
  BatchSize = 2
  MaxTries = 2
  MaxReleases = 2
  Boots = {b1, b2}
  Sizes = {1, 2}
  IndexFields = {f1, f2}
  MaxOutages = 1
  Releases = {1, 2}
  Settings = {1, 2}
  StableChecks = 2
  MaxPolls = 3
  MaxProcesses = 2
  Attempts = {a1, a2}
  LinkUrls = {1, 2, 3}
  MaxLinks = 2
  MaxAnchors = 4
  Watched = {w1, w2}
  Sweeps = {s1, s2}
  MaxDay = 2
  MaxCount = 1
INVARIANTS ServicesTypeOK ProfileIsCurrent GrantsAreSpent GraphIsFaithful RatingOfItsHost ParseIsSound WindowBudget ExitTellsCause ServedBeforeReplaced SteadyIsFound CheckpointAnnounced CreatedOnce
PROPERTIES RowOutlivesPoints ReadyMeansServing SnapshotsStay
SYMMETRY Alike
