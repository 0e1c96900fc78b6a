CONSTANTS
    Articles = {a1}
    Urls = {u1}
    Texts = {t1, t2}
    Procs = {p1, p2}
    NoArticle = NoArticle
    NoText = NoText
    MaxCount = 1
    MaxEdits = 0
SPECIFICATION SteadySpec
INVARIANTS ActiveIsIndexed
PROPERTIES DiscoveredIsDecided
