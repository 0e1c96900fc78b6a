CONSTANTS
    Articles = {a1}
    Urls = {u1, u2}
    Texts = {t1, t2}
    Procs = {p1, p2}
    NoArticle = NoArticle
    NoText = NoText
    MaxCount = 2
    MaxEdits = 1
SPECIFICATION Spec
SYMMETRY Symmetry
INVARIANTS TypeOK ActiveIsEmbedded VectorOfItsText NeverUndercounts
PROPERTIES CountErrorIsKept
