CONSTANTS
    Articles = {a1, a2}
    Urls = {}
    Texts = {t1, t2}
    Procs = {p1}
    NoArticle = NoArticle
    NoText = NoText
    MaxCount = 2
    MaxEdits = 0
SPECIFICATION RepairSpec
PROPERTIES RebuildRepairs
