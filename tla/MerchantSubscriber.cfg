SPECIFICATION Spec
CONSTANTS
    Requests = {r1, r2, r3}
    Emails = {e1, e2}
    TelegramIds = {t1}
    None = None
    MaxDocuments = 3
SYMMETRY RequestSymmetry
INVARIANTS
    SubscribedOnceUnlessOverlap
