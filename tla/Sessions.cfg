CONSTANTS
    Tokens = {t1, t2}
    Links = {l1, l2}
    Handlers = {h1, h2}
    MaxLinks = 2
    MaxChanges = 2
    MaxClock = 2
    NoEntry = NoEntry
SPECIFICATION Spec
INVARIANTS
    StaleEntryIsExplained
    FormerPasswordEndsSessions
    PasswordChangeEndsLinks
    BlockOutlivesAccount
SYMMETRY Symmetry
