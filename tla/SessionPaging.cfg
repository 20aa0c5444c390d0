SPECIFICATION Spec
CONSTANTS
    MaxId = 5
    MaxTime = 2
    SESSIONS_PAGE_SIZE = 1
    MAX_SESSIONS_PAGE_SIZE = 2
    Limits <- MCLimits
INVARIANTS TypeOK PagesDescend NothingMissed
CHECK_DEADLOCK FALSE
