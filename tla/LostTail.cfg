SPECIFICATION Spec
CONSTANTS
    MaxId = 3
    MaxTime = 1
    SESSIONS_PAGE_SIZE = 1
    MAX_SESSIONS_PAGE_SIZE = 2
    Limits <- MCLimits
INVARIANT CursorWhenMore
CHECK_DEADLOCK FALSE
