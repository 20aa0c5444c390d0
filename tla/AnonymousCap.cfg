SPECIFICATION ViewSpec
CONSTANTS
    Users = {u1}
    Sessions = {s1, s2}
    Files = {f1}
    Slots = {p1, p2}
    MaxChatSessions = 1
    MaxFiles = 1
    Nobody = Nobody
    Removed = Removed
INVARIANT AnonymousCap
