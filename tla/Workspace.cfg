SPECIFICATION ViewSpec
CONSTANTS
    Users = {u1, u2, u3}
    Sessions = {s1}
    Files = {f1}
    Slots = {p1, p2, p3}
    MaxChatSessions = 1
    MaxFiles = 1
    Nobody = Nobody
    Removed = Removed
SYMMETRY Symmetry
INVARIANTS
    TypeOK QuotaBound RowsStayWithTheirUser MigrationInv
    DeadlockNeedsLateRow
PROPERTIES ImplementsOwnership EveryAccountLives ConversionKeepsEarlyWork
