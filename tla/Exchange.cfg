SPECIFICATION FairSpec
CONSTANTS
    Requests = {r1, r2, r3}
    Streams = {r1, r2}
    Sessions = {s1}
    MaxDeltas = 2
    MaxBlocks = 2
    MaxFiles = 1
    None = None
INVARIANTS TypeOK HistoryInOrder AnnouncedIsStored EventOrder FlagTellsMissingFiles
PROPERTY EveryRequestEnds
CHECK_DEADLOCK FALSE
