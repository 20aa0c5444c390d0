SPECIFICATION Spec
CONSTANTS
    Sessions = {s1, s2}
    Files = {f1, f2}
    SessionLimit = 1
    FileLimit = 1
    None = None
INVARIANTS TypeOK BlameIsRight MalformedIs400 NoEmptySession
PROPERTY ListTellsTheTruth
