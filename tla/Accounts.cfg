SPECIFICATION Spec
CONSTANTS
    Users = {u1, u2}
    Emails = {e1, e2}
    Slots = {p1, p2}
    Settings <- MCSettings
    DefaultLimit <- MCDefaultLimit
    MaxRows = 2
    None = None
SYMMETRY Symmetry
INVARIANTS TypeOK OneAccountPerEmail SignInsLast ProfileIsCoherent AnonymousStaysLimited
