SPECIFICATION Spec
CONSTANTS
    Files = {f1, f2}
    Slots = {p1, p2, p3}
    None = None
SYMMETRY Symmetry
INVARIANTS TypeOK ReadableFiles OrphansHaveACause
PROPERTIES WholeStaysWhole ImplementsLifecycle
