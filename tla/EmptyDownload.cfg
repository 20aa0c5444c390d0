SPECIFICATION Spec
CONSTANTS
    Files = {f1}
    Slots = {p1, p2}
    None = None
INVARIANT DownloadIsTheBody
