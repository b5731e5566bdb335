\* A deletion overlaps a refresh that read the row before it.
SPECIFICATION Spec
CONSTANTS
    None = None
    Subs = {s1}
    Clients = {c1}
    Workers = {w1}
    Confs = {hourly, malformed}
    ValidCron = {hourly}
    Attached = {}
    Fetches = {f1, f2, f3}
    Results <- MCResults
    OverlappingEdits = {"delete"}
    RefreshesOverlap = FALSE
    DbErrors = FALSE
    Crashes = FALSE
SYMMETRY MCSymmetry
INVARIANTS DeletedIsGone
