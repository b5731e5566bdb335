\* Creates, updates and refreshes overlap; nothing crashes and no statement fails.
SPECIFICATION Spec
CONSTANTS
    None = None
    Subs = {s1}
    Clients = {c1, c2}
    Workers = {w1}
    Confs = {hourly}
    ValidCron = {hourly}
    Attached = {}
    Fetches = {f1, f2, f3, f4}
    Results <- MCTwoNodes
    OverlappingEdits = {"create", "update"}
    RefreshesOverlap = TRUE
    DbErrors = FALSE
    Crashes = FALSE
SYMMETRY MCSymmetry
INVARIANTS NoBatchTorn DeletedIsGone
