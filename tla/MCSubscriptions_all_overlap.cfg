\* Everything overlaps, statements fail and the process crashes.
SPECIFICATION Spec
CONSTANTS
    None = None
    Subs = {s1}
    Clients = {c1, c2}
    Workers = {w1}
    Confs = {hourly}
    ValidCron = {hourly}
    Attached = {s1}
    Fetches = {f1, f2}
    Results <- MCOneNode
    OverlappingEdits = {"create", "update", "delete"}
    RefreshesOverlap = TRUE
    DbErrors = TRUE
    Crashes = TRUE
SYMMETRY MCSymmetry
INVARIANTS NoLeakedEntry
PROPERTIES DeletionIsFinal
