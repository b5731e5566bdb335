\* One request or cron run at a time on each of two subscriptions, one of which a profile uses; crashes.
SPECIFICATION Spec
CONSTANTS
    None = None
    Subs = {s1, s2}
    Clients = {c1}
    Workers = {w1}
    Confs = {hourly}
    ValidCron = {hourly}
    Attached = {s2}
    Fetches = {f1, f2, f3, f4}
    Results <- MCResults
    OverlappingEdits = {}
    RefreshesOverlap = FALSE
    DbErrors = FALSE
    Crashes = TRUE
SYMMETRY MCSymmetry
INVARIANTS DeletedIsGone
PROPERTIES RefreshReplacesNodes KeepsPromise
