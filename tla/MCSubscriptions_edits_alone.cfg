\* Updates and deletions run alone; refreshes overlap one another and a create;
\* statements fail and the process crashes and starts, with or without timers.
SPECIFICATION FairSpec
CONSTANTS
    None = None
    Subs = {s1}
    Clients = {c1, c2}
    Workers = {w1}
    Confs = {hourly, malformed}
    ValidCron = {hourly}
    Attached = {s1}
    Fetches = {f1, f2, f3}
    Results <- MCOneNode
    OverlappingEdits = {"create"}
    RefreshesOverlap = TRUE
    DbErrors = TRUE
    Crashes = TRUE
INVARIANTS TypeOK CronAgreesWithRows SettingsKept
PROPERTIES KeepsSchedule RefreshedForever
