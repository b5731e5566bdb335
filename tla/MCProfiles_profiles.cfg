\* Changes of p1 run alone on it, those of p2 overlap; statements fail.
SPECIFICATION Spec
CONSTANTS
    None = None
    Profiles = {p1, p2}
    Tokens = {t1, t2}
    Clients = {c1, c2}
    AloneOn = {p1}
    DbErrors = TRUE
SYMMETRY MCSlots
INVARIANTS TypeOK UpdatesAddUp NoOrphans
PROPERTIES RevocationIsFinal ProfileDeletionIsFinal ServedToHolders KeepsGrants
