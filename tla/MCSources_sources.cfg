\* A subscription, a group and a profile, two requests and a build at a time.
SPECIFICATION Spec
CONSTANTS
    None = None
    Subs = {s1}
    Groups = {g1}
    Profiles = {p1}
    Clients = {c1, c2}
    DbErrors = TRUE
SYMMETRY MCSymmetry
INVARIANTS TypeOK StayingSourcesServed ServedSourcesAttached
PROPERTIES SourceDeletionIsFinal
