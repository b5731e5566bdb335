\* A profile is created with fake_ip false.
SPECIFICATION Spec
CONSTANTS
    None = None
    Profiles = {p1}
    Tokens = {t1}
    Clients = {c1}
    AloneOn = {}
    DbErrors = FALSE
SYMMETRY MCSymmetry
PROPERTIES CreatedAsAsked
