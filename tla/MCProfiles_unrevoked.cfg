\* A revocation overlaps a request that read the token before it.
SPECIFICATION Spec
CONSTANTS
    None = None
    Profiles = {p1}
    Tokens = {t1}
    Clients = {c1, c2}
    AloneOn = {}
    DbErrors = FALSE
SYMMETRY MCSymmetry
PROPERTIES RevokedStaysRevoked
