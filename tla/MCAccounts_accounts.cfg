\* The changes of user 1's account run one at a time, those of the other overlap.
SPECIFICATION Spec
CONSTANTS
    None = None
    Users = {u1, u2}
    Admin = u1
    Names = {admin, n1, n2}
    AdminName = admin
    Passwords = {w1, w2}
    AdminPassword = w1
    Clients = {c1, c2}
    AloneOn = {u1}
    Registration = TRUE
    FixedSecret = TRUE
    DbErrors = TRUE
SYMMETRY MCSymmetry
INVARIANTS TypeOK AccountsAddUp ServesSeeded
PROPERTIES PasswordsRetire
