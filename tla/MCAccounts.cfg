SPECIFICATION Spec
CONSTANTS
    Names = {u1, u2}
    Me = u1
    Requests = {r1, r2}
    MaxIds = 3
    MaxEntries = 1
    None = None
SYMMETRY Symmetry
INVARIANTS
    TypeOK
    LogNamesActors
    FirstIsAdmin
    LoadingHasCause
