SPECIFICATION Spec
CONSTANTS
    Users = {u1, u2}
    Tokens = {k1, k2}
    Tabs = {t1, t2}
    Requests = {r1, r2}
    Private = TRUE
    None = None
SYMMETRY Symmetry
INVARIANTS
    TypeOK
    ShownUserIsTokens
    FormsWaitForSomething
    

    
