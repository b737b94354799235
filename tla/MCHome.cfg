SPECIFICATION Spec
CONSTANTS
    Matches = {m1, m2}
    Days = {1, 2}
    Limit = 1
    Refreshes = {r1, r2}
    Deletions = {d1, d2}
    Changes = 1
    None = None
SYMMETRY Symmetry
CONSTRAINTS
    Dated
    Overlaps
INVARIANTS
    TypeOK
    
    SpinnerHasCause
