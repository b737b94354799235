SPECIFICATION Spec
CONSTANTS
    Matches = {m1, m2}
    Loads = {r1, r2}
    Saves = {s1, s2}
    None = None
SYMMETRY Symmetry
CONSTRAINT NotCrossed
INVARIANTS
    TypeOK
    MetaIsTheMatchs
PROPERTIES
    EditKeepsTheRest
