CONSTANTS
    Tabs = {t1, t2}
    Families = {f1, f2}
    Tokens = {j1, j2, j3, j4}
    None = None
    Faults = TRUE
    t1 = t1
    t2 = t2
    f1 = f1
    f2 = f2
    j1 = j1
    j2 = j2
    j3 = j3
    j4 = j4
SPECIFICATION Spec
SYMMETRY SessionSymmetry
INVARIANTS OneWayOn SingleUse FamilyNamesItsToken LogoutEndsTheLogin
