CONSTANTS
    Tabs = {t1, t2}
    Families = {f1}
    Tokens = {j1, j2, j3}
    None = None
    Faults = FALSE
    t1 = t1
    t2 = t2
    f1 = f1
    j1 = j1
    j2 = j2
    j3 = j3
SPECIFICATION Spec
PROPERTY RevokeKillsTheChain
