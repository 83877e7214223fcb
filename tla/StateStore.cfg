SPECIFICATION Spec
CONSTANTS
    c1 = c1
    c2 = c2
    r1 = r1
    r2 = r2
    k1 = k1
    m1 = m1
    m2 = m2
    m3 = m3
    m4 = m4
    NoMap = NoMap
    NoRun = NoRun
    Clients = {c1, c2}
    Runs = {r1, r2}
    Maps = {m1, m2, m3, m4}
    Keepers = {k1}
SYMMETRY Symmetric
INVARIANTS
    TypeOK
    AddedStay
    RemovedGone
    KeepersUntouched
