SPECIFICATION FairSpec
CONSTANTS
    n1 = n1
    n2 = n2
    n3 = n3
    c1 = c1
    c2 = c2
    g1 = g1
    NoName = NoName
    Names = {n1, n2, n3}
    Creators = {c1, c2}
    Getters = {g1}
CHECK_DEADLOCK FALSE
INVARIANTS
    TypeOK
    ActiveIsRegistered
    EndedReleasesKind
PROPERTIES
    KindIsFreed
