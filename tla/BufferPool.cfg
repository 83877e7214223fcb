SPECIFICATION FairSpec
CONSTANTS
    g1 = g1
    g2 = g2
    g3 = g3
    Procs <- MCProcs
    MaxPoolSize = 2
INVARIANTS
    TypeOK
    BuffersConserved
    AllocatesOnDemand
PROPERTIES
    NoStallWithinSize
