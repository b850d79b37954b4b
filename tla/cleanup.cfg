SPECIFICATION Spec
CONSTANTS
    r1 = r1
    r2 = r2
    r3 = r3
    s1 = s1
    s2 = s2
    v1 = v1
    v2 = v2
    Free = Free
    Other = Other
    Nobody = Nobody
    None = None
    Runs = {r1, r2, r3}
    Vmids = {v1, v2}
    Recognised = {v1, v2}
    Networks = {"left"}
    KnownNets = {"left"}
    Suffix <- MCSuffix
    PveErrors = TRUE
SYMMETRY RunSymmetry
INVARIANTS
    TypeOK
    NothingStaleLeft
    StaleRunGone
PROPERTIES
    OwnershipButForStale
    NetworkAfterVms
