SPECIFICATION Spec
CONSTANTS
    a = a
    b = b
    c = c
    left = left
    Runs = {1, 2}
    Hosts = {a, b}
    DefaultHosts = {a, b}
    Nets = {left}
    Qinq = FALSE
    Absent = Absent
    Torn = Torn
    Foreign = Foreign
    VmidRange = 10
    SuffixRange = 20
    Offset <- MCOffset
    Order <- MCOrder
    Jobs = 2
    ForeignVmids = {200002}
    PveErrors = TRUE
    QueryErrors = FALSE
    TornRender = FALSE
    TornWrite = FALSE
INVARIANTS
    OwnershipInvariant
    FilesAgree
PROPERTIES
    VmIsolation
    RunStateOfOneRun
    ForeignUntouched
    CreateRerunnable
    ImplementsOwnership
