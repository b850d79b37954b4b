SPECIFICATION FairSpec
CONSTANTS
    a = a
    b = b
    c = c
    left = left
    Runs = {1}
    Hosts = {a, b}
    DefaultHosts = {a, b, c}
    Nets = {left}
    Qinq = TRUE
    Absent = Absent
    Torn = Torn
    Foreign = Foreign
    VmidRange = 10
    SuffixRange = 20
    Offset <- MCOffset
    Order <- MCOrder
    Jobs = 1
    ForeignVmids = {}
    PveErrors = TRUE
    QueryErrors = TRUE
    TornRender = TRUE
    TornWrite = TRUE
INVARIANTS
    CreatedMeansReady
    DestroyLeavesNothing
    DestroyReportComplete
PROPERTIES
    ScriptsEnd
