SPECIFICATION Spec
CONSTANTS
    a = a
    b = b
    c = c
    left = left
    Runs = {1, 2}
    Hosts = {a, b}
    DefaultHosts = {a, b}
    Nets = {left}
    Qinq = TRUE
    Absent = Absent
    Torn = Torn
    Foreign = Foreign
    VmidRange = 10
    SuffixRange = 20
    Offset <- MCOffset
    Order <- MCOrder
    Jobs = 2
    ForeignVmids = {}
    PveErrors = FALSE
    QueryErrors = FALSE
    TornRender = TRUE
    TornWrite = FALSE
PROPERTIES
    VmIsolation
