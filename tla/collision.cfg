SPECIFICATION Spec
CONSTANTS
    a = a
    b = b
    c = c
    left = left
    Runs = {1, 2}
    Hosts = {a, b}
    DefaultHosts = {a, b}
    Nets = {left}
    Qinq = TRUE
    Absent = Absent
    Torn = Torn
    Foreign = Foreign
    VmidRange = 1
    SuffixRange = 1
    Offset <- MCOffset
    Order <- MCOrder
    Jobs = 2
    ForeignVmids = {}
    PveErrors = TRUE
    QueryErrors = FALSE
    TornRender = FALSE
    TornWrite = FALSE
PROPERTIES
    VnetIsolation
