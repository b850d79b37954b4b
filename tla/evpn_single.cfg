SPECIFICATION FairSpec
CONSTANTS
    va = va
    vb = vb
    vc = vc
    vd = vd
    VTEPs = {va, vb, vc}
    Peering = "route_reflector"
    RouteReflectors = {va}
    MaxFaults = 4
INVARIANTS
    RoutesJustified
    ShutPeerMeansOutage
PROPERTIES
    Recovers
CHECK_DEADLOCK FALSE
