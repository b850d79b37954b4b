SPECIFICATION Spec
CONSTANTS
    va = va
    vb = vb
    vc = vc
    vd = vd
    VTEPs = {va, vb, vc, vd}
    Peering = "route_reflector"
    RouteReflectors = {va, vb}
    MaxFaults = 2
INVARIANTS
    SettledRoutes
    FaultContained
SYMMETRY DualSymmetry
CHECK_DEADLOCK FALSE
