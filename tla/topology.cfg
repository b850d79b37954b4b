SPECIFICATION Spec
CONSTANTS
    ha = ha
    hb = hb
    hc = hc
    access = access
    under = under
    NoVlan = NoVlan
    Nics <- MCNics
    Sources <- MCSources
INVARIANTS
    PeerAddressesAgree
    PlanCovers
    UnderlayNeverBridged
    WorkFitsControlPlane
    TrunkMembersTagged
CHECK_DEADLOCK FALSE
