SPECIFICATION FairSpec
CONSTANTS
    r1 = r1
    r2 = r2
    ha = ha
    hb = hb
    x1 = x1
    x2 = x2
    x3 = x3
    x4 = x4
    None = None
    Runs = {r1, r2}
    Hosts = {ha, hb}
    Pool <- MCPool
INVARIANTS
    TypeOK
    AddressesOfRun
    CompletedAgrees
PROPERTIES
    AllOrNothing
    CompletedByTestedRun
    WaitEnds
