SPECIFICATION Spec
CONSTANTS
    ha = ha
    hb = hb
    hc = hc
    access = access
    under = under
    NoVlan = NoVlan
    Nics <- MCNics
    Sources <- MCSources
INVARIANTS
    ExpectedVnisConfigured
CHECK_DEADLOCK FALSE
