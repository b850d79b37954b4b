SPECIFICATION FairSpec
CONSTANTS
    va = va
    vb = vb
    vc = vc
    redA = redA
    redB = redB
    redC = redC
    greenA = greenA
    greenB = greenB
    blueA = blueA
    None = None
    Faults <- MCFaults
    Vtep <- MCVtep
    Ways <- MCWays
    Dataplane = "linux-vxlan"
    SshErrors = TRUE
    Sessions = 2
    Kills = 1
INVARIANTS
    TypeOK
    TestsRestore
    LeaksRecorded
    OutageOfThisFault
    EveryTestRecorded
PROPERTIES
    SessionEnds
CHECK_DEADLOCK FALSE
