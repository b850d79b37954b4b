SPECIFICATION Spec
CONSTANTS
    va = va
    vb = vb
    vc = vc
    redA = redA
    redB = redB
    redC = redC
    greenA = greenA
    greenB = greenB
    blueA = blueA
    None = None
    Faults <- MtuFault
    Vtep <- MCVtep
    Ways <- MCWays
    Dataplane = "linux-vxlan"
    SshErrors = TRUE
    Sessions = 1
    Kills = 0
INVARIANT
    RecoveryRecorded
CHECK_DEADLOCK FALSE
