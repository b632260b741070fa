SPECIFICATION MCSpec
CONSTANTS
    Readings = {0, 348}
    MaxHandled = 9
INVARIANTS
    TypeOK
    StopHolds
    ArmCalledOncePerLeg
    LegFromRestSteady
    FreshBaseline
    SpinFromRestSteady
