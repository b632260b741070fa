SPECIFICATION MCSpec
CONSTANTS
    Readings = {0, 348}
    MaxHandled = 6
PROPERTIES
    CorrectionsReachMotors
