SPECIFICATION Spec
CONSTANTS
    SpeedBytes = {0, 127, 128, 255}
    LineSize = 2
INVARIANTS
    TypeOK
PROPERTIES
    ImplementsBank
