SPECIFICATION Spec
CONSTANTS
    QUEUE_SIZE = 3
    DirectReads = {1, 2, 3}
INVARIANTS
    TypeOK
    TurnsKeptUnlessDisturbed
