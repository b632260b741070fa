SPECIFICATION Spec
CONSTANTS
    QUEUE_SIZE = 3
    DirectReads = {1}
INVARIANTS
    CountsReachTheirWheel
