\* The timers stop after MaxExpired interrupts, and the rover with them.
CHECK_DEADLOCK FALSE
SPECIFICATION MCSpec
CONSTANTS
    QUEUE_SIZE = 2
    Bodies = {"gof", "stop", "raw"}
    MaxReceived = 2
    MaxExpired = 3
INVARIANTS
    StopIsLastWord
PROPERTIES
    ImplementsChannel
