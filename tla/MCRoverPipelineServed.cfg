\* The timers stop after MaxExpired interrupts, and the rover with them.
CHECK_DEADLOCK FALSE
SPECIFICATION MCFairSpec
CONSTANTS
    QUEUE_SIZE = 5
    Bodies = {"gof", "stop"}
    MaxReceived = 2
    MaxExpired = 2
PROPERTIES
    StopServed
