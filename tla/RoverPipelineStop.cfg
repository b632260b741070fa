SPECIFICATION FairSpec
CONSTANTS
    QUEUE_SIZE = 1
    Bodies = {"gof", "stop"}
    MaxReceived = 2
PROPERTIES
    StopServed
