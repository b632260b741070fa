SPECIFICATION Spec
CONSTANTS
    QUEUE_SIZE = 1
    Bodies = {"gof", "stop", "raw", "spi1", "error", "other"}
    MaxReceived = 2
INVARIANTS
    TypeOK
    UartOpenedFirst
    TagsKnown
    OnlyPublisherBlocks
