SPECIFICATION FairSpec
CONSTANTS
    threadFxn0 = threadFxn0
    threadFxn2 = threadFxn2
    Threads <- MCThreads
    Initialiser = threadFxn2
    QUEUE_SIZE = 2
INVARIANTS
    TypeOK
    OneChipSelected
    TransferUndisturbed
    NeverRefused
    TokenNeverLost
PROPERTIES
    EveryCallServed
    ImplementsPort
