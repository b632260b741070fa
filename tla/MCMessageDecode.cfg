\* The model ends after MaxMessages, or when a copy runs past an array.
CHECK_DEADLOCK FALSE
SPECIFICATION MCSpec
CONSTANTS
    NUM_TOKENS = 5
    QUEUE_SIZE = 10
    BUF = 10
    MaxMessages = 2
    MaxSlips = 1
    Lexemes <- MCLexemes
    Garbage <- MCGarbage
    Stray <- MCStray
INVARIANTS
    DecodeTypeOK
    SizesCountFields
    NumberAsSent
    CommandAsSent
    SpeedsInTheirBytes
    ValueIsThere
    OnlyWhatWasSent
PROPERTY ImplementsNesting
