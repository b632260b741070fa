\* A rover that hangs, waits for its user or has lost its broker may stop here: the
\* timer that never does is explored after smooth start-ups only.
CHECK_DEADLOCK FALSE
SPECIFICATION MCSpec
CONSTANTS
    FIRST_WAIT = 1
    RETRY_WAIT = 1
    MaxRetries = 1
    MaxLosses = 1
    MaxPending = 2
    QUEUE_SIZE = 2
    Senders = {teamA, teamB}
    MaxSent = 4
    MaxRequested = 1
INVARIANTS
    CloudTypeOK
    BothBitsMeanOnline
    ConnectedAsAsked
    FlagTellsSession
    LinkBeforeSession
    NumberedOnce
    MissedCountBounds
PROPERTY StartUpEndsOrAsks
