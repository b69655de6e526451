SPECIFICATION Spec
CONSTANTS
    Callers = {c1, c2}
    Messages = {m1, m2}
    MaxDeliveries = 2
    MaxInAll = 3
    MaxMessages = 2
    Topic = TRUE
    Subscription = TRUE
    DeadLetterTopic = TRUE
INVARIANT TypeOK
INVARIANT AcknowledgedNotLost
PROPERTY ForgottenOnlyByPurgeOrClose
PROPERTY ImplementsContract
SYMMETRY Symmetry
