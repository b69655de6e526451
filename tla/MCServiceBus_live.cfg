SPECIFICATION FairSpec
CONSTANTS
    Callers = {c1, c2}
    Messages = {m1, m2}
    Receivers = {r1, r2}
    MaxDeliveries = 1
    MaxMessages = 2
PROPERTY DrainedReceiverCloses
