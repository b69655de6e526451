SPECIFICATION Spec
CONSTANTS
    Callers = {c1, c2}
    Messages = {m1, m2}
    MaxDeliveries = 2
    MaxInAll = 3
    MaxMessages = 2
    BatchLimit = 2
    ConfiguredURL = NoURL
    PolicyURL = policyURL
    NoURL = NoURL
INVARIANT TypeOK
INVARIANT AcknowledgedNotLost
INVARIANT RetainedUntilSettled
PROPERTY ImplementsContract
SYMMETRY Symmetry
