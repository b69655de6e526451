SPECIFICATION Spec
CONSTANTS
    Callers = {c1, c2}
    Messages = {m1, m2}
    Receivers = {r1, r2}
    MaxDeliveries = 2
    MaxMessages = 2
INVARIANT ReceiverOpenUntilSettled
SYMMETRY Symmetry
