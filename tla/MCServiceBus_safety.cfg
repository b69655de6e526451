SPECIFICATION Spec
CONSTANTS
    Callers = {c1, c2}
    Messages = {m1, m2}
    Receivers = {r1, r2, r3}
    MaxDeliveries = 2
    MaxMessages = 2
INVARIANT TypeOK
INVARIANT MapsAgree
INVARIANT OneSettlerPerToken
INVARIANT ReceiverOutlivesTokens
INVARIANT NoReceiverLeak
INVARIANT Inv
PROPERTY ImplementsContract
SYMMETRY Symmetry
