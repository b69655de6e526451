\* Two callers, two calls each.
SPECIFICATION Spec
CONSTANTS
    Configs <- MCConfigs
    Callers = {c1, c2}
    MaxCalls = 2
INVARIANTS
    TypeOK
    TimeoutNotShared
    CliOnlyAfterDeadline
PROPERTIES
    CredentialAsConfigured
    TLSAsAsked
    FirestoreURIComplete
    CallsReturn
CHECK_DEADLOCK FALSE
