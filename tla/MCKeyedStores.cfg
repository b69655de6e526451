\* Two clients of each backend.
SPECIFICATION Spec
CONSTANTS
    Clients = {c1, c2}
    Names = {n1, n2, n3}
    Objects = {o1, o2}
    Backends = {"s3", "azureblob", "awssm", "keyvault", "env"}
    None = None
    Partial = Partial
    Deleted = Deleted
    NoRequest = NoRequest
INVARIANTS
    TypeOK
    NothingLost
    ListSeesWhatStays
    AnsweredWriteStays
PROPERTY
    ImplementsSecretStore
SYMMETRY Symmetry
