\* One writer, write errors and crashes.
SPECIFICATION Spec
CONSTANTS
    Writers = {w1}
    Names = {n1, n2, n3}
    Values = {v1, v2}
    Inodes = {i1, i2, i3}
    NoFile = NoFile
    NoRequest = NoRequest
    Torn = Torn
INVARIANTS
    TypeOK
    LiveFileWhole
    FileInv
PROPERTY
    ImplementsStore
SYMMETRY Symmetry
