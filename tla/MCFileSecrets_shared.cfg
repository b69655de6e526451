\* Two writers that share the file and the name of its temporary file.
SPECIFICATION Spec
CONSTANTS
    Writers = {w1, w2}
    Names = {n1, n2}
    Values = {v1}
    Inodes = {i1, i2, i3, i4}
    NoFile = NoFile
    NoRequest = NoRequest
    Torn = Torn
INVARIANT
    LiveFileWhole
SYMMETRY Symmetry
