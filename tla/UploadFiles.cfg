CONSTANTS
    a = a  b = b
    Conns = {c1, c2}
    Names = {f1}
    Users = {u1}
    Registered = {u1}
    Chunks = {a, b}
    NoBytes = NoBytes
    Data <- ShortAndEmpty
    Inodes = {1, 2, 3, 4, 5, 6, 7}
    NoOne = NoOne
    Torn = Torn
    MaxUploads = 2
    MaxActions = 4
    MaxCrashes = 1
SPECIFICATION Spec
CHECK_DEADLOCK FALSE
INVARIANTS TypeOK AckedIsKept
