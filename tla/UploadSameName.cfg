CONSTANTS
    a = a  b = b
    Conns = {c1, c2}
    Names = {f1}
    Users = {u1}
    Registered = {u1}
    Chunks = {a, b}
    NoBytes = NoBytes
    Data <- LongAndShort
    Inodes = {1, 2, 3, 4}
    NoOne = NoOne
    Torn = Torn
    MaxUploads = 2
    MaxActions = 0
    MaxCrashes = 0
SPECIFICATION Spec
CHECK_DEADLOCK FALSE
INVARIANTS FilesAreRecorded
