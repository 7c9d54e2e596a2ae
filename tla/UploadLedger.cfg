CONSTANTS
    a = a  b = b
    Conns = {c1, c2}
    Names = {f1}
    Users = {u1, u2}
    Registered = {u1}
    Chunks = {a, b}
    NoBytes = NoBytes
    Data <- LongAndEmpty
    Inodes = {1, 2, 3, 4}
    NoOne = NoOne
    Torn = Torn
    MaxUploads = 2
    MaxActions = 0
    MaxCrashes = 2
SPECIFICATION FairSpec
CHECK_DEADLOCK FALSE
INVARIANTS AckedIsSaved RecordedOnce SavedIsPast OwnersAreRight
PROPERTIES UploadEnds ImplementsReceipts
