CONSTANTS
    n1 = n1  n2 = n2  t1 = t1  server = server
    Nodes = {n1, n2}
    Founder = founder
    Txs = {t1, t2}
    Files = {t1, t2}
    FileHash <- DistinctFiles
    Difficulty <- EqualDifficulty
    MaxWork = 1
    Addresses = {n1, n2}
    NodeId <- OwnAddress
    Nobody = nobody
    Host <- ServerIsNobody
    UploadedTo <- AnyNode
    Persistent = {n1, n2}
    Loaded = {n1, n2}
    MaxHeight = 3
    MaxFailures = 0
    MaxConnects = 1
    MaxRestarts = 0
SYMMETRY Symmetry
SPECIFICATION Spec
CHECK_DEADLOCK FALSE
INVARIANTS IndexIsPosition PrefixAgreement
PROPERTIES ImplementsLongestChain
