CONSTANTS
    n1 = n1  n2 = n2  t1 = t1  server = server
    Nodes = {n1, n2}
    Founder = founder
    Txs = {t1}
    Files = {t1}
    FileHash <- DistinctFiles
    Difficulty <- EqualDifficulty
    MaxWork = 1
    Addresses = {n1, n2, server}
    NodeId <- OneName
    Nobody = nobody
    Host <- ServerIsFirst
    UploadedTo <- AnyNode
    Persistent = {n1, n2}
    Loaded = {n1, n2}
    MaxHeight = 4
    MaxFailures = 0
    MaxConnects = 1
    MaxRestarts = 0
SPECIFICATION Spec
CHECK_DEADLOCK FALSE
PROPERTIES LivePeersKept
