CONSTANTS
    n1 = n1  n2 = n2  t1 = t1  server = server
    Nodes = {n1, n2}
    Founder = founder
    Txs = {t1}
    Files = {t1}
    FileHash <- DistinctFiles
    Difficulty <- UnequalDifficulty
    MaxWork = 1
    Addresses = {n1, n2, server}
    NodeId <- OneName
    Nobody = nobody
    Host <- ServerIsFirst
    UploadedTo <- AnyNode
    Persistent = {n1}
    Loaded = {n1}
    MaxHeight = 4
    MaxFailures = 1
    MaxConnects = 1
    MaxRestarts = 1
SPECIFICATION Spec
CHECK_DEADLOCK FALSE
INVARIANTS TypeOK ChainsValid IndexIsPosition PrefixAgreement
PROPERTIES ImplementsLongestChain
