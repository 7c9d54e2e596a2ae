CONSTANTS
    n1 = n1  n2 = n2  t1 = t1  server = server
    Nodes = {n1, n2}
    Founder = founder
    Txs = {t1, t2}
    Files = {t1, t2}
    FileHash <- DistinctFiles
    Difficulty <- EqualDifficulty
    MaxWork = 1
    Addresses = {n1, server}
    NodeId <- OneName
    Nobody = nobody
    Host <- ServerIsNobody
    UploadedTo <- OneToEach
    Persistent = {n1, n2}
    Loaded = {n1, n2}
    MaxHeight = 4
    MaxFailures = 1
    MaxConnects = 1
    MaxRestarts = 0
SPECIFICATION FairSpec
CHECK_DEADLOCK FALSE
PROPERTIES SubmittedIsMined CatchUp
