CONSTANTS
    srv = srv  net = net
    t1 = t1  t2 = t2
    f1 = f1
    Nodes = {srv, net}
    Server = srv
    Peer = net
    Founder = Founder
    Txs = {t1, t2}
    Uploads = {t1}
    Files = {f1}
    FileHash <- SharedContent
    Difficulty <- EqualWork
    MaxWork = 1
    Miner = Miner
    Receiver = Receiver
    Syncs = {s1}
    NoOne = NoOne
    NoFile = NoFile
    Torn = Torn
    MaxPeerBlocks = 2
    MaxCrashes = 1
SPECIFICATION FairSpec
CHECK_DEADLOCK FALSE
INVARIANTS TypeOK ChainIsValid FileFollowsChain
PROPERTIES AnsweredIsKept RunsLongestChain FoundInTheEnd SavedInTheEnd
