CONSTANTS
    f1 = f1  f2 = f2  f3 = f3
    Threads = {t1, t2}
    Files = {f1, f2, f3}
    NumChunks <- OneOrThree
    OnServer = {f1}
    NoOne = NoOne
    MaxExchanges = 4
    MaxAckTimeouts = 1
    MaxLosses = 1
    MaxLogins = 1
SPECIFICATION FairSpec
CHECK_DEADLOCK FALSE
INVARIANTS TypeOK AnswersBelongInTime UploadUnbroken FilesKeepTheirNames FilesAreWhole
PROPERTIES ExchangesEnd ImplementsFileTransfer
