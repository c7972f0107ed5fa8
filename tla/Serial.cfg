SPECIFICATION SerialSpec
CONSTANTS
    Users = {u1, u2}
    Md5s = {m1}
    Names = {n1, n2}
    Requests <- AllRequests
    Rank <- StringOrder
    ShareKey = ShareKey
    NoRow = NoRow
    Failed = Failed
    NoReq = NoReq
    MaxRequests = 5
    MaxSqlErrs = 0
    MaxKills = 0
    MaxRedisLosses = 1
    RankStart = 0
    RankCount = 2
INVARIANTS
    RefCountExact
    UserCountExact
    UnreferencedWhenDropped
    NoOrphans
    ScoreAtMostDownloads
    BooksInv
    RedisInv
PROPERTIES
    RefillMirrorsShares
    ImplementsFileLibrary
    AnswersAreTrue
