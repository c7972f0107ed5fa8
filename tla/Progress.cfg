SPECIFICATION FairSpec
CONSTANTS
    Users = {u1}
    Md5s = {m1}
    Names = {n1, n2}
    Requests <- RankRequests
    Rank <- StringOrder
    ShareKey = ShareKey
    NoRow = NoRow
    Failed = Failed
    NoReq = NoReq
    MaxRequests = 3
    MaxSqlErrs = 1
    MaxKills = 0
    MaxRedisLosses = 1
    RankStart = 0
    RankCount = 1
PROPERTIES
    Answered
