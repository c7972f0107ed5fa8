SPECIFICATION SerialSpec
CONSTANTS
    Users = {u1}
    Md5s = {m1}
    Names = {n1}
    Requests <- AllRequests
    Rank <- StringOrder
    ShareKey = ShareKey
    NoRow = NoRow
    Failed = Failed
    NoReq = NoReq
    MaxRequests = 3
    MaxSqlErrs = 0
    MaxKills = 0
    MaxRedisLosses = 1
    RankStart = 0
    RankCount = 2
INVARIANTS
    RedisHasWholeShare
