SPECIFICATION SerialSpec
CONSTANTS
    Users = {u1, u2}
    Md5s = {m1}
    Names = {n1}
    Requests <- AllRequests
    Rank <- StringOrder
    ShareKey = ShareKey
    NoRow = NoRow
    Failed = Failed
    NoReq = NoReq
    MaxRequests = 4
    MaxSqlErrs = 0
    MaxKills = 0
    MaxRedisLosses = 0
    RankStart = 0
    RankCount = 2
INVARIANTS
    ShareCountExact
