SPECIFICATION OneAtATimeSpec
CONSTANTS
    Users = {u1}
    Md5s = {m1}
    Names = {n1, n2}
    Requests <- LookupRequests
    Rank <- StringOrder
    ShareKey = ShareKey
    NoRow = NoRow
    Failed = Failed
    NoReq = NoReq
    MaxRequests = 4
    MaxSqlErrs = 0
    MaxKills = 0
    MaxRedisLosses = 0
    RankStart = 0
    RankCount = 2
INVARIANTS
    ExitTellsMembership
