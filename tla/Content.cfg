SPECIFICATION Spec
CONSTANTS
    Users = {u1, u2}
    Md5s = {m1}
    Names = {n1}
    Requests <- ContentRequests
    Rank <- StringOrder
    ShareKey = ShareKey
    NoRow = NoRow
    Failed = Failed
    NoReq = NoReq
    MaxRequests = 4
    MaxSqlErrs = 1
    MaxKills = 1
    MaxRedisLosses = 0
    RankStart = 0
    RankCount = 2
SYMMETRY UserSymmetry
INVARIANTS
    TypeOK
    StorageBacksFileInfo
    UserCountPositive
    ZeroCountOnlyWhileDeleting
    RowStaysForDelete
    StorageInv
PROPERTIES
    ImplementsContentStore
