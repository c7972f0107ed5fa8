SPECIFICATION MCSpec
CONSTANTS
    Users = {u1, u2}
    Nicks = {k1, k2}
    Pwds = {p1, p2}
    Clients = {c1, c2}
    None = None
    Owner = u1
    PageSize = 2
    MaxRegisters = 1
    MaxLogins = 2
    MaxLists = 4
    MaxCuts = 2
    MaxChanges = 2
    MaxSqlErrs = 1
    MaxKills = 1
    MaxExpiries = 1
SYMMETRY Alike
INVARIANTS
    TypeOK
    ListedOnToken
    WalkShowsAll
PROPERTIES
    RegisterTrue
    LoginTrue
    ToldIsStored
