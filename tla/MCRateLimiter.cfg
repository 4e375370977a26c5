SPECIFICATION FairSpec
CONSTANTS
    login = login
    forgot = forgot
    Deferred = {login}
    Immediate = {forgot}
    WithDemo = {login}
    Limit <- SmallLimit
    Block <- SmallBlock
    Window = 2
    i1 = i1
    i2 = i2
    Said <- SmallSaid
    Identifiers = {i1, i2}
    Ip = Ip
    Requests = {r1, r2}
    Nil = Nil
INVARIANTS
    TypeOK
    OvershootBounded
    RateBounded
PROPERTIES
    BlocksLast
    BlocksEnd
