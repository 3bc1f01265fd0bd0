SPECIFICATION FairSpec
CONSTANTS
    u1 = u1  u2 = u2  r1 = r1  r2 = r2
    Users = {u1}
    Requests = {r1, r2}
    Expired = 1
    MaxTime = 1
    MaxGen = 1
    NoUser = NoUser
    NoToken = NoToken
    Masked = Masked
    NoCookie = NoCookie
PROPERTIES EveryRequestEnds
CHECK_DEADLOCK FALSE
