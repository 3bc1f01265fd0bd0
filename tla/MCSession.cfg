SPECIFICATION Spec
CONSTANTS
    u1 = u1  u2 = u2  r1 = r1  r2 = r2
    Users = {u1, u2}
    Requests = {r1, r2}
    Expired = 2
    MaxTime = 2
    MaxGen = 1
    NoUser = NoUser
    NoToken = NoToken
    Masked = Masked
    NoCookie = NoCookie
SYMMETRY Symmetry
INVARIANTS TypeOK RevokedStaysOut GrantedAsSender RenewalIsSound
PROPERTIES GateSpec
CHECK_DEADLOCK FALSE
