SPECIFICATION FairSpec
CONSTANTS
    l1 = l1  l2 = l2  l3 = l3
    Logins = {l1, l2, l3}
    MainUser = MainUser
    Admin = Admin
    NoName = NoName
    Nil = Nil
    Free = Free
INVARIANTS TypeOK LockDiscipline OutageNeverKept
PROPERTIES KeptIsUsed EveryLoginEnds
