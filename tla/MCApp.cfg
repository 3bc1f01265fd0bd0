SPECIFICATION FairSpec
CONSTANTS
    u1 = u1  u2 = u2  l1 = l1  l2 = l2
    Users = {u1, u2}
    Logins = {l1, l2}
    None = None
    Table <- MCTable
    LoginPage <- MCLogin
    Dashboard <- MCDashboard
    Wizard <- MCWizard
    Progress <- MCProgress
    Elsewhere = {}
INVARIANTS TypeOK SliceFitsStorage
PROPERTIES LogoutLands LinksHaveRoutes
