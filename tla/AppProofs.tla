----------------------------- MODULE AppProofs ------------------------------
(* Machine-checked facts about App and UserStore: for any table of routes, any users *)
(* and any number of logins under way at once.                                       *)
EXTENDS App, TLAPS

\* Unless a write has failed, the storage was written or emptied as a whole, by whatever
\* tab it was.
WholeOrTorn == "torn" \notin history => \E user \in Users \cup {None} : storage = Of(user)

IInv == TypeOK /\ WholeOrTorn /\ ShownIsSent /\ LoggedOutLeavesNothing

\* The token and the name are items.
LEMMA ItemsHave == "token" \in Items /\ "name" \in Items
<1>1. Keys[1] = "token" /\ Keys[2] = "name" /\ {1, 2} \subseteq DOMAIN Keys
  BY DEF Keys
<1> QED
  BY <1>1 DEF Items, Range

\* The items of one user.
LEMMA OfHas ==
  ASSUME NEW user
  PROVE  /\ Of(user)["token"] = user /\ Of(user)["name"] = user
         /\ user \in Users \cup {None} => Of(user) \in [Items -> Users \cup {None}]
  BY ItemsHave DEF Of

\* In a table like the console's every item of the menu has a route, though the two are
\* read off it by different code (renderMenuItems, renderRoutes).
THEOREM MenuHasRoutes ==
  ASSUME NEW table, WellFormed(table)
  PROVE  MenuItemsOf(table) \subseteq RoutesOf(table)
<1> SUFFICES ASSUME NEW item \in MenuItemsOf(table) PROVE item \in RoutesOf(table)
  OBVIOUS
<1>1. CASE \E e \in table : ~e.hidden /\ e.children = {} /\ item = e.path
  BY <1>1 DEF WellFormed, RoutesOf
<1>2. CASE \E e \in table : \E c \in e.children :
              ~e.hidden /\ ~c.hidden /\ item = Resolve(e.path, c.path)
  <2>1. PICK e \in table : \E c \in e.children :
              ~e.hidden /\ ~c.hidden /\ item = Resolve(e.path, c.path)
    BY <1>2
  <2>2. PICK c \in e.children : item = Resolve(e.path, c.path)
    BY <2>1
  <2>3. ~e.page /\ c.page
    BY <2>2 DEF WellFormed
  <2>4. item \in {Resolve(e.path, d.path) : d \in {d \in e.children : d.page}}
    BY <2>2, <2>3
  <2> QED
    BY <2>3, <2>4 DEF RoutesOf
<1> QED
  BY <1>1, <1>2 DEF MenuItemsOf

\* What App assumes of its table gives the menu's items their routes.
LEMMA MenuItemsHaveRoutes == MenuItems \subseteq Routes
  BY MenuHasRoutes, AppAssumption DEF MenuItems, Routes

\* The paths that the code goes to.
LEMMA PathsHave ==
  /\ {LoginPage, Dashboard, Wizard, Root} \subseteq Routes \cup {Root}
  /\ Routes \cup {Root, Progress} \subseteq Paths
  /\ MenuItems \subseteq Paths
  BY MenuItemsHaveRoutes, AppAssumption DEF Paths

\* The initial state satisfies the inductive invariant.
LEMMA InitIInv == Init => IInv
<1> SUFFICES ASSUME Init PROVE IInv
  OBVIOUS
<1> USE UserStoreAssumption
<1>1. PICK user \in Users \cup {None} : storage = Of(user)
  BY DEF Init, UserInit
<1>2. /\ isLogin = (user # None) /\ currentUser = user /\ history = {}
      /\ login = [l \in Logins |-> None]
  <2>1. storage["token"] = user /\ storage["name"] = user
    BY <1>1, OfHas
  <2>2. isLogin = (user # None)
    BY <2>1, Zenon DEF Init, UserInit
  <2> QED
    BY <2>1, <2>2, Zenon DEF Init, UserInit
<1>3. UserTypeOK
  BY <1>1, <1>2, OfHas DEF UserTypeOK, Strange
<1>4. TypeOK
  <2>1. fullPage \in BOOLEAN /\ crashed \in BOOLEAN
    BY DEF Init
  <2>2. loaded \subseteq Routes /\ coming \subseteq {LoginPage, Dashboard}
    BY DEF Init
  <2>3. step \in 0 .. 3 /\ path \in Paths
    BY DEF Init
  <2>4. form \in {"login", "register"} /\ account \in Users \cup {None}
    BY DEF Init
  <2> QED
    BY <1>3, <2>1, <2>2, <2>3, <2>4 DEF TypeOK
<1>5. WholeOrTorn /\ ShownIsSent /\ LoggedOutLeavesNothing
  BY <1>1, <1>2 DEF WholeOrTorn, ShownIsSent, LoggedOutLeavesNothing
<1> QED
  BY <1>4, <1>5 DEF IInv

\* What is known of the user.
UserInv == UserTypeOK /\ WholeOrTorn /\ ShownIsSent /\ LoggedOutLeavesNothing

\* The user's side of a step of the page.
LEMMA LoadKeeps == UserInv /\ Load => UserInv'
<1> SUFFICES ASSUME UserInv, Load PROVE UserInv'
  OBVIOUS
<1> USE UserStoreAssumption DEF UserInv
<1>1. UserTypeOK'
  <2>1. storage["name"] \in Users \cup {None}
    BY ItemsHave DEF UserTypeOK
  <2> QED
    BY <2>1 DEF UserTypeOK, Load, Strange
<1>2. CASE "torn" \in history
  BY <1>1, <1>2 DEF Load, UserTypeOK, WholeOrTorn, ShownIsSent, LoggedOutLeavesNothing, Strange
<1>3. CASE "torn" \notin history
  <2>1. PICK user \in Users \cup {None} : storage = Of(user)
    BY <1>3 DEF WholeOrTorn
  <2>2. storage' = storage /\ isLogin' = (user # None) /\ currentUser' = user
    BY <2>1, OfHas DEF Load
  <2> QED
    BY <1>1, <2>1, <2>2 DEF WholeOrTorn, ShownIsSent, LoggedOutLeavesNothing
<1> QED
  BY <1>2, <1>3

\* A login that is sent, answered or refused, or whose writes fail half way.
LEMMA LoginKeeps ==
  UserInv /\ (\E l \in Logins : \/ \E user \in Users : Submit(l, user)
                                \/ Fulfilled(l) \/ Rejected(l)
                                \/ \E n \in 1 .. Len(Keys) : Torn(l, n)) => UserInv'
<1> USE UserStoreAssumption DEF UserInv
<1>1. ASSUME UserInv, NEW l \in Logins, NEW user \in Users, Submit(l, user) PROVE UserInv'
  BY <1>1 DEF Submit, UserTypeOK, WholeOrTorn, ShownIsSent, LoggedOutLeavesNothing
<1>2. ASSUME UserInv, NEW l \in Logins, Fulfilled(l) PROVE UserInv'
  <2>1. login[l] \in Users
    BY <1>2 DEF UserTypeOK, Fulfilled
  <2>2. /\ storage' = Of(login[l]) /\ isLogin' = TRUE /\ currentUser' = login[l]
        /\ history' = {} /\ login' = [login EXCEPT ![l] = None]
    BY <1>2 DEF Fulfilled, ShownAfter
  <2>3. UserTypeOK'
    BY <1>2, <2>1, <2>2, OfHas DEF UserTypeOK
  <2> QED
    BY <2>1, <2>2, <2>3 DEF WholeOrTorn, ShownIsSent, LoggedOutLeavesNothing
<1>3. ASSUME UserInv, NEW l \in Logins, Rejected(l) PROVE UserInv'
  <2>1. history' = history \cup {"refused"} /\ isLogin' = FALSE /\ UNCHANGED <<storage, currentUser>>
    BY <1>3 DEF Rejected
  <2>2. UserTypeOK'
    BY <1>3 DEF Rejected, UserTypeOK, Strange
  <2> QED
    BY <1>3, <2>1, <2>2 DEF WholeOrTorn, ShownIsSent, LoggedOutLeavesNothing
<1>4. ASSUME UserInv, NEW l \in Logins, NEW n \in 1 .. Len(Keys), Torn(l, n) PROVE UserInv'
  <2>1. /\ history' = history \cup {"refused", "torn"} /\ isLogin' = FALSE
        /\ currentUser' = currentUser
    BY <1>4 DEF Torn
  <2>2. UserTypeOK'
    BY <1>4, <2>1 DEF Torn, UserTypeOK, Strange
  <2> QED
    BY <2>1, <2>2 DEF WholeOrTorn, ShownIsSent, LoggedOutLeavesNothing
<1> QED
  BY <1>1, <1>2, <1>3, <1>4

\* A logout, here or in another tab.
LEMMA OutKeeps == UserInv /\ (Logout \/ \E user \in Users \cup {None} : OtherTab(user)) => UserInv'
<1> USE UserStoreAssumption DEF UserInv
<1>1. ASSUME UserInv, Logout PROVE UserInv'
  <2>1. storage' = Of(None) /\ isLogin' = FALSE /\ currentUser' = None /\ history' = {}
    BY <1>1 DEF Logout, Removed, Of
  <2>2. UserTypeOK'
    BY <1>1, <2>1, OfHas DEF Logout, UserTypeOK
  <2> QED
    BY <2>1, <2>2 DEF WholeOrTorn, ShownIsSent, LoggedOutLeavesNothing
<1>2. ASSUME UserInv, NEW user \in Users \cup {None}, OtherTab(user) PROVE UserInv'
  <2>1. /\ storage' = Of(user) /\ history' = (history \ {"torn"}) \cup {"foreign"}
        /\ UNCHANGED <<isLogin, currentUser, login>>
    BY <1>2 DEF OtherTab
  <2>2. UserTypeOK'
    BY <1>2, <2>1, OfHas DEF UserTypeOK, Strange
  <2> QED
    BY <2>1, <2>2 DEF WholeOrTorn, ShownIsSent, LoggedOutLeavesNothing
<1> QED
  BY <1>1, <1>2

\* Steps of the page alone.
LEMMA UserStays == UserInv /\ UNCHANGED userVars => UserInv'
  BY DEF UserInv, userVars, UserTypeOK, WholeOrTorn, ShownIsSent, LoggedOutLeavesNothing

\* Where a navigation leads.
LEMMA GoToTypes ==
  ASSUME TypeOK, NEW p \in Paths, GoTo(p)
  PROVE  /\ path' \in Paths /\ step' \in 0 .. 3
         /\ form' \in {"login", "register"} /\ account' \in Users \cup {None}
  BY DEF TypeOK, GoTo

\* What the pages' side of TypeOK says.
PageTypeOK ==
    /\ path \in Paths
    /\ loaded \subseteq Routes
    /\ fullPage \in BOOLEAN
    /\ crashed \in BOOLEAN
    /\ coming \subseteq {LoginPage, Dashboard}
    /\ step \in 0 .. 3
    /\ form \in {"login", "register"}
    /\ account \in Users \cup {None}

\* Browsing.
LEMMA BrowseKeeps == IInv /\ Browse => IInv'
<1> SUFFICES ASSUME IInv, Browse PROVE IInv'
  OBVIOUS
<1> USE DEF IInv
<1>1. ASSUME NEW p \in Paths, Visit(p) PROVE UserInv' /\ PageTypeOK'
  <2>1. UserInv'
    BY <1>1, LoadKeeps DEF Visit, UserInv, TypeOK
  <2>2. /\ path' = p /\ loaded' = {} /\ fullPage' = FALSE /\ crashed' = FALSE
        /\ coming' = {} /\ step' = 0 /\ form' = "login" /\ account' = None
    BY <1>1 DEF Visit
  <2>3. fullPage' \in BOOLEAN /\ crashed' \in BOOLEAN
    BY <2>2
  <2>4. loaded' \subseteq Routes /\ coming' \subseteq {LoginPage, Dashboard}
    BY <2>2
  <2> QED
    BY <2>1, <2>2, <2>3, <2>4 DEF PageTypeOK
<1>2. ASSUME NEW p \in Paths, GoTo(p), UNCHANGED <<userVars, loaded, fullPage, crashed, coming>>
      PROVE  UserInv' /\ PageTypeOK'
  <2>1. UserInv'
    BY <1>2, UserStays DEF UserInv, TypeOK
  <2> QED
    BY <1>2, <2>1, GoToTypes DEF PageTypeOK, TypeOK
<1>3. UserInv' /\ PageTypeOK'
  <2>1. \/ \E p \in Paths : Visit(p)
        \/ \E p \in Paths : GoTo(p) /\ UNCHANGED <<userVars, loaded, fullPage, crashed, coming>>
    <3>1. CASE (\E p \in Paths : Visit(p) \/ Back(p)) \/ \E p \in MenuItems : Menu(p)
      BY <3>1, PathsHave DEF Back, Menu
    <3>2. CASE Logo \/ Home
      BY <3>2, PathsHave DEF Logo, Home
    <3> QED
      BY <3>1, <3>2 DEF Browse
  <2> QED
    BY <1>1, <1>2, <2>1
<1> QED
  BY <1>3 DEF UserInv, PageTypeOK, TypeOK

\* What React does by itself.
LEMMA RenderKeeps == IInv /\ Render => IInv'
<1> SUFFICES ASSUME IInv, Render PROVE IInv'
  OBVIOUS
<1> USE DEF IInv
<1>1. UserInv'
  <2>1. UNCHANGED userVars
    BY DEF Render, Redirect, LoadPage, LoadFails, PageEffect, Arrive
  <2> QED
    BY <2>1, UserStays DEF UserInv, TypeOK
<1>2. PageTypeOK'
  <2>1. CASE Redirect
    BY <2>1, PathsHave, GoToTypes DEF Redirect, local, PageTypeOK, TypeOK
  <2>2. CASE LoadPage \/ LoadFails
    BY <2>2 DEF LoadPage, local, LoadFails, PageTypeOK, TypeOK
  <2>3. CASE PageEffect
    BY <2>3 DEF PageEffect, local, PageTypeOK, TypeOK
  <2>4. ASSUME NEW p \in coming, Arrive(p) PROVE PageTypeOK'
    <3>1. p \in Paths /\ coming' \subseteq {LoginPage, Dashboard}
      BY <2>4, PathsHave DEF Arrive, TypeOK
    <3> QED
      BY <2>4, <3>1, GoToTypes DEF Arrive, PageTypeOK, TypeOK
  <2> QED
    BY <2>1, <2>2, <2>3, <2>4 DEF Render
<1> QED
  BY <1>1, <1>2 DEF UserInv, PageTypeOK, TypeOK

\* Logging in and out.
LEMMA UserKeeps == IInv /\ User => IInv'
<1> SUFFICES ASSUME IInv, User PROVE IInv'
  OBVIOUS
<1> USE DEF IInv
<1>1. UserInv'
  <2>1. UserInv
    BY DEF UserInv, TypeOK
  <2>2. ASSUME NEW l \in Logins, SubmitLogin(l) PROVE \E user \in Users : Submit(l, user)
    BY <2>2 DEF SubmitLogin, TypeOK
  <2> QED
    BY <2>1, <2>2, LoginKeeps, OutKeeps, UserStays
    DEF User, SwitchForm, TypeAccount, LoginSucceeds, LoginFails, ClickLogout, OtherTabs
<1>2. PageTypeOK'
  <2>1. CASE UNCHANGED pageVars
    BY <2>1 DEF pageVars, local, PageTypeOK, TypeOK
  <2>4. CASE SwitchForm \/ \E user \in Users \cup {None} : TypeAccount(user)
    BY <2>4 DEF SwitchForm, TypeAccount, PageTypeOK, TypeOK
  <2>2. ASSUME NEW l \in Logins, LoginSucceeds(l) PROVE PageTypeOK'
    BY <2>2 DEF LoginSucceeds, local, PageTypeOK, TypeOK
  <2>3. CASE ClickLogout
    <3>1. Dashboard \in Paths
      BY PathsHave
    <3>2. coming' \subseteq {LoginPage, Dashboard}
      BY <2>3 DEF ClickLogout, TypeOK
    <3> QED
      BY <2>3, <3>1, <3>2, GoToTypes DEF ClickLogout, PageTypeOK, TypeOK
  <2> QED
    BY <2>1, <2>2, <2>3, <2>4 DEF User, SubmitLogin, LoginFails, OtherTabs
<1> QED
  BY <1>1, <1>2 DEF UserInv, PageTypeOK, TypeOK

\* The wizard.
LEMMA StepsKeep == IInv /\ Steps => IInv'
<1> SUFFICES ASSUME IInv, Steps PROVE IInv'
  OBVIOUS
<1> USE DEF IInv
<1>1. UserInv'
  <2>1. UNCHANGED userVars
    BY DEF Steps, Apply, NextStep, BackStep, AgainStep, CheckProgress
  <2> QED
    BY <2>1, UserStays DEF UserInv, TypeOK
<1>2. PageTypeOK'
  <2>1. CASE Apply \/ NextStep
    BY <2>1 DEF Apply, NextStep, MayGoOn, PageTypeOK, TypeOK
  <2>2. CASE BackStep \/ AgainStep
    BY <2>2 DEF BackStep, AgainStep, PageTypeOK, TypeOK
  <2>3. CASE CheckProgress
    <3>1. Progress \in Paths
      BY DEF Paths
    <3> QED
      BY <2>3, <3>1, GoToTypes DEF CheckProgress, PageTypeOK, TypeOK
  <2> QED
    BY <2>1, <2>2, <2>3 DEF Steps
<1> QED
  BY <1>1, <1>2 DEF UserInv, PageTypeOK, TypeOK

\* Every step keeps the inductive invariant.
LEMMA NextIInv == IInv /\ [Next]_vars => IInv'
<1>1. ASSUME IInv, UNCHANGED vars PROVE IInv'
  <2>1. UserInv'
    BY <1>1, UserStays DEF vars, IInv, UserInv, TypeOK
  <2>2. PageTypeOK'
    BY <1>1 DEF vars, pageVars, local, IInv, PageTypeOK, TypeOK
  <2> QED
    BY <2>1, <2>2 DEF IInv, UserInv, PageTypeOK, TypeOK
<1> QED
  BY <1>1, BrowseKeeps, RenderKeeps, UserKeeps, StepsKeep DEF Next

\* The inductive invariant holds in every reachable state.
THEOREM AppInv == Spec => []IInv
  BY InitIInv, NextIInv, PTL DEF Spec

\* Types.
THEOREM AppTypes == Spec => []TypeOK
  BY AppInv, PTL DEF IInv

\* The user whose token is sent is the one that is shown.
THEOREM AppShown == Spec => []ShownIsSent
  BY AppInv, PTL DEF IInv

\* A tab that is logged out leaves nothing of its user behind.
THEOREM AppLeft == Spec => []LoggedOutLeavesNothing
  BY AppInv, PTL DEF IInv

\* No link of the console leads to a path without a route.
THEOREM AppLinks == Spec => LinksHaveRoutes
<1> DEFINE Fine ==
      path' \notin Routes \cup {Root} =>
          path' = path \/ CheckProgress \/ \E p \in Paths : Visit(p) \/ Back(p)
<1>1. ASSUME IInv, Next, path' \notin Routes \cup {Root}
      PROVE  path' = path \/ CheckProgress \/ \E p \in Paths : Visit(p) \/ Back(p)
  <2> USE <1>1
  <2>1. CASE Browse
    BY <2>1, PathsHave, MenuItemsHaveRoutes DEF Browse, Menu, Logo, Home, GoTo
  <2>2. CASE Render
    <3>1. coming \subseteq Routes
      BY PathsHave, AppAssumption DEF IInv, TypeOK
    <3> QED
      BY <2>2, <3>1, AppAssumption DEF Render, Redirect, LoadPage, LoadFails, PageEffect, Arrive, GoTo
  <2>3. CASE User
    BY <2>3, AppAssumption DEF User, SwitchForm, TypeAccount, SubmitLogin, LoginSucceeds, LoginFails, ClickLogout, OtherTabs,
       pageVars, local, local, GoTo
  <2>4. CASE Steps
    BY <2>4 DEF Steps, Apply, NextStep, BackStep, AgainStep
  <2> QED
    BY <2>1, <2>2, <2>3, <2>4 DEF Next
<1>2. IInv /\ [Next]_vars => [Fine]_vars
  BY <1>1
<1> QED
  BY AppInv, <1>2, PTL DEF Spec, LinksHaveRoutes

\* Slice and storage are of one mind about who is logged in, however many logins overlap.
THEOREM AppSliceFits == Spec => []SliceFitsStorage
<1>1. ShownIsSent /\ LoggedOutLeavesNothing => SliceFitsStorage
  BY DEF SliceFitsStorage
<1> QED
  BY <1>1, AppShown, AppLeft, PTL
=============================================================================
