-------------------------------- MODULE App ---------------------------------
(***************************************************************************)
(* One tab of the console: which of the routes of Router are shown to whom *)
(* (layouts/components), the pages that are loaded when they are first     *)
(* shown, the menu, the header, the login page and the wizard, over the    *)
(* user of UserStore.  A redirection and the effects after a render are    *)
(* steps of their own, and so is a navigation that waits for an await.     *)
(***************************************************************************)
EXTENDS UserStore, Router

CONSTANTS
    Table,      \* entries of a table of routes
    LoginPage,  \* the paths of the login page, of the start page, of the wizard
    Dashboard,  \*   and of what its last step leads to
    Wizard,
    Progress,
    Elsewhere   \* other paths without a route, which somebody may type

Root  == <<>>

Routes    == RoutesOf(Table)
MenuItems == MenuItemsOf(Table)
Paths == Routes \cup {Root, Progress} \cup Elsewhere

ASSUME AppAssumption ==
    /\ {LoginPage, Dashboard, Wizard} \subseteq Routes
    /\ Cardinality({LoginPage, Dashboard, Wizard, Progress, Root}) = 5
    /\ WellFormed(Table)

VARIABLES
    path,       \* the location
    loaded,     \* the pages that have been loaded
    fullPage,   \* isFullPage: the page is shown without menu and header
    crashed,    \* a page could not be loaded: React has taken everything down
    coming,     \* navigations that wait for an await
    step,       \* current, in the wizard
    form,       \* type, in the login page
    account     \* username, in its form: the user it is the name of

local    == <<step, form, account>>
pageVars == <<path, loaded, fullPage, crashed, coming, local>>
vars     == <<userVars, pageVars>>

TypeOK ==
    /\ UserTypeOK
    /\ path \in Paths
    /\ loaded \subseteq Routes
    /\ fullPage \in BOOLEAN
    /\ crashed \in BOOLEAN
    /\ coming \subseteq {LoginPage, Dashboard}
    /\ step \in 0 .. 3
    /\ form \in {"login", "register"}
    /\ account \in Users \cup {None}

Init ==
    /\ UserInit
    /\ path \in Paths
    /\ loaded = {}
    /\ fullPage = FALSE
    /\ crashed = FALSE
    /\ coming = {}
    /\ step = 0
    /\ form = "login"
    /\ account = None

-----------------------------------------------------------------------------
(* Pages *)

\* Mutant: any user that is known opens the pages, logged in or not.
AllowedIfKnown(p) == p = LoginPage \/ isLogin \/ currentUser # None

\* PrivateRoute: the login page is everybody's.
Allowed(p) == p = LoginPage \/ isLogin

\* The page of this path is on the screen.
Shown(p) == path = p /\ p \in loaded /\ Allowed(p) /\ ~crashed

\* A redirection is due: React renders it before the user can act again.
Due == ~crashed /\ (path = Root \/ (path \in Routes /\ ~Allowed(path)))

\* The layout with menu and header.
Framed == ~fullPage /\ ~crashed /\ ~Due

\* A page that is left forgets its state.
GoTo(p) ==
    /\ path' = p
    /\ step' = IF p = path THEN step ELSE 0
    /\ form' = IF p = path THEN form ELSE "login"
    /\ account' = IF p = path THEN account ELSE None

\* A path is typed, or the page reloaded: everything starts again.
Visit(p) ==
    /\ ~Due
    /\ Load
    /\ path' = p
    /\ loaded' = {}
    /\ fullPage' = FALSE
    /\ crashed' = FALSE
    /\ coming' = {}
    /\ step' = 0
    /\ form' = "login"
    /\ account' = None

\* The browser's own buttons.
Back(p) ==
    /\ ~Due
    /\ GoTo(p)
    /\ UNCHANGED <<userVars, loaded, fullPage, crashed, coming>>

Menu(p) ==
    /\ Framed
    /\ GoTo(p)
    /\ UNCHANGED <<userVars, loaded, fullPage, crashed, coming>>

\* The logo of the menu.
Logo ==
    /\ Framed
    /\ GoTo(Root)
    /\ UNCHANGED <<userVars, loaded, fullPage, crashed, coming>>

\* Navigate: from the root, and from a page that is not allowed.
Redirect ==
    /\ Due
    /\ GoTo(IF path = Root THEN Dashboard ELSE LoginPage)
    /\ UNCHANGED <<userVars, loaded, fullPage, crashed, coming>>

\* lazy: the page arrives.
LoadPage ==
    /\ ~crashed
    /\ path \in Routes \ loaded
    /\ Allowed(path)
    /\ loaded' = loaded \cup {path}
    /\ UNCHANGED <<userVars, path, fullPage, crashed, coming, local>>

\* The page does not arrive: no boundary catches the error.
LoadFails ==
    /\ ~crashed
    /\ path \in Routes \ loaded
    /\ Allowed(path)
    /\ crashed' = TRUE
    /\ UNCHANGED <<userVars, path, loaded, fullPage, coming, local>>

\* Page's effect, once it is on the screen: the layout takes another container, in which
\* the page is made anew.
PageEffect ==
    /\ Shown(path)
    /\ fullPage # (path = LoginPage)
    /\ fullPage' = (path = LoginPage)
    /\ step' = 0
    /\ form' = "login"
    /\ account' = None
    /\ UNCHANGED <<userVars, path, loaded, crashed, coming>>

\* A navigation whose await is over.
Arrive(p) ==
    /\ p \in coming
    /\ GoTo(p)
    /\ coming' = coming \ {p}
    /\ UNCHANGED <<userVars, loaded, fullPage, crashed>>

-----------------------------------------------------------------------------
(* Login and logout *)

\* handleSwitchLoginType.  The form to register has no state of the console's: it wants
\* a field ticked that it does not have.
SwitchForm ==
    /\ Shown(LoginPage)
    /\ form' = IF form = "register" THEN "login" ELSE "register"
    /\ account' = None
    /\ UNCHANGED <<userVars, path, loaded, fullPage, crashed, coming, step>>

\* The field of the account is filled in, or cleared.
TypeAccount(user) ==
    /\ Shown(LoginPage)
    /\ form = "login"
    /\ account' = user
    /\ UNCHANGED <<userVars, path, loaded, fullPage, crashed, coming, step, form>>

\* onSubmit of the login form, whose button stays as it is.
SubmitLogin(l) ==
    /\ Shown(LoginPage)
    /\ form = "login"
    /\ account # None
    /\ Submit(l, account)
    /\ UNCHANGED pageVars

\* The page navigates even if it has been left, or shows the other form.
LoginSucceeds(l) ==
    /\ Fulfilled(l)
    /\ coming' = coming \cup {Dashboard}
    /\ UNCHANGED <<path, loaded, fullPage, crashed, local>>

\* A login is refused, or one of its writes fails, the last one (the owner's id) too.
LoginFails(l) ==
    /\ \/ Rejected(l)
       \/ \E n \in 1 .. Len(Keys) : Torn(l, n)
    /\ UNCHANGED pageVars

\* The first entry of the header's drop-down, and clickHandler.
Home ==
    /\ Framed
    /\ GoTo(Dashboard)
    /\ UNCHANGED <<userVars, loaded, fullPage, crashed, coming>>

\* handleLogout; the drop-down's clickHandler takes this entry for its first and goes
\* to the start page, before handleLogout has awaited its dispatch.
ClickLogout ==
    /\ Framed
    /\ Logout
    /\ GoTo(Dashboard)
    /\ coming' = coming \cup {LoginPage}
    /\ UNCHANGED <<loaded, fullPage, crashed>>

OtherTabs ==
    /\ \E user \in Users \cup {None} : OtherTab(user)
    /\ UNCHANGED pageVars

-----------------------------------------------------------------------------
(* The wizard: four steps, which hand "next", "back" and "first" to their page *)

\* Mutant: the last step has a button to go on like the others.
MayGoOnAlways == TRUE

MayGoOn == step < 3

\* The button of the first form goes on whatever its rules say.
Apply ==
    /\ Shown(Wizard)
    /\ step = 0
    /\ step' = 1
    /\ UNCHANGED <<userVars, path, loaded, fullPage, crashed, coming, form, account>>

NextStep ==
    /\ Shown(Wizard)
    /\ step > 0 /\ MayGoOn
    /\ step' = step + 1
    /\ UNCHANGED <<userVars, path, loaded, fullPage, crashed, coming, form, account>>

BackStep ==
    /\ Shown(Wizard)
    /\ step \in {1, 2}
    /\ step' = step - 1
    /\ UNCHANGED <<userVars, path, loaded, fullPage, crashed, coming, form, account>>

AgainStep ==
    /\ Shown(Wizard)
    /\ step = 3
    /\ step' = 0
    /\ UNCHANGED <<userVars, path, loaded, fullPage, crashed, coming, form, account>>

\* onCheck leads to a path without a route.
CheckProgress ==
    /\ Shown(Wizard)
    /\ step = 3
    /\ GoTo(Progress)
    /\ UNCHANGED <<userVars, loaded, fullPage, crashed, coming>>

Browse ==
    \/ \E p \in Paths : Visit(p) \/ Back(p)
    \/ \E p \in MenuItems : Menu(p)
    \/ Logo
    \/ Home

Render ==
    \/ Redirect
    \/ LoadPage
    \/ LoadFails
    \/ PageEffect
    \/ \E p \in coming : Arrive(p)

User ==
    \/ SwitchForm
    \/ \E user \in Users \cup {None} : TypeAccount(user)
    \/ \E l \in Logins : SubmitLogin(l) \/ LoginSucceeds(l) \/ LoginFails(l)
    \/ ClickLogout
    \/ OtherTabs

Steps == Apply \/ NextStep \/ BackStep \/ AgainStep \/ CheckProgress

Next == Browse \/ Render \/ User \/ Steps

Spec == Init /\ [][Next]_vars

\* React renders, runs effects and goes on after an await without waiting for anybody;
\* users, answers, pages that are loaded and other tabs owe nothing.
Fairness ==
    /\ WF_vars(Redirect)
    /\ WF_vars(PageEffect)
    /\ \A p \in {LoginPage, Dashboard} : WF_vars(Arrive(p))

FairSpec == Spec /\ Fairness

-----------------------------------------------------------------------------
(* Properties *)

\* Whoever is logged out, by the header or by a refused login, ends at the login page,
\* though a logout navigates twice and the guard of the pages once more; if not, the
\* path is none of the console's or the page could not be loaded.
LogoutLands ==
    ~isLogin ~> isLogin \/ crashed \/ path = LoginPage \/ path \notin Routes \cup {Root}

\* The menu, the logo, redirections and the code lead to paths that have a route: only
\* typing, the browser's buttons and the link at the end of the wizard lead elsewhere,
\* where nothing is rendered below the header.
LinksHaveRoutes ==
    [][path' \notin Routes \cup {Root} =>
          path' = path \/ CheckProgress \/ \E p \in Paths : Visit(p) \/ Back(p)]_vars
=============================================================================
