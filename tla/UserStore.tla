----------------------------- MODULE UserStore ------------------------------
(***************************************************************************)
(* Who is logged in, as one tab sees it: the user slice of its redux store *)
(* (modules/user), and the items of localStorage, which it shares with the *)
(* other tabs and which outlive it.  A login writes the items one after    *)
(* the other, and each write may fail; logins may overlap.                 *)
(***************************************************************************)
EXTENDS Integers, Sequences, SequencesExt

CONSTANTS
    Users,
    Logins,     \* slots of logins under way in this tab: a bound
    None        \* no user, an item that is not there, no login

ASSUME UserStoreAssumption == None \notin Users

VARIABLES
    storage,    \* the items of localStorage
    isLogin,
    currentUser,
    login,      \* the user of each login under way
    history     \* bookkeeping: what else may have happened to the storage

userVars == <<storage, isLogin, currentUser, login, history>>

\* The keys, in the order in which a login writes them; the role is written before the id
\* and the owner after it, and nothing is ever made of them.
Keys    == <<"token", "name", "id">>
Items   == Range(Keys)
Strange == {"foreign", "torn", "refused"}

UserTypeOK ==
    /\ storage \in [Items -> Users \cup {None}]
    /\ isLogin \in BOOLEAN
    /\ currentUser \in Users \cup {None}
    /\ login \in [Logins -> Users \cup {None}]
    /\ history \in SUBSET Strange

Of(user) == [i \in Items |-> user]

UserInit ==
    /\ storage \in {Of(user) : user \in Users \cup {None}}
    /\ isLogin = (storage["token"] # None)
    /\ currentUser = storage["name"]
    /\ login = [l \in Logins |-> None]
    /\ history = {}

\* The page is loaded: the slice starts with what the storage holds.
Load ==
    /\ isLogin' = (storage["token"] # None)
    /\ currentUser' = storage["name"]
    /\ login' = [l \in Logins |-> None]
    /\ history' = history \cap {"torn"}
    /\ UNCHANGED storage

\* doLogin is sent; nothing keeps a second one from being sent.
Submit(l, user) ==
    /\ login[l] = None
    /\ login' = [login EXCEPT ![l] = user]
    /\ UNCHANGED <<storage, isLogin, currentUser, history>>

\* Mutant: a second login leaves the user that is shown.
ShownFirst(user) == IF isLogin THEN currentUser ELSE user

ShownAfter(user) == user

Fulfilled(l) ==
    /\ login[l] # None
    /\ storage' = Of(login[l])
    /\ isLogin' = TRUE
    /\ currentUser' = ShownAfter(login[l])
    /\ login' = [login EXCEPT ![l] = None]
    /\ history' = {}

\* The slice of a rejected login forgets that somebody is logged in; the storage does
\* not.
Rejected(l) ==
    /\ login[l] # None
    /\ isLogin' = FALSE
    /\ login' = [login EXCEPT ![l] = None]
    /\ history' = history \cup {"refused"}
    /\ UNCHANGED <<storage, currentUser>>

\* A write fails after n items, of the three or of the other two: what has been written
\* stays.
Torn(l, n) ==
    /\ login[l] # None
    /\ storage' = [i \in Items |->
                      IF \E k \in 1 .. n : Keys[k] = i THEN login[l] ELSE storage[i]]
    /\ isLogin' = FALSE
    /\ login' = [login EXCEPT ![l] = None]
    /\ history' = history \cup {"refused", "torn"}
    /\ UNCHANGED currentUser

\* Mutant: one of the items is not removed.
RemovedButId == {"token", "name"}

Removed == Items

Logout ==
    /\ storage' = [i \in Items |-> IF i \in Removed THEN None ELSE storage[i]]
    /\ isLogin' = FALSE
    /\ currentUser' = None
    /\ history' = {}
    /\ UNCHANGED login

\* Another tab logs in or out.
OtherTab(user) ==
    /\ storage' = Of(user)
    /\ history' = (history \ {"torn"}) \cup {"foreign"}
    /\ UNCHANGED <<isLogin, currentUser, login>>

-----------------------------------------------------------------------------
(* Properties *)

\* The headers of a request (utils/request.ts) come from the storage, what the page
\* shows from the slice.  Unless another tab or a failed write came in between, they
\* are of one user: the one whose token and id are sent is the one that is shown,
\* whatever logins overlapped and in whatever order they were answered.
ShownIsSent ==
    isLogin /\ history \cap {"foreign", "torn"} = {} =>
        currentUser # None /\ storage = Of(currentUser)

\* A tab that is logged out has left nothing in the storage, unless a login was refused
\* since: then an older token is still there, and the next load of the page uses it.
LoggedOutLeavesNothing ==
    ~isLogin /\ history = {} => storage = Of(None)

\* Slice and storage are of one mind about who is logged in.
SliceFitsStorage == ShownIsSent /\ LoggedOutLeavesNothing
=============================================================================
