----------------------------- MODULE AdminLogin -----------------------------
(***************************************************************************)
(* Logins that pass through ReverseProxyForLogin (handlers/proxy.go) at    *)
(* the same time, and the AdminUserGetter they share: before a login is    *)
(* proxied its body is rewritten with the name of the main user, which is  *)
(* looked up at the backend under a lock and kept once it is known.        *)
(***************************************************************************)
EXTENDS Integers, FiniteSets

CONSTANTS
    Logins,     \* slots of concurrent login requests
    MainUser,   \* WebServer.MainUser, when it is configured
    Admin,      \* the name of the backend's main user
    NoName,     \* the empty name
    Nil,        \* AdminUserGetter.user before anything is kept
    Free        \* the lock is not held

Names == {MainUser, Admin, NoName}

ASSUME AdminLoginAssumption ==
    /\ Nil \notin Names
    /\ Admin # NoName
    /\ Free \notin Logins

VARIABLES
    server,     \* the backend: "old" has no lookup API, "fresh" no main user yet, "ready"
    mainUser,   \* the configuration, MainUser or NoName
    lock,       \* AdminUserGetter.lock
    user,       \* AdminUserGetter.user
    pc,         \* where each login is
    owner,      \* the owner each login is sent with
    notFound    \* bookkeeping: the lookup has been answered 404

vars == <<server, mainUser, lock, user, pc, owner, notFound>>

Stages == {"idle", "wait", "locked", "get", "sent", "unsent", "masked", "passed",
           "lookup_panic", "reply_panic", "bad_gateway"}

Over == {"masked", "passed", "lookup_panic", "reply_panic", "bad_gateway"}

TypeOK ==
    /\ server \in {"old", "fresh", "ready"}
    /\ mainUser \in {MainUser, NoName}
    /\ lock \in Logins \cup {Free}
    /\ user \in Names \cup {Nil}
    /\ pc \in [Logins -> Stages]
    /\ owner \in [Logins -> Names]
    /\ notFound \in BOOLEAN

Init ==
    /\ server \in {"old", "fresh", "ready"}
    /\ mainUser \in {MainUser, NoName}
    /\ lock = Free
    /\ user = Nil
    /\ pc = [l \in Logins |-> "idle"]
    /\ owner = [l \in Logins |-> NoName]
    /\ notFound = FALSE

-----------------------------------------------------------------------------
(* GetAdminInfo *)

Goto(l, stage) == pc' = [pc EXCEPT ![l] = stage]

\* Mutant: the name of a user that is nil is read as it is.
NameOfNil(u) == u

\* GetName().GetValue(): the name of no user is empty.
NameOf(u) == IF u = Nil THEN NoName ELSE u

\* The login leaves GetAdminInfo with a name, and goes to the backend under it;
\* an empty name leaves the body's own owner, which the login form never sets.
SendAs(l, name) ==
    /\ Goto(l, "sent")
    /\ owner' = [owner EXCEPT ![l] = name]

Lock(l) ==
    /\ pc[l] = "wait"
    /\ lock = Free
    /\ lock' = l
    /\ Goto(l, "locked")
    /\ UNCHANGED <<server, mainUser, user, owner, notFound>>

\* Mutant: the kept user is forgotten.
NeverKnown == FALSE

Known == user # Nil

\* The user is known: return it.  Otherwise ask the backend, lock in hand.
UseKnown(l) ==
    /\ pc[l] = "locked"
    /\ \/ /\ Known
          /\ SendAs(l, NameOf(user))
          /\ lock' = Free
       \/ /\ ~Known
          /\ Goto(l, "get")
          /\ UNCHANGED <<owner, lock>>
    /\ UNCHANGED <<server, mainUser, user, notFound>>

\* http.Get returns an error and no response: resp.StatusCode is read all the
\* same, the deferred unlock runs while the panic unwinds to gin's Recovery.
GetUnreachable(l) ==
    /\ pc[l] = "get"
    /\ Goto(l, "lookup_panic")
    /\ lock' = Free
    /\ UNCHANGED <<server, mainUser, user, owner, notFound>>

\* Mutant: every failed lookup keeps the configured name.
KeptOnAnyStatus == mainUser

\* What is kept after an answer that is neither 200 nor 404.
KeptOnOtherStatus == user

\* 404, an old backend: the configured name is used, and kept.
GetNotFound(l) ==
    /\ pc[l] = "get"
    /\ server = "old"
    /\ user' = mainUser
    /\ SendAs(l, mainUser)
    /\ lock' = Free
    /\ notFound' = TRUE
    /\ UNCHANGED <<server, mainUser>>

\* Mutant: the lookup is tried again until it succeeds.
LookUpAgain(l) == Goto(l, "get") /\ UNCHANGED owner

Degrade(l) == SendAs(l, mainUser)

\* Any other status: the configured name is used for this login only.
GetOtherStatus(l) ==
    /\ pc[l] = "get"
    /\ user' = KeptOnOtherStatus
    /\ Degrade(l)
    /\ lock' = Free
    /\ UNCHANGED <<server, mainUser, notFound>>

\* Mutant: the lock is not released on the error return.
LockAfterErrorKept(l) == l

LockAfterError(l) == Free

\* 200 with a body that does not parse: the director gives up after it has
\* consumed the body.
GetGarbled(l) ==
    /\ pc[l] = "get"
    /\ server # "old"
    /\ Goto(l, "unsent")
    /\ lock' = LockAfterError(l)
    /\ UNCHANGED <<server, mainUser, user, owner, notFound>>

\* 200: the main user, or none while nobody has created it.
GetUser(l) ==
    /\ pc[l] = "get"
    /\ server # "old"
    /\ user' = IF server = "ready" THEN Admin ELSE Nil
    /\ SendAs(l, NameOf(user'))
    /\ lock' = Free
    /\ UNCHANGED <<server, mainUser, notFound>>

-----------------------------------------------------------------------------
(* ReverseProxyForLogin *)

\* The director reads the body, and starts the lookup unless that fails.
Director(l) ==
    /\ pc[l] = "idle"
    /\ Goto(l, "wait") \/ Goto(l, "unsent")
    /\ UNCHANGED <<server, mainUser, lock, user, owner, notFound>>

\* modifyResp: a login response with a token comes back masked, any other JSON
\* as it is; a login response without one trips the type assertion; what is not
\* JSON, or a request whose body is gone, ends as a bad gateway.
ModifyResp(l) ==
    /\ \/ /\ pc[l] = "sent"
          /\ \E stage \in {"masked", "passed", "reply_panic", "bad_gateway"} : Goto(l, stage)
       \/ /\ pc[l] = "unsent"
          /\ Goto(l, "bad_gateway")
    /\ UNCHANGED <<server, mainUser, lock, user, owner, notFound>>

\* The response is out, the slot can serve another login.
Finish(l) ==
    /\ pc[l] \in Over
    /\ Goto(l, "idle")
    /\ owner' = [owner EXCEPT ![l] = NoName]
    /\ UNCHANGED <<server, mainUser, lock, user, notFound>>

\* The backend is upgraded, or its main user created.
Upgrade ==
    /\ \/ server = "old" /\ server' \in {"fresh", "ready"}
       \/ server = "fresh" /\ server' = "ready"
    /\ UNCHANGED <<mainUser, lock, user, pc, owner, notFound>>

GetAdminInfo(l) ==
    \/ Lock(l)
    \/ UseKnown(l)
    \/ GetUnreachable(l)
    \/ GetNotFound(l)
    \/ GetOtherStatus(l)
    \/ GetGarbled(l)
    \/ GetUser(l)

Next ==
    \/ \E l \in Logins : Director(l) \/ GetAdminInfo(l) \/ ModifyResp(l) \/ Finish(l)
    \/ Upgrade

Spec == Init /\ [][Next]_vars

\* A goroutine that can run does; a call to the backend ends in an answer or an
\* error; sync.RWMutex hands the lock over in turn, so a waiting login gets it.
FairSpec ==
    /\ Spec
    /\ \A l \in Logins :
          /\ WF_vars(GetAdminInfo(l) \/ ModifyResp(l) \/ Finish(l))
          /\ SF_vars(Lock(l))

-----------------------------------------------------------------------------
(* Properties *)

\* The lock is held by exactly the login that is inside GetAdminInfo, and is
\* released on every way out: known, failed, garbled, panicking.  So at most one
\* lookup is in flight.
LockDiscipline == \A l \in Logins : pc[l] \in {"locked", "get"} <=> lock = l

\* The name that is kept is the backend's own, or the configured one after the
\* backend said it has no lookup: an outage or a 5xx is never remembered.
OutageNeverKept == user # Nil => user = Admin \/ (notFound /\ user = mainUser)

\* Once a user is kept it is kept for good, whatever lookups are still under way.
KeptForGood == [][user # Nil => user' = user]_vars

\* Once a user is kept, a login that leaves GetAdminInfo leaves with that user:
\* no login is sent with an answer older than the kept one.
OwnerFollowsKept ==
    [][\A l \in Logins :
          pc'[l] = "sent" /\ pc[l] # "sent" /\ user # Nil => owner'[l] = user]_vars

\* The lookup is done once, as far as anybody can tell: what is kept stays, and later
\* logins are sent with it, whatever the backend says by then (GetAdminInfo).
KeptIsUsed == KeptForGood /\ OwnerFollowsKept

\* Every login that entered the lookup gets an answer, panics of others and a
\* lookup that fails for everyone included.
EveryLoginEnds == \A l \in Logins : pc[l] = "wait" ~> pc[l] \in Over

\* proxy.go:69 says of the branch for a failed lookup that it degrades to the
\* configured name: no failed lookup ends the login.
LookupDegrades == \A l \in Logins : pc[l] # "lookup_panic"
=============================================================================
