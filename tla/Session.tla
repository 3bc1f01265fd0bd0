------------------------------ MODULE Session ------------------------------
(***************************************************************************)
(* The login session of the console: what handlers/proxy.go and            *)
(* handlers/authority.go do with the "jwt" cookie, the x-polaris-user      *)
(* header and the Authorization header, between browser tabs that share    *)
(* one cookie jar and one localStorage, and a backend that may change a    *)
(* user's token at any moment.                                             *)
(*                                                                         *)
(* The console keeps nothing between two requests: the session IS the      *)
(* cookie.  Each handler is split where another actor can act: before and  *)
(* after every call to the backend, and on the way back to the browser.    *)
(***************************************************************************)
EXTENDS Integers, FiniteSets

CONSTANTS
    Users,      \* user ids known to the backend
    Requests,   \* slots of concurrently outstanding HTTP requests
    Expired,    \* WebServer.JWT.Expired, in ticks
    MaxTime,    \* bound: the clock stops here
    MaxGen,     \* bound: token resets per user
    NoUser,     \* the empty user id
    NoToken,    \* an absent Authorization header
    Masked,     \* the "******" the login response carries instead of the token
    NoCookie    \* no jwt cookie

Token  == [user : Users, gen : 0..MaxGen]
Cookie == [user : Users, token : Token, exp : 0..(MaxTime + Expired)]

ASSUME SessionAssumption ==
    /\ Expired \in Nat \ {0}
    /\ MaxTime \in Nat
    /\ MaxGen \in Nat
    /\ NoUser \notin Users
    /\ NoToken \notin Token
    /\ Masked \notin Token
    /\ NoCookie \notin Cookie

VARIABLES
    now,        \* the clock, in ticks of the JWT's one second resolution
    gen,        \* [Users -> Nat]: generation of each user's token at the backend
    jar,        \* the browser's jwt cookie
    store,      \* localStorage["login-user-id"]; polaris_token is set with it
    pc,         \* where each request is
    req,        \* each request's headers and the handler's locals
    setCookie   \* the Set-Cookie header of each request's response

vars == <<now, gen, jar, store, pc, req, setCookie>>

Stages == {"idle", "parse", "check", "refresh", "forward", "login", "reply", "settle"}

\* The stages in which a goroutine of the console holds the request.
InConsole == {"parse", "check", "refresh", "forward", "login"}

(***************************************************************************)
(* A request.  "by" is x-polaris-user as the browser sent it, "hdr" the    *)
(* same header as the handlers leave it, "auth" the Authorization header,  *)
(* "jwt" the cookie it was sent with, "id" the userID the handler will     *)
(* renew the cookie for, "verdict" what the handlers decided.  "bar" is    *)
(* bookkeeping for the properties: the generation of the user's token when *)
(* the request left the browser.                                           *)
(***************************************************************************)
Request ==
    [ kind    : {"server", "login"},
      by      : Users \cup {NoUser},
      hdr     : Users \cup {NoUser},
      auth    : Token \cup {NoToken, Masked},
      jwt     : Cookie \cup {NoCookie},
      id      : Users \cup {NoUser},
      verdict : {"none", "refused", "denied", "checked"},
      bar     : 0..MaxGen ]

Blank ==
    [ kind |-> "server", by |-> NoUser, hdr |-> NoUser, auth |-> NoToken,
      jwt |-> NoCookie, id |-> NoUser, verdict |-> "none", bar |-> 0 ]

Current(u) == [user |-> u, gen |-> gen[u]]

TypeOK ==
    /\ now \in 0..MaxTime
    /\ gen \in [Users -> 0..MaxGen]
    /\ jar \in Cookie \cup {NoCookie}
    /\ store \in Users \cup {NoUser}
    /\ pc \in [Requests -> Stages]
    /\ req \in [Requests -> Request]
    /\ setCookie \in [Requests -> Cookie \cup {NoCookie}]

Init ==
    /\ now = 0
    /\ gen = [u \in Users |-> 0]
    /\ jar = NoCookie
    /\ store = NoUser
    /\ pc = [r \in Requests |-> "idle"]
    /\ req = [r \in Requests |-> Blank]
    /\ setCookie = [r \in Requests |-> NoCookie]

-----------------------------------------------------------------------------
(* The browser *)

BarOf(u) == IF u = NoUser THEN 0 ELSE gen[u]

Leave(r, stage, request) ==
    /\ pc[r] = "idle"
    /\ pc' = [pc EXCEPT ![r] = stage]
    /\ req' = [req EXCEPT ![r] = request]
    /\ UNCHANGED <<now, gen, jar, store, setCookie>>

\* A page of some tab calls the API: the headers come from localStorage, the
\* cookie from the jar, both as they are now.  The jar is not emptied by a
\* logout, so a request may leave with a cookie and no user header.
Send(r) ==
    Leave(r, "parse",
          [Blank EXCEPT !.by = store, !.hdr = store, !.jwt = jar, !.bar = BarOf(store),
                        !.auth = IF store = NoUser THEN NoToken ELSE Masked])

\* A client without a browser presents its own copy of a token, no cookie.
SendToken(r, u, t) ==
    /\ t.gen =< gen[t.user]
    /\ Leave(r, "parse",
             [Blank EXCEPT !.by = u, !.hdr = u, !.auth = t, !.bar = gen[u]])

\* The login form is submitted for user u.
SendLogin(r, u) ==
    Leave(r, "login", [Blank EXCEPT !.kind = "login", !.by = u, !.bar = gen[u]])

\* The reply reaches the browser: the network stack stores the cookie before
\* any script runs.  A login then still has to fill localStorage.
Deliver(r) ==
    /\ pc[r] = "reply"
    /\ jar' = IF setCookie[r] = NoCookie THEN jar ELSE setCookie[r]
    /\ IF req[r].kind = "login" /\ req[r].verdict = "checked"
       THEN /\ pc' = [pc EXCEPT ![r] = "settle"]
            /\ UNCHANGED req
       ELSE /\ pc' = [pc EXCEPT ![r] = "idle"]
            /\ req' = [req EXCEPT ![r] = Blank]
    /\ setCookie' = [setCookie EXCEPT ![r] = NoCookie]
    /\ UNCHANGED <<now, gen, store>>

\* The login thunk writes the localStorage keys.
Settle(r) ==
    /\ pc[r] = "settle"
    /\ store' = req[r].id
    /\ pc' = [pc EXCEPT ![r] = "idle"]
    /\ req' = [req EXCEPT ![r] = Blank]
    /\ UNCHANGED <<now, gen, jar, setCookie>>

\* The browser gave up (axios timeout, closed tab) or the connection broke.
LoseReply(r) ==
    /\ pc[r] = "reply"
    /\ pc' = [pc EXCEPT ![r] = "idle"]
    /\ req' = [req EXCEPT ![r] = Blank]
    /\ setCookie' = [setCookie EXCEPT ![r] = NoCookie]
    /\ UNCHANGED <<now, gen, jar, store>>

\* The logout reducer clears localStorage, and leaves the cookie.
Logout ==
    /\ store # NoUser
    /\ store' = NoUser
    /\ UNCHANGED <<now, gen, jar, pc, req, setCookie>>

\* The cookie's MaxAge runs from its delivery, so the browser drops it some
\* time after the JWT inside has expired.
EvictCookie ==
    /\ jar # NoCookie
    /\ jar.exp =< now
    /\ jar' = NoCookie
    /\ UNCHANGED <<now, gen, store, pc, req, setCookie>>

-----------------------------------------------------------------------------
(* The console *)

\* Mutant: a renewal gives half the lifetime of a login.
RenewedTooShort(r) ==
    [user |-> req[r].id, token |-> req[r].auth,
     exp |-> now + (IF req[r].jwt = NoCookie THEN Expired ELSE Expired \div 2)]

\* Mutant: the claims take the user from the header, which a login does not set.
RenewedForHeader(r) == [user |-> req[r].hdr, token |-> req[r].auth, exp |-> now + Expired]

\* The JWT refreshJWT signs.  Signing does not fail with HS256 and a key of bytes: the way
\* out for such an error, in verifyAccessPermission and modifyResp, is left out.
Renewed(r) == [user |-> req[r].id, token |-> req[r].auth, exp |-> now + Expired]

Reply(r, request) ==
    /\ pc' = [pc EXCEPT ![r] = "reply"]
    /\ req' = [req EXCEPT ![r] = request]
    /\ UNCHANGED setCookie

\* Mutant: the cookie is renewed before the checks are over.
RejectRenewing(r, why) ==
    /\ pc' = [pc EXCEPT ![r] = "reply"]
    /\ req' = [req EXCEPT ![r].verdict = why]
    /\ setCookie' = IF req[r].id = NoUser THEN setCookie
                    ELSE [setCookie EXCEPT ![r] = Renewed(r)]

\* Mutant: the handler returns to waiting instead of answering.
RejectSilently(r, why) ==
    req' = [req EXCEPT ![r].verdict = why] /\ UNCHANGED <<pc, setCookie>>

Reject(r, why) == Reply(r, [req[r] EXCEPT !.verdict = why])

Proceed(r, stage, request) ==
    /\ pc' = [pc EXCEPT ![r] = stage]
    /\ req' = [req EXCEPT ![r] = request]
    /\ UNCHANGED setCookie

\* Mutant: the comparison of the header with the claims is dropped.
RefusedIfExpired(r) == now >= req[r].jwt.exp

\* What parseJWTThenSetToken refuses: an expired JWT, another user's header.
Refused(r) == now >= req[r].jwt.exp \/ req[r].hdr # req[r].jwt.user

\* No cookie leaves the headers as they were sent; otherwise the request is
\* refused, or the claims replace the headers.
ParseJWTThenSetToken(r) ==
    LET k == req[r].jwt
    IN  /\ pc[r] = "parse"
        /\ \/ k = NoCookie /\ Proceed(r, "check", req[r])
           \/ k # NoCookie /\ Refused(r) /\ Reject(r, "refused")
           \/ /\ k # NoCookie /\ ~Refused(r)
              /\ Proceed(r, "check", [req[r] EXCEPT !.hdr = k.user, !.auth = k.token,
                                                    !.id = k.user])
        /\ UNCHANGED <<now, gen, jar, store>>

\* Mutant: claims the console has signed are trusted without asking.
AuthorizedByClaims(r) == req[r].id # NoUser \/ req[r].auth = Current(req[r].hdr)

\* The backend's answer to GET /user/token holds the very token presented.
Authorized(r) == req[r].auth = Current(req[r].hdr)

\* checkAuthoration, at the instant the backend answers.  It denies a request
\* without user or token, and when the backend cannot be reached or answers
\* with anything but a success.
CheckAuthoration(r) ==
    /\ pc[r] = "check"
    /\ \/ /\ req[r].hdr # NoUser
          /\ req[r].auth # NoToken
          /\ Authorized(r)
          /\ Proceed(r, "refresh", [req[r] EXCEPT !.verdict = "checked"])
       \/ Reject(r, "denied")
    /\ UNCHANGED <<now, gen, jar, store>>

\* refreshJWT: a request that came without a cookie has no userID to renew for.
RefreshJWT(r) ==
    /\ pc[r] = "refresh"
    /\ setCookie' = [setCookie EXCEPT ![r] =
                        IF req[r].id = NoUser \/ req[r].auth = NoToken THEN NoCookie
                        ELSE Renewed(r)]
    /\ pc' = [pc EXCEPT ![r] = IF req[r].kind = "login" THEN "reply" ELSE "forward"]
    /\ UNCHANGED <<now, gen, jar, store, req>>

\* ReverseProxyForServer's proxy: whether the backend answers or a 502 is made
\* up, the response carries the Set-Cookie written before.
Forward(r) ==
    /\ pc[r] = "forward"
    /\ Reply(r, req[r])
    /\ UNCHANGED <<now, gen, jar, store>>

\* ReverseProxyForLogin at the instant the backend answers: a login response
\* names the user and the token, anything else is passed through.
ProxyLogin(r) ==
    /\ pc[r] = "login"
    /\ \/ Proceed(r, "refresh", [req[r] EXCEPT !.id = req[r].by, !.auth = Current(req[r].by),
                                               !.verdict = "checked"])
       \/ Reject(r, "denied")
    /\ UNCHANGED <<now, gen, jar, store>>

\* The console process dies and is started again: its goroutines are lost, and
\* nothing else is, because the signing key is configuration.
RestartConsole ==
    /\ \E r \in Requests : pc[r] \in InConsole
    /\ pc' = [r \in Requests |-> IF pc[r] \in InConsole THEN "idle" ELSE pc[r]]
    /\ req' = [r \in Requests |-> IF pc[r] \in InConsole THEN Blank ELSE req[r]]
    /\ setCookie' = [r \in Requests |-> IF pc[r] \in InConsole THEN NoCookie ELSE setCookie[r]]
    /\ UNCHANGED <<now, gen, jar, store>>

-----------------------------------------------------------------------------
(* The backend and the clock *)

\* An administrator resets or replaces a user's token.
ResetToken(u) ==
    /\ gen[u] < MaxGen
    /\ gen' = [gen EXCEPT ![u] = @ + 1]
    /\ UNCHANGED <<now, jar, store, pc, req, setCookie>>

Tick ==
    /\ now < MaxTime
    /\ now' = now + 1
    /\ UNCHANGED <<gen, jar, store, pc, req, setCookie>>

Console(r) ==
    \/ ParseJWTThenSetToken(r)
    \/ CheckAuthoration(r)
    \/ RefreshJWT(r)
    \/ Forward(r)
    \/ ProxyLogin(r)

Browser(r) ==
    \/ Send(r)
    \/ \E u \in Users, t \in Token : SendToken(r, u, t)
    \/ \E u \in Users : SendLogin(r, u)
    \/ Deliver(r)
    \/ Settle(r)
    \/ LoseReply(r)

Next ==
    \/ \E r \in Requests : Console(r) \/ Browser(r)
    \/ Logout
    \/ EvictCookie
    \/ RestartConsole
    \/ \E u \in Users : ResetToken(u)
    \/ Tick

Spec == Init /\ [][Next]_vars

\* A goroutine that can run does, every call to the backend ends in an answer
\* or an error, and a reply is delivered or lost.  Nobody has to send requests,
\* log in or out, and the clock owes nothing.
FairSpec ==
    Spec /\ \A r \in Requests : WF_vars(Console(r)) /\ WF_vars(Deliver(r) \/ LoseReply(r) \/ Settle(r))
-----------------------------------------------------------------------------
(* Properties *)

Granted(r) == req[r].verdict = "checked"

\* A reset takes effect for every request sent after it: a request that
\* verifyAccessPermission let through holds a token no older than the one its
\* user had when the request left, whatever cookie came with it and however
\* long the handler took between parsing the cookie and asking the backend.
RevokedStaysOut ==
    \A r \in Requests :
        Granted(r) => req[r].auth \in Token /\ req[r].auth.gen >= req[r].bar

\* Shared jar, shared localStorage: a request that was let through acts for the
\* user whose page sent it, also when another tab has logged in as someone else
\* between the writes of the cookie and of localStorage.
GrantedAsSender ==
    \A r \in Requests :
        Granted(r) => req[r].hdr \in {req[r].by, NoUser} /\ req[r].auth.user = req[r].by

\* proxy.go:208, "the jwtToken is renewed only after all checks have passed":
\* a response carries a cookie only for a request that was let through, for the
\* user and the token that were checked.
RenewedOnlyAfterChecks ==
    \A r \in Requests :
        setCookie[r] # NoCookie =>
            /\ Granted(r)
            /\ setCookie[r].user = req[r].by
            /\ setCookie[r].token = req[r].auth

\* Being active never costs session time: the cookie a request brings back
\* outlives the one it was sent with, for the same user and token.
RenewalNeverShortens ==
    \A r \in Requests :
        LET old == req[r].jwt  new == setCookie[r]
        IN  old # NoCookie /\ new # NoCookie =>
                new.exp >= old.exp /\ new.user = old.user /\ new.token = old.token

\* What comes back with a reply: no cookie without all the checks, and none that is worth
\* less than the one the request was sent with (refreshJWT, modifyResponse).
RenewalIsSound == RenewedOnlyAfterChecks /\ RenewalNeverShortens

\* Every request ends, granted or not: no branch of the handlers is left
\* without a response.
EveryRequestEnds == \A r \in Requests : pc[r] # "idle" ~> pc[r] = "idle"

\* The console implements the access gate: the instant of the grant is the
\* instant the backend answers checkAuthoration or the login.
GateOf == [r \in Requests |-> IF pc[r] = "idle" THEN "out"
                              ELSE IF Granted(r) THEN "granted" ELSE "asking"]
WhoOf  == [r \in Requests |-> req[r].by]
HeldOf == [r \in Requests |-> IF Granted(r) THEN req[r].auth ELSE NoToken]
Live   == ({jar} \cup {setCookie[r] : r \in Requests}) \ {NoCookie}
CircOf == {k.token : k \in Live}

Gate == INSTANCE AccessGate WITH gate <- GateOf, who <- WhoOf, held <- HeldOf, circ <- CircOf

GateSpec == Gate!Spec
=============================================================================
