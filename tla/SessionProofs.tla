--------------------------- MODULE SessionProofs ---------------------------
(* Machine-checked facts about Session, for every value of its constants. *)
EXTENDS Session, TLAPS

(***************************************************************************)
(* The inductive invariant: what each stage of a request knows.            *)
(***************************************************************************)
CookieBound(k) == k # NoCookie => k.exp =< now + Expired

StageInv(r) ==
    /\ pc[r] = "idle" => req[r] = Blank
    /\ pc[r] \in {"idle", "parse", "check", "refresh", "login", "settle"} => setCookie[r] = NoCookie
    /\ pc[r] = "parse" => req[r].kind = "server" /\ req[r].id = NoUser /\ req[r].verdict = "none"
    /\ pc[r] = "check" => req[r].kind = "server" /\ req[r].verdict = "none"
    /\ pc[r] = "login" => req[r].kind = "login" /\ req[r].verdict = "none"
    /\ pc[r] \in {"refresh", "forward"} => req[r].verdict = "checked"

HeaderInv(r) ==
    /\ req[r].by \in Users => req[r].bar =< gen[req[r].by]
    /\ req[r].kind = "server" => req[r].hdr = req[r].by
    /\ req[r].kind = "login" =>
          req[r].by \in Users /\ req[r].hdr = NoUser /\ req[r].jwt = NoCookie
    /\ req[r].id # NoUser => req[r].id = req[r].by

GrantInv(r) ==
    req[r].verdict = "checked" =>
        /\ req[r].by \in Users
        /\ req[r].auth \in Token
        /\ req[r].auth.user = req[r].by
        /\ req[r].auth.gen >= req[r].bar

CookieInv(r) ==
    LET old == req[r].jwt  new == setCookie[r]
    IN  /\ CookieBound(old) /\ CookieBound(new)
        /\ old # NoCookie /\ req[r].id # NoUser => req[r].auth = old.token /\ req[r].id = old.user
        /\ new # NoCookie =>
              /\ req[r].verdict = "checked"
              /\ new.user = req[r].id /\ req[r].id # NoUser
              /\ new.token = req[r].auth
              /\ old # NoCookie => new.exp >= old.exp

RequestInv(r) == StageInv(r) /\ HeaderInv(r) /\ GrantInv(r) /\ CookieInv(r)

IInv == TypeOK /\ CookieBound(jar) /\ \A r \in Requests : RequestInv(r)

-----------------------------------------------------------------------------
(* The initial state, and the types *)

\* The initial state satisfies the inductive invariant.
LEMMA InitIInv == Init => IInv
<1> SUFFICES ASSUME Init PROVE IInv
  OBVIOUS
<1> USE SessionAssumption
<1>1. Blank \in Request
  BY DEF Blank, Request, Cookie, Token
<1>2. TypeOK
  BY <1>1 DEF Init, TypeOK, Stages
<1>3. \A r \in Requests : RequestInv(r)
  BY DEF Init, RequestInv, StageInv, HeaderInv, GrantInv, CookieInv, CookieBound, Blank
<1> QED
  BY <1>2, <1>3 DEF IInv, Init, CookieBound

\* A record with one stage and one request replaced keeps the types.
LEMMA UpdateType ==
    ASSUME TypeOK, NEW r \in Requests, NEW stage \in Stages, NEW request \in Request,
           pc' = [pc EXCEPT ![r] = stage], req' = [req EXCEPT ![r] = request]
    PROVE  pc' \in [Requests -> Stages] /\ req' \in [Requests -> Request]
  BY DEF TypeOK

\* A request with some of its fields replaced is a request: what a page sends, and
\* what the login proxy makes of a login.
LEMMA SendType ==
    ASSUME NEW q \in Request, NEW u \in Users \cup {NoUser}, NEW k \in Cookie \cup {NoCookie},
           NEW b \in 0..MaxGen, NEW a \in Token \cup {NoToken, Masked}
    PROVE  [q EXCEPT !.by = u, !.hdr = u, !.jwt = k, !.bar = b, !.auth = a] \in Request
  BY DEF Request

LEMMA LoginType ==
    ASSUME NEW q \in Request, NEW u \in Users, NEW t \in Token
    PROVE  [q EXCEPT !.id = u, !.auth = t, !.verdict = "checked"] \in Request
  BY DEF Request

\* Every step keeps the types.  RefreshJWT is the one that needs more than the
\* types: the token it signs has been checked.
LEMMA TypeStep == IInv /\ [Next]_vars => TypeOK'
<1> SUFFICES ASSUME IInv, [Next]_vars PROVE TypeOK'
  OBVIOUS
<1> USE SessionAssumption
<1>a. TypeOK
  BY DEF IInv
<1>b. Blank \in Request
  BY DEF Blank, Request, Cookie, Token
<1>1. ASSUME NEW r \in Requests, Send(r) PROVE TypeOK'
  <2> DEFINE q == [Blank EXCEPT !.by = store, !.hdr = store, !.jwt = jar, !.bar = BarOf(store),
                                !.auth = IF store = NoUser THEN NoToken ELSE Masked]
  <2>0. /\ BarOf(store) \in 0..MaxGen
        /\ (IF store = NoUser THEN NoToken ELSE Masked) \in Token \cup {NoToken, Masked}
    BY <1>a DEF BarOf, TypeOK
  <2>1. q \in Request
    BY <2>0, <1>a, <1>b, SendType DEF TypeOK
  <2> QED
    BY <1>1, <1>a, <2>1, UpdateType DEF Send, Leave, TypeOK, Stages
<1>2. ASSUME NEW r \in Requests, NEW u \in Users, NEW t \in Token, SendToken(r, u, t) PROVE TypeOK'
  <2> DEFINE q == [Blank EXCEPT !.by = u, !.hdr = u, !.auth = t, !.bar = gen[u]]
  <2>1. q \in Request
    BY <1>a, <1>b DEF Request, TypeOK
  <2> QED
    BY <1>2, <1>a, <2>1, UpdateType DEF SendToken, Leave, TypeOK, Stages
<1>3. ASSUME NEW r \in Requests, NEW u \in Users, SendLogin(r, u) PROVE TypeOK'
  <2> DEFINE q == [Blank EXCEPT !.kind = "login", !.by = u, !.bar = gen[u]]
  <2>1. q \in Request
    BY <1>a, <1>b DEF Request, TypeOK
  <2> QED
    BY <1>3, <1>a, <2>1, UpdateType DEF SendLogin, Leave, TypeOK, Stages
<1>4. ASSUME NEW r \in Requests, Deliver(r) \/ Settle(r) \/ LoseReply(r) PROVE TypeOK'
  <2>1. CASE Deliver(r)
    <3>1. "settle" \in Stages /\ "idle" \in Stages
      BY DEF Stages
    <3> QED
      BY <2>1, <3>1, <1>a, <1>b DEF Deliver, TypeOK
  <2>2. CASE Settle(r)
    <3>1. "idle" \in Stages /\ req[r].id \in Users \cup {NoUser}
      BY <1>a DEF Stages, TypeOK, Request
    <3> QED
      BY <2>2, <3>1, <1>a, <1>b DEF Settle, TypeOK
  <2>3. CASE LoseReply(r)
    <3>1. "idle" \in Stages
      BY DEF Stages
    <3> QED
      BY <2>3, <3>1, <1>a, <1>b DEF LoseReply, TypeOK
  <2> QED
    BY <1>4, <2>1, <2>2, <2>3
<1>5. ASSUME NEW r \in Requests, ParseJWTThenSetToken(r) PROVE TypeOK'
  <2> DEFINE k == req[r].jwt
             q == [req[r] EXCEPT !.hdr = k.user, !.auth = k.token, !.id = k.user]
  <2>0. /\ req[r] \in Request
        /\ k # NoCookie => k.user \in Users /\ k.token \in Token
    BY <1>a DEF TypeOK, Request, Cookie
  <2>1. k # NoCookie => q \in Request
    BY <2>0 DEF Request
  <2>2. [req[r] EXCEPT !.verdict = "refused"] \in Request
    BY <1>a DEF TypeOK, Request
  <2> QED
    BY <1>5, <1>a, <2>1, <2>2, UpdateType
    DEF ParseJWTThenSetToken, Proceed, Reject, Reply, TypeOK, Stages
<1>6. ASSUME NEW r \in Requests, CheckAuthoration(r) PROVE TypeOK'
  <2>1. /\ [req[r] EXCEPT !.verdict = "denied"] \in Request
        /\ [req[r] EXCEPT !.verdict = "checked"] \in Request
    BY <1>a DEF TypeOK, Request
  <2> QED
    BY <1>6, <1>a, <2>1, UpdateType DEF CheckAuthoration, Proceed, Reject, Reply, TypeOK, Stages
<1>7. ASSUME NEW r \in Requests, RefreshJWT(r) PROVE TypeOK'
  <2>1. req[r].auth \in Token
    BY <1>7 DEF IInv, RequestInv, StageInv, GrantInv, RefreshJWT
  <2>2. req[r].id # NoUser => Renewed(r) \in Cookie
    BY <1>a, <2>1 DEF Renewed, Cookie, TypeOK, Request
  <2> QED
    BY <1>7, <1>a, <2>2 DEF RefreshJWT, TypeOK, Stages
<1>8. ASSUME NEW r \in Requests, Forward(r) PROVE TypeOK'
  BY <1>8, <1>a DEF Forward, Reply, TypeOK, Stages
<1>9. ASSUME NEW r \in Requests, ProxyLogin(r) PROVE TypeOK'
  <2> DEFINE q == [req[r] EXCEPT !.id = req[r].by, !.auth = Current(req[r].by),
                                 !.verdict = "checked"]
  <2>1. req[r].by \in Users
    BY <1>9 DEF IInv, RequestInv, StageInv, HeaderInv, ProxyLogin
  <2>2. Current(req[r].by) \in Token
    BY <2>1, <1>a DEF Current, Token, TypeOK
  <2>3. q \in Request /\ [req[r] EXCEPT !.verdict = "denied"] \in Request
    <3>1. req[r] \in Request
      BY <1>a DEF TypeOK
    <3>2. [req[r] EXCEPT !.verdict = "denied"] \in Request
      BY <3>1 DEF Request
    <3> QED
      BY <2>1, <2>2, <3>1, <3>2, LoginType
  <2> QED
    BY <1>9, <1>a, <2>3, UpdateType DEF ProxyLogin, Proceed, Reject, Reply, TypeOK, Stages
<1>10. ASSUME NEW u \in Users, ResetToken(u) PROVE TypeOK'
  BY <1>10, <1>a DEF ResetToken, TypeOK
<1>11. CASE Logout \/ EvictCookie \/ Tick \/ UNCHANGED vars
  BY <1>11, <1>a DEF Logout, EvictCookie, Tick, vars, TypeOK
<1>12. CASE RestartConsole
  BY <1>12, <1>a, <1>b DEF RestartConsole, TypeOK, Stages
<1> QED
  BY <1>1, <1>2, <1>3, <1>4, <1>5, <1>6, <1>7, <1>8, <1>9, <1>10, <1>11, <1>12
  DEF Next, Console, Browser

-----------------------------------------------------------------------------
(* The inductive step *)

\* A request that a step leaves alone keeps its invariant while the clock and
\* the token generations only grow.
LEMMA FrameInv ==
    ASSUME TypeOK, NEW s \in Requests, RequestInv(s),
           now' \in Nat, now' >= now,
           gen' \in [Users -> Nat], \A u \in Users : gen'[u] >= gen[u],
           pc'[s] = pc[s], req'[s] = req[s], setCookie'[s] = setCookie[s]
    PROVE  RequestInv(s)'
<1> USE SessionAssumption
<1>1. req[s] \in Request /\ setCookie[s] \in Cookie \cup {NoCookie} /\ now \in Nat
  BY DEF TypeOK
<1>2. StageInv(s)' /\ GrantInv(s)'
  BY DEF RequestInv, StageInv, GrantInv
<1>3. HeaderInv(s)'
  BY <1>1 DEF RequestInv, HeaderInv, Request, TypeOK
<1>4. CookieInv(s)'
  BY <1>1 DEF RequestInv, CookieInv, CookieBound, Request, Cookie
<1> QED
  BY <1>2, <1>3, <1>4 DEF RequestInv

\* An idle request satisfies its invariant.
LEMMA BlankInv ==
    ASSUME NEW s \in Requests, pc'[s] = "idle", req'[s] = Blank, setCookie'[s] = NoCookie
    PROVE  RequestInv(s)'
  BY SessionAssumption DEF RequestInv, StageInv, HeaderInv, GrantInv, CookieInv, CookieBound, Blank

\* The requests a step of r leaves alone.
LEMMA OthersInv ==
    ASSUME IInv, NEW r \in Requests, UNCHANGED <<now, gen>>,
           \A s \in Requests \ {r} :
               pc'[s] = pc[s] /\ req'[s] = req[s] /\ setCookie'[s] = setCookie[s],
           RequestInv(r)'
    PROVE  \A s \in Requests : RequestInv(s)'
<1> SUFFICES ASSUME NEW s \in Requests \ {r} PROVE RequestInv(s)'
  OBVIOUS
<1>1. /\ now' \in Nat /\ now' >= now
      /\ gen' \in [Users -> Nat] /\ \A u \in Users : gen'[u] >= gen[u]
  BY SessionAssumption DEF IInv, TypeOK
<1> QED
  BY <1>1, FrameInv DEF IInv

\* A request leaves the browser.
LEMMA LeaveInv ==
    ASSUME IInv, NEW r \in Requests, NEW stage, NEW q \in Request, Leave(r, stage, q),
           \/ stage = "parse" /\ q.kind = "server"
           \/ stage = "login" /\ q.kind = "login" /\ q.by \in Users /\ q.hdr = NoUser
                              /\ q.jwt = NoCookie,
           q.kind = "server" => q.hdr = q.by,
           q.by \in Users => q.bar =< gen[q.by],
           q.id = NoUser, q.verdict = "none", CookieBound(q.jwt)
    PROVE  \A s \in Requests : RequestInv(s)'
<1>1. /\ pc'[r] = stage /\ req'[r] = q /\ setCookie'[r] = NoCookie
      /\ now' = now /\ gen' = gen
  BY DEF Leave, IInv, TypeOK, RequestInv, StageInv
<1>2. StageInv(r)' /\ HeaderInv(r)' /\ GrantInv(r)'
  BY <1>1 DEF StageInv, HeaderInv, GrantInv
<1>3. CookieInv(r)'
  BY <1>1 DEF CookieInv, CookieBound
<1>4. RequestInv(r)'
  BY <1>2, <1>3 DEF RequestInv
<1> QED
  BY <1>1, <1>4, OthersInv DEF Leave, IInv, TypeOK

\* Every step keeps the invariant of every request.
LEMMA RequestStep == IInv /\ [Next]_vars => \A s \in Requests : RequestInv(s)'
<1> SUFFICES ASSUME IInv, [Next]_vars PROVE \A s \in Requests : RequestInv(s)'
  OBVIOUS
<1> USE SessionAssumption
<1> DEFINE Goal == \A s \in Requests : RequestInv(s)'
<1>a. /\ TypeOK /\ now \in Nat /\ \A r \in Requests : req[r] \in Request /\ RequestInv(r)
      /\ Blank \in Request
  BY DEF IInv, TypeOK, Blank, Request, Cookie, Token
<1>1. ASSUME NEW r \in Requests, Send(r) PROVE Goal
  <2> DEFINE q == [Blank EXCEPT !.by = store, !.hdr = store, !.jwt = jar, !.bar = BarOf(store),
                                !.auth = IF store = NoUser THEN NoToken ELSE Masked]
  <2>0. /\ BarOf(store) \in 0..MaxGen
        /\ (IF store = NoUser THEN NoToken ELSE Masked) \in Token \cup {NoToken, Masked}
    BY <1>a DEF BarOf, TypeOK
  <2>1. q \in Request
    BY <2>0, <1>a, SendType DEF TypeOK
  <2>2. /\ q.kind = "server" /\ q.hdr = q.by /\ q.id = NoUser /\ q.verdict = "none"
        /\ q.jwt = jar /\ q.bar = BarOf(store) /\ q.by = store
    BY DEF Blank
  <2>3. store \in Users => BarOf(store) =< gen[store]
    BY <1>a DEF BarOf, TypeOK
  <2> HIDE DEF q
  <2> QED
    BY <1>1, <2>1, <2>2, <2>3, LeaveInv DEF Send, q, IInv
<1>2. ASSUME NEW r \in Requests, NEW u \in Users, NEW t \in Token, SendToken(r, u, t) PROVE Goal
  <2> DEFINE q == [Blank EXCEPT !.by = u, !.hdr = u, !.auth = t, !.bar = gen[u]]
  <2>1. q \in Request
    BY <1>a DEF Request, TypeOK
  <2>2. /\ q.kind = "server" /\ q.hdr = q.by /\ q.id = NoUser /\ q.verdict = "none"
        /\ q.jwt = NoCookie /\ q.bar = gen[u] /\ q.by = u
    BY DEF Blank
  <2>3. gen[u] =< gen[u]
    BY <1>a DEF TypeOK
  <2>4. CookieBound(q.jwt)
    BY <2>2 DEF CookieBound
  <2> HIDE DEF q
  <2> QED
    BY <1>2, <2>1, <2>2, <2>3, <2>4, LeaveInv DEF SendToken, q, IInv
<1>3. ASSUME NEW r \in Requests, NEW u \in Users, SendLogin(r, u) PROVE Goal
  <2> DEFINE q == [Blank EXCEPT !.kind = "login", !.by = u, !.bar = gen[u]]
  <2>1. q \in Request
    BY <1>a DEF Request, TypeOK
  <2>2. /\ q.kind = "login" /\ q.hdr = NoUser /\ q.id = NoUser /\ q.verdict = "none"
        /\ q.jwt = NoCookie /\ q.bar = gen[u] /\ q.by = u
    BY DEF Blank
  <2>3. gen[u] =< gen[u]
    BY <1>a DEF TypeOK
  <2>4. CookieBound(q.jwt)
    BY <2>2 DEF CookieBound
  <2> HIDE DEF q
  <2> QED
    BY <1>3, <2>1, <2>2, <2>3, <2>4, LeaveInv DEF SendLogin, q, IInv
<1>4. ASSUME NEW r \in Requests, Deliver(r) \/ Settle(r) \/ LoseReply(r) PROVE Goal
  <2>1. CASE pc'[r] = "idle"
    <3>1. req'[r] = Blank /\ setCookie'[r] = NoCookie
      BY <1>4, <1>a, <2>1 DEF Deliver, Settle, LoseReply, TypeOK, RequestInv, StageInv
    <3> QED
      BY <1>4, <1>a, <2>1, <3>1, BlankInv, OthersInv DEF Deliver, Settle, LoseReply, TypeOK
  <2>2. CASE pc'[r] # "idle"
    <3>1. /\ pc'[r] = "settle" /\ req'[r] = req[r] /\ setCookie'[r] = NoCookie
          /\ now' = now /\ gen' = gen
      BY <1>4, <1>a, <2>2 DEF Deliver, Settle, LoseReply, TypeOK
    <3>2. StageInv(r)' /\ HeaderInv(r)' /\ GrantInv(r)' /\ CookieInv(r)'
      BY <1>a, <3>1 DEF RequestInv, StageInv, HeaderInv, GrantInv, CookieInv, CookieBound
    <3> QED
      BY <1>4, <1>a, <3>1, <3>2, OthersInv
      DEF Deliver, Settle, LoseReply, TypeOK, RequestInv
  <2> QED
    BY <2>1, <2>2
<1>5. ASSUME NEW r \in Requests, ParseJWTThenSetToken(r) PROVE Goal
  <2> DEFINE k == req[r].jwt
             q == [req[r] EXCEPT !.hdr = k.user, !.auth = k.token, !.id = k.user]
             f == [req[r] EXCEPT !.verdict = "refused"]
  <2>0. /\ req[r].kind = "server" /\ req[r].id = NoUser /\ req[r].verdict = "none"
        /\ setCookie'[r] = NoCookie /\ now' = now /\ gen' = gen
    BY <1>5, <1>a DEF ParseJWTThenSetToken, Proceed, Reject, Reply, RequestInv, StageInv
  <2>1. CASE pc'[r] = "check" /\ req'[r] = req[r]
    <3>1. RequestInv(r)'
      BY <1>a, <2>0, <2>1 DEF RequestInv, StageInv, HeaderInv, GrantInv, CookieInv, CookieBound
    <3> QED
      BY <1>5, <1>a, <3>1, OthersInv DEF ParseJWTThenSetToken, Proceed, Reject, Reply, TypeOK
  <2>2. CASE pc'[r] = "reply" /\ req'[r] = f
    <3>1. RequestInv(r)'
      BY <1>a, <2>0, <2>2
      DEF Request, RequestInv, StageInv, HeaderInv, GrantInv, CookieInv, CookieBound
    <3> QED
      BY <1>5, <1>a, <3>1, OthersInv DEF ParseJWTThenSetToken, Proceed, Reject, Reply, TypeOK
  <2>3. CASE pc'[r] = "check" /\ req'[r] = q /\ k # NoCookie /\ ~Refused(r)
    <3>1. /\ q.hdr = k.user /\ q.auth = k.token /\ q.id = k.user /\ q.kind = "server"
          /\ q.verdict = "none" /\ q.by = req[r].by /\ q.bar = req[r].bar /\ q.jwt = k
      BY <1>a, <2>0 DEF Request
    <3>2. req[r].by = k.user
      BY <1>a, <2>0, <2>3 DEF Refused, RequestInv, HeaderInv
    <3> HIDE DEF q
    <3>3. RequestInv(r)'
      BY <1>a, <2>0, <2>3, <3>1, <3>2
      DEF RequestInv, StageInv, HeaderInv, GrantInv, CookieInv, CookieBound
    <3> QED
      BY <1>5, <1>a, <3>3, OthersInv DEF ParseJWTThenSetToken, Proceed, Reject, Reply, TypeOK
  <2> QED
    BY <1>5, <1>a, <2>1, <2>2, <2>3
    DEF ParseJWTThenSetToken, Proceed, Reject, Reply, TypeOK
<1>6. ASSUME NEW r \in Requests, CheckAuthoration(r) PROVE Goal
  <2> DEFINE d == [req[r] EXCEPT !.verdict = "denied"]
             c == [req[r] EXCEPT !.verdict = "checked"]
  <2>0. /\ req[r].kind = "server" /\ req[r].verdict = "none" /\ setCookie[r] = NoCookie
        /\ setCookie'[r] = NoCookie /\ now' = now /\ gen' = gen
    BY <1>6, <1>a DEF CheckAuthoration, Proceed, Reject, Reply, RequestInv, StageInv
  <2>1. CASE pc'[r] = "reply" /\ req'[r] = d
    <3>1. RequestInv(r)'
      BY <1>a, <2>0, <2>1
      DEF Request, RequestInv, StageInv, HeaderInv, GrantInv, CookieInv, CookieBound
    <3> QED
      BY <1>6, <1>a, <3>1, OthersInv DEF CheckAuthoration, Proceed, Reject, Reply, TypeOK
  <2>2. CASE /\ pc'[r] = "refresh" /\ req'[r] = c /\ req[r].hdr # NoUser
             /\ req[r].auth = Current(req[r].hdr)
    <3>1. /\ req[r].by \in Users /\ req[r].auth = [user |-> req[r].by, gen |-> gen[req[r].by]]
          /\ req[r].bar =< gen[req[r].by]
      BY <1>a, <2>0, <2>2 DEF Current, Request, RequestInv, HeaderInv
    <3>2. req[r].auth \in Token /\ req[r].auth.gen >= req[r].bar /\ req[r].auth.user = req[r].by
      BY <1>a, <3>1 DEF Token, TypeOK, Request
    <3>3. /\ c.verdict = "checked" /\ c.by = req[r].by /\ c.auth = req[r].auth /\ c.id = req[r].id
          /\ c.bar = req[r].bar /\ c.kind = req[r].kind /\ c.hdr = req[r].hdr /\ c.jwt = req[r].jwt
      BY <1>a DEF Request
    <3> HIDE DEF c
    <3>4. RequestInv(r)'
      BY <1>a, <2>0, <2>2, <3>1, <3>2, <3>3
      DEF RequestInv, StageInv, HeaderInv, GrantInv, CookieInv, CookieBound
    <3> QED
      BY <1>6, <1>a, <3>4, OthersInv DEF CheckAuthoration, Proceed, Reject, Reply, TypeOK
  <2> QED
    BY <1>6, <1>a, <2>1, <2>2 DEF CheckAuthoration, Authorized, Proceed, Reject, Reply, TypeOK
<1>7. ASSUME NEW r \in Requests, RefreshJWT(r) PROVE Goal
  <2>0. /\ req[r].verdict = "checked" /\ req'[r] = req[r] /\ now' = now /\ gen' = gen
        /\ pc'[r] \in {"forward", "reply"}
    BY <1>7, <1>a DEF RefreshJWT, RequestInv, StageInv, TypeOK
  <2>1. \/ setCookie'[r] = NoCookie
        \/ req[r].id # NoUser /\ setCookie'[r] = Renewed(r)
    BY <1>7, <1>a DEF RefreshJWT, TypeOK
  <2>2. StageInv(r)' /\ HeaderInv(r)' /\ GrantInv(r)'
    BY <1>a, <2>0 DEF RequestInv, StageInv, HeaderInv, GrantInv
  <2>3. req[r].jwt # NoCookie => req[r].jwt.exp \in Nat /\ req[r].jwt.exp =< now + Expired
    BY <1>a DEF RequestInv, CookieInv, CookieBound, Request, Cookie
  <2>4. CookieInv(r)'
    BY <1>a, <2>0, <2>1, <2>3 DEF RequestInv, CookieInv, CookieBound, Renewed
  <2> QED
    BY <1>7, <1>a, <2>2, <2>4, OthersInv DEF RefreshJWT, TypeOK, RequestInv
<1>8. ASSUME NEW r \in Requests, Forward(r) PROVE Goal
  <2>1. /\ pc'[r] = "reply" /\ req'[r] = req[r] /\ setCookie' = setCookie
        /\ now' = now /\ gen' = gen
    BY <1>8, <1>a DEF Forward, Reply, TypeOK
  <2>2. RequestInv(r)'
    BY <1>a, <2>1 DEF RequestInv, StageInv, HeaderInv, GrantInv, CookieInv, CookieBound
  <2> QED
    BY <1>8, <1>a, <2>2, OthersInv DEF Forward, Reply, TypeOK
<1>9. ASSUME NEW r \in Requests, ProxyLogin(r) PROVE Goal
  <2> DEFINE d == [req[r] EXCEPT !.verdict = "denied"]
             c == [req[r] EXCEPT !.id = req[r].by, !.auth = Current(req[r].by), !.verdict = "checked"]
  <2>0. /\ req[r].kind = "login" /\ req[r].verdict = "none" /\ setCookie'[r] = NoCookie
        /\ setCookie[r] = NoCookie /\ now' = now /\ gen' = gen
        /\ req[r].by \in Users /\ req[r].hdr = NoUser /\ req[r].jwt = NoCookie
        /\ req[r].bar =< gen[req[r].by]
    BY <1>9, <1>a DEF ProxyLogin, Proceed, Reject, Reply, RequestInv, StageInv, HeaderInv
  <2>1. CASE pc'[r] = "reply" /\ req'[r] = d
    <3>1. RequestInv(r)'
      BY <1>a, <2>0, <2>1
      DEF Request, RequestInv, StageInv, HeaderInv, GrantInv, CookieInv, CookieBound
    <3> QED
      BY <1>9, <1>a, <3>1, OthersInv DEF ProxyLogin, Proceed, Reject, Reply, TypeOK
  <2>2. CASE pc'[r] = "refresh" /\ req'[r] = c
    <3>1. /\ c.verdict = "checked" /\ c.by = req[r].by /\ c.id = req[r].by /\ c.bar = req[r].bar
          /\ c.auth = [user |-> req[r].by, gen |-> gen[req[r].by]]
          /\ c.kind = req[r].kind /\ c.hdr = req[r].hdr /\ c.jwt = req[r].jwt
      BY <1>a DEF Request, Current
    <3>2. c.auth \in Token /\ c.auth.gen >= c.bar /\ c.auth.user = c.by
      BY <1>a, <2>0, <3>1 DEF Token, TypeOK, Request
    <3> HIDE DEF c
    <3>3. RequestInv(r)'
      BY <1>a, <2>0, <2>2, <3>1, <3>2
      DEF RequestInv, StageInv, HeaderInv, GrantInv, CookieInv, CookieBound
    <3> QED
      BY <1>9, <1>a, <3>3, OthersInv DEF ProxyLogin, Proceed, Reject, Reply, TypeOK
  <2> QED
    BY <1>9, <1>a, <2>1, <2>2 DEF ProxyLogin, Proceed, Reject, Reply, TypeOK
<1>10. CASE (\E u \in Users : ResetToken(u)) \/ Logout \/ EvictCookie \/ Tick \/ UNCHANGED vars
  <2>1. /\ now' \in Nat /\ now' >= now
        /\ gen' \in [Users -> Nat] /\ \A u \in Users : gen'[u] >= gen[u]
        /\ UNCHANGED <<pc, req, setCookie>>
    BY <1>10, <1>a DEF ResetToken, Logout, EvictCookie, Tick, vars, TypeOK
  <2> QED
    BY <1>a, <2>1, FrameInv
<1>11. CASE RestartConsole
  <2> SUFFICES ASSUME NEW s \in Requests PROVE RequestInv(s)'
    OBVIOUS
  <2>1. CASE pc[s] \in InConsole
    BY <1>11, <2>1, BlankInv DEF RestartConsole
  <2>2. CASE pc[s] \notin InConsole
    <3>1. /\ pc'[s] = pc[s] /\ req'[s] = req[s] /\ setCookie'[s] = setCookie[s]
          /\ now' = now /\ gen' = gen
      BY <1>11, <2>2 DEF RestartConsole
    <3>2. /\ now' \in Nat /\ now' >= now
          /\ gen' \in [Users -> Nat] /\ \A u \in Users : gen'[u] >= gen[u]
      BY <1>a, <3>1 DEF TypeOK
    <3> QED
      BY <1>a, <3>1, <3>2, FrameInv
  <2> QED
    BY <2>1, <2>2
<1> QED
  BY <1>1, <1>2, <1>3, <1>4, <1>5, <1>6, <1>7, <1>8, <1>9, <1>10, <1>11
  DEF Next, Console, Browser

\* The cookie in the jar never promises more than a full lifetime from now.
LEMMA JarStep == IInv /\ [Next]_vars => CookieBound(jar)'
<1> SUFFICES ASSUME IInv, [Next]_vars PROVE CookieBound(jar)'
  OBVIOUS
<1> USE SessionAssumption
<1>1. CASE UNCHANGED jar
  <2>0. UNCHANGED now \/ Tick
    BY DEF Next, Console, Browser, Send, SendToken, SendLogin, Leave, Deliver, Settle, LoseReply,
       ParseJWTThenSetToken, CheckAuthoration, RefreshJWT, Forward, ProxyLogin, ResetToken, Logout,
       EvictCookie, RestartConsole, vars
  <2>1. now' >= now /\ now \in Nat /\ now' \in Nat
    BY <2>0 DEF IInv, TypeOK, Tick
  <2> QED
    BY <1>1, <2>1 DEF IInv, TypeOK, CookieBound, Cookie
<1>2. CASE EvictCookie
  BY <1>2 DEF EvictCookie, CookieBound
<1>3. ASSUME NEW r \in Requests, Deliver(r) PROVE CookieBound(jar)'
  BY <1>3 DEF Deliver, IInv, RequestInv, CookieInv, CookieBound
<1> QED
  BY <1>1, <1>2, <1>3 DEF Next, Console, Browser, Send, SendToken, SendLogin, Leave, Settle,
     LoseReply, ParseJWTThenSetToken, CheckAuthoration, RefreshJWT, Forward, ProxyLogin,
     ResetToken, Logout, Tick, RestartConsole, vars

-----------------------------------------------------------------------------
(* Theorems *)

\* The inductive invariant holds in every reachable state.
THEOREM SessionInv == Spec => []IInv
<1>1. IInv /\ [Next]_vars => IInv'
  BY TypeStep, RequestStep, JarStep DEF IInv
<1> QED
  BY InitIInv, <1>1, PTL DEF Spec

\* Types are right: in particular only checked tokens are ever signed.
THEOREM SessionTypes == Spec => []TypeOK
  BY SessionInv, PTL DEF IInv

\* A token reset takes effect for every request sent after it.
THEOREM SessionRevocation == Spec => []RevokedStaysOut
<1>1. IInv => RevokedStaysOut
  BY DEF IInv, RequestInv, GrantInv, RevokedStaysOut, Granted
<1> QED
  BY SessionInv, <1>1, PTL

\* A request that is let through acts for the user whose page sent it.
THEOREM SessionIdentity == Spec => []GrantedAsSender
<1>1. IInv => GrantedAsSender
  BY DEF IInv, RequestInv, HeaderInv, GrantInv, GrantedAsSender, Granted, TypeOK, Request
<1> QED
  BY SessionInv, <1>1, PTL

\* A cookie is renewed only after all checks, for what was checked.
THEOREM SessionRenewal == Spec => []RenewedOnlyAfterChecks
<1>1. IInv => RenewedOnlyAfterChecks
  BY DEF IInv, RequestInv, HeaderInv, CookieInv, RenewedOnlyAfterChecks, Granted
<1> QED
  BY SessionInv, <1>1, PTL

\* A renewed cookie outlives the one the request was sent with.
THEOREM SessionNeverShortens == Spec => []RenewalNeverShortens
<1>1. IInv => RenewalNeverShortens
  BY DEF IInv, RequestInv, CookieInv, RenewalNeverShortens
<1> QED
  BY SessionInv, <1>1, PTL

-----------------------------------------------------------------------------
(* The refinement of AccessGate *)

\* Sessions disappear: cookies are only dropped or moved.
LEMMA CircShrinks == Live' \subseteq Live => CircOf' \subseteq CircOf
  BY DEF CircOf

\* Requests that end: every other request, and nothing new in circulation.
LEMMA EndStep ==
    ASSUME TypeOK, TypeOK', NEW S \in SUBSET Requests,
           \A s \in S : pc'[s] = "idle" /\ req'[s] = Blank,
           \A s \in Requests \ S :
               /\ req'[s] = req[s]
               /\ pc'[s] = "idle" <=> pc[s] = "idle",
           gen' = gen, Live' \subseteq Live
    PROVE  Gate!End(S)
<1>1. /\ GateOf' = [r \in Requests |-> IF r \in S THEN "out" ELSE GateOf[r]]
      /\ WhoOf' = [r \in Requests |-> IF r \in S THEN NoUser ELSE WhoOf[r]]
      /\ HeldOf' = [r \in Requests |-> IF r \in S THEN NoToken ELSE HeldOf[r]]
  BY DEF GateOf, WhoOf, HeldOf, Granted, Blank
<1> QED
  BY <1>1, CircShrinks DEF Gate!End

\* Every step of the console, its browsers and its backend is a step of the
\* gate or none.
LEMMA GateStep == IInv /\ IInv' /\ [Next]_vars => [Gate!Next]_(Gate!vars)
<1> SUFFICES ASSUME IInv, IInv', [Next]_vars PROVE Gate!Next \/ UNCHANGED Gate!vars
  OBVIOUS
<1> USE SessionAssumption
<1>a. TypeOK /\ TypeOK' /\ \A r \in Requests : RequestInv(r) /\ RequestInv(r)'
  BY DEF IInv
<1>1. ASSUME NEW r \in Requests, NEW stage \in {"parse", "login"}, NEW q, q.verdict = "none",
             q.by \in Users \cup {NoUser}, Leave(r, stage, q)
      PROVE  Gate!Ask(r)
  <2>1. pc[r] = "idle" /\ req[r] = Blank
    BY <1>1, <1>a DEF Leave, RequestInv, StageInv
  <2>a. /\ pc'[r] # "idle" /\ req'[r] = q
        /\ \A s \in Requests \ {r} : pc'[s] = pc[s] /\ req'[s] = req[s]
    BY <1>1, <1>a DEF Leave, TypeOK
  <2>b. ~Granted(r) /\ ~Granted(r)' /\ \A s \in Requests \ {r} : Granted(s)' <=> Granted(s)
    BY <1>1, <2>1, <2>a DEF Granted, Blank
  <2>2. /\ GateOf[r] = "out"
        /\ GateOf' = [GateOf EXCEPT ![r] = "asking"]
        /\ WhoOf' = [WhoOf EXCEPT ![r] = q.by]
        /\ HeldOf' = HeldOf
    BY <2>1, <2>a, <2>b DEF GateOf, WhoOf, HeldOf
  <2>3. CircOf' = CircOf /\ gen' = gen
    BY <1>1 DEF Leave, CircOf, Live
  <2> QED
    BY <1>1, <2>2, <2>3 DEF Gate!Ask
<1>2. ASSUME NEW r \in Requests, Deliver(r) \/ Settle(r) \/ LoseReply(r) PROVE Gate!Next
  <2>1. Live' \subseteq Live
    BY <1>2, <1>a DEF Deliver, Settle, LoseReply, Live, TypeOK
  <2>2. CASE pc'[r] = "idle"
    <3>1. Gate!End({r})
      BY <1>2, <1>a, <2>1, <2>2, EndStep DEF Deliver, Settle, LoseReply, TypeOK
    <3> QED
      BY <3>1 DEF Gate!Next
  <2>3. CASE pc'[r] # "idle"
    <3>1. Gate!End({})
      BY <1>2, <1>a, <2>1, <2>3, EndStep DEF Deliver, Settle, LoseReply, TypeOK
    <3> QED
      BY <3>1 DEF Gate!Next
  <2> QED
    BY <2>2, <2>3
<1>3. ASSUME NEW r \in Requests, pc[r] # "idle", pc'[r] # "idle", req[r].verdict = "none",
             req'[r].verdict \in {"none", "refused", "denied"}, req'[r].by = req[r].by,
             \A s \in Requests \ {r} : pc'[s] = pc[s] /\ req'[s] = req[s],
             UNCHANGED <<gen, jar, setCookie>>
      PROVE  UNCHANGED Gate!vars
  BY <1>3 DEF Gate!vars, GateOf, WhoOf, HeldOf, CircOf, Live, Granted
<1>4. ASSUME NEW r \in Requests, ParseJWTThenSetToken(r) PROVE UNCHANGED Gate!vars
  <2>1. /\ pc[r] # "idle" /\ pc'[r] # "idle" /\ req[r].verdict = "none"
        /\ req'[r].verdict \in {"none", "refused", "denied"} /\ req'[r].by = req[r].by
        /\ \A s \in Requests \ {r} : pc'[s] = pc[s] /\ req'[s] = req[s]
        /\ UNCHANGED <<gen, jar, setCookie>>
    <3>1. /\ pc[r] = "parse" /\ req[r].verdict = "none" /\ req[r] \in Request
          /\ UNCHANGED <<gen, jar, setCookie>>
      BY <1>4, <1>a
      DEF ParseJWTThenSetToken, Proceed, Reject, Reply, RequestInv, StageInv, TypeOK
    <3>2. /\ pc'[r] \in {"check", "reply"}
          /\ \A s \in Requests \ {r} : pc'[s] = pc[s] /\ req'[s] = req[s]
      BY <1>4, <1>a DEF ParseJWTThenSetToken, Proceed, Reject, Reply, TypeOK
    <3>3. \/ req'[r] = req[r]
          \/ req'[r] = [req[r] EXCEPT !.verdict = "refused"]
          \/ req'[r] = [req[r] EXCEPT !.hdr = req[r].jwt.user, !.auth = req[r].jwt.token,
                                      !.id = req[r].jwt.user]
      BY <1>4, <1>a DEF ParseJWTThenSetToken, Proceed, Reject, Reply, TypeOK
    <3>4. req'[r].verdict \in {"none", "refused"} /\ req'[r].by = req[r].by
      BY <3>1, <3>3 DEF Request
    <3> QED
      BY <3>1, <3>2, <3>4
  <2> QED
    BY <2>1, <1>3
<1>5. ASSUME NEW r \in Requests, CheckAuthoration(r) \/ ProxyLogin(r),
             req'[r].verdict # "checked"
      PROVE  UNCHANGED Gate!vars
  <2>1. /\ pc[r] # "idle" /\ pc'[r] # "idle" /\ req[r].verdict = "none"
        /\ req'[r].verdict \in {"none", "refused", "denied"} /\ req'[r].by = req[r].by
        /\ \A s \in Requests \ {r} : pc'[s] = pc[s] /\ req'[s] = req[s]
        /\ UNCHANGED <<gen, jar, setCookie>>
    BY <1>5, <1>a
    DEF CheckAuthoration, ProxyLogin, Proceed, Reject, Reply, RequestInv, StageInv, TypeOK, Request
  <2> QED
    BY <2>1, <1>3
<1>6. ASSUME NEW r \in Requests, CheckAuthoration(r) \/ ProxyLogin(r),
             req'[r].verdict = "checked"
      PROVE  Gate!Grant(r)
  <2>1. /\ pc[r] # "idle" /\ pc'[r] # "idle" /\ req[r].verdict = "none"
        /\ req'[r].by = req[r].by /\ req[r].by \in Users
        /\ req'[r].auth = [user |-> req[r].by, gen |-> gen[req[r].by]]
        /\ \A s \in Requests \ {r} : pc'[s] = pc[s] /\ req'[s] = req[s]
        /\ UNCHANGED <<gen, jar, setCookie>>
    <3>1. req[r] \in Request /\ req[r].verdict = "none" /\ pc[r] # "idle"
      BY <1>6, <1>a DEF CheckAuthoration, ProxyLogin, RequestInv, StageInv, TypeOK
    <3>2. /\ pc'[r] # "idle"
          /\ \A s \in Requests \ {r} : pc'[s] = pc[s] /\ req'[s] = req[s]
          /\ UNCHANGED <<gen, jar, setCookie>>
      BY <1>6, <1>a DEF CheckAuthoration, ProxyLogin, Proceed, Reject, Reply, TypeOK
    <3>3. CASE CheckAuthoration(r)
      <4>1. /\ req'[r] = [req[r] EXCEPT !.verdict = "checked"] /\ req[r].hdr # NoUser
            /\ req[r].auth = Current(req[r].hdr) /\ req[r].hdr = req[r].by
        BY <1>6, <1>a, <3>1, <3>3
        DEF CheckAuthoration, Authorized, Proceed, Reject, Reply, TypeOK, Request, RequestInv,
            StageInv, HeaderInv
      <4> QED
        BY <3>1, <3>2, <4>1 DEF Request, Current
    <3>4. CASE ProxyLogin(r)
      <4>1. /\ req'[r] = [req[r] EXCEPT !.id = req[r].by, !.auth = Current(req[r].by),
                                        !.verdict = "checked"]
            /\ req[r].by \in Users
        BY <1>6, <1>a, <3>1, <3>4
        DEF ProxyLogin, Proceed, Reject, Reply, TypeOK, Request, RequestInv, StageInv, HeaderInv
      <4> QED
        BY <3>1, <3>2, <4>1 DEF Request, Current
    <3> QED
      BY <1>6, <3>3, <3>4
  <2>2. /\ GateOf[r] = "asking" /\ WhoOf[r] = req[r].by
        /\ GateOf' = [GateOf EXCEPT ![r] = "granted"]
        /\ HeldOf' = [HeldOf EXCEPT ![r] = [user |-> req[r].by, gen |-> gen[req[r].by]]]
        /\ WhoOf' = WhoOf
    <3>1. GateOf[r] = "asking" /\ WhoOf[r] = req[r].by
      BY <2>1 DEF GateOf, WhoOf, Granted
    <3>2. GateOf' = [GateOf EXCEPT ![r] = "granted"]
      BY <1>6, <2>1 DEF GateOf, Granted
    <3>3. HeldOf' = [HeldOf EXCEPT ![r] = [user |-> req[r].by, gen |-> gen[req[r].by]]]
      BY <1>6, <2>1 DEF HeldOf, Granted
    <3>4. WhoOf' = WhoOf
      BY <2>1 DEF WhoOf
    <3> QED
      BY <3>1, <3>2, <3>3, <3>4
  <2>3. CircOf' = CircOf
    BY <2>1 DEF CircOf, Live
  <2> QED
    BY <2>1, <2>2, <2>3 DEF Gate!Grant
<1>7. ASSUME NEW r \in Requests, RefreshJWT(r) PROVE Gate!Mint(r) \/ UNCHANGED Gate!vars
  <2>1. /\ pc[r] = "refresh" /\ pc'[r] # "idle" /\ req' = req /\ Granted(r)
        /\ \A s \in Requests \ {r} : pc'[s] = pc[s]
        /\ UNCHANGED <<gen, jar>> /\ setCookie[r] = NoCookie
    BY <1>7, <1>a DEF RefreshJWT, RequestInv, StageInv, TypeOK, Granted
  <2>2. GateOf' = GateOf /\ WhoOf' = WhoOf /\ HeldOf' = HeldOf
    BY <2>1 DEF GateOf, WhoOf, HeldOf, Granted
  <2>3. CASE setCookie'[r] = NoCookie
    <3>1. setCookie' = setCookie
      BY <1>7, <1>a, <2>1, <2>3 DEF RefreshJWT, TypeOK
    <3> QED
      BY <2>1, <2>2, <3>1 DEF Gate!vars, CircOf, Live
  <2>4. CASE setCookie'[r] # NoCookie
    <3>1. /\ setCookie' = [setCookie EXCEPT ![r] = Renewed(r)]
          /\ Renewed(r) # NoCookie
      BY <1>7, <1>a, <2>4 DEF RefreshJWT, TypeOK
    <3>2. Live' = Live \cup {Renewed(r)}
      BY <1>a, <2>1, <3>1 DEF Live, TypeOK
    <3>3. Renewed(r).token = HeldOf[r] /\ GateOf[r] = "granted"
      BY <2>1 DEF Renewed, HeldOf, GateOf
    <3>4. CircOf' = CircOf \cup {HeldOf[r]}
      BY <3>2, <3>3 DEF CircOf
    <3> QED
      BY <2>1, <2>2, <3>3, <3>4 DEF Gate!Mint
  <2> QED
    BY <2>3, <2>4
<1>8. ASSUME NEW r \in Requests, Forward(r) PROVE UNCHANGED Gate!vars
  BY <1>8, <1>a DEF Forward, Reply, Gate!vars, GateOf, WhoOf, HeldOf, CircOf, Live, Granted, TypeOK
<1>9. CASE RestartConsole
  <2> DEFINE S == {s \in Requests : pc[s] \in InConsole}
  <2>1. Live' \subseteq Live
    BY <1>9 DEF RestartConsole, Live
  <2>2. Gate!End(S)
    BY <1>9, <1>a, <2>1, EndStep DEF RestartConsole
  <2> QED
    BY <2>2 DEF Gate!Next
<1>10. CASE EvictCookie
  <2>1. Gate!End({})
    BY <1>10, <1>a, EndStep DEF EvictCookie, Live
  <2> QED
    BY <2>1 DEF Gate!Next
<1>11. ASSUME NEW u \in Users, ResetToken(u) PROVE Gate!Reset(u)
  BY <1>11 DEF ResetToken, Gate!Reset, GateOf, WhoOf, HeldOf, CircOf, Live, Granted
<1>12. CASE Logout \/ Tick \/ UNCHANGED vars
  BY <1>12 DEF Logout, Tick, vars, Gate!vars, GateOf, WhoOf, HeldOf, CircOf, Live, Granted
<1>13. ASSUME NEW r \in Requests, Send(r) \/ (\E u \in Users, t \in Token : SendToken(r, u, t))
                                  \/ (\E u \in Users : SendLogin(r, u))
       PROVE  Gate!Ask(r)
  <2>1. CASE Send(r)
    BY <2>1, <1>1, <1>a DEF Send, Blank, TypeOK
  <2>2. ASSUME NEW u \in Users, NEW t \in Token, SendToken(r, u, t) PROVE Gate!Ask(r)
    BY <2>2, <1>1 DEF SendToken, Blank
  <2>3. ASSUME NEW u \in Users, SendLogin(r, u) PROVE Gate!Ask(r)
    BY <2>3, <1>1 DEF SendLogin, Blank
  <2> QED
    BY <1>13, <2>1, <2>2, <2>3
<1> QED
  BY <1>2, <1>4, <1>5, <1>6, <1>7, <1>8, <1>9, <1>10, <1>11, <1>12, <1>13
  DEF Next, Console, Browser, Gate!Next

\* The console implements the access gate.
THEOREM SessionImplementsGate == Spec => GateSpec
<1>1. Init => Gate!Init
  BY SessionAssumption
  DEF Init, Gate!Init, GateOf, WhoOf, HeldOf, CircOf, Live, Granted, Blank
<1>2. IInv /\ IInv' /\ [Next]_vars => [Gate!Next]_(Gate!vars)
  BY GateStep
<1> QED
  BY SessionInv, <1>1, <1>2, PTL DEF Spec, GateSpec, Gate!Spec

\* What comes back with a reply was checked, and is worth no less than what was sent
\* (refreshJWT, modifyResponse).
THEOREM SessionRenewsSoundly == Spec => []RenewalIsSound
<1>1. RenewedOnlyAfterChecks /\ RenewalNeverShortens => RenewalIsSound
  BY DEF RenewalIsSound
<1> QED
  BY <1>1, SessionRenewal, SessionNeverShortens, PTL
=============================================================================
