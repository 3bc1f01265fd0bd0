----------------------------- MODULE AccessGate -----------------------------
(***************************************************************************)
(* What the console promises about access, with no cookie, no header and   *)
(* no clock: a request is granted only at an instant when it holds the     *)
(* token its sender's account has at that instant, and the only tokens in  *)
(* circulation as sessions are tokens some granted request held.           *)
(***************************************************************************)
EXTENDS Integers

CONSTANTS Users, Requests, MaxGen, NoUser, NoToken

VARIABLES
    gen,    \* the generation of each user's token
    gate,   \* each request: "out", "asking" or "granted"
    who,    \* the user each request is made for
    held,   \* the token a granted request holds
    circ    \* the tokens that sessions carry

vars == <<gen, gate, who, held, circ>>

Init ==
    /\ gen = [u \in Users |-> 0]
    /\ gate = [r \in Requests |-> "out"]
    /\ who = [r \in Requests |-> NoUser]
    /\ held = [r \in Requests |-> NoToken]
    /\ circ = {}

Ask(r) ==
    /\ gate[r] = "out"
    /\ gate' = [gate EXCEPT ![r] = "asking"]
    /\ \E u \in Users \cup {NoUser} : who' = [who EXCEPT ![r] = u]
    /\ UNCHANGED <<gen, held, circ>>

Grant(r) ==
    /\ gate[r] = "asking"
    /\ who[r] \in Users
    /\ gate' = [gate EXCEPT ![r] = "granted"]
    /\ held' = [held EXCEPT ![r] = [user |-> who[r], gen |-> gen[who[r]]]]
    /\ UNCHANGED <<gen, who, circ>>

\* A granted request starts or renews a session with the token it holds.
Mint(r) ==
    /\ gate[r] = "granted"
    /\ circ' = circ \cup {held[r]}
    /\ UNCHANGED <<gen, gate, who, held>>

\* Requests end, sessions are dropped or replaced: nothing new appears.
End(S) ==
    /\ gate' = [r \in Requests |-> IF r \in S THEN "out" ELSE gate[r]]
    /\ who' = [r \in Requests |-> IF r \in S THEN NoUser ELSE who[r]]
    /\ held' = [r \in Requests |-> IF r \in S THEN NoToken ELSE held[r]]
    /\ circ' \subseteq circ
    /\ UNCHANGED gen

Reset(u) ==
    /\ gen[u] < MaxGen
    /\ gen' = [gen EXCEPT ![u] = @ + 1]
    /\ UNCHANGED <<gate, who, held, circ>>

Next ==
    \/ \E r \in Requests : Ask(r) \/ Grant(r) \/ Mint(r)
    \/ \E S \in SUBSET Requests : End(S)
    \/ \E u \in Users : Reset(u)

Spec == Init /\ [][Next]_vars
=============================================================================
