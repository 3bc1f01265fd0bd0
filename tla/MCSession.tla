----------------------------- MODULE MCSession -----------------------------
(* Small instances of Session for TLC. *)
EXTENDS Session, TLC

CONSTANTS r1, r2, u1, u2

\* Requests are interchangeable, users are too: nothing in the initial state
\* or in an action tells one from another.
Symmetry == Permutations(Requests) \cup Permutations(Users)
=============================================================================
