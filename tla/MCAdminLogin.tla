---------------------------- MODULE MCAdminLogin ----------------------------
(* Small instances of AdminLogin for TLC. *)
EXTENDS AdminLogin, TLC

CONSTANTS l1, l2, l3

\* Logins are interchangeable.
Symmetry == Permutations(Logins)
=============================================================================
