----------------------------- MODULE MCListPage -----------------------------
(* Small instances of ListPage for TLC, and of the rows its tables show. *)
EXTENDS ListTables, TLC

CONSTANTS a, b, p1, p2, s0, s1, f1, f2, f3, w1, w2, n1, n2

\* Rows and slots are interchangeable; places and searches are not, a page starts
\* at one of them.
Symmetry == Permutations(Rows) \cup Permutations(Fetches)
=============================================================================
