---------------------------- MODULE MCEditorForm ----------------------------
(* A small instance of EditorForm for TLC. *)
EXTENDS EditorForm, TLC

CONSTANTS a, b, c, d, m, n, k, l, w1, w2

\* Services of the same name in two namespaces, and two more: d may not be edited.
MCNameOf == [r \in {a, b, c, d, m, n} |-> CASE r \in {a, b} -> "x" [] r \in {c, d} -> "y"
                                            [] r = m -> "m" [] r = n -> "n"]

\* Rows with one label, with none and with two.
MCLabelsOf == [r \in {a, b, c, d, m, n} |-> CASE r \in {a, m} -> <<k>> [] r = b -> <<k, l>>
                                           [] r \in {c, d, n} -> <<>>]

Symmetry == Permutations(Saves)
=============================================================================
