------------------------------ MODULE MCLayout ------------------------------
(* A small instance of Layout for TLC: the widths next to the two limits, and colours *)
(* whose places are the first, the second and the last of their palettes.             *)
EXTENDS Layout

CONSTANTS c1, c2, c3

\* The third is picked from the panel.
MCDefaultColor == <<c1, c2>>

MCPrimary == [c \in Colors |-> CASE c = c1 -> 1 [] c = c2 -> 9 [] c = c3 -> 0]
=============================================================================
