------------------------------ MODULE MCPaging ------------------------------
(* A small instance of Paging for TLC. *)
EXTENDS Paging, TLC

CONSTANTS i1, i2, i3, i4, i5

Symmetry == Permutations(Items)
=============================================================================
