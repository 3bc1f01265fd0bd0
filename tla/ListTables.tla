----------------------------- MODULE ListTables -----------------------------
(***************************************************************************)
(* The list pages with the rows their tables show: ListPage says when a    *)
(* table is shown, Visibility what the rows of either page carry and what  *)
(* the column of namespaces makes of it.                                   *)
(***************************************************************************)
EXTENDS ListPage, Visibility

\* The rows a table is showing carry a mode that tells which namespaces are let in,
\* whichever call fetched them and though a service's list may be cleared by then; the
\* column of namespaces, which works the mode out once more, says the same.
RowsTell ==
    data # None =>
        /\ page = "namespaces" => NamespaceRowsTell /\ NamespaceCellsTell
        /\ page = "services" => ServiceRowsTell
=============================================================================
