----------------------------- MODULE Visibility -----------------------------
(***************************************************************************)
(* Which namespaces may see the services of a namespace, or a service: the *)
(* visibility mode that is made of a list of namespaces (utils/visible)    *)
(* when rows are fetched (services/namespace, services/service), and once  *)
(* more by the column of the page of namespaces.  The column of the page   *)
(* of services is left out: it looks at a field that no service has.       *)
(***************************************************************************)
EXTENDS Integers, Sequences, SequencesExt

CONSTANTS
    Names,      \* names of namespaces
    Newcomer,   \* a namespace that is made later
    Star,       \* "*"
    NoList,     \* a row without a list
    MaxList     \* bound on the length of a list

ASSUME VisibilityAssumption ==
    /\ Newcomer \notin Names
    /\ Star \notin Names \cup {Newcomer}
    /\ MaxList \in Nat

\* Lists of the naming server, which names a namespace once.
Lists == {NoList} \cup {s \in SeqOf(Names \cup {Star}, MaxList) : IsInjective(s)}

\* A row of the naming server; of a service, its namespace and its own list.
Item == [own : Names, list : Lists]

CheckVisibilityMode(list, own) ==
    IF list \in {NoList, <<>>} THEN "single"
    ELSE IF Contains(list, Star) THEN "all"
    ELSE IF list = <<own>> THEN "single"
    ELSE "specified"

\* A row of describeComplicatedNamespaces, which describeAllNamespaces makes once more.
ListNamespace(item) ==
    [own |-> item.own, list |-> item.list, mode |-> CheckVisibilityMode(item.list, item.own)]

AllNamespace(row) == [row EXCEPT !.mode = CheckVisibilityMode(row.list, row.own)]

\* Mutant: the list is cleared before it is looked at.
ListServiceCleared(item) ==
    LET list == IF CheckVisibilityMode(item.list, item.own) = "all" THEN <<>> ELSE item.list
    IN  [own |-> item.own, list |-> list, mode |-> CheckVisibilityMode(list, item.own)]

\* A row of describeServices: the list of a service that all may see is cleared.
ListService(item) ==
    LET mode == CheckVisibilityMode(item.list, item.own)
    IN  [own |-> item.own, list |-> IF mode = "all" THEN <<>> ELSE item.list, mode |-> mode]

\* The column of the namespaces makes the mode out of the row's list again.
NamespaceCell(row) == CheckVisibilityMode(row.list, row.own)

-----------------------------------------------------------------------------
(* Properties *)

\* The namespaces, present and to come, that an item lets in.
SeenBy(item) ==
    {n \in Names \cup {Newcomer} :
        n = item.own \/ (item.list # NoList /\ (Contains(item.list, n) \/ Contains(item.list, Star)))}

\* What a mode is called (VisibilityModeMap) is true of who is let in: only the own
\* namespace, all of them with the new ones, or some.
Tells(mode, item) ==
    /\ mode = "single" <=> SeenBy(item) = {item.own}
    /\ mode = "all" <=> Newcomer \in SeenBy(item)
    /\ mode \in {"single", "all", "specified"}

\* Namespaces: the mode of a row tells who is let in, after describeComplicatedNamespaces
\* and after describeAllNamespaces, and the cell made from the row once more.
NamespaceRowsTell ==
    \A item \in Item :
        /\ Tells(ListNamespace(item).mode, item)
        /\ Tells(AllNamespace(ListNamespace(item)).mode, item)

NamespaceCellsTell == \A item \in Item : Tells(NamespaceCell(ListNamespace(item)), item)

\* Services: the same of a row, which is made before the list is cleared, and only the
\* list of a service that lets all in is.
ServiceRowsTell ==
    \A item \in Item :
        /\ Tells(ListService(item).mode, item)
        /\ ListService(item).list = item.list \/ ListService(item).mode = "all"
=============================================================================
