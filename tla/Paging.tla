------------------------------- MODULE Paging -------------------------------
(***************************************************************************)
(* getAllList of web/src/utils/request.ts: fetch a list of the naming      *)
(* server page by page, until as many items have come as the server says   *)
(* it has.  The editors fetch all namespaces this way.                     *)
(*                                                                         *)
(* Each page is one request.  Between two of them other users add and      *)
(* remove items, and the pages are slices of the list as it is when the    *)
(* request is served.                                                      *)
(***************************************************************************)
EXTENDS Integers, Sequences, FiniteSets, SequencesExt

CONSTANTS
    Items,      \* what the list may hold
    PageSize    \* pageSize, 50 in the code

ASSUME PagingAssumption == PageSize \in Nat \ {0}

VARIABLES
    list,       \* the server's list
    pc,         \* "idle", "loop", "returned", "thrown"
    pageNo,     \* the page to ask for
    allList,    \* the items that have come
    lastTotal,  \* totalKey of the last answer
    stayed,     \* bookkeeping: the items listed ever since the call
    grown,      \* bookkeeping: whether an item was added since the call
    shrunk      \* bookkeeping: whether an item was removed since the call

vars == <<list, pc, pageNo, allList, lastTotal, stayed, grown, shrunk>>

TypeOK ==
    /\ list \in Seq(Items)
    /\ pc \in {"idle", "loop", "returned", "thrown"}
    /\ pageNo \in 0 .. Cardinality(Items)
    /\ allList \in Seq(Items)
    /\ lastTotal \in Nat
    /\ stayed \in SUBSET Items
    /\ grown \in BOOLEAN
    /\ shrunk \in BOOLEAN

Init ==
    /\ list = <<>>
    /\ pc = "idle"
    /\ pageNo = 0
    /\ allList = <<>>
    /\ lastTotal = 0
    /\ stayed = {}
    /\ grown = FALSE
    /\ shrunk = FALSE

Listed == {list[i] : i \in DOMAIN list}

\* The caller awaits getAllList.
Call ==
    /\ pc = "idle"
    /\ pc' = "loop"
    /\ pageNo' = 0
    /\ allList' = <<>>
    /\ lastTotal' = 0
    /\ stayed' = Listed
    /\ grown' = FALSE
    /\ shrunk' = FALSE
    /\ UNCHANGED list

\* Mutant: the server is asked for a page where it wants an offset.
OffsetIsPage(page) == page

Offset(page) == page * PageSize

\* The server's slice: at most PageSize items from the offset on.
Page(offset) ==
    SubSeq(list, offset + 1, IF offset + PageSize < Len(list) THEN offset + PageSize ELSE Len(list))

\* Mutant: the last item is not waited for.
EnoughButOne(count, total) == count >= total - 1

\* Mutant: as many items as there are do not end the loop.
EnoughWhenMore(count, total) == count > total

Enough(count, total) == count >= total

\* A page comes.  The loop ends when as many items have come as there are now.
FetchPage ==
    /\ pc = "loop"
    /\ allList' = allList \o Page(Offset(pageNo))
    /\ lastTotal' = Len(list)
    /\ IF Enough(Len(allList'), Len(list))
       THEN pc' = "returned" /\ UNCHANGED pageNo
       ELSE pageNo' = pageNo + 1 /\ UNCHANGED pc
    /\ UNCHANGED <<list, stayed, grown, shrunk>>

\* A page does not come: the error passes through getAllList, what has come is
\* lost.
FetchFails ==
    /\ pc = "loop"
    /\ pc' = "thrown"
    /\ allList' = <<>>
    /\ UNCHANGED <<list, pageNo, lastTotal, stayed, grown, shrunk>>

\* The caller goes on.
Return ==
    /\ pc \in {"returned", "thrown"}
    /\ pc' = "idle"
    /\ pageNo' = 0
    /\ allList' = <<>>
    /\ lastTotal' = 0
    /\ stayed' = {}
    /\ grown' = FALSE
    /\ shrunk' = FALSE
    /\ UNCHANGED list

\* Another user adds an item; the server lists it anywhere.
AddItem(item, i) ==
    /\ item \notin Listed
    /\ i \in 1 .. Len(list) + 1
    /\ list' = InsertAt(list, i, item)
    /\ grown' = (grown \/ pc = "loop")
    /\ UNCHANGED <<pc, pageNo, allList, lastTotal, stayed, shrunk>>

\* Another user removes one.
RemoveItem(i) ==
    /\ i \in DOMAIN list
    /\ list' = RemoveAt(list, i)
    /\ stayed' = IF pc = "loop" THEN stayed \ {list[i]} ELSE stayed
    /\ shrunk' = (shrunk \/ pc = "loop")
    /\ UNCHANGED <<pc, pageNo, allList, lastTotal, grown>>

Next ==
    \/ Call
    \/ FetchPage
    \/ FetchFails
    \/ Return
    \/ \E item \in Items, i \in 1 .. Len(list) + 1 : AddItem(item, i)
    \/ \E i \in DOMAIN list : RemoveItem(i)

Spec == Init /\ [][Next]_vars

-----------------------------------------------------------------------------
(* Properties *)

\* Only a full page is followed by another: however the list changes, the next
\* offset is the number of items at hand, and there was more than that when the
\* last page was served.  The loop turns at most once per PageSize items of the
\* longest list, and never on an empty page.
OnlyFullPagesGoOn ==
    pc = "loop" =>
        /\ Len(allList) = pageNo * PageSize
        /\ pageNo > 0 => Len(allList) < lastTotal

\* An item that was listed all the time is in the result, if nothing was removed
\* meanwhile: additions shift items to later pages, never to earlier ones.
NothingMissedWhileGrowing ==
    pc = "returned" /\ ~shrunk => \A item \in stayed : \E i \in DOMAIN allList : allList[i] = item

\* No item is in the result twice, if nothing was added meanwhile.
NothingTwiceWhileShrinking ==
    pc = "returned" /\ ~grown =>
        \A i, j \in DOMAIN allList : allList[i] = allList[j] => i = j

\* What getAllList promises of a list that others change in one direction.
PagesFit == NothingMissedWhileGrowing /\ NothingTwiceWhileShrinking
=============================================================================
