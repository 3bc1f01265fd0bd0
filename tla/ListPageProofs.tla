--------------------------- MODULE ListPageProofs ---------------------------
(* Machine-checked facts about ListPage and the rows of its tables, for     *)
(* every value of the constants: any number of rows, places and searches,   *)
(* of fetches and saves under way, and lists of any length.                 *)
EXTENDS ListTables, TLAPS

\* A fetch is under way only for a mounted page, and was asked in the last burst.
UnderWay == \A f \in Fetches : fetch[f] # None => page # None /\ fetch[f] \in burst

\* The place the pagination shows has been asked for in the last burst; a page that
\* is opened finds the first one.
PlaceAsked == IF page = None THEN place = First ELSE \E q \in burst : q.place = place

\* What the table shows, once nothing is under way.
DataAsked == page # None /\ Quiet /\ ~failed => data \in burst

TableInv == UnderWay /\ PlaceAsked /\ DataAsked /\ LoadingWaits

\* A page that is not mounted shows no drawer.
NoPageNoDrawer == page = None => ~drawer.visible

DrawerInv == NoPageNoDrawer /\ DrawerHoldsNoOther /\ UpdateIsOfItsRow

IInv == TypeOK /\ TableInv /\ DrawerInv

\* The initial state satisfies the inductive invariant.
LEMMA InitIInv == Init => IInv
<1> SUFFICES ASSUME Init PROVE IInv
  OBVIOUS
<1> USE ListPageAssumption DEF Init
<1>1. TypeOK
  <2>1. drawer \in Drawer
    BY DEF Closed, Drawer
  <2>2. /\ fetch \in [Fetches -> Question \cup {None}]
        /\ save \in [Saves -> Save \cup {None}]
        /\ slice \in [Pages -> Rows \cup {Blank}]
    OBVIOUS
  <2> QED
    BY <2>1, <2>2 DEF TypeOK
<1>2. TableInv
  BY DEF TableInv, UnderWay, PlaceAsked, DataAsked, LoadingWaits
<1>3. DrawerInv
  BY DEF Closed, DrawerInv, NoPageNoDrawer, DrawerHoldsNoOther, UpdateIsOfItsRow
<1> QED
  BY <1>1, <1>2, <1>3 DEF IInv

\* A question put together from a place and a search is a question.
LEMMA QuestionIsOne ==
  ASSUME NEW p \in Places, NEW t \in Searches
  PROVE  /\ [place |-> p, search |-> t] \in Question
         /\ [place |-> p, search |-> t].place = p
  BY DEF Question

\* Asking keeps the types of what it changes.
LEMMA AskTypes ==
  ASSUME TypeOK, NEW q \in Question, NEW slots \in SUBSET Fetches, Ask(q, slots)
  PROVE  /\ fetch' \in [Fetches -> Question \cup {None}]
         /\ burst' \in SUBSET Question
         /\ loading' \in BOOLEAN
  BY DEF Ask, TypeOK

\* Asking for the place that will be shown keeps what is known of the table.
LEMMA AskKeepsTable ==
  ASSUME TypeOK, UnderWay, NEW q \in Question, NEW slots \in SUBSET Fetches, slots # {},
         Ask(q, slots), page' # None, q.place = place'
  PROVE  TableInv'
<1>1. q # None
  BY ListPageAssumption
<1>2. q \in burst'
  BY DEF Ask
<1>3. UnderWay'
  <2>1. ASSUME NEW f \in Fetches, fetch'[f] # None PROVE fetch'[f] \in burst'
    <3>1. CASE f \in slots
      BY <3>1, <1>2 DEF Ask
    <3>2. CASE f \notin slots
      BY <3>2, <2>1 DEF Ask, UnderWay, Quiet
    <3> QED
      BY <3>1, <3>2
  <2> QED
    BY <2>1 DEF UnderWay
<1>4. PlaceAsked'
  BY <1>2 DEF PlaceAsked
<1>5. ~Quiet'
  BY <1>1 DEF Ask, Quiet
<1>6. DataAsked' /\ LoadingWaits'
  BY <1>5 DEF DataAsked, LoadingWaits
<1> QED
  BY <1>3, <1>4, <1>6 DEF TableInv

\* A step of the editor leaves the table as it is.
LEMMA EditorKeepsTable ==
  ASSUME TableInv, UNCHANGED <<page, place, data, loading, failed, fetch, burst>>
  PROVE  TableInv'
  BY DEF TableInv, UnderWay, PlaceAsked, DataAsked, LoadingWaits, Quiet

\* A step of the table leaves the drawer, its slice and the saves as they are.
LEMMA TableKeepsDrawer ==
  ASSUME DrawerInv, UNCHANGED <<page, slice, drawer, save>>
  PROVE  DrawerInv'
  BY DEF DrawerInv, NoPageNoDrawer, DrawerHoldsNoOther, UpdateIsOfItsRow

\* Every step of the table keeps the inductive invariant.
LEMMA TableStep == IInv /\ Table => IInv'
<1> SUFFICES ASSUME IInv, Table PROVE IInv'
  OBVIOUS
<1> USE ListPageAssumption
<1>1. ASSUME NEW p \in Pages, NEW f \in Fetches, Mount(p, f) PROVE IInv'
  <2> DEFINE q == [place |-> First, search |-> NoSearch]
  <2>1. q \in Question /\ q.place = First
    BY QuestionIsOne
  <2>2. Ask(q, {f})
    BY <1>1 DEF Mount
  <2>3. page = None /\ page' = p /\ page' # None /\ place' = place /\ place = First
    BY <1>1 DEF Mount, IInv, TableInv, PlaceAsked
  <2>4. TypeOK'
    BY <1>1, <2>1, <2>2, AskTypes DEF Mount, IInv, TypeOK
  <2>5. TableInv'
    <3> HIDE DEF q
    <3> QED
      BY <2>1, <2>2, <2>3, AskKeepsTable DEF IInv, TableInv
  <2>6. DrawerInv'
    BY <1>1 DEF Mount, IInv, DrawerInv, NoPageNoDrawer, DrawerHoldsNoOther, UpdateIsOfItsRow
  <2> QED
    BY <2>4, <2>5, <2>6 DEF IInv
<1>2. CASE Leave
  <2>1. TypeOK'
    <3>1. save' \in [Saves -> Save \cup {None}]
      <4>1. ASSUME NEW s \in Saves, save[s] # None PROVE [save[s] EXCEPT !.live = FALSE] \in Save
        BY <4>1 DEF IInv, TypeOK, Save
      <4> QED
        BY <1>2, <4>1 DEF Leave
    <3> QED
      BY <1>2, <3>1 DEF Leave, Closed, Drawer, IInv, TypeOK
  <2>2. TableInv'
    BY <1>2 DEF Leave, TableInv, UnderWay, PlaceAsked, DataAsked, LoadingWaits
  <2>3. NoPageNoDrawer' /\ DrawerHoldsNoOther'
    BY <1>2 DEF Leave, Closed, NoPageNoDrawer, DrawerHoldsNoOther
  <2>4. UpdateIsOfItsRow'
    <3>1. ASSUME NEW s \in Saves, save'[s] # None
          PROVE  /\ save[s] # None
                 /\ save'[s].mode = save[s].mode
                 /\ save'[s].target = save[s].target
                 /\ save'[s].row = save[s].row
      BY <1>2, <3>1 DEF Leave, IInv, TypeOK, Save
    <3> QED
      BY <3>1 DEF IInv, DrawerInv, UpdateIsOfItsRow
  <2> QED
    BY <2>1, <2>2, <2>3, <2>4 DEF IInv, DrawerInv
<1>3. ASSUME NEW text \in Searches, Search(text) PROVE IInv'
  <2>1. TypeOK'
    BY <1>3 DEF Search, IInv, TypeOK
  <2> QED
    BY <1>3, <2>1, EditorKeepsTable, TableKeepsDrawer DEF Search, IInv
<1>4. ASSUME NEW p \in Places, NEW f \in Fetches, NEW g \in Fetches, Turn(p, f, g) PROVE IInv'
  <2> DEFINE q == Asked(p)
  <2>1. q \in Question /\ q.place = p
    BY QuestionIsOne DEF Asked, IInv, TypeOK
  <2>2. Ask(q, {f, g}) /\ place' = p /\ page' = page /\ page # None
    BY <1>4 DEF Turn, Shown
  <2>3. TypeOK'
    BY <1>4, <2>1, <2>2, AskTypes DEF Turn, IInv, TypeOK
  <2>4. TableInv'
    <3> HIDE DEF q
    <3> QED
      BY <2>1, <2>2, AskKeepsTable DEF IInv, TableInv
  <2> QED
    BY <1>4, <2>3, <2>4, TableKeepsDrawer DEF Turn, IInv
<1>5. ASSUME NEW f \in Fetches, Refresh(f) PROVE IInv'
  <2> DEFINE q == Asked(place)
  <2>1. q \in Question /\ q.place = place
    BY QuestionIsOne DEF Asked, IInv, TypeOK
  <2>2. Ask(q, {f}) /\ place' = place /\ page' = page /\ page # None
    BY <1>5 DEF Refresh, Shown
  <2>3. TypeOK'
    BY <1>5, <2>1, <2>2, AskTypes DEF Refresh, IInv, TypeOK
  <2>4. TableInv'
    <3> HIDE DEF q
    <3> QED
      BY <2>1, <2>2, AskKeepsTable DEF IInv, TableInv
  <2> QED
    BY <1>5, <2>3, <2>4, TableKeepsDrawer DEF Refresh, IInv
<1>6. ASSUME NEW f \in Fetches, Answer(f) PROVE IInv'
  <2>1. TypeOK'
    BY <1>6 DEF Answer, LoadingAfter, IInv, TypeOK
  <2>2. data' \in burst'
    BY <1>6 DEF Answer, IInv, TableInv, UnderWay
  <2>3. TableInv'
    BY <1>6, <2>2 DEF Answer, LoadingAfter, IInv, TypeOK, TableInv, UnderWay, PlaceAsked, DataAsked,
       LoadingWaits
  <2> QED
    BY <1>6, <2>1, <2>3, TableKeepsDrawer DEF Answer, IInv
<1>7. ASSUME NEW f \in Fetches, Fail(f) PROVE IInv'
  <2>1. TypeOK'
    BY <1>7 DEF Fail, IInv, TypeOK
  <2>2. TableInv'
    BY <1>7 DEF Fail, IInv, TypeOK, TableInv, UnderWay, PlaceAsked, DataAsked, LoadingWaits
  <2> QED
    BY <1>7, <2>1, <2>2, TableKeepsDrawer DEF Fail, IInv
<1> QED
  BY <1>1, <1>2, <1>3, <1>4, <1>5, <1>6, <1>7 DEF Table

\* Every step of the drawer keeps the inductive invariant.
LEMMA EditorStep == IInv /\ Editor => IInv'
<1> SUFFICES ASSUME IInv, Editor PROVE IInv'
  OBVIOUS
<1> USE ListPageAssumption
<1>1. ASSUME NEW row \in Rows, Edit(row) PROVE IInv'
  <2>1. page \in Pages
    BY <1>1 DEF Edit, Shown, IInv, TypeOK
  <2>2. TypeOK'
    BY <1>1 DEF Edit, Filled, Drawer, IInv, TypeOK
  <2>3. DrawerInv'
    BY <1>1, <2>1 DEF Edit, Filled, IInv, TypeOK, DrawerInv, NoPageNoDrawer, DrawerHoldsNoOther, UpdateIsOfItsRow
  <2> QED
    BY <1>1, <2>2, <2>3, EditorKeepsTable DEF Edit, IInv
<1>2. CASE Create
  <2>1. page \in Pages
    BY <1>2 DEF Create, Shown, IInv, TypeOK
  <2>2. TypeOK'
    BY <1>2 DEF Create, ResetForCreate, Reset, Drawer, IInv, TypeOK
  <2>3. DrawerInv'
    BY <1>2, <2>1 DEF Create, ResetForCreate, Reset, IInv, TypeOK, DrawerInv, NoPageNoDrawer,
       DrawerHoldsNoOther, UpdateIsOfItsRow
  <2> QED
    BY <1>2, <2>2, <2>3, EditorKeepsTable DEF Create, IInv
<1>3. CASE CloseDrawer
  <2>1. TypeOK'
    BY <1>3 DEF CloseDrawer, Reset, Drawer, IInv, TypeOK
  <2>2. DrawerInv'
    BY <1>3 DEF CloseDrawer, IInv, TypeOK, Drawer, DrawerInv, NoPageNoDrawer, DrawerHoldsNoOther, UpdateIsOfItsRow
  <2> QED
    BY <1>3, <2>1, <2>2, EditorKeepsTable DEF CloseDrawer, IInv
<1>4. ASSUME NEW s \in Saves, Submit(s) PROVE IInv'
  <2> DEFINE new == [page |-> page, mode |-> drawer.mode, row |-> drawer.row, live |-> TRUE,
                     target |-> IF drawer.mode = "edit" THEN slice[page] ELSE Blank]
  <2>1. page \in Pages
    BY <1>4 DEF Submit, Shown, IInv, TypeOK
  <2>2. new \in Save /\ save' = [save EXCEPT ![s] = new]
    BY <1>4, <2>1 DEF Submit, Save, Drawer, IInv, TypeOK
  <2>3. new.mode = "edit" => new.target \in {new.row, Blank}
    BY <1>4 DEF Submit, IInv, DrawerInv, DrawerHoldsNoOther
  <2>4. TypeOK'
    BY <1>4, <2>2 DEF Submit, IInv, TypeOK
  <2>5. UpdateIsOfItsRow'
    <3> HIDE DEF new
    <3> QED
      BY <2>2, <2>3 DEF IInv, TypeOK, DrawerInv, UpdateIsOfItsRow
  <2>6. NoPageNoDrawer' /\ DrawerHoldsNoOther'
    BY <1>4 DEF Submit, IInv, DrawerInv, NoPageNoDrawer, DrawerHoldsNoOther
  <2> QED
    BY <1>4, <2>4, <2>5, <2>6, EditorKeepsTable DEF Submit, IInv, DrawerInv
<1>5. ASSUME NEW s \in Saves, Saved(s) PROVE IInv'
  <2>1. save[s] \in Save
    BY <1>5 DEF Saved, IInv, TypeOK
  <2>2. TypeOK'
    BY <1>5 DEF Saved, Reset, Drawer, IInv, TypeOK
  <2>3. \A p \in Pages : slice'[p] = slice[p] \/ (p = "services" /\ slice'[p] = Blank)
    BY <1>5, <2>1 DEF Saved, Reset, Save, Pages, IInv, TypeOK
  <2>4. /\ drawer'.visible => drawer.visible
        /\ drawer'.mode = drawer.mode /\ drawer'.row = drawer.row
    BY <1>5 DEF Saved, Drawer, IInv, TypeOK
  <2>5. page' = page
    BY <1>5 DEF Saved
  <2>6. NoPageNoDrawer' /\ DrawerHoldsNoOther'
    BY <2>3, <2>4, <2>5 DEF IInv, TypeOK, DrawerInv, NoPageNoDrawer, DrawerHoldsNoOther
  <2>7. UpdateIsOfItsRow'
    BY <1>5 DEF Saved, IInv, TypeOK, DrawerInv, UpdateIsOfItsRow
  <2> QED
    BY <1>5, <2>2, <2>6, <2>7, EditorKeepsTable DEF Saved, IInv, DrawerInv
<1> QED
  BY <1>1, <1>2, <1>3, <1>4, <1>5 DEF Editor

\* A step that changes nothing keeps the inductive invariant.
LEMMA StutterStep == IInv /\ UNCHANGED vars => IInv'
<1> SUFFICES ASSUME IInv, UNCHANGED vars PROVE IInv'
  OBVIOUS
<1>1. TypeOK'
  BY DEF vars, IInv, TypeOK
<1> QED
  BY <1>1, EditorKeepsTable, TableKeepsDrawer DEF vars, IInv

\* The inductive invariant holds in every reachable state.
THEOREM ListPageInv == Spec => []IInv
<1>1. IInv /\ [Next]_vars => IInv'
  BY TableStep, EditorStep, StutterStep DEF Next
<1> QED
  BY InitIInv, <1>1, PTL DEF Spec

\* Type correctness of the pages, the editor slices and the saves under way.
THEOREM ListPageTypes == Spec => []TypeOK
  BY ListPageInv, PTL DEF IInv

\* Whatever the order of the answers, a table at rest shows what was asked last, or
\* together with it.
THEOREM ListPageAsked == Spec => []QuietShowsAsked
<1>1. IInv => QuietShowsAsked
  BY DEF IInv, TableInv, PlaceAsked, DataAsked, QuietShowsAsked
<1> QED
  BY ListPageInv, <1>1, PTL

\* A table that is marked as loading has a fetch under way, or has failed.
THEOREM ListPageLoading == Spec => []LoadingWaits
  BY ListPageInv, PTL DEF IInv, TableInv

\* No save, however late, puts another row into an open drawer.
THEOREM ListPageDrawer == Spec => []DrawerHoldsNoOther
  BY ListPageInv, PTL DEF IInv, DrawerInv

\* No update is sent for another row than the drawer's.
THEOREM ListPageUpdates == Spec => []UpdateIsOfItsRow
  BY ListPageInv, PTL DEF IInv, DrawerInv

\* At rest a table shows what was asked, is not marked as loading, or has failed.
THEOREM ListPageRests == Spec => []TableRests
<1>1. QuietShowsAsked /\ LoadingWaits => TableRests
  BY DEF TableRests
<1> QED
  BY <1>1, ListPageAsked, ListPageLoading, PTL

\* No drawer holds and no update is sent for another row than the drawer's own.
THEOREM ListPageOwnRow == Spec => []OwnRowOnly
<1>1. DrawerHoldsNoOther /\ UpdateIsOfItsRow => OwnRowOnly
  BY DEF OwnRowOnly
<1> QED
  BY <1>1, ListPageDrawer, ListPageUpdates, PTL

-----------------------------------------------------------------------------
(* The rows *)

\* A list of the naming server that is there names namespaces, each once.
LEMMA ListInv ==
    ASSUME NEW item \in Item, item.list # NoList
    PROVE  /\ Len(item.list) \in Nat
           /\ item.list \in [1 .. Len(item.list) -> Names \cup {Star}]
           /\ \A i, j \in 1 .. Len(item.list) : item.list[i] = item.list[j] => i = j
<1>1. item.list \in SeqOf(Names \cup {Star}, MaxList) /\ IsInjective(item.list)
  BY DEF Item, Lists
<1>2. PICK m \in 0 .. MaxList : item.list \in [1 .. m -> Names \cup {Star}]
  BY <1>1 DEF SeqOf
<1>3. m \in Nat /\ Len(item.list) = m
  BY <1>2, VisibilityAssumption
<1> QED
  BY <1>1, <1>2, <1>3 DEF IsInjective

\* The mode that is made of an item tells whom the item lets in.
LEMMA ModeTells ==
    ASSUME NEW item \in Item
    PROVE  Tells(CheckVisibilityMode(item.list, item.own), item)
<1> DEFINE list == item.list
           own == item.own
           mode == CheckVisibilityMode(list, own)
<1>0. own \in Names /\ own # Newcomer /\ own # Star /\ Newcomer # Star
  BY VisibilityAssumption DEF Item
<1>1. CASE list \in {NoList, <<>>}
  <2>1. mode = "single"
    BY <1>1 DEF CheckVisibilityMode
  <2>2. SeenBy(item) = {own}
    BY <1>0, <1>1 DEF SeenBy, Contains
  <2> QED
    BY <1>0, <2>1, <2>2 DEF Tells
<1>2. CASE list \notin {NoList, <<>>} /\ Contains(list, Star)
  <2>1. mode = "all"
    BY <1>2 DEF CheckVisibilityMode
  <2>2. Newcomer \in SeenBy(item)
    BY <1>2 DEF SeenBy
  <2> QED
    BY <1>0, <2>1, <2>2 DEF Tells
<1>3. CASE list \notin {NoList, <<>>} /\ ~Contains(list, Star) /\ list = <<own>>
  <2>1. mode = "single"
    BY <1>3 DEF CheckVisibilityMode
  <2>2. \A x : Contains(list, x) <=> x = own
    BY <1>3 DEF Contains
  <2>3. SeenBy(item) = {own}
    BY <1>0, <1>3, <2>2 DEF SeenBy
  <2> QED
    BY <1>0, <2>1, <2>3 DEF Tells
<1>4. CASE list \notin {NoList, <<>>} /\ ~Contains(list, Star) /\ list # <<own>>
  <2>1. mode = "specified"
    BY <1>4 DEF CheckVisibilityMode
  <2>2. /\ Len(list) \in Nat /\ list \in [1 .. Len(list) -> Names \cup {Star}]
        /\ \A i, j \in 1 .. Len(list) : list[i] = list[j] => i = j
    BY <1>4, ListInv
  <2>3. \A i \in 1 .. Len(list) : list[i] \in Names /\ list[i] # Newcomer
    BY <1>4, <2>2, VisibilityAssumption DEF Contains
  <2>4. Newcomer \notin SeenBy(item)
    BY <1>0, <1>4, <2>3 DEF SeenBy, Contains
  <2>5. \E i \in 1 .. Len(list) : list[i] # own
    <3> HIDE DEF list
    <3>1. Len(list) # 0
      BY <1>4, <2>2
    <3>2. CASE Len(list) = 1
      <4>1. list = <<list[1]>>
        BY <2>2, <3>2
      <4> QED
        BY <1>4, <3>2, <4>1
    <3>3. CASE Len(list) > 1
      <4>1. 1 \in 1 .. Len(list) /\ 2 \in 1 .. Len(list) /\ list[1] # list[2]
        BY <2>2, <3>3
      <4> QED
        BY <4>1
    <3> QED
      BY <2>2, <3>1, <3>2, <3>3
  <2>6. PICK i \in 1 .. Len(list) : list[i] # own
    BY <2>5
  <2>7. list[i] \in SeenBy(item)
    BY <1>4, <2>3 DEF SeenBy, Contains
  <2>8. SeenBy(item) # {own}
    BY <2>6, <2>7
  <2> QED
    BY <2>1, <2>4, <2>8 DEF Tells
<1> QED
  BY <1>1, <1>2, <1>3, <1>4

\* The rows that are shown say who is let in, and so does the column of namespaces: for
\* any names and lists of any length, a fact about checkVisibilityMode and its callers.
THEOREM ListPageRowsTell == Spec => []RowsTell
<1>1. \A item \in Item :
         /\ item.own \in Names
         /\ Tells(CheckVisibilityMode(item.list, item.own), item)
  BY ModeTells DEF Item
<1>2. NamespaceRowsTell /\ NamespaceCellsTell
  BY <1>1 DEF NamespaceRowsTell, NamespaceCellsTell, ListNamespace, AllNamespace, NamespaceCell
<1>3. ServiceRowsTell
  BY <1>1 DEF ServiceRowsTell, ListService
<1>4. RowsTell
  BY <1>2, <1>3 DEF RowsTell
<1> QED
  BY <1>4, PTL
=============================================================================
