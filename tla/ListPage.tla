------------------------------ MODULE ListPage ------------------------------
(***************************************************************************)
(* The list pages of the browser (pages/Discovery/Services/index.tsx and   *)
(* pages/Namespace/index.tsx) with the drawer of their editors.  A page    *)
(* fetches its table whenever it is mounted, turned or refreshed, and the  *)
(* answers come in any order.  The drawer edits a slice of the redux store *)
(* which outlives the page, and so does a save that is under way.          *)
(*                                                                         *)
(* An answer stands for the question it answers: a place of the pagination *)
(* (page number and size) and what was searched for.                       *)
(***************************************************************************)
EXTENDS Integers, FiniteSets

CONSTANTS
    Rows,       \* rows of the tables
    Places,     \* places of the pagination
    First,      \* the place a page starts at
    Searches,   \* what may be searched for
    NoSearch,   \* the empty search
    Fetches,    \* slots of fetches under way: a bound
    Saves,      \* slots of saves under way: a bound
    Blank,      \* the slice of an editor without a row
    None        \* nothing

Pages    == {"services", "namespaces"}
Question == [place : Places, search : Searches]
Save     == [page : Pages, mode : {"create", "edit"}, target : Rows \cup {Blank},
             row : Rows \cup {Blank}, live : BOOLEAN]

ASSUME ListPageAssumption ==
    /\ First \in Places
    /\ NoSearch \in Searches
    /\ Blank \notin Rows
    /\ None \notin Pages
    /\ None \notin Question
    /\ None \notin Save

VARIABLES
    page,       \* the page that is mounted
    place,      \* current and pageSize
    search,     \* searchParam
    data,       \* the table: the question it is the answer to
    loading,    \* isLoading
    failed,     \* fetchError: the error page replaces the table
    fetch,      \* the fetches under way
    burst,      \* bookkeeping: what was asked since nothing was under way
    slice,      \* the editor slice of each page
    drawer,     \* editorState
    save        \* the saves under way

vars == <<page, place, search, data, loading, failed, fetch, burst, slice, drawer, save>>

Drawer == [visible : BOOLEAN, mode : {"create", "edit"}, row : Rows \cup {Blank}]
Closed == [visible |-> FALSE, mode |-> "create", row |-> Blank]

TypeOK ==
    /\ page \in Pages \cup {None}
    /\ place \in Places
    /\ search \in Searches
    /\ data \in Question \cup {None}
    /\ loading \in BOOLEAN
    /\ failed \in BOOLEAN
    /\ fetch \in [Fetches -> Question \cup {None}]
    /\ burst \in SUBSET Question
    /\ slice \in [Pages -> Rows \cup {Blank}]
    /\ drawer \in Drawer
    /\ save \in [Saves -> Save \cup {None}]

Init ==
    /\ page = None
    /\ place = First
    /\ search = NoSearch
    /\ data = None
    /\ loading = FALSE
    /\ failed = FALSE
    /\ fetch = [f \in Fetches |-> None]
    /\ burst = {}
    /\ slice = [p \in Pages |-> Blank]
    /\ drawer = Closed
    /\ save = [s \in Saves |-> None]

Quiet == \A f \in Fetches : fetch[f] = None
Shown == page # None /\ ~failed

-----------------------------------------------------------------------------
(* The table *)

\* Mutant: the question is put together from the state that is being replaced.
AskedFromState(p) == [place |-> place, search |-> search]

\* What fetchData asks: the page info it is given and the search of the render.
Asked(p) == [place |-> p, search |-> search]

\* fetchData is called once for each slot.
Ask(q, slots) ==
    /\ \A f \in slots : fetch[f] = None
    /\ fetch' = [f \in Fetches |-> IF f \in slots THEN q ELSE fetch[f]]
    /\ burst' = IF Quiet THEN {q} ELSE burst \cup {q}
    /\ loading' = TRUE

\* A page is opened: its state is new, the slice is what it was.
Mount(p, f) ==
    /\ page = None
    /\ page' = p
    /\ Ask([place |-> First, search |-> NoSearch], {f})
    /\ UNCHANGED <<place, search, data, failed, slice, drawer, save>>

\* Another page is opened: answers to fetches change nothing any more, but a save
\* goes on.
Leave ==
    /\ page # None
    /\ page' = None
    /\ place' = First
    /\ search' = NoSearch
    /\ data' = None
    /\ loading' = FALSE
    /\ failed' = FALSE
    /\ fetch' = [f \in Fetches |-> None]
    /\ burst' = {}
    /\ drawer' = Closed
    /\ save' = [s \in Saves |-> IF save[s] = None THEN None ELSE [save[s] EXCEPT !.live = FALSE]]
    /\ UNCHANGED slice

\* Typing in the search field fetches nothing.
Search(text) ==
    /\ Shown
    /\ search' = text
    /\ UNCHANGED <<page, place, data, loading, failed, fetch, burst, slice, drawer, save>>

\* The pagination is used: pagination.onChange and onPageChange both call
\* rehandleChange.
Turn(p, f, g) ==
    /\ Shown
    /\ f # g
    /\ place' = p
    /\ Ask(Asked(p), {f, g})
    /\ UNCHANGED <<page, search, data, failed, slice, drawer, save>>

Refresh(f) ==
    /\ Shown
    /\ Ask(Asked(place), {f})
    /\ UNCHANGED <<page, place, search, data, failed, slice, drawer, save>>

\* Mutant: only an answer to the current place ends the loading.
LoadingAfterStrict(q) == q.place # place

LoadingAfter(q) == FALSE

\* An answer comes.
Answer(f) ==
    /\ fetch[f] # None
    /\ data' = fetch[f]
    /\ loading' = LoadingAfter(fetch[f])
    /\ fetch' = [fetch EXCEPT ![f] = None]
    /\ UNCHANGED <<page, place, search, failed, burst, slice, drawer, save>>

\* No answer comes, or one that cannot be shown: the error page, for good.
Fail(f) ==
    /\ fetch[f] # None
    /\ failed' = TRUE
    /\ fetch' = [fetch EXCEPT ![f] = None]
    /\ UNCHANGED <<page, place, search, data, loading, burst, slice, drawer, save>>

-----------------------------------------------------------------------------
(* The drawer *)

\* Mutant: opening the drawer does not fill the slice again when it holds a row.
FilledOnce(p, row) == IF slice[p] = Blank THEN row ELSE slice[p]

\* editorService, editorNamespace.
Filled(p, row) == row

\* A row's edit button; the table can be used while the drawer is open.
Edit(row) ==
    /\ Shown
    /\ data # None
    /\ slice' = [slice EXCEPT ![page] = Filled(page, row)]
    /\ drawer' = [visible |-> TRUE, mode |-> "edit", row |-> row]
    /\ UNCHANGED <<page, place, search, data, loading, failed, fetch, burst, save>>

\* Mutant: the reducer leaves nothing behind instead of an empty state.
ResetToNothing(p) == IF p = "services" THEN [slice EXCEPT ![p] = None] ELSE slice

\* resetService; the page of namespaces has no such thing.
Reset(p) == IF p = "services" THEN [slice EXCEPT ![p] = Blank] ELSE slice

\* Mutant: the service page opens its drawer without a reset.
NoReset(p) == slice

ResetForCreate(p) == Reset(p)

Create ==
    /\ Shown
    /\ slice' = ResetForCreate(page)
    /\ drawer' = [visible |-> TRUE, mode |-> "create", row |-> Blank]
    /\ UNCHANGED <<page, place, search, data, loading, failed, fetch, burst, save>>

CloseDrawer ==
    /\ Shown
    /\ drawer.visible
    /\ slice' = Reset(page)
    /\ drawer' = [drawer EXCEPT !.visible = FALSE]
    /\ UNCHANGED <<page, place, search, data, loading, failed, fetch, burst, save>>

\* The form is submitted; it stays open, and can be submitted again.
Submit(s) ==
    /\ Shown
    /\ drawer.visible
    /\ save[s] = None
    /\ save' = [save EXCEPT ![s] =
                  [page |-> page, mode |-> drawer.mode, row |-> drawer.row, live |-> TRUE,
                   target |-> IF drawer.mode = "edit" THEN slice[page] ELSE Blank]]
    /\ UNCHANGED <<page, place, search, data, loading, failed, fetch, burst, slice, drawer>>

\* A save is answered, well or not: closeDrawer is called, which closes the drawer
\* of the page the save came from, if that is still there, and resets its slice.
Saved(s) ==
    /\ save[s] # None
    /\ slice' = Reset(save[s].page)
    /\ drawer' = IF save[s].live THEN [drawer EXCEPT !.visible = FALSE] ELSE drawer
    /\ save' = [save EXCEPT ![s] = None]
    /\ UNCHANGED <<page, place, search, data, loading, failed, fetch, burst>>

Table ==
    \/ \E p \in Pages, f \in Fetches : Mount(p, f)
    \/ Leave
    \/ \E text \in Searches : Search(text)
    \/ \E p \in Places, f, g \in Fetches : Turn(p, f, g)
    \/ \E f \in Fetches : Refresh(f) \/ Answer(f) \/ Fail(f)

Editor ==
    \/ \E row \in Rows : Edit(row)
    \/ Create
    \/ CloseDrawer
    \/ \E s \in Saves : Submit(s) \/ Saved(s)

Next == Table \/ Editor

Spec == Init /\ [][Next]_vars

-----------------------------------------------------------------------------
(* Properties *)

\* Answers out of order: when nothing is under way the table shows something that
\* was asked in the last burst of fetches, and the place the pagination shows was
\* asked in it; so one place asked for is one place shown.
QuietShowsAsked ==
    page # None /\ Quiet /\ ~failed =>
        data \in burst /\ \E q \in burst : q.place = place

\* The table is marked as loading only while a fetch is under way, or behind the
\* error page.
LoadingWaits == loading => ~Quiet \/ failed

\* Whatever saves are answered, of this page or of an earlier visit, an edit drawer
\* never holds another row than the one it was opened for, and on the page of
\* services a create drawer holds none.
DrawerHoldsNoOther ==
    drawer.visible =>
        /\ drawer.mode = "edit" => slice[page] \in {drawer.row, Blank}
        /\ drawer.mode = "create" /\ page = "services" => slice[page] = Blank

\* An update that is sent is for the row the drawer was opened for, or for none.
UpdateIsOfItsRow ==
    \A s \in Saves : save[s] # None /\ save[s].mode = "edit" =>
        save[s].target \in {save[s].row, Blank}

\* At rest a table shows what was asked, is not marked as loading, or has failed.
TableRests == QuietShowsAsked /\ LoadingWaits

\* No drawer holds and no update is sent for another row than the drawer's own.
OwnRowOnly == DrawerHoldsNoOther /\ UpdateIsOfItsRow
=============================================================================
