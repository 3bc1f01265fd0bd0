----------------------------- MODULE EditorForm -----------------------------
(***************************************************************************)
(* What is inside the drawer of a list page: the form of ServiceEditor or  *)
(* NamespaceEditor, the label inputs in it, the editor slice it is filled  *)
(* from and what a submission sends.  The table stays usable beside the    *)
(* drawer and a save outlives the drawer it came from.                     *)
(*                                                                         *)
(* The value of a field stands for where it comes from: a row, typing, or  *)
(* nowhere.  The name of a service has its namespace with it, and the text *)
(* stands for the other fields; a label stands for its key.  The radios of *)
(* the visibility mode are left out.                                       *)
(***************************************************************************)
EXTENDS Integers, Sequences, SequencesExt, FiniteSets

CONSTANTS
    Services,   \* rows of the service page
    Namespaces, \* rows of the namespace page
    NameOf,     \* the name of a row; namespaces are known by it, services are not
    LabelsOf,   \* the label keys of a row, in their order
    Editable,   \* the rows whose user may edit them
    Keys,       \* label keys
    NoKey,      \* the empty key
    MaxPairs,   \* label inputs on the screen: a bound
    Saves,      \* slots of saves under way: a bound
    Typed,      \* what was typed or chosen, and passes the rules
    Nothing     \* an empty field, an empty slice, no save

Row      == Services \cup Namespaces
Value    == Row \cup {Nothing, Typed}
Pages    == {"services", "namespaces"}
Modes    == {"create", "edit"}
Fields   == {"name", "text"}
Pair     == Keys \cup {NoKey}     \* a key, with a value; or one of the two is missing
Labels   == SUBSET Pair
Drawer   == [visible : BOOLEAN, mode : Modes, row : Row \cup {Nothing}]
Sent     == [id : Row \cup {Nothing}, name : Value, text : Value, labels : Row \cup {Nothing}]
Save     == [mode : Modes, row : Row \cup {Nothing}, live : BOOLEAN, sent : Sent]

ASSUME EditorAssumption ==
    /\ \A m, n \in Namespaces : NameOf[m] = NameOf[n] => m = n
    /\ LabelsOf \in [Row -> Seq(Keys)]
    /\ NoKey \notin Keys
    /\ MaxPairs \in Nat \ {0}
    /\ Editable \subseteq Row
    /\ {Nothing, Typed} \cap Row = {}
    /\ Typed # Nothing
    /\ Nothing \notin Save \cup {NameOf[r] : r \in Row}

VARIABLES
    page,       \* the page that is open
    drawer,     \* editorState: shown or not, to create or to edit which row
    slice,      \* the editor slice: the row it was filled from
    shown,      \* the fields of the form on the screen
    own,        \* what ServiceEditor's own form object was last set to
    base,       \* the slice when the label inputs were put on the screen
    pairs,      \* keyValuePairs of LabelInput
    labels,     \* the form's field of labels
    save        \* the saves under way

vars == <<page, drawer, slice, shown, own, base, pairs, labels, save>>
form == <<shown, own, base, pairs, labels>>

TypeOK ==
    /\ page \in Pages
    /\ drawer \in Drawer
    /\ drawer.row = Nothing <=> drawer.mode = "create"
    /\ slice \in Row \cup {Nothing}
    /\ shown \in [Fields -> Value]
    /\ own \in Row \cup {Nothing}
    /\ base \in Row \cup {Nothing}
    /\ pairs \in Seq(Pair)
    /\ labels = Nothing \/ labels \in Labels
    /\ save \in [Saves -> Save \cup {Nothing}]

\* The rows of the page that is open.
Rows == IF page = "services" THEN Services ELSE Namespaces

Closed == [visible |-> FALSE, mode |-> "create", row |-> Nothing]

-----------------------------------------------------------------------------
(* The editor on the screen *)

\* Labels of a slice: the empty slice has one label, with an empty key.
KeysOf(s) == IF s = Nothing THEN {NoKey} ELSE Range(LabelsOf[s])

\* LabelInput starts with a pair of inputs for each label; without labels, with none.
PairsOf(s) ==
    IF s = Nothing THEN <<NoKey>> ELSE LabelsOf[s]

\* initialData of the fields.
Initial(s) == [f \in Fields |-> s]

\* NamespaceEditor sets its fields from the slice when it edits a row.
Sets(d) == page = "namespaces" /\ d.mode = "edit"

\* Mutant: an editor that is told apart by its mode and by being visible only.
KeyWithoutName(d) == <<d.mode, d.visible>>

\* The key of the editor: another key makes another editor.
KeyOf(d) == <<d.mode, IF d.row = Nothing THEN Nothing ELSE NameOf[d.row], d.visible>>

\* A new editor.
Mounted(d, s) ==
    /\ base' = s
    /\ pairs' = PairsOf(s)
    /\ shown' = Initial(s)
    /\ labels' = IF Sets(d) THEN KeysOf(s) ELSE Nothing
    /\ own' = IF page = "services" /\ d.visible THEN s ELSE Nothing

\* Mutant: the effect looks at the drawer only.
ServiceSetOnce(s) ==
    UNCHANGED <<own, shown, labels>>

\* ServiceEditor's effect sets the form object that is not the one on the screen.
ServiceSet(s) ==
    /\ own' = IF s # Nothing THEN s ELSE own
    /\ UNCHANGED <<shown, labels>>

\* NamespaceEditor's effect: what was typed is gone, if a field of the slice is another
\* object than before.
NamespaceSet(d, s) ==
    /\ \/ Sets(d) /\ shown' = Initial(s) /\ labels' = KeysOf(s)
       \/ UNCHANGED <<shown, labels>>
    /\ UNCHANGED own

\* The editor that is there sees another drawer or another slice.
Kept(d, s) ==
    /\ \/ page = "services" /\ ServiceSet(s)
       \/ page = "namespaces" /\ NamespaceSet(d, s)
    /\ UNCHANGED <<base, pairs>>

Show(d, s) ==
    /\ drawer' = d
    /\ slice' = s
    /\ IF KeyOf(d) = KeyOf(drawer) THEN Kept(d, s) ELSE Mounted(d, s)

Init ==
    /\ page \in Pages
    /\ drawer = Closed
    /\ slice = Nothing
    /\ shown = Initial(Nothing)
    /\ own = Nothing
    /\ base = Nothing
    /\ pairs = PairsOf(Nothing)
    /\ labels = Nothing
    /\ save = [w \in Saves |-> Nothing]

-----------------------------------------------------------------------------
(* Opening and closing *)

\* Mutant: the button is there for every row.
EveryButton == Services

\* The button of a row that may not be edited is disabled.
ServiceButtons == Services \cap Editable

NamespaceButtons == Namespaces \cap Editable

EditService(row) ==
    /\ page = "services"
    /\ row \in ServiceButtons
    /\ Show([visible |-> TRUE, mode |-> "edit", row |-> row], row)
    /\ UNCHANGED <<page, save>>

EditNamespace(row) ==
    /\ page = "namespaces"
    /\ row \in NamespaceButtons
    /\ Show([visible |-> TRUE, mode |-> "edit", row |-> row], row)
    /\ UNCHANGED <<page, save>>

\* Mutant: the drawer is opened on the slice as it is.
NotReset == slice

\* resetService.
ResetService == Nothing

CreateService ==
    /\ page = "services"
    /\ Show([visible |-> TRUE, mode |-> "create", row |-> Nothing], ResetService)
    /\ UNCHANGED <<page, save>>

\* The slice of namespaces is never reset.
CreateNamespace ==
    /\ page = "namespaces"
    /\ Show([visible |-> TRUE, mode |-> "create", row |-> Nothing], slice)
    /\ UNCHANGED <<page, save>>

\* Mutant: a drawer that is not shown is one to create.
HiddenNew(d) == [d EXCEPT !.visible = FALSE, !.mode = "create"]

\* A closed drawer still has its mode and its row.
Hidden(d) == [d EXCEPT !.visible = FALSE]

\* closeDrawer of each page.
Emptied == IF page = "services" THEN Nothing ELSE slice

\* The drawer's own button, and the second button of NamespaceEditor.
CloseDrawer ==
    /\ drawer.visible
    /\ Show(Hidden(drawer), Emptied)
    /\ UNCHANGED <<page, save>>

\* The page is left and opened again: a new closed drawer over the slice as it was.
Revisit ==
    /\ drawer' = Closed
    /\ Mounted(Closed, slice)
    /\ save' = [w \in Saves |-> IF save[w] = Nothing THEN Nothing
                                ELSE [save[w] EXCEPT !.live = FALSE]]
    /\ UNCHANGED <<page, slice>>

-----------------------------------------------------------------------------
(* The fields *)

\* The name of a row that is edited cannot be typed; what does not pass the rules
\* is like nothing.
Type(f, v) ==
    /\ drawer.visible
    /\ f = "name" => drawer.mode = "create"
    /\ shown' = [shown EXCEPT ![f] = v]
    /\ UNCHANGED <<page, drawer, slice, own, base, pairs, labels, save>>

\* The second button of ServiceEditor: fields are emptied, or as they were at first.
ResetForm(v) ==
    /\ drawer.visible
    /\ page = "services"
    /\ shown' = Initial(v)
    /\ labels' = Nothing
    /\ UNCHANGED <<page, drawer, slice, own, base, pairs, save>>

\* onChange of the editors: the labels of the slice and this one, when it is complete.
Changed(pair) ==
    IF pair # NoKey THEN KeysOf(slice) \cup {pair} ELSE labels

\* handleKeyChange, handleValueChange.
EditPair(i, pair) ==
    /\ drawer.visible
    /\ pairs' = [pairs EXCEPT ![i] = pair]
    /\ labels' = Changed(pair)
    /\ UNCHANGED <<page, drawer, slice, shown, own, base, save>>

AddPair ==
    /\ drawer.visible
    /\ Len(pairs) \in 1 .. MaxPairs - 1
    /\ pairs' = Append(pairs, NoKey)
    /\ UNCHANGED <<page, drawer, slice, shown, own, base, labels, save>>

\* One pair of inputs always stays.
Remaining(i) == IF Len(pairs) = 1 THEN <<NoKey>> ELSE RemoveAt(pairs, i)

\* A pair without a value may still have a key.
RemovePair(i, key) ==
    /\ drawer.visible
    /\ pairs[i] \in {key, NoKey}
    /\ pairs' = Remaining(i)
    /\ labels' = KeysOf(slice) \ {key}
    /\ UNCHANGED <<page, drawer, slice, shown, own, base, save>>

-----------------------------------------------------------------------------
(* Saving *)

\* validateResult: a service always needs a name, a namespace only a new one.
Valid == shown.name # Nothing \/ (page = "namespaces" /\ drawer.mode = "edit")

\* The fields of a service come from the form object that is not on the screen: it has
\* what it was set to, or keeps nothing at all.
ServiceSent(v) ==
    [id |-> IF drawer.mode = "edit" THEN slice ELSE Nothing, name |-> v, text |-> v, labels |-> v]

\* Labels of a namespace are those of the slice.
NamespaceSent ==
    [id |-> Nothing, name |-> shown.name, text |-> shown.text, labels |-> slice]

\* The thunk that is dispatched, which creates or updates as the drawer's mode has it.
Started(sent) ==
    [mode |-> drawer.mode, row |-> drawer.row, live |-> TRUE, sent |-> sent]

\* onSubmit: the form stays as it is while the save is under way.
Submit(w, sent) ==
    /\ drawer.visible
    /\ Valid
    /\ save[w] = Nothing
    /\ save' = [save EXCEPT ![w] = Started(sent)]
    /\ UNCHANGED <<page, drawer, slice, form>>

\* closeDrawer is called after a save that failed too, for the drawer that is open now.
Closing(w) == IF save[w].live THEN Hidden(drawer) ELSE drawer

\* A save ends, well or not.
Answer(w) ==
    /\ save[w] # Nothing
    /\ save' = [save EXCEPT ![w] = Nothing]
    /\ Show(Closing(w), Emptied)
    /\ UNCHANGED page

OpenOrClose ==
    \/ \E row \in Row : EditService(row) \/ EditNamespace(row)
    \/ CreateService
    \/ CreateNamespace
    \/ CloseDrawer
    \/ Revisit

LabelInput ==
    \/ \E i \in DOMAIN pairs, pair \in Pair : EditPair(i, pair)
    \/ AddPair
    \/ \E i \in DOMAIN pairs, key \in Pair : RemovePair(i, key)

Next ==
    \/ OpenOrClose
    \/ \E f \in Fields, v \in {Typed, Nothing} : Type(f, v)
    \/ \E v \in {base, Nothing} : ResetForm(v)
    \/ LabelInput
    \/ \E w \in Saves, sent \in IF page = "services" THEN {ServiceSent(v) : v \in {own, Nothing}} ELSE {NamespaceSent} :
          Submit(w, sent)
    \/ \E w \in Saves : Answer(w)

Spec == Init /\ [][Next]_vars

-----------------------------------------------------------------------------
(* Properties *)

\* The rows that values come from.
Origins(sent) ==
    {sent.id, sent.name, sent.text, sent.labels} \cap Row

\* An update is of the row its drawer was opened for, and of no other: whatever drawers
\* were opened, whatever answers came late and reset the slice in between, no field of
\* another row is sent with it (onSubmit reads the slice and the form).
UpdateIsOfOneRow ==
    \A w \in Saves : save[w] # Nothing /\ save[w].mode = "edit" =>
        Origins(save[w].sent) \subseteq {save[w].row}

\* Nothing of a row that may not be edited is ever sent, in whatever drawer the editor
\* slice was left behind: the disabled button is the only guard (the action column).
OnlyEditableSent ==
    \A w \in Saves : save[w] # Nothing => Origins(save[w].sent) \subseteq Editable

\* A new service takes nothing over from a service that was edited before.
NewServiceIsNew ==
    page = "services" =>
        \A w \in Saves : save[w] # Nothing /\ save[w].mode = "create" =>
            Origins(save[w].sent) = {}

\* What is sent belongs to the drawer it was sent from, and to rows that may be edited.
SentBelongs == UpdateIsOfOneRow /\ OnlyEditableSent /\ NewServiceIsNew

\* What the form of an edit drawer shows, its label inputs included, was typed or is of
\* the row the drawer was opened for: another row can be picked beside the open drawer,
\* and the inputs never look at their labels again.  Services of one name share an
\* editor, whose fields may still be those of the other one.
ShownBelongs ==
    drawer.visible /\ drawer.mode = "edit" =>
        \A r \in {shown.name, shown.text, base} \cap Row : NameOf[r] = NameOf[drawer.row]

\* Label inputs never run out while their editor stays: with none there is no button to
\* add one.
InputsStay ==
    [][drawer.visible /\ pairs # <<>> /\ KeyOf(drawer') = KeyOf(drawer) => pairs' # <<>>]_vars
=============================================================================
