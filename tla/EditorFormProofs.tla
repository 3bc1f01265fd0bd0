-------------------------- MODULE EditorFormProofs --------------------------
(* Machine-checked facts about EditorForm, for every value of its constants: *)
(* any rows, names and labels, any number of saves under way.                *)
EXTENDS EditorForm, TLAPS

\* The rows of the page that may be edited: what a slice or a field comes from.
Open == Rows \cap Editable

FormTypes ==
    /\ page \in Pages
    /\ drawer \in Drawer
    /\ drawer.row = Nothing <=> drawer.mode = "create"
    /\ drawer.row \in Open \cup {Nothing}
    /\ slice \in Open \cup {Nothing}
    /\ own \in Open \cup {Nothing}
    /\ base \in Open \cup {Nothing}
    /\ shown \in [Fields -> Open \cup {Nothing, Typed}]

\* A drawer that edits holds what its row has, or nothing.
EditInv ==
    drawer.visible /\ drawer.mode = "edit" =>
        /\ page = "services" =>
              /\ slice \in {drawer.row, Nothing}
              /\ own \in {drawer.row, Nothing}
              /\ base \in Row => NameOf[base] = NameOf[drawer.row]
        /\ page = "namespaces" =>
              /\ slice = drawer.row /\ base = drawer.row
              /\ shown.name = drawer.row
              /\ shown.text \in {drawer.row, Nothing, Typed}

\* A drawer that creates a service starts from nothing.
CreateInv ==
    drawer.visible /\ drawer.mode = "create" /\ page = "services" =>
        slice = Nothing /\ own = Nothing

FormInv == FormTypes /\ EditInv /\ CreateInv /\ ShownBelongs

SaveInv ==
    /\ save \in [Saves -> Save \cup {Nothing}]
    /\ UpdateIsOfOneRow /\ OnlyEditableSent /\ NewServiceIsNew

IInv == FormInv /\ SaveInv

\* What an action may show: a drawer for a row that may be edited, over a slice that is
\* the row's or nobody's.
MayShow(d, s) ==
    /\ d \in Drawer
    /\ d.row = Nothing <=> d.mode = "create"
    /\ d.row \in Open \cup {Nothing}
    /\ s \in Open \cup {Nothing}
    /\ d.visible /\ d.mode = "edit" =>
          s = d.row \/ (page = "services" /\ s = Nothing /\ d.row = drawer.row)
    /\ d.visible /\ d.mode = "create" =>
          IF page = "services" THEN s = Nothing ELSE s = slice

\* A row is no sentinel, and neither is a label set.
LEMMA Sentinels ==
  /\ Nothing \notin Row /\ Typed \notin Row /\ Typed # Nothing
  /\ Open \subseteq Row /\ Open \subseteq Editable
  /\ Nothing \notin Save
  /\ \A r \in Row : NameOf[r] # Nothing
  BY EditorAssumption DEF Open, Rows, Row

\* The key of a drawer tells its mode, whether it is shown and the name of its row.
LEMMA SameKey ==
  ASSUME NEW d \in Drawer, NEW e \in Drawer, KeyOf(d) = KeyOf(e),
         d.row = Nothing <=> d.mode = "create", e.row = Nothing <=> e.mode = "create"
  PROVE  /\ d.mode = e.mode /\ d.visible = e.visible
         /\ d.mode = "edit" => NameOf[d.row] = NameOf[e.row]
  BY DEF KeyOf

\* A new editor starts from the slice it is given.
LEMMA MountedKeeps ==
  ASSUME FormInv, NEW d, NEW s, MayShow(d, s), page' = page, drawer' = d, slice' = s, Mounted(d, s)
  PROVE  FormInv'
<1> USE Sentinels DEF MayShow
<1>1. Open' = Open
  BY DEF Open, Rows
<1>2. /\ shown' = Initial(s) /\ shown'.name = s /\ shown'.text = s /\ base' = s
      /\ own' \in {s, Nothing}
      /\ page = "services" /\ d.visible => own' = s
  BY DEF Mounted, Initial, Fields
<1>3. FormTypes'
  BY <1>1, <1>2 DEF FormInv, FormTypes, Initial
<1>4. EditInv' /\ CreateInv'
  BY <1>2 DEF EditInv, CreateInv, Pages, FormInv, FormTypes
<1>5. ShownBelongs'
  BY <1>2, <1>1 DEF ShownBelongs, FormInv, FormTypes
<1> QED
  BY <1>3, <1>4, <1>5 DEF FormInv

\* An editor that stays sees a row of the same name.
LEMMA KeptKeeps ==
  ASSUME FormInv, NEW d, NEW s, MayShow(d, s), page' = page, drawer' = d, slice' = s,
         KeyOf(d) = KeyOf(drawer), Kept(d, s)
  PROVE  FormInv'
<1> USE Sentinels DEF MayShow
<1>1. Open' = Open
  BY DEF Open, Rows
<1>2. /\ d.mode = drawer.mode /\ d.visible = drawer.visible
      /\ d.mode = "edit" => NameOf[d.row] = NameOf[drawer.row]
  BY SameKey DEF FormInv, FormTypes
<1>3. page = "services" => /\ own' = (IF s # Nothing THEN s ELSE own)
                           /\ UNCHANGED <<shown, labels>>
  BY DEF Kept, ServiceSet
<1>4. page = "namespaces" =>
        /\ UNCHANGED own
        /\ \/ shown' = Initial(s) /\ labels' = KeysOf(s) /\ d.mode = "edit"
           \/ UNCHANGED <<shown, labels>>
  BY DEF Kept, NamespaceSet, Sets
<1>5. base' = base
  BY DEF Kept
<1>6. page = "namespaces" /\ d.visible => d.row = drawer.row /\ s = slice
  <2>1. ASSUME page = "namespaces", d.visible, d.mode = "edit" PROVE d.row = drawer.row /\ s = slice
    <3>1. d.row \in Namespaces /\ drawer.row \in Namespaces
      BY <1>2, <2>1 DEF FormInv, FormTypes, Open, Rows
    <3>2. d.row = drawer.row
      BY <1>2, <2>1, <3>1, EditorAssumption
    <3> QED
      BY <1>2, <2>1, <3>2 DEF FormInv, EditInv
  <2>2. ASSUME page = "namespaces", d.visible, d.mode = "create" PROVE d.row = drawer.row /\ s = slice
    BY <1>2, <2>2 DEF FormInv, FormTypes
  <2> QED
    BY <2>1, <2>2 DEF Drawer, Modes
<1>7. page \in {"services", "namespaces"}
  BY DEF FormInv, FormTypes, Pages
<1>8. FormTypes'
  BY <1>1, <1>3, <1>4, <1>5, <1>7 DEF FormInv, FormTypes, Initial
<1>9. EditInv'
  <2>1. CASE page = "services"
    BY <1>2, <1>3, <1>5, <2>1 DEF FormInv, EditInv
  <2>2. CASE page = "namespaces"
    BY <1>2, <1>4, <1>5, <1>6, <2>2 DEF FormInv, EditInv, Initial, Fields
  <2> QED
    BY <2>1, <2>2, <1>7
<1>10. CreateInv'
  BY <1>2, <1>3 DEF FormInv, CreateInv
<1>11. ShownBelongs'
  <2>1. CASE page = "services"
    BY <1>2, <1>3, <1>5, <2>1 DEF FormInv, ShownBelongs
  <2>2. CASE page = "namespaces"
    BY <1>9, <2>2 DEF EditInv, ShownBelongs
  <2> QED
    BY <2>1, <2>2, <1>7
<1> QED
  BY <1>8, <1>9, <1>10, <1>11 DEF FormInv

\* Showing a drawer and a slice keeps what is known of the form.
LEMMA ShowKeeps ==
  ASSUME FormInv, NEW d, NEW s, MayShow(d, s), page' = page, Show(d, s)
  PROVE  FormInv'
  BY MountedKeeps, KeptKeeps DEF Show

\* The initial state satisfies the inductive invariant.
LEMMA InitIInv == Init => IInv
<1> SUFFICES ASSUME Init PROVE IInv
  OBVIOUS
<1> USE Sentinels DEF Init
<1>1. FormTypes
  BY DEF FormTypes, Initial, Closed, Drawer, Modes
<1>2. EditInv /\ CreateInv /\ ShownBelongs
  BY DEF EditInv, CreateInv, ShownBelongs, Closed
<1>3. SaveInv
  BY DEF SaveInv, UpdateIsOfOneRow, OnlyEditableSent, NewServiceIsNew
<1> QED
  BY <1>1, <1>2, <1>3 DEF IInv, FormInv

\* Saves that are left as they are stay what they were.
LEMMA SavesStay == SaveInv /\ UNCHANGED <<page, save>> => SaveInv'
  BY DEF SaveInv, UpdateIsOfOneRow, OnlyEditableSent, NewServiceIsNew

\* Opening and closing a drawer keeps the invariant.
LEMMA OpenOrCloseStep == IInv /\ OpenOrClose => IInv'
<1> SUFFICES ASSUME IInv, OpenOrClose PROVE IInv'
  OBVIOUS
<1> USE Sentinels
<1>1. ASSUME NEW row \in Row, EditService(row) PROVE IInv'
  <2> DEFINE d == [visible |-> TRUE, mode |-> "edit", row |-> row]
  <2>1. d \in Drawer /\ d.visible /\ d.mode = "edit" /\ d.row = row
    BY DEF Drawer, Modes
  <2>2. row \in Open
    BY <1>1 DEF EditService, ServiceButtons, Open, Rows
  <2>3. MayShow(d, row)
    BY <2>1, <2>2 DEF MayShow
  <2> QED
    BY <1>1, <2>3, ShowKeeps, SavesStay DEF EditService, IInv
<1>2. ASSUME NEW row \in Row, EditNamespace(row) PROVE IInv'
  <2> DEFINE d == [visible |-> TRUE, mode |-> "edit", row |-> row]
  <2>1. d \in Drawer /\ d.visible /\ d.mode = "edit" /\ d.row = row
    BY DEF Drawer, Modes
  <2>2. row \in Open
    BY <1>2 DEF EditNamespace, NamespaceButtons, Open, Rows
  <2>3. MayShow(d, row)
    BY <2>1, <2>2 DEF MayShow
  <2> QED
    BY <1>2, <2>3, ShowKeeps, SavesStay DEF EditNamespace, IInv
<1>3. CASE CreateService \/ CreateNamespace
  <2> DEFINE d == [visible |-> TRUE, mode |-> "create", row |-> Nothing]
  <2>1. d \in Drawer /\ d.visible /\ d.mode = "create" /\ d.row = Nothing
    BY DEF Drawer, Modes
  <2>2. CreateService => MayShow(d, Nothing)
    BY <2>1 DEF MayShow, CreateService
  <2>3. CreateNamespace => MayShow(d, slice)
    BY <2>1 DEF MayShow, CreateNamespace, IInv, FormInv, FormTypes
  <2> QED
    BY <1>3, <2>2, <2>3, ShowKeeps, SavesStay DEF CreateService, CreateNamespace, ResetService, IInv
<1>4. CASE CloseDrawer
  <2>1. /\ Hidden(drawer) \in Drawer
        /\ ~Hidden(drawer).visible
        /\ Hidden(drawer).mode = drawer.mode /\ Hidden(drawer).row = drawer.row
    BY DEF Hidden, Drawer, IInv, FormInv, FormTypes
  <2>2. MayShow(Hidden(drawer), Emptied)
    BY <2>1 DEF MayShow, Emptied, IInv, FormInv, FormTypes
  <2> QED
    BY <1>4, <2>2, ShowKeeps, SavesStay DEF CloseDrawer, IInv
<1>5. CASE Revisit
  <2>1. MayShow(Closed, slice)
    BY DEF MayShow, Closed, Drawer, Modes, IInv, FormInv, FormTypes
  <2>2. FormInv'
    BY <1>5, <2>1, MountedKeeps DEF Revisit, IInv
  <2>3. ASSUME NEW w \in Saves
        PROVE  /\ save'[w] \in Save \cup {Nothing}
               /\ save'[w] # Nothing => /\ save[w] # Nothing
                                        /\ save'[w].sent = save[w].sent
                                        /\ save'[w].row = save[w].row
                                        /\ save'[w].mode = save[w].mode
    <3>1. CASE save[w] = Nothing
      BY <1>5, <3>1 DEF Revisit
    <3>2. CASE save[w] # Nothing
      <4>1. save[w] \in Save
        BY <3>2 DEF IInv, SaveInv
      <4>2. save'[w] = [save[w] EXCEPT !.live = FALSE]
        BY <1>5, <3>2 DEF Revisit
      <4> QED
        BY <3>2, <4>1, <4>2 DEF Save
    <3> QED
      BY <3>1, <3>2
  <2>4. save' \in [Saves -> Save \cup {Nothing}] /\ page' = page
    BY <1>5, <2>3 DEF Revisit
  <2>5. SaveInv'
    BY <2>3, <2>4 DEF IInv, SaveInv, UpdateIsOfOneRow, OnlyEditableSent, NewServiceIsNew
  <2> QED
    BY <2>2, <2>5 DEF IInv
<1> QED
  BY <1>1, <1>2, <1>3, <1>4, <1>5 DEF OpenOrClose

\* Typing, and the second button of ServiceEditor, keep the invariant.
LEMMA FieldStep ==
  ASSUME IInv,
         \/ \E f \in Fields, v \in {Typed, Nothing} : Type(f, v)
         \/ \E v \in {base, Nothing} : ResetForm(v)
  PROVE  IInv'
<1> USE Sentinels
<1>1. ASSUME NEW f \in Fields, NEW v \in {Typed, Nothing}, Type(f, v) PROVE IInv'
  <2>1. /\ UNCHANGED <<page, drawer, slice, own, base, labels, save>>
        /\ shown' = [shown EXCEPT ![f] = v]
        /\ shown'.name = shown.name \/ (drawer.mode = "create" /\ shown'.name = v)
        /\ shown'.text = shown.text \/ shown'.text = v
    BY <1>1 DEF Type, IInv, FormInv, FormTypes, Fields
  <2>2. Open' = Open
    BY <2>1 DEF Open, Rows
  <2>3. FormTypes'
    BY <2>1, <2>2 DEF IInv, FormInv, FormTypes
  <2>4. EditInv' /\ CreateInv' /\ ShownBelongs'
    BY <2>1 DEF IInv, FormInv, EditInv, CreateInv, ShownBelongs
  <2> QED
    BY <2>1, <2>3, <2>4, SavesStay DEF IInv, FormInv
<1>2. ASSUME NEW v \in {base, Nothing}, ResetForm(v) PROVE IInv'
  <2>1. /\ UNCHANGED <<page, drawer, slice, own, base, save>>
        /\ page = "services"
        /\ shown' = Initial(v) /\ shown'.name = v /\ shown'.text = v
    BY <1>2 DEF ResetForm, Initial, Fields
  <2>2. Open' = Open
    BY <2>1 DEF Open, Rows
  <2>3. FormTypes'
    BY <2>1, <2>2 DEF IInv, FormInv, FormTypes, Initial
  <2>4. EditInv' /\ CreateInv' /\ ShownBelongs'
    BY <2>1 DEF IInv, FormInv, EditInv, CreateInv, ShownBelongs
  <2> QED
    BY <2>1, <2>3, <2>4, SavesStay DEF IInv, FormInv
<1> QED
  BY <1>1, <1>2

\* The label inputs disturb themselves and the field of labels only.
LEMMA LabelStep == IInv /\ LabelInput => IInv'
<1> SUFFICES ASSUME IInv, LabelInput PROVE IInv'
  OBVIOUS
<1>1. UNCHANGED <<page, drawer, slice, shown, own, base, save>>
  BY DEF LabelInput, EditPair, AddPair, RemovePair
<1>2. Open' = Open
  BY <1>1 DEF Open, Rows
<1>3. FormTypes' /\ EditInv' /\ CreateInv' /\ ShownBelongs'
  BY <1>1, <1>2 DEF IInv, FormInv, FormTypes, EditInv, CreateInv, ShownBelongs
<1> QED
  BY <1>1, <1>3, SavesStay DEF IInv, FormInv

\* What a submission sends, by page.
Submission(sent) ==
    IF page = "services" THEN \E v \in {own, Nothing} : sent = ServiceSent(v) ELSE sent = NamespaceSent

\* A submission sends nothing but what belongs to its drawer.
LEMMA SubmitStep ==
  ASSUME IInv, NEW w \in Saves, NEW sent, Submission(sent), Submit(w, sent)
  PROVE  IInv'
<1> USE Sentinels
<1>1. /\ UNCHANGED <<page, drawer, slice, shown, own, base, labels>>
      /\ save' = [save EXCEPT ![w] = Started(sent)]
      /\ drawer.visible
  BY DEF Submit, form
<1>2. FormInv'
  <2>1. Open' = Open
    BY <1>1 DEF Open, Rows
  <2> QED
    BY <1>1, <2>1 DEF IInv, FormInv, FormTypes, EditInv, CreateInv, ShownBelongs
<1>3. /\ drawer \in Drawer /\ drawer.mode \in Modes /\ drawer.row \in Open \cup {Nothing}
      /\ slice \in Open \cup {Nothing} /\ own \in Open \cup {Nothing}
      /\ shown.name \in Open \cup {Nothing, Typed} /\ shown.text \in Open \cup {Nothing, Typed}
  BY DEF IInv, FormInv, FormTypes, Drawer, Fields
<1>4. /\ sent \in Sent
      /\ {sent.id, sent.name, sent.text, sent.labels} \subseteq Open \cup {Nothing, Typed}
  BY <1>3 DEF Submission, ServiceSent, NamespaceSent, Sent, Value
<1>5. Started(sent) \in Save
  BY <1>3, <1>4 DEF Started, Save
<1>6. /\ Started(sent).sent = sent /\ Started(sent).mode = drawer.mode
      /\ Started(sent).row = drawer.row
  BY DEF Started
<1>7. drawer.mode = "edit" => Origins(sent) \subseteq {drawer.row}
  <2>1. CASE page = "services"
    BY <1>1, <2>1 DEF Submission, ServiceSent, Origins, IInv, FormInv, EditInv
  <2>2. CASE page = "namespaces"
    BY <1>1, <2>2 DEF Submission, NamespaceSent, Origins, IInv, FormInv, EditInv
  <2> QED
    BY <2>1, <2>2 DEF IInv, FormInv, FormTypes, Pages
<1>8. Origins(sent) \subseteq Editable
  BY <1>4 DEF Origins
<1>9. page = "services" /\ drawer.mode = "create" => Origins(sent) = {}
  BY <1>1 DEF Submission, ServiceSent, Origins, IInv, FormInv, CreateInv
<1>10. SaveInv'
  <2>1. save' \in [Saves -> Save \cup {Nothing}]
    BY <1>1, <1>5 DEF IInv, SaveInv
  <2>2. \A u \in Saves : save'[u] = IF u = w THEN Started(sent) ELSE save[u]
    BY <1>1 DEF IInv, SaveInv
  <2>3. UpdateIsOfOneRow'
    BY <1>6, <1>7, <2>2 DEF IInv, SaveInv, UpdateIsOfOneRow
  <2>4. OnlyEditableSent'
    BY <1>6, <1>8, <2>2 DEF IInv, SaveInv, OnlyEditableSent
  <2>5. NewServiceIsNew'
    BY <1>1, <1>6, <1>9, <2>2 DEF IInv, SaveInv, NewServiceIsNew
  <2> QED
    BY <2>1, <2>3, <2>4, <2>5 DEF SaveInv
<1> QED
  BY <1>2, <1>10 DEF IInv

\* A late answer closes the drawer of its own page, or none.
LEMMA AnswerStep ==
  ASSUME IInv, NEW w \in Saves, Answer(w)
  PROVE  IInv'
<1> USE Sentinels
<1>1. Closing(w) = drawer \/ Closing(w) = Hidden(drawer)
  BY DEF Closing
<1>2. /\ Hidden(drawer) \in Drawer
      /\ ~Hidden(drawer).visible
      /\ Hidden(drawer).mode = drawer.mode /\ Hidden(drawer).row = drawer.row
  BY DEF Hidden, Drawer, IInv, FormInv, FormTypes
<1>3. MayShow(Hidden(drawer), Emptied)
  BY <1>2 DEF MayShow, Emptied, IInv, FormInv, FormTypes
<1>4. MayShow(drawer, Emptied)
  BY DEF MayShow, Emptied, IInv, FormInv, FormTypes, EditInv, CreateInv, Pages
<1>5. FormInv'
  BY <1>1, <1>3, <1>4, ShowKeeps DEF Answer, IInv
<1>6. SaveInv'
  <2>1. save' = [save EXCEPT ![w] = Nothing] /\ page' = page
    BY DEF Answer
  <2>2. \A u \in Saves : save'[u] = IF u = w THEN Nothing ELSE save[u]
    BY <2>1 DEF IInv, SaveInv
  <2> QED
    BY <2>1, <2>2 DEF IInv, SaveInv, UpdateIsOfOneRow, OnlyEditableSent, NewServiceIsNew
<1> QED
  BY <1>5, <1>6 DEF IInv

\* A step that changes nothing keeps the invariant.
LEMMA StutterStep == IInv /\ UNCHANGED vars => IInv'
<1> SUFFICES ASSUME IInv, UNCHANGED vars PROVE IInv'
  OBVIOUS
<1>1. Open' = Open
  BY DEF vars, Open, Rows
<1> QED
  BY <1>1, SavesStay DEF vars, IInv, FormInv, FormTypes, EditInv, CreateInv, ShownBelongs

\* The inductive invariant holds in every reachable state.
THEOREM EditorInv == Spec => []IInv
<1>1. IInv /\ [Next]_vars => IInv'
  <2> SUFFICES ASSUME IInv, [Next]_vars PROVE IInv'
    OBVIOUS
  <2>1. ASSUME NEW w \in Saves,
               NEW sent \in IF page = "services" THEN {ServiceSent(v) : v \in {own, Nothing}} ELSE {NamespaceSent},
               Submit(w, sent)
        PROVE  IInv'
    <3>1. Submission(sent)
      BY DEF Submission
    <3> QED
      BY <2>1, <3>1, SubmitStep
  <2> QED
    BY <2>1, OpenOrCloseStep, FieldStep, LabelStep, AnswerStep, StutterStep DEF Next
<1> QED
  BY InitIInv, <1>1, PTL DEF Spec

\* No update carries a field of another row than its drawer's.
THEOREM EditorUpdates == Spec => []UpdateIsOfOneRow
  BY EditorInv, PTL DEF IInv, SaveInv

\* Nothing of a row that may not be edited is ever sent.
THEOREM EditorEditable == Spec => []OnlyEditableSent
  BY EditorInv, PTL DEF IInv, SaveInv

\* A new service takes nothing over from another.
THEOREM EditorNewService == Spec => []NewServiceIsNew
  BY EditorInv, PTL DEF IInv, SaveInv

\* An edit form, its label inputs included, shows what was typed or is of a row of the
\* name its drawer was opened for; of namespaces that is the row itself.
THEOREM EditorShown == Spec => []ShownBelongs
  BY EditorInv, PTL DEF IInv, FormInv

-----------------------------------------------------------------------------
(* The label inputs *)

InputTypes ==
    /\ pairs \in Seq(Pair)
    /\ labels = Nothing \/ labels \in Labels

\* The labels of a slice are labels, and the inputs made from them are pairs.
LEMMA SliceLabels ==
  ASSUME NEW s \in Row \cup {Nothing}
  PROVE  KeysOf(s) \in Labels /\ PairsOf(s) \in Seq(Pair)
<1>1. CASE s = Nothing
  BY <1>1 DEF KeysOf, PairsOf, Labels, Pair
<1>2. CASE s # Nothing
  <2>1. LabelsOf[s] \in Seq(Keys)
    BY <1>2, EditorAssumption
  <2>2. \A i \in DOMAIN LabelsOf[s] : LabelsOf[s][i] \in Keys
    BY <2>1
  <2>3. KeysOf(s) \subseteq Keys
    BY <1>2, <2>2 DEF KeysOf, Range
  <2>4. LabelsOf[s] \in Seq(Pair)
    BY <2>1 DEF Pair
  <2> QED
    BY <1>2, <2>3, <2>4 DEF PairsOf, Labels, Pair
<1> QED
  BY <1>1, <1>2

\* Taking a pair off the screen leaves pairs, and at least one.
LEMMA RemainingPairs ==
  ASSUME pairs \in Seq(Pair), NEW i \in DOMAIN pairs
  PROVE  Remaining(i) \in Seq(Pair) /\ Remaining(i) # <<>>
<1>1. CASE Len(pairs) = 1
  BY <1>1 DEF Remaining, Pair
<1>2. CASE Len(pairs) # 1
  <2>1. Len(pairs) \in Nat /\ i \in 1 .. Len(pairs) /\ Len(pairs) > 1
    <3>1. Len(pairs) \in Nat /\ DOMAIN pairs = 1 .. Len(pairs)
      OBVIOUS
    <3> QED
      BY <1>2, <3>1
  <2> DEFINE front == SubSeq(pairs, 1, i - 1)
             back  == SubSeq(pairs, i + 1, Len(pairs))
  <2>2. front \in Seq(Pair) /\ Len(front) = i - 1
    BY <2>1
  <2>3. back \in Seq(Pair) /\ Len(back) = Len(pairs) - i
    BY <2>1
  <2>4. Remaining(i) = front \o back
    BY <1>2 DEF Remaining, RemoveAt
  <2> HIDE DEF front, back
  <2>5. front \o back \in Seq(Pair) /\ Len(front \o back) = Len(pairs) - 1
    BY <2>1, <2>2, <2>3
  <2> QED
    BY <2>1, <2>4, <2>5
<1> QED
  BY <1>1, <1>2

\* What a step of the label inputs does to the pairs.
LEMMA LabelPairs ==
  ASSUME InputTypes, slice \in Row \cup {Nothing}, LabelInput
  PROVE  InputTypes' /\ (pairs # <<>> => pairs' # <<>>)
<1>1. KeysOf(slice) \in Labels
  BY SliceLabels
<1>2. ASSUME NEW i \in DOMAIN pairs, NEW pair \in Pair, EditPair(i, pair) PROVE InputTypes' /\ pairs' # <<>>
  BY <1>1, <1>2 DEF EditPair, Changed, InputTypes, Labels
<1>3. CASE AddPair
  BY <1>3 DEF AddPair, InputTypes, Pair
<1>4. ASSUME NEW i \in DOMAIN pairs, NEW key \in Pair, RemovePair(i, key) PROVE InputTypes' /\ pairs' # <<>>
  BY <1>1, <1>4, RemainingPairs DEF RemovePair, InputTypes, Labels
<1> QED
  BY <1>2, <1>3, <1>4 DEF LabelInput

\* Showing a drawer makes the inputs of its slice, or leaves them as they are.
LEMMA ShowPairs ==
  ASSUME InputTypes, NEW d, NEW s \in Row \cup {Nothing}, Show(d, s)
  PROVE  /\ InputTypes'
         /\ KeyOf(d) = KeyOf(drawer) => pairs' = pairs
         /\ drawer' = d
  BY SliceLabels DEF Show, Mounted, Kept, ServiceSet, NamespaceSet, InputTypes

\* The slices that are shown are a row's, or empty.
LEMMA InputStep ==
  ASSUME IInv, InputTypes, [Next]_vars
  PROVE  /\ InputTypes'
         /\ drawer.visible /\ pairs # <<>> /\ KeyOf(drawer') = KeyOf(drawer) => pairs' # <<>>
<1> USE Sentinels
<1>1. slice \in Row \cup {Nothing} /\ base \in Row \cup {Nothing}
  BY DEF IInv, FormInv, FormTypes
<1>2. Emptied \in Row \cup {Nothing}
  BY <1>1 DEF Emptied
<1>3. CASE (OpenOrClose /\ ~Revisit) \/ \E w \in Saves : Answer(w)
  <2>1. \E d, s : s \in Row \cup {Nothing} /\ Show(d, s)
    BY <1>1, <1>2, <1>3 DEF OpenOrClose, EditService, EditNamespace, CreateService, CreateNamespace,
       CloseDrawer, Answer, ResetService
  <2> QED
    BY <2>1, ShowPairs
<1>4. CASE Revisit
  <2>1. InputTypes'
    BY <1>1, <1>4, SliceLabels DEF Revisit, Mounted, InputTypes
  <2>2. drawer.visible => KeyOf(drawer') # KeyOf(drawer)
    BY <1>4 DEF Revisit, Closed, KeyOf
  <2> QED
    BY <2>1, <2>2
<1>5. CASE LabelInput
  BY <1>1, <1>5, LabelPairs
<1>6. CASE \/ \E f \in Fields, v \in {Typed, Nothing} : Type(f, v)
           \/ \E v \in {base, Nothing} : ResetForm(v)
           \/ \E w \in Saves, sent \in IF page = "services" THEN {ServiceSent(v) : v \in {own, Nothing}} ELSE {NamespaceSent} :
                 Submit(w, sent)
           \/ UNCHANGED vars
  <2>1. pairs' = pairs /\ (labels' = labels \/ labels' = Nothing)
    BY <1>6 DEF Type, ResetForm, Submit, form, vars
  <2> QED
    BY <2>1 DEF InputTypes
<1> QED
  BY <1>3, <1>4, <1>5, <1>6 DEF Next

\* The inputs are well typed in every reachable state.
LEMMA InputsTyped == Spec => []InputTypes
<1>1. Init => InputTypes
  BY SliceLabels DEF Init, InputTypes
<1>2. IInv /\ InputTypes /\ [Next]_vars => InputTypes'
  BY InputStep
<1> QED
  BY <1>1, <1>2, EditorInv, PTL DEF Spec

\* Type correctness of the form, its inputs and the saves under way.
THEOREM EditorTypes == Spec => []TypeOK
<1>1. IInv /\ InputTypes => TypeOK
  BY Sentinels DEF IInv, FormInv, FormTypes, SaveInv, InputTypes, TypeOK, Value
<1> QED
  BY <1>1, EditorInv, InputsTyped, PTL

\* Label inputs never run out while their editor stays.
THEOREM EditorInputs == Spec => InputsStay
<1>1. IInv /\ InputTypes /\ [Next]_vars =>
        [drawer.visible /\ pairs # <<>> /\ KeyOf(drawer') = KeyOf(drawer) => pairs' # <<>>]_vars
  BY InputStep
<1> QED
  BY <1>1, EditorInv, InputsTyped, PTL DEF Spec, InputsStay

\* What is sent belongs to the drawer it was sent from, and to rows that may be edited.
THEOREM EditorSent == Spec => []SentBelongs
<1>1. UpdateIsOfOneRow /\ OnlyEditableSent /\ NewServiceIsNew => SentBelongs
  BY DEF SentBelongs
<1> QED
  BY <1>1, EditorUpdates, EditorEditable, EditorNewService, PTL
=============================================================================
