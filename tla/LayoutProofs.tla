---------------------------- MODULE LayoutProofs ----------------------------
(* Machine-checked facts about Layout, for any colours and any places of them in     *)
(* their palettes, and for windows of any width.                                     *)
EXTENDS Layout, SequenceTheorems, TLAPS

\* Before the effect of the layout has run nobody has opened the drawer or picked a
\* colour.
BeforeMount == ~mounted => ~setting /\ themeColor = None

IInv ==
    /\ TypeOK /\ BeforeMount
    /\ ThemeEverywhere /\ FollowsOnlyDark /\ RadioTellsTheme /\ SheetFits
    /\ WidthDecides

\* The initial state satisfies the inductive invariant.
LEMMA InitIInv == Init => IInv
<1> SUFFICES ASSUME Init PROVE IInv
  OBVIOUS
<1> USE LayoutAssumption
<1>1. stored \in Stored /\ theme = "light" /\ systemTheme = FALSE
  BY DEF Init, ThemeIn, Stored
<1>2. TypeOK
  <2>1. color \in Colors /\ width \in Widths /\ sheets = {} /\ os \in Themes
    BY DEF Init
  <2>2. chartColors = "light" /\ selected = "light" /\ themeMode = None /\ themeColor = None
    BY <1>1 DEF Init
  <2>3. /\ setting = FALSE /\ resized = FALSE /\ mounted = FALSE /\ gone = FALSE
        /\ apart = FALSE /\ refused = FALSE /\ byWidth = TRUE /\ collapsed \in BOOLEAN
    BY DEF Init
  <2> QED
    BY <1>1, <2>1, <2>2, <2>3 DEF TypeOK, Themes, Picks
<1>3. WidthDecides
  <2>1. width \in Nat /\ (collapsed <=> width < 1000)
    BY DEF Init
  <2> QED
    BY <2>1 DEF WidthDecides
<1> QED
  BY <1>1, <1>2, <1>3
  DEF Init, IInv, BeforeMount, ThemeEverywhere, FollowsOnlyDark, RadioTellsTheme, SheetFits

\* Steps that change no theme, no colour and no item of localStorage.
LEMMA LooksStay ==
  ASSUME IInv, UNCHANGED <<looks, store, tree>>
  PROVE  ThemeEverywhere' /\ FollowsOnlyDark' /\ SheetFits'
  BY DEF IInv, looks, store, tree, ThemeEverywhere, FollowsOnlyDark, SheetFits

\* Steps that change nothing of the menu.
LEMMA MenuStays ==
  ASSUME IInv, UNCHANGED menu
  PROVE  WidthDecides'
  BY DEF IInv, menu, WidthDecides

\* A theme that is switched is the theme everywhere, and the system is not followed.
LEMMA SwitchThemeEffect ==
  ASSUME NEW t \in Themes, SwitchTheme(t)
  PROVE  /\ theme' = t /\ systemTheme' = FALSE /\ stored' \in Stored /\ themeMode' = t
         /\ chartColors' = t /\ apart' = FALSE
         /\ ThemeEverywhere' /\ FollowsOnlyDark'
  BY DEF SwitchTheme, Stored, ThemeEverywhere, FollowsOnlyDark

\* The page is loaded again.
LEMMA ReloadIInv == IInv /\ Reload => IInv'
<1> SUFFICES ASSUME IInv, Reload PROVE IInv'
  OBVIOUS
<1> USE LayoutAssumption DEF IInv
<1>1. theme' \in Themes /\ (theme' = IF stored.theme = None THEN "light" ELSE stored.theme)
  BY DEF TypeOK, Stored, Reload, ThemeIn, Themes
<1>2. stored \in Stored /\ systemTheme' = stored.system /\ stored.system \in BOOLEAN
  BY DEF TypeOK, Stored, Reload
<1>3. TypeOK'
  <2>1. color' \in Colors /\ sheets' = {} /\ themeMode' = None /\ themeColor' = None
    BY DEF Reload
  <2>2. UNCHANGED <<stored, apart, selected, os, width>> /\ chartColors' = theme'
    BY DEF Reload, store
  <2>3. /\ setting' = FALSE /\ resized' = FALSE /\ mounted' = FALSE /\ gone' = FALSE
        /\ refused' = FALSE /\ byWidth' = TRUE /\ collapsed' \in BOOLEAN
    BY DEF Reload
  <2> QED
    BY <1>1, <1>2, <2>1, <2>2, <2>3 DEF TypeOK
<1>4. BeforeMount' /\ RadioTellsTheme' /\ SheetFits'
  BY DEF Reload, store, BeforeMount, RadioTellsTheme, SheetFits
<1>5. FollowsOnlyDark' /\ ThemeEverywhere'
  BY <1>1, <1>2 DEF Reload, FollowsOnlyDark, ThemeEverywhere, Themes
<1>6. WidthDecides'
  <2>1. width \in Nat /\ width' = width /\ (collapsed' <=> width < 1000)
    BY DEF TypeOK, Reload
  <2> QED
    BY <2>1 DEF WidthDecides
<1> QED
  BY <1>3, <1>4, <1>5, <1>6

\* The effect of the layout and the radio buttons of the drawer.
LEMMA ThemeIInv ==
  IInv /\ (Mount \/ PickSystem \/ \E t \in Themes : PickTheme(t)) => IInv'
<1> SUFFICES ASSUME IInv, Mount \/ PickSystem \/ \E t \in Themes : PickTheme(t) PROVE IInv'
  OBVIOUS
<1> USE LayoutAssumption
<1>1. CASE Mount
  <2>1. SwitchTheme(theme) /\ theme \in Themes
    BY <1>1 DEF Mount, IInv, TypeOK
  <2>2. TypeOK'
    BY <1>1, <2>1, SwitchThemeEffect DEF Mount, drawer, menu, tree, IInv, TypeOK
  <2>3. themeColor = None
    BY <1>1 DEF Mount, IInv, BeforeMount
  <2>4. BeforeMount' /\ RadioTellsTheme' /\ SheetFits'
    BY <1>1, <2>3 DEF Mount, drawer, IInv, BeforeMount, RadioTellsTheme, SheetFits
  <2> QED
    BY <1>1, <2>1, <2>2, <2>4, SwitchThemeEffect, MenuStays DEF Mount, IInv
<1>2. ASSUME NEW t \in Themes, PickTheme(t) PROVE IInv'
  <2>1. SwitchTheme(t)
    BY <1>2 DEF PickTheme
  <2>2. [color |-> color, theme |-> t] \in sheets' /\ sheets' \subseteq Sheet
    BY <1>2 DEF PickTheme, SwitchColor, SheetOf, IInv, TypeOK, Sheet
  <2>3. themeColor' = color /\ color' = color
    BY <1>2 DEF PickTheme, SwitchColor
  <2>4. TypeOK'
    BY <1>2, <2>1, <2>2, <2>3, SwitchThemeEffect
    DEF PickTheme, SwitchColor, Picks, Themes, menu, tree, IInv, TypeOK
  <2>5. BeforeMount' /\ RadioTellsTheme'
    BY <1>2, <2>1, SwitchThemeEffect DEF PickTheme, tree, BeforeMount, RadioTellsTheme
  <2>6. SheetFits'
    BY <2>1, <2>2, <2>3, SwitchThemeEffect DEF SheetFits
  <2> QED
    BY <1>2, <2>1, <2>4, <2>5, <2>6, SwitchThemeEffect, MenuStays DEF PickTheme, IInv
<1>3. CASE PickSystem
  <2>1. CASE os = "dark"
    <3>1. stored' = Kept /\ Kept \in Stored /\ theme' = "dark" /\ themeMode' = "dark"
          /\ chartColors' = "dark" /\ systemTheme' = TRUE /\ apart' = FALSE
      BY <1>3, <2>1 DEF PickSystem, Kept, Stored, Themes
    <3> QED
      BY <1>3, <3>1, MenuStays
      DEF PickSystem, Kept, Picks, Themes, menu, tree, IInv, TypeOK, BeforeMount,
          ThemeEverywhere, FollowsOnlyDark, RadioTellsTheme, SheetFits
  <2>2. CASE os = "light"
    <3>1. UNCHANGED <<looks, store, tree, menu, os, setting>>
          /\ selected' = "system" /\ refused' = FALSE
      BY <1>3, <2>2 DEF PickSystem, looks
    <3>2. TypeOK'
      BY <3>1 DEF Picks, looks, store, menu, tree, IInv, TypeOK
    <3>3. BeforeMount' /\ RadioTellsTheme'
      BY <3>1 DEF looks, tree, IInv, BeforeMount, RadioTellsTheme
    <3> QED
      BY <3>1, <3>2, <3>3, MenuStays, LooksStay DEF IInv
  <2> QED
    BY <2>1, <2>2 DEF IInv, TypeOK, Themes
<1> QED
  BY <1>1, <1>2, <1>3

\* A write that fails changes at most one item of localStorage, which is apart then.
LEMMA WriteFailsEffect ==
  ASSUME IInv, NEW t \in Themes, WriteFails(t)
  PROVE  /\ stored' \in Stored /\ apart' \in BOOLEAN
         /\ UNCHANGED looks
         /\ UNCHANGED mounted => ThemeEverywhere' /\ FollowsOnlyDark' /\ SheetFits'
<1>1. stored' \in Stored
  <2>1. stored \in Stored
    BY DEF IInv, TypeOK
  <2>2. stored' = stored \/ stored' = [stored EXCEPT !.theme = t]
    BY DEF WriteFails
  <2> QED
    BY <2>1, <2>2 DEF Stored
<1>2. UNCHANGED looks
  BY DEF WriteFails, ModeAfter, looks
<1>3. apart' \in BOOLEAN /\ (~apart' => stored' = stored /\ ~apart)
  BY DEF WriteFails, IInv, TypeOK
<1>4. UNCHANGED mounted => ThemeEverywhere' /\ FollowsOnlyDark' /\ SheetFits'
  BY <1>2, <1>3 DEF IInv, looks, ThemeEverywhere, FollowsOnlyDark, SheetFits
<1> QED
  BY <1>1, <1>2, <1>3, <1>4

\* The effect of the layout and the radio buttons meet a write that fails.
LEMMA FailIInv ==
  IInv /\ (MountFails \/ \E pick \in Picks : PickFails(pick)) => IInv'
<1>1. ASSUME IInv, MountFails PROVE IInv'
  <2>1. WriteFails(theme) /\ theme \in Themes /\ UNCHANGED <<drawer, menu, os, mounted>> /\ gone'
    BY <1>1 DEF MountFails, IInv, TypeOK
  <2>2. TypeOK'
    BY <1>1, <2>1, WriteFailsEffect DEF looks, drawer, menu, IInv, TypeOK
  <2>3. BeforeMount' /\ RadioTellsTheme'
    BY <1>1, <2>1, WriteFailsEffect DEF looks, drawer, IInv, BeforeMount, RadioTellsTheme
  <2> QED
    BY <1>1, <2>1, <2>2, <2>3, WriteFailsEffect, MenuStays DEF IInv
<1>2. ASSUME IInv, NEW pick \in Picks, PickFails(pick) PROVE IInv'
  <2> DEFINE t == IF pick = "system" THEN "dark" ELSE pick
  <2>1. /\ WriteFails(t) /\ t \in Themes /\ UNCHANGED <<setting, menu, os, tree>>
        /\ mounted /\ selected' = pick /\ refused'
    BY <1>2 DEF PickFails, Picks, Themes
  <2> HIDE DEF t
  <2>2. TypeOK'
    BY <1>2, <2>1, WriteFailsEffect DEF looks, menu, tree, IInv, TypeOK
  <2>3. BeforeMount' /\ RadioTellsTheme'
    BY <2>1 DEF tree, BeforeMount, RadioTellsTheme
  <2> QED
    BY <1>2, <2>1, <2>2, <2>3, WriteFailsEffect, MenuStays DEF tree, IInv
<1> QED
  BY <1>1, <1>2

\* The colours, the drawer, the menu and what happens outside the tab.
LEMMA OtherIInv ==
  IInv /\ (\/ \E c \in Colors : PickColor(c)
           \/ ToggleSetting
           \/ \E w \in Widths : Resize(w)
           \/ HandleResize \/ ToggleMenu \/ OsChanges \/ OtherTab) => IInv'
<1> USE LayoutAssumption
<1>1. ASSUME IInv, NEW c \in Colors, PickColor(c) PROVE IInv'
  <2>1. sheets' \subseteq Sheet /\ [color |-> c, theme |-> theme] \in sheets'
    BY <1>1 DEF PickColor, SwitchColor, IInv, TypeOK, Sheet
  <2>2. TypeOK' /\ SheetFits' /\ BeforeMount' /\ RadioTellsTheme'
    BY <1>1, <2>1 DEF PickColor, SwitchColor, store, drawer, menu, tree, IInv, TypeOK, SheetFits,
       BeforeMount, RadioTellsTheme
  <2> QED
    BY <1>1, <2>2, MenuStays
    DEF PickColor, SwitchColor, store, tree, IInv, ThemeEverywhere, FollowsOnlyDark
<1>2. ASSUME IInv, ToggleSetting PROVE IInv'
  <2>1. UNCHANGED <<looks, store, menu, os, tree>> /\ mounted
    BY <1>2 DEF ToggleSetting
  <2>2. setting' \in BOOLEAN /\ refused' = FALSE /\ selected' \in Picks
        /\ (setting' => selected' = Selected)
    BY <1>2 DEF ToggleSetting, Selected, IInv, TypeOK, Picks
  <2>3. TypeOK'
    BY <1>2, <2>1, <2>2 DEF looks, store, menu, tree, IInv, TypeOK
  <2>4. BeforeMount' /\ RadioTellsTheme'
    BY <1>2, <2>1, <2>2 DEF Selected, looks, tree, IInv, TypeOK, BeforeMount, RadioTellsTheme
  <2> QED
    BY <1>2, <2>1, <2>3, <2>4, LooksStay, MenuStays DEF IInv
<1>3. ASSUME IInv, NEW w \in Widths, Resize(w) PROVE IInv'
  <2>1. TypeOK' /\ BeforeMount' /\ RadioTellsTheme' /\ WidthDecides'
    BY <1>3 DEF Resize, looks, store, drawer, tree, IInv, TypeOK, BeforeMount, RadioTellsTheme, WidthDecides
  <2> QED
    BY <1>3, <2>1, LooksStay DEF Resize, IInv
<1>4. ASSUME IInv, HandleResize PROVE IInv'
  <2>1. width \in Nat /\ width' = width
    BY <1>4 DEF HandleResize, IInv, TypeOK
  <2>2. \/ Narrow(width) /\ collapsed' = TRUE /\ byWidth' = TRUE
        \/ ~Narrow(width) /\ width > 1000 /\ collapsed' = FALSE /\ byWidth' = TRUE
        \/ ~Narrow(width) /\ width <= 1000 /\ UNCHANGED <<collapsed, byWidth>>
    BY <1>4, Zenon DEF HandleResize
  <2>3. WidthDecides'
    <3>1. CASE Narrow(width)
      <4>1. width < 900 /\ ~(width > 1000)
        BY <2>1, <3>1 DEF Narrow
      <4>2. collapsed'
        BY <2>2, <3>1
      <4> QED
        BY <2>1, <4>1, <4>2 DEF WidthDecides
    <3>2. CASE ~Narrow(width) /\ width > 1000
      <4>1. ~(width < 900) /\ ~(width <= 1000)
        BY <2>1, <3>2 DEF Narrow
      <4>2. ~collapsed'
        BY <2>2, <3>2, <4>1
      <4> QED
        BY <2>1, <4>1, <4>2 DEF WidthDecides
    <3>3. CASE ~Narrow(width) /\ ~(width > 1000)
      BY <2>1, <3>3 DEF Narrow, WidthDecides
    <3> QED
      BY <3>1, <3>2, <3>3
  <2>4. collapsed' \in BOOLEAN /\ byWidth' \in BOOLEAN
    <3>1. collapsed \in BOOLEAN /\ byWidth \in BOOLEAN
      BY <1>4 DEF IInv, TypeOK
    <3>2. CASE Narrow(width) /\ collapsed' = TRUE /\ byWidth' = TRUE
      BY <3>2
    <3>3. CASE ~Narrow(width) /\ width > 1000 /\ collapsed' = FALSE /\ byWidth' = TRUE
      BY <3>3
    <3>4. CASE ~Narrow(width) /\ width <= 1000 /\ UNCHANGED <<collapsed, byWidth>>
      BY <3>1, <3>4
    <3> QED
      BY <2>2, <3>2, <3>3, <3>4, PTL
  <2>5. TypeOK'
    <3>1. UNCHANGED <<looks, store, drawer, width, os, tree>> /\ resized' = FALSE
      BY <1>4 DEF HandleResize
    <3> QED
      BY <1>4, <2>4, <3>1 DEF looks, store, drawer, tree, IInv, TypeOK
  <2>6. BeforeMount' /\ RadioTellsTheme'
    BY <1>4 DEF HandleResize, looks, drawer, tree, IInv, BeforeMount, RadioTellsTheme
  <2> QED
    BY <1>4, <2>3, <2>5, <2>6, LooksStay DEF HandleResize, IInv
<1>5. ASSUME IInv, ToggleMenu PROVE IInv'
  <2>1. UNCHANGED <<looks, store, drawer, width, resized, os, tree>>
        /\ collapsed' \in BOOLEAN /\ byWidth' = FALSE
    BY <1>5 DEF ToggleMenu
  <2>2. TypeOK'
    BY <1>5, <2>1 DEF looks, store, drawer, tree, IInv, TypeOK
  <2>3. BeforeMount' /\ RadioTellsTheme' /\ WidthDecides'
    BY <1>5, <2>1 DEF looks, drawer, tree, IInv, BeforeMount, RadioTellsTheme, WidthDecides
  <2> QED
    BY <1>5, <2>1, <2>2, <2>3, LooksStay DEF IInv
<1>6. ASSUME IInv, OsChanges PROVE IInv'
  <2>1. TypeOK' /\ BeforeMount' /\ RadioTellsTheme'
    BY <1>6 DEF OsChanges, looks, store, drawer, menu, tree, IInv, TypeOK, BeforeMount, RadioTellsTheme
  <2> QED
    BY <1>6, <2>1, LooksStay, MenuStays DEF OsChanges, IInv
<1>7. ASSUME IInv, OtherTab PROVE IInv'
  <2>1. stored' \in Stored /\ apart' = TRUE
    <3>1. CASE stored' = Kept
      BY <1>7, <3>1 DEF OtherTab, Kept, Stored, Themes
    <3>2. ASSUME NEW t \in Themes, stored' = [theme |-> t, system |-> FALSE]
          PROVE  stored' \in Stored
      BY <3>2 DEF Stored
    <3>3. ASSUME NEW t \in Themes, stored' = [stored EXCEPT !.theme = t]
          PROVE  stored' \in Stored
      BY <1>7, <3>3 DEF IInv, TypeOK, Stored
    <3> QED
      BY <1>7, <3>1, <3>2, <3>3 DEF OtherTab
  <2>2. TypeOK' /\ BeforeMount' /\ RadioTellsTheme' /\ ThemeEverywhere' /\ FollowsOnlyDark' /\ SheetFits'
    BY <1>7, <2>1 DEF OtherTab, looks, drawer, menu, tree, IInv, TypeOK, BeforeMount, RadioTellsTheme,
       ThemeEverywhere, FollowsOnlyDark, SheetFits
  <2> QED
    BY <1>7, <2>1, <2>2, MenuStays DEF OtherTab, IInv
<1> QED
  BY <1>1, <1>2, <1>3, <1>4, <1>5, <1>6, <1>7

\* Every step keeps the inductive invariant.
LEMMA NextIInv == IInv /\ [Next]_vars => IInv'
<1>1. ASSUME IInv, UNCHANGED vars PROVE IInv'
  <2>1. UNCHANGED <<looks, store, drawer, menu, os, tree>>
    BY <1>1 DEF vars
  <2>2. TypeOK' /\ BeforeMount' /\ RadioTellsTheme'
    BY <1>1, <2>1 DEF looks, store, drawer, menu, tree, IInv, TypeOK, BeforeMount, RadioTellsTheme
  <2> QED
    BY <1>1, <2>1, <2>2, LooksStay, MenuStays DEF IInv
<1> QED
  BY <1>1, ReloadIInv, ThemeIInv, FailIInv, OtherIInv DEF Next

\* The inductive invariant holds in every reachable state.
THEOREM LayoutInv == Spec => []IInv
  BY InitIInv, NextIInv, PTL DEF Spec

\* Types.
THEOREM LayoutTypes == Spec => []TypeOK
  BY LayoutInv, PTL DEF IInv

\* Slice, charts and document agree on the theme, and localStorage with them while no
\* other tab and no failed write has changed it there.
THEOREM LayoutThemes == Spec => []ThemeEverywhere
  BY LayoutInv, PTL DEF IInv

\* Once the layout is up, the system is followed into the dark only.
THEOREM LayoutFollows == Spec => []FollowsOnlyDark
  BY LayoutInv, PTL DEF IInv

\* Radio buttons that keep their own value never show another theme, unless a write failed.
THEOREM LayoutRadio == Spec => []RadioTellsTheme
  BY LayoutInv, PTL DEF IInv

\* The colour has a stylesheet for the theme, in whatever order the two are picked, unless
\* the system is followed.
THEOREM LayoutSheets == Spec => []SheetFits
  BY LayoutInv, PTL DEF IInv

\* A menu nobody toggled follows windows of any width.
THEOREM LayoutMenu == Spec => []WidthDecides
  BY LayoutInv, PTL DEF IInv

\* No stylesheet lacks a shade, but in the dark for the first of a palette: an invariant
\* that is no more than a fact about generateColorMap for each stylesheet there can be.
THEOREM LayoutShades == Spec => []ShadesThere
<1>1. TypeOK => ShadesThere
  <2> SUFFICES ASSUME TypeOK, NEW s \in sheets, s.theme = "light" \/ Primary[s.color] > 0
               PROVE  Absent \notin {Brand(s), Hover(s), Active(s)}
    BY DEF ShadesThere
  <2>1. s.theme \in Themes /\ Primary[s.color] \in Places
    BY LayoutAssumption DEF TypeOK, Sheet
  <2>2. CASE s.theme = "light"
    BY <2>1, <2>2 DEF Brand, Hover, Active, ShadeAt, BrandPlace, Places, Picked, Absent, Faint
  <2>3. CASE s.theme = "dark"
    BY <2>1, <2>3 DEF Brand, Hover, Active, ShadeAt, BrandPlace, Places, Picked, Absent, Faint
  <2> QED
    BY <2>1, <2>2, <2>3 DEF Themes
<1> QED
  BY LayoutTypes, <1>1, PTL

\* One theme in all the places it is kept, through reloads, failed writes and other tabs.
THEOREM LayoutOneTheme == Spec => []OneTheme
<1>1. ThemeEverywhere /\ FollowsOnlyDark /\ RadioTellsTheme /\ SheetFits => OneTheme
  BY DEF OneTheme
<1> QED
  BY <1>1, LayoutThemes, LayoutFollows, LayoutRadio, LayoutSheets, PTL

-----------------------------------------------------------------------------
(* The colours of a chart *)

\* The place a chart's colour has in the list: the list is turned until the chosen
\* colour is the first.
Turned(i, j) ==
    IF j <= Len(defaultColor) - i + 1 THEN i + j - 1 ELSE j - (Len(defaultColor) - i + 1)

\* The chosen colour is found.
LEMMA IndexInv ==
    ASSUME NEW c \in ToSet(defaultColor)
    PROVE  Index(c) \in 1 .. Len(defaultColor) /\ defaultColor[Index(c)] = c
<1>1. DOMAIN defaultColor = 1 .. Len(defaultColor)
  BY LayoutAssumption
<1>2. \E i \in DOMAIN defaultColor : defaultColor[i] = c
  BY DEF ToSet
<1> QED
  BY <1>1, <1>2 DEF Index

\* What getColorFromThemeColor makes of the list.
LEMMA ChartsAre ==
    ASSUME NEW t, NEW c \in ToSet(defaultColor)
    PROVE  /\ Len(Charts(t, c)) = Len(defaultColor)
           /\ DOMAIN Charts(t, c) = 1 .. Len(defaultColor)
           /\ \A j \in 1 .. Len(defaultColor) :
                 Charts(t, c)[j] = [theme |-> t, place |-> Turned(Index(c), j)]
<1> DEFINE i == Index(c)
           N == Len(defaultColor)
           P == Palette(t)
           a == SubSeq(P, i, N)
           b == SubSeq(P, 1, i - 1)
<1>1. N \in Nat /\ i \in 1 .. N /\ DOMAIN defaultColor = 1 .. N
  BY LayoutAssumption, IndexInv
<1>2. P = [j \in 1 .. N |-> [theme |-> t, place |-> j]]
  BY <1>1 DEF Palette
<1> DEFINE S == {[theme |-> t, place |-> j] : j \in 1 .. N}
<1>3. P \in Seq(S) /\ Len(P) = N /\ \A j \in 1 .. N : P[j] = [theme |-> t, place |-> j]
  <2>1. P \in [1 .. N -> S]
    BY <1>2
  <2>2. \A j \in 1 .. N : P[j] = [theme |-> t, place |-> j]
    BY <1>2
  <2> HIDE DEF P, S, N
  <2> QED
    BY <1>1, <2>1, <2>2
<1>4. Charts(t, c) = a \o b
  BY DEF Charts
<1> HIDE DEF i, N, P, S
<1>5. /\ a \in Seq(S) /\ Len(a) = N - i + 1
      /\ \A j \in 1 .. N - i + 1 : a[j] = P[i + j - 1]
  BY <1>1, <1>3
<1>6. b \in Seq(S) /\ Len(b) = i - 1 /\ \A j \in 1 .. i - 1 : b[j] = P[j]
  BY <1>1, <1>3
<1> HIDE DEF a, b
<1>7. /\ Len(a \o b) = N /\ DOMAIN (a \o b) = 1 .. N
      /\ \A j \in 1 .. N : (a \o b)[j] = IF j <= N - i + 1 THEN a[j] ELSE b[j - (N - i + 1)]
  <2>1. Len(a \o b) = (N - i + 1) + (i - 1) /\ a \o b \in Seq(S)
    <3>1. a \o b \in Seq(S) /\ Len(a \o b) = Len(a) + Len(b)
      BY <1>5, <1>6, ConcatProperties
    <3> QED
      BY <1>5, <1>6, <3>1
  <2>2. \A j \in 1 .. (N - i + 1) + (i - 1) :
           (a \o b)[j] = IF j <= N - i + 1 THEN a[j] ELSE b[j - (N - i + 1)]
    BY <1>5, <1>6, ConcatProperties
  <2>3. (N - i + 1) + (i - 1) = N
    BY <1>1
  <2> QED
    BY <2>1, <2>2, <2>3
<1>8. ASSUME NEW j \in 1 .. N
      PROVE  (a \o b)[j] = [theme |-> t, place |-> Turned(i, j)]
  <2>1. CASE j <= N - i + 1
    <3>1. j \in 1 .. N - i + 1 /\ i + j - 1 \in 1 .. N
      BY <1>1, <2>1
    <3> QED
      BY <1>3, <1>5, <1>7, <2>1, <3>1 DEF Turned, N
  <2>2. CASE ~(j <= N - i + 1)
    <3>1. j - (N - i + 1) \in 1 .. i - 1 /\ j - (N - i + 1) \in 1 .. N
      BY <1>1, <2>2
    <3> QED
      BY <1>3, <1>6, <1>7, <2>2, <3>1 DEF Turned, N
  <2> QED
    BY <2>1, <2>2
<1> QED
  BY <1>4, <1>7, <1>8 DEF N, i

\* Turning the list loses no place and doubles none.
LEMMA TurnedInv ==
    ASSUME NEW i \in 1 .. Len(defaultColor)
    PROVE  /\ \A j \in 1 .. Len(defaultColor) : Turned(i, j) \in 1 .. Len(defaultColor)
           /\ \A j, k \in 1 .. Len(defaultColor) : Turned(i, j) = Turned(i, k) => j = k
           /\ \A p \in 1 .. Len(defaultColor) :
                 \E j \in 1 .. Len(defaultColor) : Turned(i, j) = p
           /\ Turned(i, 1) = i
<1>1. Len(defaultColor) \in Nat
  BY LayoutAssumption
<1>2. ASSUME NEW p \in 1 .. Len(defaultColor)
      PROVE  \E j \in 1 .. Len(defaultColor) : Turned(i, j) = p
  <2>1. CASE p >= i
    <3>1. p - i + 1 \in 1 .. Len(defaultColor) /\ Turned(i, p - i + 1) = p
      BY <1>1, <2>1 DEF Turned
    <3> QED
      BY <3>1
  <2>2. CASE p < i
    <3>1. /\ p + (Len(defaultColor) - i + 1) \in 1 .. Len(defaultColor)
          /\ Turned(i, p + (Len(defaultColor) - i + 1)) = p
      BY <1>1, <2>2 DEF Turned
    <3> QED
      BY <3>1
  <2> QED
    BY <1>1, <2>1, <2>2
<1>3. /\ \A j \in 1 .. Len(defaultColor) : Turned(i, j) \in 1 .. Len(defaultColor)
      /\ \A j, k \in 1 .. Len(defaultColor) : Turned(i, j) = Turned(i, k) => j = k
      /\ Turned(i, 1) = i
  BY <1>1 DEF Turned
<1> QED
  BY <1>2, <1>3

\* A chart has every colour of the list once and starts with the chosen one.
THEOREM LayoutCharts == Spec => []ChartsHaveAll
<1>1. ChartsHaveAll
  <2> SUFFICES ASSUME color \in ToSet(defaultColor)
               PROVE  /\ Len(Drawn) = Len(defaultColor) /\ IsInjective(Drawn)
                      /\ ToSet(Drawn) = ToSet(Palette(theme))
                      /\ defaultColor[Drawn[1].place] = color
    BY DEF ChartsHaveAll
  <2> DEFINE i == Index(color)
             N == Len(defaultColor)
  <2>1. i \in 1 .. N /\ defaultColor[i] = color /\ N \in Nat /\ DOMAIN defaultColor = 1 .. N
    BY IndexInv, LayoutAssumption
  <2>2. /\ Len(Drawn) = N /\ DOMAIN Drawn = 1 .. N
        /\ \A j \in 1 .. N : Drawn[j] = [theme |-> theme, place |-> Turned(i, j)]
    BY ChartsAre DEF Drawn
  <2>3. /\ \A j \in 1 .. N : Turned(i, j) \in 1 .. N
        /\ \A j, k \in 1 .. N : Turned(i, j) = Turned(i, k) => j = k
        /\ \A p \in 1 .. N : \E j \in 1 .. N : Turned(i, j) = p
        /\ Turned(i, 1) = i
    BY <2>1, TurnedInv
  <2> HIDE DEF i, N
  <2>4. IsInjective(Drawn)
    <3> SUFFICES ASSUME NEW j \in 1 .. N, NEW k \in 1 .. N, Drawn[j] = Drawn[k]
                 PROVE  j = k
      BY <2>2 DEF IsInjective
    <3>1. Drawn[j].place = Turned(i, j) /\ Drawn[k].place = Turned(i, k)
      BY <2>2
    <3> QED
      BY <2>3, <3>1
  <2>5. ToSet(Drawn) = {[theme |-> theme, place |-> p] : p \in 1 .. N}
    <3>1. ToSet(Drawn) = {[theme |-> theme, place |-> Turned(i, j)] : j \in 1 .. N}
      BY <2>2 DEF ToSet
    <3> QED
      BY <2>3, <3>1
  <2>6. ToSet(Palette(theme)) = {[theme |-> theme, place |-> p] : p \in 1 .. N}
    BY <2>1 DEF Palette, ToSet
  <2>7. defaultColor[Drawn[1].place] = color
    <3>1. 1 \in 1 .. N
      BY <2>1
    <3>2. Drawn[1].place = i
      BY <2>2, <2>3, <3>1
    <3> QED
      BY <2>1, <3>2
  <2> QED
    BY <2>2, <2>4, <2>5, <2>6, <2>7 DEF N
<1> QED
  BY <1>1, PTL

\* Sheets and charts have all of their colours, the first of a palette in the dark excepted.
THEOREM LayoutColors == Spec => []ColorsComplete
<1>1. ShadesThere /\ ChartsHaveAll => ColorsComplete
  BY DEF ColorsComplete
<1> QED
  BY <1>1, LayoutShades, LayoutCharts, PTL
=============================================================================
