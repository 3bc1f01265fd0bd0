------------------------------- MODULE Layout -------------------------------
(***************************************************************************)
(* How the console looks: the global slice (modules/global), the layout    *)
(* with its resize listener (layouts/index), the drawer of settings and    *)
(* the stylesheets of the chosen colour (utils/color).  What is chosen is  *)
(* kept in five places: the slice, localStorage, two attributes of the     *)
(* document, the stylesheets of its head and the radio buttons.  The two   *)
(* items of localStorage are written one after the other by a reducer, and *)
(* each write may fail: the reducer throws, and the slice stays as it was. *)
(*                                                                         *)
(* The layouts other than the one with a side menu, and the switches for   *)
(* header, footer and breadcrumbs, are never asked for.                    *)
(***************************************************************************)
EXTENDS Integers, Sequences, SequencesExt

CONSTANTS
    Colors,     \* colours to choose from, or to pick from the panel
    defaultColor, \* those of the list, in its order
    Primary,    \* the place of a colour in the palette of ten made from it
    Widths,     \* widths of the window
    None        \* an item or an attribute that is not there

Themes == {"light", "dark"}
Picks  == Themes \cup {"system"}
Places == 0 .. 9
Sheet  == [color : Colors, theme : Themes]
Stored == [theme : Themes \cup {None}, system : BOOLEAN]

ASSUME LayoutAssumption ==
    /\ defaultColor \in Seq(Colors)
    /\ defaultColor # <<>>
    /\ IsInjective(defaultColor)
    /\ Primary \in [Colors -> Places]
    /\ Widths \subseteq Nat /\ Widths # {}
    /\ None \notin Themes \cup Colors

VARIABLES
    theme, systemTheme, chartColors, color, setting, collapsed, \* the global slice
    stored,     \* the items of localStorage, which other tabs write too
    themeMode,  \* the attributes of the document
    themeColor,
    sheets,     \* the stylesheets in its head
    selected,   \* selectValue of RadioRect
    os,         \* the theme of the operating system
    width,      \* innerWidth
    resized,    \* the throttled listener has been called and is not done
    mounted,    \* the effect of the layout has run
    gone,       \* the effect has failed, and React has taken everything down
    apart,      \* bookkeeping: another tab or a failed write has changed an item since
                \* this tab wrote both
    refused,    \* bookkeeping: the radio button that was pressed last met a failed write
    byWidth     \* bookkeeping: the menu is as the width had it, not as a click did

looks  == <<theme, systemTheme, chartColors, color, themeMode, themeColor, sheets>>
store  == <<stored, apart>>
drawer == <<setting, selected, refused>>
menu   == <<collapsed, width, resized, byWidth>>
tree   == <<mounted, gone>>
vars   == <<looks, store, drawer, menu, os, tree>>

TypeOK ==
    /\ theme \in Themes /\ chartColors \in Themes /\ os \in Themes
    /\ color \in Colors
    /\ stored \in Stored
    /\ themeMode \in Themes \cup {None} /\ themeColor \in Colors \cup {None}
    /\ sheets \subseteq Sheet
    /\ selected \in Picks
    /\ width \in Widths
    /\ systemTheme \in BOOLEAN /\ setting \in BOOLEAN /\ collapsed \in BOOLEAN
    /\ resized \in BOOLEAN /\ mounted \in BOOLEAN
    /\ gone \in BOOLEAN /\ apart \in BOOLEAN /\ refused \in BOOLEAN /\ byWidth \in BOOLEAN

\* Mutant: a browser that has never been here has a theme as well.
ThemeFound(s) == s.theme

\* defaultTheme.
ThemeIn(s) == IF s.theme = None THEN "light" ELSE s.theme

Init ==
    /\ stored = [theme |-> None, system |-> FALSE]
    /\ theme = ThemeIn(stored)
    /\ chartColors = theme
    /\ systemTheme = stored.system
    /\ color = defaultColor[1]
    /\ setting = FALSE
    /\ selected = "light"
    /\ themeMode = None /\ themeColor = None
    /\ sheets = {}
    /\ os \in Themes
    /\ width \in Widths
    /\ collapsed \in BOOLEAN /\ (collapsed <=> width < 1000)
    /\ resized = FALSE /\ mounted = FALSE /\ gone = FALSE
    /\ apart = FALSE /\ refused = FALSE /\ byWidth = TRUE

\* The page is loaded again: what is left is in localStorage.
Reload ==
    /\ theme' = ThemeIn(stored)
    /\ chartColors' = theme'
    /\ systemTheme' = stored.system
    /\ color' = defaultColor[1]
    /\ setting' = FALSE
    /\ themeMode' = None /\ themeColor' = None
    /\ sheets' = {}
    /\ collapsed' \in BOOLEAN /\ (collapsed' <=> width < 1000)
    /\ resized' = FALSE /\ mounted' = FALSE /\ gone' = FALSE
    /\ refused' = FALSE /\ byWidth' = TRUE
    /\ UNCHANGED <<store, selected, os, width>>

-----------------------------------------------------------------------------
(* Theme and colour *)

SwitchTheme(t) ==
    /\ theme' = t
    /\ chartColors' = t
    /\ systemTheme' = FALSE
    /\ stored' = [theme |-> t, system |-> FALSE]
    /\ apart' = FALSE
    /\ themeMode' = t

\* Mutant: the attribute is set before the items are written.
ModeBefore(t) == t

\* The attribute of the document when a write fails: it is set after both.
ModeAfter(t) == themeMode

\* A reducer that switches to t meets a write that fails, the first or the second.
WriteFails(t) ==
    /\ stored' \in {stored, [stored EXCEPT !.theme = t]}
    /\ apart' = (apart \/ stored' # stored)
    /\ themeMode' = ModeAfter(t)
    /\ UNCHANGED <<theme, chartColors, systemTheme, color, themeColor, sheets>>

\* switchColor in theme t: another stylesheet, beside those that are there.
SwitchColor(c, t) ==
    /\ color' = c
    /\ sheets' = sheets \cup {[color |-> c, theme |-> t]}
    /\ themeColor' = c

\* The effect of the layout, which ends following the system.
Mount ==
    /\ ~mounted /\ ~gone
    /\ mounted' = TRUE
    /\ SwitchTheme(theme)
    /\ UNCHANGED <<color, themeColor, sheets, drawer, menu, os, gone>>

\* The effect fails: there is nothing on the screen until the page is loaded again.
MountFails ==
    /\ ~mounted /\ ~gone
    /\ gone' = TRUE
    /\ WriteFails(theme)
    /\ UNCHANGED <<drawer, menu, os, mounted>>

\* Mutant: the colour is switched before the theme.
SheetOfOldTheme(t) == theme

\* The theme switchColor finds after switchTheme(t).
SheetOf(t) == t

\* handleThemeSwitch with a theme.
PickTheme(t) ==
    /\ mounted /\ setting
    /\ selected' = t
    /\ refused' = FALSE
    /\ SwitchTheme(t)
    /\ SwitchColor(color, SheetOf(t))
    /\ UNCHANGED <<setting, menu, os, tree>>

\* Mutant: only that the system is followed is kept, as a comment has it.
KeptFollowing == [stored EXCEPT !.system = TRUE]

Kept == [theme |-> "dark", system |-> TRUE]

\* handleThemeSwitch with the system: openSystemTheme does nothing if it is light, and
\* the colour stays without a stylesheet for the theme.
PickSystem ==
    /\ mounted /\ setting
    /\ selected' = "system"
    /\ refused' = FALSE
    /\ \/ /\ os = "dark"
          /\ theme' = "dark"
          /\ chartColors' = "dark"
          /\ systemTheme' = TRUE
          /\ stored' = Kept
          /\ apart' = FALSE
          /\ themeMode' = "dark"
       \/ /\ os = "light"
          /\ UNCHANGED <<theme, chartColors, systemTheme, store, themeMode>>
    /\ UNCHANGED <<color, themeColor, sheets, setting, menu, os, tree>>

\* handleThemeSwitch throws: the radio button has moved by then, and nothing else has.
PickFails(pick) ==
    /\ mounted /\ setting
    /\ pick = "system" => os = "dark"
    /\ selected' = pick
    /\ refused' = TRUE
    /\ WriteFails(IF pick = "system" THEN "dark" ELSE pick)
    /\ UNCHANGED <<setting, menu, os, tree>>

PickColor(c) ==
    /\ mounted /\ setting
    /\ SwitchColor(c, theme)
    /\ UNCHANGED <<theme, systemTheme, chartColors, themeMode, store, drawer, menu, os, tree>>

\* Mutant: the radio buttons know the two themes only.
SelectedTheme == theme

\* defaultValue of RadioRect.
Selected == IF systemTheme THEN "system" ELSE theme

\* The drawer is made anew each time it is opened.
ToggleSetting ==
    /\ mounted
    /\ setting' = ~setting
    /\ selected' = IF setting' THEN Selected ELSE selected
    /\ refused' = FALSE
    /\ UNCHANGED <<looks, store, menu, os, tree>>

-----------------------------------------------------------------------------
(* The menu *)

\* An event before the effect has no listener.
Resize(w) ==
    /\ width' = w
    /\ resized' = mounted
    /\ byWidth' = (byWidth /\ mounted)
    /\ UNCHANGED <<looks, store, drawer, collapsed, os, tree>>

\* Mutant: a width just below the limit is left alone.
NarrowOff(w) == w < 899

Narrow(w) == w < 900

\* handleResize, at once or when the throttle lets it.
HandleResize ==
    /\ resized
    /\ resized' = FALSE
    /\ \/ Narrow(width) /\ collapsed' = TRUE /\ byWidth' = TRUE
       \/ ~Narrow(width) /\ width > 1000 /\ collapsed' = FALSE /\ byWidth' = TRUE
       \/ ~Narrow(width) /\ width <= 1000 /\ UNCHANGED <<collapsed, byWidth>>
    /\ UNCHANGED <<looks, store, drawer, width, os, tree>>

\* The button of the header, which toggles with null for a payload.
ToggleMenu ==
    /\ mounted
    /\ collapsed' = ~collapsed
    /\ byWidth' = FALSE
    /\ UNCHANGED <<looks, store, drawer, width, resized, os, tree>>

-----------------------------------------------------------------------------
(* Outside *)

OsChanges ==
    /\ os' \in Themes
    /\ UNCHANGED <<looks, store, drawer, menu, tree>>

\* Another tab picks a theme or the system, or is loaded, or one of its writes fails.
OtherTab ==
    /\ \/ stored' \in {[theme |-> t, system |-> FALSE] : t \in Themes} \cup {Kept}
       \/ stored' \in {[stored EXCEPT !.theme = t] : t \in Themes}
    /\ apart' = TRUE
    /\ UNCHANGED <<looks, drawer, menu, os, tree>>

Next ==
    \/ Reload \/ Mount \/ MountFails
    \/ \E t \in Themes : PickTheme(t)
    \/ PickSystem
    \/ \E pick \in Picks : PickFails(pick)
    \/ \E c \in Colors : PickColor(c)
    \/ ToggleSetting
    \/ \E w \in Widths : Resize(w)
    \/ HandleResize \/ ToggleMenu
    \/ OsChanges \/ OtherTab

Spec == Init /\ [][Next]_vars

-----------------------------------------------------------------------------
(* generateColorMap *)

\* Where the brand colour is looked for; in the dark the palette is reversed.
BrandPlace(sheet) ==
    IF sheet.theme = "dark" THEN 10 - Primary[sheet.color] ELSE Primary[sheet.color]

\* What is no colour of the palette: nothing, where a list has no such place, and the
\* brand colour with another opacity.
Absent == 10
Faint  == 11

\* The colour at place i of the list, by its place in the palette: the list is the palette,
\* or in the dark the palette reversed, with the brand colour made faint in front.
ShadeAt(sheet, i) ==
    IF i \notin Places THEN Absent
    ELSE IF sheet.theme = "light" THEN i
    ELSE IF i = 0 THEN Faint ELSE 9 - i

\* The colour as it was picked is the one of its place.
Picked(sheet) == Primary[sheet.color]

\* Mutant: an index that is off by one.
ActiveLate(sheet) ==
    IF BrandPlace(sheet) > 9 THEN Picked(sheet) ELSE ShadeAt(sheet, BrandPlace(sheet) + 1)

\* --td-brand-color-9: a button that is pressed.
Active(sheet) ==
    IF BrandPlace(sheet) > 8 THEN Picked(sheet) ELSE ShadeAt(sheet, BrandPlace(sheet) + 1)

\* --td-brand-color-7: one below the mouse.
Hover(sheet) ==
    IF BrandPlace(sheet) > 0 THEN ShadeAt(sheet, BrandPlace(sheet) - 1) ELSE Picked(sheet)

Brand(sheet) == ShadeAt(sheet, BrandPlace(sheet))

-----------------------------------------------------------------------------
(* getColorFromThemeColor *)

\* defaultColor and darkColor: a colour of either is known by its place.
Palette(t) == [i \in DOMAIN defaultColor |-> [theme |-> t, place |-> i]]

Index(c) == CHOOSE i \in DOMAIN defaultColor : defaultColor[i] = c

\* Mutant: the chosen colour is left out of both parts.
ChartsWithout(t, c) ==
    LET i == Index(c)
    IN  SubSeq(Palette(t), i + 1, Len(defaultColor)) \o SubSeq(Palette(t), 1, i - 1)

\* The colours of a chart start with the chosen one.  For a colour that is not of the
\* list the library makes a palette up, which is left out.
Charts(t, c) ==
    LET i == Index(c)
    IN  SubSeq(Palette(t), i, Len(defaultColor)) \o SubSeq(Palette(t), 1, i - 1)

\* The colours of a chart that is on the screen, made anew when theme or colour change.
Drawn == Charts(theme, color)

-----------------------------------------------------------------------------
(* Properties *)

\* The theme is the same in the slice, the charts and the document, though a write may fail
\* half way through switching it; and in localStorage too, unless another tab or a failed
\* write changed it there, so that a reload does not change it.
ThemeEverywhere ==
    /\ chartColors = theme
    /\ mounted => themeMode = theme
    /\ mounted /\ ~apart => stored = [theme |-> theme, system |-> systemTheme]

\* The system is followed only into the dark (openSystemTheme).  Before the effect has run
\* a page may start with the light and the system followed: what a write that failed
\* half way has left in localStorage.
FollowsOnlyDark == mounted /\ systemTheme => theme = "dark"

\* The radio buttons start from the slice and then go their own way: a theme they show
\* is the theme, unless a write failed when it was pressed.  "system" may be shown and not
\* be followed.
RadioTellsTheme ==
    setting /\ selected # "system" /\ ~refused => selected = theme /\ ~systemTheme

\* The document's colour has a stylesheet for the theme, except when the system brought
\* the dark in.
SheetFits ==
    themeColor # None /\ ~systemTheme =>
        [color |-> themeColor, theme |-> theme] \in sheets

\* A stylesheet has a brand, a hover and a pressed colour, also at the ends of the palette,
\* where one beside the brand colour is missing; but in the dark for a colour that is the
\* first of its palette, which has no brand colour.  At the ends two of them may be one.
ShadesThere ==
    \A s \in sheets : s.theme = "light" \/ Primary[s.color] > 0 =>
        Absent \notin {Brand(s), Hover(s), Active(s)}

\* A chart that is drawn now has every colour of the list once, in the theme that is
\* shown, and starts with the chosen one: a series keeps its hue when the theme changes.
ChartsHaveAll ==
    color \in ToSet(defaultColor) =>
        /\ Len(Drawn) = Len(defaultColor) /\ IsInjective(Drawn)
        /\ ToSet(Drawn) = ToSet(Palette(theme))
        /\ defaultColor[Drawn[1].place] = color

\* One theme in all the places it is kept: slice, charts, localStorage, document, its
\* stylesheets and the radio buttons, through reloads, failed writes and other tabs.
OneTheme == ThemeEverywhere /\ FollowsOnlyDark /\ RadioTellsTheme /\ SheetFits

\* Sheets and charts have all of their colours, whatever colour is picked in whatever theme,
\* the first of a palette in the dark excepted.
ColorsComplete == ShadesThere /\ ChartsHaveAll

\* Unless the menu was toggled since or a resize is still to be handled, a narrow window
\* has a collapsed menu and a wide one has not: whatever was toggled before.
WidthDecides ==
    byWidth /\ ~resized =>
        /\ width < 900 => collapsed
        /\ width > 1000 => ~collapsed
=============================================================================
