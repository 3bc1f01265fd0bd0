# A verification of pole-console in TLA+

pole-console is the web console of a service registry: a Go server (gin) which
serves a React application and forwards the application's requests to the naming
server and to Prometheus. This directory holds TLA+ models of the parts of both
where steps of several actors meet, TLC configurations that check them on small
instances, and proofs for TLAPS of what matters most. Everything here is read off
the source; the only things modelled without source of their own (the naming
server, Prometheus, the browser's cookie store, errgroup, react-router) are
modelled from how the code uses them, and are marked `external` in
`PROJECT.json`.

Run `tlc -config MCSession.cfg MCSession` (and so on) to check a model, and
`tlapm SessionProofs.tla` to check a proof.

## The system

| part | source | state it keeps | operations | what is hard |
|---|---|---|---|---|
| session and access verification | `handlers/proxy.go`, `handlers/authority.go` | nothing in the console: the session is the signed `jwt` cookie | login, verified proxy (parse the cookie, ask the backend, renew, forward) | two tabs share a cookie jar and a localStorage; a token is reset while a request is between two steps; the console restarts; replies get lost |
| login proxy | `handlers/proxy.go:44-169` | the main user's name, kept once it is known, under a lock | `GetAdminInfo`, the director and the modifier of the login's reverse proxy | the lookup is a call to the backend made with the lock held; it can fail in four ways |
| metrics views | `handlers/metrics.go`, `metrics_desc.go`, `common/model/metrics.go` | one `sync.Map` per request | four views, three or two goroutines each, a join; counting and averaging loops | the sources change while they are read; the first error wins; series come in any order, with gaps |
| nodes and admin | `handlers/nodes.go`, `admin.go` | none | one call each | error paths only |
| router | `router/*.go` | none | the table of routes | which routes are verified |
| start | `main.go`, `bootstrap/*.go` | the configuration, read once | `LoadConfig`, `Initialize` | defaults |
| logging | `common/log/*.go` | scopes: levels, stack traces, callers | `Configure`, `RegisterScope`, `updateScopes` | options are applied scope by scope and stop at the first error |
| common helpers | `common/http/http.go`, `common/time/duration.go`, `common/model/response.go` | none | paging parameters, durations, batch responses | boundaries |
| API helpers | `web/src/utils/request.ts` | localStorage's user id and token | `apiRequest`, `getApiRequest`, `getAllList` | the list changes between two pages |
| user store and login page | `web/src/modules/user`, `services/login.ts`, `pages/Login` | redux slice, five items of localStorage, the form's account | login, logout, switching forms | storage and slice are written at different moments; logins overlap; other tabs write the storage too |
| routes, menu, header, wizard | `web/src/router/`, `layouts/components/` (`AppRouter`, `Page`, `Menu`, `Header`), `pages/Configuration/Template` | location, loaded pages, `isFullPage`, the wizard's step | guarded routes, redirections, menu, logout, steps | a logout navigates twice; pages are loaded when first shown; menu and routes read one table in two ways |
| layout and settings | `web/src/layouts/index.tsx`, `modules/global`, `layouts/components/Setting`, `utils/color.ts` | global slice, two items of localStorage, attributes and stylesheets of the document, the menu | switch theme, colour, menu; follow the system; resize | the theme is kept in five places; palettes are reversed in the dark |
| list pages | `web/src/pages/Discovery/Services`, `pages/Namespace`, `utils/visible.ts` | page, search, table, loading, error, drawer | mount, turn, refresh, search, answers; the rows and columns of an answer | answers out of order; a failed fetch; unmounting; a visibility worked out twice |
| editors | `ServiceEditor.tsx`, `NamespaceEditor.tsx`, `components/LabelInput`, `modules/discovery`, `modules/namespace` | one slice of the store per page, the form, the label inputs | edit, create, close, type, change labels, submit | the slice outlives the page; a save is answered late; an editor is told apart by a name that is not unique |
| other pages | dashboard, detail, auth, governance, gateway, kubernetes | what a component shows | rendering of demonstration data | nothing |

How they interact: the list pages and editors call the API helpers, which send the
cookie and the headers from localStorage; the router hands each call to the
verified proxy (login and the metrics views excepted), which asks the naming
server whether the token is still good before it forwards; a login goes through
the login proxy, which looks the main user up first and sets the cookie on the
way back. The metrics views ask the naming server and Prometheus themselves.

What makes each part correct is stated as the properties below; the hazards they
are aimed at, each at its line, are in `PROJECT.json`.

## The modules

**Session** (abstract specification: **AccessGate**). One action per stretch of
handler in which no other actor can act. A request goes `parse`
(`parseJWTThenSetToken`) → `check` (`checkAuthoration`, with the backend's answer)
→ `refresh` (`refreshJWT`) → `forward` (the reverse proxy), or `login`, and
`reply` → `settle` on the way back: the cookie lands in the jar when the response
arrives (`Deliver`), localStorage is written by the page's code after it
(`Settle`). In between, other tabs send, log in and out, the backend resets tokens,
the clock ticks and the console dies (`RestartConsole`). The signature of the
cookie is abstracted: the jar holds cookies the console made, or none. `AccessGate` says the same
promise with no cookie, header or clock: a request is granted only at an
instant at which it holds the current token of its sender, and only granted
tokens are minted into sessions. `Session` implements it (`GateSpec`, a refinement
mapping with `INSTANCE AccessGate WITH`).

**AdminLogin.** Any number of logins, each of which takes the lock, finds the name
kept or looks it up, and leaves with a name or in a panic that gin recovers (the
deferred unlock runs then too). Every way the lookup can end is an action:
unreachable, not found, another status, a body that does not parse, an answer.
The backend may be upgraded in between.

**MetricsFanout.** The handlers of the four views with a goroutine per source
(`Legs`), the errgroup, the `sync.Map`, and the joins. Each goroutine reads its
source at a moment of its own; an error document of Prometheus is an answer
without series (`LegEmptied`), as in `sendToPrometheus`.

**MetricsTotals** and **MetricsMeans** (both extend **MetricsSeries**, the walk over an
answer that every loop of `metrics.go` makes: reach a series, read its samples, end
it). The counters and success rate, and the mean latencies, of one reply. Series
come in any order, samples one by one with gaps (`NaN`); rates and means are
fractions. **MetricsRows** has the keys of the rows, for these and for the fan-out.

**Paging.** `getAllList` against a list to which others add, and from which others
remove, between two pages.

**ListPage.** The pages of services and of namespaces, one mounted at a time: an
answer stands for the question it answers (place in the pagination and search), so
a table that shows the wrong answer is visible. The drawer and the slice of the
store it edits, saves under way that survive the page (`Leave` keeps them; their
closures still reach the store, but no component), the error page that replaces
the table for good. Typing in the search field fetches nothing, as in the code, and a
turn of the pages fetches twice (`onChange` and `onPageChange` both do).

**Visibility.** The row that each list call makes of an item of the naming server,
with its visibility mode, and the column of namespaces, which makes the mode once more;
against who is really let in. It has no state of its own: **ListTables** puts it together with
`ListPage` and asks it of whatever table is showing.

**EditorForm.** What is inside the drawer. A field's value stands for the row it comes
from, so that a field of one row in an update of another is visible. `KeyOf` is the
`key` of the editor in its page: while it stays the same, React keeps the editor and
only its effect sees another drawer or slice (`Kept`); when it changes, a new one is
made (`Mounted`). `own` is the form object that `ServiceEditor` makes, fills and
reads, and never gives to the form on the screen; `NamespaceEditor` has none. `base`
remembers which slice the label inputs were made from, for they never look again.
The module overlaps with ListPage in drawer, slice and saves, at different depth:
ListPage has the table and both pages at once, EditorForm the forms.

**Router**, **UserStore**, **App.** `Router` has the table of routes and its two
readings, as operators over any table (`RoutesOf`, `MenuItemsOf`); `UserStore` the user
slice over localStorage, where a login may stop after any of its writes (`Torn`) and
another tab may write at any time; its `history` says which of those happened, for
the properties' exceptions. `App` extends both: the location, the pages that have
been loaded, `isFullPage`, navigations that wait for an await (`coming`), the login
form and the wizard. A redirection is a step of its own and comes before anything
a user does (`Due`), as React renders it.

**Layout.** The global slice with its copies in localStorage, in the document's
attributes, in its stylesheets and in the radio buttons of the settings, which
have a state of their own; the menu with the throttled resize listener; reloads,
other tabs and an operating system that changes its theme. The two items of localStorage
are written one after the other, and either write may fail: `WriteFails` is what is left
then, by the effect of the layout (`MountFails`, after which React takes the page down) or
by a radio button (`PickFails`). `apart` remembers that an item was changed by another tab
or by a write that was not followed by the other, `refused` that the button pressed last
failed, for the properties' exceptions. The arithmetic of
`generateColorMap` and `getColorFromThemeColor` is over places in a palette.

The `MC*` modules give the constants; `*Proofs` hold the theorems, those about all three
models of `metrics.go` in `MetricsProofs`.

## What the runs check

A property of a run is often the conjunction of two or more facts that are defined, and
proved, each by its own name; these are in brackets.

| run | instance | what it shows |
|---|---|---|
| `session` | 2 users, 2 requests, 1 token reset each, clock 0..2, lifetime 2, symmetry | a revoked token does not get in for any request sent after the reset (`RevokedStaysOut`); nobody acts as someone else although jar and storage are shared (`GrantedAsSender`); only fully checked requests bring a cookie back, and it outlives the old one (`RenewalIsSound`: `RenewedOnlyAfterChecks`, `RenewalNeverShortens`); the console implements the gate (`GateSpec`) |
| `session_live` | 1 user, 2 requests, clock 0..1 | every request ends (`EveryRequestEnds`) |
| `admin_login` | 3 logins | one lookup at a time (`LockDiscipline`), an outage is never kept (`OutageNeverKept`), a name once kept stays and is what later logins use (`KeptIsUsed`: `KeptForGood`, `OwnerFollowsKept`), every login ends (`EveryLoginEnds`) |
| `admin_login_degrade` | 2 logins | violation: the fallback for an unreachable backend is a nil dereference (`LookupDegrades`) |
| `metrics_fanout` | 1 request, 2 keys, 2 changes | the join never meets a missing result and no goroutine outlives its handler (`JoinWaitsForAll`: `JoinFindsEverything`, `NoStrayGoroutine`), rows existed and statuses were true at some moment of the request (`RowsWereTrue`: `RowsExisted`, `StatusWasTrue`), a quiet request without error documents is complete (`QuietIsComplete`), every view answers (`EveryViewAnswers`) |
| `metrics_totals` | 2 rows, 3 series | counters are the sums of the series, also in the row of all methods (`CountersFit`: `CountersAreSums`, `AllIsTheSum`); parts stay within the whole and the rate fits the counters (`RatesFit`: `PartsWithinWhole`, `RateIsCurrent`) |
| `metrics_means` | 2 rows, 4 series | every mean is that of one series, an average where a row has one only, and the row of all methods averages every sample (`MeansAreTrue`: `MeanIsOfOneSeries`, `MeanIsAverageWhenGroupedByRow`, `AllIsAverage`) |
| `paging` | 5 items, pages of 2, symmetry | only full pages go on (`OnlyFullPagesGoOn`); nothing that stays is missed while the list only grows, nothing comes twice while it only shrinks (`PagesFit`: `NothingMissedWhileGrowing`, `NothingTwiceWhileShrinking`) |
| `list_page` | 2 rows, 2 places, 2 searches, 3 fetches and 1 save under way, symmetry of rows and of fetches | a table at rest shows something asked in the last burst, in which the place shown was asked, and loading means something is under way, or the error page (`TableRests`: `QuietShowsAsked`, `LoadingWaits`); an open drawer holds no row but its own and no update goes to another (`OwnRowOnly`: `DrawerHoldsNoOther`, `UpdateIsOfItsRow`); the modes of rows, and the column of namespaces, say who is let in (`RowsTell`, over every list of up to three names, `MaxList`) |
| `editor` | 4 services of 2 names, one of them not editable, 2 namespaces, 2 label keys, 2 pairs of inputs, 2 saves | an update carries nothing of another row, nothing of a row that may not be edited is sent, a new service is new (`SentBelongs`: `UpdateIsOfOneRow`, `OnlyEditableSent`, `NewServiceIsNew`); fields and label inputs of an edit drawer show no row of another name than the row it was opened for (`ShownBelongs`) |
| `app` | 2 users, 2 logins, a table with an entry of each kind | the user shown is the one whose items are sent, and a tab that is logged out leaves nothing (`SliceFitsStorage`: `ShownIsSent`, `LoggedOutLeavesNothing`); a logout lands at the login page (`LogoutLands`), links lead to routes (`LinksHaveRoutes`), the wizard stays within its steps (`TypeOK`) |
| `layout` | 3 colours, 4 widths, 2 themes | the copies of the theme agree, also when a write of localStorage fails, and the system is followed only into the dark (`OneTheme`: `ThemeEverywhere`, `FollowsOnlyDark`, `RadioTellsTheme`, `SheetFits`); no sheet lacks a shade, but in the dark for the first of a palette, and the colours of a chart are all there (`ColorsComplete`: `ShadesThere`, `ChartsHaveAll`); the menu follows the width (`WidthDecides`) |

The violation is the finding of `PROJECT.json`, with the line that says otherwise.

### Why the bounds are enough

* Two requests of two users are what the session's properties relate; a third
  request adds no reader or writer of the jar that a later use of a slot does not. One
  reset per user separates "before" from "after"; three instants and a lifetime
  of two give cookies that are fresh, about to expire and expired. The proofs
  remove all four bounds.
* Three logins: one inside the lookup, one waiting, one that comes back after an
  upgrade.
* Requests to the metrics views share nothing (each has its own map and errgroup),
  so one request at a time is checked; two keys tell "this row" from "another";
  two changes let a key come and go, or one source change between the reads of
  two others.
* Three series over two rows: a row of two series, with another between them. Four for the
  means, so that two rows can have two each.
* Five items in pages of two: two full pages and a short one, and room for one
  addition.
* Three fetches: the two of a turn of the pages and one that was under way before. One save: it
  outlives the page and meets a drawer opened later. The proofs have any number.
* Services: two of one name, which share an editor, and two of another, one of which
  may not be edited; rows with no label, one and two. Two saves: the first answer comes
  while the second is under way. Two pairs of inputs, so that the last but one and the last
  can go.
* Two overlapping logins of two users: answered in both orders. The table has a
  page outside the menu, a page in it and a parent with a child; the assumption of
  `Router` checks the console's own table of eight entries and nineteen routes.
* The colours have the first, the second and the last place of their palettes, where the
  arithmetic ends, and one of them is picked from the panel; the widths are next to the two limits (900 and 1000).

### Fairness

The code gives no call a timeout (`http.DefaultClient`, `http.Get`, axios without
`timeout` on GET), so no liveness follows from the code alone. The models assume
that a call ends, in an answer or an error: weak fairness of each handler and
goroutine. In `AdminLogin` the lock also needs strong fairness (`SF_vars(Lock(l))`):
`sync.RWMutex` puts waiting goroutines in a queue and hands the lock over, so
a waiter is not passed over for ever. Users owe nothing: nobody has to send, log
in, turn a page or save; nor do the clock and the backend's changes. In `App` React
renders a redirection, runs an effect and goes on after an await without waiting for
anybody: weak fairness of `Redirect`, `PageEffect` and `Arrive`, and of nothing else:
answers and pages that are loaded may never come.
`CHECK_DEADLOCK FALSE` is set only for the session, where a clock that has reached its
bound and slots that nobody uses are the ordinary end.

## What is proved

For every value of the constants, from the named assumptions on them only:

* **SessionProofs.** The inductive invariant `IInv` binds every cookie, in the jar or
  under way, to a token of the user it names no newer than that user's current
  one, and every request to what its stage has established (`StageInv`, `HeaderInv`,
  `GrantInv`, `CookieInv`). The properties alone are not inductive: that a
  renewed cookie is for the checked user needs to be known one stage earlier, as a
  fact about the handler's locals. From it: `SessionTypes`, `SessionRevocation`,
  `SessionIdentity`, `SessionRenewal`, `SessionNeverShortens`, and
  `SessionImplementsGate`: every step maps to a step of `AccessGate` or a stutter.
* **AdminLoginProofs.** Types and `LockDiscipline`, strengthened by what a login inside the
  lookup knows (nothing is kept yet), is inductive; with it the action
  properties `KeptForGood` and `OwnerFollowsKept`, together `KeptIsUsed`, follow step by step.
* **MetricsProofs**, the fan-out. All its safety. `FanoutIInv` says what lies between the
  goroutines of a request and its reply: one goroutine per source while the handler
  waits, an error in the group exactly if one of them failed, a result in the map exactly
  if one has answered, and every result in the map made of something the request has
  seen (`GroupFits`, `ReadsTrue`). None of the properties is inductive alone: that rows
  are true at the join (`FanoutRowsWereTrue`) has to be known of the map, goroutine by
  goroutine, while the sources go on changing. From it also `FanoutJoinWaits`,
  `FanoutQuietIsComplete`.
* **MetricsProofs**, counters and means. `PartsWithinWhole` and `RateIsCurrent`, together
  `RatesFit`, and the sums: `TotalsCountersFit` and `MeansTrue`. The sums are over sets of
  series and samples of any size, by `SumFunctionOnSet` of the community modules, which
  takes the elements in an order nobody knows. The section "Sums over finite sets" proves
  that the order does not matter (`SumRemove`, `SumAdd`, `SumAgree`), each lemma by a
  *smallest* finite set that is wrong (`SmallestSet`, from the well-foundedness of the
  subsets of a finite set in the library) instead of an induction. The section after it
  reads one window sample by sample (`ReadOne`, `ReadAdds`). The invariants then say, at
  any moment of the loop, that the accumulator is the sum of what was read of the series
  at hand and the counters are the sums over the series that have ended (`CountersInv`),
  and likewise for the pool of the means (`MeansInv`): a mean is right at the end only
  because it was a sum of one window all along.
* **PagingProofs.** `OnlyFullPagesGoOn` and both halves of `PagesFit`, for every page size
  and list. For `NothingMissedWhileGrowing` the invariant says that what stays is either at
  hand or beyond the next offset (`Rest`); for `NothingTwiceWhileShrinking` that nothing at
  hand is listed beyond it (`BehindIsNew`), the list having nothing twice (`Once`). Lemmas say
  what `InsertAt` and `RemoveAt` of the community modules do to every place. That
  `pageNo` is bounded (`PagingTypesHold`, with `Items` assumed to be finite) needs
  all of it: pages before the last were full, and a list that has nothing twice is no
  longer than there are items.
* **ListPageProofs.** Types, `TableRests` and `OwnRowOnly` with all their parts. The
  invariant has one half for the table (fetches under way belong to the burst, the
  place shown was asked in it) and one for the drawer (a page that is not mounted shows
  none), and each action disturbs one of them only. `RowsTell` needs no invariant: it is
  a fact about `checkVisibilityMode` for every list, of any length, that names a
  namespace once (`ModeTells`).
* **EditorFormProofs.** Every property of the run, and that the label inputs never run out
  (`InputsStay`, for which there is a theorem only). What a drawer sends cannot be
  known from the drawer alone: the invariant says, page by page, that the slice, the
  form object and the fields hold what the drawer's row has, or nothing (`EditInv`,
  `CreateInv`), and two lemmas keep it, one for an editor that is made anew and one
  for an editor that stays, where the keys being equal must give rows of one name
  (`SameKey`). Whatever opens, closes or answers then only has to show a drawer that
  fits its slice (`MayShow`).
* **AppProofs.** Types, `SliceFitsStorage` with its parts and `LinksHaveRoutes`. The invariant
  adds that a storage nobody tore is of one user (`WholeOrTorn`). `MenuHasRoutes` proves
  of every well-formed table that the items of the menu are routes.
* **LayoutProofs.** Types, `OneTheme`, `WidthDecides` and `ColorsComplete`. Its two halves
  hold of every sheet and every chart that can be: `ShadesThere` by the arithmetic of
  places, `ChartsHaveAll` because the list of colours is turned until the chosen one is
  the first (`ChartsAre`), which loses no place and doubles none (`TurnedInv`).

Every invariant and every action property that a run checks is proved. The assumptions
are the named ones on the constants, and for `Paging`'s types that `Items` is finite.
Only model-checked is liveness (`EveryRequestEnds`, `EveryLoginEnds`,
`EveryViewAnswers`, `LogoutLands`), which is out of the prover's reach. The inductive
invariants were checked by TLC on the runs' instances before they were proved.

## Limits the models make visible

* `getAllList` misses an item that is listed all the time if an earlier one is
  removed between two pages, and returns one twice if one is added before it. The
  properties of `Paging` are therefore conditional.
* What a table shows at rest need not be the answer to the *last* fetch: two
  fetches for two places may answer in the other order. `QuietShowsAsked` says exactly
  what remains true.
* A failed fetch leaves the error page, and `isLoading` set behind it, until
  the page is left.
* A cookie within its lifetime is refused when the request has no `X-Polaris-User`
  header, because the header is compared with the claims (`proxy.go:273`).
* Where a query groups by `callee_result`, a service has one series per result and
  the last one of the answer overwrites the mean (`metrics.go:381`); hence
  `MeanIsAverageWhenGroupedByRow` and `MeanIsOfOneSeries`.
* A save answered after its page was left and opened again still resets the one
  slice of services: the drawer that is open by then sends its update without an
  id. What it never does is send another row's.
* `ServiceEditor` reads the form object it made and never gave to its form: what is
  typed for a service is not what is sent. Edits of labels are never sent for
  either kind: the labels that go are those of the slice. A row with no labels has no
  inputs to add one.
* The column of services says of each that only its own namespace may see it: it reads a
  list its rows do not have (`service_export_to`), and passes the service's name where
  the namespace belongs (`Services/index.tsx:40-41`). `RowsTell` leaves this column out.
* Services of one name share an editor: beside an open drawer the other one can be
  picked, and the fields may go on showing the first. `ShownBelongs` says what remains. Of
  several label changes the field of labels keeps one (`ServiceEditor.tsx:157`).
* A new namespace is created over the slice of the namespace that was edited last, and
  takes its labels over.
* An error document of Prometheus is an answer without series: the view succeeds and shows
  less (`metrics.go:1253`), which `QuietIsComplete` excepts.
* A refused login leaves an earlier token in localStorage: the tab is logged out until
  it is loaded again.
* That the system is followed never survives a load of the page, whose first effect
  switches the theme and with it the following off; and it brings in the dark without
  a stylesheet for it, until a colour or a theme is picked. The radio buttons show "system" also
  when the system is light and nothing is followed.
* In the dark, a colour that is the first of its palette has no brand colour
  (`10 - 0` is no place of it). At the ends of a palette two of the three shades may be one:
  where there is no place beside the brand colour, the colour as it was picked is taken.
* A write of localStorage that fails leaves the slice and the document as they were, but
  the radio button pressed, and perhaps one item of two written: the next load may start
  in another theme. If the effect of the layout meets it, nothing is rendered.
* The last link of the wizard leads to a path without a route, and its first form
  goes on whatever its rules say.

## Not modelled

* The 64-bit width of the request counters, and the rounding of `float64` means.
* The radios of the visibility mode in `NamespaceEditor` and `ServiceEditor`; selected
  and expanded rows; wording, notifications and logging of requests.
* The configuration and the start (read once, before anything runs), the server's
  route table, nodes and admin handlers, the logging scopes, the pure helpers of
  `common/`: see the plan.
* The form to register, which wants a tick it has no box for and never succeeds, and
  the countdown that nothing starts.
* The pages of demonstration data, and those of the gateway and of Kubernetes, which
  import a module the repository does not have (`modules/list/base`).
* The branch of the menu for entries that are `single` (`Menu.tsx:44-60`), which no entry of
  the table is; the column of services for the visibility; the error exit of signing a
  cookie (`proxy.go:209-215`), which HS256 with a key of bytes does not take.
* Layouts other than the one with a side menu, and the switches for header, footer
  and breadcrumbs: nothing asks for them.

## Plan

Done, in the order of importance: Session with AccessGate, AdminLogin,
MetricsFanout, MetricsTotals, MetricsMeans, Paging, ListPage, EditorForm, Router with
UserStore and App, Layout, Visibility, and proofs of all their safety. Next:

1. The radios of the visibility mode, with the list of namespaces they fetch while the form
   is open.
2. **LogScopes**: `Configure` and `updateScopes`, option by option; abstract
   specification: all or nothing, which the code may not meet.
3. **Gateway**: the server's route table with the verified proxy of Session as the
   handler of each route; which calls reach a backend unverified.
4. **Durations**, **PageParams** and **Collect** as pure operators against reference
   definitions: parse after print, limits and offsets at their bounds, the code of a
   batch response.
5. An abstract specification of a view (an answer true of some moment of
   the request, or an error) for MetricsFanout to implement, step by step from
   `FanoutIInv`.
