------------------------------- MODULE Router -------------------------------
(***************************************************************************)
(* The table of routes of the console (router/), and the two readings of   *)
(* it: the routes that layouts/components/AppRouter renders, and the items *)
(* that layouts/components/Menu does.  They walk the table separately, so  *)
(* that a link of the menu may lead nowhere.                               *)
(*                                                                         *)
(* A path is the sequence of its segments; the redirection of the root is  *)
(* a step of module App.                                                   *)
(***************************************************************************)
EXTENDS Sequences, FiniteSets

\* IRouter: an entry with a page.
Page(segment) ==
    [path |-> <<segment>>, page |-> TRUE, hidden |-> FALSE, children |-> {}]

\* IRouter: an entry with children.
Group(segment, segments) ==
    [path |-> <<segment>>, page |-> FALSE, hidden |-> FALSE,
     children |-> {Page(s) : s \in segments}]

Login         == [Page("login") EXCEPT !.hidden = TRUE]
DashboardPage == Page("dashboard")
Namespace     == Page("namespace")
Discovery     == Group("discovery", {"service", "gateway", "kubernetes"})
Configuration == Group("configuration", {"group", "template", "kubernetes"})
Governance    == Group("governance", {"router", "ratelimit", "circuitbreaker"})
Metrics       == Group("metrics", {"event", "operation", "control", "microservice"})
Auth          == Group("auth", {"users", "roles", "policies"})

\* allRoutes.
Console == {Login, DashboardPage, Namespace, Discovery, Configuration, Governance, Metrics, Auth}

\* resolve: the path of an entry below its parent.
Resolve(parent, relative) == parent \o relative

\* renderRoutes: an entry with a page has a route, one without has those of its
\* children.
RoutesOf(table) ==
    {e.path : e \in {t \in table : t.page}}
        \cup UNION {{Resolve(e.path, c.path) : c \in {d \in e.children : d.page}} :
                       e \in {t \in table : ~t.page}}

\* Mutant: a parent is an item too, beside its children.
EveryItemOf(table) ==
    {e.path : e \in {t \in table : ~t.hidden}}
        \cup UNION {{Resolve(e.path, c.path) : c \in {d \in e.children : ~d.hidden}} :
                       e \in {t \in table : ~t.hidden}}

\* renderMenuItems: entries that are not hidden, or the children they have.  The branch for
\* a parent marked `single`, which shows its first child only, is left out: no entry of the
\* console's table is marked so (router/modules).
MenuItemsOf(table) ==
    {e.path : e \in {t \in table : ~t.hidden /\ t.children = {}}}
        \cup UNION {{Resolve(e.path, c.path) : c \in {d \in e.children : ~d.hidden}} :
                       e \in {t \in table : ~t.hidden}}

\* What both readings need: a page or children that are pages, and never both.
WellFormed(table) ==
    \A e \in table :
        /\ e.page <=> e.children = {}
        /\ \A c \in e.children : c.page

\* The console's own table is one of those, with 19 routes.
ASSUME ConsoleAssumption ==
    /\ WellFormed(Console)
    /\ Cardinality(RoutesOf(Console)) = 19
=============================================================================
