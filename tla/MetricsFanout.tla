--------------------------- MODULE MetricsFanout ---------------------------
(***************************************************************************)
(* The metrics views of handlers/metrics.go.  A handler starts one         *)
(* goroutine per source (the naming server, two Prometheus queries), waits *)
(* for all of them, and joins what they stored in a sync.Map of its own.   *)
(* The sources change while the goroutines run, each reads at a moment of  *)
(* its own, and each may fail.                                             *)
(***************************************************************************)
EXTENDS MetricsRows, Integers, FiniteSets

CONSTANTS
    Handlers,   \* slots of concurrent requests
    MaxChanges  \* bound on the changes of the sources in a behaviour

Kinds == {"services", "interfaces", "instances", "callers"}
Legs  == {"registry", "timeout", "total"}

\* The goroutines of each view: two of them do not ask the naming server.
LegsOf(kind) == IF kind \in {"services", "instances"} THEN Legs ELSE {"timeout", "total"}

Health == {"absent", "healthy", "unhealthy"}

ASSUME FanoutAssumption ==
    /\ None \notin Legs
    /\ \A keys \in SUBSET Keys : None # keys
    /\ \A reg \in [Keys -> Health] : None # reg
    /\ MaxChanges \in Nat

VARIABLES
    registry,   \* [Keys -> Health]: what the naming server knows
    series,     \* the keys Prometheus has series for, in the window asked for
    stage,      \* each handler: "idle", "wait", "join", "ok", "exception", "bad_request", "crashed"
    kind,       \* the view each handler serves
    leg,        \* each goroutine: "off", "running", "stored", "emptied", "failed"
    stored,     \* promResult: what each goroutine stored
    err,        \* the errgroup's first error, named by the leg that returned it
    rows,       \* the rows of the reply, with their status
    seen,       \* bookkeeping: the states of each key while the handler ran
    changes     \* how often a source has changed

fanoutVars == <<registry, series, stage, kind, leg, stored, err, rows, seen, changes>>

Statuses == {"none", "healthy", "unhealthy", "offline"}
Answers  == {"ok", "exception", "bad_request", "crashed"}

FanoutTypeOK ==
    /\ registry \in [Keys -> Health]
    /\ series \in SUBSET Keys
    /\ stage \in [Handlers -> {"idle", "wait", "join"} \cup Answers]
    /\ kind \in [Handlers -> Kinds]
    /\ leg \in [Handlers -> [Legs -> {"off", "running", "stored", "emptied", "failed"}]]
    /\ \A h \in Handlers :
          /\ stored[h]["registry"] \in [Keys -> Health] \cup {None}
          /\ stored[h]["timeout"] \in (SUBSET Keys) \cup {None}
          /\ stored[h]["total"] \in (SUBSET Keys) \cup {None}
    /\ err \in [Handlers -> Legs \cup {None}]
    /\ rows \in [Handlers -> SUBSET (Keys \X Statuses)]
    /\ seen \in [Handlers -> [Keys -> [health : SUBSET Health, measured : SUBSET BOOLEAN]]]
    /\ changes \in 0 .. MaxChanges

AllOff == [l \in Legs |-> "off"]
Empty  == [l \in Legs |-> None]
Unseen == [k \in Keys |-> [health |-> {}, measured |-> {}]]

FanoutInit ==
    /\ registry \in [Keys -> Health]
    /\ series \in SUBSET Keys
    /\ stage = [h \in Handlers |-> "idle"]
    /\ kind = [h \in Handlers |-> "services"]
    /\ leg = [h \in Handlers |-> AllOff]
    /\ stored = [h \in Handlers |-> Empty]
    /\ err = [h \in Handlers |-> None]
    /\ rows = [h \in Handlers |-> {}]
    /\ seen = [h \in Handlers |-> Unseen]
    /\ changes = 0

-----------------------------------------------------------------------------
(* The handler *)

\* Bookkeeping: what a request that reads the series of k now finds.
Measured(k) == k \in series

Begin(h, view) ==
    /\ stage' = [stage EXCEPT ![h] = "wait"]
    /\ kind' = [kind EXCEPT ![h] = view]
    /\ leg' = [leg EXCEPT ![h] = [l \in Legs |-> IF l \in LegsOf(view) THEN "running" ELSE "off"]]
    /\ seen' = [seen EXCEPT ![h] = [k \in Keys |->
                    [health |-> {registry[k]}, measured |-> {Measured(k)}]]]

\* A request for the service view: its goroutines start.
DescribeServices(h) ==
    /\ stage[h] = "idle"
    /\ Begin(h, "services")
    /\ UNCHANGED <<registry, series, stored, err, rows, changes>>

\* A request for one of the other views, which refuse one without a service.
DescribeOf(h, view) ==
    /\ stage[h] = "idle"
    /\ view # "services"
    /\ \/ Begin(h, view)
       \/ /\ stage' = [stage EXCEPT ![h] = "bad_request"]
          /\ kind' = [kind EXCEPT ![h] = view]
          /\ UNCHANGED <<leg, seen>>
    /\ UNCHANGED <<registry, series, stored, err, rows, changes>>

Read(l) == IF l = "registry" THEN registry ELSE series

\* One goroutine gets its answer and stores it.
LegStores(h, l) ==
    /\ leg[h][l] = "running"
    /\ leg' = [leg EXCEPT ![h][l] = "stored"]
    /\ stored' = [stored EXCEPT ![h][l] = Read(l)]
    /\ UNCHANGED <<registry, series, stage, kind, err, rows, seen, changes>>

\* Prometheus answers a query with an error document.  sendToPrometheus looks
\* neither at the HTTP code nor at the status in the document: it has no series.
LegEmptied(h, l) ==
    /\ leg[h][l] = "running"
    /\ l # "registry"
    /\ leg' = [leg EXCEPT ![h][l] = "emptied"]
    /\ stored' = [stored EXCEPT ![h][l] = {}]
    /\ UNCHANGED <<registry, series, stage, kind, err, rows, seen, changes>>

\* errgroup keeps the first error (errOnce).
GroupError(h, l) == IF err[h] = None THEN l ELSE err[h]

\* One goroutine fails: a bad cookie, no answer, a body that does not parse, a
\* code other than success.  The others are not cancelled.
LegFails(h, l) ==
    /\ leg[h][l] = "running"
    /\ leg' = [leg EXCEPT ![h][l] = "failed"]
    /\ err' = [err EXCEPT ![h] = GroupError(h, l)]
    /\ UNCHANGED <<registry, series, stage, kind, stored, rows, seen, changes>>

GroupDone(h) == \A l \in Legs : leg[h][l] # "running"

\* Mutant: the error of errg.Wait is dropped.
WaitForgetting(h) ==
    /\ stage[h] = "wait"
    /\ GroupDone(h)
    /\ stage' = [stage EXCEPT ![h] = "join"]
    /\ UNCHANGED <<registry, series, kind, leg, stored, err, rows, seen, changes>>

\* Mutant: an error ends the request while other goroutines run.
WaitForError(h) ==
    /\ stage[h] = "wait"
    /\ err[h] # None \/ GroupDone(h)
    /\ stage' = [stage EXCEPT ![h] = IF err[h] = None THEN "join" ELSE "exception"]
    /\ UNCHANGED <<registry, series, kind, leg, stored, err, rows, seen, changes>>

\* Mutant: the handler waits for the results instead of the goroutines.
WaitForResults(h) ==
    /\ stage[h] = "wait"
    /\ \A l \in LegsOf(kind[h]) : stored[h][l] # None
    /\ stage' = [stage EXCEPT ![h] = "join"]
    /\ UNCHANGED <<registry, series, kind, leg, stored, err, rows, seen, changes>>

\* errg.Wait returns when every goroutine has.
Wait(h) ==
    /\ stage[h] = "wait"
    /\ GroupDone(h)
    /\ stage' = [stage EXCEPT ![h] = IF err[h] = None THEN "join" ELSE "exception"]
    /\ UNCHANGED <<registry, series, kind, leg, stored, err, rows, seen, changes>>

\* Mutant: an instance keeps the state the lookup gave, also when it gave none.
StatusUnmapped(reg, k) == reg[k]

StatusOf(reg, k) == IF reg[k] = "absent" THEN "offline" ELSE reg[k]

\* The rows both queries know, in every view.
InBoth(got) == got["total"] \cap got["timeout"]

\* Mutant: a service the naming server does not list keeps its row.
ServiceRowsUnlisted(got) == InBoth(got) \X {"none"}

\* Mutant: only healthy services get a row.
ServiceRowsHealthy(got) == {k \in InBoth(got) : got["registry"][k] = "healthy"} \X {"none"}

\* A service must be registered.
ServiceRows(got) == {k \in InBoth(got) : got["registry"][k] # "absent"} \X {"none"}

\* Mutant: an instance the naming server does not list is shown as unhealthy.
InstanceRowsUnhealthy(got) ==
    {<<k, IF got["registry"][k] = "healthy" THEN "healthy" ELSE "unhealthy">> : k \in InBoth(got)}

\* An instance that is not registered is shown as offline.
InstanceRows(got) == {<<k, StatusOf(got["registry"], k)>> : k \in InBoth(got)}

\* The row of all methods, which both queries always have, is not among the keys.
InterfaceRows(got) == InBoth(got) \X {"none"}

CallerRows(got) == InBoth(got) \X {"none"}

RowsOf(view, got) ==
    CASE view = "services"   -> ServiceRows(got)
      [] view = "instances"  -> InstanceRows(got)
      [] view = "interfaces" -> InterfaceRows(got)
      [] view = "callers"    -> CallerRows(got)

\* The results are loaded and asserted to have their type: nothing stored means
\* a panic, which gin's Recovery answers.
Join(h) ==
    /\ stage[h] = "join"
    /\ IF \E l \in LegsOf(kind[h]) : stored[h][l] = None
       THEN /\ stage' = [stage EXCEPT ![h] = "crashed"]
            /\ UNCHANGED rows
       ELSE /\ stage' = [stage EXCEPT ![h] = "ok"]
            /\ rows' = [rows EXCEPT ![h] = RowsOf(kind[h], stored[h])]
    /\ UNCHANGED <<registry, series, kind, leg, stored, err, seen, changes>>

\* The reply is out; the slot serves the next request with a new sync.Map.
Finish(h) ==
    /\ stage[h] \in Answers
    /\ stage' = [stage EXCEPT ![h] = "idle"]
    /\ kind' = [kind EXCEPT ![h] = "services"]
    /\ leg' = [leg EXCEPT ![h] = AllOff]
    /\ stored' = [stored EXCEPT ![h] = Empty]
    /\ err' = [err EXCEPT ![h] = None]
    /\ rows' = [rows EXCEPT ![h] = {}]
    /\ seen' = [seen EXCEPT ![h] = Unseen]
    /\ UNCHANGED <<registry, series, changes>>

-----------------------------------------------------------------------------
(* The sources *)

\* What the handlers in progress could have read, after a change.
Witness ==
    seen' = [h \in Handlers |-> [k \in Keys |->
                IF stage[h] # "wait" THEN seen[h][k]
                ELSE [health   |-> seen[h][k].health \cup {registry'[k]},
                      measured |-> seen[h][k].measured \cup {Measured(k)'}]]]

Change ==
    /\ changes < MaxChanges
    /\ changes' = changes + 1
    /\ UNCHANGED <<stage, kind, leg, stored, err, rows>>

\* A service or instance registers, leaves, or changes its health.
RegistryChanges(k) ==
    /\ \E state \in Health \ {registry[k]} : registry' = [registry EXCEPT ![k] = state]
    /\ UNCHANGED series
    /\ Change
    /\ Witness

\* A series enters or leaves the window.
SeriesChanges(k) ==
    /\ series' = IF k \in series THEN series \ {k} ELSE series \cup {k}
    /\ UNCHANGED registry
    /\ Change
    /\ Witness

Handler(h) == Wait(h) \/ Join(h) \/ Finish(h)
Goroutine(h, l) == LegStores(h, l) \/ LegEmptied(h, l) \/ LegFails(h, l)

FanoutNext ==
    \/ \E h \in Handlers : DescribeServices(h)
    \/ \E h \in Handlers, view \in Kinds : DescribeOf(h, view)
    \/ \E h \in Handlers : Handler(h)
    \/ \E h \in Handlers, l \in Legs : Goroutine(h, l)
    \/ \E k \in Keys : RegistryChanges(k) \/ SeriesChanges(k)

FanoutSpec == FanoutInit /\ [][FanoutNext]_fanoutVars

\* A goroutine that can run does, and every call ends in an answer or an error.
FanoutFairSpec ==
    /\ FanoutSpec
    /\ \A h \in Handlers :
          WF_fanoutVars(Handler(h)) /\ \A l \in Legs : WF_fanoutVars(Goroutine(h, l))

-----------------------------------------------------------------------------
(* Properties *)

\* The join never meets a result that is not there: an error of any goroutine,
\* in any order with the others, turns the reply into an exception before the
\* type assertions run.
JoinFindsEverything == \A h \in Handlers : stage[h] # "crashed"

\* No goroutine outlives its request: none can write to a result or use the
\* request's gin.Context, which gin recycles, after the reply.
NoStrayGoroutine ==
    \A h \in Handlers, l \in Legs : leg[h][l] = "running" => stage[h] = "wait"

\* The join is made after all goroutines have ended and only when each has stored its
\* result, whichever failed and in whatever order (errg.Wait, the type assertions).
JoinWaitsForAll == JoinFindsEverything /\ NoStrayGoroutine

\* Three reads at three moments: a row is shown only for a key that was measured
\* at some moment of the request, and for a service that was registered at some
\* moment of it.
RowsExisted ==
    \A h \in Handlers : \A row \in rows[h] :
        /\ TRUE \in seen[h][row[1]].measured
        /\ kind[h] = "services" => seen[h][row[1]].health # {"absent"}

\* The status of an instance is one it had at some moment of the request; only
\* one that was not registered is shown as offline.
StatusWasTrue ==
    \A h \in Handlers : \A row \in rows[h] :
        kind[h] = "instances" =>
            (IF row[2] = "offline" THEN "absent" ELSE row[2]) \in seen[h][row[1]].health

\* What is shown was true at some moment of the request, key and status.
RowsWereTrue == RowsExisted /\ StatusWasTrue

\* A quiet world is shown completely: unless a query was answered with an error
\* document, a service or instance that was measured and registered all through
\* the request is not missing from a successful reply, even if its health
\* changed meanwhile.
QuietIsComplete ==
    \A h \in Handlers :
        stage[h] = "ok" /\ (\A l \in Legs : leg[h][l] # "emptied") =>
            \A k \in Keys :
                seen[h][k].measured = {TRUE} /\ "absent" \notin seen[h][k].health =>
                    \E status \in Statuses : <<k, status>> \in rows[h]

\* Every request is answered, however its goroutines end.
EveryViewAnswers == \A h \in Handlers : stage[h] = "wait" ~> stage[h] \in Answers
=============================================================================
