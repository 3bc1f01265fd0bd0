--------------------------- MODULE MetricsTotals ---------------------------
(***************************************************************************)
(* The loops of handlers/metrics.go that turn Prometheus' answer to a      *)
(* sum(upstream_rq_total) query into the counters of a reply.              *)
(*                                                                         *)
(* Two shapes of reply: a row per service, instance or caller, with its    *)
(* totals and success rate; and, in the interface view, a row per method   *)
(* with a row of all methods beside them.                                  *)
(***************************************************************************)
EXTENDS MetricsSeries

CONSTANTS
    All,        \* the row of all methods, __ALL__ (__UNKNOWN__ is one of the Keys)
    Unlabelled  \* a series of a query that does not group by callee_result

ASSUME TotalsAssumption ==
    /\ All \notin Keys
    /\ Unlabelled \notin Results
    /\ {"success", "fail", "reject", "flow_control"} \subseteq Results
    /\ \A k \in Keys, r \in Results \cup {Unlabelled}, w \in Windows :
          None # [row |-> k, result |-> r, values |-> w]

SumSeries == [row : Keys, result : Results \cup {Unlabelled}, values : Windows]

Views    == {"rows", "methods"}
Counters == {"total", "failed", "limited", "circuit", "success", "abnormal", "flow"}

VARIABLES
    view,   \* the shape of the reply
    labelled, \* whether the query groups by callee_result
    total,  \* the sum of the samples that were read
    counts, \* the counters of the rows
    rate    \* their success rate, a fraction <<numerator, denominator>>

totalsVars == <<pc, view, labelled, answer, cur, rest, total, made, counts, rate>>

RowKeys == Keys \cup {All}
Zero    == [c \in Counters |-> 0]

TotalsTypeOK ==
    /\ SeriesTypeOK(SumSeries, RowKeys)
    /\ view \in Views
    /\ labelled \in BOOLEAN
    /\ total \in Nat
    /\ counts \in [RowKeys -> [Counters -> Nat]]
    /\ rate \in [RowKeys -> Nat \X Nat]

TotalsInit ==
    /\ NoSeries
    /\ view = "rows"
    /\ labelled = TRUE
    /\ total = 0
    /\ counts = [k \in RowKeys |-> Zero]
    /\ rate = [k \in RowKeys |-> <<0, 1>>]

-----------------------------------------------------------------------------

\* A request asks for a view.  Two of the queries for rows leave callee_result
\* out when a method or an instance is named.  The interface view has the row of
\* all methods at once.
AskCounters(shape) ==
    /\ pc = "idle"
    /\ pc' = "reading"
    /\ view' = shape
    /\ labelled' \in IF shape = "rows" THEN BOOLEAN ELSE {TRUE}
    /\ made' = IF shape = "methods" THEN {All} ELSE {}
    /\ UNCHANGED <<answer, cur, rest, total, counts, rate>>

\* Prometheus groups: no two series of an answer have the same labels.
FreshSum(s) ==
    /\ labelled <=> s.result # Unlabelled
    /\ \A t \in answer : s.row # t.row \/ s.result # t.result

\* The loop reaches a series: its row is made unless it is there.
ReachSum(s) ==
    /\ ReachSeries(s)
    /\ FreshSum(s)
    /\ total' = 0
    /\ UNCHANGED <<view, labelled, counts, rate>>

\* NaN is skipped, and ParseInt makes 0 of what is no integer.
CountOf(sample) == IF sample \in Nat THEN sample ELSE 0

\* A sample is added.
AddCount ==
    /\ ReadSample
    /\ total' = total + CountOf(Head(rest))
    /\ UNCHANGED <<view, labelled, counts, rate>>

\* Mutant: a limited request is not counted as failed.
RowCountersLimitedApart(result) ==
    {"total"} \cup CASE result = "fail"         -> {"failed"}
                     [] result = "flow_control" -> {"limited"}
                     [] result = "reject"       -> {"circuit", "failed"}
                     [] OTHER                   -> {}

\* Mutant: a failed request is counted instead of being part of the total.
RowCountersFailedApart(result) ==
    CASE result = "fail"         -> {"failed"}
      [] result = "flow_control" -> {"limited", "failed", "total"}
      [] result = "reject"       -> {"circuit", "failed", "total"}
      [] OTHER                   -> {"total"}

\* The counters of a row that a series of that result adds to.
RowCounters(result) ==
    {"total"} \cup CASE result = "fail"         -> {"failed"}
                     [] result = "flow_control" -> {"limited", "failed"}
                     [] result = "reject"       -> {"circuit", "failed"}
                     [] OTHER                   -> {}

MethodCounters(result) ==
    CASE result = "success"                  -> {"success"}
      [] result = "fail"                     -> {"abnormal"}
      [] result \in {"reject", "flow_control"} -> {"flow"}
      [] OTHER                               -> {}

CountersOf(result) == IF view = "rows" THEN RowCounters(result) ELSE MethodCounters(result)

\* Mutant: the row of all methods is left out.
TouchedWithoutAll(s) == {s.row}

\* The rows a series adds to.
Touched(s) == IF view = "methods" THEN {s.row, All} ELSE {s.row}

\* Mutant: the rate is computed once, by the row's first series.
RateOnce(row, old) ==
    IF row["total"] = 0 \/ old # <<0, 1>> THEN old ELSE <<row["total"] - row["failed"], row["total"]>>

\* Mutant: the difference is taken the wrong way round.
RateSwapped(row, old) ==
    IF row["total"] = 0 THEN old ELSE <<row["failed"] - row["total"], row["total"]>>

\* CalSuccessRate.
RateOf(row, old) ==
    IF row["total"] = 0 THEN old ELSE <<row["total"] - row["failed"], row["total"]>>

Added(k) ==
    [c \in Counters |-> counts[k][c] + (IF c \in CountersOf(cur.result) THEN total ELSE 0)]

\* The series is at its end: its sum goes to the counters, and in the views with
\* rows the success rate is computed again.
AddSeries ==
    /\ EndSeries
    /\ counts' = [k \in RowKeys |-> IF k \in Touched(cur) THEN Added(k) ELSE counts[k]]
    /\ rate' = [k \in RowKeys |->
                  IF view = "rows" /\ k = cur.row THEN RateOf(Added(k), rate[k]) ELSE rate[k]]
    /\ total' = 0
    /\ UNCHANGED <<view, labelled>>

ShowCounters ==
    /\ EndAnswer
    /\ UNCHANGED <<view, labelled, total, counts, rate>>

ForgetCounters ==
    /\ Forget
    /\ view' = "rows"
    /\ labelled' = TRUE
    /\ counts' = [k \in RowKeys |-> Zero]
    /\ rate' = [k \in RowKeys |-> <<0, 1>>]
    /\ total' = 0

TotalsNext ==
    \/ \E shape \in Views : AskCounters(shape)
    \/ \E s \in SumSeries : ReachSum(s)
    \/ AddCount
    \/ AddSeries
    \/ ShowCounters
    \/ ForgetCounters

TotalsSpec == TotalsInit /\ [][TotalsNext]_totalsVars

-----------------------------------------------------------------------------
(* Properties *)

Anything == Results \cup {Unlabelled}
Failures == {"fail", "reject", "flow_control"}

\* The results a counter of a row, or of a method, counts.
CountedInRow == [total |-> Anything, failed |-> Failures, limited |-> {"flow_control"},
                 circuit |-> {"reject"}, success |-> {}, abnormal |-> {}, flow |-> {}]

CountedInMethod == [success |-> {"success"}, abnormal |-> {"fail"},
                    flow |-> {"reject", "flow_control"},
                    total |-> {}, failed |-> {}, limited |-> {}, circuit |-> {}]

Counted(c) == IF view = "rows" THEN CountedInRow[c] ELSE CountedInMethod[c]

\* The series that a counter of a row counts, and the sum of their samples.
SeriesFor(k, c) == {s \in Ended : (k = All \/ s.row = k) /\ s.result \in Counted(c)}

SumOf(k, c) == SumFunctionOnSet([s \in SumSeries |-> SumOfNumbers(s.values)], SeriesFor(k, c))

\* At any moment the counters are the sums over the series the loop has been
\* through, whatever their order, and there is a row for exactly the keys that have
\* a series.
CountersAreSums ==
    /\ made \ {All} = {s.row : s \in answer}
    /\ \A k \in made : counts[k] = [c \in Counters |-> SumOf(k, c)]

\* The parts never exceed the whole, at any moment of the loop: a rate computed
\* in it is between 0 and 1.
PartsWithinWhole ==
    \A k \in RowKeys :
        /\ counts[k]["limited"] + counts[k]["circuit"] <= counts[k]["failed"]
        /\ counts[k]["failed"] <= counts[k]["total"]

\* The success rate is that of the counters beside it, however many series of the
\* row have been added and in which order; a row without requests has rate 0.
RateIsCurrent ==
    \A k \in made \ {All} : view = "rows" =>
        rate[k] = IF counts[k]["total"] = 0 THEN <<0, 1>>
                  ELSE <<counts[k]["total"] - counts[k]["failed"], counts[k]["total"]>>

\* The row of all methods is the sum of the methods' rows.
AllIsTheSum ==
    view = "methods" =>
        \A c \in Counters :
            counts[All][c] = SumFunctionOnSet([k \in Keys |-> counts[k][c]], made \ {All})

\* Counters and rate agree at any moment of the loop (CalSuccessRate).
RatesFit == PartsWithinWhole /\ RateIsCurrent

\* Rows, and the row of all methods, count every series once.
CountersFit == CountersAreSums /\ AllIsTheSum
=============================================================================
