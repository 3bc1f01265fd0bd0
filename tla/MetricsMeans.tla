--------------------------- MODULE MetricsMeans ----------------------------
(***************************************************************************)
(* The loops of handlers/metrics.go that turn Prometheus' answer to an     *)
(* avg(upstream_rq_timeout) query into the mean latency of each row.  A    *)
(* mean is kept as <<sum, number of samples>>; the code divides.           *)
(*                                                                         *)
(* Two of the queries group by callee_result as well when the request      *)
(* names a namespace (services) or an instance (interfaces).  A row then   *)
(* has several series.                                                     *)
(***************************************************************************)
EXTENDS MetricsSeries

ASSUME MeansAssumption ==
    \A k \in Keys, r \in Results, w \in Windows : None # [row |-> k, result |-> r, values |-> w]

AvgSeries == [row : Keys, result : Results, values : Windows]

VARIABLES
    byResult,   \* whether the query groups by callee_result too
    sum,        \* totalTimeout: the sum of the samples that were read
    n,          \* total: their number
    mean,       \* the mean of each row
    pool,       \* <<allTotalTimeout, allTotal>>
    allMean     \* the mean of the row of all methods

meansVars == <<pc, byResult, answer, cur, rest, sum, n, made, mean, pool, allMean>>

NoMean == <<0, 1>>

MeansTypeOK ==
    /\ SeriesTypeOK(AvgSeries, Keys)
    /\ byResult \in BOOLEAN
    /\ sum \in Nat /\ n \in Nat
    /\ mean \in [Keys -> Nat \X (Nat \ {0})]
    /\ pool \in Nat \X Nat
    /\ allMean \in Nat \X (Nat \ {0})

MeansInit ==
    /\ NoSeries
    /\ byResult = FALSE
    /\ sum = 0 /\ n = 0
    /\ mean = [k \in Keys |-> NoMean]
    /\ pool = <<0, 0>>
    /\ allMean = NoMean

-----------------------------------------------------------------------------

\* A request asks for a view, with or without naming a namespace or an instance.
AskMeans ==
    /\ pc = "idle"
    /\ pc' = "reading"
    /\ byResult' \in BOOLEAN
    /\ UNCHANGED <<answer, cur, rest, sum, n, made, mean, pool, allMean>>

\* Prometheus groups: no two series of an answer have the same labels.
FreshAvg(s) ==
    \A t \in answer : s.row # t.row \/ (byResult /\ s.result # t.result)

\* The loop reaches a series.
ReachAvg(s) ==
    /\ ReachSeries(s)
    /\ FreshAvg(s)
    /\ sum' = 0 /\ n' = 0
    /\ UNCHANGED <<byResult, mean, pool, allMean>>

\* A gap is skipped, and does not count.
SkipGap ==
    /\ ReadSample
    /\ Head(rest) = NaN
    /\ UNCHANGED <<byResult, sum, n, mean, pool, allMean>>

\* Mutant: only the first series of an answer counts for all methods.
AllAddedOnce(x) ==
    IF Cardinality(answer) = 1 THEN <<pool[1] + x, pool[2] + 1>> ELSE pool

AllAdded(x) == <<pool[1] + x, pool[2] + 1>>

\* A sample counts for its row and for the row of all methods.
AddLatency ==
    /\ ReadSample
    /\ Head(rest) # NaN
    /\ sum' = sum + Head(rest)
    /\ n' = n + 1
    /\ pool' = AllAdded(Head(rest))
    /\ UNCHANGED <<byResult, mean, allMean>>

\* Mutant: a window of gaps divides by zero.
MeanUnguarded(x, count) == <<x, count>>

\* Mutant: the gaps count as samples.
MeanOfWindow(x, count) == IF count = 0 THEN NoMean ELSE <<x, Len(cur.values)>>

\* Mutant: the accumulators of all methods are taken for those of the row.
MeanOfAll(x, count) == IF count = 0 THEN NoMean ELSE pool

\* Without a sample the mean is 0.
MeanOf(x, count) == IF count = 0 THEN NoMean ELSE <<x, count>>

\* The series is at its end: its mean becomes the mean of its row.
KeepMean ==
    /\ EndSeries
    /\ mean' = [mean EXCEPT ![cur.row] = MeanOf(sum, n)]
    /\ sum' = 0 /\ n' = 0
    /\ UNCHANGED <<byResult, pool, allMean>>

AllMean == IF pool[2] = 0 THEN NoMean ELSE pool

\* The mean of all methods is taken at the end.
ShowMeans ==
    /\ EndAnswer
    /\ allMean' = AllMean
    /\ UNCHANGED <<byResult, sum, n, mean, pool>>

ForgetMeans ==
    /\ Forget
    /\ byResult' = FALSE
    /\ mean' = [k \in Keys |-> NoMean]
    /\ pool' = <<0, 0>>
    /\ allMean' = NoMean
    /\ UNCHANGED <<sum, n>>

MeansNext ==
    \/ AskMeans
    \/ \E s \in AvgSeries : ReachAvg(s)
    \/ SkipGap
    \/ AddLatency
    \/ KeepMean
    \/ ShowMeans
    \/ ForgetMeans

MeansSpec == MeansInit /\ [][MeansNext]_meansVars

-----------------------------------------------------------------------------
(* Properties *)

\* The samples of some series, without the gaps: their sum and their number.
Pooled(some) ==
    <<SumFunctionOnSet([s \in AvgSeries |-> SumOfNumbers(s.values)], some),
      SumFunctionOnSet([s \in AvgSeries |-> Cardinality(Numbers(s.values))], some)>>

\* The mean m is that of the pooled samples p, 0 when there are none.
IsMeanOf(m, p) == IF p[2] = 0 THEN m[1] = 0 ELSE m[1] * p[2] = p[1] * m[2]

RowIsAverage(k) == IsMeanOf(mean[k], Pooled({s \in answer : s.row = k}))

\* The means are averages, gaps left out, in the queries that have one series per
\* row.
MeanIsAverageWhenGroupedByRow ==
    pc = "shown" /\ ~byResult => \A k \in made : RowIsAverage(k)

\* The row of all methods is the average of every sample, also where the rows of
\* the methods themselves are not, and not an average of averages.
AllIsAverage == pc = "shown" => IsMeanOf(allMean, Pooled(answer))

\* Even where a row has several series, its mean is that of one of them: the
\* loop never mixes the samples of one series into the mean of another.
MeanIsOfOneSeries ==
    pc = "shown" =>
        \A k \in made : \E s \in answer : s.row = k /\ IsMeanOf(mean[k], Pooled({s}))

\* No mean is made of samples that do not belong together: a row has that of one of its
\* series, of its only one where the query groups by row, and the row of all methods that
\* of every sample.
MeansAreTrue == MeanIsOfOneSeries /\ MeanIsAverageWhenGroupedByRow /\ AllIsAverage
=============================================================================
