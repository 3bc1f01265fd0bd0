--------------------------- MODULE MetricsSeries ---------------------------
(***************************************************************************)
(* What the loops of handlers/metrics.go over an answer of Prometheus have *)
(* in common.  An answer is a list of series, one per combination of the   *)
(* labels the query groups by, each with the samples of the window asked   *)
(* for.  The loops take the series in the order of the list, which is any  *)
(* order, and one sample at a time: the answer is chosen series by series, *)
(* as the loop reaches it.                                                 *)
(***************************************************************************)
EXTENDS MetricsRows, Integers, Sequences, FiniteSets, FiniteSetsExt, SequencesExt

CONSTANTS
    Results,    \* values of the label callee_result
    Windows,    \* samples a series may have
    NaN,        \* the sample "NaN"
    MaxSeries   \* bound on the series of an answer

ASSUME SeriesAssumption ==
    /\ NaN \notin Nat
    /\ \A w \in Windows : w \in Seq(Nat \cup {NaN})

VARIABLES
    pc,     \* "idle", "reading", "shown"
    answer, \* bookkeeping: the series the loop has reached
    cur,    \* the series at hand
    rest,   \* its samples that are still to be read
    made    \* the rows the reply has

SeriesTypeOK(possible, keys) ==
    /\ pc \in {"idle", "reading", "shown"}
    /\ answer \in SUBSET possible
    /\ cur \in answer \cup {None}
    /\ rest \in Seq(Nat \cup {NaN})
    /\ made \in SUBSET keys

\* Before the first request.
NoSeries ==
    /\ pc = "idle"
    /\ answer = {}
    /\ cur = None
    /\ rest = <<>>
    /\ made = {}

\* The loop reaches a series: its row is made unless it is there.
ReachSeries(s) ==
    /\ pc = "reading"
    /\ cur = None
    /\ Cardinality(answer) < MaxSeries
    /\ cur' = s
    /\ answer' = answer \cup {s}
    /\ rest' = s.values
    /\ made' = made \cup {s.row}
    /\ UNCHANGED pc

\* One sample of the series is read.
ReadSample ==
    /\ cur # None
    /\ rest # <<>>
    /\ rest' = Tail(rest)
    /\ UNCHANGED <<pc, answer, cur, made>>

\* The series is at its end.
EndSeries ==
    /\ cur # None
    /\ rest = <<>>
    /\ cur' = None
    /\ UNCHANGED <<pc, answer, rest, made>>

\* The answer has no more series.
EndAnswer ==
    /\ pc = "reading"
    /\ cur = None
    /\ pc' = "shown"
    /\ UNCHANGED <<answer, cur, rest, made>>

\* The next request starts from nothing.
Forget ==
    /\ pc = "shown"
    /\ pc' = "idle"
    /\ answer' = {}
    /\ cur' = None
    /\ rest' = <<>>
    /\ made' = {}
-----------------------------------------------------------------------------
(* What the properties of the loops compare with *)

\* The numbers among the samples of a window, by their places, and their sum.
Numbers(window) == {i \in DOMAIN window : window[i] # NaN}

SumOfNumbers(window) == SumFunctionOnSet(window, Numbers(window))

\* The series that the loop has been through.
Ended == answer \ {cur}
=============================================================================
