-------------------------- MODULE MCMetricsFanout --------------------------
(* Small instances of MetricsFanout for TLC. *)
EXTENDS MetricsFanout, TLC

CONSTANTS h1, h2, k1, k2

\* Requests and row keys are interchangeable.
Symmetry == Permutations(Handlers) \cup Permutations(Keys)
=============================================================================
