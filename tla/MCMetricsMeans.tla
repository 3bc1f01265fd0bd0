--------------------------- MODULE MCMetricsMeans --------------------------
(* A small instance of MetricsMeans for TLC. *)
EXTENDS MetricsMeans, TLC

CONSTANTS k1, k2

\* Only a gap, one sample, samples around a gap.
MCWindows == {<<NaN>>, <<1>>, <<2, NaN, 3>>}

MCResults == {"success", "fail"}

Symmetry == Permutations(Keys)
=============================================================================
