-------------------------- MODULE MCMetricsTotals --------------------------
(* A small instance of MetricsTotals for TLC. *)
EXTENDS MetricsTotals, TLC

CONSTANTS k1, k2

\* Series with no number, with one, and with a number after a gap.
MCWindows == {<<NaN>>, <<1>>, <<2, NaN, 1>>}

MCResults == {"success", "fail", "timeout", "reject", "flow_control"}

Symmetry == Permutations(Keys)
=============================================================================
