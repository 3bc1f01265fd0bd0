---------------------------- MODULE MetricsRows ----------------------------
(***************************************************************************)
(* What every model of handlers/metrics.go speaks of: the keys of the rows *)
(* of a reply, and nothing.  A row key stands for a service, an interface  *)
(* or method, an instance or a caller.  The models extend one another's    *)
(* vocabulary and share no other name, so that one module proves about all *)
(* of them.                                                                *)
(***************************************************************************)
CONSTANTS
    Keys,   \* row keys
    None    \* nothing stored, no error, no series at hand
=============================================================================
