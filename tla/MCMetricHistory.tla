-------------------------- MODULE MCMetricHistory --------------------------
(* Kind 1 is a breach of the CPU threshold, kind 2 a critical saturation. *)
EXTENDS MetricHistory

TwoKinds == 1..2
============================================================================
