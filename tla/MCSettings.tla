----------------------------- MODULE MCSettings -----------------------------
(* Two organizations, one of them the default one.  The thresholds are alike. *)
EXTENDS Settings, TLC

Symmetry == Permutations(Keys)
=============================================================================
