------------------------- MODULE MCOverrideGuardrail -------------------------
(* Costs 1 and 2 around a remaining budget of 1: one is Ready, one Blocked; *)
(* a request may name the ready one.                                        *)
EXTENDS OverrideGuardrail, TLC

TwoOrgs == 1..2
ReadyOrBlocked == 1..2
Ready == {1}
Symmetry == Permutations(Tokens)
==============================================================================
