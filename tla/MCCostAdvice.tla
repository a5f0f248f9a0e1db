---------------------------- MODULE MCCostAdvice ----------------------------
(* Idle; on the lower limit of right-sizing with one resource idle; less     *)
(* than that and not idle, which matches no rule.                            *)
EXTENDS CostAdvice

Percents == {<<10, 10>>, <<8, 22>>, <<5, 20>>}
=============================================================================
