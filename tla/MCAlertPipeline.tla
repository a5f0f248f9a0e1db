--------------------------- MODULE MCAlertPipeline ---------------------------
(* Three: breaches 1 and 2 repeat one workload, 3 is another workload of the *)
(* same cluster.  Two: one workload in two clusters.                         *)
EXTENDS AlertPipeline, TLC

Three == 1..3
ThreeClusters == <<1, 1, 1>>
ThreeNodes == <<1, 1, 2>>
ThreeWorks == <<"web", "web", "db">>
OneTenant == <<"acme", "acme", "acme">>

Two == 1..2
TwoClusters == <<1, 2>>
TwoNodes == <<1, 2>>
TwoWorks == <<"web", "web">>
TwoOwners == <<"acme", "acme">>

Symmetry == Permutations(Flushers)
==============================================================================
