----------------------------- MODULE MCUnionFind -----------------------------
(* Six breaches: a chain of clusters joined through nodes, two nameless ones *)
(* and one that is related to nothing.                                       *)
EXTENDS UnionFind

MCEvents == 1..6
MCCluster == <<1, 2, 2, 3, 0, 0>>
MCNode == <<1, 1, 2, 2, 0, 3>>
MCTenant == [e \in MCEvents |-> "t"]
MCWork == [e \in MCEvents |-> "w"]
==============================================================================
