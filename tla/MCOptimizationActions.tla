------------------------ MODULE MCOptimizationActions ------------------------
(* A cluster whose replicas in all differ from those of any one deployment,  *)
(* and utilizations that advise to go down to a third, by a little and by    *)
(* one although one side is busy.                                            *)
EXTENDS OptimizationActions, TLC
Symmetry == Permutations(Writers) \cup Permutations(Orgs) \cup Permutations(Payloads)
              \cup Permutations(Deployments)
=============================================================================
