----------------------------- MODULE Rightsizing -----------------------------
(***************************************************************************)
(* The arithmetic of analyze_rightsizing_recommendations                   *)
(* (server/core/optimizer.py) that ends in a number of replicas.           *)
(***************************************************************************)
EXTENDS Integers

LowUtilization == 30   \* LOW_UTILIZATION_THRESHOLD_PCT

Larger(a, b) == IF a > b THEN a ELSE b
Smaller(a, b) == IF a < b THEN a ELSE b

Truncated(n, d) == n \div d
\* Python's round of n / d: to the nearest, halves to the even neighbour.
Rounded(n, d) ==
    LET down == n \div d
        twice == 2 * (n % d)
    IN  IF twice > d \/ (twice = d /\ down % 2 = 1) THEN down + 1 ELSE down

\* _round_replica_target: utilization is in percent.
RoundReplicaTarget(current, utilization) ==
    LET ratio == Smaller(LowUtilization, Larger(utilization, 1))
        target == Larger(1, Rounded(current * ratio, LowUtilization))
    IN  IF current <= 1 THEN 1
        ELSE IF target >= current THEN Smaller(target, current - 1) ELSE target

\* Low on one side is enough, while the target follows the busier side.
Underutilized(cpu, memory) == cpu < LowUtilization \/ memory < LowUtilization
ReplicaAdvice(pods, cpu, memory) ==
    LET current == Larger(1, pods)
        target == RoundReplicaTarget(current, Larger(cpu, memory))
    IN  IF Underutilized(cpu, memory) /\ target < current THEN {target} ELSE {}

\* Of the smaller numbers of replicas, one that is nearest to what would run at the
\* threshold.
Distance(n, current, utilization) ==
    LET off == n * LowUtilization - current * Larger(utilization, 1)
    IN  Larger(off, -off)
Nearest(n, current, utilization) ==
    /\ n \in 1..(current - 1)
    /\ \A m \in 1..(current - 1) : Distance(n, current, utilization) <= Distance(m, current, utilization)
=============================================================================
