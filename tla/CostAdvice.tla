------------------------------ MODULE CostAdvice ------------------------------
(***************************************************************************)
(* Cost recommendations: one thread samples the cluster this process is    *)
(* configured for, another goes over every registered cluster, averages    *)
(* its latest samples, and replaces its Active recommendation when a rule  *)
(* matches.  The dashboard lists the Active ones and adds up their savings.*)
(*                                                                         *)
(* A session commits at its end; pysqlite reads outside any transaction,   *)
(* so the samples an analysis read may be followed by others before it     *)
(* writes.  Whole percents keep the rounding of averages away from limits. *)
(***************************************************************************)
EXTENDS Naturals, FiniteSetsExt, SequencesExt, BagsExt

CONSTANTS Names,        \* OMNIKUBE_CLUSTER_NAME over the deployments
          Utilizations, \* <<cpu, memory>> of a sample, in percent
          Lookback,     \* DEFAULT_METRICS_LOOKBACK
          IdleBelow,    \* IDLE_UTILIZATION_THRESHOLD_PCT, and the lower limit of
                        \* right-sizing
          SizedUpTo,    \* RIGHTSIZING_UTILIZATION_MAX_PCT
          MaxSamples,   \* bound on the samples
          MaxRestarts   \* bound on the restarts

ASSUME AdviceConstants ==
    /\ Names # {} /\ Utilizations \subseteq Nat \X Nat
    /\ Lookback \in Nat \ {0} /\ IdleBelow \in Nat /\ SizedUpTo \in Nat
    /\ MaxSamples \in Nat /\ MaxRestarts \in Nat

VARIABLES name,      \* the name of this process's cluster
          clusters,  \* the registered clusters, by id
          samples,   \* the samples of each, the newest last
          active,    \* the Active rows of cost_recommendations, a bag; Resolved
                     \* ones are never read again
          todo,      \* cluster_ids of calculate_all_cluster_savings
          found,     \* the type a rule gave the first of them, or "unread"
          taken,     \* samples so far
          restarts   \* restarts so far

database == <<clusters, samples, active>>
adviceVars == <<name, database, todo, found, taken, restarts>>

Types == {"Idle Node", "Right-sizing"}
NoRows == [a \in {} |-> 0]

AdviceInit ==
    /\ name \in Names
    /\ clusters = <<>> /\ samples = <<>> /\ active = NoRows
    /\ todo = <<>> /\ found = "unread"
    /\ taken = 0 /\ restarts = 0

-----------------------------------------------------------------------------
\* collect_and_store_cluster_metrics: the cluster of this name, registered if it is
\* not, gets a sample, in one session.
OwnClusters == {c \in DOMAIN clusters : clusters[c] = name}

Collect(u) ==
    /\ taken < MaxSamples /\ taken' = taken + 1
    /\ \/ /\ OwnClusters = {}
          /\ clusters' = Append(clusters, name)
          /\ samples' = Append(samples, <<u>>)
       \/ /\ OwnClusters # {}
          /\ samples' = [c \in DOMAIN samples |->
                            IF c \in OwnClusters THEN Append(samples[c], u) ELSE samples[c]]
          /\ UNCHANGED clusters
    /\ UNCHANGED <<name, active, todo, found, restarts>>

-----------------------------------------------------------------------------
\* The samples an analysis averages, and the rule the averages match.
Window(c) == SubSeq(samples[c], Max({1, Len(samples[c]) - Lookback + 1}), Len(samples[c]))

Total(c, i) == FoldLeft(LAMBDA sum, u : sum + u[i], 0, Window(c))
Whole(percent, c) == percent * Len(Window(c))

Idle(c) == \A i \in 1..2 : Total(c, i) < Whole(IdleBelow, c)
Sized(c) ==
    LET both == Total(c, 1) + Total(c, 2)
    IN  2 * Whole(IdleBelow, c) <= both /\ both <= 2 * Whole(SizedUpTo, c)

Rule(c) == CASE Idle(c) -> "Idle Node"
             [] ~Idle(c) /\ Sized(c) -> "Right-sizing"
             [] OTHER -> "none"

\* calculate_all_cluster_savings reads the ids, in a session of its own.
Begin ==
    /\ todo = <<>> /\ clusters # <<>>
    /\ todo' = [c \in DOMAIN clusters |-> c]
    /\ UNCHANGED <<name, database, found, taken, restarts>>

\* calculate_cluster_savings of the next cluster; without a match it returns before
\* it touches what is Active.
AnalyzeReturning(c) ==
    /\ todo # <<>> /\ c = Head(todo) /\ found = "unread"
    /\ LET rule == Rule(c)
       IN  IF rule = "none"
           THEN todo' = <<>> /\ UNCHANGED found
           ELSE found' = rule /\ UNCHANGED todo
    /\ UNCHANGED <<name, database, taken, restarts>>
Analyze(c) ==
    /\ todo # <<>> /\ c = Head(todo) /\ found = "unread"
    /\ LET rule == Rule(c)
       IN  IF rule = "none"
           THEN todo' = Tail(todo) /\ UNCHANGED found
           ELSE found' = rule /\ UNCHANGED todo
    /\ UNCHANGED <<name, database, taken, restarts>>

\* _resolve_active_recommendations and the new record, in one transaction.
Without(S) == [a \in DOMAIN active \ S |-> active[a]]
ResolveLike(row) == Without({row})
Resolve(row) == Without({a \in DOMAIN active : a.cluster = row.cluster})

Save(c) ==
    /\ todo # <<>> /\ c = Head(todo) /\ found # "unread"
    /\ LET row == [cluster |-> c, type |-> found]
       IN  active' = BagAdd(Resolve(row), row)
    /\ todo' = Tail(todo) /\ found' = "unread"
    /\ UNCHANGED <<name, clusters, samples, taken, restarts>>

\* An error of the database, a lock held too long among them, ends the cycle.
Abort ==
    /\ todo # <<>>
    /\ todo' = <<>> /\ found' = "unread"
    /\ UNCHANGED <<name, database, taken, restarts>>

\* The process dies and starts again, perhaps under another name, with the database it had or,
\* in a container without a volume for it, an empty one.
AdviceRestart ==
    /\ restarts < MaxRestarts /\ restarts' = restarts + 1
    /\ name' \in Names
    /\ \/ UNCHANGED database
       \/ clusters' = <<>> /\ samples' = <<>> /\ active' = NoRows
    /\ todo' = <<>> /\ found' = "unread"
    /\ UNCHANGED taken

AdviceStep ==
    \/ \E u \in Utilizations : Collect(u)
    \/ \E c \in DOMAIN clusters : Analyze(c) \/ Save(c)
    \/ Begin \/ Abort
AdviceNext == AdviceStep \/ AdviceRestart

\* The thread goes on, and no cluster's analysis meets an error every time.
AdviceFairness ==
    /\ WF_adviceVars(Begin)
    /\ \A c \in 1..MaxSamples : SF_adviceVars(Analyze(c)) /\ SF_adviceVars(Save(c))
AdviceSpec == AdviceInit /\ [][AdviceNext]_adviceVars /\ AdviceFairness

-----------------------------------------------------------------------------
AdviceTypeOK ==
    /\ name \in Names /\ clusters \in Seq(Names)
    /\ samples \in Seq(Seq(Utilizations) \ {<<>>}) /\ Len(samples) = Len(clusters)
    /\ active \in [DOMAIN active -> Nat \ {0}]
    /\ DOMAIN active \subseteq [cluster : DOMAIN clusters, type : Types]
    /\ todo \in Seq(DOMAIN clusters)
    /\ found \in Types \cup {"unread"} /\ (found # "unread" => todo # <<>>)
    /\ taken \in 0..MaxSamples /\ restarts \in 0..MaxRestarts

(***************************************************************************)
(* A cluster has at most one Active recommendation, whatever failed or was *)
(* restarted in between: the dashboard adds up the savings of all it lists *)
(* and counts none twice (cost_optimizer.py:70-81, 173-186,                *)
(* app.py:314-366).                                                        *)
(***************************************************************************)
OneActive ==
    \A a, b \in DOMAIN active : active[a] = 1 /\ (a.cluster = b.cluster => a = b)

(***************************************************************************)
(* When a cluster's latest samples match a rule for good, the cluster ends *)
(* up with that recommendation: an analysis overtaken by newer samples, a  *)
(* cycle cut short by another cluster's error or a restart only delays it  *)
(* (cost_optimizer.py:107-210, app.py:371-396).                            *)
(***************************************************************************)
Advised(c, t) == BagIn([cluster |-> c, type |-> t], active)
AdviceCatchesUp ==
    \A c \in 1..MaxSamples, t \in Types :
        <>[](c \in DOMAIN clusters /\ Rule(c) = t) => <>[]Advised(c, t)
==============================================================================
