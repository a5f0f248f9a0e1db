---------------------------- MODULE AlertGrouping ----------------------------
(***************************************************************************)
(* The events of a flush and the messages made of them: which breaches a   *)
(* flush bundles together (AlertBuffer._group_events, by its result: the   *)
(* algorithm is in UnionFind), and the cooldown keys of a bundle           *)
(* (_build_summary_payload and extract_cooldown_keys).                     *)
(*                                                                         *)
(* A cluster or node name is a number; 0 is the empty name, which a        *)
(* summary spells "unknown".  Numbers give sorted() its order.  A workload *)
(* stands for the pair of workload_name and metric.                        *)
(***************************************************************************)
EXTENDS Naturals, Sequences, FiniteSets, FiniteSetsExt, SequencesExt

CONSTANTS Events,                               \* breaches of a threshold
          TenantOf, ClusterOf, NodeOf, WorkOf   \* the fields of each

Blank == 0

ASSUME EventFields ==
    /\ DOMAIN TenantOf = Events /\ DOMAIN WorkOf = Events
    /\ ClusterOf \in [Events -> Nat] /\ NodeOf \in [Events -> Nat]

SameCluster(e, f) == ClusterOf[e] # Blank /\ ClusterOf[e] = ClusterOf[f]
SameNode(e, f) == NodeOf[e] # Blank /\ NodeOf[e] = NodeOf[f]

\* The condition under which two events of a flush are united.
Related(e, f) == SameCluster(e, f) \/ SameNode(e, f)

\* The positions connected to position i: those in every set of positions
\* that holds i and is closed under Related.
Component(es, i) ==
    LET Closed(S) == \A a \in S, b \in DOMAIN es : Related(es[a], es[b]) => b \in S
        Around == {S \in SUBSET DOMAIN es : i \in S /\ Closed(S)}
    IN  {j \in DOMAIN es : \A S \in Around : j \in S}

\* The first position of each bundle.
Firsts(es) == {i \in DOMAIN es : \A j \in Component(es, i) : i <= j}

\* The numbers of S in their order.
Increasing(S) ==
    CHOOSE s \in [1..Cardinality(S) -> S] : \A m, n \in DOMAIN s : m < n => s[m] < s[n]

\* The bundles in the order of their first event, each in capture order.
GroupEvents(es) ==
    LET firsts == Increasing(Firsts(es))
        Bundle(i) == LET ps == Increasing(Component(es, i)) IN [n \in DOMAIN ps |-> es[ps[n]]]
    IN  [g \in DOMAIN firsts |-> Bundle(firsts[g])]

\* The tenant and cluster of a bundle: its first event's, and the least name.
SummaryTenant(group) == TenantOf[Head(group)]
SummaryCluster(group) ==
    LET named == {ClusterOf[e] : e \in ToSet(group)} \ {Blank}
    IN  IF named = {} THEN Blank ELSE Min(named)

\* tenant:cluster:workload:metric, for each workload of the bundle.
CooldownKeys(group) ==
    {<<SummaryTenant(group), SummaryCluster(group), WorkOf[e]>> : e \in ToSet(group)}

\* The key of an event announced on its own.
OwnKey(e) == <<TenantOf[e], ClusterOf[e], WorkOf[e]>>
==============================================================================
