------------------------------ MODULE ScrapeLoop ------------------------------
(***************************************************************************)
(* Where samples come from: one thread asks the Kubernetes API for the pods*)
(* that carry the scrape label and replaces the list of targets, another   *)
(* takes a copy of the list and asks each target for its metrics at the    *)
(* address it was listed with.                                             *)
(*                                                                         *)
(* Pods get addresses and lose them to others meanwhile; one that has      *)
(* finished keeps its address in the API's answer, and may be listed with  *)
(* it, although another pod runs there.  A pod may be out of reach, or     *)
(* send what is not UTF-8 or not HTTP, which nothing catches before the    *)
(* loop: the cycle ends.  What is stored is left to MetricHistory, and     *)
(* what is captured to AlertPipeline.                                      *)
(***************************************************************************)
EXTENDS FiniteSetsExt, SequencesExt

CONSTANTS Listed,          \* the labelled pods
          Others,          \* pods without the label
          Garbled,         \* the pods whose answers cannot be decoded
          Addresses,       \* pod IPs
          NoAddress,       \* of a pod that is not there
          MaxLoopRestarts  \* bound: restarts of the process

Pods == Listed \cup Others

ASSUME ScrapeConstants ==
    /\ NoAddress \notin Addresses /\ IsFiniteSet(Listed) /\ Garbled \subseteq Pods
    /\ MaxLoopRestarts \in Nat

VARIABLES address,       \* Kubernetes: status.pod_ip of each pod
          running,       \* Kubernetes: the pods that have not finished
          connected,     \* _api is not None
          targets,       \* _active_targets
          cycle,         \* the targets the running scrape cycle still has to ask
          loopRestarts,  \* restarts so far
          asked          \* history: the labelled pods' addresses when the API was last asked

cluster == <<address, running>>
server == <<connected, targets, cycle, loopRestarts>>
loopVars == <<cluster, server, asked>>

LoopInit ==
    /\ address = [p \in Pods |-> NoAddress] /\ asked = [p \in Listed |-> NoAddress]
    /\ running = {} /\ connected \in BOOLEAN
    /\ targets = <<>> /\ cycle = <<>> /\ loopRestarts = 0

-----------------------------------------------------------------------------
\* Kubernetes starts a pod at an address where none runs.  A pod that finishes keeps its
\* address until it is deleted, though it no longer holds it.
Answering(a) == {p \in running : address[p] = a}
Start(p, a) ==
    /\ address[p] = NoAddress /\ Answering(a) = {}
    /\ address' = [address EXCEPT ![p] = a]
    /\ running' = running \cup {p}
    /\ UNCHANGED <<server, asked>>
Finish(p) ==
    /\ p \in running
    /\ running' = running \ {p}
    /\ UNCHANGED <<address, server, asked>>
Delete(p) ==
    /\ address[p] # NoAddress
    /\ address' = [address EXCEPT ![p] = NoAddress]
    /\ running' = running \ {p}
    /\ UNCHANGED <<server, asked>>

\* get_scrape_targets and the loop: the API lists the labelled pods in an order of its
\* own, and those without an address are passed over, whatever phase they are in.
AskApi == asked' = [p \in Listed |-> address[p]]
Addressed == {p \in Listed : address[p] # NoAddress}
Discover ==
    /\ connected
    /\ \E order \in SetToSeqs(Addressed) :
         targets' = [n \in DOMAIN order |-> [pod |-> order[n], at |-> address[order[n]]]]
    /\ AskApi
    /\ UNCHANGED <<cluster, connected, cycle, loopRestarts>>

\* Without a client, and on an error of the API, the list is empty.
DiscoverNothingKeeping ==
    /\ AskApi
    /\ UNCHANGED <<cluster, server>>
DiscoverNothing ==
    /\ targets' = <<>>
    /\ AskApi
    /\ UNCHANGED <<cluster, connected, cycle, loopRestarts>>

-----------------------------------------------------------------------------
\* scrape_cycle: the copy of the list, and a target after the other.
BeginCycle ==
    /\ cycle = <<>> /\ targets # <<>>
    /\ cycle' = targets
    /\ UNCHANGED <<cluster, connected, targets, loopRestarts, asked>>

Decodable(a) == Answering(a) # {} /\ Answering(a) \cap Garbled = {}
NextTarget == cycle' = Tail(cycle) /\ UNCHANGED <<cluster, connected, targets, loopRestarts, asked>>
EndCycle == cycle' = <<>> /\ UNCHANGED <<cluster, connected, targets, loopRestarts, asked>>

\* Whoever has the address answers: insert_metric, and the thresholds.
Store(p) ==
    /\ cycle # <<>> /\ Head(cycle).pod = p
    /\ Decodable(Head(cycle).at)
    /\ NextTarget

\* scrape_target returns None.
UnreachableEnds == cycle # <<>> /\ EndCycle
Unreachable == cycle # <<>> /\ NextTarget

\* The answer cannot be decoded, or the sample cannot be inserted.
CycleError ==
    /\ cycle # <<>> /\ Answering(Head(cycle).at) # {}
    /\ EndCycle

Ask == Unreachable \/ CycleError \/ \E p \in Pods : Store(p)

-----------------------------------------------------------------------------
\* A new process connects anew, or cannot; it knows no targets.
LoopRestart ==
    /\ loopRestarts < MaxLoopRestarts /\ loopRestarts' = loopRestarts + 1
    /\ connected' \in BOOLEAN
    /\ targets' = <<>> /\ cycle' = <<>>
    /\ UNCHANGED <<cluster, asked>>

LoopNext ==
    \/ Discover \/ DiscoverNothing \/ BeginCycle \/ Ask
    \/ \E p \in Pods : Finish(p) \/ Delete(p) \/ \E a \in Addresses : Start(p, a)
    \/ LoopRestart

\* The threads go on; the API, a pod that keeps running and the database do not fail
\* at every attempt.
LoopFairness ==
    /\ SF_loopVars(Discover) /\ SF_loopVars(BeginCycle) /\ WF_loopVars(Ask)
    /\ \A p \in Listed : SF_loopVars(Store(p))
LoopSpec == LoopInit /\ [][LoopNext]_loopVars /\ LoopFairness

-----------------------------------------------------------------------------
LoopTypeOK ==
    /\ address \in [Pods -> Addresses \cup {NoAddress}]
    /\ running \subseteq {p \in Pods : address[p] # NoAddress}
    /\ connected \in BOOLEAN /\ loopRestarts \in 0..MaxLoopRestarts
    /\ targets \in Seq([pod : Pods, at : Addresses]) /\ cycle \in Seq([pod : Pods, at : Addresses])

(***************************************************************************)
(* Nothing is listed on hearsay: a target had its address when the API was *)
(* last asked, whether or not it answered; after an error an address that  *)
(* went to another pod is not asked in the old one's name by a new cycle   *)
(* (discovery.py:149-178, 265-276).                                        *)
(***************************************************************************)
TargetsAsListed == \A n \in DOMAIN targets : asked[targets[n].pod] = targets[n].at

(***************************************************************************)
(* A pod that keeps running is sampled again and again, although the API   *)
(* and other pods fail and pods that have finished are listed beside it,   *)
(* provided the process is connected and no pod runs whose answers cannot  *)
(* be decoded: one that does ends every cycle before the pods listed after *)
(* it (discovery.py:202-276, metrics_collector.py:250-263, 704-752).       *)
(***************************************************************************)
Undisturbed == Garbled \cap running = {}
Steady(p) == \E a \in Addresses : <>[](connected /\ Undisturbed /\ p \in running /\ address[p] = a)
EveryTargetScraped == \A p \in Listed : Steady(p) => []<><<Store(p)>>_loopVars
===============================================================================
