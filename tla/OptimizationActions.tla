------------------------- MODULE OptimizationActions -------------------------
(***************************************************************************)
(* The gateway's optimization endpoints (server/app.py) over what they     *)
(* change: the deployments of the cluster, the incident table and the      *)
(* compliance vault.  A process handles one request at a time, in steps    *)
(* between which another process and the cluster's own controllers may     *)
(* act, and each of which may fail.  A request that fails is answered with *)
(* an error; who repeats it sends another request.                         *)
(*                                                                         *)
(* Node remediations only annotate a node: they are simulated ones here.   *)
(* Overrides are in OverrideGuardrail.  Requests are the ledger's payloads.*)
(***************************************************************************)
EXTENDS ComplianceLedger, Rightsizing
CONSTANTS
    Deployments,
    MaxReplicas,    \* bound on what the cluster's controllers scale to
    Pods,           \* averages of a day: the running pods of the whole cluster
    Utilizations    \* ... and its utilizations, in percent
ASSUME ActionsConstants == MaxReplicas \in Nat /\ Pods \subseteq Nat /\ Utilizations \subseteq Nat

VARIABLES
    replicas,    \* of each deployment
    advice,      \* the number of replicas on the optimization page, if any
    job,         \* the request each process handles
    started,     \* history: the requests begun
    migrations,  \* history: the migrations among them
    incidents,   \* the requests with a row in incident_events
    answered     \* history: the requests answered with success
actionVars == <<vault, draft, replicas, advice, job, started, migrations,
                incidents, answered>>
records == <<migrations, incidents, answered>>
Requests == Payloads
Idle == [at |-> "idle"]
Unstated == -1   \* no target in the request

ActionsInit ==
    /\ Init
    /\ replicas \in [Deployments -> 0..MaxReplicas]
    /\ advice = {} /\ job = [s \in Writers |-> Idle]
    /\ started = {} /\ migrations = {} /\ incidents = {} /\ answered = {}

\* The cluster's controllers, or an administrator.
Rescale(d) ==
    /\ \E n \in 0..MaxReplicas : replicas' = [replicas EXCEPT ![d] = n]
    /\ UNCHANGED <<vault, draft, advice, job, started, records>>

\* The page shows the advice for the pods of the whole cluster.
Analyze ==
    /\ \E pods \in Pods, cpu, memory \in Utilizations : advice' = ReplicaAdvice(pods, cpu, memory)
    /\ UNCHANGED <<vault, draft, replicas, job, started, records>>

Begin(s, q, next) ==
    /\ job[s] = Idle /\ q \in Requests \ started
    /\ started' = started \cup {q}
    /\ job' = [job EXCEPT ![s] = next]

-----------------------------------------------------------------------------
(* /api/v1/optimization/apply with reduce_replicas, and a ChatOps button. *)

\* _execute_reduce_replicas, of a deployment that is named, and of the largest.
Wanted(read, target) == IF target = Unstated THEN Larger(1, read - 1) ELSE Larger(1, target)
NamedTargetUnclamped(read, target) == Wanted(read, target)
NamedTarget(read, target) ==
    IF Wanted(read, target) < read THEN Wanted(read, target) ELSE Larger(1, read - 1)
Largest == {d \in Deployments : replicas[d] > 1 /\ \A e \in Deployments : replicas[e] <= replicas[d]}

ReduceNamed(s, q) ==
    /\ \E d \in Deployments, target \in Unstated..MaxReplicas :
         LET read == Larger(1, replicas[d])
         IN  Begin(s, q, [at |-> "patch", request |-> q, deployment |-> d, read |-> read,
                          replicas |-> NamedTarget(read, target), from |-> "named"])
    /\ UNCHANGED <<vault, draft, replicas, advice, records>>

\* No deployment is named: the page's button sends the advice as target, if there is
\* one, and any other request what it likes.
Asker(target) ==
    IF target \in (IF advice = {} THEN {Unstated} ELSE advice) THEN "page" ELSE "client"

ReduceLargest(s, q) ==
    /\ \E d \in Largest, target \in (Unstated..MaxReplicas) \cup advice :
         Begin(s, q, [at |-> "patch", request |-> q, deployment |-> d, read |-> replicas[d],
                      replicas |-> Wanted(replicas[d], target), from |-> Asker(target)])
    /\ UNCHANGED <<vault, draft, replicas, advice, records>>

\* No client, no candidate or a failing call: the action is only simulated.
Simulate(s, q) ==
    /\ Begin(s, q, [at |-> "incident", request |-> q])
    /\ UNCHANGED <<vault, draft, replicas, advice, records>>

\* The call succeeds, is refused by the API (the action counts as simulated), or
\* breaks off, applied or not, and with it the request.
Patch(s) ==
    /\ job[s].at = "patch"
    /\ \/ replicas' = [replicas EXCEPT ![job[s].deployment] = job[s].replicas]
       \/ UNCHANGED replicas
    /\ job' \in {[job EXCEPT ![s] = [at |-> "incident", request |-> job[s].request]],
                [job EXCEPT ![s] = Idle]}
    /\ UNCHANGED <<vault, draft, advice, started, records>>

RecordIncident(s) ==
    /\ job[s].at = "incident"
    /\ \/ /\ incidents' = incidents \cup {job[s].request}
          /\ job' = [job EXCEPT ![s] = [at |-> "answer", request |-> job[s].request]]
       \/ /\ job' = [job EXCEPT ![s] = Idle]
          /\ UNCHANGED incidents
    /\ UNCHANGED <<vault, draft, replicas, advice, started, migrations, answered>>

Reduce(s, q) == ReduceNamed(s, q) \/ ReduceLargest(s, q) \/ Simulate(s, q)

-----------------------------------------------------------------------------
(* /api/v1/optimization/migrate. *)

\* The incident comes first; a failing write is an error.
BeginMigration(s, q) ==
    /\ \/ /\ Begin(s, q, [at |-> "audit", request |-> q])
          /\ incidents' = incidents \cup {q}
       \/ Begin(s, q, Idle) /\ UNCHANGED incidents
    /\ migrations' = migrations \cup {q}
    /\ UNCHANGED <<vault, draft, replicas, advice, answered>>

\* Then the audit record; costs that are no numbers end the request before it.
ReadForAudit(s) ==
    /\ job[s].at = "audit" /\ draft[s] = NoDraft
    /\ \/ \E o \in Orgs : ReadHead(s, o, job[s].request) /\ UNCHANGED job
       \/ job' = [job EXCEPT ![s] = Idle] /\ UNCHANGED <<vault, draft>>
    /\ UNCHANGED <<replicas, advice, started, records>>

AuditIfPossible(s) ==
    /\ job[s].at = "audit"
    /\ Insert(s) \/ Abandon(s)
    /\ job' = [job EXCEPT ![s] = [at |-> "answer", request |-> job[s].request]]
    /\ UNCHANGED <<replicas, advice, started, records>>
AuditTwice(s) ==
    /\ job[s].at = "audit"
    /\ \/ Insert(s) /\ job' = [job EXCEPT ![s] = [at |-> "answer", request |-> job[s].request]]
       \/ /\ draft[s] # NoDraft
          /\ vault' = Append(vault, [org |-> draft[s].org, prev |-> draft[s].prev,
                                     hash |-> draft[s], by |-> s])
          /\ UNCHANGED <<draft, job>>
    /\ UNCHANGED <<replicas, advice, started, records>>
Audit(s) ==
    /\ job[s].at = "audit"
    /\ \/ Insert(s) /\ job' = [job EXCEPT ![s] = [at |-> "answer", request |-> job[s].request]]
       \/ Abandon(s) /\ job' = [job EXCEPT ![s] = Idle]
    /\ UNCHANGED <<replicas, advice, started, records>>

-----------------------------------------------------------------------------
Answer(s) ==
    /\ job[s].at = "answer"
    /\ answered' = answered \cup {job[s].request}
    /\ job' = [job EXCEPT ![s] = Idle]
    /\ UNCHANGED <<vault, draft, replicas, advice, started, migrations, incidents>>

\* The process dies and another takes its place.
Restart(s) ==
    /\ job' = [job EXCEPT ![s] = Idle]
    /\ draft' = [draft EXCEPT ![s] = NoDraft]
    /\ UNCHANGED <<vault, replicas, advice, started, records>>

Request(s) == \E q \in Requests : Reduce(s, q) \/ BeginMigration(s, q)
Step(s) == Patch(s) \/ RecordIncident(s) \/ ReadForAudit(s) \/ Audit(s) \/ Answer(s)
ActionsNext ==
    \/ Analyze \/ \E d \in Deployments : Rescale(d)
    \/ \E s \in Writers : Request(s) \/ Step(s) \/ Restart(s)
ActionsSpec == ActionsInit /\ [][ActionsNext]_actionVars

-----------------------------------------------------------------------------
(***************************************************************************)
(* What a process handles is a request that was begun, and a record is     *)
(* drafted for the migration at hand (app.py:1779-1813, 1922-2006).        *)
(***************************************************************************)
Jobs ==
    {Idle}
    \cup [at : {"patch"}, request : started, deployment : Deployments, read : Nat,
          replicas : Nat \ {0}, from : {"named", "page", "client"}]
    \cup [at : {"incident", "audit", "answer"}, request : started]
ActionsTypeOK ==
    /\ replicas \in [Deployments -> Nat] /\ advice \subseteq Nat \ {0}
    /\ started \subseteq Requests
    /\ migrations \subseteq started /\ incidents \subseteq started /\ answered \subseteq started
    /\ job \in [Writers -> Jobs]
    /\ \A s \in Writers : draft[s] # NoDraft => job[s].at = "audit" /\ draft[s].payload = job[s].request

(***************************************************************************)
(* Whoever is told of a success finds its incident, and, of a migration,   *)
(* its one record in the vault; and the vault names no migration that has  *)
(* no incident, whichever write failed (app.py:1951-1986,                  *)
(* remediation.py:297-327).                                                *)
(***************************************************************************)
Recorded(q) == {n \in DOMAIN vault : vault[n].hash.payload = q}
AuditTrail ==
    /\ answered \subseteq incidents
    /\ \A q \in answered \cap migrations : Recorded(q) # {}
    /\ \A m, n \in DOMAIN vault : m \in Recorded(vault[n].hash.payload) => m = n
    /\ \A n \in DOMAIN vault : vault[n].hash.payload \in incidents \cap migrations

(***************************************************************************)
(* A reduction of a named deployment asks for fewer replicas than it read, *)
(* if it read more than one, and for one at least, whatever target the     *)
(* request or a repetition of it names (remediation.py:147-162).           *)
(***************************************************************************)
NamedReductions ==
    \A s \in Writers : job[s].at = "patch" /\ job[s].from = "named" =>
        job[s].replicas < job[s].read \/ (job[s].replicas = 1 /\ job[s].read = 1)

(***************************************************************************)
(* What the page advises is, of the numbers below the present one, nearest *)
(* to what would run at the threshold, on either side of which Python's    *)
(* rounding may fall (optimizer.py:430-436, 833-840).                      *)
(***************************************************************************)
AdviceIsNearest ==
    [][\A n \in advice' \ advice :
         \E pods \in Pods, cpu, memory \in Utilizations :
             Underutilized(cpu, memory) /\ Nearest(n, pods, Larger(cpu, memory))]_advice

(***************************************************************************)
(* "Reducing pod replicas" (templates/optimization.html:638), as the page  *)
(* advises it, leaves a deployment with no more replicas than were read.   *)
(***************************************************************************)
ReductionsReduce ==
    \A s \in Writers : job[s].at = "patch" /\ job[s].from = "page" => job[s].replicas <= job[s].read

(***************************************************************************)
(* The vault of the endpoints is a ComplianceLedger: what holds of every   *)
(* ledger holds of it (app.py:640, compliance_ledger.py:96).               *)
(***************************************************************************)
ImplementsLedger == Spec
=============================================================================
