# A TLA+ model of OmniKube

OmniKube (`src/`) watches Kubernetes clusters: it scrapes metrics, announces
threshold breaches on Slack and Discord, recommends and applies cost
optimizations, and keeps an audit ledger. The server is one Python process: a
single-threaded HTTP gateway (`HTTPServer`, `app.py:2479`), background threads,
state in memory under locks, and a SQLite database that outlives the process.
This directory models the parts whose correctness depends on how those threads,
failures and restarts interleave, checks the models with TLC on small instances,
and proves what matters most with TLAPS for every instance.

All paths below are under `src/server/core/` unless they say otherwise.

## 1. Inventory

| Component | State | Operations | Interacts with | What is hard | What makes it correct |
|---|---|---|---|---|---|
| Alert buffer, grouping, cooldown (`alert_manager.py`) | buffer and window start under a lock; cooldown cache under another | capture, immediate announcement, flush, grouping, cooldown decision | scrape loop and `/api/metrics` capture; one thread per breach, one per flush | the clock is read before the cooldown lock; one cooling key silences a bundle; workers die on exceptions | announcements of a key keep the cooldown apart; no breach vanishes, is flushed twice, or is silenced by another workload's announcement |
| Webhook delivery (`alert_manager.py`, `notifier.py`) | process-wide spacing lock and last slot; per thread: channels, attempt, backoff | channel resolution, spacing, POST, retry | every dispatch thread; notifier threads bypass the spacing | sleeping with a lock held; failing channels in front of others; retries | slots are spaced, every channel is tried, every dispatch ends |
| Budget guardrail and override (`optimizer.py`, `app.py`) | override tokens and recommendations in memory under one lock | predictive sweep, token issue and purge, override request | analytics thread beside the gateway; remediation; ledger | two lock sections per evaluation; purge as of a future time; failure between action and audit; restart | a token forces one action, in time, by its organization, the blocked one unless another is named; a live token is honoured |
| Compliance ledger (`compliance_ledger.py`) | table `compliance_ledger_vault` | read head, insert, list | override, migration and optimization handlers; a second process while a deployment rolls | head and insert on different connections; a failing read; a limit on the listing | records chain to the one before; a listing can be verified |
| Metric store, retention, incident scan (`metrics_collector.py`, `analytics_engine.py`) | table `cluster_metrics`; watermark in memory; table `incident_events` | insert, ingest, downsample, scan, bootstrap | scrape thread, gateway, scheduler thread, analytics thread | the job's SELECT and DELETE read the clock separately; a row's incidents fail one by one; ids and averages under the watermark | no sample lost or counted twice; no incident twice; every row indexed |
| Sessions and accounts (`auth.py`) | sessions in memory and on disk | sign in, look up, log out | gateway | memory and disk disagree after a failed write | a logged-out or expired session is not served |
| OAuth sign-in (`oauth2.py`) | pending states and codes in memory | begin, authorize, callback | sessions | purge as of a future time drops concurrent sign-ins | one session per state; a state in time is honoured |
| Cost recommendations (`cost_optimizer.py`) | tables of clusters, their samples, Active and Resolved recommendations | sample, analyse, report | collection loop, savings loop, gateway | early returns keep an old recommendation Active; samples arrive during an analysis; a cycle ends half way | at most one Active per cluster, and in the end the one its latest samples match |
| Remediation, ChatOps, migration (`remediation.py`, `chatops_interactions.py`, `cloud_migration.py`) | the Kubernetes cluster; incidents | scale, annotate, button clicks | gateway, ledger | repeated clicks; targets that are stale or meant for the whole cluster; a patch, an incident and a record that fail one by one | a reduction reduces; a success is on record |
| Rightsizing, pricing (`optimizer.py`, `cloud_pricing_matrix.py`) | none | tables and comparisons | analytics engine, gateway | boundaries | agreement with a reference definition |
| Billing (`billing.py`, `auth.py`) | users and their subscriptions; customers and sessions at Stripe | register, checkout, events of completed checkouts | Stripe, gateway | repeated, late and reordered events; a checkout that fails after its customer was created; ids that begin anew with a container, beside the old one | a subscription is that of one checkout; a person is one customer; a completed checkout activates an account |
| System configuration (`system_config.py`, `app.py`) | one table, a row per organization and key; one store in memory with a file | read, update over three endpoints, seed, load | everyone | a partial update takes the rest from the shared store; alerts read the default organization's rows and then the store; reads that fail yield defaults | an organization keeps its own settings and its own channel |
| Discovery and scrape loop (`discovery.py`, `metrics_collector.py`) | list of targets; the copy a cycle works through | discover, scrape | Kubernetes API, pods | an API error empties the list; addresses change hands; one answer ends a cycle | no target is older than the last listing; a pod that stays is sampled again and again |
| HTTP gateway (`app.py`) | configuration store | routing, handlers | all of the above | handlers run one at a time beside the threads | see the components |
| Root cause analysis, branding, seed, schema; agent, aggregator; manifests; pages | none, or display rows | | | | not modelled, see section 7 |

The hazards are listed line by line in `PROJECT.json`, each with the properties
that would catch it.

## 2. Plan

The modules were written in the order of what hurts most when it is wrong: the
alert path, the guardrail and its audit, the metric history; then sign-in, and
the cost and remediation path; then settings, billing, the cost recommendations
and the scrape loop.

| Module | Abstract specification, composition | Runs | Theorems | State |
|---|---|---|---|---|
| `AlertThrottle`, `AlertGrouping`, `UnionFind`, `AlertPipeline` | `AlertPipeline` implements `AlertThrottle`; uses `AlertGrouping`'s bundles, which `UnionFind` computes | `union_find`, `alert_cooldown`, `alert_flushes` | types, cooldown, refinement, every breach accounted for, none silenced by another's; the forest is the components, the groups are the bundles, the grouping ends | done |
| `WebhookDelivery` | what `AlertPipeline`'s `Send` stands for | `delivery` | types, spacing, every channel tried | done |
| `OverrideGuardrail` | uses the ledger as the set of overrides it names | `override` | types, one action per token, terms, live tokens, answers audited | done |
| `ComplianceLedger` | | in `actions` | types, no dangling, listings, forks | done |
| `MetricHistory` | | `metrics` | types, counted once, incidents once, what can be lost | done |
| `SignIn` | sessions and OAuth sign-ins meet in the callback | `sign_in` | types and each of its five invariants | done |
| `Rightsizing`, `OptimizationActions` | `OptimizationActions` implements `ComplianceLedger` and composes it with the cluster, the advice and the incident table | `actions` | types, refinement, audit trail, reductions, the advice is nearest | done |
| `Settings` | | `settings` | types and each of its three properties | done |
| `CostAdvice` | | `cost_advice` | types, one Active recommendation | done |
| `Billing` | | `billing` | types, one checkout, one customer | done |
| `ScrapeLoop` | | `scrape` | types, targets are as listed | done |

Every safety property that a run checks is a theorem (`EveryBreachAnnounced` under
hypotheses, see section 5). Next: the composition of `AlertPipeline` with `WebhookDelivery` in place of `Send` on two
threads, an abstract specification of a recommendation's life for `CostAdvice` to
implement, and the unoptimized-cost alert of the analytics engine with a cooldown of
its own. The scrape loop and the cost recommendations share a process and no state,
so their composition was given up: its product of states shows nothing that the two
modules do not show apart.

## 3. Modules

**`AlertThrottle`** is what the cooldown promises: a grant of a set of keys at an
instant, allowed when every earlier grant of each key is at least a cooldown old.

**`AlertGrouping`** gives the events of a flush their fields, the bundles of
`AlertBuffer._group_events` by their result (the connected components of "same
cluster or same node", in order of their first breach), and the cooldown keys of a
bundle. `Increasing` lists positions in their order, as the loop that collects the
bundles meets them. A name is a
number with 0 for the empty name; numbers give `sorted()` its order. A workload
stands for the pair of workload name and metric.

**`UnionFind`** is `_group_events` as written: a step for each pair of the double
loop, each turn of `find`'s loop (which halves the path), each union and each
collected event. `stage` says for whom `find` runs, which stands for the call stack.
The result is `AlertGrouping`'s, so `AlertPipeline` can take a flush in one step.
A root is defined by the sets that are closed under `parent`, without recursion, so
that the provers can reason about it.

**`AlertPipeline`** is a breach from capture to announcement. `Capture` is the
locked part of `AlertBuffer.capture`; `FireImmediate` starts the breach's own
thread; `FlushIfWindowElapsed` swaps the buffer, groups it and starts a flush
worker; `ReadClock`, then `Suppress` or `Pass`, are
`_should_suppress_throttled_alert` outside and inside its lock, which is where
the interleavings are; `Send` ends with the first bundle of the worker; `Die` is
an exception that no handler catches (a webhook URL without a scheme, a truncated
HTTP answer, settings that cannot be read): it ends a flush worker with all its
remaining bundles, while an immediate thread catches everything. Workers are the
breaches themselves, for their immediate threads, and `Flushers`.

**`WebhookDelivery`** is what happens in `Send`: channel resolution from the
settings, `_wait_for_http_post_spacing` in two steps around its sleep, the POST,
and its outcomes. Time is relative: the age of the last slot and the rest of each
sleep, so the state space is finite without a clock. `Notifiers` are the
immediate threads, which post once per channel and take no slot.

**`OverrideGuardrail`** is the analytics thread's sweep and the gateway's override
handler over one token store. `Evaluate`, `IssueOverrideToken` and
`StoreRecommendation` are the three parts of `evaluate_predictive_scale_up`
between which the gateway may act; a sweep that an exception cuts short is a sweep
of fewer organizations. `ConsumeOverrideToken`, `ApplyRemediation` and
`RecordAudit` are the handler's. A request comes from an administrator of some
organization or the global one and names an action of its own or none: the token is
spent before its scope is checked (`InScope`), and what is forced is the named action,
else the one in the token's own copy of the recommendation (`OverrideOf`). An action
is told apart by its cost; a request that names only another target or cluster names
another action. An unsupported action is the first disjunct of `ApplyRemediation`.
The forecast is an arbitrary cost. What remains of
a budget is a constant: nothing in the code writes the spending keys.
`LiveTokensReplaced` is an action property: it says which steps may end a token that
could still be used.

**`ComplianceLedger`** reads the head and inserts in two steps, either of which may
fail, for any number of writers. More than one is real: `infra/server-deployment.yaml`
rolls a deployment over one shared volume, so the old and the new process overlap.
A hash is the block itself (SHA-256 is taken as injective).

**`Rightsizing`** is the arithmetic behind the replica advice: Python's rounding, the
clamps of `_round_replica_target`, and `Nearest`, what the advice is for. Utilizations
are whole percents (the code rounds them to two decimals), pods a whole number.

**`OptimizationActions`** is `/api/v1/optimization/apply`, the ChatOps buttons and
`/api/v1/optimization/migrate`, over the deployments, the incident table and the vault.
It extends `ComplianceLedger`: `ReadForAudit` and `Audit` are steps of the ledger
inside a migration (`ReadHead`, `Insert`, `Abandon`), so that the ledger's theorems
carry over. A handler is a sequence of steps between which the other process, the
cluster's controllers (`Rescale`, external) and another `Analyze` may act: read the
deployments (`ReduceNamed`, `ReduceLargest`), `Patch`, `RecordIncident`, `Answer`; or
`BeginMigration`, `ReadForAudit`, `Audit`, `Answer`. An `ApiException` turns an action
into a simulated one (`Simulate`, or `Patch` without effect), any other exception ends
the request (`job` back to `Idle`), and `Restart` may do so at any point. Requests differ
only in what they name: a button a deployment and no target (`Unstated`), the page the
advice and no deployment, any other client what it likes (`Asker`). Each click is a request
of its own, so a reduction repeated reduces again. Node remediations write an annotation
that nothing reads, and count as `Simulate`.

**`MetricHistory`** is the table `cluster_metrics` with its two jobs. `SelectAged`,
`BeginAverages` and `DeleteAged` are the downsampling as SQLite runs it: the SELECT
is fetched whole and keeps no lock, the first INSERT takes the write lock, the
DELETE reads the clock again. An average calls for the incidents that all its
samples call for, and may call for those that some do. `StartScan`, `IndexRow`,
`FailRow` and `FinishScan` are a scan; a crash in the middle of a row is a failure
followed by `Restart`. `LostUnselected` bounds what the two readings of the clock can
lose: a sample that is deleted and in no average is one the SELECT had not found.

**`SignIn`** is both ways into a session. `_sessions`, `_pending_states` and
`_authorization_codes` are each process's own memory, `auth_sessions` is shared. A
process runs its handlers one at a time, so a handler is one step; `CreateSession`
and `DestroySession` may fail to write, which the code logs and goes on from.
`CacheRow` and `DropRow` are what `get_session_user` changes. Of the OAuth flow,
`BeginSignIn` is `/auth/login` (with the purge as of the new state's expiry),
`Authorize` the form of the simulated provider, `Callback` the way back, repeated
at will. The history variables say when each session was opened and for which
state, which sign-in a process began last, and who may still serve a token after
its logout.

**`Settings`** is the two copies of an organization's alert settings: the rows of
`system_configs` (`threshold`, `url`, `enabled`) and the `ConfigStore` of the process
(`store`) with its file. A value is who chose it and in which request. Each of the
endpoints writes both copies in its own order: `PostThresholds` the rows, completed
from the rows, then the store; `PostIntegrations` the rows, then the store (both
integration endpoints are this action); `PostSettings` the store, then the rows,
completed from the store. Below the disjunct in which nothing fails, each has one per
fault: a read that yields the defaults, a file that is not written, rows that are not,
the death of the process before or while the file is written. `Seed` is
`init_system_configs` in the callback of a sign-in, `Restart` loads the file.
`Channel` is what `resolve_notification_channels` answers for Slack. The two chat
channels are alike, and one is modelled. The history variables say what an
organization asked for by name, who sent a threshold over either endpoint, and who
blanked a URL.

**`CostAdvice`** is the collection loop (`Collect`: the cluster of this process's name,
registered if need be, gets a sample), and the savings loop over every registered
cluster: `Begin` reads the ids, `Analyze` averages the latest samples and matches the
two rules, `Save` resolves what is Active and adds the new row in one transaction. The
samples of an analysis are read outside any transaction, so `Collect` may come between
`Analyze` and `Save`. The Active rows are a bag of clusters and types: a bag counts a row
that is there twice, and the order of the rows is nobody's. `Abort` is an exception, after which the loop begins anew.
`AdviceRestart` may change the name; the database is as it was, or empty where it is not on the
container's volume (`server/production-stack.yaml:114-116` keeps it there).

**`Billing`** is `register_user`, `/api/v1/billing/checkout`, the checkout page of Stripe
and the webhook. `Checkout` finds or creates the customer, opens the session and commits;
`CheckoutFails` has created the customer and failed after that. `Complete` is the
customer's: whether a completed checkout is paid the webhook does not ask
(`billing.py:240-261` reads no `payment_status`), so the properties speak of checkouts
and not of payments. `Activate` is a delivery that succeeds, the first or another one, of
any completed checkout, at any container that serves; `Reject` one that is answered with
400 or 500. An event without a customer or a subscription would leave the account's
(`billing.py:203-206`); an event of a session that this code opened has both, since it is
opened for a customer and in mode "subscription".
`Rollout` starts a container with a database of its own, whose ids begin anew, and
`Retire` ends one with its accounts: `infra/server-deployment.yaml:64` mounts no volume
where `omnikube.db` is, nor does the Helm chart, and both roll, so that the old container
and the new one serve side by side. `server/production-stack.yaml:33` recreates instead
and keeps the accounts on its volume (110-116): of the model's behaviours it has those
without a `Rollout`. Stripe's customers, sessions and deliveries outlive every container.

**`ScrapeLoop`** is the discovery thread (`Discover`, in whatever order the API lists the
pods, and `DiscoverNothing`) and the scrape
thread, which works through a copy of the list (`BeginCycle`, then `Store`, `Unreachable`
or `CycleError` of its first target), while Kubernetes starts, finishes and deletes pods
(`Start`, `Finish`, `Delete`, external). A pod that has finished keeps its address in the API's
answer, and nothing filters by phase (`discovery.py:202-250`), so it stays listed, perhaps with an
address that another pod runs at by now. Whoever runs at the address answers, perhaps with what
cannot be decoded (`Garbled`).

Each module also holds, next to the definition it varies, the mutated forms used
to show that its properties can fail (`PROJECT.json`, "mutants").

## 4. What the runs show

| Run | Instance | Shows |
|---|---|---|
| `union_find` | up to 4 of 6 breaches in every order: a chain of clusters joined through nodes, two without names, one apart | the forest is right after every pair; the groups are the components, in capture order |
| `alert_cooldown` | 3 breaches, two of one workload, one flush worker, cooldown 2, clock to 3 | `CooldownSpacing`, `EveryBreachAnnounced` |
| `alert_flushes` | 2 breaches in 2 bundles, two flush workers, clock to 3 | `EventsAccounted`, `ImplementsThrottle`, `EveryBreachEnds` |
| `delivery` | 2 dispatchers, 1 notifier, 3 settings, 2 attempts, spacing 2 | `EveryChannelTried`, `SlotsSpaced`, `EveryDispatchEnds` |
| `override` | 2 organizations, 2 tokens, a cost on each side of the budget, requests that name the cheaper action or none, lifetime 1, clock to 2 | `OneActionPerToken`, `ForcedOnTerms`, `AnsweredIsAudited`, `LiveTokensReplaced` |
| `actions` | 2 processes, 3 requests, 2 organizations, 3 rows, 2 deployments of up to 2 replicas, 4 pods in the cluster, utilizations 14, 25 and 90 | the ledger's `ChainsBackward`, `ListingsVerify`, `ForksNeedTwo`; `AuditTrail`, `NamedReductions`, `AdviceIsNearest`, `ImplementsLedger` |
| `metrics` | 2 samples and their averages, 2 kinds of incident, an hour of 2 ticks, 1 restart | `SamplesCountedOnce`, `IncidentsOnce`, `LostUnselected`, `EveryRowIndexed` |
| `sign_in` | 2 processes, 2 tokens, 2 states, 2 codes, each lifetime 1, clock to 2 | `ServedInTime`, `SessionSurvives`, `LogoutLasts`, `OneSessionPerState`, `NewestSignInHonoured` |
| `settings` | 2 organizations, one of them the default, 2 thresholds, 4 requests, 1 fault | `SoleOrganizationKept`, `ChannelOwned`, `ForeignFromStore` |
| `cost_advice` | 2 cluster names, 4 samples of 3 kinds, averages over 2, 1 restart | `OneActive`, `AdviceCatchesUp` |
| `billing` | 2 people, 1 plan, 3 sessions, 2 customers, 2 containers | `SubscribedByCheckout`, `OneCustomer`, `CheckoutActivates` |
| `scrape` | 2 labelled pods and a third one, whose answers are garbled, 2 addresses, 1 restart | `TargetsAsListed`, `EveryTargetScraped` |

**Bounds.** The clock stops at `MaxTime`, which in each instance lies beyond a whole
window, cooldown, token lifetime or hour, so each guard on time is met from both
sides. Three breaches give a bundle with a key in common and one apart; two flush
workers overlap; a third adds no new pair. The guard of a flush needs an idle
worker where the code starts a new thread: with as many workers as breaches
(`alert_flushes`) it never blocks. Two tokens are one to be purged and one to purge
it. In the ledger a fork needs two drafts over one head, a listing cut at a limit
needs three rows: three migrations. Four pods at 14, 25 and 90 percent give advice to
go down to two, to three by rounding, and to three although one side is busy, each of
which meets a deployment below, at and above it. In `MetricHistory` two samples of one hour form an average, and
their average's row comes back to the scan. In `sign_in` the constraint `Within` admits
two sign-ins with two codes in one process (one state purges the other, one state has
two codes) or one of each in two processes (a session cached by one, logged out at
the other); the properties are also proved, without it. Four requests to `Settings` are
one that leaves another's value in the store, one that names a URL, one that blanks it and one
that is completed from the store; one fault falls into any of them. Four samples of
`CostAdvice` fill a window of two twice for one cluster, or once for each of two; the three
kinds match each rule, and none, alone and averaged. Three sessions of `Billing` are two of one
person and one of another, over two containers in which the ids of the two may be swapped;
with one plan sessions differ by their number, person and customer (the theorems are of any
plans).
Three pods for two addresses is the least with which an address changes hands while another
target waits, or a finished one is still listed; the third's answers end the cycles of whichever
listed pod it took the address of.

**Deadlock** is checked in `actions`, `delivery`, `override`, `metrics` and `sign_in`. It is not
in the alert runs, which stop when the bounded clock ends, nor in `settings`, `cost_advice`,
`billing` and `scrape`, whose requests, samples, sessions and restarts are bounded, nor in
`union_find`, an algorithm that ends.

**Fairness.** Safety runs need none. In `alert_flushes` time passes, the flush loop
runs again every five seconds (`FLUSH_CHECK_INTERVAL_SEC`) whatever happened in its
last turn, and a started thread goes on: weak fairness of `Tick`, of `Flush` and of
each worker. No outcome of a thread is made fair, so a worker may die. In `delivery`
time passes and each thread goes on: a POST ends by its timeout if not before, and
the spacing lock, held across a sleep of bounded length, becomes free; weak fairness
is enough since a dispatcher that waits is never overtaken for ever (each takes a
bounded number of slots). In `metrics` the analytics thread scans again whatever
its last turn raised: weak fairness of `Scan`, none of a write's success. In `cost_advice`
the savings loop begins again after every cycle, weakly, and an analysis that keeps being
attempted is not cut short by an error every time: strong fairness of `Analyze` and `Save`
of each cluster, for an error (a database locked for too long) is transient. In `billing`
Stripe delivers until it is answered and not every delivery is rejected: strong fairness of a
checkout's first success, which is enabled only while a container that serves has an account of
its id: if the container it was opened in is gone, nothing is promised. In `scrape` both threads
begin again after each turn, and neither the API nor the database nor a pod that keeps running
fails at every attempt: strong fairness of `Discover`, `BeginCycle` and each pod's `Store`, weak
fairness of `Ask`.

**A restart** loses the alert path's memory whole, which is its initial state; it is
an action where something survives it (`OverrideGuardrail`, `MetricHistory`, `SignIn`,
`OptimizationActions`, `Settings`, `CostAdvice`, `ScrapeLoop`, and as `Rollout` and `Retire` in `Billing`; in
`ComplianceLedger` it is `Abandon`).

## 5. What is proved

The proof modules hold, for any values of the constants that satisfy the named
assumptions (natural numbers where the code has them, disjoint sets of threads):

* `AlertPipelineProofs`: `PipelineTypes`; `PipelineCooldown`, from the invariant
  that every stamp of the cache is the latest grant of its key and every grant is
  in the cache, so that a decision against the cache is one against all grants,
  even when its clock reading is older than the stamp (a negative difference is
  below the cooldown and suppresses); `PipelineImplementsThrottle`, a pass is a
  grant, every other step a stutter. `PipelineEventsAccounted` rests on
  `BundlesPartition`: the bundles of a flush hold each of its breaches once, since
  the components are the classes of an equivalence and `Increasing` lists a finite
  set of numbers without repetition (the lemma is for any breaches and names). Its
  invariant says of each breach that it is in the buffer once, or in one bundle of one
  worker's queue once, or nowhere; it must say of idle workers that their queues are
  empty and of breaches that a place implies capture. `PipelineBreachAnnounced` says
  that a breach is silenced only by an announcement of its own workload, under two
  hypotheses. `Cooldown > 0`: with none, the cache decides nothing. `NamesApart`:
  related breaches have the tenant and the cluster in common. Without it the code
  files a bundle under its first tenant and its least cluster name
  (`alert_manager.py:676-692`), and a stamp of the cache need not name who is
  silenced. The invariant says that each stamp is the
  time of an announcement that named its key, that queued bundles are keyed by the
  breaches in them, and that an immediate thread that got to its post was announced.
  Of the grouping, for any number of events: `GroupingTypes`; `GroupingForest`, from the
  invariant that in the middle of a union both finds stand at positions with the roots
  of the pair, while halving moves no position to another root (`HalvingKeepsRoots`) and
  a union gives all below one root the other (`UnionMergesRoots`): pairs done with have
  one root, and what has one root cannot be told apart by them. `GroupingGroups`: what
  is collected up to a position is each bundle up to it; an increasing numbering of a
  set is the one by rank, so a later position is appended. `GroupingTerminates`, an action
  property: each step takes a loop further or leaves `find` less of its path, for a
  position that is no root is not met again above itself (`NotAboveItself`).
  `GroupingGoesOn` says so of every step, hence no turn is without effect. No run checks
  `GroupingEnds`; `tlc -config MCGroupingEnds.cfg MCUnionFind` does.
* `WebhookDeliveryProofs`: `DeliveryTypes`; `DeliverySlotsSpaced`, from the invariant
  that a thread asleep in the spacing holds the lock and its timer and the age of
  the last slot add up to the spacing, so nobody else can take a slot meanwhile;
  `DeliveryEveryChannelTried`, from the invariant that what is left of a thread's channels
  are distinct, that a thread at work has some, and that the one it posts to
  counts as tried: a channel repeated would be both answered and still to be tried.
* `OverrideGuardrailProofs`: `OverrideTypes`; `OverrideOncePerToken`, since a token
  that forced something, or is about to, is never again in the store unconsumed:
  issuing draws a fresh string, and a purge or restart only forgets;
  `OverrideOnTerms`, since tokens are issued for blocked costs only, their entries keep
  the organization, the cost and the expiry they were issued with (`EntriesKept`), and a
  request gets past the check of its scope with a copy of that entry (`InHand`);
  `OverrideLiveReplaced`, an action property: only
  issuing, consuming and a restart take a token out that is not yet expired;
  `OverrideAnsweredAudited`, since a request that waits for its record is on the list of
  what was forced, and is answered only by the step that writes the record.
* `MetricHistoryProofs`: `HistoryTypes`; `HistoryCountedOnce`, from the invariant that the
  averages of two groups share no sample, and that the rows a job has averaged are
  still aged when it deletes (the clock only goes on, and ids are not given out
  twice), so that its DELETE takes each of them; `HistoryLostUnselected`, an action property, from
  the same; `HistoryIncidentsOnce`, since what is recorded lies behind the scan's
  position, or is of a row that is gone and not in the scan's list. For the scrape
  loop, which the module extends as well (the two share no state), `LoopTypes` and
  `LoopTargetsAsListed`: nothing writes the list but an answer of the API, or empties it.
* `SettingsProofs`: `SettingsTypes`; `SettingsSoleOrganizationKept`, from the invariant that
  what the one organization asked for is in its rows, the store and the file alike,
  so that it does not matter from which of them the next request is completed;
  `SettingsChannelOwned`, since a URL in the rows is its organization's and Slack is on
  without one only where it was blanked; `SettingsForeignFromStore`, an action property:
  `PostThresholds` completes a pair from the organization's own rows or the defaults, and
  `PostSettings`, which completes it from the store, writes rows only when a threshold was named.
* `BillingProofs`: `BillingTypes`; `BillingSubscribedByCheckout` and `BillingOneCustomer`, from
  the invariant that a session of a container that serves is of an account of its person
  with that customer, unless another container's session reached that account, and that
  a person has one account in a container. For the cost recommendations,
  `AdviceTypes` and `AdviceOneActive`: a row is added in the transaction that resolves
  all of its cluster's. The module extends both components, which share no state.
* `OptimizationActionsProofs`, of the ledger: `LedgerTypes`; `LedgerChainsBackward`, since the
  head a draft holds is the hash of a row that stays; `LedgerListingsVerify`, since a
  listing is a prefix and predecessors come earlier; `LedgerForksNeedTwo`, since a
  writer inserts nothing after the row its draft follows until the draft itself.
  Of the endpoints: `ActionsTypes`; `ActionsImplementLedger`, each step of
  a handler is a step of the ledger or a stutter, a restart abandons the draft in hand
  if there is one; `ActionsLedgerSafe`, the ledger's theorems carried over;
  `ActionsAuditTrail`, from the invariant that the requests at hand are different ones,
  that a migration on its way to its record has its incident and no record yet, and
  that one on its way to the answer has both; `ActionsNamedReductions`;
  `AdviceNearest` and `ActionsAdviceNearest`, from `RoundedClose` (rounding is off by
  half at most) and the clamps, case by case.
* `SignInProofs`: `SignInTypes`; `SignInServedInTime`, from the invariant that every
  copy of a session, in any process or on disk, holds the expiry it was opened with;
  `SignInSessionSurvives`, since a row that was written goes only when it has expired
  or is logged out; `SignInLogoutLasts`, since a copy comes from a row or from the
  process that opened the session; `SignInOneSessionPerState`, since a state is
  pending in one process only and not after a session was opened for it;
  `SignInNewestHonoured`, since a purge as of a new expiry precedes the insertion.

The invariants that are more than the property were checked by TLC on the runs'
instances before they were proved. The type invariants are theorems of every module,
so no run spends a property on them.

Only model-checked are the liveness properties `EveryBreachEnds`, `EveryDispatchEnds`,
`EveryRowIndexed`, `AdviceCatchesUp`, `CheckoutActivates` and `EveryTargetScraped`: liveness
under fairness is out of the prover's reach.

## 6. Where the code and its text disagree

Each of these has a configuration of its own, kept to reproduce it. They are no part of
the runs, since TLC refutes the property: `tlc -config MCReductions.cfg
MCOptimizationActions` prints the steps that lead to it.

* `MCReductions.cfg`, module `MCOptimizationActions`, property `ReductionsReduce`:
  "Reducing pod replicas" (`templates/optimization.html:638`) without a
  deployment takes the advice computed from the pods of the whole cluster
  (`optimizer.py:833`) as the target of the largest deployment, and does not compare it
  with what runs there (`remediation.py:199`), as the branch with a deployment does
  (`remediation.py:155`). A deployment of two replicas is patched to three.
* `MCOverrideTokens.cfg`, module `MCOverrideGuardrail`, property `BlockedCanBeOverridden`:
  issuing a token purges as of the new token's expiry and so deletes every other live
  token of every organization (`optimizer.py:222`), which the handler then calls "invalid,
  expired, or already used" (`app.py:1840`). `LiveTokensReplaced` says that nothing else
  takes a live token away.
* `MCOverrideForced.cfg`, module `MCOverrideGuardrail`, property `ForcedAsBlocked`:
  "Admin-only budget guardrail override for blocked predictive scale-up actions"
  (`app.py:1823`), but action, target and cluster are the request's where it names them
  (`app.py:1854-1858`): a token issued for one blocked action forces another, which need
  not have been blocked. Its audit record names the action forced, with the costs of the
  one that was blocked (`app.py:1876-1891`). `ForcedOnTerms` says what limits remain.
* `MCLedgerChained.cfg`, module `MCComplianceLedger`, property `ChainedToPrior`: an error
  while the head is read restarts the chain at the genesis block
  (`compliance_ledger.py:91`), while `compliance_ledger.py:62` has each record "chained to
  the prior vault block".
* `MCMetricLoss.cfg`, module `MCMetricHistory`, property `EverySampleKept`: rows that turn
  an hour old between the SELECT and the DELETE of the downsampling, or come in meanwhile
  with an old timestamp, are deleted without being averaged (`metrics_collector.py:183`,
  227). `LostUnselected` says that no others are.
* `MCSettingsLeak.cfg`, module `MCSettings`, property `OwnThresholds`: "Resolve corporate
  organization scope for strict data isolation" (`app.py:618`), but `/api/settings`
  completes an organization's thresholds from the one store of the process
  (`app.py:1559-1561`), where another organization's may be. `ForeignFromStore` says when.

Seen while modelling, and part of the models' behaviour, without a run of their own:
"deduplicated tenant/workload groups" are groups by cluster and node, announced under
the first breach's tenant (`alert_manager.py:558`, 662, 692); a reduction whose incident
cannot be written has patched the cluster, and the page says "Your instruction was not
applied." (`remediation.py:306`, `templates/optimization.html:705`); a migration
whose costs are no numbers is refused after its incident was recorded (`app.py:1956`);
a deployment scaled to zero is patched to one (`remediation.py:149`); low utilization
on one side is called underutilized while the advice follows the other side
(`optimizer.py:752-755`, 834);
a POST is not serialized with others, only its slot is spaced
(`alert_manager.py:229`); Slack and Discord are posted to in turn, not concurrently
(`alert_manager.py:383`); an override whose audit record cannot be written has been
executed all the same (`app.py:1870-1920`; `AnsweredIsAudited` says what is still
true); a flush worker dies on an exception the retry does not catch
(`alert_manager.py:246`); a row one of whose incidents cannot be written counts as
scanned (`analytics_engine.py:150`), as do the rows inserted since the last scan of
a process that died; a new sign-in purges every other sign-in under way in its
process, and those users are told "OAuth state is invalid or expired."
(`oauth2.py:99`, `app.py:1303`); a process that has cached a session goes on serving
it after another process logged it out (`auth.py:460`); a threshold that a request leaves
out is written as the default when the read before fails (`system_config.py:136`,
`app.py:1420`), and after a restart the store's default takes the place of a seeded row at
the first partial update over `/api/settings`; an organization that enabled Slack and then
blanks its URL is notified at the URL saved last by anyone (`alert_manager.py:346`); a
settings file cut short by a crash is read as the defaults (`app.py:180-187`); a cluster that was
renamed keeps the recommendation of its last samples, and averages between the rules
(10 % and 15 %) match neither, so an old recommendation stays Active
(`cost_optimizer.py:163-171`); a checkout whose event
reaches another container activates whoever has the account's id there (`billing.py:197`),
and one delivered again after a newer one puts its older tier back (`billing.py:201`); a pod whose answer is not UTF-8 ends
each scrape cycle before the pods listed after it (`metrics_collector.py:254`); a pod that has
finished is listed with its old address (`discovery.py:231-240`), and what another pod answers
there is stored in its name.

## 7. What is not modelled

* The unoptimized-cost alert of the analytics engine (`analytics_engine.py:232-293`), and the
  report computed on demand by `build_cost_optimization_report`, which writes nothing.
* Data that no property tells apart: the texts and layouts of messages, the forecast
  (an arbitrary cost), numbers of metrics (which incidents a row calls for).
* In `MetricHistory`: rows that a client ingests as already averaged or with a
  timestamp that is no date (they are never downsampled), rows written by the
  Kubernetes snapshot and the telemetry seed, and a second process that downsamples
  the same table while a deployment rolls.
* In `OptimizationActions`: the restriction of a reduction to a namespace without a
  deployment, the annotations of nodes, what a request may do to be refused before it
  changes anything, and pricing, arbitrage and the forecast.
* In `SignIn`: whose session it is, the users table (provisioning, password reset;
  registration is in `Billing`), and the exchange with an external identity provider.
* In `Settings`: the budget keys and the cost limit, which have no second copy; Discord,
  which is Slack's like; the environment's URLs, which come after the store's.
* In `Billing`: who may call the checkout for which account (any session may name any
  id), and events other than a completed checkout, which are acknowledged and ignored.
* In `CostAdvice`: amounts (a recommendation is its type), and rounding of the averages
  to two decimals. In `ScrapeLoop`: what a sample is, and the Kubernetes snapshot.
* Components without state of their own (agent, aggregator, root cause analysis),
  display rows (branding), demonstration rows (telemetry seed), table definitions
  (`database.py`), pages and manifests.
