-------------------------- MODULE OverrideGuardrail --------------------------
(***************************************************************************)
(* The budget guardrail: the analytics thread sweeps the organizations,    *)
(* blocks a scale-up whose cost exceeds the remaining budget and issues a  *)
(* one-time override token for it; an administrator who was shown the      *)
(* token presents it to the gateway, which consumes it, forces the action  *)
(* the request names or, when it names none, the blocked one, and appends  *)
(* an audit record.  An action is told apart by its cost.                  *)
(*                                                                         *)
(* The token store and the recommendations are in memory, under one lock   *)
(* that issuing and storing take separately; the vault is on disk.  The    *)
(* gateway serves one request at a time, the sweep runs beside it.         *)
(***************************************************************************)
EXTENDS Integers, Sequences

CONSTANTS Orgs,         \* organizations, by the order of their identifiers
          Tokens,       \* the strings secrets.token_urlsafe may return
          Costs,        \* projected costs of the actions
          Named,        \* those of the actions that requests name
          Remaining,    \* remaining_usd of every organization's guardrail
          Ttl,          \* OVERRIDE_TOKEN_TTL_SEC
          MaxTime       \* bound: the clock stops here

ASSUME GuardrailConstants ==
    /\ Orgs \subseteq Nat /\ Costs \subseteq Nat /\ Named \subseteq Costs
    /\ Remaining \in Nat /\ Ttl \in Nat /\ MaxTime \in Nat

VARIABLES now,          \* the clock
          tokens,       \* _override_tokens
          recs,         \* _predictive_recommendations: the token of the stored
                        \* recommendation, {} if it is Ready, or Absent
          sweep,        \* the organizations the sweep has still to evaluate
          evaluation,   \* where evaluate_predictive_scale_up is
          request,      \* where the override handler is
          shown,        \* tokens administrators have been shown
          forced,       \* history: the overrides executed, in order
          vault,        \* the audit records
          answered,     \* tokens whose override was answered 200
          issued        \* history: what each token was issued for

vars == <<now, tokens, recs, sweep, evaluation, request, shown, forced, vault, answered, issued>>
sweeper == <<recs, sweep, evaluation, issued>>
gateway == <<request, shown, forced, vault, answered>>

Absent == {"absent"}
Idle == [at |-> "idle"]
Unnamed == -1           \* a request that names no action of its own
Global == -1            \* the administrator of no one organization
Administrators == Orgs \cup {Global}

Init ==
    /\ now = 0
    /\ tokens = [t \in {} |-> Idle]
    /\ recs = [o \in Orgs |-> Absent]
    /\ sweep = {}
    /\ evaluation = Idle /\ request = Idle
    /\ shown = {}
    /\ forced = <<>>
    /\ vault = {} /\ answered = {}
    /\ issued = [t \in {} |-> Idle]

-----------------------------------------------------------------------------
\* scan_predictive_scale_up: the organizations with recent snapshots.
BeginSweep ==
    /\ sweep = {} /\ evaluation = Idle
    /\ sweep' \in SUBSET Orgs \ {{}}
    /\ UNCHANGED <<now, tokens, recs, evaluation, issued, gateway>>

\* The first of them in order.  Without a forecast nothing changes; a peak within
\* the threshold withdraws the recommendation; else the cost decides.
First(o) == o \in sweep /\ \A p \in sweep : o <= p

Evaluate(o) ==
    /\ First(o) /\ evaluation = Idle
    /\ sweep' = sweep \ {o}
    /\ \/ UNCHANGED <<recs, evaluation>>
       \/ recs' = [recs EXCEPT ![o] = Absent] /\ UNCHANGED evaluation
       \/ \E c \in Costs :
            /\ evaluation' = IF c > Remaining
                             THEN [at |-> "issue", org |-> o, cost |-> c, expires |-> now + Ttl]
                             ELSE [at |-> "store", org |-> o, token |-> {}]
            /\ UNCHANGED recs
    /\ UNCHANGED <<now, tokens, issued, gateway>>

\* _purge_expired_override_tokens
Unpurged(current) ==
    {t \in DOMAIN tokens : tokens[t].expires > current /\ ~tokens[t].consumed}

\* _issue_budget_override_token, under the lock: the store is purged as of the new
\* token's expiry.
IssueOverrideToken ==
    /\ evaluation.at = "issue"
    /\ \E t \in Tokens \ DOMAIN issued :
         LET kept == Unpurged(evaluation.expires)
             record == [org |-> evaluation.org, cost |-> evaluation.cost,
                        expires |-> evaluation.expires]
             entry == [org |-> record.org, cost |-> record.cost, expires |-> record.expires,
                       consumed |-> FALSE]
         IN  /\ tokens' = [u \in {t} \cup kept |-> IF u = t THEN entry ELSE tokens[u]]
             /\ issued' = [u \in {t} \cup DOMAIN issued |-> IF u = t THEN record ELSE issued[u]]
             /\ evaluation' = [at |-> "store", org |-> evaluation.org, token |-> {t}]
    /\ UNCHANGED <<now, recs, sweep, gateway>>

\* The recommendation is stored under the lock, taken anew.
StoreRecommendation ==
    /\ evaluation.at = "store"
    /\ recs' = [recs EXCEPT ![evaluation.org] = evaluation.token]
    /\ evaluation' = Idle
    /\ UNCHANGED <<now, tokens, sweep, issued, gateway>>

-----------------------------------------------------------------------------
\* get_predictive_recommendation, for the page of an administrator.
ShowRecommendation(o) ==
    /\ request = Idle /\ recs[o] # Absent
    /\ shown' = shown \cup recs[o]
    /\ UNCHANGED <<now, tokens, sweeper, request, forced, vault, answered>>

\* consume_override_token, under the lock: an expired token is dropped, a live one
\* marked and its entry copied; any other changes nothing.
ExpiredNever(t) == FALSE
ExpiredEarly(t) == now >= tokens[t].expires
Expired(t) == now > tokens[t].expires

UnconsumedStill(entry) == entry
Consumed(entry) == [entry EXCEPT !.consumed = TRUE]

\* The token is spent before it is known whose it is: an administrator of another
\* organization is answered 403, and nobody can use it any more.
InAnyScope(by, org) == TRUE
InScope(by, org) == by \in {Global, org}

\* What is forced is what the request names, else what the token was issued for.
OverrideOf(t, by, named) ==
    [token |-> t, since |-> now, by |-> by, org |-> tokens[t].org, named |-> named,
     action |-> IF named = Unnamed THEN tokens[t].cost ELSE named]

ConsumeOverrideToken(t, by, named) ==
    /\ request = Idle /\ t \in shown
    /\ IF t \in DOMAIN tokens /\ ~tokens[t].consumed
       THEN IF Expired(t)
            THEN /\ tokens' = [u \in DOMAIN tokens \ {t} |-> tokens[u]]
                 /\ UNCHANGED request
            ELSE /\ tokens' = [tokens EXCEPT ![t] = Consumed(@)]
                 /\ request' = IF InScope(by, tokens[t].org)
                               THEN [at |-> "apply", override |-> OverrideOf(t, by, named)]
                               ELSE Idle
       ELSE UNCHANGED <<tokens, request>>
    /\ UNCHANGED <<now, sweeper, shown, forced, vault, answered>>

\* apply_optimization_remediation: a request for an unsupported action is answered
\* 400, else the cluster changes; when the incident cannot be written, 500.
ApplyRemediation ==
    /\ request.at = "apply"
    /\ \/ request' = Idle /\ UNCHANGED forced
       \/ /\ forced' = Append(forced, request.override)
          /\ request' \in {Idle, [request EXCEPT !.at = "audit"]}
    /\ UNCHANGED <<now, tokens, sweeper, shown, vault, answered>>

\* _record_optimization_audit and the answer: 200, or 500 when the vault fails.  The
\* record is filed under the token's organization, whoever presented it.
Record(override) ==
    [org |-> override.org, token |-> override.token, action |-> override.action]

AuditBestEffort ==
    /\ request.at = "audit"
    /\ vault' \in {vault, vault \cup {Record(request.override)}}
    /\ answered' = answered \cup {request.override.token}
    /\ request' = Idle
    /\ UNCHANGED <<now, tokens, sweeper, shown, forced>>
RecordAudit ==
    /\ request.at = "audit"
    /\ \/ /\ vault' = vault \cup {Record(request.override)}
          /\ answered' = answered \cup {request.override.token}
       \/ UNCHANGED <<vault, answered>>
    /\ request' = Idle
    /\ UNCHANGED <<now, tokens, sweeper, shown, forced>>

-----------------------------------------------------------------------------
\* The process dies and starts again: what was in memory is gone.
Restart ==
    /\ tokens' = [t \in {} |-> Idle]
    /\ recs' = [o \in Orgs |-> Absent]
    /\ sweep' = {}
    /\ evaluation' = Idle /\ request' = Idle
    /\ UNCHANGED <<now, shown, forced, vault, answered, issued>>

Tick ==
    /\ now < MaxTime
    /\ now' = now + 1
    /\ UNCHANGED <<tokens, sweeper, gateway>>

Sweep ==
    BeginSweep \/ (\E o \in Orgs : Evaluate(o)) \/ IssueOverrideToken \/ StoreRecommendation
Override ==
    \/ \E t \in Tokens, by \in Administrators, named \in Named \cup {Unnamed} :
          ConsumeOverrideToken(t, by, named)
    \/ ApplyRemediation \/ RecordAudit
Next == Sweep \/ Override \/ (\E o \in Orgs : ShowRecommendation(o)) \/ Restart \/ Tick

Spec == Init /\ [][Next]_vars

-----------------------------------------------------------------------------
Displays(T) == {{}} \cup {{t} : t \in T}
Overrides(T) == [token : T, since : Nat, by : Administrators, org : Orgs,
                 named : Named \cup {Unnamed}, action : Costs]

TypeOK ==
    /\ now \in Nat
    /\ DOMAIN issued \subseteq Tokens
    /\ issued \in [DOMAIN issued -> [org : Orgs, cost : Costs, expires : Nat]]
    /\ DOMAIN tokens \subseteq DOMAIN issued
    /\ tokens \in [DOMAIN tokens -> [org : Orgs, cost : Costs, expires : Nat, consumed : BOOLEAN]]
    /\ recs \in [Orgs -> {Absent} \cup Displays(DOMAIN issued)]
    /\ sweep \subseteq Orgs
    /\ evaluation \in {Idle} \cup [at : {"issue"}, org : Orgs, cost : Costs, expires : Nat]
                     \cup [at : {"store"}, org : Orgs, token : Displays(DOMAIN issued)]
    /\ request \in {Idle} \cup [at : {"apply", "audit"}, override : Overrides(DOMAIN issued)]
    /\ shown \subseteq DOMAIN issued

ForcedTokens == {forced[n].token : n \in DOMAIN forced}

(***************************************************************************)
(* A token forces at most one action, however often and whenever it is     *)
(* presented, across sweeps that purge it and restarts that forget it      *)
(* (optimizer.py:245-254, app.py:1838).                                    *)
(***************************************************************************)
OneActionPerToken ==
    \A m, n \in DOMAIN forced : forced[m].token = forced[n].token => m = n

(***************************************************************************)
(* Every forced action was asked for in time, by the global administrator  *)
(* or one of the organization whose budget blocked it, with a token issued *)
(* for a cost above that budget; and it is the action that was blocked,    *)
(* however often the organization's recommendation changed since, unless   *)
(* the request named another one (optimizer.py:245-254, 326, 357;          *)
(* app.py:1838-1858).  That it is always the blocked one is refuted:       *)
(* ForcedAsBlocked below.                                                  *)
(***************************************************************************)
OnTerms(override, terms) ==
    /\ terms.cost > Remaining
    /\ override.since <= terms.expires
    /\ override.by \in {Global, terms.org}
    /\ override.named = Unnamed => override.action = terms.cost

ForcedOnTerms ==
    \A n \in DOMAIN forced :
        forced[n].token \in DOMAIN issued /\ OnTerms(forced[n], issued[forced[n].token])

(***************************************************************************)
(* "Admin-only budget guardrail override for blocked predictive scale-up   *)
(* actions" (app.py:1823): what is forced is what was blocked.  The code   *)
(* forces what the request names (app.py:1854-1858).                       *)
(***************************************************************************)
ForcedAsBlocked == \A n \in DOMAIN forced : forced[n].action = issued[forced[n].token].cost

(***************************************************************************)
(* Whoever is told that the override was applied can count on its audit    *)
(* record; and each record tells of the action that its token really       *)
(* forced, under the organization the token was issued for, whoever forced *)
(* it and whatever it was issued for (app.py:1845-1915).                   *)
(***************************************************************************)
AnsweredIsAudited ==
    /\ \A t \in answered : \E r \in vault : r.token = t
    /\ \A r \in vault :
          /\ r.org = issued[r.token].org
          /\ \E n \in DOMAIN forced : forced[n].token = r.token /\ forced[n].action = r.action

(***************************************************************************)
(* While the process runs, a token that could still be used leaves the     *)
(* store only when a token that expires no sooner is issued: no sweep of   *)
(* another organization and no use, failed or not, of another token takes  *)
(* the newest one away (optimizer.py:212-254).                             *)
(***************************************************************************)
Usable(t) == ~tokens[t].consumed /\ now <= tokens[t].expires
LiveTokensReplaced ==
    [][~Restart =>
         \A t \in DOMAIN tokens \ DOMAIN tokens' : Usable(t) =>
             \E u \in DOMAIN tokens' \ DOMAIN tokens : tokens'[u].expires >= tokens[t].expires]_vars

(***************************************************************************)
(* "Override token is invalid, expired, or already used" (app.py:1840) is  *)
(* what a refused token is: between evaluations, the token of a blocked    *)
(* recommendation that nobody was shown yet, let alone used, is honoured   *)
(* until it expires.                                                       *)
(***************************************************************************)
BlockedCanBeOverridden ==
    evaluation = Idle =>
        \A o \in Orgs : \A t \in recs[o] \ (Absent \cup shown) :
            now <= issued[t].expires => t \in DOMAIN tokens
==============================================================================
