----------------------- MODULE OverrideGuardrailProofs -----------------------
(***************************************************************************)
(* For any organizations, tokens, costs and times: the state is well       *)
(* typed, a token forces at most one action, and that on the terms it was  *)
(* issued on; an override that was answered is in the vault.               *)
(***************************************************************************)
EXTENDS OverrideGuardrail, TLAPS

LEMMA TypeInit == Init => TypeOK
  BY GuardrailConstants DEF Init, TypeOK, Displays

\* What was displayed stays displayable when more tokens are issued.
LEMMA DisplaysGrow == ASSUME NEW S, NEW T, S \subseteq T PROVE Displays(S) \subseteq Displays(T)
  BY DEF Displays

LEMMA TypeStep == TypeOK /\ [Next]_vars => TypeOK'
<1> SUFFICES ASSUME TypeOK, [Next]_vars PROVE TypeOK'
  OBVIOUS
<1> USE GuardrailConstants DEF TypeOK, sweeper, gateway
<1>1. CASE BeginSweep
  BY <1>1 DEF BeginSweep
<1>2. ASSUME NEW o \in Orgs, Evaluate(o) PROVE TypeOK'
  <2>1. CASE UNCHANGED evaluation
    BY <1>2, <2>1 DEF Evaluate
  <2>2. CASE ~UNCHANGED evaluation
    <3>1. PICK c \in Costs :
            /\ evaluation' = IF c > Remaining
                             THEN [at |-> "issue", org |-> o, cost |-> c, expires |-> now + Ttl]
                             ELSE [at |-> "store", org |-> o, token |-> {}]
            /\ UNCHANGED recs
      BY <1>2, <2>2 DEF Evaluate
    <3>2. {} \in Displays(DOMAIN issued)
      BY DEF Displays
    <3> QED BY <1>2, <3>1, <3>2 DEF Evaluate
  <2> QED BY <2>1, <2>2
<1>3. CASE IssueOverrideToken
  <2>1. PICK t \in Tokens \ DOMAIN issued :
          LET kept == Unpurged(evaluation.expires)
              record == [org |-> evaluation.org, cost |-> evaluation.cost,
                         expires |-> evaluation.expires]
              entry == [org |-> record.org, cost |-> record.cost, expires |-> record.expires,
                        consumed |-> FALSE]
          IN  /\ tokens' = [u \in {t} \cup kept |-> IF u = t THEN entry ELSE tokens[u]]
              /\ issued' = [u \in {t} \cup DOMAIN issued |-> IF u = t THEN record ELSE issued[u]]
              /\ evaluation' = [at |-> "store", org |-> evaluation.org, token |-> {t}]
    BY <1>3 DEF IssueOverrideToken
  <2>2. evaluation \in [at : {"issue"}, org : Orgs, cost : Costs, expires : Nat]
    BY <1>3 DEF IssueOverrideToken, Idle
  <2>3. DOMAIN issued' = {t} \cup DOMAIN issued
    BY <2>1
  <2>4. Displays(DOMAIN issued) \subseteq Displays(DOMAIN issued') /\ {t} \in Displays(DOMAIN issued')
    BY <2>3 DEF Displays
  <2>5. Unpurged(evaluation.expires) \subseteq DOMAIN tokens
    BY DEF Unpurged
  <2>6. tokens' \in [DOMAIN tokens' -> [org : Orgs, cost : Costs, expires : Nat, consumed : BOOLEAN]]
    BY <2>1, <2>2, <2>5
  <2>7. issued' \in [DOMAIN issued' -> [org : Orgs, cost : Costs, expires : Nat]]
    BY <2>1, <2>2
  <2>8. evaluation' \in [at : {"store"}, org : Orgs, token : Displays(DOMAIN issued')]
    BY <2>1, <2>2, <2>4
  <2>9. request' \in {Idle} \cup [at : {"apply", "audit"}, override : Overrides(DOMAIN issued')]
    <3>1. Overrides(DOMAIN issued) \subseteq Overrides(DOMAIN issued')
      BY <2>3 DEF Overrides
    <3> QED BY <1>3, <3>1 DEF IssueOverrideToken
  <2> QED BY <1>3, <2>1, <2>3, <2>4, <2>5, <2>6, <2>7, <2>8, <2>9 DEF IssueOverrideToken
<1>4. CASE StoreRecommendation
  <2>1. evaluation \in [at : {"store"}, org : Orgs, token : Displays(DOMAIN issued)]
    BY <1>4 DEF StoreRecommendation, Idle
  <2> QED BY <1>4, <2>1 DEF StoreRecommendation
<1>5. ASSUME NEW t \in Tokens, NEW by \in Administrators, NEW named \in Named \cup {Unnamed},
             ConsumeOverrideToken(t, by, named)
      PROVE TypeOK'
  <2>1. t \in DOMAIN issued
    BY <1>5 DEF ConsumeOverrideToken
  <2>2. CASE t \in DOMAIN tokens /\ ~tokens[t].consumed /\ ~Expired(t)
    <3>1. /\ tokens' = [tokens EXCEPT ![t] = Consumed(tokens[t])]
          /\ request' \in {Idle, [at |-> "apply", override |-> OverrideOf(t, by, named)]}
      BY <1>5, <2>2 DEF ConsumeOverrideToken
    <3>2. /\ tokens[t].org \in Orgs /\ tokens[t].cost \in Costs
          /\ Consumed(tokens[t]) \in [org : Orgs, cost : Costs, expires : Nat, consumed : BOOLEAN]
      BY <2>2 DEF Consumed
    <3>3. tokens' \in [DOMAIN tokens -> [org : Orgs, cost : Costs, expires : Nat, consumed : BOOLEAN]]
      BY <3>1, <3>2
    <3>4. DOMAIN tokens' = DOMAIN tokens
      BY <3>1
    <3>5. OverrideOf(t, by, named) \in Overrides(DOMAIN issued)
      BY <2>1, <3>2 DEF OverrideOf, Overrides
    <3>6. request' \in {Idle} \cup [at : {"apply", "audit"}, override : Overrides(DOMAIN issued)]
      BY <3>1, <3>5
    <3> QED BY <1>5, <3>3, <3>4, <3>6 DEF ConsumeOverrideToken
  <2>3. CASE t \in DOMAIN tokens /\ ~tokens[t].consumed /\ Expired(t)
    BY <1>5, <2>3 DEF ConsumeOverrideToken
  <2>4. CASE ~(t \in DOMAIN tokens /\ ~tokens[t].consumed)
    BY <1>5, <2>4 DEF ConsumeOverrideToken
  <2> QED BY <2>2, <2>3, <2>4
<1>6. CASE ApplyRemediation
  <2>1. request \in [at : {"apply", "audit"}, override : Overrides(DOMAIN issued)]
    BY <1>6 DEF ApplyRemediation, Idle
  <2>2. [request EXCEPT !.at = "audit"] \in [at : {"apply", "audit"}, override : Overrides(DOMAIN issued)]
    BY <2>1
  <2>3. request' \in {Idle} \cup [at : {"apply", "audit"}, override : Overrides(DOMAIN issued)]
    BY <1>6, <2>2 DEF ApplyRemediation
  <2>4. UNCHANGED <<now, issued, tokens, recs, sweep, evaluation, shown>>
    BY <1>6 DEF ApplyRemediation
  <2> QED BY <2>3, <2>4
<1>7. CASE RecordAudit
  BY <1>7 DEF RecordAudit
<1>8. ASSUME NEW o \in Orgs, ShowRecommendation(o) PROVE TypeOK'
  <2>1. recs[o] \subseteq DOMAIN issued
    BY <1>8 DEF ShowRecommendation, Displays
  <2> QED BY <1>8, <2>1 DEF ShowRecommendation
<1>9. CASE Restart
  BY <1>9 DEF Restart
<1>10. CASE Tick
  BY <1>10 DEF Tick
<1>11. CASE UNCHANGED vars
  BY <1>11 DEF vars
<1> QED
  BY <1>1, <1>2, <1>3, <1>4, <1>5, <1>6, <1>7, <1>8, <1>9, <1>10, <1>11 DEF Next, Sweep, Override

(* The token store, the recommendations and the requests are well formed. *)
THEOREM OverrideTypes == Spec => []TypeOK
  BY TypeInit, TypeStep, PTL DEF Spec
-----------------------------------------------------------------------------
(***************************************************************************)
(* Why a token works once: tokens are fresh, so one that is consumed or    *)
(* gone never becomes live again, and a request past the consumption holds *)
(* such a token, not yet forced.                                           *)
(***************************************************************************)
Spent(t) == t \in DOMAIN tokens => tokens[t].consumed

IssuedBlocked ==
    /\ \A t \in DOMAIN issued : issued[t].cost > Remaining
    /\ evaluation.at = "issue" => evaluation.cost > Remaining

EntriesKept ==
    \A t \in DOMAIN tokens :
        /\ tokens[t].expires = issued[t].expires
        /\ tokens[t].org = issued[t].org /\ tokens[t].cost = issued[t].cost

InHand ==
    request # Idle =>
        /\ Spent(request.override.token)
        /\ OnTerms(request.override, issued[request.override.token])
        /\ request.override.org = issued[request.override.token].org
        /\ request.at = "apply" => request.override.token \notin ForcedTokens

ForcedSpent ==
    /\ forced \in Seq(Overrides(Tokens))
    /\ \A t \in ForcedTokens : t \in DOMAIN issued /\ Spent(t)

IInv ==
    TypeOK /\ IssuedBlocked /\ EntriesKept /\ InHand /\ ForcedSpent
    /\ OneActionPerToken /\ ForcedOnTerms

LEMMA SpentForever ==
    ASSUME TypeOK, [Next]_vars, NEW t \in DOMAIN issued
    PROVE  t \in DOMAIN issued' /\ issued'[t] = issued[t] /\ (Spent(t) => Spent(t)')
<1> USE DEF TypeOK, sweeper, gateway, Spent
<1>1. CASE IssueOverrideToken
  BY <1>1 DEF IssueOverrideToken, Unpurged
<1>2. ASSUME NEW u \in Tokens, NEW by, NEW named, ConsumeOverrideToken(u, by, named)
      PROVE  Spent(t) => Spent(t)'
  BY <1>2 DEF ConsumeOverrideToken, Consumed
<1>3. ASSUME UNCHANGED tokens PROVE Spent(t) => Spent(t)'
  BY <1>3
<1>4. CASE Restart
  BY <1>4 DEF Restart
<1>5. UNCHANGED issued \/ IssueOverrideToken
  BY DEF Next, Sweep, Override, BeginSweep, Evaluate, StoreRecommendation, ConsumeOverrideToken,
         ApplyRemediation, RecordAudit, ShowRecommendation, Restart, Tick, vars
<1>6. \/ IssueOverrideToken \/ Restart \/ UNCHANGED tokens
      \/ \E u \in Tokens, by \in Administrators, named \in Named \cup {Unnamed} :
            ConsumeOverrideToken(u, by, named)
  BY DEF Next, Sweep, Override, BeginSweep, Evaluate, StoreRecommendation,
         ApplyRemediation, RecordAudit, ShowRecommendation, Tick, vars
<1>7. Spent(t) => Spent(t)'
  BY <1>1, <1>2, <1>3, <1>4, <1>6
<1>8. t \in DOMAIN issued' /\ issued'[t] = issued[t]
  BY <1>1, <1>5 DEF IssueOverrideToken
<1> QED BY <1>7, <1>8

LEMMA OnceInit == Init => IInv
  BY TypeInit DEF Init, IInv, IssuedBlocked, EntriesKept, InHand, ForcedSpent, ForcedTokens,
                  OneActionPerToken, ForcedOnTerms, Idle

\* What a step that executes nothing keeps.
LEMMA Unforced ==
    ASSUME IInv, [Next]_vars, UNCHANGED forced
    PROVE  ForcedSpent' /\ OneActionPerToken' /\ ForcedOnTerms'
<1> USE DEF IInv, ForcedSpent, ForcedTokens
<1>1. \A n \in DOMAIN forced : forced[n].token \in DOMAIN issued
  OBVIOUS
<1>2. \A n \in DOMAIN forced : /\ forced[n].token \in DOMAIN issued'
                              /\ issued'[forced[n].token] = issued[forced[n].token]
                              /\ Spent(forced[n].token)'
  BY <1>1, SpentForever
<1>3. ForcedSpent'
  BY <1>2
<1>4. OneActionPerToken'
  BY DEF OneActionPerToken
<1>5. ForcedOnTerms'
  BY <1>2 DEF ForcedOnTerms
<1> QED BY <1>3, <1>4, <1>5

\* What a step of another thread keeps of a request.
LEMMA Unrequested ==
    ASSUME IInv, [Next]_vars, UNCHANGED <<request, forced>>
    PROVE  InHand'
<1> SUFFICES ASSUME request # Idle PROVE InHand'
  BY DEF InHand
<1>1. request.override.token \in DOMAIN issued
  BY DEF IInv, TypeOK, Overrides
<1> QED BY <1>1, SpentForever DEF IInv, InHand, ForcedTokens

LEMMA OnceStep == IInv /\ [Next]_vars => IInv'
<1> SUFFICES ASSUME IInv, [Next]_vars PROVE IInv'
  OBVIOUS
<1>t. TypeOK /\ TypeOK'
  BY TypeStep DEF IInv
<1> USE GuardrailConstants DEF sweeper, gateway
<1>1. CASE IssueOverrideToken
  <2>1. PICK t \in Tokens \ DOMAIN issued :
          LET kept == Unpurged(evaluation.expires)
              record == [org |-> evaluation.org, cost |-> evaluation.cost,
                         expires |-> evaluation.expires]
              entry == [org |-> record.org, cost |-> record.cost, expires |-> record.expires,
                        consumed |-> FALSE]
          IN  /\ tokens' = [u \in {t} \cup kept |-> IF u = t THEN entry ELSE tokens[u]]
              /\ issued' = [u \in {t} \cup DOMAIN issued |-> IF u = t THEN record ELSE issued[u]]
              /\ evaluation' = [at |-> "store", org |-> evaluation.org, token |-> {t}]
    BY <1>1 DEF IssueOverrideToken
  <2>2. evaluation.at = "issue" /\ evaluation.cost > Remaining
    BY <1>1 DEF IssueOverrideToken, IInv, IssuedBlocked
  <2>3. IssuedBlocked'
    BY <2>1, <2>2 DEF IInv, IssuedBlocked
  <2>4. EntriesKept'
    BY <1>t, <2>1 DEF IInv, EntriesKept, Unpurged, TypeOK
  <2> QED BY <1>1, <1>t, <2>3, <2>4, Unforced, Unrequested DEF IInv, IssueOverrideToken
<1>2. ASSUME NEW t \in Tokens, NEW by \in Administrators, NEW named \in Named \cup {Unnamed},
             ConsumeOverrideToken(t, by, named)
      PROVE  IInv'
  <2>1. IssuedBlocked'
    BY <1>2 DEF IInv, IssuedBlocked, ConsumeOverrideToken
  <2>2. EntriesKept'
    <3>1. \A u \in DOMAIN tokens : /\ tokens[u] \in [org : Orgs, cost : Costs, expires : Nat,
                                                     consumed : BOOLEAN]
                                  /\ Consumed(tokens[u]).org = tokens[u].org
                                  /\ Consumed(tokens[u]).cost = tokens[u].cost
                                  /\ Consumed(tokens[u]).expires = tokens[u].expires
      BY <1>t DEF TypeOK, Consumed
    <3>2. \A u \in DOMAIN tokens' : u \in DOMAIN tokens /\ tokens'[u] \in {tokens[u], Consumed(tokens[u])}
      BY <1>2 DEF ConsumeOverrideToken
    <3>3. UNCHANGED issued
      BY <1>2 DEF ConsumeOverrideToken
    <3> QED BY <3>1, <3>2, <3>3 DEF IInv, EntriesKept
  <2>3. InHand'
    <3>1. CASE UNCHANGED request
      BY <1>2, <3>1, Unrequested DEF ConsumeOverrideToken
    <3>2. CASE request' = Idle
      BY <3>2 DEF InHand
    <3>3. CASE ~UNCHANGED request /\ request' # Idle
      <4>1. /\ t \in DOMAIN tokens /\ ~tokens[t].consumed /\ ~Expired(t)
            /\ tokens' = [tokens EXCEPT ![t] = Consumed(tokens[t])]
            /\ request' = [at |-> "apply", override |-> OverrideOf(t, by, named)]
            /\ InScope(by, tokens[t].org)
            /\ issued' = issued /\ forced' = forced /\ t \in DOMAIN issued
        BY <1>2, <1>t, <3>3 DEF ConsumeOverrideToken, TypeOK
      <4>2. t \notin ForcedTokens
        BY <4>1 DEF IInv, ForcedSpent, Spent
      <4>3. /\ tokens[t].org = issued[t].org /\ tokens[t].cost = issued[t].cost
            /\ tokens[t].expires = issued[t].expires
        BY <4>1 DEF IInv, EntriesKept
      <4>4. now <= issued[t].expires /\ issued[t].cost > Remaining
        BY <1>t, <4>1, <4>3 DEF Expired, TypeOK, IInv, IssuedBlocked
      <4>5. OnTerms(OverrideOf(t, by, named), issued[t])
        BY <4>1, <4>3, <4>4 DEF OnTerms, OverrideOf, InScope
      <4>6. Spent(t)'
        BY <4>1, <1>t DEF Spent, Consumed, TypeOK
      <4>7. /\ request'.override = OverrideOf(t, by, named) /\ OverrideOf(t, by, named).token = t
            /\ OverrideOf(t, by, named).org = issued[t].org
        BY <4>1, <4>3 DEF OverrideOf
      <4>8. Spent(request.override.token)' /\ (request.override.token \notin ForcedTokens)'
        BY <4>1, <4>2, <4>6, <4>7 DEF ForcedTokens, Spent
      <4>9. /\ OnTerms(request.override, issued[request.override.token])'
            /\ (request.override.org = issued[request.override.token].org)'
        <5>1. issued'[t] = issued[t] /\ request'.override.token = t
          BY <4>1, <4>7
        <5> QED BY <4>5, <4>7, <5>1 DEF OnTerms
      <4> QED BY <4>8, <4>9 DEF InHand
    <3> QED BY <3>1, <3>2, <3>3
  <2> QED BY <1>2, <1>t, <2>1, <2>2, <2>3, Unforced DEF IInv, ConsumeOverrideToken
<1>3. CASE ApplyRemediation
  <2>1. /\ request \in [at : {"apply", "audit"}, override : Overrides(DOMAIN issued)]
        /\ request.at = "apply" /\ request # Idle
    BY <1>3, <1>t DEF ApplyRemediation, Idle, TypeOK
  <2>2. IssuedBlocked' /\ EntriesKept' /\ UNCHANGED <<tokens, issued>>
    BY <1>3 DEF ApplyRemediation, IInv, IssuedBlocked, EntriesKept
  <2>3. CASE UNCHANGED forced
    <3>1. request' = Idle
      BY <1>3, <2>3, <2>1 DEF ApplyRemediation, IInv, ForcedSpent
    <3> QED BY <1>t, <2>2, <2>3, <3>1, Unforced DEF IInv, InHand
  <2>4. CASE /\ forced' = Append(forced, request.override)
             /\ request' \in {Idle, [request EXCEPT !.at = "audit"]}
    <3> DEFINE over == request.override
    <3>1. over \in Overrides(Tokens) /\ over.token \in DOMAIN issued
      BY <1>t, <2>1 DEF TypeOK, Overrides
    <3>2. /\ Spent(over.token) /\ over.token \notin ForcedTokens
          /\ OnTerms(over, issued[over.token])
      BY <2>1 DEF IInv, InHand
    <3>3. forced \in Seq(Overrides(Tokens))
      BY DEF IInv, ForcedSpent
    <3>4. /\ forced' \in Seq(Overrides(Tokens))
          /\ DOMAIN forced' = 1..(Len(forced) + 1) /\ DOMAIN forced = 1..Len(forced)
          /\ \A n \in DOMAIN forced : forced'[n] = forced[n]
          /\ forced'[Len(forced) + 1] = over
      BY <2>4, <3>1, <3>3
    <3>5. \A n \in DOMAIN forced' :
            n \in DOMAIN forced \/ (n = Len(forced) + 1 /\ n \notin DOMAIN forced)
      BY <3>3, <3>4
    <3> HIDE DEF over
    <3>6. ForcedSpent'
      BY <2>2, <3>1, <3>2, <3>4, <3>5 DEF IInv, ForcedSpent, ForcedTokens, Spent
    <3>7. OneActionPerToken'
      BY <3>2, <3>4, <3>5 DEF IInv, OneActionPerToken, ForcedTokens
    <3>8. ForcedOnTerms'
      BY <2>2, <3>1, <3>2, <3>4, <3>5 DEF IInv, ForcedOnTerms
    <3>9. InHand'
      <4>1. CASE request' = Idle
        BY <4>1 DEF InHand
      <4>2. CASE request' = [request EXCEPT !.at = "audit"]
        <5>1. request'.override = request.override /\ request'.at = "audit"
          BY <2>1, <4>2
        <5> QED BY <2>1, <2>2, <5>1 DEF IInv, InHand, Spent
      <4> QED BY <2>4, <4>1, <4>2
    <3> QED BY <1>t, <2>2, <3>6, <3>7, <3>8, <3>9 DEF IInv
  <2> QED BY <1>3, <2>3, <2>4 DEF ApplyRemediation
<1>4. CASE RecordAudit
  BY <1>4, <1>t, Unforced DEF RecordAudit, IInv, InHand, IssuedBlocked, EntriesKept
<1>5. CASE Restart
  BY <1>5, <1>t, Unforced DEF Restart, IInv, InHand, IssuedBlocked, EntriesKept, Idle
<1>6. ASSUME NEW o \in Orgs, Evaluate(o) PROVE IInv'
  <2>1. IssuedBlocked'
    BY <1>6 DEF Evaluate, IInv, IssuedBlocked
  <2>2. EntriesKept'
    BY <1>6 DEF Evaluate, IInv, EntriesKept
  <2> QED BY <1>6, <1>t, <2>1, <2>2, Unforced, Unrequested DEF Evaluate, IInv
<1>7. CASE StoreRecommendation
  BY <1>7, <1>t, Unforced, Unrequested
     DEF StoreRecommendation, IInv, IssuedBlocked, EntriesKept, Idle
<1>8. CASE BeginSweep
  BY <1>8, <1>t, Unforced, Unrequested DEF BeginSweep, IInv, IssuedBlocked, EntriesKept
<1>9. ASSUME NEW o \in Orgs, ShowRecommendation(o) PROVE IInv'
  BY <1>9, <1>t, Unforced, Unrequested DEF ShowRecommendation, IInv, IssuedBlocked, EntriesKept
<1>10. CASE Tick
  BY <1>10, <1>t, Unforced, Unrequested DEF Tick, IInv, IssuedBlocked, EntriesKept
<1>11. CASE UNCHANGED vars
  BY <1>11, <1>t, Unforced, Unrequested DEF vars, IInv, IssuedBlocked, EntriesKept
<1> QED
  BY <1>1, <1>2, <1>3, <1>4, <1>5, <1>6, <1>7, <1>8, <1>9, <1>10, <1>11 DEF Next, Sweep, Override

(* No token forces two actions, whatever purges, restarts and retries happen. *)
THEOREM OverrideOncePerToken == Spec => []OneActionPerToken
<1>1. IInv => OneActionPerToken
  BY DEF IInv
<1> QED BY <1>1, OnceInit, OnceStep, PTL DEF Spec

(***************************************************************************)
(* Whatever is forced was asked for in time and in scope, with a token of  *)
(* a blocked cost, and is what that token was issued for unless the        *)
(* request named another action (optimizer.py:245-254, app.py:1838-1858).  *)
(***************************************************************************)
THEOREM OverrideOnTerms == Spec => []ForcedOnTerms
<1>1. IInv => ForcedOnTerms
  BY DEF IInv
<1> QED BY <1>1, OnceInit, OnceStep, PTL DEF Spec
-----------------------------------------------------------------------------
(* A step that is no restart takes usable tokens only by issuing another.  *)
LiveKept ==
    ~Restart =>
        \A t \in DOMAIN tokens \ DOMAIN tokens' : Usable(t) =>
            \E u \in DOMAIN tokens' \ DOMAIN tokens : tokens'[u].expires >= tokens[t].expires

LEMMA LiveStep == TypeOK /\ [Next]_vars => LiveKept
<1> SUFFICES ASSUME TypeOK, [Next]_vars, ~Restart,
                    NEW t \in DOMAIN tokens \ DOMAIN tokens', Usable(t)
             PROVE  \E u \in DOMAIN tokens' \ DOMAIN tokens :
                        tokens'[u].expires >= tokens[t].expires
  BY DEF LiveKept
<1> USE DEF TypeOK
<1>1. CASE IssueOverrideToken
  <2>1. PICK u \in Tokens \ DOMAIN issued :
          tokens' = [v \in {u} \cup Unpurged(evaluation.expires) |->
                       IF v = u THEN [org |-> evaluation.org, cost |-> evaluation.cost,
                                      expires |-> evaluation.expires, consumed |-> FALSE]
                                ELSE tokens[v]]
    BY <1>1 DEF IssueOverrideToken
  <2>2. u \in DOMAIN tokens' \ DOMAIN tokens /\ tokens'[u].expires = evaluation.expires
    BY <2>1
  <2>3. evaluation.expires \in Nat
    BY <1>1 DEF IssueOverrideToken, Idle
  <2>4. t \notin Unpurged(evaluation.expires)
    BY <2>1
  <2>5. tokens[t].expires \in Nat /\ ~(tokens[t].expires > evaluation.expires)
    BY <2>3, <2>4 DEF Unpurged, Usable
  <2> QED BY <2>2, <2>3, <2>5
<1>2. ASSUME NEW u \in Tokens, NEW by, NEW named, ConsumeOverrideToken(u, by, named) PROVE FALSE
  <2>1. t = u /\ now > tokens[u].expires
    BY <1>2 DEF ConsumeOverrideToken, Expired
  <2>2. tokens[t].expires \in Nat
    OBVIOUS
  <2> QED BY <2>1, <2>2 DEF Usable
<1>3. CASE UNCHANGED tokens
  BY <1>3
<1>4. (\E o \in Orgs : Evaluate(o) \/ ShowRecommendation(o)) \/ BeginSweep
        \/ StoreRecommendation \/ ApplyRemediation \/ RecordAudit \/ Tick \/ UNCHANGED vars
        => UNCHANGED tokens
  BY DEF Evaluate, ShowRecommendation, BeginSweep, StoreRecommendation, ApplyRemediation,
         RecordAudit, Tick, vars
<1> QED BY <1>1, <1>2, <1>3, <1>4 DEF Next, Sweep, Override

(***************************************************************************)
(* For any organizations, tokens, costs and times, a token that could still*)
(* be used is only ever displaced by the issue of one that expires no      *)
(* sooner (optimizer.py:212-254).                                          *)
(***************************************************************************)
THEOREM OverrideLiveReplaced == Spec => LiveTokensReplaced
<1>1. TypeOK /\ [Next]_vars => [LiveKept]_vars
  BY LiveStep
<1>2. LiveTokensReplaced <=> [][LiveKept]_vars
  BY DEF LiveTokensReplaced, LiveKept
<1> QED BY <1>1, <1>2, TypeInit, TypeStep, PTL DEF Spec
-----------------------------------------------------------------------------
(***************************************************************************)
(* Why the audit can be counted on: a request gets to the audit only after *)
(* its action was executed, and is answered with the record written.       *)
(***************************************************************************)
AuditsExecuted ==
    request # Idle /\ request.at = "audit" =>
        \E n \in DOMAIN forced : forced[n] = request.override

Filed == \A r \in vault : r.token \in DOMAIN issued

AuditInv == IInv /\ AuditsExecuted /\ Filed /\ AnsweredIsAudited

LEMMA AuditInit == Init => AuditInv
  BY OnceInit DEF Init, AuditInv, AuditsExecuted, AnsweredIsAudited, Filed, Idle

\* What was executed stays on the list.
LEMMA ForcedGrows ==
    ASSUME IInv, [Next]_vars
    PROVE  \A n \in DOMAIN forced : n \in DOMAIN forced' /\ forced'[n] = forced[n]
<1>1. CASE ApplyRemediation /\ ~UNCHANGED forced
  <2>1. request \in [at : {"apply", "audit"}, override : Overrides(DOMAIN issued)]
    BY <1>1 DEF ApplyRemediation, IInv, TypeOK, Idle
  <2>2. request.override \in Overrides(Tokens)
    BY <2>1 DEF IInv, TypeOK, Overrides
  <2>3. forced \in Seq(Overrides(Tokens)) /\ forced' = Append(forced, request.override)
    BY <1>1 DEF ApplyRemediation, IInv, ForcedSpent
  <2> QED BY <2>2, <2>3
<1>2. ApplyRemediation \/ UNCHANGED forced
  BY DEF Next, Sweep, Override, BeginSweep, Evaluate, IssueOverrideToken, StoreRecommendation,
         ConsumeOverrideToken, RecordAudit, ShowRecommendation, Restart, Tick, vars, gateway
<1> QED BY <1>1, <1>2

\* What a step that answers nothing keeps.
LEMMA AuditsKept ==
    ASSUME AuditInv, [Next]_vars, UNCHANGED <<vault, answered>>
    PROVE  Filed' /\ AnsweredIsAudited'
<1>1. IInv
  BY DEF AuditInv
<1>2. \A r \in vault : r.token \in DOMAIN issued' /\ issued'[r.token] = issued[r.token]
  BY <1>1, SpentForever DEF AuditInv, Filed, IInv
<1>3. \A n \in DOMAIN forced : n \in DOMAIN forced' /\ forced'[n] = forced[n]
  BY <1>1, ForcedGrows
<1> QED BY <1>2, <1>3 DEF AuditInv, Filed, AnsweredIsAudited

LEMMA AuditStep == AuditInv /\ [Next]_vars => AuditInv'
<1> SUFFICES ASSUME AuditInv, [Next]_vars
             PROVE  AuditsExecuted' /\ Filed' /\ AnsweredIsAudited'
  BY OnceStep DEF AuditInv
<1>t. IInv /\ TypeOK /\ forced \in Seq(Overrides(Tokens))
  BY DEF AuditInv, IInv, ForcedSpent
<1> USE DEF AuditsExecuted
<1>1. CASE ApplyRemediation
  <2>1. /\ request # Idle /\ UNCHANGED <<vault, answered>>
        /\ request \in [at : {"apply", "audit"}, override : Overrides(DOMAIN issued)]
    BY <1>1, <1>t DEF ApplyRemediation, Idle, TypeOK
  <2>2. Filed' /\ AnsweredIsAudited'
    BY <2>1, AuditsKept
  <2>3. CASE request' = Idle
    BY <2>2, <2>3
  <2>4. CASE /\ forced' = Append(forced, request.override)
             /\ request' = [request EXCEPT !.at = "audit"]
    <3>1. request.override \in Overrides(Tokens)
      BY <1>t, <2>1 DEF TypeOK, Overrides
    <3>2. request'.override = request.override
      BY <2>1, <2>4
    <3>3. Len(forced) + 1 \in DOMAIN forced' /\ forced'[Len(forced) + 1] = request.override
      BY <1>t, <2>4, <3>1
    <3> QED BY <2>2, <3>2, <3>3
  <2> QED BY <1>1, <2>3, <2>4 DEF ApplyRemediation
<1>2. CASE RecordAudit
  <2>1. /\ request # Idle
        /\ request \in [at : {"apply", "audit"}, override : Overrides(DOMAIN issued)]
    BY <1>2, <1>t DEF RecordAudit, Idle, TypeOK
  <2>2. PICK n \in DOMAIN forced : forced[n] = request.override
    BY <1>2, <2>1 DEF RecordAudit, AuditInv
  <2>3. /\ request.override.token \in DOMAIN issued
        /\ request.override.org = issued[request.override.token].org
    BY <1>t, <2>1 DEF IInv, InHand, TypeOK, Overrides
  <2>4. UNCHANGED <<forced, issued>> /\ request' = Idle
    BY <1>2 DEF RecordAudit, sweeper
  <2>5. CASE UNCHANGED <<vault, answered>>
    BY <2>4, <2>5, AuditsKept
  <2>6. CASE /\ vault' = vault \cup {Record(request.override)}
             /\ answered' = answered \cup {request.override.token}
    <3>1. /\ Record(request.override).token = request.override.token
          /\ Record(request.override).org = request.override.org
          /\ Record(request.override).action = request.override.action
      BY DEF Record
    <3>2. Filed'
      BY <2>3, <2>4, <2>6, <3>1 DEF AuditInv, Filed
    <3>3. AnsweredIsAudited'
      BY <2>2, <2>3, <2>4, <2>6, <3>1 DEF AuditInv, AnsweredIsAudited
    <3> QED BY <2>4, <3>2, <3>3
  <2> QED BY <1>2, <2>5, <2>6 DEF RecordAudit
<1>3. ASSUME NEW t \in Tokens, NEW by \in Administrators, NEW named \in Named \cup {Unnamed},
             ConsumeOverrideToken(t, by, named)
      PROVE  AuditsExecuted' /\ Filed' /\ AnsweredIsAudited'
  <2>1. UNCHANGED <<vault, answered, forced>>
    BY <1>3 DEF ConsumeOverrideToken
  <2>2. request' \in {request, Idle, [at |-> "apply", override |-> OverrideOf(t, by, named)]}
    BY <1>3 DEF ConsumeOverrideToken
  <2> QED BY <2>1, <2>2, AuditsKept DEF AuditInv
<1>4. CASE Restart
  BY <1>4, AuditsKept DEF Restart
<1>5. ASSUME UNCHANGED <<request, forced, vault, answered>>
      PROVE  AuditsExecuted' /\ Filed' /\ AnsweredIsAudited'
  BY <1>5, AuditsKept DEF AuditInv
<1>6. \/ ApplyRemediation \/ RecordAudit \/ Restart
      \/ (\E t \in Tokens, by \in Administrators, named \in Named \cup {Unnamed} :
            ConsumeOverrideToken(t, by, named))
      \/ UNCHANGED <<request, forced, vault, answered>>
  BY DEF Next, Sweep, Override, BeginSweep, Evaluate, IssueOverrideToken, StoreRecommendation,
         ShowRecommendation, Tick, vars, gateway
<1> QED BY <1>1, <1>2, <1>3, <1>4, <1>5, <1>6

(***************************************************************************)
(* Who is told that the override was applied finds it in the vault, and    *)
(* each record tells of the action its token forced, under the token's     *)
(* organization, across every failure of the vault and every restart       *)
(* (app.py:1845-1915).                                                     *)
(***************************************************************************)
THEOREM OverrideAnsweredAudited == Spec => []AnsweredIsAudited
<1>1. AuditInv => AnsweredIsAudited
  BY DEF AuditInv
<1> QED BY <1>1, AuditInit, AuditStep, PTL DEF Spec
==============================================================================
