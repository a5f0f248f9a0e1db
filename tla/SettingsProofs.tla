---------------------------- MODULE SettingsProofs ----------------------------
(***************************************************************************)
(* Alert settings for any organizations, thresholds, requests and faults:  *)
(* what an organization's rows hold and who chose it.                      *)
(***************************************************************************)
EXTENDS Settings, TLAPS

Pairs == [Keys -> Value]
Urls == Value \ {Seeded, Absent}

\* What was asked for by name is a request's, and an earlier one than the next.
AskedEarlier ==
    \A o \in Orgs, k \in Keys :
        asked[o][k] = Absent \/ (asked[o][k].by = o /\ asked[o][k].n <= posts)

\* What the one organization that sets thresholds asked for is in its rows, and in
\* both copies of the store: whichever the next request completes its pair from.
Kept(o, k) ==
    /\ threshold[o][k] = asked[o][k]
    /\ store.threshold[k] = asked[o][k] /\ file.threshold[k] = asked[o][k]
SoleKept ==
    \A o \in Orgs, k \in Keys :
        faults = 0 /\ posters \subseteq {o} /\ asked[o][k] # Absent => Kept(o, k)

\* A URL is its organization's, and Slack is on without one only where it was blanked.
UrlsOwned == \A o \in Orgs : url[o] # Blank => url[o].by = o
EnabledHadUrl == \A o \in Orgs : enabled[o] /\ url[o] = Blank => o \in blanked

IInv == TypeOK /\ AskedEarlier /\ SoleKept /\ UrlsOwned /\ EnabledHadUrl

LEMMA ValueFacts ==
    /\ Shipped \in Value /\ Seeded \in Value /\ Absent \in Value /\ Blank \in Urls
    /\ Shipped # Absent /\ Seeded # Absent
    /\ Shipped.by = NoOne /\ Seeded.by = NoOne /\ Absent.by = NoOne
  BY DEF Shipped, Seeded, Absent, Blank, Value, Urls

LEMMA InvInit == Init => IInv
<1> SUFFICES ASSUME Init PROVE IInv
  OBVIOUS
<1> USE SettingsConstants, ValueFacts
<1>1. TypeOK
  <2>1. store \in Config /\ file \in Config
    BY DEF Init, ShippedConfig, Config, Both, Urls
  <2>2. threshold \in [Orgs -> Pairs] /\ asked \in [Orgs -> Pairs]
    BY DEF Init, Both, Pairs
  <2>3. url \in [Orgs -> Urls] /\ enabled \in [Orgs -> BOOLEAN]
    BY DEF Init
  <2> QED BY <2>1, <2>2, <2>3 DEF Init, TypeOK, Pairs, Urls
<1>2. AskedEarlier /\ SoleKept
  BY DEF Init, AskedEarlier, SoleKept, Both
<1>3. UrlsOwned
  BY DEF Init, UrlsOwned
<1>4. EnabledHadUrl
  BY DEF Init, EnabledHadUrl
<1> QED BY <1>1, <1>2, <1>3, <1>4 DEF IInv

-----------------------------------------------------------------------------
\* A request is told from all that was before it.
LEMMA RequestFacts ==
    ASSUME IInv, NEW o \in Orgs, posts < MaxPosts
    PROVE  /\ Request(o) \in Urls /\ Request(o) \in Value
           /\ Request(o) # Absent /\ Request(o) # Blank
           /\ Request(o).by = o /\ Request(o).n = posts + 1
           /\ posts + 1 \in 0..MaxPosts /\ posts \in Nat
           /\ \A k \in Keys : asked[o][k] # Request(o)
<1>1. posts \in Nat /\ posts + 1 \in 1..MaxPosts
  BY SettingsConstants DEF IInv, TypeOK
<1>2. Request(o) \in Value /\ Request(o).by = o /\ Request(o).n = posts + 1 /\ o # NoOne
  BY <1>1, SettingsConstants DEF Request, Value
<1>3. Request(o) # Absent /\ Request(o) # Blank /\ Request(o) # Seeded
  BY <1>2, ValueFacts DEF Blank
<1>4. ASSUME NEW k \in Keys PROVE asked[o][k] # Request(o)
  <2>1. asked[o][k] = Absent \/ asked[o][k].n <= posts
    BY DEF IInv, AskedEarlier
  <2> QED BY <1>1, <1>2, <1>3, <2>1
<1> QED BY <1>1, <1>2, <1>3, <1>4 DEF Urls

\* The fields of a changed store.
LEMMA ConfigFacts ==
    ASSUME store \in Config, NEW pair \in Pairs, NEW u \in Value
    PROVE  /\ Sync(pair) \in Config /\ Sync(pair).threshold = pair
           /\ [store EXCEPT !.url = u] \in Config
           /\ [store EXCEPT !.url = u].threshold = store.threshold
           /\ ShippedConfig \in Config
  BY ValueFacts DEF Config, Sync, Pairs, ShippedConfig, Both, Urls

\* What an organization's rows and the history have once it wrote a pair.
LEMMA Writes ==
    ASSUME IInv, NEW o \in Orgs, posts < MaxPosts, posts' = posts + 1, NEW K \in SUBSET Keys, NEW pair \in Pairs,
           WriteThresholds(o, K, pair)
    PROVE  /\ threshold' \in [Orgs -> Pairs] /\ asked' \in [Orgs -> Pairs]
           /\ threshold'[o] = pair
           /\ \A k \in Keys : asked'[o][k] = IF k \in K THEN Request(o) ELSE asked[o][k]
           /\ \A p \in Orgs \ {o} : threshold'[p] = threshold[p] /\ asked'[p] = asked[p]
           /\ AskedEarlier'
<1>1. threshold \in [Orgs -> Pairs] /\ asked \in [Orgs -> Pairs]
  BY DEF IInv, TypeOK, Pairs
<1>2. Named(o, K) \in Pairs /\ \A k \in Keys : Named(o, K)[k] = IF k \in K THEN Request(o) ELSE asked[o][k]
  BY <1>1, RequestFacts DEF Named, Pairs
<1>3. threshold' = [threshold EXCEPT ![o] = pair] /\ asked' = [asked EXCEPT ![o] = Named(o, K)]
  BY DEF WriteThresholds
<1> HIDE DEF Pairs
<1>4. threshold' \in [Orgs -> Pairs] /\ asked' \in [Orgs -> Pairs] /\ threshold'[o] = pair
      /\ asked'[o] = Named(o, K)
      /\ \A p \in Orgs \ {o} : threshold'[p] = threshold[p] /\ asked'[p] = asked[p]
  BY <1>1, <1>2, <1>3
<1>5. AskedEarlier'
  <2> SUFFICES ASSUME NEW p \in Orgs, NEW k \in Keys
               PROVE  asked'[p][k] = Absent \/ (asked'[p][k].by = p /\ asked'[p][k].n <= posts')
    BY DEF AskedEarlier
  <2>1. asked[p][k] = Absent \/ (asked[p][k].by = p /\ asked[p][k].n <= posts)
    BY DEF IInv, AskedEarlier
  <2>2. asked[p][k] \in Value
    BY <1>1 DEF Pairs
  <2>3. asked[p][k] = Absent \/ (asked[p][k].by = p /\ asked[p][k].n <= posts')
    BY <2>1, <2>2, RequestFacts DEF Value, Absent, Shipped, Seeded
  <2> QED BY <1>2, <1>4, <2>3, RequestFacts
<1> QED BY <1>2, <1>4, <1>5

-----------------------------------------------------------------------------
\* The pair that POST /api/config/thresholds writes, whichever read succeeded.
PostPairs(o, K) == {Pair(o, K, Read(o)), Pair(o, K, Both(Shipped))}

LEMMA PostPairFacts ==
    ASSUME IInv, NEW o \in Orgs, NEW K \in SUBSET Keys, posts < MaxPosts, NEW pair \in PostPairs(o, K)
    PROVE  /\ pair \in Pairs
           /\ \A k \in K : pair[k] = Request(o)
           /\ \A k \in Keys \ K : pair[k] \in {threshold[o][k], Shipped}
           /\ \A k \in Keys \ K :
                pair = Pair(o, K, Read(o)) /\ threshold[o][k] # Absent => pair[k] = threshold[o][k]
<1>1. threshold[o] \in Pairs /\ \A k \in Keys : threshold[o][k] \in Value
  BY DEF IInv, TypeOK, Pairs
<1>2. Read(o) \in Pairs /\ \A k \in Keys : Read(o)[k] \in {threshold[o][k], Shipped}
  BY <1>1, ValueFacts DEF Read, Both, Pairs
<1>3. \A k \in Keys : threshold[o][k] # Absent => Read(o)[k] = threshold[o][k]
  BY DEF Read, Both
<1>4. Both(Shipped) \in Pairs /\ \A k \in Keys : Both(Shipped)[k] = Shipped
  BY ValueFacts DEF Both, Pairs
<1>5. ASSUME NEW current \in Pairs
      PROVE  /\ Pair(o, K, current) \in Pairs
             /\ \A k \in K : Pair(o, K, current)[k] = Request(o)
             /\ \A k \in Keys \ K : Pair(o, K, current)[k] = current[k]
  BY RequestFacts DEF Pair, Pairs
<1>6. CASE pair = Pair(o, K, Read(o))
  BY <1>2, <1>3, <1>5, <1>6
<1>7. CASE pair = Pair(o, K, Both(Shipped)) /\ pair # Pair(o, K, Read(o))
  BY <1>4, <1>5, <1>7
<1> QED BY <1>6, <1>7 DEF PostPairs

\* What the endpoint does, with a fault or without.
LEMMA PostThresholdsDoes ==
    ASSUME IInv, NEW o \in Orgs, NEW K \in SUBSET Keys, PostThresholds(o, K)
    PROVE  /\ posts < MaxPosts /\ posts' = posts + 1 /\ posters' = posters \cup {o}
           /\ UNCHANGED <<url, enabled, blanked>>
           /\ faults' \in 0..MaxFaults /\ (faults' # 0 \/ faults' = faults)
           /\ store' \in Config /\ file' \in Config
           /\ \E pair \in PostPairs(o, K) :
                /\ WriteThresholds(o, K, pair)
                /\ faults' = faults => /\ pair = Pair(o, K, Read(o))
                                       /\ store'.threshold = pair /\ file'.threshold = pair
<1> DEFINE pair == Pair(o, K, Read(o))
           reset == Pair(o, K, Both(Shipped))
<1>1. posts < MaxPosts /\ posts' = posts + 1 /\ posters' = posters \cup {o}
      /\ UNCHANGED <<url, enabled, blanked>>
  BY DEF PostThresholds
<1>2. pair \in Pairs /\ reset \in Pairs /\ pair \in PostPairs(o, K) /\ reset \in PostPairs(o, K)
  BY <1>1, PostPairFacts DEF PostPairs
<1>3. Both(Shipped) \in Pairs
  BY ValueFacts DEF Both, Pairs
<1>4. store \in Config /\ file \in Config /\ faults \in 0..MaxFaults
  BY DEF IInv, TypeOK
<1> HIDE DEF pair, reset
<1>5. /\ Sync(pair) \in Config /\ Sync(pair).threshold = pair
      /\ Sync(reset) \in Config /\ Sync(Both(Shipped)) \in Config /\ ShippedConfig \in Config
  BY <1>2, <1>3, <1>4, ConfigFacts, ValueFacts
<1>6. CASE Sound /\ WriteThresholds(o, K, pair) /\ StoreUpdate(Sync(pair))
  BY <1>1, <1>2, <1>4, <1>5, <1>6 DEF Sound, StoreUpdate, pair
<1>7. CASE Faulty /\ WriteThresholds(o, K, reset) /\ StoreUpdate(Sync(reset))
  <2>1. faults' \in 0..MaxFaults /\ faults' # 0 /\ faults' # faults
    BY <1>4, <1>7, SettingsConstants DEF Faulty
  <2> QED BY <1>1, <1>2, <1>5, <1>7, <2>1 DEF StoreUpdate
<1>8. CASE Faulty /\ WriteThresholds(o, K, pair)
           /\ \/ StoreUpdate(Sync(Both(Shipped))) \/ StoreUpdateUnsaved(Sync(pair)) \/ DieSaving \/ DieBefore
  <2>1. faults' \in 0..MaxFaults /\ faults' # 0 /\ faults' # faults
    BY <1>4, <1>8, SettingsConstants DEF Faulty
  <2>2. store' \in Config /\ file' \in Config
    BY <1>4, <1>5, <1>8 DEF StoreUpdate, StoreUpdateUnsaved, DieSaving, DieBefore
  <2> QED BY <1>1, <1>2, <1>8, <2>1, <2>2
<1> QED BY <1>6, <1>7, <1>8 DEF PostThresholds, pair, reset

LEMMA PostThresholdsKeeps ==
    ASSUME IInv, NEW o \in Orgs, NEW K \in SUBSET Keys, PostThresholds(o, K)
    PROVE  IInv'
<1>1. PICK pair \in PostPairs(o, K) :
        /\ WriteThresholds(o, K, pair)
        /\ faults' = faults => /\ pair = Pair(o, K, Read(o))
                               /\ store'.threshold = pair /\ file'.threshold = pair
  BY PostThresholdsDoes
<1>2. /\ posts < MaxPosts /\ posts' = posts + 1 /\ posters' = posters \cup {o}
      /\ UNCHANGED <<url, enabled, blanked>>
      /\ faults' \in 0..MaxFaults /\ (faults' = 0 => faults' = faults)
      /\ store' \in Config /\ file' \in Config
  BY PostThresholdsDoes DEF IInv, TypeOK
<1>3. pair \in Pairs
  BY <1>1, <1>2, PostPairFacts
<1>4. /\ threshold' \in [Orgs -> Pairs] /\ asked' \in [Orgs -> Pairs]
      /\ threshold'[o] = pair
      /\ \A k \in Keys : asked'[o][k] = IF k \in K THEN Request(o) ELSE asked[o][k]
      /\ AskedEarlier'
  BY <1>1, <1>2, <1>3, Writes
<1>5. TypeOK'
  BY <1>2, <1>4, RequestFacts DEF IInv, TypeOK, Pairs
<1>6. SoleKept'
  <2> SUFFICES ASSUME NEW p \in Orgs, NEW k \in Keys, faults' = 0, posters' \subseteq {p}, asked'[p][k] # Absent
               PROVE  Kept(p, k)'
    BY DEF SoleKept
  <2>1. p = o /\ faults' = faults /\ faults = 0 /\ posters \subseteq {o}
    BY <1>2
  <2>2. pair[k] = asked'[o][k]
    <3>1. CASE k \in K
      BY <1>1, <1>2, <1>4, <3>1, PostPairFacts
    <3>2. CASE k \notin K
      <4>1. asked'[o][k] = asked[o][k] /\ threshold[o][k] = asked[o][k]
        BY <1>4, <2>1, <3>2 DEF IInv, SoleKept, Kept
      <4> QED BY <1>1, <1>2, <2>1, <3>2, <4>1, PostPairFacts
    <3> QED BY <3>1, <3>2
  <2> QED BY <1>1, <1>4, <2>1, <2>2 DEF Kept
<1>7. UrlsOwned' /\ EnabledHadUrl'
  BY <1>2 DEF IInv, UrlsOwned, EnabledHadUrl
<1> QED BY <1>4, <1>5, <1>6, <1>7 DEF IInv

-----------------------------------------------------------------------------
\* What writing a URL leaves true of the URLs, whether it is named, blanked or kept.
LEMMA WriteUrlFacts ==
    ASSUME IInv, NEW o \in Orgs, NEW u \in UrlChoices, posts < MaxPosts, WriteUrl(o, u)
    PROVE  /\ url' \in [Orgs -> Urls] /\ blanked' \subseteq Orgs /\ UrlsOwned'
           /\ u = "url" => url'[o] # Blank
           /\ \A p \in Orgs : url'[p] = Blank => url[p] = Blank \/ p \in blanked'
           /\ \A p \in Orgs : p \in blanked /\ url'[p] = Blank => p \in blanked'
<1>1. url \in [Orgs -> Urls] /\ blanked \subseteq Orgs
  BY DEF IInv, TypeOK, Urls
<1>2. /\ url' = IF u = "no" THEN url ELSE [url EXCEPT ![o] = UrlNamed(o, u)]
      /\ blanked' = Blanked(o, u)
  BY DEF WriteUrl
<1>3. Request(o) \in Urls /\ Request(o) # Blank /\ Request(o).by = o /\ Blank \in Urls
  BY RequestFacts, ValueFacts
<1> HIDE DEF Urls
<1>4. CASE u = "no"
  <2>1. url' = url /\ blanked' = blanked
    BY <1>2, <1>4 DEF Blanked
  <2> QED BY <1>1, <1>4, <2>1 DEF IInv, UrlsOwned
<1>5. CASE u = "url"
  <2>1. url' = [url EXCEPT ![o] = Request(o)] /\ blanked' = blanked \ {o}
    BY <1>2, <1>5 DEF Blanked, UrlNamed
  <2> QED BY <1>1, <1>3, <1>5, <2>1 DEF IInv, UrlsOwned
<1>6. CASE u = "blank"
  <2>1. url' = [url EXCEPT ![o] = Blank]
    BY <1>2, <1>6 DEF UrlNamed
  <2>2. blanked' = IF url[o] # Blank THEN blanked \cup {o} ELSE blanked
    BY <1>2, <1>6 DEF Blanked
  <2> QED BY <1>1, <1>3, <1>6, <2>1, <2>2 DEF IInv, UrlsOwned
<1> QED BY <1>4, <1>5, <1>6 DEF UrlChoices

LEMMA PostIntegrationsKeeps ==
    ASSUME IInv, NEW o \in Orgs, NEW u \in UrlChoices, NEW e \in {"no", "on", "off"}, PostIntegrations(o, u, e)
    PROVE  IInv'
<1>1. /\ posts < MaxPosts /\ posts' = posts + 1
      /\ e = "on" => u = "url"
      /\ WriteUrl(o, u) /\ WriteEnabled(o, e)
      /\ UNCHANGED <<threshold, asked, posters>>
  BY DEF PostIntegrations, Refused
<1>2. /\ url' \in [Orgs -> Urls] /\ blanked' \subseteq Orgs /\ UrlsOwned'
      /\ u = "url" => url'[o] # Blank
      /\ \A p \in Orgs : url'[p] = Blank => url[p] = Blank \/ p \in blanked'
      /\ \A p \in Orgs : p \in blanked /\ url'[p] = Blank => p \in blanked'
  BY <1>1, WriteUrlFacts
<1>3. store \in Config /\ file \in Config /\ faults \in 0..MaxFaults /\ url'[o] \in Value /\ Blank \in Value
  BY <1>2, ValueFacts DEF IInv, TypeOK, Urls
<1>4. \A v \in Value : /\ [store EXCEPT !.url = v] \in Config
                       /\ [store EXCEPT !.url = v].threshold = store.threshold
  <2>1. store.threshold \in Pairs
    BY <1>3 DEF Config, Pairs
  <2> QED BY <1>3, <2>1, ConfigFacts
<1>5. ShippedConfig \in Config
  BY ValueFacts DEF ShippedConfig, Config, Both, Urls
<1>6. /\ store' \in Config /\ file' \in Config
      /\ faults' \in 0..MaxFaults
      /\ faults' = 0 => faults = 0 /\ store'.threshold = store.threshold /\ file'.threshold = store.threshold
  <2>1. CASE Sound /\ StoreUpdate([store EXCEPT !.url = url'[o]])
    BY <1>3, <1>4, <2>1 DEF Sound, StoreUpdate
  <2>2. CASE Faulty /\ \/ StoreUpdate([store EXCEPT !.url = Blank])
                       \/ StoreUpdateUnsaved([store EXCEPT !.url = url'[o]])
                       \/ DieSaving
                       \/ DieBefore
    <3>1. faults' \in 0..MaxFaults /\ faults' # 0
      BY <1>3, <2>2, SettingsConstants DEF Faulty
    <3>2. store' \in Config /\ file' \in Config
      BY <1>3, <1>4, <1>5, <2>2 DEF StoreUpdate, StoreUpdateUnsaved, DieSaving, DieBefore
    <3> QED BY <3>1, <3>2
  <2> QED BY <2>1, <2>2 DEF PostIntegrations
<1>7. enabled' \in [Orgs -> BOOLEAN]
  <2>1. enabled \in [Orgs -> BOOLEAN]
    BY DEF IInv, TypeOK
  <2> QED BY <1>1, <2>1 DEF WriteEnabled
<1>8. TypeOK'
  BY <1>1, <1>2, <1>6, <1>7, RequestFacts DEF IInv, TypeOK, Urls
<1>9. AskedEarlier'
  <2> SUFFICES ASSUME NEW p \in Orgs, NEW k \in Keys, asked[p][k] # Absent
               PROVE  asked[p][k].by = p /\ asked[p][k].n <= posts'
    BY <1>1 DEF AskedEarlier
  <2>1. asked[p][k].by = p /\ asked[p][k].n <= posts /\ asked[p][k] \in Value
    BY DEF IInv, AskedEarlier, TypeOK
  <2> QED BY <1>1, <2>1, RequestFacts DEF Value, Absent, Shipped, Seeded
<1>10. SoleKept'
  BY <1>1, <1>6 DEF IInv, SoleKept, Kept
<1>11. EnabledHadUrl'
  <2> SUFFICES ASSUME NEW p \in Orgs, enabled'[p], url'[p] = Blank PROVE p \in blanked'
    BY DEF EnabledHadUrl
  <2>1. enabled[p]
    <3>1. CASE p = o
      <4>1. u # "url" /\ e # "on"
        BY <1>1, <1>2, <3>1
      <4>2. e = "no"
        <5>1. CASE e = "off"
          <6>1. enabled' = [enabled EXCEPT ![o] = (e = "on")]
            BY <1>1, <5>1 DEF WriteEnabled
          <6>2. ~enabled'[o]
            BY <5>1, <6>1 DEF IInv, TypeOK
          <6> QED BY <3>1, <6>2
        <5> QED BY <4>1, <5>1
      <4> QED BY <1>1, <4>2 DEF WriteEnabled
    <3>2. CASE p # o
      BY <1>1, <3>2 DEF WriteEnabled, IInv, TypeOK
    <3> QED BY <3>1, <3>2
  <2> QED BY <1>2, <2>1 DEF IInv, EnabledHadUrl
<1> QED BY <1>2, <1>8, <1>9, <1>10, <1>11 DEF IInv

-----------------------------------------------------------------------------
\* Earlier requests stay earlier while nothing is asked for.
LEMMA AskedStays ==
    ASSUME IInv, UNCHANGED asked, posts' \in Nat, posts' >= posts
    PROVE  AskedEarlier'
<1> SUFFICES ASSUME NEW p \in Orgs, NEW k \in Keys, asked[p][k] # Absent
             PROVE  asked[p][k].by = p /\ asked[p][k].n <= posts'
  BY DEF AskedEarlier
<1>1. asked[p][k].by = p /\ asked[p][k].n <= posts /\ asked[p][k] \in Value /\ posts \in Nat
  BY SettingsConstants DEF IInv, AskedEarlier, TypeOK
<1> QED BY <1>1 DEF Value, Absent, Shipped, Seeded

\* The pair that POST /api/settings writes is what it names and what the store holds.
LEMMA UpdatedFacts ==
    ASSUME IInv, NEW o \in Orgs, NEW K \in SUBSET Keys, NEW u \in UrlChoices, posts < MaxPosts
    PROVE  /\ Updated(o, K, u) \in Config /\ Updated(o, K, u).threshold \in Pairs
           /\ \A k \in Keys : Updated(o, K, u).threshold[k] = IF k \in K THEN Request(o) ELSE store.threshold[k]
<1> DEFINE pair == [k \in Keys |-> IF k \in K THEN Request(o) ELSE store.threshold[k]]
           at == IF u = "no" THEN store.url ELSE UrlNamed(o, u)
<1>1. store.threshold \in Pairs /\ store.url \in Value
  BY DEF IInv, TypeOK, Config, Pairs
<1>2. pair \in Pairs /\ \A k \in Keys : pair[k] = IF k \in K THEN Request(o) ELSE store.threshold[k]
  BY <1>1, RequestFacts DEF Pairs
<1>3. at \in Value
  BY <1>1, RequestFacts, ValueFacts DEF UrlNamed, Urls
<1>4. Updated(o, K, u) = [threshold |-> pair, url |-> at]
  BY DEF Updated
<1> HIDE DEF pair, at
<1> QED BY <1>2, <1>3, <1>4 DEF Config, Pairs

LEMMA PostSettingsDoes ==
    ASSUME IInv, NEW o \in Orgs, NEW K \in SUBSET Keys, NEW u \in UrlChoices, PostSettings(o, K, u)
    PROVE  /\ posts < MaxPosts /\ posts' = posts + 1 /\ UNCHANGED enabled
           /\ posters' = IF K = {} THEN posters ELSE posters \cup {o}
           /\ WriteUrl(o, u) \/ UNCHANGED <<url, blanked>>
           /\ \/ K # {} /\ WriteThresholds(o, K, Updated(o, K, u).threshold)
              \/ UNCHANGED <<threshold, asked>> /\ (K = {} \/ faults' # 0)
           /\ store' \in Config /\ file' \in Config /\ faults' \in 0..MaxFaults
           /\ faults' = 0 => /\ faults = 0 /\ store' = Updated(o, K, u) /\ file' = store'
<1>1. posts < MaxPosts /\ posts' = posts + 1 /\ UNCHANGED enabled
      /\ posters' = IF K = {} THEN posters ELSE posters \cup {o}
  BY DEF PostSettings
<1>2. /\ Updated(o, K, u) \in Config /\ ShippedConfig \in Config
      /\ store \in Config /\ file \in Config /\ faults \in 0..MaxFaults
  BY <1>1, UpdatedFacts, ValueFacts DEF IInv, TypeOK, ShippedConfig, Config, Both, Urls
<1>3. Faulty => faults' \in 0..MaxFaults /\ faults' # 0
  BY <1>2, SettingsConstants DEF Faulty
<1>4. SettingsThresholds(o, K, u) =>
        \/ K # {} /\ WriteThresholds(o, K, Updated(o, K, u).threshold)
        \/ UNCHANGED <<threshold, asked>> /\ K = {}
  BY DEF SettingsThresholds
<1>5. CASE Sound /\ StoreUpdate(Updated(o, K, u)) /\ WriteUrl(o, u) /\ SettingsThresholds(o, K, u)
  BY <1>1, <1>2, <1>4, <1>5 DEF Sound, StoreUpdate
<1>6. CASE Faulty /\ StoreUpdateUnsaved(Updated(o, K, u)) /\ WriteUrl(o, u) /\ SettingsThresholds(o, K, u)
  BY <1>1, <1>2, <1>3, <1>4, <1>6 DEF StoreUpdateUnsaved
<1>7. CASE Faulty /\ (StoreUpdate(Updated(o, K, u)) \/ DieSaving) /\ UNCHANGED <<threshold, url, asked, blanked>>
  BY <1>1, <1>2, <1>3, <1>7 DEF StoreUpdate, DieSaving
<1>8. CASE Faulty /\ StoreUpdate(Updated(o, K, u)) /\ WriteUrl(o, u) /\ UNCHANGED <<threshold, asked>>
  BY <1>1, <1>2, <1>3, <1>8 DEF StoreUpdate
<1> QED BY <1>5, <1>6, <1>7, <1>8 DEF PostSettings

LEMMA PostSettingsKeeps ==
    ASSUME IInv, NEW o \in Orgs, NEW K \in SUBSET Keys, NEW u \in UrlChoices, PostSettings(o, K, u)
    PROVE  IInv'
<1> DEFINE pair == Updated(o, K, u).threshold
<1>1. /\ posts < MaxPosts /\ posts' = posts + 1 /\ UNCHANGED enabled
      /\ posters' = IF K = {} THEN posters ELSE posters \cup {o}
      /\ WriteUrl(o, u) \/ UNCHANGED <<url, blanked>>
      /\ \/ K # {} /\ WriteThresholds(o, K, pair)
         \/ UNCHANGED <<threshold, asked>> /\ (K = {} \/ faults' # 0)
      /\ store' \in Config /\ file' \in Config /\ faults' \in 0..MaxFaults
      /\ faults' = 0 => /\ faults = 0 /\ store' = Updated(o, K, u) /\ file' = store'
  BY PostSettingsDoes
<1>2. /\ posts \in Nat /\ posts' \in 0..MaxPosts
      /\ pair \in Pairs /\ \A k \in Keys : pair[k] = IF k \in K THEN Request(o) ELSE store.threshold[k]
  BY <1>1, RequestFacts, UpdatedFacts
<1> HIDE DEF pair
<1>3. /\ url' \in [Orgs -> Urls] /\ blanked' \subseteq Orgs /\ UrlsOwned' /\ EnabledHadUrl'
  <2>1. CASE WriteUrl(o, u)
    BY <1>1, <2>1, WriteUrlFacts DEF IInv, EnabledHadUrl
  <2>2. CASE UNCHANGED <<url, blanked>>
    BY <1>1, <2>2 DEF IInv, EnabledHadUrl, UrlsOwned, TypeOK, Urls
  <2> QED BY <1>1, <2>1, <2>2
<1>4. CASE K # {} /\ WriteThresholds(o, K, pair)
  <2>1. /\ threshold' \in [Orgs -> Pairs] /\ asked' \in [Orgs -> Pairs]
        /\ threshold'[o] = pair
        /\ \A k \in Keys : asked'[o][k] = IF k \in K THEN Request(o) ELSE asked[o][k]
        /\ AskedEarlier'
    BY <1>1, <1>2, <1>4, Writes
  <2>2. posters' = posters \cup {o} /\ posters' \subseteq Orgs
    BY <1>1, <1>4 DEF IInv, TypeOK
  <2>3. TypeOK'
    BY <1>1, <1>2, <1>3, <2>1, <2>2 DEF IInv, TypeOK, Pairs, Urls
  <2>4. SoleKept'
    <3> SUFFICES ASSUME NEW p \in Orgs, NEW k \in Keys, faults' = 0, posters' \subseteq {p}, asked'[p][k] # Absent
                 PROVE  Kept(p, k)'
      BY DEF SoleKept
    <3>1. p = o /\ faults = 0 /\ posters \subseteq {o}
      BY <1>1, <2>2
    <3>2. pair[k] = asked'[o][k]
      <4>1. CASE k \in K
        BY <1>2, <2>1, <4>1
      <4>2. CASE k \notin K
        BY <1>2, <2>1, <3>1, <4>2 DEF IInv, SoleKept, Kept
      <4> QED BY <4>1, <4>2
    <3>3. store'.threshold = pair /\ file'.threshold = pair
      BY <1>1 DEF pair
    <3> QED BY <2>1, <3>1, <3>2, <3>3 DEF Kept
  <2> QED BY <1>3, <2>1, <2>3, <2>4 DEF IInv
<1>5. CASE UNCHANGED <<threshold, asked>> /\ (K = {} \/ faults' # 0)
  <2>1. posters' \subseteq Orgs
    BY <1>1 DEF IInv, TypeOK
  <2>2. TypeOK'
    BY <1>1, <1>2, <1>3, <1>5, <2>1 DEF IInv, TypeOK, Urls
  <2>3. AskedEarlier'
    BY <1>1, <1>2, <1>5, AskedStays
  <2>4. SoleKept'
    <3> SUFFICES ASSUME NEW p \in Orgs, NEW k \in Keys, faults' = 0, posters' \subseteq {p}, asked'[p][k] # Absent
                 PROVE  Kept(p, k)'
      BY DEF SoleKept
    <3>1. K = {} /\ posters' = posters /\ faults = 0 /\ store'.threshold = pair /\ file'.threshold = pair
      BY <1>1, <1>5 DEF pair
    <3>2. pair[k] = store.threshold[k]
      BY <1>2, <3>1
    <3> QED BY <1>5, <3>1, <3>2 DEF IInv, SoleKept, Kept
  <2> QED BY <1>3, <2>2, <2>3, <2>4 DEF IInv
<1> QED BY <1>1, <1>4, <1>5

LEMMA SeedKeeps == ASSUME IInv, NEW o \in Orgs, Seed(o) PROVE IInv'
<1>1. /\ threshold[o] = Both(Absent) /\ threshold' = [threshold EXCEPT ![o] = Both(Seeded)]
      /\ UNCHANGED <<url, enabled, store, file, posts, faults, asked, blanked, posters>>
  BY DEF Seed
<1>2. Both(Seeded) \in Pairs /\ threshold \in [Orgs -> Pairs]
  BY ValueFacts DEF Both, Pairs, IInv, TypeOK
<1>3. threshold' \in [Orgs -> Pairs] /\ \A p \in Orgs \ {o} : threshold'[p] = threshold[p]
  BY <1>1, <1>2
<1>4. TypeOK'
  BY <1>1, <1>3 DEF IInv, TypeOK, Pairs
<1>5. SoleKept'
  <2> SUFFICES ASSUME NEW p \in Orgs, NEW k \in Keys, faults = 0, posters \subseteq {p}, asked[p][k] # Absent
               PROVE  Kept(p, k)'
    BY <1>1 DEF SoleKept
  <2>1. Kept(p, k)
    BY DEF IInv, SoleKept
  <2>2. p # o
    BY <1>1, <2>1 DEF Kept, Both
  <2> QED BY <1>1, <1>3, <2>1, <2>2 DEF Kept
<1>6. AskedEarlier' /\ UrlsOwned' /\ EnabledHadUrl'
  BY <1>1 DEF IInv, AskedEarlier, UrlsOwned, EnabledHadUrl
<1> QED BY <1>4, <1>5, <1>6 DEF IInv

LEMMA InvStep == IInv /\ [Next]_vars => IInv'
<1> SUFFICES ASSUME IInv, [Next]_vars PROVE IInv'
  OBVIOUS
<1>1. CASE Restart
  BY <1>1 DEF Restart, rows, IInv, TypeOK, AskedEarlier, SoleKept, Kept, UrlsOwned, EnabledHadUrl
<1>2. CASE UNCHANGED vars
  BY <1>2 DEF vars, rows, IInv, TypeOK, AskedEarlier, SoleKept, Kept, UrlsOwned, EnabledHadUrl
<1> QED
  BY <1>1, <1>2, PostThresholdsKeeps, PostIntegrationsKeeps, PostSettingsKeeps, SeedKeeps DEF Next

LEMMA InvHolds == Spec => []IInv
  BY InvInit, InvStep, PTL DEF Spec

(***************************************************************************)
(* The rows, the store and its file have the types the code relies on.     *)
(***************************************************************************)
THEOREM SettingsTypes == Spec => []TypeOK
<1>1. IInv => TypeOK
  BY DEF IInv
<1> QED BY <1>1, InvHolds, PTL

(***************************************************************************)
(* The one organization that sets thresholds keeps what it asked for.      *)
(***************************************************************************)
THEOREM SettingsSoleOrganizationKept == Spec => []SoleOrganizationKept
<1>1. IInv => SoleOrganizationKept
  <2> SUFFICES ASSUME IInv, NEW o \in Orgs, faults = 0, posters \subseteq {o},
                      Absent \notin {asked[o][k] : k \in Keys}
               PROVE  threshold[o] = asked[o]
    BY DEF SoleOrganizationKept
  <2>1. threshold[o] \in Pairs /\ asked[o] \in Pairs
    BY DEF IInv, TypeOK, Pairs
  <2>2. \A k \in Keys : threshold[o][k] = asked[o][k]
    BY DEF IInv, SoleKept, Kept
  <2> QED BY <2>1, <2>2 DEF Pairs
<1> QED BY <1>1, InvHolds, PTL

(***************************************************************************)
(* The default organization's alerts reach another's channel only after it *)
(* blanked its own URL.                                                    *)
(***************************************************************************)
THEOREM SettingsChannelOwned == Spec => []ChannelOwned
<1>1. IInv => ChannelOwned
  <2> SUFFICES ASSUME IInv, Default \notin blanked PROVE ~Foreign(Default, Channel)
    BY DEF ChannelOwned
  <2>1. CASE ~enabled[Default]
    BY <2>1, ValueFacts DEF Channel, Foreign, Blank
  <2>2. CASE enabled[Default]
    <3>1. url[Default] # Blank /\ url[Default].by = Default
      BY <2>2, SettingsConstants DEF IInv, EnabledHadUrl, UrlsOwned
    <3> QED BY <2>2, <3>1 DEF Channel, Foreign
  <2> QED BY <2>1, <2>2
<1> QED BY <1>1, InvHolds, PTL

(***************************************************************************)
(* A threshold another organization chose comes in only from the store, in *)
(* a step that stores one the organization named, and never for that one.  *)
(***************************************************************************)
THEOREM SettingsForeignFromStore == Spec => ForeignFromStore
<1>1. ASSUME IInv, NEW o \in Orgs, NEW K \in SUBSET Keys, PostThresholds(o, K) PROVE ImportsFromStore
  <2>1. PICK pair \in PostPairs(o, K) : WriteThresholds(o, K, pair)
    BY <1>1, PostThresholdsDoes
  <2>2. posts < MaxPosts /\ posts' = posts + 1
    BY <1>1, PostThresholdsDoes
  <2>3. pair \in Pairs /\ (\A k \in K : pair[k] = Request(o))
        /\ \A k \in Keys \ K : pair[k] \in {threshold[o][k], Shipped}
    BY <1>1, <2>2, PostPairFacts
  <2>4. threshold'[o] = pair /\ \A p \in Orgs \ {o} : threshold'[p] = threshold[p]
    BY <1>1, <2>1, <2>2, <2>3, Writes
  <2>5. \A k \in Keys : threshold'[o][k] = threshold[o][k] \/ threshold'[o][k].by \in {o, NoOne}
    BY <1>1, <2>2, <2>3, <2>4, RequestFacts, ValueFacts
  <2> QED BY <2>4, <2>5 DEF ImportsFromStore, Imported, Foreign
<1>2. ASSUME IInv, NEW o \in Orgs, NEW K \in SUBSET Keys, NEW u \in UrlChoices, PostSettings(o, K, u)
      PROVE  ImportsFromStore
  <2> DEFINE pair == Updated(o, K, u).threshold
  <2>1. CASE UNCHANGED <<threshold, asked>>
    BY <2>1 DEF ImportsFromStore, Imported
  <2>2. CASE K # {} /\ WriteThresholds(o, K, pair)
    <3>1. posts < MaxPosts /\ posts' = posts + 1
      BY <1>2, PostSettingsDoes
    <3>2. pair \in Pairs /\ \A k \in Keys : pair[k] = IF k \in K THEN Request(o) ELSE store.threshold[k]
      BY <1>2, <3>1, UpdatedFacts
    <3> HIDE DEF pair
    <3>3. /\ threshold'[o] = pair
          /\ \A k \in Keys : asked'[o][k] = IF k \in K THEN Request(o) ELSE asked[o][k]
          /\ \A p \in Orgs \ {o} : threshold'[p] = threshold[p]
      BY <1>2, <2>2, <3>1, <3>2, Writes
    <3>4. asked'[o] # asked[o]
      BY <1>2, <2>2, <3>1, <3>3, RequestFacts
    <3>5. \A k \in K : ~Foreign(o, threshold'[o][k])
      BY <1>2, <3>1, <3>2, <3>3, RequestFacts DEF Foreign
    <3> QED BY <3>2, <3>3, <3>4, <3>5 DEF ImportsFromStore, Imported
  <2> QED BY <1>2, <2>1, <2>2, PostSettingsDoes
<1>3. ASSUME IInv, NEW o \in Orgs, Seed(o) PROVE ImportsFromStore
  <2>1. threshold'[o] = Both(Seeded) /\ \A p \in Orgs \ {o} : threshold'[p] = threshold[p]
    BY <1>3 DEF Seed, IInv, TypeOK
  <2>2. \A k \in Keys : threshold'[o][k].by = NoOne
    BY <2>1, ValueFacts DEF Both
  <2> QED BY <2>1, <2>2 DEF ImportsFromStore, Imported, Foreign
<1>4. UNCHANGED threshold => ImportsFromStore
  BY DEF ImportsFromStore, Imported
<1>5. IInv /\ [Next]_vars => [ImportsFromStore]_vars
  BY <1>1, <1>2, <1>3, <1>4 DEF Next, PostIntegrations, Restart, rows
<1> QED BY <1>5, InvHolds, PTL DEF Spec, ForeignFromStore
==============================================================================
