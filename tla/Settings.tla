------------------------------- MODULE Settings -------------------------------
(***************************************************************************)
(* Alert settings, kept twice: per organization in the table               *)
(* system_configs, and once for the whole process in the ConfigStore, a    *)
(* dictionary in memory with a file behind it.  Three endpoints write both *)
(* copies, each in its own order; the alert dispatcher reads the default   *)
(* organization's rows and falls back on the store.                        *)
(*                                                                         *)
(* A value is told by who chose it and in which request, which is all the  *)
(* properties need; the two chat channels are alike and one is modelled.   *)
(* The gateway serves one request at a time, so a request is one step, cut *)
(* short by a fault: a table or file that cannot be written, a read that   *)
(* fails and yields the defaults, or the death of the process.             *)
(***************************************************************************)
EXTENDS Naturals

CONSTANTS Orgs, Default,   \* organizations, and DEFAULT_ORGANIZATION_ID
          NoOne,           \* who chose a value that was shipped or seeded
          Keys,            \* the two thresholds, cpu and memory
          MaxPosts,        \* bound on the requests
          MaxFaults        \* bound on the faults

ASSUME SettingsConstants ==
    /\ Default \in Orgs /\ NoOne \notin Orgs
    /\ MaxPosts \in Nat /\ MaxFaults \in Nat

VARIABLES threshold,   \* system_configs: the two thresholds of each organization
          url,         \* its slack_webhook_url
          enabled,     \* its slack_enabled
          store,       \* ConfigStore._data: the thresholds and the URL
          file,        \* what the next process loads
          posts,       \* requests so far
          faults,      \* faults so far
          asked,       \* history: what each organization last had stored by name
          blanked,     \* history: who blanked its URL after it had one
          posters      \* history: who sent a threshold to the store

rows == <<threshold, url, enabled>>
vars == <<rows, store, file, posts, faults, asked, blanked, posters>>

\* "80" and "" of DEFAULT_CONFIG and DEFAULT_THRESHOLDS; the seed that Helm sets;
\* no row.
Shipped == [by |-> NoOne, n |-> 0]
Seeded == [by |-> NoOne, n |-> 1]
Absent == [by |-> NoOne, n |-> 2]
Blank == Shipped
Request(o) == [by |-> o, n |-> posts + 1]

Value == [by : Orgs, n : 1..MaxPosts] \cup {Shipped, Seeded, Absent}
Both(v) == [k \in Keys |-> v]
Config == [threshold : [Keys -> Value], url : Value]
ShippedConfig == [threshold |-> Both(Shipped), url |-> Blank]

Init ==
    /\ threshold = [o \in Orgs |-> Both(IF o = Default THEN Seeded ELSE Absent)]
    /\ url = [o \in Orgs |-> Blank]
    /\ enabled = [o \in Orgs |-> FALSE]
    /\ store = ShippedConfig /\ file = ShippedConfig
    /\ posts = 0 /\ faults = 0
    /\ asked = [o \in Orgs |-> Both(Absent)]
    /\ blanked = {} /\ posters = {}

-----------------------------------------------------------------------------
\* What may still go wrong: nothing, or one fault of the remaining ones.
Sound == UNCHANGED faults
Faulty == faults < MaxFaults /\ faults' = faults + 1

\* get_thresholds: a row that is missing reads as the default.
Read(o) == IF threshold[o] = Both(Absent) THEN Both(Shipped) ELSE threshold[o]

\* config_store.update: memory, then the file, whose errors are logged.
StoreUpdate(c) == store' = c /\ file' = c
StoreUpdateUnsaved(c) == store' = c /\ UNCHANGED file

\* The process dies while it writes the file, and the next one cannot parse what is
\* left and serves the defaults (a torn file is one that holds the defaults).
DieSaving == store' = ShippedConfig /\ file' = ShippedConfig

\* The process dies, and the next one loads the file.
DieBefore == store' = file /\ UNCHANGED file

\* update_thresholds: both rows of the organization, in one transaction.
Named(o, K) == [k \in Keys |-> IF k \in K THEN Request(o) ELSE asked[o][k]]
WriteThresholds(o, K, pair) ==
    /\ threshold' = [threshold EXCEPT ![o] = pair]
    /\ asked' = [asked EXCEPT ![o] = Named(o, K)]

\* POST /api/config/thresholds: a threshold the payload leaves out keeps the value
\* of the organization's row; the store follows the rows.
PairFromStore(o, K, current) ==
    [k \in Keys |-> IF k \in K THEN Request(o) ELSE store.threshold[k]]
Pair(o, K, current) == [k \in Keys |-> IF k \in K THEN Request(o) ELSE current[k]]

SyncCpuOnly(pair) ==
    LET k == CHOOSE k \in Keys : TRUE
    IN  [store EXCEPT !.threshold[k] = pair[k]]
Sync(pair) == [store EXCEPT !.threshold = pair]

PostThresholds(o, K) ==
    /\ posts < MaxPosts /\ posts' = posts + 1
    /\ posters' = posters \cup {o}
    /\ \/ /\ Sound
          /\ WriteThresholds(o, K, Pair(o, K, Read(o)))
          /\ StoreUpdate(Sync(Pair(o, K, Read(o))))
       \/ /\ Faulty                 \* the first read fails
          /\ WriteThresholds(o, K, Pair(o, K, Both(Shipped)))
          /\ StoreUpdate(Sync(Pair(o, K, Both(Shipped))))
       \/ /\ Faulty                 \* the read after the write, the file, the process
          /\ WriteThresholds(o, K, Pair(o, K, Read(o)))
          /\ \/ StoreUpdate(Sync(Both(Shipped)))
             \/ StoreUpdateUnsaved(Sync(Pair(o, K, Read(o))))
             \/ DieSaving
             \/ DieBefore
    /\ UNCHANGED <<url, enabled, blanked>>

-----------------------------------------------------------------------------
\* A payload names a URL ("url"), a blank one ("blank"), or none ("no").
UrlNamed(o, u) == IF u = "url" THEN Request(o) ELSE Blank
Blanked(o, u) == CASE u = "blank" /\ url[o] # Blank -> blanked \cup {o}
                   [] u = "url" -> blanked \ {o}
                   [] OTHER -> blanked

\* update_notification_config: the rows the payload names, in one transaction.
WriteUrl(o, u) ==
    /\ url' = IF u = "no" THEN url ELSE [url EXCEPT ![o] = UrlNamed(o, u)]
    /\ blanked' = Blanked(o, u)
WriteEnabled(o, e) ==
    enabled' = IF e = "no" THEN enabled ELSE [enabled EXCEPT ![o] = (e = "on")]

\* POST /api/config/integrations and /api/v1/settings/notifications: enabling asks
\* for a URL in the same payload; the store gets the URL of the organization's row.
RefusedNever(u, e) == FALSE
Refused(u, e) == e = "on" /\ u # "url"

PostIntegrations(o, u, e) ==
    /\ posts < MaxPosts /\ posts' = posts + 1
    /\ ~Refused(u, e)
    /\ WriteUrl(o, u) /\ WriteEnabled(o, e)
    /\ \/ Sound /\ StoreUpdate([store EXCEPT !.url = url'[o]])
       \/ /\ Faulty
          /\ \/ StoreUpdate([store EXCEPT !.url = Blank])
             \/ StoreUpdateUnsaved([store EXCEPT !.url = url'[o]])
             \/ DieSaving
             \/ DieBefore
    /\ UNCHANGED <<threshold, asked, posters>>

-----------------------------------------------------------------------------
\* POST /api/settings: the store first, then the URL's row, then both threshold rows
\* from the store, if the payload names either of them.
Updated(o, K, u) ==
    [threshold |-> [k \in Keys |-> IF k \in K THEN Request(o) ELSE store.threshold[k]],
     url |-> IF u = "no" THEN store.url ELSE UrlNamed(o, u)]

SettingsThresholds(o, K, u) ==
    IF K = {} THEN UNCHANGED <<threshold, asked>>
    ELSE WriteThresholds(o, K, Updated(o, K, u).threshold)

PostSettings(o, K, u) ==
    /\ posts < MaxPosts /\ posts' = posts + 1
    /\ posters' = IF K = {} THEN posters ELSE posters \cup {o}
    /\ \/ /\ Sound
          /\ StoreUpdate(Updated(o, K, u))
          /\ WriteUrl(o, u) /\ SettingsThresholds(o, K, u)
       \/ /\ Faulty                 \* the file
          /\ StoreUpdateUnsaved(Updated(o, K, u))
          /\ WriteUrl(o, u) /\ SettingsThresholds(o, K, u)
       \/ /\ Faulty                 \* the URL's row, or the process
          /\ StoreUpdate(Updated(o, K, u)) \/ DieSaving
          /\ UNCHANGED <<threshold, url, asked, blanked>>
       \/ /\ Faulty                 \* the threshold rows
          /\ StoreUpdate(Updated(o, K, u))
          /\ WriteUrl(o, u)
          /\ UNCHANGED <<threshold, asked>>
    /\ UNCHANGED enabled

\* The callback of a sign-in seeds what its organization has no row for.
Seed(o) ==
    /\ threshold[o] = Both(Absent)
    /\ threshold' = [threshold EXCEPT ![o] = Both(Seeded)]
    /\ UNCHANGED <<url, enabled, store, file, posts, faults, asked, blanked, posters>>

\* A new process loads the file.
Restart ==
    /\ store' = file
    /\ UNCHANGED <<rows, file, posts, faults, asked, blanked, posters>>

UrlChoices == {"no", "blank", "url"}
Next ==
    \/ \E o \in Orgs, K \in SUBSET Keys : PostThresholds(o, K)
    \/ \E o \in Orgs, u \in UrlChoices, e \in {"no", "on", "off"} : PostIntegrations(o, u, e)
    \/ \E o \in Orgs, K \in SUBSET Keys, u \in UrlChoices : PostSettings(o, K, u)
    \/ \E o \in Orgs : Seed(o)
    \/ Restart

Spec == Init /\ [][Next]_vars

-----------------------------------------------------------------------------
TypeOK ==
    /\ threshold \in [Orgs -> [Keys -> Value]]
    /\ url \in [Orgs -> Value \ {Seeded, Absent}]
    /\ enabled \in [Orgs -> BOOLEAN]
    /\ store \in Config /\ file \in Config
    /\ posts \in 0..MaxPosts /\ faults \in 0..MaxFaults
    /\ asked \in [Orgs -> [Keys -> Value]]
    /\ blanked \subseteq Orgs /\ posters \subseteq Orgs

(***************************************************************************)
(* While one organization alone sets thresholds and nothing fails, its     *)
(* rows hold what it last asked for by name once it has named both, over   *)
(* either endpoint, restarts and sign-ins: the store it is completed from  *)
(* (app.py:1559-1560) follows the rows (app.py:1430).                      *)
(***************************************************************************)
SoleOrganizationKept ==
    \A o \in Orgs :
        faults = 0 /\ posters \subseteq {o} /\ Absent \notin {asked[o][k] : k \in Keys}
            => threshold[o] = asked[o]

(***************************************************************************)
(* A row takes a value another organization chose only in a step that      *)
(* stores a threshold the organization named, and never for the one it     *)
(* named; the endpoint of the thresholds alone never imports one           *)
(* (app.py:1419-1430, 1546-1561).                                          *)
(***************************************************************************)
Foreign(o, v) == v.by \notin {o, NoOne}
Imported(o) ==
    {k \in Keys : Foreign(o, threshold'[o][k]) /\ threshold'[o][k] # threshold[o][k]}
ImportsFromStore ==
    \A o \in Orgs : Imported(o) # {} =>
        /\ asked'[o] # asked[o]
        /\ \A k \in Imported(o) :
              asked'[o][k] = asked[o][k] /\ threshold'[o][k] = store.threshold[k]
ForeignFromStore == [][ImportsFromStore]_vars

(***************************************************************************)
(* The alerts of the default organization go to another organization's     *)
(* channel only after it blanked its own URL and left Slack enabled: the   *)
(* dispatcher then takes the store's URL, which is whoever saved one last  *)
(* (alert_manager.py:334-349, app.py:1464-1465).                           *)
(***************************************************************************)
Channel ==
    CASE ~enabled[Default] -> Blank
      [] enabled[Default] /\ url[Default] # Blank -> url[Default]
      [] OTHER -> store.url
ChannelOwned == Foreign(Default, Channel) => Default \in blanked

(***************************************************************************)
(* "Resolve corporate organization scope for strict data isolation"        *)
(* (app.py:618): an organization's thresholds are its own choice or the    *)
(* defaults.                                                               *)
(***************************************************************************)
OwnThresholds == \A o \in Orgs, k \in Keys : ~Foreign(o, threshold[o][k])
==============================================================================
