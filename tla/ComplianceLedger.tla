--------------------------- MODULE ComplianceLedger ---------------------------
(***************************************************************************)
(* The compliance vault: every audit record of an organization carries the *)
(* hash of the record before it.  A writer is a server process: its gateway*)
(* appends one record at a time, reading the head of the chain over one    *)
(* connection and inserting over another, and either may fail.  Two        *)
(* processes share the database while a deployment rolls.                  *)
(*                                                                         *)
(* A hash is the block it is computed from: SHA-256 is taken as injective. *)
(***************************************************************************)
EXTENDS Integers, Sequences, FiniteSets

CONSTANTS Writers,   \* server processes on one database
          Orgs,      \* organizations
          Payloads,  \* what a record says: action, costs, metadata, second
          MaxRows    \* bound: the vault takes no more rows

ASSUME LedgerConstants == MaxRows \in Nat

VARIABLES vault,     \* compliance_ledger_vault, in the order of id; by, which writer
                     \* inserted the row, is history
          draft      \* the record each writer is appending

vars == <<vault, draft>>

Genesis == [genesis |-> 0]
NoDraft == [draft |-> 0]

\* compute_immutable_block_sha256
Block(o, p, prev) == [org |-> o, payload |-> p, prev |-> prev]

Rows(o) == {n \in DOMAIN vault : vault[n].org = o}
Latest(o) == {n \in Rows(o) : \A m \in Rows(o) : m <= n}
Oldest(o) == {n \in Rows(o) : \A m \in Rows(o) : n <= m}

Init == vault = <<>> /\ draft = [w \in Writers |-> NoDraft]

\* _fetch_latest_block_hash: a chain without rows starts at the genesis block, and
\* so does one that sqlite fails to read.
ReadOldest(w, o, p) ==
    /\ draft[w] = NoDraft /\ Len(vault) < MaxRows
    /\ \E head \in {vault[n].hash : n \in Oldest(o)} \cup {Genesis} :
         /\ head = Genesis => Rows(o) = {}
         /\ draft' = [draft EXCEPT ![w] = Block(o, p, head)]
    /\ UNCHANGED vault
ReadAnyHead(w, o, p) ==
    /\ draft[w] = NoDraft /\ Len(vault) < MaxRows
    /\ \E head \in {vault[n].hash : n \in DOMAIN vault} \cup {Genesis} :
         draft' = [draft EXCEPT ![w] = Block(o, p, head)]
    /\ UNCHANGED vault
ReadHead(w, o, p) ==
    /\ draft[w] = NoDraft /\ Len(vault) < MaxRows
    /\ \E head \in {vault[n].hash : n \in Latest(o)} \cup {Genesis} :
         draft' = [draft EXCEPT ![w] = Block(o, p, head)]
    /\ UNCHANGED vault

\* The insert commits the row.
Insert(w) ==
    /\ draft[w] # NoDraft /\ Len(vault) < MaxRows
    /\ vault' = Append(vault, [org |-> draft[w].org, prev |-> draft[w].prev, hash |-> draft[w],
                            by |-> w])
    /\ draft' = [draft EXCEPT ![w] = NoDraft]

\* The insert fails, or the process dies before it.
Abandon(w) ==
    /\ draft[w] # NoDraft
    /\ draft' = [draft EXCEPT ![w] = NoDraft]
    /\ UNCHANGED vault

Next == \E w \in Writers :
            (\E o \in Orgs, p \in Payloads : ReadHead(w, o, p)) \/ Insert(w) \/ Abandon(w)
Spec == Init /\ [][Next]_vars

-----------------------------------------------------------------------------
\* fetch_compliance_ledger: the rows of an organization, the oldest first, up to a
\* limit.
ListingNewest(o, limit) ==
    {n \in Rows(o) : Cardinality({m \in Rows(o) : m > n}) < limit}
Listing(o, limit) ==
    {n \in Rows(o) : Cardinality({m \in Rows(o) : m < n}) < limit}

-----------------------------------------------------------------------------
Linked(m, n) == m < n /\ vault[m].org = vault[n].org /\ vault[n].prev = vault[m].hash

TypeOK ==
    /\ \A n \in DOMAIN vault :
         /\ vault[n].org \in Orgs /\ vault[n].by \in Writers
         /\ \E p \in Payloads : vault[n].hash = Block(vault[n].org, p, vault[n].prev)
    /\ DOMAIN draft = Writers
    /\ \A w \in Writers : draft[w] # NoDraft =>
         \E o \in Orgs, p \in Payloads : draft[w] = Block(o, p, draft[w].prev)

(***************************************************************************)
(* A record that claims a predecessor follows one of its organization in   *)
(* the vault, whatever fails and however many processes append: a chain    *)
(* may fork, it never dangles (compliance_ledger.py:75-93, 115-158).       *)
(***************************************************************************)
ChainsBackward ==
    \A n \in DOMAIN vault : vault[n].prev = Genesis \/ \E m \in DOMAIN vault : Linked(m, n)

(***************************************************************************)
(* Every listing can be verified on its own: the predecessor of a listed   *)
(* record is listed too, at any limit (compliance_ledger.py:190-208).      *)
(***************************************************************************)
ListingsVerify ==
    \A o \in Orgs : \A limit \in 1..MaxRows : \A n \in Listing(o, limit) :
        vault[n].prev = Genesis \/ \E m \in Listing(o, limit) : Linked(m, n)

(***************************************************************************)
(* Only two processes at once can fork a chain behind its genesis block:   *)
(* between a record and the predecessor it claims there is no record of    *)
(* its own writer and organization, although the writer reads the head and *)
(* inserts separately (compliance_ledger.py:115, 134).                     *)
(***************************************************************************)
ForksNeedTwo ==
    \A n \in DOMAIN vault :
        \/ vault[n].prev = Genesis
        \/ \E m \in DOMAIN vault :
              /\ Linked(m, n)
              /\ \A k \in Rows(vault[n].org) : m < k /\ k < n => vault[k].by # vault[n].by

(***************************************************************************)
(* "Hash the canonical record payload chained to the prior vault block"    *)
(* (compliance_ledger.py:62): a record that has earlier ones of its        *)
(* organization is linked to one of them.                                  *)
(***************************************************************************)
ChainedToPrior ==
    \A n \in DOMAIN vault :
        (\E k \in Rows(vault[n].org) : k < n) => \E m \in DOMAIN vault : Linked(m, n)
=============================================================================
