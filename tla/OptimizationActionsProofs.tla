---------------------- MODULE OptimizationActionsProofs ----------------------
(***************************************************************************)
(* For any number of processes, organizations and records: the vault is    *)
(* well formed, no chain dangles, every listing can be verified, and only  *)
(* two processes at once can fork a chain behind its genesis block.        *)
(*                                                                         *)
(* For any number of requests and deployments besides: the endpoints drive *)
(* the ledger as a ledger may be driven, so that its theorems hold of      *)
(* them; the audit trail is complete; a reduction of a named deployment    *)
(* asks for fewer replicas; the advised number is the nearest.             *)
(***************************************************************************)
EXTENDS OptimizationActions, FiniteSetTheorems, TLAPS

-----------------------------------------------------------------------------
(* The ledger. *)

\* The vault is a sequence; what its hashes are made of does not matter here.
IsVault == \E S : vault \in Seq(S)

LEMMA VaultInit == Init => IsVault
<1> SUFFICES ASSUME Init PROVE vault \in Seq({})
  BY DEF IsVault
<1> QED BY DEF Init

\* What an insert does to the vault: one row more, after the others.
LEMMA InsertAppends ==
    ASSUME IsVault, NEW w \in Writers, Insert(w)
    PROVE  /\ IsVault'
           /\ Len(vault) \in Nat /\ DOMAIN vault = 1..Len(vault)
           /\ DOMAIN vault' = 1..(Len(vault) + 1)
           /\ \A n \in DOMAIN vault : vault'[n] = vault[n]
           /\ vault'[Len(vault) + 1] =
                [org |-> draft[w].org, prev |-> draft[w].prev, hash |-> draft[w],
                 by |-> w]
<1> DEFINE row == [org |-> draft[w].org, prev |-> draft[w].prev, hash |-> draft[w],
                 by |-> w]
<1>1. PICK S : vault \in Seq(S)
  BY DEF IsVault
<1>2. vault \in Seq(S \cup {row})
  BY <1>1
<1>3. vault' = Append(vault, row)
  BY DEF Insert
<1> HIDE DEF row
<1>4. vault' \in Seq(S \cup {row})
  BY <1>2, <1>3
<1>5. /\ Len(vault) \in Nat /\ DOMAIN vault = 1..Len(vault)
      /\ DOMAIN vault' = 1..(Len(vault) + 1)
      /\ \A n \in DOMAIN vault : vault'[n] = vault[n]
      /\ vault'[Len(vault) + 1] = row
  BY <1>2, <1>3
<1> QED BY <1>4, <1>5 DEF row, IsVault

Types == TypeOK /\ IsVault

LEMMA TypeInit == Init => Types
  BY VaultInit DEF Init, Types, TypeOK

LEMMA TypeStep == Types /\ [Next]_vars => Types'
<1> SUFFICES ASSUME Types, [Next]_vars PROVE Types'
  OBVIOUS
<1> USE DEF Types
<1>1. ASSUME NEW w \in Writers, NEW o \in Orgs, NEW p \in Payloads, ReadHead(w, o, p)
      PROVE  Types'
  <2>1. PICK head : UNCHANGED vault /\ draft' = [draft EXCEPT ![w] = Block(o, p, head)]
    BY <1>1 DEF ReadHead
  <2>2. TypeOK'
    BY <2>1 DEF TypeOK, Block
  <2> QED BY <2>1, <2>2 DEF IsVault
<1>2. ASSUME NEW w \in Writers, Insert(w) PROVE Types'
  <2>1. draft[w] # NoDraft
    BY <1>2 DEF Insert
  <2>2. PICK o \in Orgs, p \in Payloads :
          draft[w].org = o /\ draft[w] = Block(draft[w].org, p, draft[w].prev)
    <3>1. PICK o \in Orgs, p \in Payloads : draft[w] = Block(o, p, draft[w].prev)
      BY <2>1 DEF TypeOK
    <3>2. draft[w].org = o
      BY <3>1 DEF Block
    <3> QED BY <3>1, <3>2
  <2>3. \A n \in DOMAIN vault' : n \in DOMAIN vault \/ n = Len(vault) + 1
    <3>1. /\ Len(vault) \in Nat /\ DOMAIN vault = 1..Len(vault)
          /\ DOMAIN vault' = 1..(Len(vault) + 1)
      BY <1>2, InsertAppends
    <3> QED BY <3>1
  <2>4. ASSUME NEW n \in DOMAIN vault'
        PROVE  /\ vault'[n].org \in Orgs /\ vault'[n].by \in Writers
               /\ \E q \in Payloads : vault'[n].hash = Block(vault'[n].org, q, vault'[n].prev)
    <3>1. CASE n \in DOMAIN vault
      BY <1>2, <3>1, InsertAppends DEF TypeOK
    <3>2. CASE n = Len(vault) + 1
      <4>1. vault'[n] = [org |-> draft[w].org, prev |-> draft[w].prev, hash |-> draft[w],
                 by |-> w]
        BY <1>2, <3>2, InsertAppends
      <4>2. /\ vault'[n].org = draft[w].org /\ vault'[n].prev = draft[w].prev
            /\ vault'[n].hash = draft[w] /\ vault'[n].by = w
        BY <4>1
      <4> QED BY <2>2, <4>2
    <3> QED BY <2>3, <3>1, <3>2
  <2>5. draft' = [draft EXCEPT ![w] = NoDraft]
    BY <1>2 DEF Insert
  <2>6. TypeOK'
    BY <2>4, <2>5 DEF TypeOK
  <2> QED BY <1>2, <2>6, InsertAppends
<1>3. ASSUME NEW w \in Writers, Abandon(w) PROVE Types'
  BY <1>3 DEF Abandon, TypeOK, IsVault
<1>4. CASE UNCHANGED vars
  BY <1>4 DEF vars, TypeOK, IsVault
<1> QED BY <1>1, <1>2, <1>3, <1>4 DEF Next

(* The rows and the drafts are blocks of the organization they are filed under. *)
THEOREM LedgerTypes == Spec => []TypeOK
<1>1. Types => TypeOK
  BY DEF Types
<1> QED BY <1>1, TypeInit, TypeStep, PTL DEF Spec

-----------------------------------------------------------------------------
(***************************************************************************)
(* Why no chain dangles: the head a draft holds is the hash of a row that  *)
(* is in the vault for good.                                               *)
(***************************************************************************)
DraftsFollow ==
    \A w \in Writers : draft[w] # NoDraft =>
        \/ draft[w].prev = Genesis
        \/ \E m \in Rows(draft[w].org) : vault[m].hash = draft[w].prev

BInv == Types /\ DraftsFollow /\ ChainsBackward

LEMMA BackwardInit == Init => BInv
  BY TypeInit DEF Init, BInv, DraftsFollow, ChainsBackward

LEMMA BackwardStep == BInv /\ [Next]_vars => BInv'
<1> SUFFICES ASSUME BInv, [Next]_vars PROVE DraftsFollow' /\ ChainsBackward'
  BY TypeStep DEF BInv
<1> USE DEF BInv
<1>1. ASSUME NEW w \in Writers, NEW o \in Orgs, NEW p \in Payloads, ReadHead(w, o, p)
      PROVE  DraftsFollow' /\ ChainsBackward'
  <2>1. PICK head \in {vault[n].hash : n \in Latest(o)} \cup {Genesis} :
          UNCHANGED vault /\ draft' = [draft EXCEPT ![w] = Block(o, p, head)]
    BY <1>1 DEF ReadHead
  <2>2. head = Genesis \/ \E m \in Rows(o) : vault[m].hash = head
    BY DEF Latest
  <2>3. DraftsFollow'
    BY <2>1, <2>2 DEF DraftsFollow, Block, Rows, Types, TypeOK
  <2> QED BY <2>1, <2>3 DEF ChainsBackward, Linked
<1>2. ASSUME NEW w \in Writers, Insert(w) PROVE DraftsFollow' /\ ChainsBackward'
  <2>1. /\ Len(vault) \in Nat /\ DOMAIN vault = 1..Len(vault)
        /\ DOMAIN vault' = 1..(Len(vault) + 1)
        /\ \A n \in DOMAIN vault : vault'[n] = vault[n]
        /\ vault'[Len(vault) + 1] =
             [org |-> draft[w].org, prev |-> draft[w].prev, hash |-> draft[w],
                 by |-> w]
        /\ draft' = [draft EXCEPT ![w] = NoDraft] /\ draft[w] # NoDraft
    BY <1>2, InsertAppends DEF Insert, Types
  <2>2. DraftsFollow'
    BY <2>1 DEF DraftsFollow, Rows, Types, TypeOK
  <2>3. ASSUME NEW n \in DOMAIN vault'
        PROVE  vault'[n].prev = Genesis \/ \E m \in DOMAIN vault' : Linked(m, n)'
    <3>1. CASE n \in DOMAIN vault
      BY <2>1, <3>1 DEF ChainsBackward, Linked
    <3>2. CASE n = Len(vault) + 1
      BY <2>1, <3>2 DEF DraftsFollow, Rows, Linked
    <3> QED BY <2>1, <3>1, <3>2
  <2> QED BY <2>2, <2>3 DEF ChainsBackward
<1>3. ASSUME NEW w \in Writers, Abandon(w) PROVE DraftsFollow' /\ ChainsBackward'
  BY <1>3 DEF Abandon, DraftsFollow, ChainsBackward, Linked, Rows, Types, TypeOK
<1>4. CASE UNCHANGED vars
  BY <1>4 DEF vars, DraftsFollow, ChainsBackward, Linked, Rows
<1> QED BY <1>1, <1>2, <1>3, <1>4 DEF Next

(* Whatever fails and however many processes append, no chain dangles. *)
THEOREM LedgerChainsBackward == Spec => []ChainsBackward
<1>1. BInv => ChainsBackward
  BY DEF BInv
<1> QED BY <1>1, BackwardInit, BackwardStep, PTL DEF Spec

-----------------------------------------------------------------------------
\* A listing is closed: with a row, every earlier one of its organization.
LEMMA ListingIsPrefix ==
    ASSUME IsVault, NEW o \in Orgs, NEW limit \in Nat,
           NEW n \in Listing(o, limit), NEW m \in Rows(o), m < n
    PROVE  m \in Listing(o, limit)
<1> DEFINE Earlier(k) == {i \in Rows(o) : i < k}
<1>1. PICK S : vault \in Seq(S)
  BY DEF IsVault
<1>2. Len(vault) \in Nat /\ Rows(o) \subseteq 1..Len(vault)
  BY <1>1 DEF Rows
<1>3. n \in Rows(o) /\ Cardinality(Earlier(n)) < limit
  BY DEF Listing
<1>4. Earlier(m) \subseteq Earlier(n)
  BY <1>2, <1>3
<1>5. IsFiniteSet(1..Len(vault))
  BY <1>2, FS_Interval
<1>6. IsFiniteSet(Earlier(n))
  BY <1>2, <1>5, FS_Subset
<1>7. Cardinality(Earlier(m)) \in Nat /\ Cardinality(Earlier(n)) \in Nat
      /\ Cardinality(Earlier(m)) <= Cardinality(Earlier(n))
  BY <1>4, <1>6, FS_Subset, FS_CardinalityType
<1>8. Cardinality(Earlier(m)) < limit
  BY <1>3, <1>7
<1> QED BY <1>8 DEF Listing

(* Every listing can be verified on its own, at any limit. *)
THEOREM LedgerListingsVerify == Spec => []ListingsVerify
<1>1. BInv => ListingsVerify
  <2> SUFFICES ASSUME BInv, NEW o \in Orgs, NEW limit \in 1..MaxRows, NEW n \in Listing(o, limit),
                      vault[n].prev # Genesis
               PROVE  \E m \in Listing(o, limit) : Linked(m, n)
    BY DEF ListingsVerify
  <2>1. n \in DOMAIN vault /\ vault[n].org = o
    BY DEF Listing, Rows
  <2>2. PICK m \in DOMAIN vault : Linked(m, n)
    BY <2>1 DEF BInv, ChainsBackward
  <2>3. m \in Rows(o) /\ m < n
    BY <2>1, <2>2 DEF Linked, Rows
  <2>4. m \in Listing(o, limit)
    BY <2>3, ListingIsPrefix, LedgerConstants DEF BInv, Types
  <2> QED BY <2>2, <2>4
<1> QED BY <1>1, BackwardInit, BackwardStep, PTL DEF Spec

-----------------------------------------------------------------------------
(***************************************************************************)
(* Why a writer alone does not fork a chain: while its draft is in hand,   *)
(* it inserts nothing after the row the draft follows.                     *)
(***************************************************************************)
NothingOfSince(w, o, m) == \A k \in Rows(o) : m < k => vault[k].by # w

DraftsFollowOwn ==
    \A w \in Writers : draft[w] # NoDraft =>
        \/ draft[w].prev = Genesis
        \/ \E m \in Rows(draft[w].org) :
              vault[m].hash = draft[w].prev /\ NothingOfSince(w, draft[w].org, m)

FInv == Types /\ DraftsFollowOwn /\ ForksNeedTwo

LEMMA ForksInit == Init => FInv
  BY TypeInit DEF Init, FInv, DraftsFollowOwn, ForksNeedTwo

LEMMA ForksStep == FInv /\ [Next]_vars => FInv'
<1> SUFFICES ASSUME FInv, [Next]_vars PROVE DraftsFollowOwn' /\ ForksNeedTwo'
  BY TypeStep DEF FInv
<1> USE DEF FInv
<1>1. ASSUME NEW w \in Writers, NEW o \in Orgs, NEW p \in Payloads, ReadHead(w, o, p)
      PROVE  DraftsFollowOwn' /\ ForksNeedTwo'
  <2>1. PICK head \in {vault[n].hash : n \in Latest(o)} \cup {Genesis} :
          UNCHANGED vault /\ draft' = [draft EXCEPT ![w] = Block(o, p, head)]
    BY <1>1 DEF ReadHead
  <2>2. head = Genesis \/ \E m \in Rows(o) : vault[m].hash = head /\ NothingOfSince(w, o, m)
    <3> SUFFICES ASSUME head # Genesis PROVE \E m \in Rows(o) :
                        vault[m].hash = head /\ NothingOfSince(w, o, m)
      OBVIOUS
    <3>1. PICK m \in Latest(o) : vault[m].hash = head
      BY <2>1
    <3>2. PICK S : vault \in Seq(S)
      BY DEF Types, IsVault
    <3>3. Rows(o) \subseteq Int
      BY <3>2 DEF Rows
    <3>4. NothingOfSince(w, o, m)
      BY <3>1, <3>3 DEF Latest, NothingOfSince
    <3> QED BY <3>1, <3>4 DEF Latest
  <2>3. DraftsFollowOwn'
    BY <2>1, <2>2 DEF DraftsFollowOwn, NothingOfSince, Block, Rows, Types, TypeOK
  <2> QED BY <2>1, <2>3 DEF ForksNeedTwo, Linked, Rows
<1>2. ASSUME NEW w \in Writers, Insert(w) PROVE DraftsFollowOwn' /\ ForksNeedTwo'
  <2>1. /\ Len(vault) \in Nat /\ DOMAIN vault = 1..Len(vault)
        /\ DOMAIN vault' = 1..(Len(vault) + 1)
        /\ \A n \in DOMAIN vault : vault'[n] = vault[n]
        /\ vault'[Len(vault) + 1] =
             [org |-> draft[w].org, prev |-> draft[w].prev, hash |-> draft[w], by |-> w]
        /\ draft' = [draft EXCEPT ![w] = NoDraft] /\ draft[w] # NoDraft
    BY <1>2, InsertAppends DEF Insert, Types
  <2>2. ASSUME NEW v \in Writers, draft'[v] # NoDraft, draft'[v].prev # Genesis
        PROVE  \E m \in Rows(draft[v].org)' :
                 vault'[m].hash = draft'[v].prev /\ NothingOfSince(v, draft[v].org, m)'
    <3>1. v # w /\ draft'[v] = draft[v]
      BY <2>1, <2>2 DEF Types, TypeOK
    <3>2. PICK m \in Rows(draft[v].org) :
            vault[m].hash = draft[v].prev /\ NothingOfSince(v, draft[v].org, m)
      BY <2>2, <3>1 DEF DraftsFollowOwn
    <3>3. NothingOfSince(v, draft[v].org, m)'
      BY <2>1, <3>1, <3>2 DEF NothingOfSince, Rows
    <3> QED BY <2>1, <3>1, <3>2, <3>3 DEF Rows
  <2>3. ASSUME NEW n \in DOMAIN vault', vault'[n].prev # Genesis
        PROVE  \E m \in DOMAIN vault' :
                 /\ Linked(m, n)'
                 /\ \A k \in Rows(vault[n].org)' : m < k /\ k < n => vault'[k].by # vault'[n].by
    <3>1. CASE n \in DOMAIN vault
      <4>1. PICK m \in DOMAIN vault :
              /\ Linked(m, n)
              /\ \A k \in Rows(vault[n].org) : m < k /\ k < n => vault[k].by # vault[n].by
        BY <2>1, <2>3, <3>1 DEF ForksNeedTwo
      <4>2. \A k \in Rows(vault[n].org)' : m < k /\ k < n => vault'[k].by # vault'[n].by
        BY <2>1, <3>1, <4>1 DEF Rows
      <4> QED BY <2>1, <3>1, <4>1, <4>2 DEF Linked
    <3>2. CASE n = Len(vault) + 1
      <4>1. PICK m \in Rows(draft[w].org) :
              vault[m].hash = draft[w].prev /\ NothingOfSince(w, draft[w].org, m)
        BY <2>1, <2>3, <3>2 DEF DraftsFollowOwn
      <4>2. m \in DOMAIN vault /\ vault[m].org = draft[w].org
        BY DEF Rows
      <4>3. \A k \in Rows(vault[n].org)' : m < k /\ k < n => vault'[k].by # vault'[n].by
        BY <2>1, <3>2, <4>1 DEF NothingOfSince, Rows
      <4> QED BY <2>1, <3>2, <4>1, <4>2, <4>3 DEF Linked
    <3> QED BY <2>1, <3>1, <3>2
  <2>4. DraftsFollowOwn'
    BY <2>2 DEF DraftsFollowOwn
  <2> QED BY <2>3, <2>4 DEF ForksNeedTwo
<1>3. ASSUME NEW w \in Writers, Abandon(w) PROVE DraftsFollowOwn' /\ ForksNeedTwo'
  BY <1>3 DEF Abandon, DraftsFollowOwn, NothingOfSince, ForksNeedTwo, Linked, Rows, Types, TypeOK
<1>4. CASE UNCHANGED vars
  BY <1>4 DEF vars, DraftsFollowOwn, NothingOfSince, ForksNeedTwo, Linked, Rows
<1> QED BY <1>1, <1>2, <1>3, <1>4 DEF Next

(* A chain forks behind its genesis block only between two processes. *)
THEOREM LedgerForksNeedTwo == Spec => []ForksNeedTwo
<1>1. FInv => ForksNeedTwo
  BY DEF FInv
<1> QED BY <1>1, ForksInit, ForksStep, PTL DEF Spec

-----------------------------------------------------------------------------
(* Advice. *)

\* Rounding is off by half at most.
LEMMA RoundedClose ==
    ASSUME NEW n \in Nat, NEW d \in Nat \ {0}
    PROVE  /\ Rounded(n, d) \in Nat
           /\ 2 * (d * Rounded(n, d) - n) <= d
           /\ 2 * (n - d * Rounded(n, d)) <= d
<1> DEFINE q == n \div d
           r == n % d
<1>1. q \in Nat /\ r \in 0..(d - 1) /\ n = d * q + r
  OBVIOUS
<1>2. d * (q + 1) = d * q + d
  BY <1>1
<1>3. Rounded(n, d) = IF 2 * r > d \/ (2 * r = d /\ q % 2 = 1) THEN q + 1 ELSE q
  BY DEF Rounded
<1> HIDE DEF q, r
<1>4. CASE 2 * r > d \/ (2 * r = d /\ q % 2 = 1)
  BY <1>1, <1>2, <1>3, <1>4
<1>5. CASE ~(2 * r > d \/ (2 * r = d /\ q % 2 = 1))
  BY <1>1, <1>2, <1>3, <1>5
<1> QED BY <1>4, <1>5

\* Of the numbers below the present one, _round_replica_target takes the nearest to
\* what would run at the threshold (optimizer.py:430-436).
THEOREM AdviceNearest ==
    ASSUME NEW current \in Nat, current > 1, NEW utilization \in Nat
    PROVE  Nearest(RoundReplicaTarget(current, utilization), current, utilization)
<1> DEFINE U == Larger(utilization, 1)
           ratio == Smaller(LowUtilization, U)
           load == current * U
           R == Rounded(current * ratio, LowUtilization)
           advised == RoundReplicaTarget(current, utilization)
           D(n) == Larger(n * 30 - load, -(n * 30 - load))
<1>1. /\ U \in Nat \ {0} /\ ratio \in 1..30 /\ ratio = (IF U < 30 THEN U ELSE 30)
      /\ load \in Nat /\ current * ratio \in Nat
  <2>1. U \in Nat \ {0} /\ ratio \in 1..30 /\ ratio = (IF U < 30 THEN U ELSE 30)
    BY DEF Larger, Smaller, LowUtilization
  <2> HIDE DEF U, ratio
  <2>2. \A a, b \in Nat : a * b \in Nat
    OBVIOUS
  <2>3. U \in Nat /\ ratio \in Nat
    BY <2>1
  <2> QED BY <2>1, <2>2, <2>3
<1>2. R \in Nat /\ 2 * (30 * R - current * ratio) <= 30 /\ 2 * (current * ratio - 30 * R) <= 30
  <2> HIDE DEF ratio
  <2> QED BY <1>1, RoundedClose, 30 \in Nat \ {0} DEF LowUtilization
<1>3. advised = IF Larger(1, R) >= current THEN Smaller(Larger(1, R), current - 1) ELSE Larger(1, R)
  BY DEF RoundReplicaTarget
<1>4. \A n : Distance(n, current, utilization) = D(n)
  BY DEF Distance, LowUtilization
<1>5. SUFFICES advised \in 1..(current - 1) /\ \A m \in 1..(current - 1) : D(advised) <= D(m)
  <2> HIDE DEF advised, D
  <2> QED BY <1>4 DEF Nearest, advised
<1> HIDE DEF U, ratio, load, R, advised
<1>6. CASE U >= 30
  <2>1. ratio = 30 /\ R = current
    BY <1>1, <1>2, <1>6
  <2>2. advised = current - 1
    BY <1>3, <2>1 DEF Larger, Smaller
  <2>3. load >= 30 * current
    BY <1>1, <1>6 DEF load
  <2> QED BY <1>1, <2>2, <2>3 DEF Larger
<1>7. CASE U < 30
  <2>1. current * ratio = load
    BY <1>1, <1>7 DEF load
  <2>2. 2 * (30 * R - load) <= 30 /\ 2 * (load - 30 * R) <= 30
    BY <1>2, <2>1
  <2>3. CASE R >= current
    <3>1. advised = current - 1
      BY <1>2, <1>3, <2>3 DEF Larger, Smaller
    <3> QED BY <1>1, <1>2, <2>2, <2>3, <3>1 DEF Larger
  <2>4. CASE 1 <= R /\ R < current
    <3>1. advised = R
      BY <1>2, <1>3, <2>4 DEF Larger
    <3> QED BY <1>1, <1>2, <2>2, <2>4, <3>1 DEF Larger
  <2>5. CASE R = 0
    <3>1. advised = 1
      BY <1>3, <2>5 DEF Larger
    <3> QED BY <1>1, <2>2, <2>5, <3>1 DEF Larger
  <2> QED BY <1>2, <2>3, <2>4, <2>5
<1> QED BY <1>1, <1>6, <1>7

-----------------------------------------------------------------------------
(* The ledger. *)

DraftIsFunction == draft = [w \in Writers |-> draft[w]]

LEMMA DraftStep == DraftIsFunction /\ [ActionsNext]_actionVars => DraftIsFunction'
<1> SUFFICES ASSUME DraftIsFunction, [ActionsNext]_actionVars PROVE DraftIsFunction'
  OBVIOUS
<1>1. UNCHANGED draft \/ \E w \in Writers : \E v : draft' = [draft EXCEPT ![w] = v]
  BY DEF ActionsNext, actionVars, Analyze, Rescale, Request, Reduce, ReduceNamed, ReduceLargest,
         Simulate, BeginMigration, Step, Patch, RecordIncident, ReadForAudit, ReadHead, Audit,
         Insert, Abandon, Answer, Restart
<1> QED BY <1>1 DEF DraftIsFunction

-----------------------------------------------------------------------------
(* Types. *)

ActionTypes == ActionsTypeOK /\ DraftIsFunction

LEMMA ActionTypesInit == ActionsInit => ActionTypes
  BY ActionsConstants DEF ActionsInit, Init, ActionTypes, ActionsTypeOK, DraftIsFunction, Jobs, Idle

LEMMA AdviceTypes ==
    ASSUME NEW pods \in Nat, NEW cpu \in Nat, NEW memory \in Nat,
           NEW n \in ReplicaAdvice(pods, cpu, memory)
    PROVE  /\ Underutilized(cpu, memory) /\ Nearest(n, pods, Larger(cpu, memory))
           /\ n \in Nat \ {0}
<1> DEFINE current == Larger(1, pods)
<1>1. /\ n = RoundReplicaTarget(current, Larger(cpu, memory)) /\ n < current
      /\ Underutilized(cpu, memory)
  BY DEF ReplicaAdvice
<1>2. current \in Nat /\ Larger(cpu, memory) \in Nat
  BY DEF Larger
<1>3. current > 1
  <2>1. current <= 1 => n = 1
    BY <1>1 DEF RoundReplicaTarget
  <2> HIDE DEF current
  <2> QED BY <1>1, <1>2, <2>1
<1>4. current = pods
  BY <1>3 DEF Larger
<1>5. Nearest(n, pods, Larger(cpu, memory))
  BY <1>1, <1>2, <1>3, <1>4, AdviceNearest
<1> HIDE DEF current
<1> QED BY <1>1, <1>2, <1>4, <1>5 DEF Nearest

\* Jobs stay jobs while more requests are begun, and drafts follow the audits.
LEMMA JobTypes ==
    ASSUME ActionTypes, NEW s \in Writers, NEW next, job' = [job EXCEPT ![s] = next],
           started \subseteq started', next \in Jobs', UNCHANGED draft, draft[s] = NoDraft
    PROVE  /\ job' \in [Writers -> Jobs']
           /\ \A w \in Writers : draft'[w] # NoDraft =>
                  job'[w].at = "audit" /\ draft'[w].payload = job'[w].request
<1>1. Jobs \subseteq Jobs'
  BY DEF Jobs
<1> QED BY <1>1 DEF ActionTypes, ActionsTypeOK

\* A process that is not at an audit has no draft.
LEMMA NoDraftElsewhere ==
    ASSUME ActionTypes, NEW s \in Writers, job[s].at # "audit"
    PROVE  draft[s] = NoDraft
  BY DEF ActionTypes, ActionsTypeOK

LEMMA BeginTypes ==
    ASSUME ActionTypes, NEW s \in Writers, NEW q \in Requests, NEW next,
           Begin(s, q, next), next \in Jobs', UNCHANGED <<draft, replicas, advice>>,
           migrations' \in {migrations, migrations \cup {q}},
           incidents' \in {incidents, incidents \cup {q}}, UNCHANGED answered
    PROVE  ActionsTypeOK'
<1>1. job[s].at # "audit"
  BY DEF Begin, Idle
<1>2. draft[s] = NoDraft
  BY <1>1, NoDraftElsewhere
<1>3. /\ started' = started \cup {q} /\ started \subseteq started' /\ q \in started'
      /\ job' = [job EXCEPT ![s] = next]
  BY DEF Begin
<1>4. /\ job' \in [Writers -> Jobs']
      /\ \A w \in Writers : draft'[w] # NoDraft =>
             job'[w].at = "audit" /\ draft'[w].payload = job'[w].request
  BY <1>2, <1>3, JobTypes
<1>5. /\ started' \subseteq Requests /\ migrations' \subseteq started'
      /\ incidents' \subseteq started' /\ answered' \subseteq started'
  BY <1>3 DEF ActionTypes, ActionsTypeOK
<1>6. replicas' \in [Deployments -> Nat] /\ advice' \subseteq Nat \ {0}
  BY DEF ActionTypes, ActionsTypeOK
<1> QED BY <1>4, <1>5, <1>6 DEF ActionsTypeOK

LEMMA ActionTypesStep == ActionTypes /\ [ActionsNext]_actionVars => ActionTypes'
<1> SUFFICES ASSUME ActionTypes, [ActionsNext]_actionVars PROVE ActionsTypeOK'
  BY DraftStep DEF ActionTypes
<1> USE DEF records
<1>1. CASE UNCHANGED actionVars
  BY <1>1 DEF ActionTypes, ActionsTypeOK, Jobs, actionVars
<1>2. CASE Analyze
  <2>1. advice' \subseteq Nat \ {0}
    BY <1>2, ActionsConstants, AdviceTypes DEF Analyze
  <2> QED BY <1>2, <2>1 DEF Analyze, ActionTypes, ActionsTypeOK, Jobs
<1>3. CASE \E d \in Deployments : Rescale(d)
  BY <1>3, ActionsConstants DEF Rescale, ActionTypes, ActionsTypeOK, Jobs
<1>4. ASSUME NEW s \in Writers, NEW q \in Requests, Reduce(s, q)
      PROVE  ActionsTypeOK'
  <2>1. CASE ReduceNamed(s, q)
    <3>1. PICK d \in Deployments, target \in Unstated..MaxReplicas :
            LET read == Larger(1, replicas[d])
            IN  Begin(s, q, [at |-> "patch", request |-> q, deployment |-> d, read |-> read,
                          replicas |-> NamedTarget(read, target), from |-> "named"])
      BY <2>1 DEF ReduceNamed
    <3> DEFINE read == Larger(1, replicas[d])
    <3>2. read \in Nat \ {0} /\ target \in Int
      <4>1. replicas[d] \in Nat
        BY DEF ActionTypes, ActionsTypeOK
      <4> QED BY <4>1, ActionsConstants DEF Larger, Unstated
    <3> HIDE DEF read
    <3>3. NamedTarget(read, target) \in Nat \ {0}
      BY <3>2 DEF NamedTarget, Wanted, Larger
    <3>4. q \in started'
      BY <3>1 DEF Begin
    <3>5. [at |-> "patch", request |-> q, deployment |-> d, read |-> read,
           replicas |-> NamedTarget(read, target), from |-> "named"] \in Jobs'
      BY <3>2, <3>3, <3>4 DEF Jobs
    <3> QED BY <2>1, <3>1, <3>5, BeginTypes DEF ReduceNamed, read
  <2>2. CASE ReduceLargest(s, q)
    <3>1. PICK d \in Largest, target \in (Unstated..MaxReplicas) \cup advice :
            Begin(s, q, [at |-> "patch", request |-> q, deployment |-> d, read |-> replicas[d],
                      replicas |-> Wanted(replicas[d], target), from |-> Asker(target)])
      BY <2>2 DEF ReduceLargest
    <3>2. d \in Deployments /\ replicas[d] \in Nat /\ target \in Int
      <4>1. replicas \in [Deployments -> Nat] /\ advice \subseteq Nat
        BY DEF ActionTypes, ActionsTypeOK
      <4>2. d \in Deployments
        BY DEF Largest
      <4> QED BY <4>1, <4>2 DEF Unstated
    <3>3. Wanted(replicas[d], target) \in Nat \ {0}
      BY <3>2 DEF Wanted, Larger
    <3>4. q \in started'
      BY <3>1 DEF Begin
    <3>5. [at |-> "patch", request |-> q, deployment |-> d, read |-> replicas[d],
           replicas |-> Wanted(replicas[d], target), from |-> Asker(target)] \in Jobs'
      BY <3>2, <3>3, <3>4 DEF Jobs, Asker
    <3> QED BY <2>2, <3>1, <3>5, BeginTypes DEF ReduceLargest
  <2>3. CASE Simulate(s, q)
    <3>1. [at |-> "incident", request |-> q] \in Jobs'
      BY <2>3 DEF Simulate, Begin, Jobs
    <3> QED BY <2>3, <3>1, BeginTypes DEF Simulate
  <2> QED BY <1>4, <2>1, <2>2, <2>3 DEF Reduce
<1>5. ASSUME NEW s \in Writers, NEW q \in Requests, BeginMigration(s, q)
      PROVE  ActionsTypeOK'
  <2>1. PICK next \in {[at |-> "audit", request |-> q], Idle} : Begin(s, q, next)
    BY <1>5 DEF BeginMigration
  <2>2. next \in Jobs'
    BY <2>1 DEF Begin, Jobs
  <2> QED BY <1>5, <2>1, <2>2, BeginTypes DEF BeginMigration
<1>6. ASSUME NEW s \in Writers, Patch(s) PROVE ActionsTypeOK'
  <2>1. PICK next \in {[at |-> "incident", request |-> job[s].request], Idle} :
          job' = [job EXCEPT ![s] = next]
    BY <1>6 DEF Patch
  <2>2. /\ job[s].request \in started /\ job[s].deployment \in Deployments
        /\ job[s].replicas \in Nat
    BY <1>6 DEF Patch, ActionTypes, ActionsTypeOK, Jobs, Idle
  <2>3. next \in Jobs'
    BY <1>6, <2>1, <2>2 DEF Patch, Jobs
  <2>4. draft[s] = NoDraft
    BY <1>6, NoDraftElsewhere DEF Patch
  <2>5. replicas' \in [Deployments -> Nat]
    BY <1>6, <2>2 DEF Patch, ActionTypes, ActionsTypeOK
  <2> QED BY <1>6, <2>1, <2>3, <2>4, <2>5, JobTypes DEF Patch, ActionTypes, ActionsTypeOK
<1>7. ASSUME NEW s \in Writers, RecordIncident(s) \/ Answer(s) PROVE ActionsTypeOK'
  <2>1. job[s].request \in started
    BY <1>7 DEF RecordIncident, Answer, ActionTypes, ActionsTypeOK, Jobs, Idle
  <2>2. PICK next \in {[at |-> "answer", request |-> job[s].request], Idle} :
          job' = [job EXCEPT ![s] = next]
    BY <1>7 DEF RecordIncident, Answer
  <2>3. next \in Jobs'
    BY <1>7, <2>1, <2>2 DEF RecordIncident, Answer, Jobs
  <2>4. draft[s] = NoDraft
    BY <1>7, NoDraftElsewhere DEF RecordIncident, Answer
  <2> QED
    BY <1>7, <2>1, <2>2, <2>3, <2>4, JobTypes DEF RecordIncident, Answer, ActionTypes, ActionsTypeOK
<1>8. ASSUME NEW s \in Writers, ReadForAudit(s) PROVE ActionsTypeOK'
  <2>1. CASE UNCHANGED draft
    <3>1. job' = [job EXCEPT ![s] = Idle] \/ UNCHANGED job
      BY <1>8 DEF ReadForAudit
    <3>2. Idle \in Jobs' /\ draft[s] = NoDraft
      BY <1>8 DEF ReadForAudit, Jobs
    <3> QED
      BY <1>8, <2>1, <3>1, <3>2, JobTypes DEF ReadForAudit, ActionTypes, ActionsTypeOK, Jobs
  <2>2. CASE \E o \in Orgs : ReadHead(s, o, job[s].request) /\ UNCHANGED job
    <3>1. PICK o \in Orgs : \E head : draft' = [draft EXCEPT ![s] = Block(o, job[s].request, head)]
      BY <2>2 DEF ReadHead
    <3>2. UNCHANGED <<job, replicas, advice, started, migrations, incidents, answered>>
      BY <1>8, <2>2 DEF ReadForAudit
    <3>3. ASSUME NEW w \in Writers, draft'[w] # NoDraft
          PROVE  job'[w].at = "audit" /\ draft'[w].payload = job'[w].request
      BY <1>8, <3>1, <3>2, <3>3 DEF ReadForAudit, Block, ActionTypes, ActionsTypeOK, DraftIsFunction
    <3> QED BY <3>2, <3>3 DEF ActionTypes, ActionsTypeOK, Jobs
  <2> QED BY <1>8, <2>1, <2>2 DEF ReadForAudit
<1>9. ASSUME NEW s \in Writers, Audit(s) \/ Restart(s) PROVE ActionsTypeOK'
  <2>1. draft' = [draft EXCEPT ![s] = NoDraft]
    BY <1>9 DEF Audit, Insert, Abandon, Restart
  <2>2. PICK next \in {[at |-> "answer", request |-> job[s].request], Idle} :
          job' = [job EXCEPT ![s] = next] /\ (next # Idle => job[s].at = "audit")
    BY <1>9 DEF Audit, Restart
  <2>3. job[s].at = "audit" => job[s].request \in started
    BY DEF ActionTypes, ActionsTypeOK, Jobs, Idle
  <2>4. UNCHANGED <<replicas, advice, started, migrations, incidents, answered>>
    BY <1>9 DEF Audit, Restart
  <2>5. next \in Jobs
    BY <2>2, <2>3 DEF Jobs
  <2>6. ASSUME NEW w \in Writers, draft'[w] # NoDraft
        PROVE  job'[w].at = "audit" /\ draft'[w].payload = job'[w].request
    BY <2>1, <2>2, <2>6 DEF ActionTypes, ActionsTypeOK, DraftIsFunction
  <2> QED BY <2>2, <2>4, <2>5, <2>6 DEF ActionTypes, ActionsTypeOK, Jobs
<1> QED
  BY <1>1, <1>2, <1>3, <1>4, <1>5, <1>6, <1>7, <1>8, <1>9 DEF ActionsNext, Request, Step

\* The handlers' state keeps its types (app.py:1779-1813, 1922-2006).
THEOREM ActionsTypes == ActionsSpec => []ActionsTypeOK
<1>1. ActionsInit => ActionTypes
  BY ActionTypesInit
<1>2. ActionTypes /\ [ActionsNext]_actionVars => ActionTypes'
  BY ActionTypesStep
<1>3. ActionTypes => ActionsTypeOK
  BY DEF ActionTypes
<1> QED BY <1>1, <1>2, <1>3, PTL DEF ActionsSpec

-----------------------------------------------------------------------------
(***************************************************************************)
(* Every step of the endpoints is a step of the ledger or leaves it alone. *)
(***************************************************************************)
LEMMA LedgerStep == ActionTypes /\ [ActionsNext]_actionVars => [Next]_vars
<1> SUFFICES ASSUME ActionTypes, [ActionsNext]_actionVars PROVE [Next]_vars
  OBVIOUS
<1>1. ASSUME NEW s \in Writers, ReadForAudit(s) PROVE [Next]_vars
  <2>1. job[s].request \in Payloads
    BY <1>1 DEF ReadForAudit, ActionTypes, ActionsTypeOK, Jobs, Idle, Requests
  <2> QED BY <1>1, <2>1 DEF ReadForAudit, Next, vars
<1>2. ASSUME NEW s \in Writers, Audit(s) PROVE [Next]_vars
  BY <1>2 DEF Audit, Next
<1>3. ASSUME NEW s \in Writers, Restart(s) PROVE [Next]_vars
  <2>1. CASE draft[s] = NoDraft
    BY <1>3, <2>1 DEF Restart, vars, ActionTypes, DraftIsFunction
  <2>2. CASE draft[s] # NoDraft
    BY <1>3, <2>2 DEF Restart, Next, Abandon
  <2> QED BY <2>1, <2>2
<1>4. CASE UNCHANGED vars
  BY <1>4
<1> QED
  BY <1>1, <1>2, <1>3, <1>4
  DEF ActionsNext, actionVars, Analyze, Rescale, Request, Reduce, ReduceNamed, ReduceLargest,
      Simulate, BeginMigration, Step, Patch, RecordIncident, Answer, vars

\* The endpoints implement the ledger (app.py:640, compliance_ledger.py:96).
THEOREM ActionsImplementLedger == ActionsSpec => ImplementsLedger
<1>1. ActionsInit => Init
  BY DEF ActionsInit
<1> QED
  BY <1>1, ActionTypesInit, ActionTypesStep, LedgerStep, PTL DEF ActionsSpec, ImplementsLedger, Spec

\* What is proved of every ledger holds of theirs.
THEOREM ActionsLedgerSafe ==
    ActionsSpec => [](TypeOK /\ ChainsBackward /\ ListingsVerify /\ ForksNeedTwo)
  BY ActionsImplementLedger, LedgerTypes, LedgerChainsBackward, LedgerListingsVerify,
     LedgerForksNeedTwo, PTL DEF ImplementsLedger

-----------------------------------------------------------------------------
\* Only an analysis changes the advice, to the nearest number (optimizer.py:833-840).
THEOREM ActionsAdviceNearest == ActionsSpec => AdviceIsNearest
<1> DEFINE Fresh ==
      \A n \in advice' \ advice :
         \E pods \in Pods, cpu, memory \in Utilizations :
             Underutilized(cpu, memory) /\ Nearest(n, pods, Larger(cpu, memory))
<1>1. [ActionsNext]_actionVars => [Fresh]_advice
  <2> SUFFICES ASSUME [ActionsNext]_actionVars, advice' # advice PROVE Fresh
    OBVIOUS
  <2>1. Analyze
    BY DEF ActionsNext, actionVars, Rescale, Request, Reduce, ReduceNamed, ReduceLargest,
           Simulate, BeginMigration, Step, Patch, RecordIncident, ReadForAudit, Audit, Answer,
           Restart
  <2>2. PICK pods \in Pods, cpu \in Utilizations, memory \in Utilizations :
          advice' = ReplicaAdvice(pods, cpu, memory)
    BY <2>1 DEF Analyze
  <2>3. pods \in Nat /\ cpu \in Nat /\ memory \in Nat
    BY ActionsConstants
  <2> QED BY <2>2, <2>3, AdviceTypes
<1> QED BY <1>1, PTL DEF ActionsSpec, AdviceIsNearest

-----------------------------------------------------------------------------
(* Reductions. *)

LEMMA NamedTargetIsLess ==
    ASSUME NEW read \in Nat \ {0}, NEW target \in Int
    PROVE  NamedTarget(read, target) < read \/ (NamedTarget(read, target) = 1 /\ read = 1)
  BY DEF NamedTarget, Wanted, Larger

\* A reduction of a named deployment asks for fewer replicas than it read
\* (remediation.py:147-162).
THEOREM ActionsNamedReductions == ActionsSpec => []NamedReductions
<1> DEFINE Lower(j) == j.at = "patch" /\ j.from = "named" =>
                         j.replicas < j.read \/ (j.replicas = 1 /\ j.read = 1)
           I == ActionTypes /\ NamedReductions
<1>1. ActionsInit => I
  BY ActionTypesInit DEF ActionsInit, NamedReductions, Idle
<1>2. I /\ [ActionsNext]_actionVars => I'
  <2> SUFFICES ASSUME I, [ActionsNext]_actionVars PROVE NamedReductions'
    BY ActionTypesStep
  <2>1. ASSUME NEW s \in Writers, NEW next, job' = [job EXCEPT ![s] = next], Lower(next)
        PROVE  NamedReductions'
    BY <2>1 DEF NamedReductions, ActionTypes, ActionsTypeOK
  <2>2. ASSUME NEW s \in Writers, NEW q \in Requests, ReduceNamed(s, q)
        PROVE  NamedReductions'
    <3>1. PICK d \in Deployments, target \in Unstated..MaxReplicas :
            LET read == Larger(1, replicas[d])
            IN  Begin(s, q, [at |-> "patch", request |-> q, deployment |-> d, read |-> read,
                          replicas |-> NamedTarget(read, target), from |-> "named"])
      BY <2>2 DEF ReduceNamed
    <3> DEFINE read == Larger(1, replicas[d])
               next == [at |-> "patch", request |-> q, deployment |-> d, read |-> read,
                        replicas |-> NamedTarget(read, target), from |-> "named"]
    <3>2. read \in Nat \ {0} /\ target \in Int
      <4>1. replicas[d] \in Nat
        BY DEF ActionTypes, ActionsTypeOK
      <4> QED BY <4>1, ActionsConstants DEF Larger, Unstated
    <3>3. job' = [job EXCEPT ![s] = next]
      BY <3>1 DEF Begin
    <3> HIDE DEF read
    <3>4. Lower(next)
      BY <3>2, NamedTargetIsLess
    <3> QED BY <2>1, <3>3, <3>4
  <2>3. ASSUME NEW s \in Writers, NEW q \in Requests, ReduceLargest(s, q)
        PROVE  NamedReductions'
    <3>1. PICK d \in Largest, target \in (Unstated..MaxReplicas) \cup advice :
            Begin(s, q, [at |-> "patch", request |-> q, deployment |-> d, read |-> replicas[d],
                      replicas |-> Wanted(replicas[d], target), from |-> Asker(target)])
      BY <2>3 DEF ReduceLargest
    <3> DEFINE next == [at |-> "patch", request |-> q, deployment |-> d, read |-> replicas[d],
                        replicas |-> Wanted(replicas[d], target), from |-> Asker(target)]
    <3>2. job' = [job EXCEPT ![s] = next]
      BY <3>1 DEF Begin
    <3>3. next.from # "named"
      BY DEF Asker
    <3> HIDE DEF next
    <3> QED BY <2>1, <3>2, <3>3
  <2>4. ASSUME NEW s \in Writers, NEW next, job' = [job EXCEPT ![s] = next], next.at # "patch"
        PROVE  NamedReductions'
    BY <2>1, <2>4
  <2>5. CASE UNCHANGED job
    BY <2>5 DEF NamedReductions
  <2>6. ASSUME NEW s \in Writers, NEW q \in Requests, Simulate(s, q) \/ BeginMigration(s, q)
        PROVE  NamedReductions'
    BY <2>4, <2>6 DEF Simulate, BeginMigration, Begin, Idle
  <2>7. ASSUME NEW s \in Writers, Step(s) \/ Restart(s) PROVE NamedReductions'
    <3> DEFINE Nexts == {Idle, [at |-> "incident", request |-> job[s].request],
                         [at |-> "answer", request |-> job[s].request]}
    <3>1. UNCHANGED job \/ \E next \in Nexts : job' = [job EXCEPT ![s] = next]
      BY <2>7 DEF Step, Patch, RecordIncident, ReadForAudit, Audit, Answer, Restart
    <3>2. \A next \in Nexts : next.at # "patch"
      BY DEF Idle
    <3> QED BY <2>4, <2>5, <3>1, <3>2
  <2> QED
    BY <2>2, <2>3, <2>5, <2>6, <2>7 DEF ActionsNext, actionVars, Request, Reduce, Analyze, Rescale
<1> QED BY <1>1, <1>2, PTL DEF ActionsSpec

-----------------------------------------------------------------------------
(***************************************************************************)
(* Why the audit trail is complete: a request is handled by one process,   *)
(* which records its incident before anything that refers to it, and a     *)
(* migration on its way to its record has none yet.                        *)
(***************************************************************************)
Sound(j) ==
    /\ j.at = "audit" => j.request \in incidents \cap migrations /\ Recorded(j.request) = {}
    /\ j.at \in {"patch", "incident"} => j.request \notin migrations
    /\ j.at = "answer" =>
         j.request \in incidents /\ (j.request \in migrations => Recorded(j.request) # {})
Apart == \A s, t \in Writers : s # t /\ job[s] # Idle /\ job[t] # Idle => job[s].request # job[t].request

TrailInv == ActionTypes /\ IsVault /\ AuditTrail /\ Apart /\ \A s \in Writers : Sound(job[s])

LEMMA TrailInit == ActionsInit => TrailInv
<1> SUFFICES ASSUME ActionsInit PROVE TrailInv
  OBVIOUS
<1>1. ActionTypes /\ IsVault
  BY ActionTypesInit, VaultInit DEF ActionsInit
<1>2. vault = <<>> /\ answered = {} /\ \A s \in Writers : job[s] = Idle
  BY DEF ActionsInit, Init
<1> QED BY <1>1, <1>2 DEF TrailInv, AuditTrail, Apart, Sound, Idle, Recorded

\* What the request of a process is, as long as it has one.
LEMMA JobIsBegun ==
    ASSUME ActionTypes, NEW s \in Writers, job[s] # Idle
    PROVE  job[s].request \in started
  BY DEF ActionTypes, ActionsTypeOK, Jobs

\* Nothing is recorded that was not begun.
LEMMA FreshIsUnrecorded ==
    ASSUME TrailInv, NEW q, q \notin started
    PROVE  Recorded(q) = {} /\ q \notin migrations /\ q \notin incidents /\ q \notin answered
<1>1. q \notin migrations /\ q \notin incidents /\ q \notin answered
  BY DEF TrailInv, ActionTypes, ActionsTypeOK
<1> QED BY <1>1 DEF TrailInv, AuditTrail, Recorded

\* Requests stay apart when a process goes on with its own, or begins a fresh one.
LEMMA ApartStep ==
    ASSUME TrailInv, NEW s \in Writers, NEW next, job' = [job EXCEPT ![s] = next],
           \/ next = Idle
           \/ next.request \notin started
           \/ job[s] # Idle /\ next.request = job[s].request
    PROVE  Apart'
<1>1. \A w \in Writers : job'[w] = IF w = s THEN next ELSE job[w]
  BY DEF TrailInv, ActionTypes, ActionsTypeOK
<1>2. \A w \in Writers : job[w] # Idle => job[w].request \in started
  BY JobIsBegun DEF TrailInv
<1> QED BY <1>1, <1>2 DEF TrailInv, Apart, Idle

\* Steps that leave the vault alone.
LEMMA TrailKept ==
    ASSUME TrailInv, ActionTypes', NEW s \in Writers, NEW next,
           job' = [job EXCEPT ![s] = next], Apart', Sound(next)', UNCHANGED vault,
           incidents \subseteq incidents', migrations \subseteq migrations',
           \A q \in migrations' \ migrations : q \notin started,
           answered' \subseteq incidents',
           \A q \in answered' \cap migrations' : Recorded(q) # {}
    PROVE  TrailInv'
<1>1. IsVault' /\ \A q : Recorded(q)' = Recorded(q)
  BY DEF IsVault, Recorded, TrailInv
<1>2. AuditTrail'
  BY <1>1 DEF TrailInv, AuditTrail
<1>3. ASSUME NEW w \in Writers PROVE Sound(job[w])'
  <2>1. CASE w = s
    BY <2>1 DEF TrailInv, ActionTypes, ActionsTypeOK
  <2>2. CASE w # s
    <3>1. job'[w] = job[w] /\ Sound(job[w])
      BY <2>2 DEF TrailInv, ActionTypes, ActionsTypeOK
    <3>2. job[w] # Idle => job[w].request \in started
      BY JobIsBegun DEF TrailInv
    <3> QED BY <1>1, <3>1, <3>2 DEF Sound, Idle
  <2> QED BY <2>1, <2>2
<1> QED BY <1>1, <1>2, <1>3 DEF TrailInv

LEMMA TrailStep == TrailInv /\ [ActionsNext]_actionVars => TrailInv'
<1> SUFFICES ASSUME TrailInv, [ActionsNext]_actionVars PROVE TrailInv'
  OBVIOUS
<1> USE DEF records
<1>1. ActionTypes'
  BY ActionTypesStep DEF TrailInv
<1>2. Sound(Idle)'
  BY DEF Sound, Idle
<1>3. /\ answered \subseteq incidents
      /\ \A q \in answered \cap migrations : Recorded(q) # {}
  BY DEF TrailInv, AuditTrail
<1>4. CASE UNCHANGED <<vault, job, migrations, incidents, answered>>
  BY <1>1, <1>4 DEF TrailInv, IsVault, AuditTrail, Apart, Sound, Recorded
<1>5. ASSUME NEW s \in Writers, NEW q \in Requests, Reduce(s, q) PROVE TrailInv'
  <2>1. PICK next : /\ next.at \in {"patch", "incident"} /\ next.request = q
                    /\ Begin(s, q, next)
    BY <1>5 DEF Reduce, ReduceNamed, ReduceLargest, Simulate
  <2>2. q \notin started /\ job' = [job EXCEPT ![s] = next]
    BY <2>1 DEF Begin
  <2>3. UNCHANGED <<vault, migrations, incidents, answered>>
    BY <1>5 DEF Reduce, ReduceNamed, ReduceLargest, Simulate
  <2>4. Sound(next)'
    BY <2>1, <2>2, <2>3, FreshIsUnrecorded DEF Sound
  <2>5. Apart'
    BY <2>1, <2>2, ApartStep
  <2> QED BY <1>1, <1>3, <2>2, <2>3, <2>4, <2>5, TrailKept
<1>6. ASSUME NEW s \in Writers, NEW q \in Requests, BeginMigration(s, q) PROVE TrailInv'
  <2>1. PICK next : /\ Begin(s, q, next)
                    /\ \/ next = Idle
                       \/ next = [at |-> "audit", request |-> q] /\ incidents' = incidents \cup {q}
    BY <1>6 DEF BeginMigration
  <2>2. q \notin started /\ job' = [job EXCEPT ![s] = next]
    BY <2>1 DEF Begin
  <2>3. /\ UNCHANGED <<vault, answered>> /\ migrations' = migrations \cup {q}
        /\ incidents \subseteq incidents'
    BY <1>6 DEF BeginMigration
  <2>4. Recorded(q) = {} /\ q \notin answered /\ Recorded(q)' = Recorded(q)
    BY <2>2, <2>3, FreshIsUnrecorded DEF Recorded
  <2>5. Sound(next)'
    BY <1>2, <2>1, <2>3, <2>4 DEF Sound
  <2>6. Apart'
    BY <2>1, <2>2, ApartStep
  <2> QED BY <1>1, <1>3, <2>2, <2>3, <2>4, <2>5, <2>6, TrailKept
<1>7. ASSUME NEW s \in Writers, Patch(s) PROVE TrailInv'
  <2>1. PICK next \in {[at |-> "incident", request |-> job[s].request], Idle} :
          job' = [job EXCEPT ![s] = next]
    BY <1>7 DEF Patch
  <2>2. UNCHANGED <<vault, migrations, incidents, answered>> /\ job[s].at = "patch"
    BY <1>7 DEF Patch
  <2>3. Sound(job[s]) /\ job[s] # Idle
    BY <2>2 DEF TrailInv, Idle
  <2>4. Sound(next)'
    BY <1>2, <2>1, <2>2, <2>3 DEF Sound
  <2>5. Apart'
    BY <2>1, <2>3, ApartStep
  <2> QED BY <1>1, <1>3, <2>1, <2>2, <2>4, <2>5, TrailKept
<1>8. ASSUME NEW s \in Writers, RecordIncident(s) PROVE TrailInv'
  <2>1. PICK next : /\ job' = [job EXCEPT ![s] = next] /\ incidents \subseteq incidents'
                    /\ \/ next = Idle
                       \/ /\ next = [at |-> "answer", request |-> job[s].request]
                          /\ job[s].request \in incidents'
    BY <1>8 DEF RecordIncident
  <2>2. UNCHANGED <<vault, migrations, answered>> /\ job[s].at = "incident"
    BY <1>8 DEF RecordIncident
  <2>3. Sound(job[s]) /\ job[s] # Idle
    BY <2>2 DEF TrailInv, Idle
  <2>4. Sound(next)'
    BY <1>2, <2>1, <2>2, <2>3 DEF Sound
  <2>5. Apart'
    BY <2>1, <2>3, ApartStep
  <2> QED BY <1>1, <1>3, <2>1, <2>2, <2>4, <2>5, TrailKept
<1>9. ASSUME NEW s \in Writers, Answer(s) PROVE TrailInv'
  <2>1. /\ job' = [job EXCEPT ![s] = Idle] /\ answered' = answered \cup {job[s].request}
        /\ UNCHANGED <<vault, migrations, incidents>> /\ job[s].at = "answer"
    BY <1>9 DEF Answer
  <2>2. Sound(job[s])
    BY DEF TrailInv
  <2>3. /\ answered' \subseteq incidents'
        /\ \A q \in answered' \cap migrations' : Recorded(q) # {}
    BY <1>3, <2>1, <2>2 DEF Sound
  <2>4. Apart'
    BY <2>1, ApartStep
  <2> QED BY <1>1, <1>2, <2>1, <2>3, <2>4, TrailKept
<1>10. ASSUME NEW s \in Writers, job' = [job EXCEPT ![s] = Idle],
              UNCHANGED <<vault, migrations, incidents, answered>>
       PROVE  TrailInv'
  <2>1. Apart'
    BY <1>10, ApartStep
  <2> QED BY <1>1, <1>2, <1>3, <1>10, <2>1, TrailKept
<1>11. ASSUME NEW s \in Writers, ReadForAudit(s) PROVE TrailInv'
  BY <1>4, <1>10, <1>11 DEF ReadForAudit, ReadHead
<1>12. ASSUME NEW s \in Writers, Audit(s), Insert(s) PROVE TrailInv'
  <2>1. PICK q : q = job[s].request
    OBVIOUS
  <2> DEFINE next == [at |-> "answer", request |-> q]
  <2>2. /\ job' = [job EXCEPT ![s] = next] \/ job' = [job EXCEPT ![s] = Idle]
        /\ UNCHANGED <<migrations, incidents, answered>> /\ job[s].at = "audit"
    BY <1>12, <2>1 DEF Audit
  <2>3. draft[s].payload = q
    BY <1>12, <2>1 DEF Insert, TrailInv, ActionTypes, ActionsTypeOK
  <2>4. Sound(job[s]) /\ job[s] # Idle
    BY <2>2 DEF TrailInv, Idle
  <2>5. q \in incidents \cap migrations /\ Recorded(q) = {}
    BY <2>1, <2>2, <2>4 DEF Sound
  <2>6. /\ IsVault' /\ Len(vault) \in Nat
        /\ DOMAIN vault = 1..Len(vault) /\ DOMAIN vault' = 1..(Len(vault) + 1)
        /\ \A n \in DOMAIN vault : vault'[n] = vault[n]
        /\ vault'[Len(vault) + 1].hash.payload = q
    <3>1. IsVault /\ Insert(s)
      BY <1>12 DEF TrailInv
    <3>2. [org |-> draft[s].org, prev |-> draft[s].prev, hash |-> draft[s], by |-> s].hash = draft[s]
      OBVIOUS
    <3> QED BY <2>3, <3>1, <3>2, InsertAppends
  <2>7. /\ Recorded(q)' = {Len(vault) + 1}
        /\ \A r : r # q => Recorded(r)' = Recorded(r)
    BY <2>5, <2>6 DEF Recorded
  <2>8. AuditTrail'
    <3>1. \A r \in answered' \cap migrations' : Recorded(r)' # {}
      BY <1>3, <2>2, <2>7
    <3>2. \A m, n \in DOMAIN vault' : m \in Recorded(vault[n].hash.payload)' => m = n
      <4> SUFFICES ASSUME NEW m \in DOMAIN vault', NEW n \in DOMAIN vault',
                          vault'[m].hash.payload = vault'[n].hash.payload
                   PROVE  m = n
        BY DEF Recorded
      <4> HIDE DEF next
      <4>1. CASE vault'[n].hash.payload = q
        <5>1. m \in Recorded(q)' /\ n \in Recorded(q)'
          BY <4>1 DEF Recorded
        <5> QED BY <2>7, <5>1
      <4>2. CASE vault'[n].hash.payload # q
        <5>1. m # Len(vault) + 1 /\ n # Len(vault) + 1
          BY <2>6, <4>2
        <5>2. m \in DOMAIN vault /\ n \in DOMAIN vault
          BY <2>6, <5>1
        <5>3. vault[m].hash.payload = vault[n].hash.payload
          BY <2>6, <5>2
        <5> QED BY <5>3, <5>2 DEF TrailInv, AuditTrail, Recorded
      <4> QED BY <4>1, <4>2
    <3>3. \A n \in DOMAIN vault' : vault'[n].hash.payload \in incidents' \cap migrations'
      BY <2>2, <2>5, <2>6 DEF TrailInv, AuditTrail
    <3> QED BY <1>3, <2>2, <3>1, <3>2, <3>3 DEF AuditTrail
  <2>9. Apart'
    BY <2>1, <2>2, <2>4, ApartStep
  <2>10. ASSUME NEW w \in Writers PROVE Sound(job[w])'
    <3>1. CASE w = s
      <4>1. job'[w] \in {next, Idle}
        BY <2>2, <3>1 DEF TrailInv, ActionTypes, ActionsTypeOK
      <4>2. next.at = "answer" /\ next.request = q
        OBVIOUS
      <4> HIDE DEF next
      <4>3. Sound(next)'
        BY <2>2, <2>5, <2>7, <4>2 DEF Sound
      <4> QED BY <1>2, <4>1, <4>3
    <3>2. CASE w # s
      <4>1. job'[w] = job[w] /\ Sound(job[w])
        BY <2>2, <3>2 DEF TrailInv, ActionTypes, ActionsTypeOK
      <4>2. job[w] = Idle \/ job[w].request # q
        BY <2>1, <2>4, <3>2 DEF TrailInv, Apart
      <4>3. CASE job[w] = Idle
        BY <1>2, <4>1, <4>3
      <4>4. CASE job[w].request # q
        BY <2>2, <2>7, <4>1, <4>4 DEF Sound
      <4> QED BY <4>2, <4>3, <4>4
    <3> QED BY <3>1, <3>2
  <2> QED BY <1>1, <2>6, <2>8, <2>9, <2>10 DEF TrailInv
<1>13. ASSUME NEW s \in Writers, Audit(s) \/ Restart(s) PROVE TrailInv'
  BY <1>10, <1>12, <1>13 DEF Audit, Abandon, Restart
<1>14. CASE UNCHANGED actionVars \/ Analyze \/ \E d \in Deployments : Rescale(d)
  BY <1>4, <1>14 DEF actionVars, Analyze, Rescale
<1> QED
  BY <1>5, <1>6, <1>7, <1>8, <1>9, <1>11, <1>13, <1>14 DEF ActionsNext, Request, Step

\* Whoever is told of a success finds its incident and, of a migration, its one
\* record, whatever failed (app.py:1951-1986, remediation.py:297-327).
THEOREM ActionsAuditTrail == ActionsSpec => []AuditTrail
<1>1. TrailInv => AuditTrail
  BY DEF TrailInv
<1> QED BY <1>1, TrailInit, TrailStep, PTL DEF ActionsSpec
=============================================================================
