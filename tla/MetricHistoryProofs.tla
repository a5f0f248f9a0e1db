------------------------- MODULE MetricHistoryProofs -------------------------
(***************************************************************************)
(* The table cluster_metrics for any span of the averages, any number of   *)
(* samples and any incidents: no sample is counted twice, none that the    *)
(* downsampling found is lost, and no incident is recorded twice.  The     *)
(* loop the samples come from lists no target on hearsay.                  *)
(***************************************************************************)
EXTENDS MetricHistory, ScrapeLoop, FiniteSetTheorems, TLAPS

\* A finite set of ids has a greatest one: the one with the fewest above it.
LEMMA LastExists ==
    ASSUME NEW n \in Nat, NEW S \in SUBSET (0..n)
    PROVE  LastOf(S) \in {0} \cup S /\ \A i \in S : i <= LastOf(S)
<1> DEFINE T == {0} \cup S
           Above(t) == {x \in T : x > t}
           aboves == {Above(t) : t \in T}
           fewer == StrictSubsetOrdering(0..n)
<1>0. \A x \in T : x \in 0..n
  OBVIOUS
<1>1. IsWellFoundedOn(fewer, FiniteSubsetsOf(0..n))
  BY FS_StrictSubsetOrderingWellFounded
<1>2. aboves # {} /\ aboves \subseteq FiniteSubsetsOf(0..n)
  <2>1. \A t \in T : Above(t) \in SUBSET (0..n)
    BY <1>0
  <2>2. IsFiniteSet(0..n)
    BY FS_Interval
  <2>3. \A t \in T : Above(t) \in FiniteSubsetsOf(0..n)
    BY <1>0, <2>1, <2>2, FS_Subset DEF FiniteSubsetsOf
  <2> QED BY <2>3
<1>3. PICK least \in aboves : \A other \in aboves : ~(<<other, least>> \in fewer)
  <2> HIDE DEF aboves, fewer
  <2> QED BY <1>1, <1>2, WFMin
<1>4. PICK t \in T : least = Above(t)
  OBVIOUS
<1>5. \A y \in T : t >= y
  <2> SUFFICES ASSUME NEW y \in T, y > t PROVE FALSE
    OBVIOUS
  <2>1. Above(y) \subseteq Above(t) /\ y \in Above(t) /\ y \notin Above(y)
    <3>1. \A z \in T : z \in Int
      BY <1>0
    <3>2. \A z \in T : z > y => z > t
      BY <3>1
    <3>3. y \in Above(t) /\ ~(y > y)
      BY <3>1
    <3> QED BY <3>2, <3>3
  <2>2. Above(y) \in SUBSET (0..n) /\ Above(t) \in SUBSET (0..n)
    BY <1>0
  <2>3. <<Above(y), Above(t)>> \in fewer
    BY <2>1, <2>2 DEF StrictSubsetOrdering, Above
  <2> QED BY <1>3, <1>4, <2>3
<1>6. LastOf(S) \in T /\ \A y \in T : LastOf(S) >= y
  BY <1>5 DEF LastOf, Max
<1> QED BY <1>6

\* SetToSeq numbers the elements of a finite set from 1.
LEMMA Numbering ==
    ASSUME NEW S, IsFiniteSet(S)
    PROVE  /\ Cardinality(S) \in Nat
           /\ SetToSeq(S) \in [1..Cardinality(S) -> S]
           /\ DOMAIN SetToSeq(S) = 1..Cardinality(S) /\ Len(SetToSeq(S)) = Cardinality(S)
           /\ \A g, h \in 1..Cardinality(S) : SetToSeq(S)[g] = SetToSeq(S)[h] => g = h
           /\ \A x \in S : \E g \in 1..Cardinality(S) : SetToSeq(S)[g] = x
<1> DEFINE n == Cardinality(S)
<1>1. n \in Nat /\ ExistsBijection(1..n, S)
  BY FS_CardinalityType
<1>2. \E f \in [1..n -> S] : IsInjective(f)
  BY <1>1 DEF ExistsBijection, Bijection, Injection
<1>3. SetToSeq(S) \in [1..n -> S] /\ IsInjective(SetToSeq(S))
  BY <1>2 DEF SetToSeq
<1>4. SetToSeq(S) \in Surjection(1..n, S)
  <2>1. SetToSeq(S) \in Injection(1..n, S)
    BY <1>3 DEF Injection
  <2>2. IsFiniteSet(1..n) /\ Cardinality(1..n) = n
    BY <1>1, FS_Interval
  <2> QED BY <2>1, <2>2, FS_Injection
<1>5. SetToSeq(S) \in Seq(S) /\ Len(SetToSeq(S)) = n
  BY <1>1, <1>3
<1> QED BY <1>1, <1>3, <1>4, <1>5 DEF IsInjective, Surjection

-----------------------------------------------------------------------------
(***************************************************************************)
(* The inductive invariant, one part for each of the table, the            *)
(* downsampling and the scan.                                              *)
(***************************************************************************)
Row == [series : Series, stamp : Nat, raw : BOOLEAN, calls : SUBSET Kinds,
        of : (SUBSET samples) \ {{}}]

Counters ==
    /\ now \in Nat /\ lastId \in Nat /\ restarts \in Nat /\ blind \in BOOLEAN
    /\ samples \subseteq 1..lastId /\ watermark \in 0..lastId

\* A raw row is its own sample, and SamplesCountedOnce.
RowsOK ==
    /\ DOMAIN rows \subseteq 1..lastId
    /\ \A i \in DOMAIN rows : rows[i] \in Row /\ (rows[i].raw => rows[i].of = {i})
    /\ SamplesCountedOnce

\* The averages of a job: those of a group are of the same samples, those of two
\* groups share none, and the rows they were taken from are still aged.
Running == job.at \in {"selected", "writing"}
GroupsOK(groups) ==
    /\ IsFiniteSet(groups)
    /\ \A average \in UNION groups : average \in Row /\ ~average.raw
    /\ \A G, H \in groups : \A a \in G, b \in H :
         IF G = H THEN a.of = b.of ELSE a.of \cap b.of = {}
    /\ \A average \in UNION groups, i \in DOMAIN rows :
         average.of \cap rows[i].of # {} => i \in Aged
JobOK ==
    \/ job = Idle
    \/ job = [at |-> job.at, groups |-> job.groups] /\ Running /\ GroupsOK(job.groups)

\* The rows of a scan are above what it has seen, and of different ids.
ScanOK ==
    \/ scan = Idle
    \/ /\ scan = [at |-> "rows", seen |-> scan.seen, todo |-> scan.todo]
       /\ scan.seen \in watermark..lastId
       /\ scan.todo \subseteq (1..lastId) \X SUBSET Kinds
       /\ \A row \in scan.todo : row[1] > scan.seen
       /\ \A row, other \in scan.todo : row[1] = other[1] => row = other

\* How far the scans have got; what is recorded lies behind, or is of a row that is
\* gone and will not be scanned.
Position == IF scan = Idle THEN watermark ELSE scan.seen
Ahead(i) == i \in DOMAIN rows \/ (scan # Idle /\ \E row \in scan.todo : row[1] = i)
RecordedOK ==
    /\ DOMAIN incidents \subseteq (1..lastId) \X Kinds
    /\ ~blind => \A p \in DOMAIN incidents : incidents[p] = 1 /\ (p[1] <= Position \/ ~Ahead(p[1]))

IInv == Counters /\ RowsOK /\ JobOK /\ ScanOK /\ RecordedOK

LEMMA InvInit == Init => IInv
<1> SUFFICES ASSUME Init PROVE IInv
  OBVIOUS
<1>1. DOMAIN rows = {} /\ DOMAIN incidents = {}
  BY DEF Init, NoRow
<1>2. Counters
  <2>1. blind \in BOOLEAN
    BY Zenon DEF Init
  <2>2. now = 0 /\ lastId = 0 /\ watermark = 0 /\ restarts = 0 /\ samples = {}
    BY DEF Init
  <2> QED BY <2>1, <2>2 DEF Counters
<1>3. RowsOK
  BY <1>1 DEF RowsOK, SamplesCountedOnce
<1>4. JobOK /\ ScanOK
  BY DEF Init, JobOK, ScanOK
<1>5. RecordedOK
  BY <1>1 DEF RecordedOK
<1> QED BY <1>2, <1>3, <1>4, <1>5 DEF IInv

LEMMA InvTypes == IInv => TypeOK
<1> SUFFICES ASSUME IInv PROVE TypeOK
  OBVIOUS
<1> USE DEF IInv
<1>1. job.at \in {"idle", "selected", "writing"}
  BY DEF JobOK, Idle, Running
<1>2. scan.at \in {"idle", "rows"}
  BY DEF ScanOK, Idle
<1>3. \A i \in DOMAIN rows :
         /\ rows[i].series \in Series /\ rows[i].calls \subseteq Kinds
         /\ rows[i].stamp \in Nat /\ rows[i].raw \in BOOLEAN
         /\ rows[i].of # {} /\ rows[i].of \subseteq samples
  BY DEF RowsOK, Row
<1> QED BY <1>1, <1>2, <1>3 DEF TypeOK, Counters, RowsOK, RecordedOK

-----------------------------------------------------------------------------
\* Samples and ids are only added, rows only age: what JobOK says of a job stays
\* true while the table only grows.
LEMMA JobStays ==
    ASSUME IInv, UNCHANGED job, samples \subseteq samples', now' \in Nat, now' >= now,
           \A i \in DOMAIN rows : i \in DOMAIN rows' /\ rows'[i] = rows[i],
           \A i \in DOMAIN rows' \ DOMAIN rows : rows'[i].of \cap samples = {}
    PROVE  JobOK'
<1>1. CASE job = Idle
  BY <1>1 DEF JobOK
<1>2. CASE Running /\ job = [at |-> job.at, groups |-> job.groups] /\ GroupsOK(job.groups)
  <2> USE HistoryConstants
  <2>1. \A i \in Aged : i \in Aged'
    BY DEF IInv, Counters, RowsOK, Row, Aged
  <2>2. \A average \in UNION job.groups : average \in Row' /\ ~average.raw /\ average.of \subseteq samples
    BY <1>2 DEF GroupsOK, Row
  <2>3. ASSUME NEW average \in UNION job.groups, NEW i \in DOMAIN rows', average.of \cap rows'[i].of # {}
        PROVE  i \in Aged'
    <3>1. i \in DOMAIN rows /\ rows'[i] = rows[i]
      BY <2>2, <2>3
    <3> QED BY <1>2, <2>1, <2>3, <3>1 DEF GroupsOK
  <2>4. GroupsOK(job.groups)'
    BY <1>2, <2>2, <2>3 DEF GroupsOK
  <2> QED BY <1>2, <2>4 DEF JobOK, Running
<1> QED BY <1>1, <1>2 DEF IInv, JobOK

\* A scan goes on while the table changes under it: new ids are above all others.
LEMMA ScanStays ==
    ASSUME IInv, UNCHANGED <<scan, watermark, incidents, blind>>, lastId' \in Nat, lastId' >= lastId,
           \A i \in DOMAIN rows' \ DOMAIN rows : i > lastId
    PROVE  ScanOK' /\ RecordedOK'
<1>1. ScanOK'
  BY DEF IInv, ScanOK, Counters
<1>2. DOMAIN incidents \subseteq (1..lastId') \X Kinds
  BY DEF IInv, RecordedOK, Counters
<1>3. \A p \in DOMAIN incidents : p[1] \in 1..lastId /\ (Ahead(p[1])' => Ahead(p[1]))
  BY DEF IInv, RecordedOK, Counters, Ahead
<1> QED BY <1>1, <1>2, <1>3 DEF IInv, RecordedOK, Position

LEMMA InsertKeeps ==
    ASSUME HistoryConstants, IInv, NEW s \in Series, NEW stamp \in 0..now, NEW calls \in SUBSET Kinds,
           InsertMetric(s, stamp, calls)
    PROVE  IInv'
<1>1. lastId \in Nat /\ now \in Nat /\ samples \subseteq 1..lastId /\ DOMAIN rows \subseteq 1..lastId
  BY DEF IInv, Counters, RowsOK
<1>2. /\ DOMAIN rows' = {lastId + 1} \cup DOMAIN rows /\ lastId + 1 \notin DOMAIN rows
      /\ \A i \in DOMAIN rows : rows'[i] = rows[i]
      /\ rows'[lastId + 1] = [series |-> s, stamp |-> stamp, raw |-> TRUE, calls |-> calls, of |-> {lastId + 1}]
      /\ lastId' = lastId + 1 /\ samples' = samples \cup {lastId + 1}
      /\ UNCHANGED <<now, job, watermark, scan, incidents, skipped, restarts, blind>>
  BY <1>1 DEF InsertMetric, index, process
<1>3. Counters'
  BY <1>1, <1>2 DEF IInv, Counters
<1>4. RowsOK'
  <2>1. rows'[lastId + 1] \in Row'
    <3>1. {lastId + 1} \in (SUBSET samples') \ {{}} /\ stamp \in Nat
      BY <1>1, <1>2
    <3> QED BY <1>2, <3>1 DEF Row
  <2>2. \A i \in DOMAIN rows : rows[i] \in Row' /\ rows[i].of \subseteq samples /\ lastId + 1 \notin rows[i].of
    BY <1>1, <1>2 DEF IInv, RowsOK, Row
  <2>3. SamplesCountedOnce'
    <3> SUFFICES ASSUME NEW i \in DOMAIN rows', NEW j \in DOMAIN rows', i # j
                 PROVE  rows'[i].of \cap rows'[j].of = {}
      BY DEF SamplesCountedOnce
    <3>1. CASE i \in DOMAIN rows /\ j \in DOMAIN rows
      <4>1. rows[i].of \cap rows[j].of = {}
        BY <3>1 DEF IInv, RowsOK, SamplesCountedOnce
      <4> QED BY <1>2, <3>1, <4>1
    <3>2. CASE i = lastId + 1 /\ j \in DOMAIN rows
      <4>1. rows'[i].of = {lastId + 1} /\ rows'[j] = rows[j] /\ lastId + 1 \notin rows[j].of
        BY <1>2, <2>2, <3>2
      <4> QED BY <4>1
    <3>3. CASE j = lastId + 1 /\ i \in DOMAIN rows
      <4>1. rows'[j].of = {lastId + 1} /\ rows'[i] = rows[i] /\ lastId + 1 \notin rows[i].of
        BY <1>2, <2>2, <3>3
      <4> QED BY <4>1
    <3> QED BY <1>2, <3>1, <3>2, <3>3
  <2>4. DOMAIN rows' \subseteq 1..lastId'
    BY <1>1, <1>2
  <2> QED BY <1>2, <2>1, <2>2, <2>3, <2>4 DEF IInv, RowsOK
<1>5. JobOK'
  BY <1>1, <1>2, JobStays
<1>6. ScanOK' /\ RecordedOK'
  BY <1>1, <1>2, ScanStays
<1> QED BY <1>3, <1>4, <1>5, <1>6 DEF IInv

\* An hour's beginning is a time.
LEMMA HourBegins == ASSUME NEW stamp \in Nat, NEW h \in Nat \ {0} PROVE (stamp \div h) * h \in Nat
  OBVIOUS

\* The averages of the aged rows: what each group's are, and that they share nothing.
LEMMA AveragesOK ==
    ASSUME HistoryConstants, IInv
    PROVE  GroupsOK(Averages(Aged))
<1> DEFINE Group(i) == {j \in Aged : SameGroup(i, j)}
           groups == Averages(Aged)
           ofGroup(i) == UNION {rows[j].of : j \in Group(i)}
<1> USE HistoryConstants
<1>1. Aged \subseteq DOMAIN rows /\ \A i \in Aged : rows[i] \in Row /\ i \in Group(i) /\ Group(i) \subseteq Aged
  BY DEF IInv, RowsOK, Aged, SameGroup
<1>2. groups = {Average(Group(i)) : i \in Aged}
  BY DEF Averages
<1>3. ASSUME NEW i \in Aged, NEW average \in Average(Group(i))
      PROVE  average \in Row /\ ~average.raw /\ average.of = ofGroup(i)
  <2>1. /\ average = [series |-> average.series, stamp |-> average.stamp, raw |-> average.raw,
                      calls |-> average.calls, of |-> average.of]
        /\ average.series \in {rows[j].series : j \in Group(i)}
        /\ average.stamp \in {(rows[j].stamp \div Hour) * Hour : j \in Group(i)}
        /\ average.raw = FALSE
        /\ average.calls \subseteq UNION {rows[j].calls : j \in Group(i)}
        /\ average.of = ofGroup(i)
    BY <1>3 DEF Average
  <2>2. \A j \in Group(i) : rows[j] \in Row
    BY <1>1
  <2>3. average.series \in Series /\ average.calls \subseteq Kinds
    BY <2>1, <2>2 DEF Row
  <2>4. average.stamp \in Nat
    BY <2>1, <2>2, HourBegins DEF Row
  <2>5. average.of \subseteq samples /\ average.of # {}
    BY <1>1, <2>1, <2>2 DEF Row
  <2> QED BY <2>1, <2>3, <2>4, <2>5 DEF Row
<1>4. IsFiniteSet(groups)
  <2>1. IsFiniteSet(Aged)
    <3>1. IsFiniteSet(1..lastId) /\ Aged \in SUBSET (1..lastId)
      BY <1>1, FS_Interval DEF IInv, Counters, RowsOK
    <3> QED BY <3>1, FS_Subset
  <2>2. [i \in Aged |-> Average(Group(i))] \in Surjection(Aged, groups)
    BY <1>2 DEF Surjection
  <2> QED BY <2>1, <2>2, FS_Surjection
<1>5. ASSUME NEW i \in Aged, NEW k \in Aged, ofGroup(i) \cap ofGroup(k) # {}
      PROVE  Group(i) = Group(k)
  <2>1. PICK s : s \in ofGroup(i) /\ s \in ofGroup(k)
    BY <1>5
  <2>2. PICK j \in Group(i), l \in Group(k) : s \in rows[j].of /\ s \in rows[l].of
    BY <2>1
  <2>3. j = l
    BY <1>1, <2>2 DEF IInv, RowsOK, SamplesCountedOnce
  <2> QED BY <2>3 DEF SameGroup
<1>6. ASSUME NEW G \in groups, NEW H \in groups, NEW a \in G, NEW b \in H
      PROVE  IF G = H THEN a.of = b.of ELSE a.of \cap b.of = {}
  <2>1. PICK i \in Aged : G = Average(Group(i))
    BY <1>2
  <2>2. PICK k \in Aged : H = Average(Group(k))
    BY <1>2
  <2>3. CASE G = H
    BY <1>3, <2>1, <2>3
  <2>4. CASE G # H
    <3>1. a.of = ofGroup(i) /\ b.of = ofGroup(k)
      BY <1>3, <2>1, <2>2
    <3> QED BY <1>5, <2>1, <2>2, <2>4, <3>1
  <2> QED BY <2>3, <2>4
<1>7. ASSUME NEW average \in UNION groups, NEW i \in DOMAIN rows, average.of \cap rows[i].of # {}
      PROVE  i \in Aged
  <2>1. PICK k \in Aged : average \in Average(Group(k))
    BY <1>2
  <2>2. PICK j \in Group(k) : rows[j].of \cap rows[i].of # {}
    BY <1>3, <1>7, <2>1
  <2>3. j \in DOMAIN rows /\ j = i
    BY <1>1, <2>1, <2>2 DEF IInv, RowsOK, SamplesCountedOnce
  <2> QED BY <1>1, <2>1, <2>2, <2>3
<1>8. \A average \in UNION groups : average \in Row /\ ~average.raw
  BY <1>2, <1>3
<1> QED BY <1>4, <1>6, <1>7, <1>8 DEF GroupsOK

\* What DeleteAged does to the table: the aged rows go, and each group has one of its
\* averages come in, numbered on from the last id.
Replaced(n, G, average) ==
    /\ \A g, h \in 1..n : G[g] = G[h] => g = h
    /\ \A H \in job.groups : \E g \in 1..n : G[g] = H
    /\ \A g \in 1..n : average[g] \in G[g]
    /\ DOMAIN rows' = (DOMAIN rows \ Aged) \cup {lastId + g : g \in 1..n}
    /\ \A i \in DOMAIN rows \ Aged : rows'[i] = rows[i]
    /\ \A g \in 1..n : lastId + g \notin DOMAIN rows /\ rows'[lastId + g] = average[g]
    /\ lastId' = lastId + n
    /\ GroupsOK(job.groups)

LEMMA Deletion ==
    ASSUME HistoryConstants, IInv, DeleteAged
    PROVE  \E n \in Nat : \E G \in [1..n -> job.groups], average \in [1..n -> UNION job.groups] :
             Replaced(n, G, average)
<1> DEFINE G == SetToSeq(job.groups)
           n == Cardinality(job.groups)
           kept == DOMAIN rows \ Aged
           new == {lastId + g : g \in DOMAIN G}
<1>1. GroupsOK(job.groups)
  BY DEF IInv, JobOK, Idle, DeleteAged
<1>2. /\ n \in Nat /\ G \in [1..n -> job.groups] /\ DOMAIN G = 1..n /\ Len(G) = n
      /\ \A g, h \in 1..n : G[g] = G[h] => g = h
      /\ \A H \in job.groups : \E g \in 1..n : G[g] = H
  BY <1>1, Numbering DEF GroupsOK
<1>3. PICK average \in [DOMAIN G -> UNION job.groups] :
        /\ \A g \in DOMAIN G : average[g] \in G[g]
        /\ rows' = [i \in kept \cup new |-> IF i \in new THEN average[i - lastId] ELSE rows[i]]
        /\ lastId' = lastId + Len(G)
  BY DEF DeleteAged
<1>4. lastId \in Nat /\ \A i \in DOMAIN rows : i \in 1..lastId
  BY DEF IInv, Counters, RowsOK
<1> HIDE DEF G, n
<1>5. \A g \in 1..n : lastId + g \in Nat /\ lastId + g > lastId /\ (lastId + g) - lastId = g
  BY <1>2, <1>4
<1>6. \A i \in kept : i \notin new
  BY <1>2, <1>4, <1>5
<1>7. \A i \in kept : rows'[i] = rows[i]
  BY <1>3, <1>6
<1>8. \A g \in 1..n : lastId + g \notin DOMAIN rows /\ rows'[lastId + g] = average[g]
  <2> SUFFICES ASSUME NEW g \in 1..n PROVE lastId + g \notin DOMAIN rows /\ rows'[lastId + g] = average[g]
    OBVIOUS
  <2>0. lastId + g \in new
    BY <1>2
  <2>1. lastId + g \in new /\ lastId + g \notin DOMAIN rows /\ (lastId + g) - lastId = g
    <3>1. lastId + g \in Nat /\ lastId + g > lastId /\ (lastId + g) - lastId = g
      BY <1>5
    <3>2. lastId + g \notin 1..lastId
      BY <1>4, <3>1
    <3> HIDE DEF new
    <3> QED BY <1>4, <2>0, <3>1, <3>2
  <2>2. rows'[lastId + g] = average[(lastId + g) - lastId]
    BY <1>3, <2>1
  <2> QED BY <2>1, <2>2
<1>9. DOMAIN rows' = kept \cup {lastId + g : g \in 1..n}
  BY <1>2, <1>3
<1>10. average \in [1..n -> UNION job.groups] /\ \A g \in 1..n : average[g] \in G[g]
  BY <1>2, <1>3
<1>11. lastId' = lastId + n
  BY <1>2, <1>3
<1> QED
  <2> HIDE DEF kept, new
  <2> USE <1>2, <1>10
  <2> WITNESS n \in Nat
  <2> WITNESS G \in [1..n -> job.groups], average \in [1..n -> UNION job.groups]
  <2> QED BY <1>1, <1>2, <1>7, <1>8, <1>9, <1>10, <1>11 DEF kept, Replaced

LEMMA DeleteKeeps ==
    ASSUME HistoryConstants, IInv, DeleteAged
    PROVE  IInv'
<1>1. PICK n \in Nat : \E G \in [1..n -> job.groups], average \in [1..n -> UNION job.groups] :
        Replaced(n, G, average)
  BY Deletion
<1>2. PICK G \in [1..n -> job.groups], average \in [1..n -> UNION job.groups] : Replaced(n, G, average)
  BY <1>1
<1> USE DEF Replaced
<1>3. /\ job' = Idle
      /\ UNCHANGED <<now, samples, watermark, scan, incidents, skipped, restarts, blind>>
  BY DEF DeleteAged, index, process
<1>4. lastId \in Nat /\ DOMAIN rows \subseteq 1..lastId
  BY DEF IInv, Counters, RowsOK
<1>5. Counters'
  BY <1>2, <1>3, <1>4 DEF IInv, Counters
<1>6. \A g \in 1..n : lastId + g \in 1..lastId' /\ lastId + g > lastId
  <2>1. lastId' = lastId + n /\ n \in Nat
    BY <1>2
  <2> HIDE DEF Replaced
  <2> QED BY <2>1, <1>4
<1>7. \A g \in 1..n : average[g] \in Row /\ ~average[g].raw
  BY <1>2 DEF GroupsOK
<1>8. DOMAIN rows' \subseteq 1..lastId'
  BY <1>2, <1>4, <1>6
<1>9. \A i \in DOMAIN rows' : rows'[i] \in Row' /\ (rows'[i].raw => rows'[i].of = {i})
  <2>1. \A i \in DOMAIN rows \ Aged : rows'[i] \in Row /\ (rows'[i].raw => rows'[i].of = {i})
    BY <1>2 DEF IInv, RowsOK
  <2>2. \A g \in 1..n : rows'[lastId + g] \in Row /\ ~rows'[lastId + g].raw
    BY <1>2, <1>7
  <2>3. Row' = Row
    BY <1>3 DEF Row
  <2> QED BY <1>2, <2>1, <2>2, <2>3
<1>10. SamplesCountedOnce'
  <2> SUFFICES ASSUME NEW i \in DOMAIN rows', NEW j \in DOMAIN rows', rows'[i].of \cap rows'[j].of # {}
               PROVE  i = j
    BY DEF SamplesCountedOnce
  <2>1. CASE i \in DOMAIN rows \ Aged /\ j \in DOMAIN rows \ Aged
    BY <1>2, <2>1 DEF IInv, RowsOK, SamplesCountedOnce
  <2>2. ASSUME NEW g \in 1..n, NEW k \in DOMAIN rows \ Aged PROVE average[g].of \cap rows[k].of = {}
    BY <1>2 DEF GroupsOK
  <2>3. ASSUME NEW g \in 1..n, NEW h \in 1..n, average[g].of \cap average[h].of # {} PROVE g = h
    <3>1. G[g] = G[h]
      BY <1>2, <2>3 DEF GroupsOK
    <3> QED BY <1>2, <3>1
  <2>4. CASE i \in DOMAIN rows \ Aged /\ \E g \in 1..n : j = lastId + g
    BY <1>2, <2>2, <2>4
  <2>5. CASE j \in DOMAIN rows \ Aged /\ \E g \in 1..n : i = lastId + g
    BY <1>2, <2>2, <2>5
  <2>6. CASE (\E g \in 1..n : i = lastId + g) /\ (\E h \in 1..n : j = lastId + h)
    <3>1. PICK g \in 1..n, h \in 1..n : i = lastId + g /\ j = lastId + h
      BY <2>6
    <3>2. average[g].of \cap average[h].of # {}
      BY <1>2, <3>1
    <3> QED BY <2>3, <3>1, <3>2
  <2> QED BY <1>2, <2>1, <2>4, <2>5, <2>6
<1>11. JobOK'
  BY <1>3 DEF JobOK, Idle
<1>12. ScanOK' /\ RecordedOK'
  <2>1. lastId' \in Nat /\ lastId' >= lastId
    BY <1>2, <1>4
  <2>2. \A i \in DOMAIN rows' \ DOMAIN rows : i > lastId
    BY <1>2, <1>6
  <2> QED BY <1>3, <2>1, <2>2, ScanStays
<1> QED BY <1>5, <1>8, <1>9, <1>10, <1>11, <1>12 DEF IInv, RowsOK

\* The other steps of the downsampling touch the job alone.
LEMMA JobKeeps ==
    ASSUME HistoryConstants, IInv, SelectAged \/ BeginAverages \/ AbortDownsampling
    PROVE  IInv'
<1>1. UNCHANGED <<now, rows, lastId, samples, watermark, scan, incidents, skipped, restarts, blind>>
  BY DEF SelectAged, BeginAverages, AbortDownsampling, table, index, process
<1>2. Counters' /\ RowsOK' /\ ScanOK' /\ RecordedOK'
  BY <1>1 DEF IInv, Counters, RowsOK, ScanOK, RecordedOK, SamplesCountedOnce, Row, Position, Ahead
<1>3. \A groups : GroupsOK(groups) => GroupsOK(groups)'
  BY <1>1 DEF GroupsOK, Row, Aged
<1>4. ASSUME SelectAged PROVE JobOK'
  <2>1. job' = [at |-> "selected", groups |-> Averages(Aged)]
    BY <1>4 DEF SelectAged
  <2> QED BY <1>3, <2>1, AveragesOK DEF JobOK, Running
<1>5. ASSUME BeginAverages PROVE JobOK'
  <2>1. job.at = "selected" /\ job = [at |-> job.at, groups |-> job.groups] /\ GroupsOK(job.groups)
    BY <1>5 DEF BeginAverages, IInv, JobOK, Idle
  <2>2. job' = [at |-> "writing", groups |-> job.groups]
    <3>1. \A at, groups : [[at |-> at, groups |-> groups] EXCEPT !.at = "writing"]
                          = [at |-> "writing", groups |-> groups]
      OBVIOUS
    <3>2. job' = [job EXCEPT !.at = "writing"]
      BY <1>5 DEF BeginAverages
    <3>3. [job EXCEPT !.at = "writing"] = [[at |-> job.at, groups |-> job.groups] EXCEPT !.at = "writing"]
      BY Zenon, <2>1
    <3> QED BY Zenon, <3>1, <3>2, <3>3
  <2> QED BY <1>3, <2>1, <2>2 DEF JobOK, Running
<1>6. ASSUME AbortDownsampling PROVE JobOK'
  BY <1>6 DEF AbortDownsampling, JobOK
<1> QED BY <1>2, <1>4, <1>5, <1>6 DEF IInv

-----------------------------------------------------------------------------
\* The greatest of the numbers that a finished scan looks at.
LEMMA LastOfTwo ==
    ASSUME NEW m \in Nat, NEW n \in Nat, m <= n
    PROVE  LastOf({m, n}) = n
<1>1. LastOf({m, n}) \in {0} \cup {m, n} /\ \A i \in {m, n} : i <= LastOf({m, n})
  BY LastExists
<1> QED BY <1>1

\* What the scan is at while it is not idle.
LEMMA Scanning ==
    ASSUME IInv, scan # Idle
    PROVE  /\ scan = [at |-> "rows", seen |-> scan.seen, todo |-> scan.todo]
           /\ watermark \in Nat /\ scan.seen \in Nat /\ lastId \in Nat
           /\ watermark <= scan.seen /\ scan.seen <= lastId
           /\ \A row \in scan.todo : row = <<row[1], row[2]>> /\ row[1] \in 1..lastId /\ row[2] \subseteq Kinds
                                     /\ row[1] > scan.seen
           /\ Position = scan.seen
  BY DEF IInv, ScanOK, Counters, Position

\* Nothing of a row that is still to be scanned was recorded, so it is recorded once.
LEMMA RecordedOnce ==
    ASSUME IInv, scan # Idle, NEW row \in scan.todo, NEW kinds \in SUBSET Kinds
    PROVE  LET after == Recorded(row[1], kinds)
           IN  /\ DOMAIN after = {<<row[1], k>> : k \in kinds} \cup DOMAIN incidents
               /\ DOMAIN after \subseteq (1..lastId) \X Kinds
               /\ ~blind => \A p \in DOMAIN after : after[p] = 1
<1> DEFINE new == {<<row[1], k>> : k \in kinds}
           after == Recorded(row[1], kinds)
<1>1. /\ DOMAIN after = new \cup DOMAIN incidents
      /\ \A p \in DOMAIN after : after[p] = (IF p \in DOMAIN incidents THEN incidents[p] ELSE 0)
                                            + (IF p \in new THEN 1 ELSE 0)
  BY DEF Recorded
<1>2. DOMAIN after \subseteq (1..lastId) \X Kinds
  BY <1>1, Scanning DEF IInv, RecordedOK
<1>3. ASSUME ~blind, NEW p \in DOMAIN after PROVE after[p] = 1
  <2>1. CASE p \in DOMAIN incidents
    <3>1. incidents[p] = 1 /\ (p[1] <= scan.seen \/ ~Ahead(p[1]))
      BY <1>3, <2>1, Scanning DEF IInv, RecordedOK
    <3>2. p \notin new
      <4> SUFFICES ASSUME p \in new PROVE FALSE
        OBVIOUS
      <4>1. p[1] = row[1]
        OBVIOUS
      <4>2. Ahead(p[1]) /\ ~(row[1] <= scan.seen)
        BY <4>1, Scanning DEF Ahead
      <4> QED BY <3>1, <4>1, <4>2
    <3> QED BY <1>1, <2>1, <3>1, <3>2
  <2>2. CASE p \notin DOMAIN incidents
    BY <1>1, <2>2
  <2> QED BY <2>1, <2>2
<1> QED BY <1>1, <1>2, <1>3

\* A step of the scan leaves the table and the job alone.
LEMMA TableStays ==
    ASSUME IInv, UNCHANGED <<now, rows, lastId, samples, job, restarts, blind>>, watermark' \in 0..lastId
    PROVE  Counters' /\ RowsOK' /\ JobOK'
<1>1. Counters' /\ RowsOK'
  BY DEF IInv, Counters, RowsOK, SamplesCountedOnce, Row
<1>2. JobOK'
  BY DEF IInv, JobOK, Running, GroupsOK, Row, Aged
<1> QED BY <1>1, <1>2

LEMMA StartScanKeeps ==
    ASSUME IInv, StartScan
    PROVE  IInv'
<1> DEFINE todo == {<<i, rows[i].calls>> : i \in {j \in DOMAIN rows : j > watermark}}
<1>1. /\ scan = Idle /\ scan' = [at |-> "rows", seen |-> watermark, todo |-> todo]
      /\ UNCHANGED <<now, rows, lastId, samples, job, watermark, incidents, skipped, restarts, blind>>
  BY DEF StartScan, table, process
<1>2. Counters' /\ RowsOK' /\ JobOK'
  BY <1>1, TableStays DEF IInv, Counters
<1>3. \A row \in todo : row[1] \in DOMAIN rows /\ row[1] > watermark /\ row = <<row[1], rows[row[1]].calls>>
  OBVIOUS
<1>4. \A row \in todo : row \in (1..lastId) \X SUBSET Kinds
  BY DEF IInv, RowsOK, Row
<1>5. ScanOK'
  BY <1>1, <1>3, <1>4 DEF IInv, Counters, ScanOK
<1>6. RecordedOK'
  <2>1. Position' = Position
    BY <1>1 DEF Position, Idle
  <2>2. \A i : Ahead(i)' => Ahead(i)
    BY <1>1, <1>3 DEF Ahead
  <2> QED BY <1>1, <2>1, <2>2 DEF IInv, RecordedOK
<1> QED BY <1>2, <1>5, <1>6 DEF IInv

LEMMA IndexRowKeeps ==
    ASSUME IInv, scan # Idle, NEW row \in scan.todo, IndexRow(row)
    PROVE  IInv'
<1>1. /\ UNCHANGED <<now, rows, lastId, samples, job, watermark, skipped, restarts, blind>>
      /\ incidents' = Recorded(row[1], row[2])
      /\ \A other \in scan.todo : row[1] <= other[1]
      /\ scan' = [scan EXCEPT !.seen = row[1], !.todo = @ \ {row}]
  BY DEF IndexRow, NextRow, table, process
<1>2. scan' = [at |-> "rows", seen |-> row[1], todo |-> scan.todo \ {row}]
  <2> DEFINE old == [at |-> "rows", seen |-> scan.seen, todo |-> scan.todo]
             moved == [old EXCEPT !.seen = row[1]]
  <2>1. scan = old
    BY Zenon, Scanning
  <2>2. moved = [at |-> "rows", seen |-> row[1], todo |-> scan.todo]
    OBVIOUS
  <2>3. [moved EXCEPT !.todo = scan.todo \ {row}]
        = [[at |-> "rows", seen |-> row[1], todo |-> scan.todo] EXCEPT !.todo = scan.todo \ {row}]
    BY Zenon, <2>2
  <2>4. [[at |-> "rows", seen |-> row[1], todo |-> scan.todo] EXCEPT !.todo = scan.todo \ {row}]
        = [at |-> "rows", seen |-> row[1], todo |-> scan.todo \ {row}]
    OBVIOUS
  <2>5. scan' = [[scan EXCEPT !.seen = row[1]] EXCEPT !.todo = scan.todo \ {row}]
    BY Zenon, <1>1
  <2>6. [scan EXCEPT !.seen = row[1]] = moved
    BY Zenon, <2>1
  <2> HIDE DEF moved
  <2> QED BY Zenon, <2>3, <2>4, <2>5, <2>6
<1>3. Counters' /\ RowsOK' /\ JobOK'
  BY <1>1, TableStays DEF IInv, Counters
<1>4. \A other \in scan.todo \ {row} : other[1] > row[1]
  BY <1>1, Scanning DEF IInv, ScanOK, Idle
<1>5. ScanOK'
  <2>1. /\ scan'.seen = row[1] /\ scan'.todo = scan.todo \ {row}
        /\ scan' = [at |-> "rows", seen |-> scan'.seen, todo |-> scan'.todo]
    BY <1>2
  <2>2. watermark' = watermark /\ lastId' = lastId /\ row[1] \in watermark..lastId
    BY <1>1, Scanning
  <2>3. /\ scan.todo \subseteq (1..lastId) \X SUBSET Kinds
        /\ \A other, third \in scan.todo : other[1] = third[1] => other = third
    BY DEF IInv, ScanOK
  <2> QED BY <1>4, <2>1, <2>2, <2>3 DEF ScanOK
<1>6. RecordedOK'
  <2>1. /\ DOMAIN incidents' = {<<row[1], k>> : k \in row[2]} \cup DOMAIN incidents
        /\ DOMAIN incidents' \subseteq (1..lastId) \X Kinds
        /\ ~blind => \A p \in DOMAIN incidents' : incidents'[p] = 1
    BY <1>1, Scanning, RecordedOnce
  <2>2. Position' = row[1]
    BY <1>2 DEF Position, Idle
  <2>3. \A i : Ahead(i)' => Ahead(i)
    BY <1>1, <1>2 DEF Ahead
  <2>4. ASSUME ~blind, NEW p \in DOMAIN incidents' PROVE p[1] <= row[1] \/ ~Ahead(p[1])'
    <3>1. CASE p \in DOMAIN incidents
      <4>1. p[1] \in Nat /\ (p[1] <= scan.seen \/ ~Ahead(p[1]))
        BY <2>4, <3>1, Scanning DEF IInv, RecordedOK, Counters
      <4> QED BY <2>3, <4>1, Scanning
    <3>2. CASE p \in {<<row[1], k>> : k \in row[2]}
      BY <3>2, Scanning
    <3> QED BY <2>1, <3>1, <3>2
  <2> QED BY <1>1, <2>1, <2>2, <2>4 DEF RecordedOK
<1> QED BY <1>3, <1>5, <1>6 DEF IInv

\* Whatever ends a scan: the watermark comes to lie where it had got, or further on.
LEMMA ScanEnds ==
    ASSUME scan' = Idle, UNCHANGED rows, DOMAIN incidents' \subseteq (1..lastId') \X Kinds,
           ~blind' => \A p \in DOMAIN incidents' :
                        incidents'[p] = 1 /\ (p[1] <= watermark' \/ p[1] \notin DOMAIN rows)
    PROVE  ScanOK' /\ RecordedOK'
  BY DEF ScanOK, RecordedOK, Position, Ahead

\* What was recorded before a scan ended lies behind where it ended.
LEMMA Behind ==
    ASSUME IInv, NEW i \in Nat, Position <= i
    PROVE  ~blind => \A p \in DOMAIN incidents :
                       incidents[p] = 1 /\ (p[1] <= i \/ p[1] \notin DOMAIN rows)
<1> SUFFICES ASSUME ~blind, NEW p \in DOMAIN incidents
             PROVE  incidents[p] = 1 /\ (p[1] <= i \/ p[1] \notin DOMAIN rows)
  OBVIOUS
<1>1. p[1] \in Nat /\ incidents[p] = 1 /\ (p[1] <= Position \/ ~Ahead(p[1]))
  BY DEF IInv, RecordedOK, Counters
<1>2. Position \in Nat
  BY Scanning DEF IInv, Counters, Position
<1> QED BY <1>1, <1>2 DEF Ahead

LEMMA FailRowKeeps ==
    ASSUME IInv, scan # Idle, NEW row \in scan.todo, NEW k \in Kinds, FailRow(row, k)
    PROVE  IInv'
<1> DEFINE before == {j \in row[2] : j < k}
<1>1. /\ UNCHANGED <<now, rows, lastId, samples, job, restarts, blind>>
      /\ incidents' = Recorded(row[1], before)
      /\ watermark' = LastOf({watermark, row[1]}) /\ scan' = Idle
  BY DEF FailRow, table, process
<1>2. row[1] \in Nat /\ row[1] > scan.seen /\ watermark' = row[1] /\ watermark' \in 0..lastId
  BY <1>1, Scanning, LastOfTwo
<1>3. Counters' /\ RowsOK' /\ JobOK'
  BY <1>1, <1>2, TableStays
<1>4. /\ DOMAIN incidents' = {<<row[1], j>> : j \in before} \cup DOMAIN incidents
      /\ DOMAIN incidents' \subseteq (1..lastId) \X Kinds
      /\ ~blind => \A p \in DOMAIN incidents' : incidents'[p] = 1
  <2>1. before \in SUBSET Kinds
    BY Scanning
  <2> HIDE DEF before
  <2> QED BY <1>1, <2>1, RecordedOnce
<1>5. ASSUME ~blind, NEW p \in DOMAIN incidents' PROVE p[1] <= row[1] \/ p[1] \notin DOMAIN rows
  <2>1. CASE p \in DOMAIN incidents
    BY <1>2, <1>5, <2>1, Scanning, Behind
  <2>2. CASE p \in {<<row[1], j>> : j \in before}
    BY <1>2, <2>2
  <2> QED BY <1>4, <2>1, <2>2
<1>6. ScanOK' /\ RecordedOK'
  BY <1>1, <1>2, <1>4, <1>5, ScanEnds
<1> QED BY <1>3, <1>6 DEF IInv

LEMMA FinishScanKeeps ==
    ASSUME IInv, FinishScan
    PROVE  IInv'
<1>1. /\ UNCHANGED <<now, rows, lastId, samples, job, incidents, restarts, blind>>
      /\ scan # Idle /\ watermark' = LastOf({watermark, scan.seen}) /\ scan' = Idle
  BY DEF FinishScan, table, process
<1>2. watermark' = scan.seen /\ watermark' \in 0..lastId /\ Position = scan.seen /\ scan.seen \in Nat
  BY <1>1, Scanning, LastOfTwo
<1>3. Counters' /\ RowsOK' /\ JobOK'
  BY <1>1, <1>2, TableStays
<1>4. ~blind => \A p \in DOMAIN incidents :
                  incidents[p] = 1 /\ (p[1] <= watermark' \/ p[1] \notin DOMAIN rows)
  BY <1>2, Behind
<1>5. ScanOK' /\ RecordedOK'
  BY <1>1, <1>4, ScanEnds DEF IInv, RecordedOK
<1> QED BY <1>3, <1>5 DEF IInv

LEMMA RestartKeeps ==
    ASSUME IInv, Restart
    PROVE  IInv'
<1>1. /\ UNCHANGED <<now, rows, lastId, samples, incidents>>
      /\ job' = Idle /\ scan' = Idle /\ restarts' = restarts + 1
      /\ (watermark' = LastOf(DOMAIN rows) /\ blind' = blind) \/ (watermark' = 0 /\ blind' = TRUE)
  BY DEF Restart, table
<1>2. /\ lastId \in Nat /\ DOMAIN rows \in SUBSET (0..lastId)
      /\ LastOf(DOMAIN rows) \in 0..lastId /\ \A i \in DOMAIN rows : i <= LastOf(DOMAIN rows)
  <2>1. lastId \in Nat /\ DOMAIN rows \in SUBSET (0..lastId)
    BY DEF IInv, Counters, RowsOK
  <2> QED BY <2>1, LastExists
<1>3. Counters'
  <2>1. blind' \in BOOLEAN
    BY Zenon, <1>1 DEF IInv, Counters
  <2> QED BY <1>1, <1>2, <2>1 DEF IInv, Counters
<1>4. RowsOK'
  BY <1>1 DEF IInv, RowsOK, SamplesCountedOnce, Row
<1>5. JobOK'
  BY <1>1 DEF JobOK
<1>6. ~blind' => \A p \in DOMAIN incidents :
                   incidents[p] = 1 /\ (p[1] <= watermark' \/ p[1] \notin DOMAIN rows)
  <2> SUFFICES ASSUME ~blind', NEW p \in DOMAIN incidents
               PROVE  incidents[p] = 1 /\ (p[1] <= watermark' \/ p[1] \notin DOMAIN rows)
    OBVIOUS
  <2>0. blind' # TRUE
    OBVIOUS
  <2>1. blind' = blind /\ watermark' = LastOf(DOMAIN rows)
    BY <1>1, <2>0
  <2>2. ~blind
    BY Zenon, <2>1
  <2> QED BY <1>2, <2>1, <2>2 DEF IInv, RecordedOK
<1>7. ScanOK' /\ RecordedOK'
  BY <1>1, <1>6, ScanEnds DEF IInv, RecordedOK
<1> QED BY <1>3, <1>4, <1>5, <1>7 DEF IInv

LEMMA InvStep == HistoryConstants /\ IInv /\ [Next]_vars => IInv'
<1> SUFFICES ASSUME HistoryConstants, IInv, [Next]_vars PROVE IInv'
  OBVIOUS
<1>1. CASE Insert
  BY <1>1, InsertKeeps DEF Insert
<1>2. CASE Downsample
  BY <1>2, JobKeeps, DeleteKeeps DEF Downsample
<1>3. ASSUME Scan PROVE IInv'
  <2>1. ASSUME scan # Idle, NEW row \in scan.todo, ScanRow(row) PROVE IInv'
    BY <2>1, IndexRowKeeps, FailRowKeeps DEF ScanRow
  <2> QED BY <1>3, <2>1, StartScanKeeps, FinishScanKeeps DEF Scan
<1>4. CASE Restart
  BY <1>4, RestartKeeps
<1>5. CASE Tick
  <2>1. UNCHANGED <<rows, lastId, samples, job, watermark, scan, incidents, skipped, restarts, blind>>
        /\ now \in Nat /\ now' \in Nat /\ now' >= now
    BY <1>5 DEF Tick, table, index, process, IInv, Counters
  <2>2. Counters' /\ RowsOK' /\ ScanOK' /\ RecordedOK'
    BY <2>1 DEF IInv, Counters, RowsOK, SamplesCountedOnce, Row, ScanOK, RecordedOK, Position, Ahead
  <2>3. JobOK'
    BY <2>1, JobStays
  <2> QED BY <2>2, <2>3 DEF IInv
<1>6. CASE UNCHANGED vars
  BY <1>6 DEF vars, table, index, process, IInv, Counters, RowsOK, SamplesCountedOnce, Row, JobOK, Running,
              GroupsOK, Aged, ScanOK, RecordedOK, Position, Ahead
<1> QED BY <1>1, <1>2, <1>3, <1>4, <1>5, <1>6 DEF Next

LEMMA InvHolds == Spec => []IInv
  BY HistoryConstants, InvInit, InvStep, PTL DEF Spec

(***************************************************************************)
(* The rows, the job and the scan have the types the code relies on.       *)
(***************************************************************************)
THEOREM HistoryTypes == Spec => []TypeOK
  BY InvHolds, InvTypes, PTL

(***************************************************************************)
(* No sample is in two rows, for any span of the averages and however the  *)
(* downsampling is interleaved with inserts and cut short.                 *)
(***************************************************************************)
THEOREM HistoryCountedOnce == Spec => []SamplesCountedOnce
<1>1. IInv => SamplesCountedOnce
  BY DEF IInv, RowsOK
<1> QED BY <1>1, InvHolds, PTL

(***************************************************************************)
(* No incident is recorded twice for a row, whatever scan fails or is cut  *)
(* short by a restart that can read the table.                             *)
(***************************************************************************)
THEOREM HistoryIncidentsOnce == Spec => []IncidentsOnce
<1>1. IInv => IncidentsOnce
  BY DEF IInv, RecordedOK, IncidentsOnce
<1> QED BY <1>1, InvHolds, PTL

\* Only a deletion takes a sample away, and then one of an aged raw row that no group
\* of the job has.
LEMMA DeletionLoses ==
    ASSUME HistoryConstants, IInv, DeleteAged, NEW i \in DOMAIN rows, Lost(i)
    PROVE  rows[i].raw /\ i \in Aged /\ UnseenBySelect(i)
<1>1. PICK n \in Nat : \E G \in [1..n -> job.groups], average \in [1..n -> UNION job.groups] :
        Replaced(n, G, average)
  BY Deletion
<1>2. PICK G \in [1..n -> job.groups], average \in [1..n -> UNION job.groups] : Replaced(n, G, average)
  BY <1>1
<1> USE DEF Replaced
<1>3. i \in Aged /\ rows[i].raw
  <2>1. i \notin DOMAIN rows \ Aged
    <3> SUFFICES ASSUME i \in DOMAIN rows \ Aged PROVE FALSE
      OBVIOUS
    <3>1. i \in DOMAIN rows' /\ rows'[i] = rows[i]
      BY <1>2
    <3> QED BY <3>1 DEF Lost
  <2> QED BY <2>1 DEF Aged
<1>4. rows[i].of = {i}
  BY <1>3 DEF IInv, RowsOK
<1>5. ASSUME NEW a \in UNION job.groups, a.of \cap rows[i].of # {} PROVE FALSE
  <2>1. PICK H \in job.groups : a \in H
    OBVIOUS
  <2>2. PICK g \in 1..n : G[g] = H
    BY <1>2
  <2>3. average[g].of = a.of
    BY <1>2, <2>1, <2>2 DEF GroupsOK
  <2>4. i \in rows'[lastId + g].of /\ lastId + g \in DOMAIN rows'
    BY <1>2, <1>4, <1>5, <2>3
  <2> QED BY <1>4, <2>4 DEF Lost
<1> QED BY <1>3, <1>5 DEF UnseenBySelect

(***************************************************************************)
(* A sample is lost from the table only if it was raw, had aged by the     *)
(* DELETE and was not found by the SELECT.                                 *)
(***************************************************************************)
THEOREM HistoryLostUnselected == Spec => LostUnselected
<1>1. HistoryConstants /\ IInv /\ [Next]_vars =>
        [\A i \in DOMAIN rows : Lost(i) => rows[i].raw /\ i \in Aged /\ UnseenBySelect(i)]_vars
  <2> SUFFICES ASSUME HistoryConstants, IInv, Next, NEW i \in DOMAIN rows, Lost(i)
               PROVE  rows[i].raw /\ i \in Aged /\ UnseenBySelect(i)
    OBVIOUS
  <2>1. CASE DeleteAged
    BY <2>1, DeletionLoses
  <2>2. CASE Insert
    <3>1. i \in DOMAIN rows' /\ rows'[i] = rows[i]
      BY <2>2 DEF Insert, InsertMetric, IInv, Counters, RowsOK
    <3> QED BY <3>1 DEF Lost
  <2>3. CASE UNCHANGED rows
    BY <2>3 DEF Lost
  <2> QED
    BY <2>1, <2>2, <2>3 DEF Next, Downsample, SelectAged, BeginAverages, AbortDownsampling, Scan, StartScan,
       ScanRow, IndexRow, FailRow, FinishScan, Restart, Tick, table
<1> QED BY <1>1, HistoryConstants, InvHolds, PTL DEF Spec, LostUnselected

-----------------------------------------------------------------------------
(* The loop that the samples come from, for any pods and addresses.          *)

\* A list is the API's answer at the time; nothing else writes it, but to empty it.
LEMMA ListedStep == TargetsAsListed /\ [LoopNext]_loopVars => TargetsAsListed'
<1> SUFFICES ASSUME TargetsAsListed, [LoopNext]_loopVars PROVE TargetsAsListed'
  OBVIOUS
<1>1. CASE Discover
  <2>1. PICK order \in SetToSeqs(Addressed) :
           targets' = [n \in DOMAIN order |-> [pod |-> order[n], at |-> address[order[n]]]]
    BY <1>1 DEF Discover
  <2>2. asked' = [p \in Listed |-> address[p]]
    BY <1>1 DEF Discover, AskApi
  <2>3. \A n \in DOMAIN order : order[n] \in Listed
    BY <2>1 DEF SetToSeqs, Addressed
  <2> QED BY <2>1, <2>2, <2>3 DEF TargetsAsListed
<1>2. CASE targets' = <<>>
  BY <1>2 DEF TargetsAsListed
<1>3. CASE UNCHANGED <<targets, asked>>
  BY <1>3 DEF TargetsAsListed
<1> QED
  BY <1>1, <1>2, <1>3 DEF LoopNext, DiscoverNothing, BeginCycle, Ask, Unreachable,
     CycleError, Store, NextTarget, EndCycle, Start, Finish, Delete, LoopRestart,
     loopVars, cluster, server

(***************************************************************************)
(* A target had its address when the API was last asked, whether or not it *)
(* answered.                                                               *)
(***************************************************************************)
THEOREM LoopTargetsAsListed == LoopSpec => []TargetsAsListed
<1>1. LoopInit => TargetsAsListed
  BY DEF LoopInit, TargetsAsListed
<1> QED BY <1>1, ListedStep, PTL DEF LoopSpec

\* An answer of the API lists labelled pods at the addresses it has for them.
LEMMA ListTypes ==
    ASSUME LoopTypeOK, ScrapeConstants, NEW order \in SetToSeqs(Addressed)
    PROVE  [n \in DOMAIN order |-> [pod |-> order[n], at |-> address[order[n]]]]
             \in Seq([pod : Pods, at : Addresses])
<1> DEFINE c == Cardinality(Addressed)
           Target == [pod : Pods, at : Addresses]
           list == [n \in 1..c |-> [pod |-> order[n], at |-> address[order[n]]]]
<1>1. c \in Nat
  <2>1. Addressed \subseteq Listed
    BY DEF Addressed
  <2> QED BY <2>1, FS_Subset, FS_CardinalityType DEF ScrapeConstants
<1>2. order \in [1..c -> Addressed]
  BY DEF SetToSeqs
<1>3. \A p \in Addressed : p \in Pods /\ address[p] \in Addresses
  BY DEF Addressed, Pods, LoopTypeOK
<1>4. list \in [1..c -> Target]
  BY <1>2, <1>3
<1>5. list \in Seq(Target)
  <2> HIDE DEF c, Target, list
  <2> QED BY <1>1, <1>4
<1> QED BY <1>2, <1>5

LEMMA LoopTypesStep == ScrapeConstants /\ LoopTypeOK /\ [LoopNext]_loopVars => LoopTypeOK'
<1> SUFFICES ASSUME ScrapeConstants, LoopTypeOK, [LoopNext]_loopVars PROVE LoopTypeOK'
  OBVIOUS
<1> DEFINE List == Seq([pod : Pods, at : Addresses])
<1> USE DEF LoopTypeOK
<1>1. CASE Discover
  <2>1. PICK order \in SetToSeqs(Addressed) :
           targets' = [n \in DOMAIN order |-> [pod |-> order[n], at |-> address[order[n]]]]
    BY <1>1 DEF Discover
  <2>2. targets' \in List
    BY <2>1, ListTypes
  <2> QED BY <1>1, <2>2 DEF Discover, cluster
<1>2. CASE DiscoverNothing
  BY <1>2 DEF DiscoverNothing, cluster
<1>3. CASE BeginCycle
  BY <1>3 DEF BeginCycle, cluster
<1>4. CASE Ask
  <2>1. cycle # <<>> /\ (NextTarget \/ EndCycle)
    BY <1>4 DEF Ask, Store, Unreachable, CycleError
  <2>2. cycle' \in List
    <3>1. CASE cycle' = <<>>
      BY <3>1
    <3>2. CASE cycle' = Tail(cycle)
      BY <2>1, <3>2
    <3> QED BY <2>1, <3>1, <3>2 DEF NextTarget, EndCycle
  <2> QED BY <2>1, <2>2 DEF NextTarget, EndCycle, cluster
<1>5. ASSUME NEW p \in Pods, Finish(p) \/ Delete(p) \/ \E a \in Addresses : Start(p, a)
      PROVE  LoopTypeOK'
  BY <1>5 DEF Finish, Delete, Start, server, ScrapeConstants
<1>6. CASE LoopRestart
  BY <1>6 DEF LoopRestart, cluster, ScrapeConstants
<1>7. CASE UNCHANGED loopVars
  BY <1>7 DEF loopVars, cluster, server
<1> QED BY <1>1, <1>2, <1>3, <1>4, <1>5, <1>6, <1>7 DEF LoopNext

(***************************************************************************)
(* Types: what is listed, and what is left of a cycle, are pods with an    *)
(* address each, whatever order the API lists them in (discovery.py:202,   *)
(* metrics_collector.py:704).                                              *)
(***************************************************************************)
THEOREM LoopTypes == LoopSpec => []LoopTypeOK
<1>1. LoopInit => LoopTypeOK
  BY ScrapeConstants DEF LoopInit, LoopTypeOK
<1> QED BY <1>1, LoopTypesStep, ScrapeConstants, PTL DEF LoopSpec
=============================================================================
