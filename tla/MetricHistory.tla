---------------------------- MODULE MetricHistory ----------------------------
(***************************************************************************)
(* The table cluster_metrics and the two jobs that go over it: the hourly  *)
(* downsampling, which replaces raw rows older than an hour by averages,   *)
(* and the incident scan, which follows the table by row id and records    *)
(* the incidents each new row calls for.  Collectors and the ingest        *)
(* handler insert meanwhile; the process may die and start again.          *)
(*                                                                         *)
(* SQLite lets one connection write at a time, from its first change to    *)
(* its commit; a SELECT that was fetched keeps no lock.                    *)
(***************************************************************************)
EXTENDS Integers, FiniteSetsExt, SequencesExt

CONSTANTS Series,        \* labels, tenant and organization of a sample
          Kinds,         \* incidents a row may call for, in the order recorded
          Hour,          \* the span of an average, and the age that gets one
          MaxSamples,    \* bound: samples inserted
          MaxRestarts,   \* bound: restarts of the process
          MaxTime        \* bound: the clock stops here

ASSUME HistoryConstants ==
    /\ Kinds \subseteq Nat /\ Hour \in Nat \ {0}
    /\ MaxSamples \in Nat /\ MaxRestarts \in Nat /\ MaxTime \in Nat

VARIABLES now,
          rows,        \* cluster_metrics, by id; of, the samples in it, is history
          lastId,      \* the last id the table gave out (AUTOINCREMENT)
          job,         \* where downsample_hourly_metrics is, and its groups
          watermark,   \* _last_metric_id
          scan,        \* where scan_recent_metrics_for_incidents is, and its rows
          incidents,   \* incident_events: how often each row and kind is recorded
          samples,     \* history: the ids of all samples inserted
          skipped,     \* history: rows a failure or a restart passed over
          restarts,    \* history: restarts so far
          blind        \* history: one of them could not read the table

vars == <<now, rows, lastId, job, watermark, scan, incidents, samples, skipped,
          restarts, blind>>
table == <<rows, lastId, samples>>
index == <<watermark, scan, incidents, skipped>>
process == <<restarts, blind>>

Idle == [at |-> "idle"]
NoRow == [i \in {} |-> 0]
LastOf(S) == Max({0} \cup S)

Init ==
    /\ now = 0 /\ lastId = 0 /\ watermark = 0
    /\ rows = NoRow /\ incidents = NoRow
    /\ job = Idle /\ scan = Idle
    /\ samples = {} /\ skipped = {}
    /\ restarts = 0 /\ blind = FALSE

WriteLocked == job.at = "writing"

-----------------------------------------------------------------------------
\* insert_metric, stamped now, and ingest_metric_records, stamped by the client.
InsertMetric(s, stamp, calls) ==
    /\ ~WriteLocked /\ Cardinality(samples) < MaxSamples
    /\ lastId' = lastId + 1
    /\ rows' = [i \in {lastId'} \cup DOMAIN rows |->
                  IF i = lastId'
                  THEN [series |-> s, stamp |-> stamp, raw |-> TRUE, calls |-> calls,
                        of |-> {lastId'}]
                  ELSE rows[i]]
    /\ samples' = samples \cup {lastId'}
    /\ UNCHANGED <<now, job, index, process>>

-----------------------------------------------------------------------------
\* The raw rows older than an hour, and the groups their averages are of.
Aged == {i \in DOMAIN rows : rows[i].raw /\ rows[i].stamp < now - Hour}
SameGroup(i, j) ==
    /\ rows[i].series = rows[j].series
    /\ rows[i].stamp \div Hour = rows[j].stamp \div Hour

\* An average is beyond a limit that all its samples are beyond, and may be beyond
\* one that some are.
Average(group) ==
    [series : {rows[i].series : i \in group},
     stamp  : {(rows[i].stamp \div Hour) * Hour : i \in group},
     raw    : {FALSE},
     calls  : {c \in SUBSET UNION {rows[i].calls : i \in group} :
                 \A k \in Kinds : (\A i \in group : k \in rows[i].calls) => k \in c},
     of     : {UNION {rows[i].of : i \in group}}]

Averages(aged) == {Average({j \in aged : SameGroup(i, j)}) : i \in aged}

\* downsample_hourly_metrics: the SELECT, fetched whole.
SelectAnyAged ==
    /\ job = Idle
    /\ job' = [at |-> "selected", groups |-> Averages({i \in DOMAIN rows : rows[i].stamp < now - Hour})]
    /\ UNCHANGED <<now, table, index, process>>
SelectAged ==
    /\ job = Idle
    /\ job' = [at |-> "selected", groups |-> Averages(Aged)]
    /\ UNCHANGED <<now, table, index, process>>

\* The first INSERT of an average takes the write lock.
BeginAverages ==
    /\ job.at = "selected" /\ job.groups # {}
    /\ job' = [job EXCEPT !.at = "writing"]
    /\ UNCHANGED <<now, table, index, process>>

\* The DELETE, with a clock of its own, and the commit.
DeleteAnyAged ==
    /\ job.at = "writing" \/ (job.at = "selected" /\ job.groups = {})
    /\ LET groups == SetToSeq(job.groups)
           kept == {i \in DOMAIN rows : rows[i].stamp >= now - Hour}
           new == {lastId + g : g \in DOMAIN groups}
       IN  \E average \in [DOMAIN groups -> UNION job.groups] :
             /\ \A g \in DOMAIN groups : average[g] \in groups[g]
             /\ rows' = [i \in kept \cup new |->
                           IF i \in new THEN average[i - lastId] ELSE rows[i]]
             /\ lastId' = lastId + Len(groups)
    /\ job' = Idle
    /\ UNCHANGED <<now, samples, index, process>>
DeleteAged ==
    /\ job.at = "writing" \/ (job.at = "selected" /\ job.groups = {})
    /\ LET groups == SetToSeq(job.groups)
           kept == DOMAIN rows \ Aged
           new == {lastId + g : g \in DOMAIN groups}
       IN  \E average \in [DOMAIN groups -> UNION job.groups] :
             /\ \A g \in DOMAIN groups : average[g] \in groups[g]
             /\ rows' = [i \in kept \cup new |->
                           IF i \in new THEN average[i - lastId] ELSE rows[i]]
             /\ lastId' = lastId + Len(groups)
    /\ job' = Idle
    /\ UNCHANGED <<now, samples, index, process>>

\* An error of sqlite rolls everything back.
AbortDownsampling ==
    /\ job # Idle
    /\ job' = Idle
    /\ UNCHANGED <<now, table, index, process>>

-----------------------------------------------------------------------------
\* run_once of the analytics engine: the rows above the watermark, fetched whole.
StartScan ==
    /\ scan = Idle
    /\ scan' = [at |-> "rows", seen |-> watermark,
                todo |-> {<<i, rows[i].calls>> : i \in {j \in DOMAIN rows : j > watermark}}]
    /\ UNCHANGED <<now, table, job, watermark, incidents, skipped, process>>

NextRow(row) == row \in scan.todo /\ \A other \in scan.todo : row[1] <= other[1]

Recorded(i, kinds) ==
    LET new == {<<i, k>> : k \in kinds}
    IN  [p \in new \cup DOMAIN incidents |->
            (IF p \in DOMAIN incidents THEN incidents[p] ELSE 0)
            + (IF p \in new THEN 1 ELSE 0)]

\* The incidents of the next row, each in a transaction of its own.
IndexRow(row) ==
    /\ NextRow(row)
    /\ WriteLocked => row[2] = {}
    /\ incidents' = Recorded(row[1], row[2])
    /\ scan' = [scan EXCEPT !.seen = row[1], !.todo = @ \ {row}]
    /\ UNCHANGED <<now, table, job, watermark, skipped, process>>

\* One of them cannot be written: the scan ends, the row counts as seen.
FailRowUnseen(row, k) ==
    /\ NextRow(row) /\ k \in row[2]
    /\ LET before == {j \in row[2] : j < k}
       IN  /\ WriteLocked => before = {}
           /\ incidents' = Recorded(row[1], before)
    /\ watermark' = LastOf({watermark, scan.seen})
    /\ scan' = Idle
    /\ UNCHANGED <<now, table, job, skipped, process>>
FailRow(row, k) ==
    /\ NextRow(row) /\ k \in row[2]
    /\ LET before == {j \in row[2] : j < k}
       IN  /\ WriteLocked => before = {}
           /\ incidents' = Recorded(row[1], before)
    /\ watermark' = LastOf({watermark, row[1]})
    /\ scan' = Idle
    /\ skipped' = skipped \cup {row[1]}
    /\ UNCHANGED <<now, table, job, process>>

FinishScanAtLast ==
    /\ scan # Idle /\ scan.todo = {}
    /\ watermark' = LastOf({watermark, scan.seen} \cup DOMAIN rows)
    /\ scan' = Idle
    /\ UNCHANGED <<now, table, job, incidents, skipped, process>>
FinishScan ==
    /\ scan # Idle /\ scan.todo = {}
    /\ watermark' = LastOf({watermark, scan.seen})
    /\ scan' = Idle
    /\ UNCHANGED <<now, table, job, incidents, skipped, process>>

-----------------------------------------------------------------------------
\* The process dies and starts again: the watermark is bootstrapped at the last row,
\* or at none when the table cannot be read.
Restart ==
    /\ restarts < MaxRestarts
    /\ restarts' = restarts + 1
    /\ job' = Idle /\ scan' = Idle
    /\ \/ watermark' = LastOf(DOMAIN rows) /\ UNCHANGED blind
       \/ watermark' = 0 /\ blind' = TRUE
    /\ skipped' = skipped \cup {i \in DOMAIN rows : i <= watermark'}
    /\ UNCHANGED <<now, table, incidents>>

Tick ==
    /\ now < MaxTime
    /\ now' = now + 1
    /\ UNCHANGED <<table, job, index, process>>

Insert == \E s \in Series, stamp \in 0..now, calls \in SUBSET Kinds : InsertMetric(s, stamp, calls)
Downsample == SelectAged \/ BeginAverages \/ DeleteAged \/ AbortDownsampling
ScanRow(row) == IndexRow(row) \/ \E k \in Kinds : FailRow(row, k)
Scan == StartScan \/ (scan # Idle /\ \E row \in scan.todo : ScanRow(row)) \/ FinishScan
Next == Insert \/ Downsample \/ Scan \/ Restart \/ Tick

\* The analytics thread goes on scanning.
Spec == Init /\ [][Next]_vars /\ WF_vars(Scan)

-----------------------------------------------------------------------------
TypeOK ==
    /\ now \in Nat /\ lastId \in Nat /\ restarts \in Nat /\ blind \in BOOLEAN
    /\ DOMAIN rows \subseteq 1..lastId /\ samples \subseteq 1..lastId
    /\ watermark \in 0..lastId
    /\ \A i \in DOMAIN rows :
         /\ rows[i].series \in Series /\ rows[i].calls \subseteq Kinds
         /\ rows[i].stamp \in Nat /\ rows[i].raw \in BOOLEAN
         /\ rows[i].of # {} /\ rows[i].of \subseteq samples
    /\ job.at \in {"idle", "selected", "writing"}
    /\ scan.at \in {"idle", "rows"}
    /\ DOMAIN incidents \subseteq (1..lastId) \X Kinds

(***************************************************************************)
(* No sample is in two rows: none is averaged twice, or both averaged and  *)
(* kept, whatever is inserted while a job runs and however it is cut short *)
(* (metrics_collector.py:171-231).                                         *)
(***************************************************************************)
SamplesCountedOnce ==
    \A i, j \in DOMAIN rows : rows[i].of \cap rows[j].of # {} => i = j

(***************************************************************************)
(* An incident is recorded once for a row, across scans that fail in the   *)
(* middle of a row and restarts in the middle of a scan, unless a restart  *)
(* could not read the table (analytics_engine.py:148-225, 329-346).        *)
(***************************************************************************)
IncidentsOnce == ~blind => \A p \in DOMAIN incidents : incidents[p] = 1

(***************************************************************************)
(* A row is in the end indexed with all its incidents, unless it is        *)
(* downsampled first, one of its incidents could not be written, or a      *)
(* restart passed it over (analytics_engine.py:136-150, 338-346).          *)
(***************************************************************************)
Indexed(i) == \A k \in rows[i].calls : <<i, k>> \in DOMAIN incidents
EveryRowIndexed ==
    \A i \in 1..(2 * MaxSamples) :
        i \in DOMAIN rows ~> i \notin DOMAIN rows \/ Indexed(i) \/ i \in skipped

(***************************************************************************)
(* A sample is gone from the table only when a downsampling deletes it raw,*)
(* and its SELECT did not find it, the sample having come in or aged since *)
(* then.  No average is deleted, and a sample the SELECT found is not lost *)
(* however the job is cut short (metrics_collector.py:171-231).            *)
(***************************************************************************)
Lost(i) == \E s \in rows[i].of : \A j \in DOMAIN rows' : s \notin rows'[j].of
UnseenBySelect(i) == \A average \in UNION job.groups : average.of \cap rows[i].of = {}
LostUnselected ==
    [][\A i \in DOMAIN rows : Lost(i) => rows[i].raw /\ i \in Aged /\ UnseenBySelect(i)]_vars

(***************************************************************************)
(* "Downsampling job started: aggregating raw metrics into hourly          *)
(* averages" (metrics_collector.py:165): a sample that is no longer kept   *)
(* as a raw row is part of an average.                                     *)
(***************************************************************************)
EverySampleKept == \A s \in samples : \E i \in DOMAIN rows : s \in rows[i].of
==============================================================================
