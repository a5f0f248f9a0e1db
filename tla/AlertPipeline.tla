---------------------------- MODULE AlertPipeline ----------------------------
(***************************************************************************)
(* The path of a threshold breach from AlertBuffer.capture to a            *)
(* notification: the buffer and its 60-second window, the thread that      *)
(* announces each breach at once, the thread of each flush that announces  *)
(* the buffered breaches in bundles, and the cooldown cache all of them    *)
(* share.  The clock reading of the cooldown is taken before its lock.     *)
(*                                                                         *)
(* A worker is the immediate thread of an event or one of Flushers; its    *)
(* queue holds the bundles it still has to announce.  One clock stands for *)
(* time.monotonic and time.time.                                           *)
(***************************************************************************)
EXTENDS AlertGrouping, Integers, FiniteSets

CONSTANTS Flushers,       \* threads of _dispatch_flush_groups_staggered
          BufferWindow,   \* BUFFER_WINDOW_SEC
          Cooldown,       \* ALERT_COOLDOWN_INTERVAL_SEC
          LastCapture,    \* bound: no breach is captured after this instant
          MaxTime         \* bound: the clock stops here

ASSUME PipelineConstants ==
    /\ Flushers \cap Events = {}
    /\ BufferWindow \in Nat /\ Cooldown \in Nat
    /\ LastCapture \in Nat /\ MaxTime \in Nat

VARIABLES now,           \* the clock
          buffer,        \* _events
          windowStart,   \* _window_started_at
          lastSent,      \* cooldown_cache
          unfired,       \* captured, and fire_immediate not yet called
          queue,         \* the bundles each worker still has to announce
          pc,            \* "idle", or what the worker does next with the first
          readAt,        \* now of _should_suppress_throttled_alert
          captured,      \* history: the breaches captured
          settled,       \* history: those whose flush bundle was disposed of
          lost,          \* history: those whose flush worker died before
          passes         \* history: what passed the cooldown, and when

vars == <<now, buffer, windowStart, lastSent, unfired, queue, pc, readAt,
          captured, settled, lost, passes>>

Workers == Events \cup Flushers

Init ==
    /\ now = 0 /\ windowStart = 0
    /\ buffer = <<>>
    /\ lastSent = [k \in {} |-> 0]
    /\ unfired = {}
    /\ queue = [w \in Workers |-> <<>>]
    /\ pc = [w \in Workers |-> "idle"]
    /\ readAt = [w \in Workers |-> 0]
    /\ captured = {} /\ settled = {} /\ lost = {} /\ passes = {}

-----------------------------------------------------------------------------
\* capture, under the buffer's lock: the scrape loop or a handler of /api/metrics.
Capture(e) ==
    /\ e \notin captured /\ now <= LastCapture
    /\ buffer' = Append(buffer, e)
    /\ captured' = captured \cup {e}
    /\ unfired' = unfired \cup {e}
    /\ UNCHANGED <<now, windowStart, lastSent, queue, pc, readAt, settled, lost, passes>>

\* fire_immediate, after the lock: a thread of its own announces the event alone.
FireImmediate(e) ==
    /\ e \in unfired
    /\ unfired' = unfired \ {e}
    /\ queue' = [queue EXCEPT ![e] = << <<e>> >>]
    /\ pc' = [pc EXCEPT ![e] = "clock"]
    /\ UNCHANGED <<now, buffer, windowStart, lastSent, readAt, captured, settled, lost, passes>>

WindowElapsed == now - windowStart >= BufferWindow

\* _flush_if_window_elapsed and _flush_grouped_events: the flush loop swaps the
\* buffer under its lock, groups what it took and starts a thread for the groups.
FlushKeepingBuffer(f) ==
    /\ WindowElapsed /\ buffer # <<>> /\ pc[f] = "idle"
    /\ windowStart' = now
    /\ queue' = [queue EXCEPT ![f] = GroupEvents(buffer)]
    /\ pc' = [pc EXCEPT ![f] = "clock"]
    /\ UNCHANGED <<now, buffer, lastSent, unfired, readAt, captured, settled, lost, passes>>
FlushIfWindowElapsed(f) ==
    /\ WindowElapsed /\ buffer # <<>> /\ pc[f] = "idle"
    /\ buffer' = <<>>
    /\ windowStart' = now
    /\ queue' = [queue EXCEPT ![f] = GroupEvents(buffer)]
    /\ pc' = [pc EXCEPT ![f] = "clock"]
    /\ UNCHANGED <<now, lastSent, unfired, readAt, captured, settled, lost, passes>>

-----------------------------------------------------------------------------
\* _should_suppress_throttled_alert reads the clock, then waits for the lock.
ReadClock(w) ==
    /\ pc[w] = "clock"
    /\ readAt' = [readAt EXCEPT ![w] = now]
    /\ pc' = [pc EXCEPT ![w] = "check"]
    /\ UNCHANGED <<now, buffer, windowStart, lastSent, unfired, queue, captured,
                   settled, lost, passes>>

\* The keys of a bundle that were stamped too recently, as the reading tells.
CoolingInclusive(K, t) == {k \in K \cap DOMAIN lastSent : t - lastSent[k] <= Cooldown}
CoolingNotStale(K, t) ==
    {k \in K \cap DOMAIN lastSent : t - lastSent[k] \in 0..(Cooldown - 1)}
Cooling(K, t) == {k \in K \cap DOMAIN lastSent : t - lastSent[k] < Cooldown}

\* The worker is done with the first bundle of its queue: the next one, if any.
ReturnAfterBundle(w) ==
    /\ queue' = [queue EXCEPT ![w] = Tail(@)]
    /\ pc' = [pc EXCEPT ![w] = "idle"]
    /\ settled' = IF w \in Flushers THEN settled \cup ToSet(Head(queue[w])) ELSE settled
NextBundle(w) ==
    /\ queue' = [queue EXCEPT ![w] = Tail(@)]
    /\ pc' = [pc EXCEPT ![w] = IF Len(queue[w]) = 1 THEN "idle" ELSE "clock"]
    /\ settled' = IF w \in Flushers THEN settled \cup ToSet(Head(queue[w])) ELSE settled

\* Under the cooldown lock: one cooling key suppresses the whole bundle.
Suppress(w) ==
    /\ pc[w] = "check"
    /\ Cooling(CooldownKeys(Head(queue[w])), readAt[w]) # {}
    /\ NextBundle(w)
    /\ UNCHANGED <<now, buffer, windowStart, lastSent, unfired, readAt, captured, lost, passes>>

\* Under the cooldown lock: every key is stamped, before anything is sent.
PassStampingOne(w) ==
    LET K == CooldownKeys(Head(queue[w]))
        t == readAt[w]
        first == CHOOSE k \in K : TRUE
    IN  /\ pc[w] = "check"
        /\ Cooling(K, t) = {}
        /\ lastSent' = [k \in {first} \cup DOMAIN lastSent |->
                           IF k = first THEN t ELSE lastSent[k]]
        /\ passes' = passes \cup {[keys |-> K, at |-> t, of |-> ToSet(Head(queue[w]))]}
        /\ pc' = [pc EXCEPT ![w] = "send"]
        /\ UNCHANGED <<now, buffer, windowStart, unfired, queue, readAt, captured, settled, lost>>
Pass(w) ==
    LET K == CooldownKeys(Head(queue[w]))
        t == readAt[w]
    IN  /\ pc[w] = "check"
        /\ Cooling(K, t) = {}
        /\ lastSent' = [k \in K \cup DOMAIN lastSent |->
                           IF k \in K THEN t ELSE lastSent[k]]
        /\ passes' = passes \cup {[keys |-> K, at |-> t, of |-> ToSet(Head(queue[w]))]}
        /\ pc' = [pc EXCEPT ![w] = "send"]
        /\ UNCHANGED <<now, buffer, windowStart, unfired, queue, readAt, captured, settled, lost>>

\* The channels are resolved and posted to (module WebhookDelivery); whether any
\* of them took the message changes nothing here.
Send(w) ==
    /\ pc[w] = "send"
    /\ NextBundle(w)
    /\ UNCHANGED <<now, buffer, windowStart, lastSent, unfired, readAt, captured, lost, passes>>

\* A POST raises what the retry does not catch, or the settings cannot be read: the
\* flush worker ends with all its bundles (an immediate thread catches everything).
Die(f) ==
    /\ f \in Flushers /\ pc[f] = "send"
    /\ lost' = lost \cup UNION {ToSet(queue[f][g]) : g \in DOMAIN queue[f]}
    /\ queue' = [queue EXCEPT ![f] = <<>>]
    /\ pc' = [pc EXCEPT ![f] = "idle"]
    /\ UNCHANGED <<now, buffer, windowStart, lastSent, unfired, readAt, captured, settled, passes>>

Tick ==
    /\ now < MaxTime
    /\ now' = now + 1
    /\ UNCHANGED <<buffer, windowStart, lastSent, unfired, queue, pc, readAt, captured,
                   settled, lost, passes>>

Dispatch(w) == ReadClock(w) \/ Suppress(w) \/ Pass(w) \/ Send(w) \/ Die(w)
Flush == \E f \in Flushers : FlushIfWindowElapsed(f)

Next ==
    \/ \E e \in Events : Capture(e) \/ FireImmediate(e)
    \/ Flush
    \/ \E w \in Workers : Dispatch(w)
    \/ Tick

\* Breaches are the environment's; the threads run, and time passes.
Spec ==
    /\ Init /\ [][Next]_vars
    /\ WF_vars(Tick) /\ WF_vars(Flush)
    /\ \A w \in Workers : WF_vars(Dispatch(w))

-----------------------------------------------------------------------------
TypeOK ==
    /\ now \in Nat /\ windowStart \in Nat
    /\ captured \subseteq Events /\ unfired \subseteq captured
    /\ ToSet(buffer) \subseteq captured
    /\ pc \in [Workers -> {"idle", "clock", "check", "send"}]
    /\ readAt \in [Workers -> Nat]
    /\ \A k \in DOMAIN lastSent : lastSent[k] \in Nat
    /\ DOMAIN queue = Workers

\* The grants of the cooldown: a pass grants each of its keys.
Granted == UNION {{<<k, p.at>> : k \in p.keys} : p \in passes}
Throttle == INSTANCE AlertThrottle WITH Times <- 0..MaxTime, granted <- Granted

(***************************************************************************)
(* No key is announced twice within the cooldown interval, whichever       *)
(* threads announce it and in whatever order their clock readings reach    *)
(* the lock (alert_manager.py:397-411).                                    *)
(***************************************************************************)
CooldownSpacing == Throttle!Spaced(Granted)

(* The pipeline implements the cooldown's abstract specification. *)
ImplementsThrottle == Throttle!Spec

(***************************************************************************)
(* A captured breach is in exactly one place until a flush disposes of it  *)
(* or dies with it: once in the buffer, or once in one bundle of one flush *)
(* worker.  None vanishes or is announced in two bundles when the buffer   *)
(* is swapped while others capture (alert_manager.py:517-533, 625-640).    *)
(***************************************************************************)
At(e, group) == {n \in DOMAIN group : group[n] = e}
InBuffer(e) == {<<n>> : n \in At(e, buffer)}
InQueue(e, f) == UNION {{<<f, g, n>> : n \in At(e, queue[f][g])} : g \in DOMAIN queue[f]}
Places(e) == InBuffer(e) \cup UNION {InQueue(e, f) : f \in Flushers}
EventsAccounted ==
    \A e \in captured : Cardinality(Places(e)) = IF e \in settled \cup lost THEN 0 ELSE 1

(***************************************************************************)
(* A breach whose immediate thread ended was named by an announcement that *)
(* passed less than a cooldown before the thread read the clock: a breach  *)
(* is only ever silenced by an announcement of its own workload, where no  *)
(* name stands for clusters of two tenants or nodes of two clusters.       *)
(***************************************************************************)
Ended(e) == e \in captured \ unfired /\ pc[e] = "idle"
EveryBreachAnnounced ==
    \A e \in Events : Ended(e) =>
        \E p \in passes :
            /\ readAt[e] - p.at < Cooldown
            /\ OwnKey(e) \in {OwnKey(f) : f \in p.of}

(***************************************************************************)
(* Every breach captured is eventually taken by a flush and disposed of,   *)
(* unless its worker dies (alert_manager.py:557-592, 617-640).             *)
(***************************************************************************)
EveryBreachEnds == \A e \in Events : e \in captured ~> e \in settled \cup lost
==============================================================================
