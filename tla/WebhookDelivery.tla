--------------------------- MODULE WebhookDelivery ---------------------------
(***************************************************************************)
(* What a dispatch does once it passed the cooldown: it resolves the       *)
(* notification channels and posts to each in turn.  A dispatcher (a       *)
(* thread in _dispatch_grouped_alert) retries with backoff and takes a     *)
(* slot of the shared spacing before each POST; a notifier (an immediate   *)
(* thread in dispatch_structured_alert) posts once, without a slot.        *)
(*                                                                         *)
(* Time is relative, in units of the spacing's resolution: age is the time *)
(* since the last slot, timer the rest of a thread's sleep.                *)
(***************************************************************************)
EXTENDS Integers, SequencesExt

CONSTANTS Dispatchers, Notifiers,   \* the threads, each running one dispatch
          Settings,                 \* the settings a dispatch may find
          Spacing,                  \* HTTP_POST_SPACING_SEC
          MaxRetries,               \* DISPATCH_MAX_RETRIES
          InitialBackoff,           \* DISPATCH_INITIAL_BACKOFF_SEC
          MaxBackoff,               \* the cap of 60 seconds
          RetryAfters               \* the Retry-After values a 429 may carry

Threads == Dispatchers \cup Notifiers

ASSUME DeliveryConstants ==
    /\ Dispatchers \cap Notifiers = {}
    /\ Spacing \in Nat /\ MaxRetries \in Nat \ {0}
    /\ InitialBackoff \in Nat /\ MaxBackoff \in Nat /\ RetryAfters \subseteq Nat
    /\ Settings \subseteq [slackUrl : BOOLEAN, slackOn : BOOLEAN, discordUrl : BOOLEAN,
                           discordOn : BOOLEAN, mockUrl : BOOLEAN]

VARIABLES lock,        \* holder of _http_spacing_lock: a set of at most one thread
          age,         \* time.monotonic() - _last_http_post_monotonic, at most Spacing
          pc,          \* where each thread is
          channels,    \* the channels the thread still has to post to
          attempt,     \* attempt
          backoff,     \* backoff_sec
          timer,       \* rest of the thread's time.sleep
          asked,       \* history: the channels the settings turned on
          tried,       \* history: the channels the thread posted to
          acked        \* history: those that answered with success

vars == <<lock, age, pc, channels, attempt, backoff, timer, asked, tried, acked>>

Init ==
    /\ lock = {} /\ age = Spacing
    /\ pc = [t \in Threads |-> "new"]
    /\ channels = [t \in Threads |-> <<>>]
    /\ attempt = [t \in Threads |-> 1]
    /\ backoff = [t \in Threads |-> InitialBackoff]
    /\ timer = [t \in Threads |-> 0]
    /\ asked = [t \in Threads |-> {}]
    /\ tried = [t \in Threads |-> {}] /\ acked = [t \in Threads |-> {}]

-----------------------------------------------------------------------------
\* The channels settings s turn on: the mock only when neither other one is, and
\* by default only when no other URL is known at all.
Slack(s) == s.slackUrl /\ s.slackOn
Discord(s) == s.discordUrl /\ s.discordOn
Mock(s) == s.mockUrl \/ (~s.slackUrl /\ ~s.discordUrl)
ResolveChannels(s) ==
    (IF Slack(s) THEN <<"slack">> ELSE <<>>)
    \o (IF Discord(s) THEN <<"discord">> ELSE <<>>)
    \o (IF ~Slack(s) /\ ~Discord(s) /\ Mock(s) THEN <<"mock">> ELSE <<>>)

\* A notifier knows no mock.
NotifierChannels(s) ==
    (IF Slack(s) THEN <<"slack">> ELSE <<>>) \o (IF Discord(s) THEN <<"discord">> ELSE <<>>)

\* Where a thread of this kind goes to post.
Door(t) == IF t \in Dispatchers THEN "spacing" ELSE "slot"

Start(t) ==
    /\ pc[t] = "new"
    /\ \E s \in Settings :
         LET cs == IF t \in Dispatchers THEN ResolveChannels(s) ELSE NotifierChannels(s)
         IN  /\ channels' = [channels EXCEPT ![t] = cs]
             /\ asked' = [asked EXCEPT ![t] = ToSet(cs)]
             /\ pc' = [pc EXCEPT ![t] = IF cs = <<>> THEN "done" ELSE Door(t)]
    /\ UNCHANGED <<lock, age, attempt, backoff, timer, tried, acked>>

\* _wait_for_http_post_spacing, up to its sleep, which keeps the lock.
EnterSpacingUnlocked(t) ==
    /\ pc[t] = "spacing" /\ lock = {}
    /\ IF age < Spacing
       THEN /\ pc' = [pc EXCEPT ![t] = "sleep"]
            /\ timer' = [timer EXCEPT ![t] = Spacing - age]
            /\ UNCHANGED <<lock, age>>
       ELSE /\ pc' = [pc EXCEPT ![t] = "slot"]
            /\ age' = 0
            /\ UNCHANGED <<lock, timer>>
    /\ UNCHANGED <<channels, attempt, backoff, asked, tried, acked>>
EnterSpacing(t) ==
    /\ pc[t] = "spacing" /\ lock = {}
    /\ IF age < Spacing
       THEN /\ lock' = {t}
            /\ pc' = [pc EXCEPT ![t] = "sleep"]
            /\ timer' = [timer EXCEPT ![t] = Spacing - age]
            /\ UNCHANGED age
       ELSE /\ pc' = [pc EXCEPT ![t] = "slot"]
            /\ age' = 0
            /\ UNCHANGED <<lock, timer>>
    /\ UNCHANGED <<channels, attempt, backoff, asked, tried, acked>>

\* ... and after it.
LeaveSpacing(t) ==
    /\ pc[t] = "sleep" /\ timer[t] = 0
    /\ age' = 0
    /\ lock' = {}
    /\ pc' = [pc EXCEPT ![t] = "slot"]
    /\ UNCHANGED <<channels, attempt, backoff, timer, asked, tried, acked>>

\* urlopen, or requests.post, starts.
BeginPost(t) ==
    /\ pc[t] = "slot"
    /\ pc' = [pc EXCEPT ![t] = "posting"]
    /\ tried' = [tried EXCEPT ![t] = @ \cup {Head(channels[t])}]
    /\ UNCHANGED <<lock, age, channels, attempt, backoff, timer, asked, acked>>

\* The thread is done with its first channel: the next one starts afresh.
NoNextAfterFailure(t) ==
    /\ channels' = [channels EXCEPT ![t] = Tail(@)]
    /\ attempt' = [attempt EXCEPT ![t] = 1]
    /\ backoff' = [backoff EXCEPT ![t] = InitialBackoff]
    /\ pc' = [pc EXCEPT ![t] = IF Len(channels[t]) = 1 \/ acked'[t] = acked[t]
                               THEN "done" ELSE Door(t)]
NextChannel(t) ==
    /\ channels' = [channels EXCEPT ![t] = Tail(@)]
    /\ attempt' = [attempt EXCEPT ![t] = 1]
    /\ backoff' = [backoff EXCEPT ![t] = InitialBackoff]
    /\ pc' = [pc EXCEPT ![t] = IF Len(channels[t]) = 1 THEN "done" ELSE Door(t)]

Succeed(t) ==
    /\ pc[t] = "posting"
    /\ acked' = [acked EXCEPT ![t] = @ \cup {Head(channels[t])}]
    /\ NextChannel(t)
    /\ UNCHANGED <<lock, age, timer, asked, tried>>

\* An HTTP error other than 429 is final, as is the last attempt, and any failure
\* of a notifier.
GiveUp(t) ==
    /\ pc[t] = "posting"
    /\ UNCHANGED acked
    /\ NextChannel(t)
    /\ UNCHANGED <<lock, age, timer, asked, tried>>

\* What is not caught, as a URL without a scheme or a truncated response, ends the
\* dispatch, and with it the flush worker that runs it.
Raise(t) ==
    /\ t \in Dispatchers /\ pc[t] \in {"slot", "posting"}
    /\ pc' = [pc EXCEPT ![t] = "dead"]
    /\ UNCHANGED <<lock, age, channels, attempt, backoff, timer, asked, tried, acked>>

\* After a 429 the thread sleeps as told, else by its backoff, as it does after a
\* network error, and tries again.
RetryWithoutCount(t) ==
    /\ t \in Dispatchers /\ pc[t] = "posting" /\ attempt[t] < MaxRetries
    /\ \E wait \in RetryAfters \cup {backoff[t]} : timer' = [timer EXCEPT ![t] = wait]
    /\ pc' = [pc EXCEPT ![t] = "backoff"]
    /\ UNCHANGED <<lock, age, channels, attempt, backoff, asked, tried, acked>>
Retry(t) ==
    /\ t \in Dispatchers /\ pc[t] = "posting" /\ attempt[t] < MaxRetries
    /\ \E wait \in RetryAfters \cup {backoff[t]} : timer' = [timer EXCEPT ![t] = wait]
    /\ backoff' = [backoff EXCEPT ![t] = IF 2 * @ > MaxBackoff THEN MaxBackoff ELSE 2 * @]
    /\ attempt' = [attempt EXCEPT ![t] = @ + 1]
    /\ pc' = [pc EXCEPT ![t] = "backoff"]
    /\ UNCHANGED <<lock, age, channels, asked, tried, acked>>

EndBackoff(t) ==
    /\ pc[t] = "backoff" /\ timer[t] = 0
    /\ pc' = [pc EXCEPT ![t] = "spacing"]
    /\ UNCHANGED <<lock, age, channels, attempt, backoff, timer, asked, tried, acked>>

Tick ==
    /\ age' = IF age < Spacing THEN age + 1 ELSE age
    /\ timer' = [t \in Threads |-> IF timer[t] > 0 THEN timer[t] - 1 ELSE 0]
    /\ UNCHANGED <<lock, pc, channels, attempt, backoff, asked, tried, acked>>

Step(t) ==
    \/ Start(t) \/ EnterSpacing(t) \/ LeaveSpacing(t) \/ BeginPost(t)
    \/ Succeed(t) \/ GiveUp(t) \/ Raise(t) \/ Retry(t) \/ EndBackoff(t)
Next == Tick \/ \E t \in Threads : Step(t)

\* A POST ends, by its timeout if not before; a sleep ends; a thread that waits for
\* a lock that stays free gets it.
Spec == Init /\ [][Next]_vars /\ WF_vars(Tick) /\ \A t \in Threads : WF_vars(Step(t))

-----------------------------------------------------------------------------
TypeOK ==
    /\ lock \subseteq Dispatchers
    /\ age \in 0..Spacing
    /\ pc \in [Threads -> {"new", "spacing", "sleep", "slot", "posting", "backoff", "done",
                        "dead"}]
    /\ \A t \in Notifiers : pc[t] \in {"new", "slot", "posting", "done"}
    /\ timer \in [Threads -> Nat]
    /\ attempt \in [Threads -> 1..MaxRetries]

\* t gets a slot: the instant the code stores in _last_http_post_monotonic.
TakesSlot(t) == pc[t] \in {"spacing", "sleep"} /\ pc'[t] = "slot"

(***************************************************************************)
(* Two slots are never closer than the spacing: the one who sleeps for the *)
(* rest of it keeps everyone else out (alert_manager.py:228-237).          *)
(***************************************************************************)
SlotsSpaced == [][\A t \in Dispatchers : TakesSlot(t) => age = Spacing]_vars

(***************************************************************************)
(* A channel that fails, however often, keeps no other channel from being  *)
(* tried unless the failure is one the retry does not catch, and nothing   *)
(* is tried again that succeeded (alert_manager.py:252-317, 438-450).      *)
(***************************************************************************)
EveryChannelTried ==
    \A t \in Threads :
        /\ pc[t] = "done" => tried[t] = asked[t]
        /\ tried[t] \cup ToSet(channels[t]) = asked[t]
        /\ acked[t] \cap ToSet(channels[t]) = {}

(***************************************************************************)
(* Every dispatch ends, whatever the channels answer and whoever sleeps    *)
(* with the lock held (alert_manager.py:232-237, 244-317).                 *)
(***************************************************************************)
EveryDispatchEnds == \A t \in Threads : <>(pc[t] \in {"done", "dead"})
==============================================================================
