------------------------ MODULE WebhookDeliveryProofs ------------------------
(***************************************************************************)
(* For any number of threads, settings and spacing: the state is well      *)
(* typed, two slots of the HTTP spacing are never closer than the spacing, *)
(* and every channel is tried.                                             *)
(***************************************************************************)
EXTENDS WebhookDelivery, SequenceTheorems, TLAPS

Types ==
    /\ TypeOK
    /\ backoff \in [Threads -> Nat]

LEMMA TypeInit == Init => Types
  BY DeliveryConstants DEF Init, Types, TypeOK, Threads

LEMMA TypeStep == Types /\ [Next]_vars => Types'
<1> SUFFICES ASSUME Types, [Next]_vars PROVE Types'
  OBVIOUS
<1> USE DeliveryConstants DEF Types, TypeOK, Threads
<1>1. ASSUME NEW t \in Threads, Start(t) PROVE Types'
  BY <1>1 DEF Start, Door
<1>2. ASSUME NEW t \in Threads, EnterSpacing(t) PROVE Types'
  <2>1. t \in Dispatchers
    BY <1>2 DEF EnterSpacing
  <2>2. CASE age < Spacing
    BY <1>2, <2>1, <2>2 DEF EnterSpacing
  <2>3. CASE ~(age < Spacing)
    BY <1>2, <2>1, <2>3 DEF EnterSpacing
  <2> QED BY <2>2, <2>3
<1>3. ASSUME NEW t \in Threads, LeaveSpacing(t) \/ BeginPost(t) \/ Raise(t) \/ EndBackoff(t)
      PROVE  Types'
  BY <1>3 DEF LeaveSpacing, BeginPost, Raise, EndBackoff
<1>4. ASSUME NEW t \in Threads, Succeed(t) \/ GiveUp(t) PROVE Types'
  <2>1. /\ NextChannel(t)
        /\ UNCHANGED <<lock, age, timer>>
    BY <1>4 DEF Succeed, GiveUp
  <2>2. attempt' \in [Threads -> 1..MaxRetries] /\ backoff' \in [Threads -> Nat]
    BY <2>1 DEF NextChannel
  <2>3. PICK next \in {"done", Door(t)} : pc' = [pc EXCEPT ![t] = next]
    BY <2>1 DEF NextChannel
  <2>4. next \in {"done", "spacing", "slot"} /\ (t \in Notifiers => next # "spacing")
    BY <2>3 DEF Door
  <2> QED BY <2>1, <2>2, <2>3, <2>4
<1>5. ASSUME NEW t \in Threads, Retry(t) PROVE Types'
  BY <1>5 DEF Retry
<1>6. CASE Tick
  BY <1>6 DEF Tick
<1>7. CASE UNCHANGED vars
  BY <1>7 DEF vars
<1> QED BY <1>1, <1>2, <1>3, <1>4, <1>5, <1>6, <1>7 DEF Next, Step

(* The fields of the delivery have the types the code relies on. *)
THEOREM DeliveryTypes == Spec => []TypeOK
<1>1. Types => TypeOK
  BY DEF Types
<1> QED BY <1>1, TypeInit, TypeStep, PTL DEF Spec

-----------------------------------------------------------------------------
(***************************************************************************)
(* Why the slots are spaced: whoever sleeps holds the lock, so no slot is  *)
(* taken while he does and the rest of his sleep is the rest of the        *)
(* spacing or more.                                                        *)
(***************************************************************************)
SleeperHoldsLock ==
    \A t \in Threads : pc[t] = "sleep" => lock = {t} /\ age + timer[t] >= Spacing

IInv == Types /\ SleeperHoldsLock

LEMMA SpacingInit == Init => IInv
  BY TypeInit DEF IInv, Init, SleeperHoldsLock

LEMMA SpacingStep == IInv /\ [Next]_vars => IInv'
<1> SUFFICES ASSUME IInv, [Next]_vars PROVE SleeperHoldsLock'
  BY TypeStep DEF IInv
<1> USE DeliveryConstants DEF IInv, Types, TypeOK, SleeperHoldsLock
<1>1. ASSUME NEW t \in Threads, EnterSpacing(t) PROVE SleeperHoldsLock'
  <2>1. \A u \in Threads : pc[u] # "sleep"
    BY <1>1 DEF EnterSpacing
  <2>2. CASE age < Spacing
    BY <1>1, <2>1, <2>2 DEF EnterSpacing
  <2>3. CASE ~(age < Spacing)
    BY <1>1, <2>1, <2>3 DEF EnterSpacing
  <2> QED BY <2>2, <2>3
<1>2. ASSUME NEW t \in Threads, LeaveSpacing(t) PROVE SleeperHoldsLock'
  <2>1. \A u \in Threads : pc[u] = "sleep" => u = t
    BY <1>2 DEF LeaveSpacing
  <2> QED BY <1>2, <2>1 DEF LeaveSpacing
<1>3. ASSUME NEW t \in Threads, Start(t) PROVE SleeperHoldsLock'
  <2>1. UNCHANGED <<lock, age, timer>> /\ \E p \in {"done", Door(t)} : pc' = [pc EXCEPT ![t] = p]
    BY <1>3 DEF Start
  <2> QED BY <2>1 DEF Door
<1>4. ASSUME NEW t \in Threads, BeginPost(t) \/ Raise(t) \/ EndBackoff(t) PROVE SleeperHoldsLock'
  BY <1>4 DEF BeginPost, Raise, EndBackoff
<1>5. ASSUME NEW t \in Threads, Succeed(t) \/ GiveUp(t) PROVE SleeperHoldsLock'
  <2>1. UNCHANGED <<lock, age, timer>> /\ \E p \in {"done", Door(t)} : pc' = [pc EXCEPT ![t] = p]
    BY <1>5 DEF Succeed, GiveUp, NextChannel
  <2> QED BY <2>1 DEF Door
<1>6. ASSUME NEW t \in Threads, Retry(t) PROVE SleeperHoldsLock'
  BY <1>6 DEF Retry
<1>7. CASE Tick
  BY <1>7 DEF Tick
<1>8. CASE UNCHANGED vars
  BY <1>8 DEF vars
<1> QED BY <1>1, <1>2, <1>3, <1>4, <1>5, <1>6, <1>7, <1>8 DEF Next, Step

(***************************************************************************)
(* Two slots are never closer than the spacing, for any number of threads. *)
(***************************************************************************)
THEOREM DeliverySlotsSpaced == Spec => SlotsSpaced
<1>1. IInv /\ [Next]_vars => [\A t \in Dispatchers : TakesSlot(t) => age = Spacing]_vars
  <2> SUFFICES ASSUME IInv, Next, NEW t \in Dispatchers, TakesSlot(t) PROVE age = Spacing
    OBVIOUS
  <2> USE DeliveryConstants DEF IInv, Types, TypeOK, SleeperHoldsLock, TakesSlot, Threads
  <2>1. ~Tick
    BY DEF Tick
  <2>2. PICK u \in Threads : Step(u)
    BY <2>1 DEF Next
  <2>3. u = t
    BY <2>2 DEF Step, Start, EnterSpacing, LeaveSpacing, BeginPost, Succeed, GiveUp, Raise, NextChannel,
             Retry, EndBackoff
  <2>4. EnterSpacing(t) \/ LeaveSpacing(t)
    BY <2>2, <2>3 DEF Step, Start, EnterSpacing, LeaveSpacing, BeginPost, Succeed, GiveUp, Raise,
                      NextChannel, Retry, EndBackoff
  <2>5. CASE EnterSpacing(t)
    BY <2>5 DEF EnterSpacing
  <2>6. CASE LeaveSpacing(t)
    BY <2>6 DEF LeaveSpacing
  <2> QED BY <2>4, <2>5, <2>6
<1> QED BY <1>1, SpacingInit, SpacingStep, PTL DEF Spec, SlotsSpaced
-----------------------------------------------------------------------------
(***************************************************************************)
(* Why every channel is tried: a thread's channels are distinct, it has    *)
(* one while it is under way and none when it is done, and the one it is   *)
(* posting to counts as tried.                                             *)
(***************************************************************************)
Names == {"slack", "discord", "mock"}
Distinct(s) == \A i, j \in DOMAIN s : s[i] = s[j] => i = j

UnderWay(t) ==
    /\ channels[t] \in Seq(Names) /\ Distinct(channels[t])
    /\ pc[t] = "new" => asked[t] = {} /\ tried[t] = {} /\ acked[t] = {} /\ channels[t] = <<>>
    /\ pc[t] \in {"spacing", "sleep", "slot", "posting", "backoff"} => channels[t] # <<>>
    /\ pc[t] = "done" => channels[t] = <<>>
    /\ pc[t] = "posting" => Head(channels[t]) \in tried[t]
    /\ tried[t] \cup ToSet(channels[t]) = asked[t]
    /\ acked[t] \cap ToSet(channels[t]) = {}

HistoriesOK ==
    channels = [t \in Threads |-> channels[t]] /\ asked = [t \in Threads |-> asked[t]]
    /\ tried = [t \in Threads |-> tried[t]] /\ acked = [t \in Threads |-> acked[t]]

ChannelInv == Types /\ HistoriesOK /\ \A t \in Threads : UnderWay(t)

LEMMA BothChannels ==
    /\ <<"slack">> \o <<"discord">> = <<"slack", "discord">>
    /\ <<"slack">> \o <<"discord">> \o <<>> = <<"slack", "discord">>
<1>1. <<"slack">> \in Seq(Names) /\ <<"discord">> \in Seq(Names)
      /\ <<"slack", "discord">> \in Seq(Names)
  BY DEF Names
<1>2. <<"slack">> \o <<"discord">> \in Seq(Names)
      /\ Len(<<"slack">> \o <<"discord">>) = 2
      /\ (<<"slack">> \o <<"discord">>)[1] = "slack"
      /\ (<<"slack">> \o <<"discord">>)[2] = "discord"
  BY <1>1, ConcatProperties
<1>3. <<"slack">> \o <<"discord">> = <<"slack", "discord">>
  <2> DEFINE s == <<"slack">> \o <<"discord">>
             both == <<"slack", "discord">>
  <2>1. Len(both) = 2 /\ both[1] = "slack" /\ both[2] = "discord"
    OBVIOUS
  <2>2. s \in Seq(Names) /\ both \in Seq(Names) /\ Len(s) = 2 /\ s[1] = "slack" /\ s[2] = "discord"
    BY <1>1, <1>2
  <2> HIDE DEF s, both
  <2>3. Len(s) = Len(both) /\ \A i \in 1..Len(s) : s[i] = both[i]
    BY <2>1, <2>2
  <2>4. s = both
    BY <2>2, <2>3, SeqEqual
  <2> QED BY <2>4 DEF s, both
<1> QED BY <1>1, <1>3

\* Whatever the settings, the channels they turn on are distinct.
LEMMA ChannelsDistinct ==
    ASSUME NEW s \in Settings
    PROVE  /\ ResolveChannels(s) \in Seq(Names) /\ Distinct(ResolveChannels(s))
           /\ NotifierChannels(s) \in Seq(Names) /\ Distinct(NotifierChannels(s))
<1> DEFINE Shapes == {<<>>, <<"slack">>, <<"discord">>, <<"mock">>, <<"slack", "discord">>}
<1>1. ResolveChannels(s) \in Shapes
  <2>1. CASE Slack(s) /\ Discord(s)
    <3>1. ResolveChannels(s) = <<"slack">> \o <<"discord">> \o <<>>
      BY <2>1 DEF ResolveChannels
    <3> QED BY <3>1, BothChannels
  <2>2. CASE Slack(s) /\ ~Discord(s)
    <3>1. ResolveChannels(s) = <<"slack">> \o <<>> \o <<>>
      BY <2>2 DEF ResolveChannels
    <3> QED BY <3>1
  <2>3. CASE ~Slack(s) /\ Discord(s)
    <3>1. ResolveChannels(s) = <<>> \o <<"discord">> \o <<>>
      BY <2>3 DEF ResolveChannels
    <3> QED BY <3>1
  <2>4. CASE ~Slack(s) /\ ~Discord(s) /\ Mock(s)
    <3>1. ResolveChannels(s) = <<>> \o <<>> \o <<"mock">>
      BY <2>4 DEF ResolveChannels
    <3> QED BY <3>1
  <2>5. CASE ~Slack(s) /\ ~Discord(s) /\ ~Mock(s)
    <3>1. ResolveChannels(s) = <<>> \o <<>> \o <<>>
      BY <2>5 DEF ResolveChannels
    <3> QED BY <3>1
  <2> QED BY <2>1, <2>2, <2>3, <2>4, <2>5
<1>2. NotifierChannels(s) \in Shapes
  <2>1. CASE Slack(s) /\ Discord(s)
    <3>1. NotifierChannels(s) = <<"slack">> \o <<"discord">>
      BY <2>1 DEF NotifierChannels
    <3> QED BY <3>1, BothChannels
  <2>2. CASE Slack(s) /\ ~Discord(s)
    <3>1. NotifierChannels(s) = <<"slack">> \o <<>>
      BY <2>2 DEF NotifierChannels
    <3> QED BY <3>1
  <2>3. CASE ~Slack(s) /\ Discord(s)
    <3>1. NotifierChannels(s) = <<>> \o <<"discord">>
      BY <2>3 DEF NotifierChannels
    <3> QED BY <3>1
  <2>4. CASE ~Slack(s) /\ ~Discord(s)
    <3>1. NotifierChannels(s) = <<>> \o <<>>
      BY <2>4 DEF NotifierChannels
    <3> QED BY <3>1
  <2> QED BY <2>1, <2>2, <2>3, <2>4
<1>3. ASSUME NEW shape \in Shapes PROVE shape \in Seq(Names) /\ Distinct(shape)
  <2>1. CASE shape = <<>>
    BY <2>1 DEF Distinct
  <2>2. ASSUME NEW c \in Names, shape = <<c>> PROVE shape \in Seq(Names) /\ Distinct(shape)
    BY <2>2 DEF Distinct
  <2>3. CASE shape = <<"slack", "discord">>
    <3>1. /\ shape \in Seq(Names) /\ DOMAIN shape = {1, 2}
          /\ shape[1] = "slack" /\ shape[2] = "discord"
      BY <2>3 DEF Names
    <3>2. shape[1] # shape[2]
      BY <3>1
    <3>3. ASSUME NEW i \in DOMAIN shape, NEW j \in DOMAIN shape, shape[i] = shape[j] PROVE i = j
      BY <3>1, <3>2, <3>3
    <3> QED BY <3>1, <3>3 DEF Distinct
  <2> QED BY <2>1, <2>2, <2>3 DEF Names
<1> QED BY <1>1, <1>2, <1>3

\* The channels left after the first.
LEMMA TailFacts ==
    ASSUME NEW s \in Seq(Names), s # <<>>, Distinct(s)
    PROVE  /\ Tail(s) \in Seq(Names) /\ Distinct(Tail(s))
           /\ ToSet(s) = {Head(s)} \cup ToSet(Tail(s))
           /\ Head(s) \notin ToSet(Tail(s))
           /\ Tail(s) = <<>> <=> Len(s) = 1
<1>1. /\ Len(s) \in Nat \ {0} /\ DOMAIN s = 1..Len(s) /\ Head(s) = s[1]
      /\ Tail(s) \in Seq(Names) /\ DOMAIN Tail(s) = 1..(Len(s) - 1)
      /\ \A i \in 1..(Len(s) - 1) : Tail(s)[i] = s[i + 1]
  OBVIOUS
<1>2. Distinct(Tail(s))
  BY <1>1 DEF Distinct
<1>3. ToSet(s) \subseteq {Head(s)} \cup ToSet(Tail(s))
  <2> SUFFICES ASSUME NEW i \in 1..Len(s), i # 1 PROVE s[i] \in ToSet(Tail(s))
    BY <1>1 DEF ToSet
  <2>1. i - 1 \in 1..(Len(s) - 1) /\ Tail(s)[i - 1] = s[i]
    BY <1>1
  <2> QED BY <1>1, <2>1 DEF ToSet
<1>4. {Head(s)} \cup ToSet(Tail(s)) \subseteq ToSet(s)
  BY <1>1 DEF ToSet
<1>5. Head(s) \notin ToSet(Tail(s))
  BY <1>1 DEF ToSet, Distinct
<1>6. Tail(s) = <<>> <=> Len(s) = 1
  BY <1>1
<1> QED BY <1>1, <1>2, <1>3, <1>4, <1>5, <1>6

LEMMA ChannelInit == Init => ChannelInv
  BY TypeInit DEF Init, ChannelInv, HistoriesOK, UnderWay, Distinct, ToSet

\* A step of one thread is none of another's business.
LEMMA OthersUnderWay ==
    ASSUME ChannelInv, NEW t \in Threads, NEW u \in Threads, Step(t), u # t
    PROVE  UnderWay(u)'
<1>1. /\ pc'[u] = pc[u] /\ channels'[u] = channels[u] /\ asked'[u] = asked[u]
      /\ tried'[u] = tried[u] /\ acked'[u] = acked[u]
  BY DEF ChannelInv, Types, TypeOK, HistoriesOK, Step, Start, EnterSpacing, LeaveSpacing, BeginPost,
         Succeed, GiveUp, Raise, NextChannel, Retry, EndBackoff
<1>2. UnderWay(u)
  BY DEF ChannelInv
<1> QED BY <1>1, <1>2 DEF UnderWay

LEMMA HistoriesStep == ChannelInv /\ [Next]_vars => HistoriesOK'
  BY DEF ChannelInv, HistoriesOK, Next, Tick, vars, Step, Start, EnterSpacing, LeaveSpacing,
         BeginPost, Succeed, GiveUp, Raise, NextChannel, Retry, EndBackoff

\* The step of a thread keeps its own affairs in order.
LEMMA OwnUnderWay ==
    ASSUME ChannelInv, NEW t \in Threads, Step(t)
    PROVE  UnderWay(t)'
<1>t. /\ UnderWay(t) /\ pc \in [Threads -> {"new", "spacing", "sleep", "slot", "posting",
                                           "backoff", "done", "dead"}]
      /\ HistoriesOK
  BY DEF ChannelInv, Types, TypeOK
<1>1. CASE Start(t)
  <2>1. PICK s \in Settings :
          LET cs == IF t \in Dispatchers THEN ResolveChannels(s) ELSE NotifierChannels(s)
          IN  /\ channels' = [channels EXCEPT ![t] = cs]
              /\ asked' = [asked EXCEPT ![t] = ToSet(cs)]
              /\ pc' = [pc EXCEPT ![t] = IF cs = <<>> THEN "done" ELSE Door(t)]
    BY <1>1 DEF Start
  <2> DEFINE cs == IF t \in Dispatchers THEN ResolveChannels(s) ELSE NotifierChannels(s)
  <2>2. cs \in Seq(Names) /\ Distinct(cs)
    BY ChannelsDistinct
  <2>3. /\ channels'[t] = cs /\ asked'[t] = ToSet(cs)
        /\ pc'[t] = IF cs = <<>> THEN "done" ELSE Door(t)
    BY <1>t, <2>1 DEF HistoriesOK
  <2>4. tried'[t] = {} /\ acked'[t] = {}
    BY <1>t, <1>1 DEF Start, UnderWay
  <2>5. Door(t) \in {"spacing", "slot"}
    BY DEF Door
  <2> HIDE DEF cs
  <2> QED BY <2>2, <2>3, <2>4, <2>5 DEF UnderWay
<1>2. CASE EnterSpacing(t) \/ LeaveSpacing(t) \/ Raise(t) \/ Retry(t) \/ EndBackoff(t)
  <2>1. UNCHANGED <<channels, asked, tried, acked>>
    BY <1>2 DEF EnterSpacing, LeaveSpacing, Raise, Retry, EndBackoff
  <2>2. /\ pc[t] \in {"spacing", "sleep", "slot", "posting", "backoff"}
        /\ pc'[t] \in {"spacing", "sleep", "slot", "backoff", "dead"}
    BY <1>t, <1>2 DEF EnterSpacing, LeaveSpacing, Raise, Retry, EndBackoff
  <2> QED BY <1>t, <2>1, <2>2 DEF UnderWay
<1>3. CASE BeginPost(t)
  <2>1. /\ UNCHANGED <<channels, asked, acked>> /\ pc[t] = "slot" /\ pc'[t] = "posting"
        /\ tried'[t] = tried[t] \cup {Head(channels[t])}
    BY <1>t, <1>3 DEF BeginPost, HistoriesOK
  <2>2. Head(channels[t]) \in ToSet(channels[t])
    BY <1>t, <2>1, TailFacts DEF UnderWay
  <2> QED BY <1>t, <2>1, <2>2 DEF UnderWay
<1>4. CASE Succeed(t) \/ GiveUp(t)
  <2>1. /\ pc[t] = "posting" /\ UNCHANGED <<asked, tried>>
        /\ channels'[t] = Tail(channels[t])
        /\ pc'[t] = IF Len(channels[t]) = 1 THEN "done" ELSE Door(t)
        /\ acked'[t] \subseteq acked[t] \cup {Head(channels[t])}
    BY <1>t, <1>4 DEF Succeed, GiveUp, NextChannel, HistoriesOK
  <2>2. /\ Tail(channels[t]) \in Seq(Names) /\ Distinct(Tail(channels[t]))
        /\ ToSet(channels[t]) = {Head(channels[t])} \cup ToSet(Tail(channels[t]))
        /\ Head(channels[t]) \notin ToSet(Tail(channels[t]))
        /\ Tail(channels[t]) = <<>> <=> Len(channels[t]) = 1
    BY <1>t, <2>1, TailFacts DEF UnderWay
  <2>3. Door(t) \in {"spacing", "slot"}
    BY DEF Door
  <2> QED BY <1>t, <2>1, <2>2, <2>3 DEF UnderWay
<1> QED BY <1>1, <1>2, <1>3, <1>4 DEF Step

LEMMA ChannelStep == ChannelInv /\ [Next]_vars => ChannelInv'
<1> SUFFICES ASSUME ChannelInv, [Next]_vars PROVE \A t \in Threads : UnderWay(t)'
  BY TypeStep, HistoriesStep DEF ChannelInv
<1>1. ASSUME NEW t \in Threads, Step(t) PROVE \A u \in Threads : UnderWay(u)'
  BY <1>1, OthersUnderWay, OwnUnderWay
<1>2. CASE Tick \/ UNCHANGED vars
  <2>1. UNCHANGED <<pc, channels, asked, tried, acked>>
    BY <1>2 DEF Tick, vars
  <2> QED BY <2>1 DEF ChannelInv, UnderWay
<1> QED BY <1>1, <1>2 DEF Next

(***************************************************************************)
(* For any settings and any failures the retry catches, every channel that *)
(* is turned on is tried, and none again that succeeded                    *)
(* (alert_manager.py:252-317, 438-450).                                    *)
(***************************************************************************)
THEOREM DeliveryEveryChannelTried == Spec => []EveryChannelTried
<1>1. ChannelInv => EveryChannelTried
  <2> SUFFICES ASSUME ChannelInv, NEW t \in Threads
               PROVE  /\ pc[t] = "done" => tried[t] = asked[t]
                      /\ tried[t] \cup ToSet(channels[t]) = asked[t]
                      /\ acked[t] \cap ToSet(channels[t]) = {}
    BY DEF EveryChannelTried
  <2>1. UnderWay(t) /\ ToSet(<<>>) = {}
    BY DEF ChannelInv, ToSet
  <2> QED BY <2>1 DEF UnderWay
<1> QED BY <1>1, ChannelInit, ChannelStep, PTL DEF Spec
==============================================================================
