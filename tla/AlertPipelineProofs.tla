------------------------- MODULE AlertPipelineProofs -------------------------
(***************************************************************************)
(* For any breaches, threads and cooldown: the state is well typed, no key *)
(* is announced twice within the cooldown, and the pipeline implements     *)
(* AlertThrottle; every breach is in one place at a time, and none is      *)
(* silenced but by an announcement that carried its key.  For the grouping *)
(* of UnionFind: the forest is the components of the pairs visited, and    *)
(* the groups are the bundles that the pipeline dispatches.                *)
(***************************************************************************)
EXTENDS AlertPipeline, UnionFind, FiniteSetTheorems, SequenceTheorems, TLAPS

LEMMA TypeInit == Init => TypeOK
  BY PipelineConstants DEF Init, TypeOK, ToSet

LEMMA TypeStep == TypeOK /\ [Next]_vars => TypeOK'
<1> SUFFICES ASSUME TypeOK, [Next]_vars PROVE TypeOK'
  OBVIOUS
<1> USE PipelineConstants
<1>1. ASSUME NEW e \in Events, Capture(e) PROVE TypeOK'
  <2>1. ToSet(buffer') \subseteq captured'
    BY <1>1 DEF Capture, TypeOK, ToSet
  <2> QED BY <1>1, <2>1 DEF Capture, TypeOK
<1>2. ASSUME NEW e \in Events, FireImmediate(e) PROVE TypeOK'
  BY <1>2 DEF FireImmediate, TypeOK, Workers
<1>3. ASSUME NEW f \in Flushers, FlushIfWindowElapsed(f) PROVE TypeOK'
  BY <1>3 DEF FlushIfWindowElapsed, TypeOK, Workers, ToSet
<1>4. ASSUME NEW w \in Workers, ReadClock(w) PROVE TypeOK'
  BY <1>4 DEF ReadClock, TypeOK
<1>5. ASSUME NEW w \in Workers, Suppress(w) PROVE TypeOK'
  BY <1>5 DEF Suppress, NextBundle, TypeOK
<1>6. ASSUME NEW w \in Workers, Pass(w) PROVE TypeOK'
  BY <1>6 DEF Pass, TypeOK
<1>7. ASSUME NEW w \in Workers, Send(w) PROVE TypeOK'
  BY <1>7 DEF Send, NextBundle, TypeOK
<1>8. ASSUME NEW w \in Workers, Die(w) PROVE TypeOK'
  BY <1>8 DEF Die, TypeOK
<1>9. CASE Tick
  BY <1>9 DEF Tick, TypeOK
<1>10. CASE UNCHANGED vars
  BY <1>10 DEF vars, TypeOK, ToSet
<1> QED
  BY <1>1, <1>2, <1>3, <1>4, <1>5, <1>6, <1>7, <1>8, <1>9, <1>10 DEF Next, Flush, Dispatch

(* The fields of the pipeline have the types the code relies on. *)
THEOREM PipelineTypes == Spec => []TypeOK
  BY TypeInit, TypeStep, PTL DEF Spec

-----------------------------------------------------------------------------
(***************************************************************************)
(* Why the spacing holds although the clock is read before the lock: an    *)
(* announcement of a key is either the one its stamp tells of or at least  *)
(* a cooldown older, and a reading older than the stamp never passes.      *)
(***************************************************************************)
StampsBoundPasses ==
    \A p \in passes : p.at \in Nat /\ \A k \in p.keys :
        /\ k \in DOMAIN lastSent
        /\ p.at = lastSent[k] \/ p.at + Cooldown <= lastSent[k]

\* Readings are instants the clock showed.
InTime == now \in 0..MaxTime /\ readAt \in [Workers -> 0..MaxTime]

IInv == TypeOK /\ InTime /\ StampsBoundPasses /\ CooldownSpacing

\* What a step that stamps nothing keeps.
LEMMA Unstamped ==
    ASSUME StampsBoundPasses, CooldownSpacing, UNCHANGED <<lastSent, passes>>
    PROVE  StampsBoundPasses' /\ CooldownSpacing'
  BY DEF StampsBoundPasses, CooldownSpacing, Granted, Throttle!Spaced

\* The grants a pass adds, and that each of its keys was free.
LEMMA PassGrants ==
    ASSUME IInv, NEW w \in Workers, Pass(w),
           NEW K, K = CooldownKeys(Head(queue[w])), NEW t, t = readAt[w]
    PROVE  /\ t \in 0..MaxTime
           /\ Granted' = Granted \cup {<<k, t>> : k \in K}
           /\ \A k \in K : Throttle!Free(k, t)
<1>1. t \in 0..MaxTime
  BY DEF IInv, InTime
<1>2. passes' = passes \cup {[keys |-> K, at |-> t, of |-> ToSet(Head(queue[w]))]}
  BY DEF Pass
<1>3. Granted' = Granted \cup {<<k, t>> : k \in K}
  <2> DEFINE q == [keys |-> K, at |-> t, of |-> ToSet(Head(queue[w]))]
             Grants(p) == {<<k, p.at>> : k \in p.keys}
  <2>1. passes' = passes \cup {q}
    BY <1>2
  <2>2. Grants(q) = {<<k, t>> : k \in K}
    OBVIOUS
  <2> HIDE DEF q, Grants
  <2>3. UNION {Grants(p) : p \in passes \cup {q}}
          = (UNION {Grants(p) : p \in passes}) \cup Grants(q)
    OBVIOUS
  <2> QED BY <2>1, <2>2, <2>3 DEF Granted, Grants
<1>4. ASSUME NEW k \in K, NEW g \in Granted, g[1] = k PROVE g[2] + Cooldown <= t
  <2>1. PICK p \in passes : k \in p.keys /\ g[2] = p.at
    BY <1>4 DEF Granted
  <2>2. /\ k \in DOMAIN lastSent /\ lastSent[k] \in Nat /\ p.at \in Nat
        /\ p.at = lastSent[k] \/ p.at + Cooldown <= lastSent[k]
    BY <2>1 DEF IInv, StampsBoundPasses, TypeOK
  <2>3. ~(t - lastSent[k] < Cooldown)
    BY <2>2, <1>4 DEF Pass, Cooling
  <2> QED BY <1>1, <2>1, <2>2, <2>3, PipelineConstants
<1> QED BY <1>1, <1>3, <1>4 DEF Throttle!Free

\* The one step that stamps: each key it stamps was a cooldown old.
LEMMA PassStep ==
    ASSUME IInv, NEW w \in Workers, Pass(w)
    PROVE  StampsBoundPasses' /\ CooldownSpacing'
<1> DEFINE K == CooldownKeys(Head(queue[w]))
           t == readAt[w]
<1>1. /\ t \in 0..MaxTime
      /\ Granted' = Granted \cup {<<k, t>> : k \in K}
      /\ \A k \in K : Throttle!Free(k, t)
  BY PassGrants
<1>2. CooldownSpacing'
  BY <1>1 DEF IInv, CooldownSpacing, Throttle!Spaced, Throttle!Free
<1>3. StampsBoundPasses'
  <2>1. lastSent' = [k \in K \cup DOMAIN lastSent |-> IF k \in K THEN t ELSE lastSent[k]]
    BY DEF Pass
  <2>2. passes' = passes \cup {[keys |-> K, at |-> t, of |-> ToSet(Head(queue[w]))]}
    BY DEF Pass
  <2>3. ASSUME NEW p \in passes, NEW k \in p.keys
        PROVE  /\ k \in DOMAIN lastSent'
               /\ p.at = lastSent'[k] \/ p.at + Cooldown <= lastSent'[k]
    <3>1. k \in DOMAIN lastSent /\ p.at \in Nat
          /\ (p.at = lastSent[k] \/ p.at + Cooldown <= lastSent[k])
      BY <2>3 DEF IInv, StampsBoundPasses
    <3>2. CASE k \notin K
      BY <3>1, <3>2, <2>1
    <3>3. CASE k \in K
      <4>1. <<k, p.at>> \in Granted
        BY <2>3 DEF Granted
      <4>2. p.at + Cooldown <= t
        BY <4>1, <1>1, <3>3 DEF Throttle!Free
      <4> QED BY <4>2, <3>1, <3>3, <2>1
    <3> QED BY <3>2, <3>3
  <2>4. ASSUME NEW k \in K PROVE k \in DOMAIN lastSent' /\ t = lastSent'[k]
    BY <2>1, <2>4
  <2> QED BY <1>1, <2>2, <2>3, <2>4 DEF IInv, StampsBoundPasses
<1> QED BY <1>2, <1>3

LEMMA InTimeStep == InTime /\ TypeOK /\ [Next]_vars => InTime'
<1> SUFFICES ASSUME InTime, TypeOK, [Next]_vars PROVE InTime'
  OBVIOUS
<1> USE PipelineConstants DEF InTime, TypeOK
<1>1. ASSUME NEW e \in Events, Capture(e) \/ FireImmediate(e) PROVE InTime'
  BY <1>1 DEF Capture, FireImmediate
<1>2. ASSUME NEW f \in Flushers, FlushIfWindowElapsed(f) PROVE InTime'
  BY <1>2 DEF FlushIfWindowElapsed
<1>3. ASSUME NEW w \in Workers, Dispatch(w) PROVE InTime'
  BY <1>3 DEF Dispatch, ReadClock, Suppress, Pass, Send, Die
<1>4. CASE Tick
  BY <1>4 DEF Tick
<1>5. CASE UNCHANGED vars
  BY <1>5 DEF vars
<1> QED BY <1>1, <1>2, <1>3, <1>4, <1>5 DEF Next, Flush

LEMMA Inductive == Init => IInv
  BY TypeInit, PipelineConstants
  DEF IInv, Init, InTime, StampsBoundPasses, CooldownSpacing, Granted, Throttle!Spaced

LEMMA InductiveStep == IInv /\ [Next]_vars => IInv'
<1> SUFFICES ASSUME IInv, [Next]_vars PROVE IInv'
  OBVIOUS
<1>1. TypeOK' /\ InTime'
  BY TypeStep, InTimeStep DEF IInv
<1>2. ASSUME NEW w \in Workers, Pass(w) PROVE IInv'
  BY <1>1, <1>2, PassStep DEF IInv
<1>3. CASE UNCHANGED <<lastSent, passes>>
  BY <1>1, <1>3, Unstamped DEF IInv
<1>4. (\E w \in Workers : Pass(w)) \/ UNCHANGED <<lastSent, passes>>
  BY DEF Next, Flush, Dispatch, Capture, FireImmediate, FlushIfWindowElapsed, ReadClock,
         Suppress, Send, Die, Tick, vars
<1> QED BY <1>2, <1>3, <1>4

(***************************************************************************)
(* No cooldown key is announced twice in less than a cooldown, for every   *)
(* number of threads and any interleaving of their readings and stamps.    *)
(***************************************************************************)
THEOREM PipelineCooldown == Spec => []CooldownSpacing
<1>1. IInv => CooldownSpacing
  BY DEF IInv
<1> QED BY <1>1, Inductive, InductiveStep, PTL DEF Spec

(***************************************************************************)
(* Every step of the pipeline is a step of the cooldown's abstract         *)
(* specification, or changes none of its grants.                           *)
(***************************************************************************)
THEOREM PipelineImplementsThrottle == Spec => ImplementsThrottle
<1>1. Init => Throttle!Init
  BY DEF Init, Throttle!Init, Granted
<1>2. IInv /\ [Next]_vars => [Throttle!Next]_Granted
  <2> SUFFICES ASSUME IInv, [Next]_vars PROVE [Throttle!Next]_Granted
    OBVIOUS
  <2>1. ASSUME NEW w \in Workers, Pass(w) PROVE Throttle!Next
    <3> DEFINE K == CooldownKeys(Head(queue[w]))
               t == readAt[w]
               New == {g[1] : g \in Granted' \ Granted}
    <3>1. /\ t \in 0..MaxTime
          /\ Granted' = Granted \cup {<<k, t>> : k \in K}
          /\ \A k \in K : Throttle!Free(k, t)
      BY <2>1, PassGrants
    <3>2. New \subseteq K /\ Granted' = Granted \cup {<<k, t>> : k \in New}
      BY <3>1
    <3>3. Throttle!Grant(New, t)
      BY <3>1, <3>2 DEF Throttle!Grant
    <3> QED BY <3>1, <3>3 DEF Throttle!Next
  <2>2. CASE UNCHANGED passes
    BY <2>2 DEF Granted
  <2>3. (\E w \in Workers : Pass(w)) \/ UNCHANGED passes
    BY DEF Next, Flush, Dispatch, Capture, FireImmediate, FlushIfWindowElapsed, ReadClock,
           Suppress, Send, Die, Tick, vars
  <2> QED BY <2>1, <2>2, <2>3
<1> QED BY <1>1, <1>2, Inductive, InductiveStep, PTL
        DEF Spec, ImplementsThrottle, Throttle!Spec
-----------------------------------------------------------------------------
(* The bundles of a flush. *)

\* A set of positions has an increasing numbering, by rank, and Increasing is one.
LEMMA IncreasingNumbers ==
    ASSUME NEW n \in Nat, NEW S \in SUBSET (1..n)
    PROVE  /\ Cardinality(S) \in Nat /\ Increasing(S) \in [1..Cardinality(S) -> S]
           /\ \A a, b \in 1..Cardinality(S) : a < b => Increasing(S)[a] < Increasing(S)[b]
           /\ \A x \in S : \E a \in 1..Cardinality(S) : Increasing(S)[a] = x
<1> DEFINE c == Cardinality(S)
           UpTo(x) == {y \in S : y <= x}
           rank == [x \in S |-> Cardinality(UpTo(x))]
<1>0. \A x \in S : x \in Int
  OBVIOUS
<1>1. IsFiniteSet(S) /\ c \in Nat /\ IsFiniteSet(1..c) /\ Cardinality(1..c) = c
  <2>1. IsFiniteSet(1..n)
    BY FS_Interval
  <2>2. IsFiniteSet(S) /\ c \in Nat
    BY <2>1, FS_Subset, FS_CardinalityType
  <2> HIDE DEF c
  <2>3. IsFiniteSet(1..c) /\ Cardinality(1..c) = c
    BY <2>2, FS_Interval
  <2> QED BY <2>2, <2>3
<1>2. ASSUME NEW x \in S PROVE IsFiniteSet(UpTo(x)) /\ rank[x] \in 1..c
  <2>1. UpTo(x) \in SUBSET S /\ x \in UpTo(x)
    BY <1>0
  <2>2. IsFiniteSet(UpTo(x)) /\ Cardinality(UpTo(x)) <= c /\ Cardinality(UpTo(x)) \in Nat
    BY <1>1, <2>1, FS_Subset, FS_CardinalityType
  <2>3. Cardinality(UpTo(x)) # 0
    BY <2>1, <2>2, FS_EmptySet
  <2> QED BY <1>1, <2>2, <2>3
<1>3. ASSUME NEW x \in S, NEW y \in S, x < y PROVE rank[x] < rank[y]
  <2>1. UpTo(x) \in SUBSET UpTo(y) /\ y \in UpTo(y) /\ y \notin UpTo(x)
    <3>1. x \in Int /\ y \in Int
      BY <1>0
    <3>2. ASSUME NEW z \in UpTo(x) PROVE z \in UpTo(y)
      <4>1. z \in S /\ z \in Int /\ z <= x
        BY <1>0
      <4> QED BY <1>3, <3>1, <4>1
    <3>3. y <= y /\ ~(y <= x)
      BY <1>3, <3>1
    <3>4. y \in UpTo(y) /\ y \notin UpTo(x)
      BY <3>3
    <3> QED BY <3>2, <3>4
  <2>2. IsFiniteSet(UpTo(y)) /\ rank[x] \in Nat /\ rank[y] \in Nat
    BY <1>1, <1>2
  <2>3. Cardinality(UpTo(x)) <= Cardinality(UpTo(y)) /\ Cardinality(UpTo(x)) # Cardinality(UpTo(y))
    BY <2>1, <2>2, FS_Subset
  <2> QED BY <2>2, <2>3
<1> HIDE DEF rank
<1>4. rank \in Injection(S, 1..c)
  <2>1. rank \in [S -> 1..c]
    BY <1>2 DEF rank
  <2>2. ASSUME NEW x \in S, NEW y \in S, rank[x] = rank[y] PROVE x = y
    <3>0. rank[x] \in Int
      <4>1. rank[x] \in 1..c
        BY <1>2
      <4> HIDE DEF c
      <4> QED BY <1>1, <4>1
    <3>1. ~(rank[x] < rank[y]) /\ ~(rank[y] < rank[x])
      BY <2>2, <3>0
    <3>2. ~(x < y) /\ ~(y < x)
      BY <1>3, <3>1
    <3> QED BY <1>0, <3>2
  <2> QED BY <2>1, <2>2 DEF Injection, IsInjective
<1>5. rank \in Surjection(S, 1..c)
  BY <1>1, <1>4, FS_Injection
<1> DEFINE s == [a \in 1..c |-> CHOOSE x \in S : rank[x] = a]
<1>6. s \in [1..c -> S] /\ \A a \in 1..c : rank[s[a]] = a
  BY <1>5 DEF Surjection
<1>7. ASSUME NEW a \in 1..c, NEW b \in 1..c, a < b PROVE s[a] < s[b]
  <2>1. s[a] \in S /\ s[b] \in S /\ rank[s[a]] = a /\ rank[s[b]] = b
    BY <1>6
  <2> HIDE DEF s
  <2>2. ~(s[b] < s[a]) /\ s[a] # s[b]
    <3>1. ~(b < a) /\ a # b
      BY <1>1, <1>7
    <3> QED BY <1>3, <2>1, <3>1
  <2>3. s[a] \in Int /\ s[b] \in Int
    BY <1>0, <2>1
  <2> QED BY <2>2, <2>3
<1>8. /\ Increasing(S) \in [1..c -> S]
      /\ \A a, b \in 1..c : a < b => Increasing(S)[a] < Increasing(S)[b]
  <2>1. \E t \in [1..c -> S] : \A a, b \in DOMAIN t : a < b => t[a] < t[b]
    <3> HIDE DEF s
    <3>1. s \in [1..c -> S] /\ DOMAIN s = 1..c
      BY <1>6
    <3> QED BY <1>7, <3>1
  <2> QED BY <2>1 DEF Increasing
<1>9. Increasing(S) \in Surjection(1..c, S)
  <2>1. ASSUME NEW a \in 1..c, NEW b \in 1..c, Increasing(S)[a] = Increasing(S)[b] PROVE a = b
    <3>1. Increasing(S)[a] \in 1..n
      BY <1>8
    <3>2. ~(a < b) /\ ~(b < a)
      BY <1>1, <1>8, <2>1, <3>1
    <3> QED BY <1>1, <3>2
  <2>2. Increasing(S) \in Injection(1..c, S)
    BY <1>8, <2>1 DEF Injection, IsInjective
  <2> QED BY <1>1, <2>2, FS_Injection
<1> QED BY <1>1, <1>8, <1>9 DEF Surjection

\* Components hold their own position and are equal or apart.
LEMMA ComponentFacts ==
    ASSUME NEW es, NEW i \in DOMAIN es
    PROVE  /\ Component(es, i) \subseteq DOMAIN es /\ i \in Component(es, i)
           /\ \A j \in Component(es, i) : Component(es, j) = Component(es, i)
<1> DEFINE Closed(S) == \A a \in S, b \in DOMAIN es : Related(es[a], es[b]) => b \in S
           Around(k) == {S \in SUBSET DOMAIN es : k \in S /\ Closed(S)}
<1>1. \A k : Component(es, k) = {j \in DOMAIN es : \A S \in Around(k) : j \in S}
  BY DEF Component
<1>2. Component(es, i) \subseteq DOMAIN es /\ i \in Component(es, i)
  BY <1>1
<1>3. ASSUME NEW j \in Component(es, i) PROVE Component(es, j) \subseteq Component(es, i)
  <2>1. Around(i) \subseteq Around(j)
    BY <1>1, <1>3
  <2> HIDE DEF Around
  <2> QED BY <1>1, <2>1
<1>4. ASSUME NEW j \in Component(es, i) PROVE i \in Component(es, j)
  <2> SUFFICES ASSUME NEW S \in Around(j), i \notin S PROVE FALSE
    BY <1>1
  <2>1. Closed(DOMAIN es \ S)
    BY DEF Related, SameCluster, SameNode
  <2>2. DOMAIN es \ S \in Around(i)
    BY <2>1
  <2> HIDE DEF Around
  <2>3. j \in DOMAIN es \ S
    BY <1>1, <1>4, <2>2
  <2>4. j \in S
    BY DEF Around
  <2> QED BY <2>3, <2>4
<1>5. ASSUME NEW j \in Component(es, i) PROVE Component(es, i) \subseteq Component(es, j)
  <2>1. Around(j) \subseteq Around(i)
    BY <1>1, <1>4
  <2> HIDE DEF Around
  <2> QED BY <1>1, <2>1
<1> QED BY <1>2, <1>3, <1>5

\* What is closed around a position holds its component.
LEMMA ComponentLeast ==
    ASSUME NEW es, NEW i \in DOMAIN es, NEW S \in SUBSET DOMAIN es, i \in S,
           \A a \in S, b \in DOMAIN es : Related(es[a], es[b]) => b \in S
    PROVE  Component(es, i) \subseteq S
  BY DEF Component

\* The positions of bundle g of a flush of es.
Origin(es, g) == Increasing(Component(es, Increasing(Firsts(es))[g]))

\* The bundles G hold what is at their positions in es, which are connected; every
\* position is in one of them; and none is there twice.
Holds(es, G) ==
    \A g \in DOMAIN G :
        /\ G[g] # <<>>
        /\ \A m \in DOMAIN G[g] :
             Origin(es, g)[m] \in DOMAIN es /\ G[g][m] = es[Origin(es, g)[m]]
Connected(es, G) ==
    \A g \in DOMAIN G : \E i \in DOMAIN es :
        \A m \in DOMAIN G[g] : Origin(es, g)[m] \in Component(es, i)
Covers(es, G) ==
    \A p \in DOMAIN es : \E g \in DOMAIN G : \E m \in DOMAIN G[g] : Origin(es, g)[m] = p
Separate(es, G) ==
    \A g, h \in DOMAIN G : \A m \in DOMAIN G[g], l \in DOMAIN G[h] :
        Origin(es, g)[m] = Origin(es, h)[l] => g = h /\ m = l

\* Every position of a flush is in exactly one bundle, and there once.
LEMMA BundlesPartition ==
    ASSUME NEW es \in Seq(Events), NEW G, G = GroupEvents(es)
    PROVE  /\ G \in Seq(Seq(Events)) /\ (es # <<>> => G # <<>>)
           /\ Holds(es, G) /\ Connected(es, G) /\ Covers(es, G) /\ Separate(es, G)
<1> DEFINE F == Firsts(es)
           firsts == Increasing(F)
           C(i) == Component(es, i)
           P(i) == Increasing(C(i))
           N(i) == Cardinality(C(i))
<1>1. Len(es) \in Nat /\ DOMAIN es = 1..Len(es)
  OBVIOUS
<1>2. F \in SUBSET (1..Len(es))
  BY <1>1 DEF Firsts
<1>3. /\ Cardinality(F) \in Nat /\ firsts \in [1..Cardinality(F) -> F]
      /\ \A a, b \in 1..Cardinality(F) : a < b => firsts[a] < firsts[b]
      /\ \A x \in F : \E a \in 1..Cardinality(F) : firsts[a] = x
  BY <1>1, <1>2, IncreasingNumbers
<1>4. ASSUME NEW i \in DOMAIN es
      PROVE  /\ C(i) \in SUBSET (1..Len(es)) /\ i \in C(i)
             /\ N(i) \in Nat /\ P(i) \in [1..N(i) -> C(i)]
             /\ \A a, b \in 1..N(i) : a < b => P(i)[a] < P(i)[b]
             /\ \A x \in C(i) : \E a \in 1..N(i) : P(i)[a] = x
  <2>1. C(i) \in SUBSET (1..Len(es)) /\ i \in C(i)
    BY <1>1, ComponentFacts
  <2> QED BY <1>1, <2>1, IncreasingNumbers
<1>5. ASSUME NEW i \in DOMAIN es PROVE 1 \in 1..N(i) /\ P(i)[1] \in F /\ P(i)[1] \in C(i)
  <2> HIDE DEF C, P, N
  <2>1. PICK a \in 1..N(i) : P(i)[a] = i
    BY <1>4
  <2>2. 1 \in 1..N(i) /\ P(i)[1] \in C(i) /\ P(i)[1] \in DOMAIN es
    BY <1>1, <1>4, <2>1
  <2>3. C(P(i)[1]) = C(i)
    BY <2>2, ComponentFacts DEF C
  <2>4. ASSUME NEW j \in C(i) PROVE P(i)[1] <= j
    <3>1. PICK b \in 1..N(i) : P(i)[b] = j
      BY <1>4
    <3>2. P(i)[1] \in Nat /\ P(i)[b] \in Nat
      BY <1>4, <2>2, <3>1
    <3>3. b = 1 \/ 1 < b
      BY <1>4, <3>1
    <3> QED BY <1>4, <2>2, <3>1, <3>2, <3>3
  <2> QED BY <2>2, <2>3, <2>4 DEF Firsts, C
<1>6. /\ G = [g \in 1..Cardinality(F) |-> [m \in 1..N(firsts[g]) |-> es[P(firsts[g])[m]]]]
      /\ \A g \in 1..Cardinality(F) : firsts[g] \in DOMAIN es
  <2>1. DOMAIN firsts = 1..Cardinality(F) /\ \A g \in 1..Cardinality(F) : firsts[g] \in DOMAIN es
    BY <1>1, <1>2, <1>3
  <2>2. \A g \in 1..Cardinality(F) : DOMAIN P(firsts[g]) = 1..N(firsts[g])
    BY <1>4, <2>1
  <2>3. G = [g \in DOMAIN firsts |->
               [m \in DOMAIN P(firsts[g]) |-> es[P(firsts[g])[m]]]]
    BY DEF GroupEvents
  <2> QED BY <2>1, <2>2, <2>3
<1> HIDE DEF F, firsts, C, P, N
<1>7. ASSUME NEW g \in 1..Cardinality(F)
      PROVE  /\ Origin(es, g) = P(firsts[g]) /\ DOMAIN Origin(es, g) = 1..N(firsts[g])
             /\ N(firsts[g]) \in Nat /\ 1 \in 1..N(firsts[g])
             /\ \A m \in 1..N(firsts[g]) : /\ Origin(es, g)[m] \in C(firsts[g])
                                           /\ Origin(es, g)[m] \in DOMAIN es
             /\ \A m, l \in 1..N(firsts[g]) : Origin(es, g)[m] = Origin(es, g)[l] => m = l
  <2>1. firsts[g] \in DOMAIN es
    BY <1>6
  <2>2. Origin(es, g) = P(firsts[g])
    BY DEF Origin, P, C, firsts, F
  <2>3. ASSUME NEW m \in 1..N(firsts[g]), NEW l \in 1..N(firsts[g]),
               Origin(es, g)[m] = Origin(es, g)[l]
        PROVE  m = l
    <3>1. Origin(es, g)[m] \in 1..Len(es)
      BY <1>4, <2>1, <2>2
    <3>2. ~(m < l) /\ ~(l < m)
      BY <1>1, <1>4, <2>1, <2>2, <2>3, <3>1
    <3>3. m \in Nat /\ l \in Nat
      BY <1>4, <2>1
    <3> QED BY <3>2, <3>3
  <2>4. C(firsts[g]) \in SUBSET (1..Len(es)) /\ N(firsts[g]) \in Nat
        /\ P(firsts[g]) \in [1..N(firsts[g]) -> C(firsts[g])] /\ 1 \in 1..N(firsts[g])
    BY <1>4, <1>5, <2>1
  <2>5. ASSUME NEW m \in 1..N(firsts[g])
        PROVE  Origin(es, g)[m] \in C(firsts[g]) /\ Origin(es, g)[m] \in DOMAIN es
    BY <1>1, <2>2, <2>4
  <2> QED BY <2>2, <2>3, <2>4, <2>5
<1>8. DOMAIN G = 1..Cardinality(F)
      /\ \A g \in 1..Cardinality(F) : /\ DOMAIN G[g] = 1..N(firsts[g])
                                      /\ \A m \in 1..N(firsts[g]) : G[g][m] = es[Origin(es, g)[m]]
  BY <1>6, <1>7
<1>9. G \in Seq(Seq(Events))
  <2>1. ASSUME NEW g \in 1..Cardinality(F) PROVE G[g] \in Seq(Events)
    <3>1. \A m \in 1..N(firsts[g]) : es[P(firsts[g])[m]] \in Events
      BY <1>7
    <3>2. G[g] = [m \in 1..N(firsts[g]) |-> es[P(firsts[g])[m]]]
      BY <1>6
    <3> QED BY <1>7, <3>1, <3>2
  <2> QED BY <1>3, <1>6, <2>1
<1>10. ASSUME NEW p \in DOMAIN es
       PROVE  \E g \in DOMAIN G : \E m \in DOMAIN G[g] : Origin(es, g)[m] = p
  <2>1. PICK g \in 1..Cardinality(F) : firsts[g] = P(p)[1]
    BY <1>3, <1>5
  <2>2. C(firsts[g]) = C(p) /\ p \in C(p)
    BY <1>4, <1>5, <2>1, ComponentFacts DEF C
  <2>3. PICK m \in 1..N(firsts[g]) : P(firsts[g])[m] = p
    BY <1>4, <1>6, <2>2
  <2> QED BY <1>7, <1>8, <2>3
<1>11. ASSUME NEW g \in DOMAIN G, NEW h \in DOMAIN G, NEW m \in DOMAIN G[g], NEW l \in DOMAIN G[h],
              Origin(es, g)[m] = Origin(es, h)[l]
       PROVE  g = h /\ m = l
  <2>0. g \in 1..Cardinality(F) /\ h \in 1..Cardinality(F)
        /\ m \in 1..N(firsts[g]) /\ l \in 1..N(firsts[h])
    BY <1>8
  <2>1. C(firsts[g]) = C(firsts[h])
    <3>1. Origin(es, g)[m] \in C(firsts[g]) /\ Origin(es, g)[m] \in C(firsts[h])
      BY <1>7, <1>11, <2>0
    <3> QED BY <1>6, <2>0, <3>1, ComponentFacts DEF C
  <2>2. firsts[g] \in F /\ firsts[h] \in F
    BY <1>3, <2>0
  <2>3. firsts[g] \in C(firsts[h]) /\ firsts[h] \in C(firsts[g])
    BY <1>4, <1>6, <2>0, <2>1
  <2>4. firsts[g] <= firsts[h] /\ firsts[h] <= firsts[g]
    BY <2>2, <2>3 DEF F, Firsts, C
  <2>5. firsts[g] = firsts[h]
    BY <1>1, <1>6, <2>0, <2>4
  <2>6. ~(g < h) /\ ~(h < g)
    BY <1>1, <1>3, <1>6, <2>0, <2>5
  <2>7. g = h
    BY <1>3, <2>0, <2>6
  <2> QED BY <1>7, <1>11, <2>0, <2>7
<1>12. es # <<>> => G # <<>>
  <2> SUFFICES ASSUME es # <<>> PROVE DOMAIN G # {}
    BY <1>9
  <2>1. 1 \in DOMAIN es
    BY <1>1
  <2> QED BY <1>10, <2>1
<1>13. ASSUME NEW g \in DOMAIN G PROVE G[g] # <<>>
  BY <1>7, <1>8
<1>14. ASSUME NEW g \in DOMAIN G, NEW m \in DOMAIN G[g]
       PROVE  Origin(es, g)[m] \in DOMAIN es /\ G[g][m] = es[Origin(es, g)[m]]
  BY <1>7, <1>8
<1>15. ASSUME NEW g \in DOMAIN G
       PROVE  \E i \in DOMAIN es : \A m \in DOMAIN G[g] : Origin(es, g)[m] \in Component(es, i)
  <2>1. firsts[g] \in DOMAIN es
        /\ \A m \in DOMAIN G[g] : Origin(es, g)[m] \in Component(es, firsts[g])
    BY <1>6, <1>7, <1>8 DEF C
  <2> QED BY <2>1
<1>16. Holds(es, G)
  BY <1>13, <1>14 DEF Holds
<1>17. Connected(es, G)
  BY <1>15 DEF Connected
<1>18. Covers(es, G) /\ Separate(es, G)
  BY <1>10, <1>11 DEF Covers, Separate
<1> QED BY <1>9, <1>12, <1>16, <1>17, <1>18
-----------------------------------------------------------------------------
(***************************************************************************)
(* Why no breach is lost or doubled: one that is still to be disposed of   *)
(* is in the buffer once or in one bundle of one flush worker once, and    *)
(* any other is nowhere.                                                   *)
(***************************************************************************)
Nowhere(e, group) == \A n \in DOMAIN group : group[n] # e
Once(e, group) == \E n \in DOMAIN group : \A m \in DOMAIN group : group[m] = e <=> m = n
NowhereIn(e, bundles) == \A g \in DOMAIN bundles : Nowhere(e, bundles[g])
OnceIn(e, bundles) ==
    \E g \in DOMAIN bundles :
        Once(e, bundles[g]) /\ \A h \in DOMAIN bundles \ {g} : Nowhere(e, bundles[h])

Pending(e) == e \in captured \ (settled \cup lost)
Waiting(e) == Once(e, buffer) /\ \A f \in Flushers : NowhereIn(e, queue[f])
Taken(e) ==
    /\ Nowhere(e, buffer)
    /\ \E f \in Flushers : /\ OnceIn(e, queue[f])
                           /\ \A h \in Flushers \ {f} : NowhereIn(e, queue[h])
Gone(e) == Nowhere(e, buffer) /\ \A f \in Flushers : NowhereIn(e, queue[f])
Somewhere(e) == IF Pending(e) THEN Waiting(e) \/ Taken(e) ELSE Gone(e)

QueuesOK ==
    /\ buffer \in Seq(Events) /\ queue \in [Workers -> Seq(Seq(Events))]
    /\ \A w \in Workers : pc[w] = "idle" <=> queue[w] = <<>>

PlacesInv ==
    TypeOK /\ QueuesOK /\ settled \cup lost \subseteq captured
    /\ \A e \in Events : Somewhere(e)

\* A breach that is once in the buffer is once in the bundles.
LEMMA BundlesOnce ==
    ASSUME NEW es \in Seq(Events), NEW G, G = GroupEvents(es), NEW e
    PROVE  /\ Once(e, es) => OnceIn(e, G)
           /\ Nowhere(e, es) => NowhereIn(e, G)
<1>0. Holds(es, G) /\ Covers(es, G) /\ Separate(es, G)
  BY BundlesPartition
<1>1. /\ \A g \in DOMAIN G : \A m \in DOMAIN G[g] : /\ Origin(es, g)[m] \in DOMAIN es
                                                  /\ G[g][m] = es[Origin(es, g)[m]]
      /\ \A p \in DOMAIN es :
           \E g \in DOMAIN G : \E m \in DOMAIN G[g] : Origin(es, g)[m] = p
      /\ \A g, h \in DOMAIN G : \A m \in DOMAIN G[g], l \in DOMAIN G[h] :
           Origin(es, g)[m] = Origin(es, h)[l] => g = h /\ m = l
  BY <1>0 DEF Holds, Covers, Separate
<1>2. ASSUME Once(e, es) PROVE OnceIn(e, G)
  <2>1. PICK p \in DOMAIN es : \A q \in DOMAIN es : es[q] = e <=> q = p
    BY <1>2 DEF Once
  <2>2. PICK g \in DOMAIN G : \E m \in DOMAIN G[g] : Origin(es, g)[m] = p
    BY <1>1
  <2>3. PICK m \in DOMAIN G[g] : Origin(es, g)[m] = p
    BY <2>2
  <2>4. \A h \in DOMAIN G : \A l \in DOMAIN G[h] : G[h][l] = e <=> Origin(es, h)[l] = p
    BY <1>1, <2>1
  <2>5. Once(e, G[g])
    <3>1. \A l \in DOMAIN G[g] : Origin(es, g)[l] = p <=> l = m
      BY <1>1, <2>3
    <3>2. \A l \in DOMAIN G[g] : G[g][l] = e <=> l = m
      BY <2>4, <3>1
    <3> QED BY <3>2 DEF Once
  <2>6. \A h \in DOMAIN G \ {g} : Nowhere(e, G[h])
    BY <1>1, <2>3, <2>4 DEF Nowhere
  <2> QED BY <2>5, <2>6 DEF OnceIn
<1>3. ASSUME Nowhere(e, es) PROVE NowhereIn(e, G)
  BY <1>1, <1>3 DEF Nowhere, NowhereIn
<1> QED BY <1>2, <1>3

\* What is left of the bundles after the first.
LEMMA BundlesLeft ==
    ASSUME NEW q \in Seq(Seq(Events)), q # <<>>, NEW e
    PROVE  /\ NowhereIn(e, q) => e \notin ToSet(Head(q)) /\ NowhereIn(e, Tail(q))
           /\ OnceIn(e, q) /\ e \in ToSet(Head(q)) => NowhereIn(e, Tail(q))
           /\ OnceIn(e, q) /\ e \notin ToSet(Head(q)) => OnceIn(e, Tail(q))
<1>1. /\ Len(q) \in Nat \ {0} /\ DOMAIN q = 1..Len(q) /\ Head(q) = q[1]
      /\ DOMAIN Tail(q) = 1..(Len(q) - 1)
      /\ \A i \in 1..(Len(q) - 1) : Tail(q)[i] = q[i + 1]
  OBVIOUS
<1>2. e \in ToSet(Head(q)) <=> ~Nowhere(e, q[1])
  BY <1>1 DEF ToSet, Nowhere
<1>3. 1 \in DOMAIN q /\ \A i \in DOMAIN Tail(q) : i + 1 \in DOMAIN q /\ i + 1 # 1
  BY <1>1
<1>4. \A g \in DOMAIN q : Once(e, q[g]) => ~Nowhere(e, q[g])
  BY DEF Once, Nowhere
<1>5. ASSUME NowhereIn(e, q) PROVE e \notin ToSet(Head(q)) /\ NowhereIn(e, Tail(q))
  BY <1>1, <1>2, <1>3, <1>5 DEF NowhereIn
<1>6. ASSUME OnceIn(e, q), e \in ToSet(Head(q)) PROVE NowhereIn(e, Tail(q))
  <2>1. \A h \in DOMAIN q \ {1} : Nowhere(e, q[h])
    BY <1>2, <1>3, <1>6 DEF OnceIn
  <2> QED BY <1>1, <1>3, <2>1 DEF NowhereIn
<1>7. ASSUME OnceIn(e, q), e \notin ToSet(Head(q)) PROVE OnceIn(e, Tail(q))
  <2>1. PICK g \in DOMAIN q : Once(e, q[g]) /\ \A h \in DOMAIN q \ {g} : Nowhere(e, q[h])
    BY <1>7 DEF OnceIn
  <2>2. g # 1
    BY <1>2, <1>4, <1>7, <2>1
  <2>3. g - 1 \in DOMAIN Tail(q) /\ Tail(q)[g - 1] = q[g]
    BY <1>1, <2>2
  <2>4. ASSUME NEW i \in DOMAIN Tail(q) \ {g - 1}
        PROVE  i + 1 \in DOMAIN q \ {g} /\ Tail(q)[i] = q[i + 1]
    <3>1. i \in Nat /\ g \in Nat /\ i # g - 1
      BY <1>1
    <3> QED BY <1>1, <3>1
  <2> QED BY <2>1, <2>3, <2>4 DEF OnceIn
<1> QED BY <1>5, <1>6, <1>7

LEMMA BufferAppend ==
    ASSUME NEW es \in Seq(Events), NEW d \in Events, NEW e
    PROVE  /\ Append(es, d) \in Seq(Events)
           /\ e = d /\ Nowhere(e, es) => Once(e, Append(es, d))
           /\ e # d => /\ Once(e, es) => Once(e, Append(es, d))
                       /\ Nowhere(e, es) => Nowhere(e, Append(es, d))
<1>1. /\ Len(es) \in Nat /\ DOMAIN es = 1..Len(es) /\ DOMAIN Append(es, d) = 1..(Len(es) + 1)
      /\ Append(es, d) \in Seq(Events) /\ Append(es, d)[Len(es) + 1] = d
      /\ \A i \in 1..Len(es) : Append(es, d)[i] = es[i]
  OBVIOUS
<1>2. \A i \in DOMAIN Append(es, d) : i \in DOMAIN es \/ i = Len(es) + 1
  BY <1>1
<1>3. DOMAIN es \subseteq DOMAIN Append(es, d) /\ Len(es) + 1 \in DOMAIN Append(es, d)
      /\ Len(es) + 1 \notin DOMAIN es
  BY <1>1
<1>4. e = d /\ Nowhere(e, es) => Once(e, Append(es, d))
  BY <1>1, <1>2, <1>3 DEF Nowhere, Once
<1>5. e # d /\ Once(e, es) => Once(e, Append(es, d))
  BY <1>1, <1>2, <1>3 DEF Once
<1>6. e # d /\ Nowhere(e, es) => Nowhere(e, Append(es, d))
  BY <1>1, <1>2, <1>3 DEF Nowhere
<1> QED BY <1>1, <1>4, <1>5, <1>6

LEMMA PlacesInit == Init => PlacesInv
  BY TypeInit DEF Init, PlacesInv, QueuesOK, Somewhere, Pending, Gone, Nowhere, NowhereIn, Workers

LEMMA BundlesType ==
    ASSUME NEW es \in Seq(Events), NEW G, G = GroupEvents(es)
    PROVE  G \in Seq(Seq(Events)) /\ (es # <<>> => G # <<>>)
<1>1. G \in Seq(Seq(Events))
  BY BundlesPartition
<1>2. es # <<>> => G # <<>>
  BY BundlesPartition
<1> QED BY <1>1, <1>2

LEMMA Rest ==
    ASSUME NEW S, NEW s \in Seq(S), s # <<>>
    PROVE  Tail(s) \in Seq(S) /\ (Tail(s) = <<>> <=> Len(s) = 1)
<1>1. /\ Len(s) \in Nat \ {0} /\ DOMAIN s = 1..Len(s) /\ Head(s) = s[1]
      /\ Tail(s) \in Seq(S) /\ DOMAIN Tail(s) = 1..(Len(s) - 1)
      /\ \A i \in 1..(Len(s) - 1) : Tail(s)[i] = s[i + 1]
  OBVIOUS
<1>2. Tail(s) = <<>> <=> Len(s) = 1
  BY <1>1
<1> QED BY <1>1, <1>2

LEMMA QueuesStep == TypeOK /\ QueuesOK /\ [Next]_vars => QueuesOK'
<1> SUFFICES ASSUME TypeOK, QueuesOK, [Next]_vars PROVE QueuesOK'
  OBVIOUS
<1> USE PipelineConstants DEF QueuesOK
<1>t. pc \in [Workers -> {"idle", "clock", "check", "send"}]
  BY DEF TypeOK
<1>1. ASSUME NEW e \in Events, Capture(e) PROVE QueuesOK'
  BY <1>1 DEF Capture
<1>2. ASSUME NEW e \in Events, FireImmediate(e) PROVE QueuesOK'
  <2>1. << <<e>> >> \in Seq(Seq(Events)) /\ << <<e>> >> # <<>>
    OBVIOUS
  <2> QED BY <1>2, <1>t, <2>1 DEF FireImmediate, Workers
<1>3. ASSUME NEW f \in Flushers, FlushIfWindowElapsed(f) PROVE QueuesOK'
  <2>1. GroupEvents(buffer) \in Seq(Seq(Events)) /\ GroupEvents(buffer) # <<>>
    <3>1. buffer \in Seq(Events) /\ buffer # <<>>
      BY <1>3 DEF FlushIfWindowElapsed
    <3> QED BY <3>1, BundlesType
  <2> QED BY <1>3, <1>t, <2>1 DEF FlushIfWindowElapsed, Workers
<1>4. ASSUME NEW w \in Workers, NextBundle(w), pc[w] # "idle", UNCHANGED buffer PROVE QueuesOK'
  <2>1. queue[w] \in Seq(Seq(Events)) /\ queue[w] # <<>>
    BY <1>4
  <2>2. Tail(queue[w]) \in Seq(Seq(Events)) /\ (Tail(queue[w]) = <<>> <=> Len(queue[w]) = 1)
    BY <2>1, Rest
  <2> QED BY <1>4, <1>t, <2>2 DEF NextBundle
<1>5. ASSUME NEW w \in Workers, ReadClock(w) \/ Pass(w) PROVE QueuesOK'
  BY <1>5, <1>t DEF ReadClock, Pass
<1>6. ASSUME NEW w \in Workers, Suppress(w) \/ Send(w) PROVE QueuesOK'
  BY <1>4, <1>6 DEF Suppress, Send
<1>7. ASSUME NEW w \in Workers, Die(w) PROVE QueuesOK'
  BY <1>7, <1>t DEF Die
<1>8. CASE Tick \/ UNCHANGED vars
  BY <1>8 DEF Tick, vars
<1> QED BY <1>1, <1>2, <1>3, <1>5, <1>6, <1>7, <1>8 DEF Next, Flush, Dispatch

\* What the steps keep that move no breach.
LEMMA Unmoved ==
    ASSUME PlacesInv, UNCHANGED <<buffer, captured, settled, lost>>,
           \A f \in Flushers : queue'[f] = queue[f]
    PROVE  \A e \in Events : Somewhere(e)'
<1> SUFFICES ASSUME NEW e \in Events PROVE Somewhere(e)'
  OBVIOUS
<1>1. Pending(e)' <=> Pending(e)
  BY DEF Pending
<1>2. Somewhere(e)
  BY DEF PlacesInv
<1> QED BY <1>1, <1>2 DEF Somewhere, Waiting, Taken, Gone

\* Only captured breaches are disposed of.
LEMMA CapturedStep == PlacesInv /\ [Next]_vars => (settled \cup lost \subseteq captured)'
<1> SUFFICES ASSUME PlacesInv, [Next]_vars PROVE (settled \cup lost \subseteq captured)'
  OBVIOUS
<1>1. ASSUME NEW f \in Flushers, NEW g \in DOMAIN queue[f] PROVE ToSet(queue[f][g]) \subseteq captured
  <2> SUFFICES ASSUME NEW n \in DOMAIN queue[f][g] PROVE queue[f][g][n] \in captured
    BY DEF ToSet
  <2>1. queue[f] \in Seq(Seq(Events))
    BY DEF PlacesInv, QueuesOK, Workers
  <2>2. queue[f][g] \in Seq(Events)
    BY <2>1
  <2>3. queue[f][g][n] \in Events
    BY <2>2
  <2>4. ~Gone(queue[f][g][n])
    BY DEF Gone, NowhereIn, Nowhere
  <2> QED BY <2>3, <2>4 DEF PlacesInv, Somewhere, Pending
<1>2. ASSUME NEW f \in Flushers, pc[f] # "idle" PROVE ToSet(Head(queue[f])) \subseteq captured
  <2>1. queue[f] \in Seq(Seq(Events)) /\ queue[f] # <<>>
    BY <1>2 DEF PlacesInv, QueuesOK, Workers
  <2>2. Head(queue[f]) = queue[f][1] /\ 1 \in DOMAIN queue[f]
    BY <2>1
  <2> QED BY <1>1, <2>2
<1>3. settled \cup lost \subseteq captured
  BY DEF PlacesInv
<1>4. ASSUME NEW w \in Workers, Suppress(w) \/ Send(w) PROVE (settled \cup lost \subseteq captured)'
  <2>1. NextBundle(w) /\ pc[w] # "idle" /\ UNCHANGED <<captured, lost>>
    BY <1>4 DEF Suppress, Send
  <2> QED BY <1>2, <1>3, <2>1 DEF NextBundle
<1>5. ASSUME NEW w \in Workers, Die(w) PROVE (settled \cup lost \subseteq captured)'
  <2>1. UNION {ToSet(queue[w][g]) : g \in DOMAIN queue[w]} \subseteq captured
    BY <1>1, <1>5 DEF Die
  <2> QED BY <1>3, <1>5, <2>1 DEF Die
<1>6. CASE UNCHANGED <<settled, lost>> /\ captured \subseteq captured'
  BY <1>3, <1>6
<1>7. (\E w \in Workers : Suppress(w) \/ Send(w) \/ Die(w))
      \/ (UNCHANGED <<settled, lost>> /\ captured \subseteq captured')
  BY DEF Next, Flush, Dispatch, Capture, FireImmediate, FlushIfWindowElapsed, ReadClock, Pass,
         Tick, vars
<1> QED BY <1>4, <1>5, <1>6, <1>7

LEMMA PlacesStep == PlacesInv /\ [Next]_vars => PlacesInv'
<1> SUFFICES ASSUME PlacesInv, [Next]_vars PROVE \A e \in Events : Somewhere(e)'
  BY TypeStep, QueuesStep, CapturedStep DEF PlacesInv
<1> USE PipelineConstants
<1>t. /\ TypeOK /\ QueuesOK /\ QueuesOK'
      /\ \A e \in Events : Somewhere(e)
  BY QueuesStep DEF PlacesInv
<1>1. ASSUME NEW d \in Events, Capture(d), NEW e \in Events PROVE Somewhere(e)'
  <2>1. UNCHANGED <<queue, settled, lost>> /\ captured' = captured \cup {d} /\ d \notin captured
        /\ buffer' = Append(buffer, d) /\ buffer \in Seq(Events)
    BY <1>1, <1>t DEF Capture, QueuesOK
  <2>2. CASE e = d
    <3>1. Gone(e)
      BY <1>t, <2>1, <2>2 DEF Somewhere, Pending
    <3>2. Waiting(e)'
      BY <2>1, <2>2, <3>1, BufferAppend DEF Gone, Waiting
    <3>3. Pending(e)' \/ (e \in settled \cup lost)
      BY <2>1, <2>2 DEF Pending
    <3>4. settled \cup lost \subseteq captured
      BY DEF PlacesInv
    <3> QED BY <2>1, <2>2, <3>2, <3>3, <3>4 DEF Somewhere
  <2>3. CASE e # d
    <3>1. Pending(e)' <=> Pending(e)
      BY <2>1, <2>3 DEF Pending
    <3>2. (Once(e, buffer) => Once(e, buffer')) /\ (Nowhere(e, buffer) => Nowhere(e, buffer'))
      BY <2>1, <2>3, BufferAppend
    <3> QED BY <1>t, <2>1, <3>1, <3>2 DEF Somewhere, Waiting, Taken, Gone
  <2> QED BY <2>2, <2>3
<1>2. ASSUME NEW f \in Flushers, FlushIfWindowElapsed(f), NEW e \in Events PROVE Somewhere(e)'
  <2>1. /\ UNCHANGED <<captured, settled, lost>> /\ buffer' = <<>> /\ buffer \in Seq(Events)
        /\ queue[f] = <<>> /\ queue'[f] = GroupEvents(buffer)
        /\ \A h \in Flushers \ {f} : queue'[h] = queue[h]
    BY <1>2, <1>t DEF FlushIfWindowElapsed, QueuesOK, Workers
  <2>2. Pending(e)' <=> Pending(e)
    BY <2>1 DEF Pending
  <2>3. Nowhere(e, buffer') /\ ~OnceIn(e, queue[f])
    BY <2>1 DEF Nowhere, OnceIn
  <2>4. Waiting(e) => Taken(e)'
    BY <2>1, <2>3, BundlesOnce DEF Waiting, Taken
  <2>5. Nowhere(e, buffer) => NowhereIn(e, queue'[f])
    BY <2>1, BundlesOnce
  <2>6. Taken(e) => Taken(e)'
    <3> SUFFICES ASSUME Taken(e) PROVE Taken(e)'
      OBVIOUS
    <3>1. PICK h \in Flushers : /\ OnceIn(e, queue[h])
                                /\ \A k \in Flushers \ {h} : NowhereIn(e, queue[k])
      BY DEF Taken
    <3>2. h # f
      BY <2>3, <3>1
    <3>3. OnceIn(e, queue'[h])
      BY <2>1, <3>1, <3>2
    <3>4. \A k \in Flushers \ {h} : NowhereIn(e, queue'[k])
      BY <2>1, <2>5, <3>1, <3>2 DEF Taken
    <3> QED BY <2>3, <3>3, <3>4 DEF Taken
  <2>7. Gone(e) => Gone(e)'
    BY <2>1, <2>3, <2>5 DEF Gone
  <2> QED BY <1>t, <2>2, <2>4, <2>6, <2>7 DEF Somewhere
<1>3. ASSUME NEW f \in Flushers, NextBundle(f), pc[f] # "idle",
             UNCHANGED <<buffer, captured, lost>>, NEW e \in Events
      PROVE  Somewhere(e)'
  <2>1. /\ queue[f] \in Seq(Seq(Events)) /\ queue[f] # <<>> /\ queue'[f] = Tail(queue[f])
        /\ \A h \in Flushers \ {f} : queue'[h] = queue[h]
        /\ settled' = settled \cup ToSet(Head(queue[f]))
    BY <1>3, <1>t DEF NextBundle, QueuesOK, Workers
  <2>2. /\ NowhereIn(e, queue[f]) => e \notin ToSet(Head(queue[f])) /\ NowhereIn(e, queue'[f])
        /\ OnceIn(e, queue[f]) /\ e \in ToSet(Head(queue[f])) => NowhereIn(e, queue'[f])
        /\ OnceIn(e, queue[f]) /\ e \notin ToSet(Head(queue[f])) => OnceIn(e, queue'[f])
    BY <2>1, BundlesLeft
  <2>3. Waiting(e) => Waiting(e)' /\ e \notin ToSet(Head(queue[f]))
    BY <1>3, <2>1, <2>2 DEF Waiting
  <2>4. Gone(e) => Gone(e)' /\ e \notin ToSet(Head(queue[f]))
    BY <1>3, <2>1, <2>2 DEF Gone
  <2>5. ASSUME Taken(e)
        PROVE  IF e \in ToSet(Head(queue[f])) THEN Gone(e)' ELSE Taken(e)'
    <3>1. PICK h \in Flushers : /\ OnceIn(e, queue[h])
                                /\ \A k \in Flushers \ {h} : NowhereIn(e, queue[k])
      BY <2>5 DEF Taken
    <3>2. Nowhere(e, buffer')
      BY <1>3, <2>5 DEF Taken
    <3>3. CASE h = f
      BY <2>1, <2>2, <3>1, <3>2, <3>3 DEF Taken, Gone
    <3>4. CASE h # f
      <4>1. OnceIn(e, queue'[h]) /\ e \notin ToSet(Head(queue[f]))
        BY <2>1, <2>2, <3>1, <3>4
      <4>2. \A k \in Flushers \ {h} : NowhereIn(e, queue'[k])
        BY <2>1, <2>2, <3>1, <3>4
      <4> QED BY <3>2, <4>1, <4>2 DEF Taken
    <3> QED BY <3>3, <3>4
  <2>6. Pending(e)' <=> Pending(e) /\ e \notin ToSet(Head(queue[f]))
    BY <1>3, <2>1 DEF Pending
  <2> QED BY <1>t, <2>3, <2>4, <2>5, <2>6 DEF Somewhere
<1>4. ASSUME NEW e \in Events, NextBundle(e), UNCHANGED <<buffer, captured, lost>>
      PROVE  \A d \in Events : Somewhere(d)'
  <2>1. /\ UNCHANGED settled /\ \A f \in Flushers : queue'[f] = queue[f]
    BY <1>4, <1>t DEF NextBundle, QueuesOK, Workers
  <2> QED BY <1>4, <2>1, Unmoved
<1>5. ASSUME NEW w \in Workers, Suppress(w) \/ Send(w), NEW e \in Events PROVE Somewhere(e)'
  <2>1. NextBundle(w) /\ pc[w] # "idle" /\ UNCHANGED <<buffer, captured, lost>>
    BY <1>5 DEF Suppress, Send
  <2> QED BY <1>3, <1>4, <2>1 DEF Workers
<1>6. ASSUME NEW f \in Workers, Die(f), NEW e \in Events PROVE Somewhere(e)'
  <2>1. /\ f \in Flushers /\ UNCHANGED <<buffer, captured, settled>> /\ queue'[f] = <<>>
        /\ \A h \in Flushers \ {f} : queue'[h] = queue[h]
        /\ lost' = lost \cup UNION {ToSet(queue[f][g]) : g \in DOMAIN queue[f]}
    BY <1>6, <1>t DEF Die, QueuesOK, Workers
  <2> DEFINE Died == UNION {ToSet(queue[f][g]) : g \in DOMAIN queue[f]}
  <2>2. NowhereIn(e, queue'[f])
    BY <2>1 DEF NowhereIn
  <2>3. NowhereIn(e, queue[f]) <=> e \notin Died
    BY DEF NowhereIn, Nowhere, ToSet
  <2>4. OnceIn(e, queue[f]) => ~NowhereIn(e, queue[f])
    BY DEF OnceIn, NowhereIn, Once, Nowhere
  <2>5. Pending(e)' <=> Pending(e) /\ e \notin Died
    BY <2>1 DEF Pending
  <2> HIDE DEF Died
  <2>6. Waiting(e) => Waiting(e)' /\ e \notin Died
    BY <2>1, <2>2, <2>3 DEF Waiting
  <2>7. Gone(e) => Gone(e)' /\ e \notin Died
    BY <2>1, <2>2, <2>3 DEF Gone
  <2>8. ASSUME Taken(e) PROVE IF e \in Died THEN Gone(e)' ELSE Taken(e)'
    <3>1. PICK h \in Flushers : /\ OnceIn(e, queue[h])
                                /\ \A k \in Flushers \ {h} : NowhereIn(e, queue[k])
      BY <2>8 DEF Taken
    <3>2. Nowhere(e, buffer')
      BY <2>1, <2>8 DEF Taken
    <3>3. CASE h = f
      BY <2>1, <2>2, <2>3, <2>4, <3>1, <3>2, <3>3 DEF Gone
    <3>4. CASE h # f
      BY <2>1, <2>2, <2>3, <3>1, <3>2, <3>4 DEF Taken
    <3> QED BY <3>3, <3>4
  <2> QED BY <1>t, <2>5, <2>6, <2>7, <2>8 DEF Somewhere
<1>7. ASSUME NEW e \in Events, FireImmediate(e) PROVE \A d \in Events : Somewhere(d)'
  BY <1>7, <1>t, Unmoved DEF FireImmediate, QueuesOK, Workers
<1>8. CASE (\E w \in Workers : ReadClock(w) \/ Pass(w)) \/ Tick \/ UNCHANGED vars
  <2>1. UNCHANGED <<buffer, queue, captured, settled, lost>>
    BY <1>8 DEF ReadClock, Pass, Tick, vars
  <2> QED BY <2>1, Unmoved
<1> QED BY <1>1, <1>2, <1>5, <1>6, <1>7, <1>8 DEF Next, Flush, Dispatch

(***************************************************************************)
(* However captures, flushes and the ends of workers interleave, a breach  *)
(* that was captured is in the buffer once or in one bundle of one worker  *)
(* once until it is disposed of, and then nowhere                          *)
(* (alert_manager.py:517-533, 625-640).                                    *)
(***************************************************************************)
THEOREM PipelineEventsAccounted == Spec => []EventsAccounted
<1>1. ASSUME PlacesInv, NEW e \in captured
      PROVE  Cardinality(Places(e)) = IF e \in settled \cup lost THEN 0 ELSE 1
  <2>1. Somewhere(e) /\ (Pending(e) <=> e \notin settled \cup lost)
    BY <1>1 DEF PlacesInv, TypeOK, Pending
  <2>2. Nowhere(e, buffer) => InBuffer(e) = {}
    BY DEF Nowhere, InBuffer, At
  <2>3. ASSUME NEW f \in Flushers, NowhereIn(e, queue[f]) PROVE InQueue(e, f) = {}
    BY <2>3 DEF NowhereIn, Nowhere, InQueue, At
  <2>4. Gone(e) => Places(e) = {}
    BY <2>2, <2>3 DEF Gone, Places
  <2>5. ASSUME Waiting(e) PROVE \E p : Places(e) = {p}
    <3>1. PICK n \in DOMAIN buffer : \A m \in DOMAIN buffer : buffer[m] = e <=> m = n
      BY <2>5 DEF Waiting, Once
    <3>2. InBuffer(e) = {<<n>>}
      BY <3>1 DEF InBuffer, At
    <3>3. \A f \in Flushers : InQueue(e, f) = {}
      BY <2>3, <2>5 DEF Waiting
    <3>4. Places(e) = {<<n>>}
      BY <3>2, <3>3 DEF Places
    <3> QED BY <3>4
  <2>6. ASSUME Taken(e) PROVE \E p : Places(e) = {p}
    <3>1. PICK f \in Flushers : /\ OnceIn(e, queue[f])
                                /\ \A h \in Flushers \ {f} : NowhereIn(e, queue[h])
      BY <2>6 DEF Taken
    <3>2. PICK g \in DOMAIN queue[f] :
            Once(e, queue[f][g]) /\ \A h \in DOMAIN queue[f] \ {g} : Nowhere(e, queue[f][h])
      BY <3>1 DEF OnceIn
    <3>3. PICK n \in DOMAIN queue[f][g] : \A m \in DOMAIN queue[f][g] : queue[f][g][m] = e <=> m = n
      BY <3>2 DEF Once
    <3>4. At(e, queue[f][g]) = {n} /\ \A h \in DOMAIN queue[f] \ {g} : At(e, queue[f][h]) = {}
      BY <3>2, <3>3 DEF At, Nowhere
    <3>5. InQueue(e, f) = {<<f, g, n>>}
      BY <3>4 DEF InQueue
    <3>6. InBuffer(e) = {} /\ \A h \in Flushers \ {f} : InQueue(e, h) = {}
      BY <2>2, <2>3, <2>6, <3>1 DEF Taken
    <3>7. Places(e) = {<<f, g, n>>}
      BY <3>5, <3>6 DEF Places
    <3> QED BY <3>7
  <2>7. IF e \in settled \cup lost THEN Places(e) = {} ELSE \E p : Places(e) = {p}
    BY <2>1, <2>4, <2>5, <2>6 DEF Somewhere
  <2> QED BY <2>7, FS_EmptySet, FS_Singleton
<1>2. PlacesInv => EventsAccounted
  BY <1>1 DEF EventsAccounted
<1> QED BY <1>2, PlacesInit, PlacesStep, PTL DEF Spec
-----------------------------------------------------------------------------
(***************************************************************************)
(* Why a breach is announced: as long as no cluster or node name stands    *)
(* for two, a bundle's keys are those of its breaches, so each stamp is    *)
(* one an announcement of that very workload left.                         *)
(***************************************************************************)
NamesApart ==
    \A e, f \in Events :
        Related(e, f) => TenantOf[e] = TenantOf[f] /\ ClusterOf[e] = ClusterOf[f]

OwnKeys(group) == {OwnKey(e) : e \in ToSet(group)}
Named(group) == group # <<>> /\ CooldownKeys(group) = OwnKeys(group)

StampsNamed == \A k \in DOMAIN lastSent : \E p \in passes :
                  p.at = lastSent[k] /\ k \in {OwnKey(f) : f \in p.of}

Announced(e) ==
    \E p \in passes : readAt[e] - p.at < Cooldown /\ OwnKey(e) \in {OwnKey(f) : f \in p.of}

Immediate(e) ==
    /\ e \notin captured \/ e \in unfired => pc[e] = "idle"
    /\ pc[e] # "idle" => queue[e] = << <<e>> >>
    /\ pc[e] = "send" => Announced(e)
    /\ Ended(e) => Announced(e)

AnnouncedInv ==
    /\ NamesApart /\ Cooldown > 0
    /\ PlacesInv /\ InTime /\ StampsNamed
    /\ \A w \in Workers : \A g \in DOMAIN queue[w] : Named(queue[w][g])
    /\ \A e \in Events : Immediate(e)

\* A bundle whose breaches are of one tenant's cluster has their keys.
LEMMA OneClusterNamed ==
    ASSUME NEW group \in Seq(Events), group # <<>>, NEW i \in Events,
           \A e \in ToSet(group) : TenantOf[e] = TenantOf[i] /\ ClusterOf[e] = ClusterOf[i]
    PROVE  Named(group)
<1>1. Head(group) \in ToSet(group) /\ ToSet(group) \subseteq Events
  <2>1. Head(group) = group[1] /\ 1 \in DOMAIN group /\ \A n \in DOMAIN group : group[n] \in Events
    OBVIOUS
  <2> QED BY <2>1 DEF ToSet
<1>2. SummaryTenant(group) = TenantOf[i]
  BY <1>1 DEF SummaryTenant
<1>3. SummaryCluster(group) = ClusterOf[i]
  <2>1. ClusterOf[i] \in Nat
    BY EventFields
  <2>2. {ClusterOf[e] : e \in ToSet(group)} = {ClusterOf[i]}
    BY <1>1
  <2>3. CASE ClusterOf[i] = Blank
    BY <2>2, <2>3 DEF SummaryCluster
  <2>4. CASE ClusterOf[i] # Blank
    <3>1. SummaryCluster(group) = Min({ClusterOf[i]})
      <4>1. {ClusterOf[i]} \ {Blank} = {ClusterOf[i]}
        BY <2>4
      <4> QED BY <2>2, <2>4, <4>1 DEF SummaryCluster
    <3>2. Min({ClusterOf[i]}) = ClusterOf[i]
      BY <2>1 DEF Min
    <3> QED BY <3>1, <3>2
  <2> QED BY <2>3, <2>4
<1>4. \A e \in ToSet(group) : <<SummaryTenant(group), SummaryCluster(group), WorkOf[e]>> = OwnKey(e)
  BY <1>2, <1>3 DEF OwnKey
<1> QED BY <1>4 DEF Named, CooldownKeys, OwnKeys

\* While names are apart, the bundles of a flush are of one tenant's cluster each.
LEMMA BundlesNamed ==
    ASSUME NamesApart, NEW es \in Seq(Events), NEW G, G = GroupEvents(es), NEW g \in DOMAIN G
    PROVE  Named(G[g])
<1>0. G \in Seq(Seq(Events)) /\ Holds(es, G) /\ Connected(es, G)
  BY BundlesPartition
<1>1. /\ G[g] # <<>>
      /\ \A m \in DOMAIN G[g] : /\ Origin(es, g)[m] \in DOMAIN es
                               /\ G[g][m] = es[Origin(es, g)[m]]
  BY <1>0 DEF Holds
<1>2. PICK i \in DOMAIN es : \A m \in DOMAIN G[g] : Origin(es, g)[m] \in Component(es, i)
  BY <1>0 DEF Connected
<1>3. \A n \in DOMAIN es : es[n] \in Events
  OBVIOUS
<1> DEFINE S == {n \in DOMAIN es : /\ TenantOf[es[n]] = TenantOf[es[i]]
                                  /\ ClusterOf[es[n]] = ClusterOf[es[i]]}
<1>4. Component(es, i) \subseteq S
  <2>1. \A a \in S, b \in DOMAIN es : Related(es[a], es[b]) => b \in S
    BY <1>3 DEF NamesApart
  <2>2. S \in SUBSET DOMAIN es /\ i \in S
    OBVIOUS
  <2> HIDE DEF S
  <2> QED BY <2>1, <2>2, ComponentLeast
<1>5. ASSUME NEW e \in ToSet(G[g])
      PROVE  TenantOf[e] = TenantOf[es[i]] /\ ClusterOf[e] = ClusterOf[es[i]]
  <2>1. PICK m \in DOMAIN G[g] : e = G[g][m]
    BY DEF ToSet
  <2>2. Origin(es, g)[m] \in S /\ e = es[Origin(es, g)[m]]
    BY <1>1, <1>2, <1>4, <2>1
  <2> QED BY <2>2
<1>6. G[g] \in Seq(Events) /\ es[i] \in Events
  BY <1>0, <1>3
<1> QED BY <1>1, <1>5, <1>6, OneClusterNamed

LEMMA AnnouncedInit == NamesApart /\ Cooldown > 0 /\ Init => AnnouncedInv
  BY PlacesInit, Inductive, PipelineConstants
  DEF Init, AnnouncedInv, IInv, StampsNamed, Immediate, Ended, Workers

\* Announcements only add up.
LEMMA StaysAnnounced ==
    ASSUME NEW e, Announced(e), passes \subseteq passes', readAt'[e] = readAt[e]
    PROVE  Announced(e)'
  BY DEF Announced

\* What a step keeps that leaves a thread, its reading and its breach alone.
LEMMA Untouched ==
    ASSUME AnnouncedInv, NEW e \in Events, passes \subseteq passes',
           pc'[e] = pc[e], readAt'[e] = readAt[e], queue'[e] = queue[e],
           e \in captured' <=> e \in captured, e \in unfired' <=> e \in unfired
    PROVE  Immediate(e)'
<1>1. Immediate(e)
  BY DEF AnnouncedInv
<1> QED BY <1>1, StaysAnnounced DEF Immediate, Ended

\* The first bundle of a thread that is at work.
LEMMA FirstNamed ==
    ASSUME AnnouncedInv, NEW w \in Workers, pc[w] # "idle"
    PROVE  CooldownKeys(Head(queue[w])) = OwnKeys(Head(queue[w]))
<1>1. queue[w] \in Seq(Seq(Events)) /\ queue[w] # <<>>
  BY DEF AnnouncedInv, PlacesInv, QueuesOK
<1>2. Head(queue[w]) = queue[w][1] /\ 1 \in DOMAIN queue[w]
  BY <1>1
<1> QED BY <1>2 DEF AnnouncedInv, Named

LEMMA StampsStep == AnnouncedInv /\ [Next]_vars => StampsNamed'
<1> SUFFICES ASSUME AnnouncedInv, [Next]_vars PROVE StampsNamed'
  OBVIOUS
<1>1. StampsNamed
  BY DEF AnnouncedInv
<1>2. ASSUME NEW w \in Workers, Pass(w) PROVE StampsNamed'
  <2> DEFINE K == CooldownKeys(Head(queue[w]))
             t == readAt[w]
             q == [keys |-> K, at |-> t, of |-> ToSet(Head(queue[w]))]
  <2>1. /\ lastSent' = [k \in K \cup DOMAIN lastSent |-> IF k \in K THEN t ELSE lastSent[k]]
        /\ passes' = passes \cup {q} /\ pc[w] # "idle"
    BY <1>2 DEF Pass
  <2>2. q.at = t /\ K = {OwnKey(f) : f \in q.of}
    BY <2>1, FirstNamed DEF OwnKeys
  <2> HIDE DEF K, t, q
  <2>3. ASSUME NEW k \in DOMAIN lastSent'
        PROVE  \E p \in passes' : p.at = lastSent'[k] /\ k \in {OwnKey(f) : f \in p.of}
    <3>1. CASE k \in K
      BY <2>1, <2>2, <3>1
    <3>2. CASE k \notin K
      <4>1. k \in DOMAIN lastSent /\ lastSent'[k] = lastSent[k]
        BY <2>1, <3>2
      <4> QED BY <1>1, <2>1, <4>1 DEF StampsNamed
    <3> QED BY <3>1, <3>2
  <2> QED BY <2>3 DEF StampsNamed
<1>3. CASE UNCHANGED <<lastSent, passes>>
  BY <1>1, <1>3 DEF StampsNamed
<1>4. (\E w \in Workers : Pass(w)) \/ UNCHANGED <<lastSent, passes>>
  BY DEF Next, Flush, Dispatch, Capture, FireImmediate, FlushIfWindowElapsed, ReadClock,
         Suppress, Send, Die, Tick, vars
<1> QED BY <1>2, <1>3, <1>4

AllNamed == \A w \in Workers : \A g \in DOMAIN queue[w] : Named(queue[w][g])

LEMMA NamedStep == AnnouncedInv /\ [Next]_vars => AllNamed'
<1> SUFFICES ASSUME AnnouncedInv, [Next]_vars PROVE AllNamed'
  OBVIOUS
<1>t. /\ AllNamed /\ NamesApart /\ buffer \in Seq(Events)
      /\ queue \in [Workers -> Seq(Seq(Events))]
      /\ \A w \in Workers : pc[w] = "idle" <=> queue[w] = <<>>
  BY DEF AnnouncedInv, PlacesInv, QueuesOK, AllNamed
<1>0. ASSUME NEW w \in Workers, NEW q, queue' = [queue EXCEPT ![w] = q],
             \A g \in DOMAIN q : Named(q[g])
      PROVE  AllNamed'
  BY <1>t, <1>0 DEF AllNamed
<1>1. ASSUME NEW e \in Events, FireImmediate(e) PROVE AllNamed'
  <2>1. <<e>> \in Seq(Events) /\ <<e>> # <<>> /\ ToSet(<<e>>) = {e}
    BY DEF ToSet
  <2>2. Named(<<e>>)
    BY <2>1, OneClusterNamed
  <2>3. \A g \in DOMAIN << <<e>> >> : Named(<< <<e>> >>[g])
    BY <2>2
  <2> QED BY <1>0, <1>1, <2>3 DEF FireImmediate, Workers
<1>2. ASSUME NEW f \in Flushers, FlushIfWindowElapsed(f) PROVE AllNamed'
  <2>1. \A g \in DOMAIN GroupEvents(buffer) : Named(GroupEvents(buffer)[g])
    BY <1>t, BundlesNamed
  <2> QED BY <1>0, <1>2, <2>1 DEF FlushIfWindowElapsed, Workers
<1>3. ASSUME NEW w \in Workers, Suppress(w) \/ Send(w) PROVE AllNamed'
  <2>1. queue[w] \in Seq(Seq(Events)) /\ queue[w] # <<>> /\ queue' = [queue EXCEPT ![w] = Tail(queue[w])]
    BY <1>3, <1>t DEF Suppress, Send, NextBundle
  <2>2. \A g \in DOMAIN Tail(queue[w]) : g + 1 \in DOMAIN queue[w] /\ Tail(queue[w])[g] = queue[w][g + 1]
    BY <2>1
  <2>3. \A g \in DOMAIN Tail(queue[w]) : Named(Tail(queue[w])[g])
    BY <1>t, <2>2 DEF AllNamed
  <2> QED BY <1>0, <2>1, <2>3
<1>4. ASSUME NEW w \in Workers, Die(w) PROVE AllNamed'
  <2>1. \A g \in DOMAIN <<>> : Named(<<>>[g])
    OBVIOUS
  <2> QED BY <1>0, <1>4, <2>1 DEF Die
<1>5. CASE UNCHANGED queue
  BY <1>t, <1>5 DEF AllNamed
<1>6. \/ \E e \in Events : FireImmediate(e)
      \/ \E f \in Flushers : FlushIfWindowElapsed(f)
      \/ \E w \in Workers : Suppress(w) \/ Send(w) \/ Die(w)
      \/ UNCHANGED queue
  BY DEF Next, Flush, Dispatch, Capture, ReadClock, Pass, Tick, vars
<1> QED BY <1>1, <1>2, <1>3, <1>4, <1>5, <1>6

\* What an immediate thread does with its only bundle.
LEMMA ImmediateWorks ==
    ASSUME AnnouncedInv, NEW e \in Events, Dispatch(e)
    PROVE  Immediate(e)'
<1> USE PipelineConstants
<1>t. /\ Immediate(e) /\ Cooldown > 0 /\ Cooldown \in Nat /\ StampsNamed
      /\ pc \in [Workers -> {"idle", "clock", "check", "send"}]
      /\ queue \in [Workers -> Seq(Seq(Events))] /\ readAt \in [Workers -> 0..MaxTime]
      /\ e \in Workers /\ e \notin Flushers
  BY DEF AnnouncedInv, PlacesInv, QueuesOK, TypeOK, InTime, Workers
<1>1. pc[e] # "idle" /\ UNCHANGED <<captured, unfired>>
  BY DEF Dispatch, ReadClock, Suppress, Pass, Send, Die
<1>2. e \in captured \ unfired /\ queue[e] = << <<e>> >> /\ Head(queue[e]) = <<e>>
      /\ Len(queue[e]) = 1
  BY <1>t, <1>1 DEF Immediate
<1>3. CooldownKeys(Head(queue[e])) = {OwnKey(e)} /\ ToSet(Head(queue[e])) = {e}
  <2>1. ToSet(<<e>>) = {e}
    BY DEF ToSet
  <2>2. CooldownKeys(Head(queue[e])) = OwnKeys(Head(queue[e]))
    BY <1>t, <1>1, FirstNamed
  <2> QED BY <1>2, <2>1, <2>2 DEF OwnKeys
<1>4. CASE ReadClock(e)
  <2>1. pc'[e] = "check" /\ UNCHANGED queue
    BY <1>4, <1>t DEF ReadClock
  <2> QED BY <1>1, <1>2, <2>1 DEF Immediate, Ended
<1>5. CASE Suppress(e)
  <2>1. /\ pc'[e] = "idle" /\ UNCHANGED <<readAt, passes>>
        /\ Cooling({OwnKey(e)}, readAt[e]) # {}
    BY <1>5, <1>t, <1>2, <1>3 DEF Suppress, NextBundle
  <2>2. OwnKey(e) \in DOMAIN lastSent /\ readAt[e] - lastSent[OwnKey(e)] < Cooldown
    BY <2>1 DEF Cooling
  <2>3. PICK p \in passes : p.at = lastSent[OwnKey(e)] /\ OwnKey(e) \in {OwnKey(f) : f \in p.of}
    BY <1>t, <2>2 DEF StampsNamed
  <2>4. Announced(e)'
    BY <2>1, <2>2, <2>3 DEF Announced
  <2> QED BY <1>1, <1>2, <2>1, <2>4 DEF Immediate
<1>6. CASE Pass(e)
  <2> DEFINE q == [keys |-> CooldownKeys(Head(queue[e])), at |-> readAt[e],
                   of |-> ToSet(Head(queue[e]))]
  <2>1. pc'[e] = "send" /\ UNCHANGED <<queue, readAt>> /\ passes' = passes \cup {q}
    BY <1>6, <1>t DEF Pass
  <2>2. q.at = readAt[e] /\ OwnKey(e) \in {OwnKey(f) : f \in q.of}
    BY <1>3
  <2>3. readAt[e] - readAt[e] < Cooldown
    BY <1>t
  <2> HIDE DEF q
  <2>4. Announced(e)'
    BY <2>1, <2>2, <2>3 DEF Announced
  <2> QED BY <1>1, <1>2, <2>1, <2>4 DEF Immediate
<1>7. CASE Send(e)
  <2>1. pc[e] = "send" /\ pc'[e] = "idle" /\ UNCHANGED <<readAt, passes>>
    BY <1>7, <1>t, <1>2 DEF Send, NextBundle
  <2>2. Announced(e)'
    BY <1>t, <2>1, StaysAnnounced DEF Immediate
  <2> QED BY <1>1, <1>2, <2>1, <2>2 DEF Immediate
<1>8. ~Die(e)
  BY <1>t DEF Die
<1> QED BY <1>4, <1>5, <1>6, <1>7, <1>8 DEF Dispatch

LEMMA ImmediateStep == AnnouncedInv /\ [Next]_vars => \A e \in Events : Immediate(e)'
<1> SUFFICES ASSUME AnnouncedInv, [Next]_vars, NEW e \in Events PROVE Immediate(e)'
  OBVIOUS
<1> USE PipelineConstants
<1>t. /\ Immediate(e) /\ unfired \subseteq captured /\ e \in Workers
      /\ pc \in [Workers -> {"idle", "clock", "check", "send"}]
      /\ queue \in [Workers -> Seq(Seq(Events))] /\ readAt \in [Workers -> 0..MaxTime]
  BY DEF AnnouncedInv, PlacesInv, QueuesOK, TypeOK, InTime, Workers
<1>0. passes \subseteq passes'
  BY DEF Next, Flush, Dispatch, Capture, FireImmediate, FlushIfWindowElapsed, ReadClock,
         Suppress, Pass, Send, Die, Tick, vars
<1>1. ASSUME NEW d \in Events, Capture(d) PROVE Immediate(e)'
  <2>1. UNCHANGED <<pc, queue, readAt>> /\ captured' = captured \cup {d}
        /\ unfired' = unfired \cup {d} /\ d \notin captured
    BY <1>1 DEF Capture
  <2>2. CASE e = d
    BY <1>t, <2>1, <2>2 DEF Immediate, Ended
  <2>3. CASE e # d
    BY <1>0, <2>1, <2>3, Untouched
  <2> QED BY <2>2, <2>3
<1>2. ASSUME NEW d \in Events, FireImmediate(d) PROVE Immediate(e)'
  <2>1. /\ d \in unfired /\ unfired' = unfired \ {d} /\ UNCHANGED <<captured, readAt>>
        /\ queue' = [queue EXCEPT ![d] = << <<d>> >>] /\ pc' = [pc EXCEPT ![d] = "clock"]
    BY <1>2 DEF FireImmediate
  <2>2. CASE e = d
    <3>1. pc'[e] = "clock" /\ queue'[e] = << <<e>> >> /\ e \in captured' /\ e \notin unfired'
      BY <1>t, <2>1, <2>2
    <3> QED BY <3>1 DEF Immediate, Ended
  <2>3. CASE e # d
    BY <1>0, <1>t, <2>1, <2>3, Untouched
  <2> QED BY <2>2, <2>3
<1>3. ASSUME NEW f \in Flushers, FlushIfWindowElapsed(f) PROVE Immediate(e)'
  <2>1. e # f
    OBVIOUS
  <2> QED BY <1>0, <1>3, <1>t, <2>1, Untouched DEF FlushIfWindowElapsed
<1>4. ASSUME NEW w \in Workers, Dispatch(w), w # e PROVE Immediate(e)'
  BY <1>0, <1>4, <1>t, Untouched
     DEF Dispatch, ReadClock, Suppress, Pass, Send, Die, NextBundle
<1>5. CASE Tick \/ UNCHANGED vars
  BY <1>0, <1>5, Untouched DEF Tick, vars
<1> QED BY <1>1, <1>2, <1>3, <1>4, <1>5, ImmediateWorks DEF Next, Flush

LEMMA AnnouncedStep == AnnouncedInv /\ [Next]_vars => AnnouncedInv'
<1> SUFFICES ASSUME AnnouncedInv, [Next]_vars PROVE AnnouncedInv'
  OBVIOUS
<1>1. PlacesInv' /\ InTime'
  BY PlacesStep, InTimeStep DEF AnnouncedInv, PlacesInv
<1>2. StampsNamed' /\ AllNamed' /\ \A e \in Events : Immediate(e)'
  BY StampsStep, NamedStep, ImmediateStep
<1> QED BY <1>1, <1>2 DEF AnnouncedInv, AllNamed, NamesApart

(***************************************************************************)
(* While no cluster or node name stands for two of them and there is a     *)
(* cooldown at all, a breach whose immediate thread ended was announced by *)
(* name less than a cooldown before: no other workload's announcement      *)
(* silences it (alert_manager.py:361-411, 535-555).                        *)
(***************************************************************************)
THEOREM PipelineBreachAnnounced == NamesApart /\ Cooldown > 0 /\ Spec => []EveryBreachAnnounced
<1>1. AnnouncedInv => EveryBreachAnnounced
  BY DEF AnnouncedInv, Immediate, Announced, EveryBreachAnnounced
<1> QED BY <1>1, AnnouncedInit, AnnouncedStep, PTL DEF Spec

-----------------------------------------------------------------------------
(***************************************************************************)
(* The forest of _group_events.                                            *)
(***************************************************************************)
Forest(p) == p \in [DOMAIN p -> DOMAIN p]
Rooted(p) == Forest(p) /\ \A x \in DOMAIN p : \E r \in DOMAIN p : RootOf(p, x, r)
ClosedAround(p, x, S) == S \in SUBSET DOMAIN p /\ x \in S /\ \A y \in S : p[y] \in S

LEMMA LeadsInto ==
    ASSUME NEW p, NEW x, NEW r PROVE Leads(p, x, r) <=> \A S : ClosedAround(p, x, S) => r \in S
  BY DEF Leads, ClosedAround

\* A step along the forest leads to the same root.
LEMMA LeadsStep ==
    ASSUME NEW p, Forest(p), NEW x \in DOMAIN p, NEW r \in DOMAIN p, RootOf(p, x, r)
    PROVE  p[x] \in DOMAIN p /\ RootOf(p, p[x], r)
<1>1. p[x] \in DOMAIN p
  BY DEF Forest
<1>2. ASSUME NEW S, ClosedAround(p, p[x], S) PROVE r \in S
  <2>1. ClosedAround(p, x, S \cup {x})
    BY <1>2 DEF ClosedAround
  <2>2. r \in S \cup {x}
    BY <2>1, LeadsInto DEF RootOf
  <2>3. CASE r = x
    BY <1>2, <2>3 DEF ClosedAround, RootOf
  <2> QED BY <2>2, <2>3
<1> QED BY <1>1, <1>2, LeadsInto DEF RootOf

\* A position has one root.
LEMMA OneRoot ==
    ASSUME NEW p, Forest(p), NEW x \in DOMAIN p,
           NEW r \in DOMAIN p, NEW s \in DOMAIN p, RootOf(p, x, r), RootOf(p, x, s)
    PROVE  r = s
<1> DEFINE S == {y \in DOMAIN p : RootOf(p, y, r)}
<1>1. ClosedAround(p, x, S)
  BY LeadsStep DEF ClosedAround
<1>2. RootOf(p, s, r)
  BY <1>1, LeadsInto DEF RootOf
<1>3. ClosedAround(p, s, {s})
  BY DEF ClosedAround, RootOf
<1> QED BY <1>2, <1>3, LeadsInto DEF RootOf

LEMMA RootIs ==
    ASSUME NEW p, Forest(p), NEW x \in DOMAIN p, NEW r \in DOMAIN p, RootOf(p, x, r)
    PROVE  Root(p, x) = r
<1>1. Root(p, x) \in DOMAIN p /\ RootOf(p, x, Root(p, x))
  BY DEF Root
<1> QED BY <1>1, OneRoot

LEMMA RootFacts ==
    ASSUME NEW p, Rooted(p), NEW x \in DOMAIN p
    PROVE  /\ Root(p, x) \in DOMAIN p /\ RootOf(p, x, Root(p, x)) /\ p[x] \in DOMAIN p
           /\ Root(p, p[x]) = Root(p, x) /\ Root(p, Root(p, x)) = Root(p, x)
           /\ p[x] = x => Root(p, x) = x
<1>1. Root(p, x) \in DOMAIN p /\ RootOf(p, x, Root(p, x)) /\ Forest(p)
  BY DEF Root, Rooted
<1>2. p[x] \in DOMAIN p /\ Root(p, p[x]) = Root(p, x)
  BY <1>1, LeadsStep, RootIs
<1>3. ASSUME NEW y \in DOMAIN p, p[y] = y PROVE RootOf(p, y, y)
  BY <1>3 DEF RootOf, Leads
<1>4. Root(p, Root(p, x)) = Root(p, x)
  BY <1>1, <1>3, RootIs DEF RootOf
<1>5. p[x] = x => Root(p, x) = x
  BY <1>1, <1>3, RootIs
<1> QED BY <1>1, <1>2, <1>4, <1>5

\* Halving a path changes no root.
SameRoots(p, q) ==
    Rooted(q) /\ DOMAIN q = DOMAIN p /\ \A y \in DOMAIN p : Root(q, y) = Root(p, y)
LEMMA HalvingKeepsRoots ==
    ASSUME NEW p, Rooted(p), NEW x \in DOMAIN p, p[x] # x,
           NEW q, q = [p EXCEPT ![x] = p[p[x]]]
    PROVE  SameRoots(p, q) /\ q[x] = p[p[x]]
<1>1. /\ Forest(q) /\ DOMAIN q = DOMAIN p /\ p[x] \in DOMAIN p
      /\ q[x] = p[p[x]] /\ \A y \in DOMAIN p \ {x} : q[y] = p[y]
  BY DEF Forest, Rooted
<1>2. p[p[x]] # x
  <2> SUFFICES ASSUME p[p[x]] = x PROVE FALSE
    OBVIOUS
  <2>1. ClosedAround(p, x, {x, p[x]})
    BY <1>1 DEF ClosedAround
  <2>2. Root(p, x) \in {x, p[x]} /\ p[Root(p, x)] = Root(p, x)
    BY <2>1, RootFacts, LeadsInto DEF RootOf
  <2> QED BY <2>2
<1>3. ASSUME NEW y \in DOMAIN p PROVE RootOf(q, y, Root(p, y))
  <2> DEFINE r == Root(p, y)
  <2>1. r \in DOMAIN p /\ RootOf(p, y, r)
    BY RootFacts
  <2> HIDE DEF r
  <2>2. r # x /\ q[r] = r
    BY <1>1, <2>1 DEF RootOf
  <2>3. ASSUME NEW S, ClosedAround(q, y, S) PROVE r \in S
    <3> DEFINE T == IF x \in S THEN S \cup {p[x]} ELSE S
    <3>1. ClosedAround(p, y, T)
      BY <1>1, <2>3 DEF ClosedAround
    <3>2. r \in T
      BY <2>1, <3>1, LeadsInto DEF RootOf
    <3>3. CASE r = p[x] /\ x \in S
      <4>1. q[x] = r
        BY <1>1, <2>1, <3>3 DEF RootOf
      <4> QED BY <2>3, <3>3, <4>1 DEF ClosedAround
    <3> QED BY <3>2, <3>3
  <2> QED BY <2>2, <2>3, LeadsInto DEF RootOf, r
<1>4. ASSUME NEW y \in DOMAIN p PROVE Root(p, y) \in DOMAIN q /\ Root(q, y) = Root(p, y)
  <2>1. Root(p, y) \in DOMAIN q /\ y \in DOMAIN q
    BY <1>1, RootFacts
  <2>2. Forest(q) /\ RootOf(q, y, Root(p, y))
    BY <1>1, <1>3
  <2>3. Root(q, y) = Root(p, y)
    BY ONLY <2>1, <2>2, RootIs
  <2> QED BY <2>1, <2>3
<1>5. Rooted(q)
  BY <1>1, <1>3, <1>4 DEF Rooted
<1> QED BY <1>1, <1>4, <1>5 DEF SameRoots

\* A union gives the positions below one root the other.
Merges(p, l, r, q) ==
    /\ Rooted(q) /\ DOMAIN q = DOMAIN p
    /\ \A y \in DOMAIN p : Root(q, y) = IF Root(p, y) = r THEN l ELSE Root(p, y)
LEMMA UnionMergesRoots ==
    ASSUME NEW p, Rooted(p), NEW l \in DOMAIN p, NEW r \in DOMAIN p, l # r, p[l] = l, p[r] = r,
           NEW q, q = [p EXCEPT ![r] = l]
    PROVE  Merges(p, l, r, q)
<1>1. /\ Forest(q) /\ DOMAIN q = DOMAIN p
      /\ q[r] = l /\ q[l] = l /\ \A y \in DOMAIN p \ {r} : q[y] = p[y]
  BY DEF Forest, Rooted
<1>2. ASSUME NEW y \in DOMAIN p, NEW S, ClosedAround(q, y, S) PROVE ClosedAround(p, y, S)
  BY <1>1, <1>2 DEF ClosedAround
<1>3. ASSUME NEW y \in DOMAIN p, Root(p, y) = r PROVE RootOf(q, y, l)
  <2>1. ASSUME NEW S, ClosedAround(q, y, S) PROVE l \in S
    <3>1. r \in S
      BY <1>2, <1>3, <2>1, RootFacts, LeadsInto DEF RootOf
    <3> QED BY <1>1, <2>1, <3>1 DEF ClosedAround
  <2> QED BY <1>1, <2>1, LeadsInto DEF RootOf
<1>4. ASSUME NEW y \in DOMAIN p, Root(p, y) # r PROVE RootOf(q, y, Root(p, y))
  <2>1. Root(p, y) \in DOMAIN p /\ RootOf(p, y, Root(p, y))
    BY RootFacts
  <2>2. ASSUME NEW S, ClosedAround(q, y, S) PROVE Root(p, y) \in S
    BY <1>2, <2>1, <2>2, LeadsInto DEF RootOf
  <2>3. q[Root(p, y)] = Root(p, y)
    BY <1>1, <1>4, <2>1 DEF RootOf
  <2> QED BY <2>2, <2>3, LeadsInto DEF RootOf
<1>5. Rooted(q)
  BY <1>1, <1>3, <1>4, RootFacts DEF Rooted
<1>6. ASSUME NEW y \in DOMAIN p PROVE Root(q, y) = IF Root(p, y) = r THEN l ELSE Root(p, y)
  <2>1. Root(p, y) \in DOMAIN q /\ l \in DOMAIN q /\ y \in DOMAIN q
    BY <1>1, RootFacts
  <2> QED BY <1>1, <1>3, <1>4, <2>1, RootIs
<1> QED BY <1>1, <1>5, <1>6 DEF Merges

-----------------------------------------------------------------------------
(***************************************************************************)
(* Why the forest is the components: in the middle of a union both finds   *)
(* stand at positions with the roots of the pair, and halving moves no     *)
(* position to another root; so the pairs done with have one root, and     *)
(* what has one root cannot be told apart by them.                         *)
(***************************************************************************)
Stages ==
    /\ stage \in {"left", "right"} => (~PairsDone /\ PairRelated)
    /\ stage = "collect" => (PairsDone /\ position <= Len(events))
    /\ position > 1 => PairsDone
Finding ==
    /\ stage = "left" => Root(parent, index) = Root(parent, pair[1])
    /\ stage = "right" => (/\ rootLeft = Root(parent, pair[1]) /\ parent[rootLeft] = rootLeft
                           /\ Root(parent, index) = Root(parent, pair[2]))
    /\ stage = "collect" => Root(parent, index) = Root(parent, position)
Merged == \A a, b \in DOMAIN events : Linked(a, b) => Root(parent, a) = Root(parent, b)
Justified ==
    \A a, b \in DOMAIN events : Root(parent, a) = Root(parent, b) =>
        \A S \in SUBSET DOMAIN events : (Unsplit(S) /\ a \in S) => b \in S
ForestInv == GroupingTypeOK /\ Stages /\ Rooted(parent) /\ Finding /\ Merged /\ Justified

\* What the double loop's next pair changes.
LEMMA NextPair ==
    ASSUME GroupingTypeOK, ~PairsDone, events' = events, pair' = PairAfter
    PROVE  /\ pair' \in Nat \X Nat /\ 1 <= pair'[1] /\ pair'[1] < pair'[2]
           /\ IF PairsDone' THEN pair'[1] = Len(events) ELSE pair'[2] <= Len(events)
           /\ pair[1] \in DOMAIN events /\ pair[2] \in DOMAIN events
           /\ \A a, b \in DOMAIN events :
                Visited(a, b)' <=> (Visited(a, b) \/ (a = pair[1] /\ b = pair[2]))
<1> DEFINE i == pair[1]
           j == pair[2]
           n == Len(events)
<1>1. n \in Nat /\ DOMAIN events = 1..n
  BY DEF GroupingTypeOK
<1>2. i \in Nat /\ j \in Nat /\ 1 <= i /\ i < n /\ i < j /\ j <= n /\ pair = <<i, j>>
  BY <1>1 DEF GroupingTypeOK, PairsDone
<1>3. pair' = IF j < n THEN <<i, j + 1>> ELSE <<i + 1, i + 2>>
  BY DEF PairAfter
<1>4. PairsDone' <=> pair'[1] >= n
  BY DEF PairsDone
<1>5. \A a, b : Visited(a, b)' <=> (a < b /\ (a < pair'[1] \/ (a = pair'[1] /\ b < pair'[2])))
  BY DEF Visited
<1>6. \A a, b : Visited(a, b) <=> (a < b /\ (a < i \/ (a = i /\ b < j)))
  BY DEF Visited
<1> HIDE DEF i, j, n
<1>7. CASE j < n
  <2>1. pair'[1] = i /\ pair'[2] = j + 1 /\ pair' \in Nat \X Nat
    BY <1>2, <1>3, <1>7
  <2> QED BY <1>1, <1>2, <1>4, <1>5, <1>6, <1>7, <2>1 DEF i, j, n
<1>8. CASE ~(j < n)
  <2>1. pair'[1] = i + 1 /\ pair'[2] = i + 2 /\ pair' \in Nat \X Nat
    BY <1>2, <1>3, <1>8
  <2> QED BY <1>1, <1>2, <1>4, <1>5, <1>6, <1>8, <2>1 DEF i, j, n
<1> QED BY <1>7, <1>8

LEMMA GroupingTypeInit == GroupingInit => GroupingTypeOK /\ Stages
<1> SUFFICES ASSUME GroupingInit PROVE GroupingTypeOK /\ Stages
  OBVIOUS
<1>1. PICK m \in 0..MaxLen : events \in [1..m -> Events]
  BY DEF GroupingInit, SeqOf
<1>2. m \in Nat /\ events \in Seq(Events) /\ events # <<>>
  BY <1>1 DEF GroupingInit
<1>3. Len(events) \in Nat /\ Len(events) # 0 /\ DOMAIN events = 1..Len(events)
  BY <1>2, EmptySeq
<1>4. 1 \in DOMAIN events /\ 1 \in 1..(Len(events) + 1)
  BY <1>3
<1>5. IF PairsDone THEN pair[1] = Len(events) ELSE pair[2] <= Len(events)
  BY <1>3 DEF GroupingInit, PairsDone
<1> QED BY <1>2, <1>4, <1>5 DEF GroupingInit, GroupingTypeOK, Stages

LEMMA GroupingTypeStep ==
    GroupingTypeOK /\ Stages /\ [GroupingNext]_groupingVars => GroupingTypeOK' /\ Stages'
<1> SUFFICES ASSUME GroupingTypeOK, Stages, [GroupingNext]_groupingVars
             PROVE  GroupingTypeOK' /\ Stages'
  OBVIOUS
<1>0. Len(events) \in Nat /\ DOMAIN events = 1..Len(events) /\ position \in Nat
  BY DEF GroupingTypeOK
<1>1. CASE ComparePair
  <2>1. CASE PairRelated
    <3>1. pair[1] \in DOMAIN events
      BY <1>0, <1>1 DEF ComparePair, GroupingTypeOK, PairsDone
    <3> QED BY <1>1, <2>1, <3>1
            DEF ComparePair, GroupingTypeOK, Stages, PairsDone, PairRelated
  <2>2. CASE ~PairRelated
    <3>1. pair' = PairAfter /\ ~PairsDone
          /\ UNCHANGED <<events, parent, stage, index, rootLeft, grouped, position>>
          /\ stage = "pair"
      BY <1>1, <2>2 DEF ComparePair
    <3> QED BY <3>1, NextPair DEF GroupingTypeOK, Stages
  <2> QED BY <2>1, <2>2
<1>2. CASE Halve
  <2>1. parent[index] \in DOMAIN events /\ parent[parent[index]] \in DOMAIN events
    BY DEF GroupingTypeOK
  <2>2. parent' \in [DOMAIN events -> DOMAIN events] /\ index' \in DOMAIN events
    BY <1>2, <2>1 DEF Halve, GroupingTypeOK
  <2> QED BY <1>2, <2>2 DEF Halve, GroupingTypeOK, Stages, PairsDone, PairRelated
<1>3. CASE FindRight
  <2>1. pair[2] \in DOMAIN events
    BY <1>0, <1>3 DEF FindRight, Found, GroupingTypeOK, Stages
  <2> QED BY <1>3, <2>1 DEF FindRight, Found, GroupingTypeOK, Stages, PairsDone, PairRelated
<1>4. CASE Unite
  <2>1. ~PairsDone /\ pair' = PairAfter /\ UNCHANGED <<events, index, rootLeft, position>>
        /\ stage' = "pair"
    BY <1>4 DEF Unite, Found, Stages
  <2>2. parent' \in [DOMAIN events -> DOMAIN events]
    BY <1>4 DEF Unite, GroupingTypeOK
  <2> QED BY <2>1, <2>2, NextPair DEF GroupingTypeOK, Stages
<1>5. CASE FindNext
  <2>1. position \in DOMAIN events
    BY <1>0, <1>5 DEF FindNext, GroupingTypeOK
  <2> QED BY <1>5, <2>1 DEF FindNext, GroupingTypeOK, Stages, PairsDone
<1>6. CASE Collect
  <2>1. position + 1 \in 1..(Len(events) + 1) /\ PairsDone
    BY <1>0, <1>6 DEF Collect, Found, GroupingTypeOK, Stages
  <2> QED BY <1>6, <2>1 DEF Collect, GroupingTypeOK, Stages, PairsDone
<1>7. CASE UNCHANGED groupingVars
  BY <1>7 DEF groupingVars, GroupingTypeOK, Stages, PairsDone, PairRelated
<1> QED BY <1>1, <1>2, <1>3, <1>4, <1>5, <1>6, <1>7 DEF GroupingNext

(* The fields of the grouping have the types the code relies on. *)
THEOREM GroupingTypes == GroupingSpec => []GroupingTypeOK
  BY GroupingTypeInit, GroupingTypeStep, PTL DEF GroupingSpec

LEMMA ForestInit == GroupingInit => ForestInv
<1> SUFFICES ASSUME GroupingInit PROVE ForestInv
  OBVIOUS
<1>0. GroupingTypeOK /\ Stages
  BY GroupingTypeInit
<1>1. parent = [x \in DOMAIN events |-> x] /\ pair = <<1, 2>> /\ stage = "pair"
      /\ DOMAIN parent = DOMAIN events /\ \A x \in DOMAIN events : x \in Nat /\ x >= 1
  BY <1>0 DEF GroupingInit, GroupingTypeOK
<1>2. \A x \in DOMAIN events : RootOf(parent, x, x)
  BY <1>1 DEF RootOf, Leads
<1>3. Rooted(parent) /\ \A x \in DOMAIN events : Root(parent, x) = x
  <2>1. Rooted(parent)
    BY <1>1, <1>2 DEF Rooted, Forest
  <2> QED BY <1>1, <2>1, RootFacts
<1>4. \A a, b \in DOMAIN events : ~Linked(a, b)
  BY <1>1 DEF Linked, Visited
<1>5. Merged /\ Justified
  BY <1>3, <1>4 DEF Merged, Justified
<1>6. Finding
  BY <1>1 DEF Finding
<1> QED BY <1>0, <1>3, <1>5, <1>6 DEF ForestInv

LEMMA SameForest ==
    ASSUME events' = events, \A a, b \in DOMAIN events : Linked(a, b)' <=> Linked(a, b),
           \A x \in DOMAIN events : Root(parent', x) = Root(parent, x), Merged, Justified
    PROVE  Merged' /\ Justified'
<1>1. Merged'
  BY DEF Merged
<1>2. \A S \in SUBSET DOMAIN events : Unsplit(S)' <=> Unsplit(S)
  BY DEF Unsplit
<1>3. ASSUME NEW a \in DOMAIN events, NEW b \in DOMAIN events, Root(parent', a) = Root(parent', b),
             NEW S \in SUBSET DOMAIN events, Unsplit(S)', a \in S
      PROVE  b \in S
  BY <1>2, <1>3 DEF Justified
<1>4. Justified'
  BY <1>3 DEF Justified
<1> QED BY <1>1, <1>4

LEMMA UniteStep == ForestInv /\ Unite => Rooted(parent') /\ Merged' /\ Justified'
<1> SUFFICES ASSUME ForestInv, Unite PROVE Rooted(parent') /\ Merged' /\ Justified'
  OBVIOUS
<1> DEFINE D == DOMAIN events
           i == pair[1]
           j == pair[2]
           Old(x) == Root(parent, x)
           New(x) == Root(parent', x)
<1>1. /\ GroupingTypeOK /\ Stages /\ Finding /\ Merged /\ Justified /\ Rooted(parent)
      /\ DOMAIN parent = D /\ events' = events
  BY DEF ForestInv, Unite, GroupingTypeOK
<1>2. ~PairsDone /\ PairRelated /\ pair' = PairAfter /\ i \in D /\ j \in D
      /\ \A a, b \in D : Visited(a, b)' <=> (Visited(a, b) \/ (a = i /\ b = j))
  <2>1. ~PairsDone /\ PairRelated /\ pair' = PairAfter
    BY <1>1 DEF Unite, Found, Stages
  <2> QED BY <1>1, <2>1, NextPair
<1>3. /\ index \in D /\ rootLeft \in D /\ parent[index] = index /\ parent[rootLeft] = rootLeft
      /\ rootLeft = Old(i) /\ index = Old(j)
  <2>1. index \in D /\ rootLeft \in D /\ parent[index] = index /\ parent[rootLeft] = rootLeft
        /\ rootLeft = Old(i) /\ Root(parent, index) = Old(j)
    BY <1>1 DEF Unite, Found, Finding, GroupingTypeOK
  <2> QED BY <1>1, <2>1, RootFacts
<1>4. Rooted(parent') /\ \A x \in D : New(x) = IF Old(x) = index THEN rootLeft ELSE Old(x)
  <2>1. CASE index = rootLeft
    BY <1>1, <2>1 DEF Unite
  <2>2. CASE index # rootLeft
    <3>1. parent' = [parent EXCEPT ![index] = rootLeft]
      BY <2>2 DEF Unite
    <3>2. Rooted(parent) /\ index \in DOMAIN parent /\ rootLeft \in DOMAIN parent
          /\ rootLeft # index /\ parent[index] = index /\ parent[rootLeft] = rootLeft
      BY <1>1, <1>3, <2>2
    <3>3. Merges(parent, rootLeft, index, parent')
      BY <3>1, <3>2, UnionMergesRoots
    <3> QED BY <1>1, <3>3 DEF Merges
  <2> QED BY <2>1, <2>2
<1> HIDE DEF D, Old, New
<1>5. \A a, b \in D : Linked(a, b)' <=> (Linked(a, b) \/ (a = i /\ b = j) \/ (a = j /\ b = i))
  <2>1. \A a, b : Linked(a, b)' <=> Related(events[a], events[b]) /\ (Visited(a, b)' \/ Visited(b, a)')
    BY <1>1 DEF Linked
  <2>2. Related(events[i], events[j]) /\ Related(events[j], events[i])
    BY <1>2 DEF PairRelated, Related, SameCluster, SameNode
  <2> QED BY <1>2, <2>1, <2>2 DEF Linked
<1>6. ASSUME NEW a \in D, NEW b \in D, Linked(a, b)' PROVE New(a) = New(b)
  <2>1. CASE Linked(a, b)
    BY <1>1, <1>4, <2>1 DEF Merged, D, Old
  <2>2. New(i) = New(j)
    BY <1>2, <1>3, <1>4
  <2> QED BY <1>5, <1>6, <2>1, <2>2
<1>7. ASSUME NEW a \in D, NEW b \in D, New(a) = New(b),
             NEW S \in SUBSET D, Unsplit(S)', a \in S
      PROVE  b \in S
  <2>1. \A c \in S, d \in D : Linked(c, d)' => d \in S
    BY <1>1, <1>7 DEF Unsplit, D
  <2>2. Unsplit(S)
    BY <1>5, <2>1 DEF Unsplit, D
  <2>3. \A c, d \in D : (Old(c) = Old(d) /\ c \in S) => d \in S
    BY <1>1, <2>2 DEF Justified, D, Old
  <2>4. i \in S <=> j \in S
    BY <1>2, <1>5, <2>1
  <2>5. Old(a) = Old(b) \/ (Old(a) = Old(i) /\ Old(b) = Old(j)) \/ (Old(a) = Old(j) /\ Old(b) = Old(i))
    BY <1>3, <1>4, <1>7
  <2> QED BY <1>2, <1>7, <2>3, <2>4, <2>5
<1>8. Merged'
  BY <1>1, <1>6 DEF Merged, New, D
<1>9. Justified'
  BY <1>1, <1>7 DEF Justified, New, D
<1> QED BY <1>4, <1>8, <1>9

LEMMA ForestStep == ForestInv /\ [GroupingNext]_groupingVars => ForestInv'
<1> SUFFICES ASSUME ForestInv, [GroupingNext]_groupingVars PROVE ForestInv'
  OBVIOUS
<1>0. /\ GroupingTypeOK' /\ Stages' /\ GroupingTypeOK /\ Stages
      /\ Rooted(parent) /\ Finding /\ Merged /\ Justified /\ DOMAIN parent = DOMAIN events
  BY GroupingTypeStep DEF ForestInv, GroupingTypeOK
<1>1. ASSUME UNCHANGED <<events, parent, pair>> PROVE Rooted(parent') /\ Merged' /\ Justified'
  <2>1. \A a, b \in DOMAIN events : Linked(a, b)' <=> Linked(a, b)
    BY <1>1 DEF Linked, Visited
  <2> QED BY <1>0, <1>1, <2>1, SameForest
<1>2. CASE ComparePair
  <2>1. CASE PairRelated
    <3>1. UNCHANGED <<events, parent, pair>> /\ Finding'
      BY <1>2, <2>1 DEF ComparePair, Finding
    <3> QED BY <1>0, <1>1, <3>1 DEF ForestInv
  <2>2. CASE ~PairRelated
    <3>1. ~PairsDone /\ pair' = PairAfter /\ UNCHANGED <<events, parent>> /\ Finding'
      BY <1>2, <2>2 DEF ComparePair, Finding
    <3>2. ASSUME NEW a \in DOMAIN events, NEW b \in DOMAIN events
          PROVE  Linked(a, b)' <=> Linked(a, b)
      <4>1. ~Related(events[pair[1]], events[pair[2]]) /\ ~Related(events[pair[2]], events[pair[1]])
        BY <2>2 DEF PairRelated, Related, SameCluster, SameNode
      <4>2. \A c, d \in DOMAIN events :
               Visited(c, d)' <=> (Visited(c, d) \/ (c = pair[1] /\ d = pair[2]))
        BY <1>0, <3>1, NextPair
      <4>3. Linked(a, b)' <=> Related(events[a], events[b]) /\ (Visited(a, b)' \/ Visited(b, a)')
        BY <3>1 DEF Linked
      <4> QED BY <4>1, <4>2, <4>3 DEF Linked
    <3> QED BY <1>0, <3>1, <3>2, SameForest DEF ForestInv
  <2> QED BY <2>1, <2>2
<1>3. CASE Halve
  <2>1. /\ UNCHANGED <<events, pair, stage, rootLeft, position>> /\ index \in DOMAIN parent
        /\ parent[index] # index /\ parent' = [parent EXCEPT ![index] = parent[parent[index]]]
        /\ index' = parent'[index]
    BY <1>0, <1>3 DEF Halve, GroupingTypeOK
  <2>2. /\ Rooted(parent') /\ DOMAIN parent' = DOMAIN parent /\ index' = parent[parent[index]]
        /\ \A y \in DOMAIN parent : Root(parent', y) = Root(parent, y)
    <3>1. Rooted(parent) /\ index \in DOMAIN parent /\ parent[index] # index
          /\ parent' = [parent EXCEPT ![index] = parent[parent[index]]]
          /\ index' = parent'[index]
      BY <1>0, <2>1
    <3>2. SameRoots(parent, parent') /\ parent'[index] = parent[parent[index]]
      BY <3>1, HalvingKeepsRoots
    <3> QED BY <3>1, <3>2 DEF SameRoots
  <2>3. \A a, b \in DOMAIN events : Linked(a, b)' <=> Linked(a, b)
    BY <2>1 DEF Linked, Visited
  <2>4. Merged' /\ Justified'
    BY <1>0, <2>1, <2>2, <2>3, SameForest
  <2>5. index' \in DOMAIN parent /\ Root(parent', index') = Root(parent, index)
    <3>1. parent[index] \in DOMAIN parent /\ Root(parent, parent[index]) = Root(parent, index)
      BY <1>0, <2>1, RootFacts
    <3>2. parent[parent[index]] \in DOMAIN parent
          /\ Root(parent, parent[parent[index]]) = Root(parent, parent[index])
      BY <1>0, <3>1, RootFacts
    <3> QED BY <2>2, <3>1, <3>2
  <2>6. Finding'
    <3>1. CASE stage = "left"
      <4>1. pair[1] \in DOMAIN parent
        BY <1>0, <3>1 DEF Stages, GroupingTypeOK, PairsDone
      <4> QED BY <1>0, <2>1, <2>2, <2>5, <3>1, <4>1 DEF Finding
    <3>2. CASE stage = "right"
      <4>1. pair[1] \in DOMAIN parent /\ pair[2] \in DOMAIN parent
        BY <1>0, <3>2 DEF Stages, GroupingTypeOK, PairsDone
      <4>2. rootLeft = Root(parent', pair[1]) /\ Root(parent', index') = Root(parent', pair[2])
        BY <1>0, <2>2, <2>5, <3>2, <4>1 DEF Finding
      <4>3. parent'[rootLeft] = rootLeft
        BY <1>0, <2>2, <4>1, <4>2, RootFacts DEF RootOf
      <4> QED BY <2>1, <3>2, <4>2, <4>3 DEF Finding
    <3>3. CASE stage = "collect"
      <4>1. position \in DOMAIN parent
        BY <1>0, <3>3 DEF Stages, GroupingTypeOK
      <4> QED BY <1>0, <2>1, <2>2, <2>5, <3>3, <4>1 DEF Finding
    <3>4. CASE stage = "pair"
      BY <2>1, <3>4 DEF Finding
    <3> QED BY <1>0, <3>1, <3>2, <3>3, <3>4 DEF GroupingTypeOK
  <2> QED BY <1>0, <2>2, <2>4, <2>6 DEF ForestInv
<1>4. CASE FindRight
  <2>1. UNCHANGED <<events, parent, pair>> /\ stage' = "right" /\ rootLeft' = index
        /\ index' = pair[2] /\ parent[index] = index /\ Root(parent, index) = Root(parent, pair[1])
    BY <1>0, <1>4 DEF FindRight, Found, Finding
  <2>2. Root(parent, index) = index
    BY <1>0, <2>1, RootFacts DEF GroupingTypeOK
  <2>3. Finding'
    BY <2>1, <2>2 DEF Finding
  <2> QED BY <1>0, <1>1, <2>1, <2>3 DEF ForestInv
<1>5. CASE Unite
  <2>1. Finding'
    BY <1>5 DEF Unite, Finding
  <2> QED BY <1>0, <1>5, <2>1, UniteStep DEF ForestInv
<1>6. CASE FindNext
  <2>1. UNCHANGED <<events, parent, pair>> /\ Finding'
    BY <1>6 DEF FindNext, Finding
  <2> QED BY <1>0, <1>1, <2>1 DEF ForestInv
<1>7. CASE Collect
  <2>1. UNCHANGED <<events, parent, pair>> /\ Finding'
    BY <1>7 DEF Collect, Finding
  <2> QED BY <1>0, <1>1, <2>1 DEF ForestInv
<1>8. CASE UNCHANGED groupingVars
  <2>1. UNCHANGED <<events, parent, pair>> /\ Finding'
    BY <1>0, <1>8 DEF groupingVars, Finding
  <2> QED BY <1>0, <1>1, <2>1 DEF ForestInv
<1> QED BY <1>2, <1>3, <1>4, <1>5, <1>6, <1>7, <1>8 DEF GroupingNext

\* What has one root is exactly what the pairs do not tell apart.
LEMMA ForestParts == ForestInv => ForestIsComponents
<1> SUFFICES ASSUME ForestInv PROVE ForestIsComponents
  OBVIOUS
<1>1. Rooted(parent) /\ Merged /\ Justified /\ DOMAIN parent = DOMAIN events
  BY DEF ForestInv, GroupingTypeOK
<1>2. \A x \in DOMAIN events : \E r \in DOMAIN events : RootOf(parent, x, r)
  BY <1>1 DEF Rooted
<1>3. ASSUME NEW a \in DOMAIN events, NEW b \in DOMAIN events, Apart(a, b)
      PROVE  Root(parent, a) # Root(parent, b)
  BY <1>1, <1>3 DEF Apart, Justified
<1>4. ASSUME NEW a \in DOMAIN events, NEW b \in DOMAIN events, Root(parent, a) # Root(parent, b)
      PROVE  Apart(a, b)
  <2> DEFINE S == {y \in DOMAIN events : Root(parent, y) = Root(parent, a)}
  <2>1. S \in SUBSET DOMAIN events /\ a \in S /\ b \notin S
    BY <1>4
  <2>2. Unsplit(S)
    BY <1>1 DEF Unsplit, Merged
  <2> QED BY <2>1, <2>2 DEF Apart
<1> QED BY <1>2, <1>3, <1>4 DEF ForestIsComponents

(* Two positions have one root exactly when the pairs united so far connect them, *)
(* and each has one (alert_manager.py:648-668).                                   *)
THEOREM GroupingForest == GroupingSpec => []ForestIsComponents
  BY ForestInit, ForestStep, ForestParts, PTL DEF GroupingSpec
-----------------------------------------------------------------------------
(***************************************************************************)
(* Why find ends: a position that is no root is not met again above itself,*)
(* before or after the halving.                                            *)
(***************************************************************************)
LEMMA PathClosed ==
    ASSUME NEW p, Forest(p), NEW x \in DOMAIN p
    PROVE  ClosedAround(p, x, Path(p, x)) /\ \A S : ClosedAround(p, x, S) => Path(p, x) \subseteq S
<1>1. x \in Path(p, x)
  BY LeadsInto DEF Path, ClosedAround
<1>2. ASSUME NEW y \in Path(p, x) PROVE p[y] \in Path(p, x)
  <2>1. y \in DOMAIN p /\ Leads(p, x, y) /\ p[y] \in DOMAIN p
    BY DEF Path, Forest
  <2>2. ASSUME NEW S, ClosedAround(p, x, S) PROVE p[y] \in S
    BY <2>1, <2>2, LeadsInto DEF ClosedAround
  <2> QED BY <2>1, <2>2, LeadsInto DEF Path
<1>3. ASSUME NEW S, ClosedAround(p, x, S) PROVE Path(p, x) \subseteq S
  BY <1>3, LeadsInto DEF Path
<1> QED BY <1>1, <1>2, <1>3 DEF ClosedAround, Path

\* What leads to x leads there from the next position too, if it is not x itself.
LEMMA LeadsOn ==
    ASSUME NEW p, NEW x, NEW z \in DOMAIN p, z # x, Leads(p, z, x) PROVE Leads(p, p[z], x)
<1>1. ASSUME NEW S, ClosedAround(p, p[z], S) PROVE x \in S
  <2>1. ClosedAround(p, z, S \cup {z})
    BY <1>1 DEF ClosedAround
  <2> QED BY <2>1, LeadsInto
<1> QED BY <1>1, LeadsInto

LEMMA NotAboveItself ==
    ASSUME NEW p, Rooted(p), NEW x \in DOMAIN p, p[x] # x, NEW y \in Path(p, x)
    PROVE  p[y] # x
<1> SUFFICES ASSUME p[y] = x PROVE FALSE
  OBVIOUS
<1> DEFINE D == {z \in DOMAIN p : Leads(p, z, x)}
<1>1. y \in DOMAIN p /\ Leads(p, x, y) /\ y # x /\ Forest(p)
  BY DEF Path, Rooted
<1>2. Leads(p, p[x], x)
  <2>1. Leads(p, p[x], y)
    BY <1>1, LeadsOn
  <2>2. ASSUME NEW S, ClosedAround(p, p[x], S) PROVE x \in S
    BY <2>1, <2>2, LeadsInto DEF ClosedAround
  <2> QED BY <2>2, LeadsInto
<1>3. ClosedAround(p, x, D)
  <2>1. x \in D
    BY LeadsInto DEF ClosedAround
  <2>2. ASSUME NEW z \in D PROVE p[z] \in D
    BY <1>1, <1>2, LeadsOn DEF Forest
  <2> QED BY <2>1, <2>2 DEF ClosedAround
<1>4. PICK r \in DOMAIN p : RootOf(p, x, r)
  BY DEF Rooted
<1>5. Leads(p, r, x)
  BY <1>3, <1>4, LeadsInto DEF RootOf
<1>6. ClosedAround(p, r, {r})
  BY <1>4 DEF ClosedAround, RootOf
<1>7. x = r
  BY <1>5, <1>6, LeadsInto
<1> QED BY <1>4, <1>7 DEF RootOf

\* A turn of find's loop leaves less of the path.
LEMMA HalvingShortens ==
    ASSUME NEW p, Rooted(p), NEW x \in DOMAIN p, p[x] # x,
           NEW q, q = [p EXCEPT ![x] = p[p[x]]]
    PROVE  Path(q, q[x]) \subseteq Path(p, x) \ {x} /\ x \in Path(p, x)
<1> DEFINE T == Path(p, x) \ {x}
<1>1. Forest(p) /\ Forest(q) /\ DOMAIN q = DOMAIN p /\ p[x] \in DOMAIN p
      /\ q[x] = p[p[x]] /\ \A y \in DOMAIN p \ {x} : q[y] = p[y]
  BY DEF Forest, Rooted
<1>2. ClosedAround(p, x, Path(p, x))
  BY <1>1, PathClosed
<1>3. \A y \in Path(p, x) : p[y] \in T
  BY <1>2, NotAboveItself DEF ClosedAround
<1>4. ClosedAround(q, q[x], T)
  BY <1>1, <1>2, <1>3 DEF ClosedAround
<1>5. q[x] \in DOMAIN q
  BY <1>1 DEF Forest
<1>6. Path(q, q[x]) \subseteq T
  BY <1>1, <1>4, <1>5, PathClosed
<1> QED BY <1>2, <1>6 DEF ClosedAround

\* Every step goes on; none is without effect, whence no brackets.
LEMMA GroupingGoesOn == ForestInv /\ GroupingNext => Advances
<1> SUFFICES ASSUME ForestInv, GroupingNext PROVE Advances
  OBVIOUS
<1>0. GroupingTypeOK /\ Stages /\ Rooted(parent)
  BY DEF ForestInv
<1>1. position \in Nat /\ Len(events) \in Nat /\ pair[1] \in Nat /\ pair[2] \in Nat
      /\ DOMAIN events = 1..Len(events)
  BY <1>0 DEF GroupingTypeOK
<1>2. ~PairsDone /\ pair' = PairAfter => PairGrows
  BY <1>1 DEF PairAfter, PairGrows
<1>3. CASE ComparePair
  BY <1>2, <1>3 DEF ComparePair, Advances, Turn
<1>4. CASE Halve
  <2>1. index \in DOMAIN parent
    BY <1>0 DEF GroupingTypeOK
  <2>2. PathShrinks
    <3>1. Path(parent', parent'[index]) \subseteq Path(parent, index) \ {index}
          /\ index \in Path(parent, index)
      BY <1>0, <1>4, <2>1, HalvingShortens DEF Halve
    <3> QED BY <1>4, <3>1 DEF PathShrinks, Halve
  <2> QED BY <1>4, <2>2 DEF Halve, Advances
<1>5. CASE FindRight
  BY <1>5 DEF FindRight, Found, Advances, Turn
<1>6. CASE Unite
  BY <1>0, <1>2, <1>6 DEF Unite, Found, Stages, Advances
<1>7. CASE FindNext
  BY <1>7 DEF FindNext, Advances, Turn
<1>8. CASE Collect
  BY <1>1, <1>8 DEF Collect, Advances
<1> QED BY <1>3, <1>4, <1>5, <1>6, <1>7, <1>8 DEF GroupingNext

(***************************************************************************)
(* The grouping of a flush ends: each step takes the bounded loops further *)
(* or leaves find less of a finite path (alert_manager.py:650-681).        *)
(***************************************************************************)
THEOREM GroupingTerminates == GroupingSpec => GroupingEnds
<1>1. ForestInv /\ [GroupingNext]_groupingVars => [Advances]_groupingVars
  BY GroupingGoesOn
<1> QED BY <1>1, ForestInit, ForestStep, PTL DEF GroupingSpec, GroupingEnds
-----------------------------------------------------------------------------
(* The increasing numbering of a set of positions, and what one more does to it. *)

\* s lists the elements of S in their order.
ListsIn(s, S, c) ==
    /\ c \in Nat /\ s \in [1..c -> S]
    /\ \A a, b \in 1..c : a < b => s[a] < s[b]
    /\ \A x \in S : \E a \in 1..c : s[a] = x
Lists(s, S) == \E c \in Nat : ListsIn(s, S, c)
Rank(S, x) == Cardinality({y \in S : y <= x})

LEMMA IncreasingLists ==
    ASSUME NEW n \in Nat, NEW S \in SUBSET (1..n) PROVE Lists(Increasing(S), S)
  BY IncreasingNumbers DEF Lists, ListsIn

\* An element comes at the place its rank gives it.
LEMMA ListedAtRank ==
    ASSUME NEW n \in Nat, NEW S \in SUBSET (1..n), NEW s, NEW c, ListsIn(s, S, c), NEW a \in 1..c
    PROVE  Rank(S, s[a]) = a
<1> DEFINE T == {y \in S : y <= s[a]}
           f == [b \in 1..a |-> s[b]]
<1>0. /\ c \in Nat /\ s \in [1..c -> S]
      /\ \A b, d \in 1..c : b < d => s[b] < s[d]
      /\ \A x \in S : \E b \in 1..c : s[b] = x
  BY DEF ListsIn
<1>1. a \in Nat /\ a <= c /\ \A b \in 1..a : b \in 1..c
  BY <1>0
<1>2. ASSUME NEW b \in 1..c PROVE s[b] \in S /\ s[b] \in Int
  <2>1. s[b] \in S
    BY <1>0
  <2>2. \A y \in S : y \in Int
    OBVIOUS
  <2> QED BY <2>1, <2>2
<1>3. ASSUME NEW b \in 1..a PROVE s[b] \in T
  <2>1. b \in 1..c /\ (b < a \/ b = a)
    BY <1>1
  <2> QED BY <1>0, <1>2, <2>1
<1>4. ASSUME NEW b \in 1..a, NEW d \in 1..a, s[b] = s[d] PROVE b = d
  <2>1. b \in 1..c /\ d \in 1..c
    BY <1>1
  <2>2. ~(s[b] < s[d]) /\ ~(s[d] < s[b])
    BY <1>0, <1>2, <1>4, <2>1
  <2>3. ~(b < d) /\ ~(d < b)
    BY <1>0, <2>1, <2>2
  <2> QED BY <1>0, <2>1, <2>3
<1>5. ASSUME NEW y \in T PROVE \E b \in 1..a : f[b] = y
  <2>1. PICK b \in 1..c : s[b] = y
    BY <1>0
  <2>2. ~(s[a] < s[b])
    BY <1>2, <2>1
  <2>3. b \in 1..a
    BY <1>0, <1>1, <2>2
  <2> QED BY <2>1, <2>3
<1>6. f \in [1..a -> T]
  BY <1>3
<1>7. f \in Bijection(1..a, T)
  <2>1. f \in Injection(1..a, T)
    BY <1>4, <1>6 DEF Injection, IsInjective
  <2>2. f \in Surjection(1..a, T)
    BY <1>5, <1>6 DEF Surjection
  <2> QED BY <2>1, <2>2 DEF Bijection
<1> HIDE DEF f, T
<1>8. ExistsBijection(1..a, T)
  BY <1>7 DEF ExistsBijection
<1>9. Cardinality(T) = a
  BY <1>1, <1>8, FS_CountingElements
<1> QED BY <1>9 DEF T, Rank

\* There is one such numbering.
LEMMA ListedOnce ==
    ASSUME NEW n \in Nat, NEW S \in SUBSET (1..n), NEW s, Lists(s, S) PROVE Increasing(S) = s
<1> DEFINE t == Increasing(S)
<1>1. PICK c \in Nat : ListsIn(s, S, c)
  BY DEF Lists
<1>2. PICK d \in Nat : ListsIn(t, S, d)
  BY IncreasingLists DEF Lists
<1> HIDE DEF t
<1>3. \A a \in 1..c : Rank(S, s[a]) = a
  BY <1>1, ListedAtRank
<1>4. \A a \in 1..d : Rank(S, t[a]) = a
  BY <1>2, ListedAtRank
<1>5. ASSUME NEW a \in 1..c PROVE a \in 1..d /\ t[a] = s[a]
  <2>1. PICK b \in 1..d : t[b] = s[a]
    BY <1>1, <1>2 DEF ListsIn
  <2>2. b = a
    BY <1>3, <1>4, <2>1
  <2> QED BY <2>1, <2>2
<1>6. ASSUME NEW a \in 1..d PROVE a \in 1..c
  <2>1. PICK b \in 1..c : s[b] = t[a]
    BY <1>1, <1>2 DEF ListsIn
  <2>2. b = a
    BY <1>3, <1>4, <2>1
  <2> QED BY <2>1, <2>2
<1>7. 1..c = 1..d
  BY <1>5, <1>6
<1>8. t = s
  BY <1>1, <1>2, <1>5, <1>7 DEF ListsIn
<1> QED BY <1>8 DEF t

\* A greater element comes last.
ListedThen(S, x, c) ==
    /\ c \in Nat /\ DOMAIN Increasing(S) = 1..c
    /\ Increasing(S \cup {x}) = [a \in 1..(c + 1) |-> IF a = c + 1 THEN x ELSE Increasing(S)[a]]
LEMMA ListedLast ==
    ASSUME NEW n \in Nat, NEW S \in SUBSET (1..n), NEW x \in 1..n, \A y \in S : y < x
    PROVE  ListedThen(S, x, Cardinality(S))
<1> DEFINE c == Cardinality(S)
           s == Increasing(S)
           t == [a \in 1..(c + 1) |-> IF a = c + 1 THEN x ELSE s[a]]
<1>1. /\ c \in Nat /\ s \in [1..c -> S]
      /\ \A a, b \in 1..c : a < b => s[a] < s[b]
      /\ \A y \in S : \E a \in 1..c : s[a] = y
  BY IncreasingNumbers
<1> HIDE DEF s, c
<1>2. \A a \in 1..(c + 1) : a = c + 1 \/ a \in 1..c
  BY <1>1
<1>3. t \in [1..(c + 1) -> S \cup {x}]
  BY <1>1, <1>2
<1>4. ASSUME NEW a \in 1..(c + 1), NEW b \in 1..(c + 1), a < b PROVE t[a] < t[b]
  <2>1. a \in 1..c
    BY <1>1, <1>4
  <2>2. t[a] = s[a] /\ s[a] \in S
    BY <1>1, <2>1
  <2>3. CASE b = c + 1
    BY <2>2, <2>3
  <2>4. CASE b \in 1..c
    <3>1. t[b] = s[b]
      BY <1>1, <2>4
    <3> QED BY <1>1, <1>4, <2>1, <2>2, <2>4, <3>1
  <2> QED BY <1>2, <2>3, <2>4
<1>5. ASSUME NEW y \in S \cup {x} PROVE \E a \in 1..(c + 1) : t[a] = y
  <2>1. CASE y = x
    BY <1>1, <2>1
  <2>2. CASE y \in S
    <3>1. PICK a \in 1..c : s[a] = y
      BY <1>1, <2>2
    <3>2. a \in 1..(c + 1) /\ a # c + 1
      BY <1>1
    <3> QED BY <3>1, <3>2
  <2> QED BY <2>1, <2>2
<1>6. c + 1 \in Nat
  BY <1>1
<1> HIDE DEF t
<1>7. Lists(t, S \cup {x})
  BY <1>3, <1>4, <1>5, <1>6 DEF Lists, ListsIn
<1>8. Increasing(S \cup {x}) = t
  BY <1>7, ListedOnce
<1> QED BY <1>1, <1>8 DEF s, t, c, ListedThen

LEMMA ListedAlone ==
    ASSUME NEW n \in Nat, NEW x \in 1..n PROVE Increasing({x}) = [a \in 1..1 |-> x]
<1>1. Lists([a \in 1..1 |-> x], {x})
  <2>1. 1 \in Nat
    OBVIOUS
  <2>2. \A a, b \in 1..1 : ~(a < b)
    OBVIOUS
  <2> QED BY <2>1, <2>2 DEF Lists, ListsIn
<1> QED BY <1>1, ListedOnce

\* What Append does, by its elements.
LEMMA AppendIs ==
    ASSUME NEW S, NEW s \in Seq(S), NEW e \in S
    PROVE  Append(s, e) = [a \in 1..(Len(s) + 1) |-> IF a = Len(s) + 1 THEN e ELSE s[a]]
<1>1. /\ Append(s, e) \in Seq(S) /\ Len(Append(s, e)) = Len(s) + 1 /\ Len(s) \in Nat
      /\ \A i \in 1..Len(s) : Append(s, e)[i] = s[i]
      /\ Append(s, e)[Len(s) + 1] = e
  BY AppendProperties, LenProperties
<1>2. Append(s, e) \in [1..(Len(s) + 1) -> S]
  BY <1>1, LenProperties
<1>3. \A a \in 1..(Len(s) + 1) : a = Len(s) + 1 \/ a \in 1..Len(s)
  BY <1>1
<1> QED BY <1>1, <1>2, <1>3
-----------------------------------------------------------------------------
(***************************************************************************)
(* Why the groups are the bundles: once the double loop is done the roots  *)
(* are the components, and the groups collected up to a position are the   *)
(* bundles of the events up to it.                                         *)
(***************************************************************************)
FirstsTo(es, k) == {i \in Firsts(es) : i <= k}
ComponentTo(es, i, k) == {j \in Component(es, i) : j <= k}
BundleTo(es, i, k) ==
    [m \in DOMAIN Increasing(ComponentTo(es, i, k)) |-> es[Increasing(ComponentTo(es, i, k))[m]]]
GroupTo(es, p, i, k) == [root |-> Root(p, i), members |-> BundleTo(es, i, k)]
GroupsTo(es, p, k) ==
    [g \in DOMAIN Increasing(FirstsTo(es, k)) |-> GroupTo(es, p, Increasing(FirstsTo(es, k))[g], k)]

Collected == grouped = GroupsTo(events, parent, position - 1)

LEMMA PositionSets ==
    ASSUME NEW es \in Seq(Events), NEW i \in DOMAIN es, NEW k
    PROVE  /\ Len(es) \in Nat /\ DOMAIN es = 1..Len(es)
           /\ FirstsTo(es, k) \in SUBSET (1..Len(es))
           /\ ComponentTo(es, i, k) \in SUBSET (1..Len(es))
<1>1. Len(es) \in Nat /\ DOMAIN es = 1..Len(es)
  OBVIOUS
<1>2. Component(es, i) \subseteq 1..Len(es)
  BY <1>1, ComponentFacts
<1> QED BY <1>1, <1>2 DEF FirstsTo, ComponentTo, Firsts

\* A component has a first position.
LEMMA ComponentFirst ==
    ASSUME NEW es \in Seq(Events), NEW i \in DOMAIN es
    PROVE  \E f \in Firsts(es) : f \in Component(es, i) /\ f <= i
<1> DEFINE C == Component(es, i)
           s == Increasing(C)
<1>1. Len(es) \in Nat /\ DOMAIN es = 1..Len(es) /\ C \in SUBSET (1..Len(es)) /\ i \in C
  BY ComponentFacts
<1> HIDE DEF C
<1>2. PICK c \in Nat : ListsIn(s, C, c)
  BY <1>1, IncreasingLists DEF Lists
<1> HIDE DEF s
<1>3. 1 \in 1..c
  BY <1>1, <1>2 DEF ListsIn
<1>4. s[1] \in C /\ s[1] \in DOMAIN es
  BY <1>1, <1>2, <1>3 DEF ListsIn
<1>5. ASSUME NEW j \in C PROVE s[1] <= j
  <2>1. PICK b \in 1..c : s[b] = j
    BY <1>2 DEF ListsIn
  <2>2. b = 1 \/ 1 < b
    BY <1>2, <2>1
  <2>3. s[1] \in Nat /\ s[b] \in Nat
    BY <1>1, <1>4, <2>1
  <2>4. s[1] = s[b] \/ s[1] < s[b]
    BY <1>2, <1>3, <2>1, <2>2 DEF ListsIn
  <2> QED BY <2>1, <2>3, <2>4
<1>6. Component(es, s[1]) = C
  BY <1>4, ComponentFacts DEF C
<1> QED BY <1>1, <1>4, <1>5, <1>6 DEF Firsts, C

\* A position of its component lengthens a bundle by its event; no other does; and a first
\* position opens one.
LEMMA BundleGrows ==
    ASSUME NEW es \in Seq(Events), NEW i \in DOMAIN es, NEW x \in DOMAIN es, x \in Component(es, i)
    PROVE  BundleTo(es, i, x) = Append(BundleTo(es, i, x - 1), es[x])
<1> DEFINE S == ComponentTo(es, i, x - 1)
           c == Cardinality(S)
           s == Increasing(S)
<1>1. Len(es) \in Nat /\ DOMAIN es = 1..Len(es) /\ S \in SUBSET (1..Len(es)) /\ x \in 1..Len(es)
      /\ Component(es, i) \subseteq 1..Len(es)
  BY PositionSets, ComponentFacts
<1>2. \A y \in S : y < x
  BY <1>1 DEF ComponentTo
<1>3. ComponentTo(es, i, x) = S \cup {x}
  BY <1>1 DEF ComponentTo
<1> HIDE DEF S
<1>4. /\ c \in Nat /\ s \in [1..c -> S]
  BY <1>1, IncreasingNumbers
<1>5. Increasing(S \cup {x}) = [a \in 1..(c + 1) |-> IF a = c + 1 THEN x ELSE s[a]]
  <2>1. ListedThen(S, x, c)
    BY <1>1, <1>2, ListedLast
  <2> QED BY <2>1 DEF ListedThen
<1>6. BundleTo(es, i, x - 1) = [m \in 1..c |-> es[s[m]]]
  <2>1. DOMAIN s = 1..c
    BY <1>4
  <2> QED BY <2>1 DEF BundleTo, S
<1>7. BundleTo(es, i, x) = [m \in 1..(c + 1) |-> IF m = c + 1 THEN es[x] ELSE es[s[m]]]
  BY <1>3, <1>5 DEF BundleTo
<1> DEFINE b == BundleTo(es, i, x - 1)
<1> HIDE DEF c, s
<1>8. b \in Seq(Events) /\ Len(b) = c /\ es[x] \in Events
  <2>1. ASSUME NEW m \in 1..c PROVE es[s[m]] \in Events
    <3>1. s[m] \in S
      BY <1>4
    <3>2. s[m] \in 1..Len(es)
      BY <1>1, <3>1
    <3> QED BY <3>2, ElementOfSeq
  <2>2. b \in [1..c -> Events]
    BY <1>6, <2>1
  <2> HIDE DEF b
  <2>3. b \in Seq(Events) /\ Len(b) = c
    BY <1>4, <2>2
  <2> QED BY <1>1, <2>3
<1> HIDE DEF b
<1>9. Append(b, es[x]) = [m \in 1..(c + 1) |-> IF m = c + 1 THEN es[x] ELSE b[m]]
  BY <1>8, AppendIs
<1>10. \A m \in 1..(c + 1) : m # c + 1 => b[m] = es[s[m]]
  BY <1>4, <1>6 DEF b
<1> QED BY <1>7, <1>9, <1>10 DEF b

LEMMA BundleStays ==
    ASSUME NEW es \in Seq(Events), NEW i \in DOMAIN es, NEW x \in DOMAIN es, x \notin Component(es, i)
    PROVE  BundleTo(es, i, x) = BundleTo(es, i, x - 1)
<1>1. DOMAIN es = 1..Len(es) /\ Component(es, i) \subseteq 1..Len(es) /\ Len(es) \in Nat
  BY PositionSets, ComponentFacts
<1>2. ComponentTo(es, i, x) = ComponentTo(es, i, x - 1)
  BY <1>1 DEF ComponentTo
<1> QED BY <1>2 DEF BundleTo

LEMMA BundleOpens ==
    ASSUME NEW es \in Seq(Events), NEW x \in Firsts(es)
    PROVE  BundleTo(es, x, x) = <<es[x]>>
<1>1. x \in DOMAIN es /\ x \in 1..Len(es) /\ Len(es) \in Nat /\ x \in Component(es, x)
      /\ Component(es, x) \subseteq 1..Len(es) /\ \A j \in Component(es, x) : x <= j
  <2>1. x \in DOMAIN es /\ \A j \in Component(es, x) : x <= j
    BY DEF Firsts
  <2> QED BY <2>1, PositionSets, ComponentFacts
<1>2. ComponentTo(es, x, x) = {x}
  BY <1>1 DEF ComponentTo
<1>3. Increasing({x}) = [a \in 1..1 |-> x]
  BY <1>1, ListedAlone
<1>4. BundleTo(es, x, x) = [m \in 1..1 |-> es[x]]
  BY <1>2, <1>3 DEF BundleTo
<1> QED BY <1>4

\* The double loop done, two positions have one root when they are in one component.
LEMMA RootsAreComponents ==
    ASSUME ForestInv, PairsDone, NEW a \in DOMAIN events, NEW b \in DOMAIN events
    PROVE  Root(parent, a) = Root(parent, b) <=> b \in Component(events, a)
<1>1. /\ Merged /\ Justified /\ Rooted(parent) /\ DOMAIN parent = DOMAIN events
      /\ pair[1] = Len(events) /\ Len(events) \in Nat /\ DOMAIN events = 1..Len(events)
  BY DEF ForestInv, GroupingTypeOK
<1>2. ASSUME NEW c \in DOMAIN events, NEW d \in DOMAIN events, Related(events[c], events[d]), c # d
      PROVE  Linked(c, d)
  <2>1. (c < d /\ c < pair[1]) \/ (d < c /\ d < pair[1])
    BY <1>1, <1>2
  <2> QED BY <1>2, <2>1 DEF Linked, Visited
<1>3. ASSUME Root(parent, a) = Root(parent, b) PROVE b \in Component(events, a)
  <2> SUFFICES ASSUME NEW S \in SUBSET DOMAIN events, a \in S,
                      \A c \in S, d \in DOMAIN events : Related(events[c], events[d]) => d \in S
               PROVE  b \in S
    BY DEF Component
  <2>1. Unsplit(S)
    BY DEF Unsplit, Linked
  <2> QED BY <1>1, <1>3, <2>1 DEF Justified
<1>4. ASSUME b \in Component(events, a) PROVE Root(parent, a) = Root(parent, b)
  <2> DEFINE S == {y \in DOMAIN events : Root(parent, y) = Root(parent, a)}
  <2>1. ASSUME NEW c \in S, NEW d \in DOMAIN events, Related(events[c], events[d]) PROVE d \in S
    <3>1. c = d \/ Root(parent, c) = Root(parent, d)
      BY <1>1, <1>2, <2>1 DEF Merged
    <3> QED BY <2>1, <3>1
  <2>2. Component(events, a) \subseteq S
    BY <2>1, ComponentLeast
  <2> QED BY <1>4, <2>2
<1> QED BY <1>3, <1>4

LEMMA CollectStep == ForestInv /\ Collected /\ Collect => Collected'
<1> SUFFICES ASSUME ForestInv, Collected, Collect PROVE Collected'
  OBVIOUS
<1> DEFINE x == position
           k == x - 1
           r == index
           e == events[x]
           F == Increasing(FirstsTo(events, k))
           C(i) == Component(events, i)
           H == [root |-> r, members |-> <<e>>]
<1>1. /\ GroupingTypeOK /\ Rooted(parent) /\ DOMAIN parent = DOMAIN events /\ PairsDone
      /\ events' = events /\ parent' = parent /\ position' = x + 1 /\ grouped' = AddedTo(r, e)
  BY DEF ForestInv, GroupingTypeOK, Stages, Collect, Found
<1>2. /\ events \in Seq(Events) /\ Len(events) \in Nat /\ DOMAIN events = 1..Len(events)
      /\ x \in DOMAIN events /\ x \in Nat /\ k \in Nat /\ x <= Len(events) /\ e \in Events
  BY DEF ForestInv, GroupingTypeOK, Stages, Collect, Found
<1>3. r = Root(parent, x)
  <2>1. r \in DOMAIN parent /\ parent[r] = r /\ Root(parent, r) = Root(parent, x)
    BY <1>1 DEF ForestInv, Finding, Collect, Found, GroupingTypeOK
  <2> QED BY <1>1, <2>1, RootFacts
<1>4. Collected' <=> grouped' = GroupsTo(events, parent, x)
  <2>1. position' - 1 = x
    BY <1>1, <1>2
  <2>2. Collected' <=> grouped' = GroupsTo(events', parent', position' - 1)
    BY DEF Collected
  <2> QED BY <1>1, <2>1, <2>2
<1>5. FirstsTo(events, k) \in SUBSET (1..Len(events)) /\ FirstsTo(events, x) \in SUBSET (1..Len(events))
  BY <1>2, PositionSets
<1>6. PICK c \in Nat : ListsIn(F, FirstsTo(events, k), c)
  BY <1>2, <1>5, IncreasingLists DEF Lists
<1>7. DOMAIN F = 1..c /\ \A g \in 1..c : F[g] \in FirstsTo(events, k) /\ F[g] \in DOMAIN events
  BY <1>2, <1>5, <1>6 DEF ListsIn
<1>8. grouped = [g \in 1..c |-> GroupTo(events, parent, F[g], k)]
  BY <1>7 DEF Collected, GroupsTo
<1> HIDE DEF F
<1>9. \A g \in 1..c : grouped[g].root = r <=> x \in C(F[g])
  <2>1. \A g \in 1..c : grouped[g].root = Root(parent, F[g])
    BY <1>8 DEF GroupTo
  <2> QED BY <1>1, <1>2, <1>3, <1>7, <2>1, RootsAreComponents
<1>10. ASSUME NEW g \in 1..c
       PROVE  GroupTo(events, parent, F[g], x) =
                IF grouped[g].root = r THEN [grouped[g] EXCEPT !.members = Append(@, e)]
                                       ELSE grouped[g]
  <2>1. grouped[g] = [root |-> Root(parent, F[g]), members |-> BundleTo(events, F[g], k)]
    BY <1>8 DEF GroupTo
  <2>2. CASE x \in C(F[g])
    <3>1. BundleTo(events, F[g], x) = Append(BundleTo(events, F[g], k), e)
      BY <1>2, <1>7, <2>2, BundleGrows
    <3>2. [grouped[g] EXCEPT !.members = Append(@, e)] =
            [root |-> Root(parent, F[g]), members |-> Append(BundleTo(events, F[g], k), e)]
      BY <2>1
    <3>3. grouped[g].root = r
      BY <1>9, <2>2
    <3> QED BY <3>1, <3>2, <3>3 DEF GroupTo
  <2>3. CASE x \notin C(F[g])
    <3>1. BundleTo(events, F[g], x) = BundleTo(events, F[g], k)
      BY <1>2, <1>7, <2>3, BundleStays
    <3> QED BY <1>9, <2>1, <2>3, <3>1 DEF GroupTo
  <2> QED BY <2>2, <2>3
<1>11. CASE x \in Firsts(events)
  <2>1. ASSUME NEW g \in 1..c PROVE x \notin C(F[g])
    <3>1. F[g] \in DOMAIN events /\ F[g] <= k /\ F[g] \in Nat
      BY <1>2, <1>7 DEF FirstsTo
    <3>2. x \in C(F[g]) => F[g] \in Component(events, x)
      BY <3>1, ComponentFacts
    <3>3. F[g] \in Component(events, x) => x <= F[g]
      BY <1>11 DEF Firsts
    <3> QED BY <1>2, <3>1, <3>2, <3>3
  <2>2. grouped' = Append(grouped, H)
    BY <1>1, <1>8, <1>9, <2>1 DEF AddedTo
  <2>3. FirstsTo(events, x) = FirstsTo(events, k) \cup {x} /\ \A y \in FirstsTo(events, k) : y < x
    BY <1>2, <1>5, <1>11 DEF FirstsTo
  <2>4. Increasing(FirstsTo(events, x)) = [g \in 1..(c + 1) |-> IF g = c + 1 THEN x ELSE F[g]]
    <3>1. ListedThen(FirstsTo(events, k), x, Cardinality(FirstsTo(events, k)))
      BY <1>2, <1>5, <2>3, ListedLast
    <3>2. Cardinality(FirstsTo(events, k)) \in Nat /\ DOMAIN F = 1..Cardinality(FirstsTo(events, k))
      BY <3>1 DEF ListedThen, F
    <3>3. c = Cardinality(FirstsTo(events, k))
      BY <1>6, <1>7, <3>2
    <3> QED BY <2>3, <3>1, <3>3 DEF ListedThen, F
  <2>5. GroupTo(events, parent, x, x) = H
    BY <1>2, <1>3, <1>11, BundleOpens DEF GroupTo
  <2>6. GroupsTo(events, parent, x) =
          [g \in 1..(c + 1) |-> IF g = c + 1 THEN H ELSE grouped[g]]
    <3>1. GroupsTo(events, parent, x) =
            [g \in 1..(c + 1) |-> GroupTo(events, parent, IF g = c + 1 THEN x ELSE F[g], x)]
      BY <2>4 DEF GroupsTo
    <3>2. ASSUME NEW g \in 1..(c + 1)
          PROVE  GroupTo(events, parent, IF g = c + 1 THEN x ELSE F[g], x) =
                   IF g = c + 1 THEN H ELSE grouped[g]
      <4>1. CASE g = c + 1
        BY <2>5, <4>1
      <4>2. CASE g # c + 1
        <5>1. g \in 1..c
          BY <1>6, <4>2
        <5> QED BY <1>9, <1>10, <2>1, <4>2, <5>1
      <4> QED BY <4>1, <4>2
    <3> QED BY <3>1, <3>2
  <2>7. Append(grouped, H) = [g \in 1..(c + 1) |-> IF g = c + 1 THEN H ELSE grouped[g]]
    <3> DEFINE Members == {grouped[g] : g \in 1..c} \cup {H}
    <3>1. grouped \in [1..c -> Members] /\ H \in Members
      BY <1>8
    <3> HIDE DEF Members, H
    <3>2. grouped \in Seq(Members) /\ Len(grouped) = c
      BY <1>6, <3>1
    <3> QED BY <3>1, <3>2, AppendIs
  <2> QED BY <1>4, <2>2, <2>6, <2>7
<1>12. CASE x \notin Firsts(events)
  <2>1. PICK f \in Firsts(events) : f \in Component(events, x) /\ f <= x
    BY <1>2, ComponentFirst
  <2>2. f \in FirstsTo(events, k) /\ f \in DOMAIN events /\ x \in C(f)
    <3>1. f \in DOMAIN events /\ f # x
      BY <1>12, <2>1 DEF Firsts
    <3>2. f <= k
      BY <1>2, <2>1, <3>1
    <3>3. x \in C(f)
      BY <1>2, <2>1, <3>1, ComponentFacts
    <3> QED BY <2>1, <3>1, <3>2, <3>3 DEF FirstsTo
  <2>3. PICK h \in 1..c : F[h] = f
    BY <1>6, <2>2 DEF ListsIn
  <2>4. grouped' = [g \in 1..c |->
          IF grouped[g].root = r THEN [grouped[g] EXCEPT !.members = Append(@, e)]
                                 ELSE grouped[g]]
    <3>1. DOMAIN grouped = 1..c /\ \E g \in DOMAIN grouped : grouped[g].root = r
      BY <1>8, <1>9, <2>2, <2>3
    <3> QED BY <1>1, <3>1 DEF AddedTo
  <2>5. FirstsTo(events, x) = FirstsTo(events, k)
    BY <1>2, <1>5, <1>12 DEF FirstsTo
  <2>6. GroupsTo(events, parent, x) = [g \in 1..c |-> GroupTo(events, parent, F[g], x)]
    BY <1>7, <2>5 DEF GroupsTo, F
  <2> QED BY <1>4, <1>10, <2>4, <2>6
<1> QED BY <1>11, <1>12

LEMMA CollectedStep == ForestInv /\ Collected /\ [GroupingNext]_groupingVars => Collected'
<1> SUFFICES ASSUME ForestInv, Collected, [GroupingNext]_groupingVars PROVE Collected'
  OBVIOUS
<1>1. /\ GroupingTypeOK /\ Stages /\ Rooted(parent) /\ DOMAIN parent = DOMAIN events
      /\ events \in Seq(Events) /\ position \in Nat
  BY DEF ForestInv, GroupingTypeOK
<1>2. ASSUME UNCHANGED <<events, grouped, position>>,
             \A i \in Firsts(events) : i <= position - 1 => Root(parent', i) = Root(parent, i)
      PROVE  Collected'
  <2> DEFINE k == position - 1
             F == Increasing(FirstsTo(events, k))
  <2>1. FirstsTo(events, k) \in SUBSET (1..Len(events)) /\ Len(events) \in Nat
        /\ DOMAIN events = 1..Len(events)
    BY <1>1 DEF FirstsTo, Firsts
  <2>2. PICK c \in Nat : ListsIn(F, FirstsTo(events, k), c)
    BY <2>1, IncreasingLists DEF Lists
  <2> HIDE DEF F
  <2>3. DOMAIN F = 1..c /\ \A g \in 1..c : F[g] \in FirstsTo(events, k)
    BY <2>2 DEF ListsIn
  <2>4. \A g \in 1..c : GroupTo(events, parent', F[g], k) = GroupTo(events, parent, F[g], k)
    BY <1>2, <2>3 DEF FirstsTo, GroupTo
  <2>5. \A p : GroupsTo(events, p, k) = [g \in 1..c |-> GroupTo(events, p, F[g], k)]
    BY <2>3 DEF GroupsTo, F
  <2>6. GroupsTo(events, parent', k) = GroupsTo(events, parent, k)
    BY <2>4, <2>5
  <2> QED BY <1>2, <2>6 DEF Collected
<1>3. CASE Collect
  BY <1>3, CollectStep
<1>4. CASE Halve
  <2>1. /\ UNCHANGED <<events, grouped, position>> /\ index \in DOMAIN parent
        /\ parent[index] # index /\ parent' = [parent EXCEPT ![index] = parent[parent[index]]]
    BY <1>1, <1>4 DEF Halve, GroupingTypeOK
  <2>2. SameRoots(parent, parent')
    BY <1>1, <2>1, HalvingKeepsRoots
  <2>3. \A y \in DOMAIN events : Root(parent', y) = Root(parent, y)
    BY <1>1, <2>2 DEF SameRoots
  <2>4. \A i \in Firsts(events) : i \in DOMAIN events
    BY DEF Firsts
  <2> QED BY <1>2, <2>1, <2>3, <2>4
<1>5. CASE Unite
  <2>1. UNCHANGED <<events, grouped, position>> /\ ~PairsDone
    BY <1>1, <1>5 DEF Unite, Found, Stages
  <2>2. position - 1 = 0
    BY <1>1, <2>1 DEF Stages, GroupingTypeOK
  <2>3. \A i \in Firsts(events) : ~(i <= position - 1)
    BY <1>1, <2>2 DEF Firsts
  <2> QED BY <1>2, <2>1, <2>3
<1>6. CASE ComparePair \/ FindRight \/ FindNext \/ UNCHANGED groupingVars
  BY <1>2, <1>6 DEF ComparePair, FindRight, FindNext, groupingVars
<1> QED BY <1>3, <1>4, <1>5, <1>6 DEF GroupingNext

LEMMA CollectedInit == GroupingInit => Collected
<1> SUFFICES ASSUME GroupingInit PROVE Collected
  OBVIOUS
<1>1. events \in Seq(Events) /\ position = 1 /\ grouped = <<>>
  BY GroupingTypeInit DEF GroupingTypeOK, GroupingInit
<1>2. FirstsTo(events, 0) = {}
  BY <1>1 DEF FirstsTo, Firsts
<1>3. Lists(<<>>, {})
  BY DEF Lists, ListsIn
<1>4. Increasing({}) = <<>>
  <2>1. 0 \in Nat /\ {} \in SUBSET (1..0)
    OBVIOUS
  <2> QED BY <1>3, <2>1, ListedOnce
<1>5. GroupsTo(events, parent, 0) = <<>>
  <2>1. GroupsTo(events, parent, 0) \in [1..0 -> {}]
    BY <1>2, <1>4 DEF GroupsTo
  <2>2. GroupsTo(events, parent, 0) \in Seq({}) /\ Len(GroupsTo(events, parent, 0)) = 0
    BY <2>1
  <2> QED BY <2>2, EmptySeq
<1>6. position - 1 = 0
  BY <1>1
<1> QED BY <1>1, <1>5, <1>6 DEF Collected

LEMMA CollectedBundles == ForestInv /\ Collected => GroupsAreComponents
<1> SUFFICES ASSUME ForestInv, Collected, Finished PROVE Result = GroupEvents(events)
  BY DEF GroupsAreComponents
<1> DEFINE n == Len(events)
           F == Increasing(Firsts(events))
<1>1. events \in Seq(Events) /\ n \in Nat /\ DOMAIN events = 1..n /\ position - 1 = n
  BY DEF ForestInv, GroupingTypeOK, Finished
<1>2. FirstsTo(events, n) = Firsts(events) /\ Firsts(events) \in SUBSET (1..n)
  BY <1>1 DEF FirstsTo, Firsts
<1>3. PICK c \in Nat : ListsIn(F, Firsts(events), c)
  BY <1>1, <1>2, IncreasingLists DEF Lists
<1> HIDE DEF F
<1>4. DOMAIN F = 1..c /\ \A g \in 1..c : F[g] \in DOMAIN events
  BY <1>1, <1>2, <1>3 DEF ListsIn
<1>5. grouped = [g \in 1..c |-> GroupTo(events, parent, F[g], n)]
  BY <1>1, <1>2, <1>4 DEF Collected, GroupsTo, F
<1>6. Result = [g \in 1..c |-> BundleTo(events, F[g], n)]
  BY <1>5 DEF Result, GroupTo
<1>7. ASSUME NEW i \in DOMAIN events PROVE ComponentTo(events, i, n) = Component(events, i)
  BY <1>1, ComponentFacts DEF ComponentTo
<1>8. GroupEvents(events) =
        [g \in 1..c |-> [m \in DOMAIN Increasing(Component(events, F[g])) |->
                           events[Increasing(Component(events, F[g]))[m]]]]
  BY <1>4 DEF GroupEvents, F
<1>9. \A g \in 1..c : BundleTo(events, F[g], n) =
        [m \in DOMAIN Increasing(Component(events, F[g])) |->
           events[Increasing(Component(events, F[g]))[m]]]
  BY <1>4, <1>7 DEF BundleTo
<1> QED BY <1>6, <1>8, <1>9

(* The groups of a flush are the connected components of its events, each in capture  *)
(* order, ordered by their first event (alert_manager.py:642-674), as the pipeline    *)
(* has them.                                                                          *)
THEOREM GroupingGroups == GroupingSpec => []GroupsAreComponents
<1>1. ForestInv /\ Collected /\ [GroupingNext]_groupingVars => (ForestInv /\ Collected)'
  BY ForestStep, CollectedStep
<1>2. GroupingInit => ForestInv /\ Collected
  BY ForestInit, CollectedInit
<1>3. ForestInv /\ Collected => GroupsAreComponents
  BY CollectedBundles
<1> QED BY <1>1, <1>2, <1>3, PTL DEF GroupingSpec
==============================================================================
