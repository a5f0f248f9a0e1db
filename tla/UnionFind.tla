------------------------------ MODULE UnionFind ------------------------------
(***************************************************************************)
(* AlertBuffer._group_events step by step: a union-find forest over the    *)
(* positions of the flushed events.  The double loop finds the roots of    *)
(* both positions of a related pair and unites them; a second loop finds   *)
(* the root of each position and collects its event.  A turn of find's     *)
(* loop, which halves the path behind it, is a step.                       *)
(***************************************************************************)
EXTENDS AlertGrouping

CONSTANT MaxLen     \* bound on the number of events of a flush

VARIABLES events,   \* events: the flushed events
          parent,   \* parent: the forest, by position
          pair,     \* <<i, j>>: the pair of the double loop
          stage,    \* "pair", or whose root find looks for: the "left" or "right" of
                    \* the pair, or the one to "collect"
          index,    \* index of find
          rootLeft, \* root_left of union
          grouped,  \* grouped: the groups so far, as records of root and events
          position  \* the next event to collect

groupingVars == <<events, parent, pair, stage, index, rootLeft, grouped, position>>

GroupingInit ==
    /\ events \in SeqOf(Events, MaxLen) \ {<<>>}
    /\ parent = [x \in DOMAIN events |-> x]
    /\ pair = <<1, 2>>
    /\ stage = "pair" /\ index = 1 /\ rootLeft = 1
    /\ grouped = <<>>
    /\ position = 1

PairsDone == pair[1] >= Len(events)
PairRelated == Related(events[pair[1]], events[pair[2]])
PairAfter ==
    IF pair[2] < Len(events) THEN <<pair[1], pair[2] + 1>> ELSE <<pair[1] + 1, pair[1] + 2>>

\* A turn of the inner loop calls union on related events, or does nothing.
ComparePair ==
    /\ stage = "pair" /\ ~PairsDone
    /\ IF PairRelated THEN stage' = "left" /\ index' = pair[1] /\ UNCHANGED pair
                      ELSE pair' = PairAfter /\ UNCHANGED <<stage, index>>
    /\ UNCHANGED <<events, parent, rootLeft, grouped, position>>

\* A turn of find's loop.
Halve ==
    /\ stage # "pair" /\ parent[index] # index
    /\ parent' = [parent EXCEPT ![index] = parent[parent[index]]]
    /\ index' = parent'[index]
    /\ UNCHANGED <<events, pair, stage, rootLeft, grouped, position>>

Found(s) == stage = s /\ parent[index] = index

\* union has the root of its left, and looks for that of its right.
FindRight ==
    /\ Found("left")
    /\ rootLeft' = index
    /\ stage' = "right" /\ index' = pair[2]
    /\ UNCHANGED <<events, parent, pair, grouped, position>>

\* union has both roots: that of right goes below that of left.
UniteRightItself ==
    /\ Found("right")
    /\ parent' = IF index = rootLeft THEN parent ELSE [parent EXCEPT ![pair[2]] = rootLeft]
    /\ pair' = PairAfter
    /\ stage' = "pair"
    /\ UNCHANGED <<events, index, rootLeft, grouped, position>>
Unite ==
    /\ Found("right")
    /\ parent' = IF index = rootLeft THEN parent ELSE [parent EXCEPT ![index] = rootLeft]
    /\ pair' = PairAfter
    /\ stage' = "pair"
    /\ UNCHANGED <<events, index, rootLeft, grouped, position>>

\* The collecting loop calls find on its next position.
FindNext ==
    /\ stage = "pair" /\ PairsDone /\ position <= Len(events)
    /\ stage' = "collect" /\ index' = position
    /\ UNCHANGED <<events, parent, pair, rootLeft, grouped, position>>

\* grouped[r].append(e): a root seen first opens a group at the end.
AddedTo(r, e) ==
    IF \E g \in DOMAIN grouped : grouped[g].root = r
    THEN [g \in DOMAIN grouped |->
            IF grouped[g].root = r THEN [grouped[g] EXCEPT !.members = Append(@, e)]
                                   ELSE grouped[g]]
    ELSE Append(grouped, [root |-> r, members |-> <<e>>])
CollectByParent ==
    /\ stage = "collect"
    /\ grouped' = AddedTo(parent[index], events[position])
    /\ position' = position + 1
    /\ stage' = "pair"
    /\ UNCHANGED <<events, parent, pair, index, rootLeft>>
Collect ==
    /\ Found("collect")
    /\ grouped' = AddedTo(index, events[position])
    /\ position' = position + 1
    /\ stage' = "pair"
    /\ UNCHANGED <<events, parent, pair, index, rootLeft>>

GroupingNext == ComparePair \/ Halve \/ FindRight \/ Unite \/ FindNext \/ Collect
GroupingSpec == GroupingInit /\ [][GroupingNext]_groupingVars

Result == [g \in DOMAIN grouped |-> grouped[g].members]
Finished == position > Len(events)

-----------------------------------------------------------------------------
\* The root of x in forest p: the one that every path from x leads to.
Leads(p, x, r) ==
    \A S \in SUBSET DOMAIN p : (x \in S /\ \A y \in S : p[y] \in S) => r \in S
RootOf(p, x, r) == p[r] = r /\ Leads(p, x, r)
Root(p, x) == CHOOSE r \in DOMAIN p : RootOf(p, x, r)

\* The pairs the double loop is done with, and the positions they connect.
Visited(a, b) == a < b /\ (a < pair[1] \/ (a = pair[1] /\ b < pair[2]))
Linked(a, b) == Related(events[a], events[b]) /\ (Visited(a, b) \/ Visited(b, a))
Unsplit(S) == \A a \in S, b \in DOMAIN events : Linked(a, b) => b \in S
Apart(a, b) == \E S \in SUBSET DOMAIN events : a \in S /\ b \notin S /\ Unsplit(S)

(***************************************************************************)
(* Every position has a root, so find ends; and two positions have one     *)
(* root exactly when the pairs united so far connect them, whatever the    *)
(* halving of paths does to the forest in the middle of a union            *)
(* (alert_manager.py:648-668).                                             *)
(***************************************************************************)
ForestIsComponents ==
    /\ \A x \in DOMAIN events : \E r \in DOMAIN events : RootOf(parent, x, r)
    /\ \A a, b \in DOMAIN events : Apart(a, b) <=> Root(parent, a) # Root(parent, b)

(***************************************************************************)
(* The groups are the connected components, each in capture order, ordered *)
(* by their first event: what AlertPipeline takes a flush to dispatch.     *)
(***************************************************************************)
GroupsAreComponents == Finished => Result = GroupEvents(events)

(***************************************************************************)
(* No find goes round in circles, so the flush worker gets its groups:     *)
(* every step takes the loops further, or it is a turn of find's loop that *)
(* leaves less of the path to the root, halving of the path included.  The *)
(* loops are bounded and a path is finite (alert_manager.py:650-681).      *)
(***************************************************************************)
Path(p, x) == {y \in DOMAIN p : Leads(p, x, y)}
Turn == [pair |-> 0, left |-> 1, right |-> 2, collect |-> 1][stage]
PairGrows == pair'[1] > pair[1] \/ (pair'[1] = pair[1] /\ pair'[2] > pair[2])
PathShrinks ==
    /\ Path(parent', index') \subseteq Path(parent, index)
    /\ Path(parent', index') # Path(parent, index)
Advances ==
    \/ position' > position
    \/ position' = position /\ PairGrows
    \/ UNCHANGED <<position, pair>> /\ Turn' > Turn
    \/ UNCHANGED <<position, pair, stage>> /\ PathShrinks
GroupingEnds == [][Advances]_groupingVars

(* The fields of the grouping have the types the code relies on. *)
GroupingTypeOK ==
    /\ events \in Seq(Events) /\ events # <<>>
    /\ parent \in [DOMAIN events -> DOMAIN events]
    /\ pair \in Nat \X Nat /\ 1 <= pair[1] /\ pair[1] < pair[2]
    /\ IF PairsDone THEN pair[1] = Len(events) ELSE pair[2] <= Len(events)
    /\ stage \in {"pair", "left", "right", "collect"}
    /\ index \in DOMAIN events /\ rootLeft \in DOMAIN events
    /\ position \in 1..(Len(events) + 1)
==============================================================================
