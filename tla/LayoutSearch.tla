----------------------------- MODULE LayoutSearch ----------------------------
(***************************************************************************)
(* HambidgeTreeUtils::BuildLayout (GoldenSite/hambidge_tree_utils.h) with  *)
(* LayoutBuilder and CalculateLayoutCost: stacks groups of rectangles in a *)
(* column until every rectangle of the page has its place, by a depth-     *)
(* first search over the groups with an explicit stack.                    *)
(*                                                                         *)
(* A group is given by the labels of its rectangles (the program keeps     *)
(* them as a sorted vector) and by what CalculateLayoutCost measures once  *)
(* the group is scaled to the width of the layout: its height, and the     *)
(* width and height of each rectangle, in whole units.  Costs are          *)
(* fractions <<numerator, denominator>>.                                   *)
(***************************************************************************)
EXTENDS Integers, Sequences, FiniteSets, Functions

CONSTANTS
  GroupLists,        \* the sequences of groups BuildLayout may be called with
  Importance,        \* label -> importance of its rectangle
  LayoutWidth,
  MinRectangle, MaxRectangle,   \* [width, height]: the limits of a rectangle
  MinCost,           \* the greatest cost that is accepted
  MaxLayouts,        \* how many layouts are returned, 20 in the program
  Uninitialized      \* the values that "double cost;" may start from

Label == DOMAIN Importance

\* The caller passes at least one group, and groups of the page's rectangles.
ASSUME GroupListsAssumption ==
  \A list \in GroupLists :
    /\ list \in Seq([labels : SUBSET Label, height : Nat \ {0},
                     leaves : SUBSET [label : Label, width : Nat, height : Nat]])
    /\ list # <<>>
    /\ \A p \in DOMAIN list : list[p].labels # {} /\ IsFiniteSet(list[p].leaves)
ASSUME LabelAssumption == IsFiniteSet(Label)
\* No rectangle is less than unimportant.
ASSUME ImportanceAssumption == Importance \in [Label -> Nat]
ASSUME LayoutWidthAssumption == LayoutWidth \in Nat \ {0}
ASSUME MaxLayoutsAssumption == MaxLayouts \in Nat \ {0}
ASSUME UninitializedAssumption == Uninitialized # {} /\ Uninitialized \subseteq Int

VARIABLES
  groups,                 \* the parameter: what to choose from
  pc,                     \* "try", "advance", "done"
  it_stack,               \* the positions being tried, the last one on top
  layout_groups,          \* of the LayoutBuilder: the positions of its groups
  layout_labels,          \* and all their labels
  layout_size,            \* what the loop takes for the number of its labels
  layouts                 \* the complete layouts found, with their costs

vars == <<groups, pc, it_stack, layout_groups, layout_labels, layout_size, layouts>>

Position == DOMAIN groups
LabelsAt(p) == groups[p].labels

final_size == Cardinality(Label)
min_group_size ==
  CHOOSE n \in {Cardinality(LabelsAt(p)) : p \in Position} :
    \A p \in Position : n =< Cardinality(LabelsAt(p))
-----------------------------------------------------------------------------
(* CalculateLayoutCost *)

Allowed(leaf) ==
  /\ MinRectangle.width =< leaf.width /\ leaf.width =< MaxRectangle.width
  /\ MinRectangle.height =< leaf.height /\ leaf.height =< MaxRectangle.height

Distance(m, n) == IF m < n THEN n - m ELSE m - n

\* How far the rectangles' shares of the area are from their shares of the
\* importance, on average, on top of the start value of the accumulator.
CalculateLayoutCost(layout, start) ==
  LET leaves == UNION {layout[n].leaves : n \in DOMAIN layout}
      area == LayoutWidth * SumFunction([n \in DOMAIN layout |-> layout[n].height])
      weight == SumFunction([leaf \in leaves |-> Importance[leaf.label]])
      off == [leaf \in leaves |-> Distance(leaf.width * leaf.height * weight,
                                          Importance[leaf.label] * area)]
  IN  IF \A leaf \in leaves : Allowed(leaf)
      THEN <<start * area * weight + SumFunction(off),
             area * weight * Cardinality(leaves)>>
      ELSE <<1, 1>>

\* cost > limit
Exceeds(cost, limit) == cost[1] * limit[2] > limit[1] * cost[2]
\* The cost of the groups at the chosen positions.
CostOf(chosen, start) ==
  CalculateLayoutCost([n \in DOMAIN chosen |-> groups[chosen[n]]], start)
-----------------------------------------------------------------------------
Init ==
  /\ groups \in GroupLists
  /\ pc = "try"
  /\ it_stack = <<1>>
  /\ layout_groups = <<>> /\ layout_labels = {} /\ layout_size = 0
  /\ layouts = <<>>

Top == it_stack[Len(it_stack)]

\* Mutant: only the group pushed last is looked at.
IsDisjointFromLast(p) ==
  layout_groups # <<>> =>
    LabelsAt(layout_groups[Len(layout_groups)]) \cap LabelsAt(p) = {}

IsDisjoint(p) ==
  \A n \in DOMAIN layout_groups : LabelsAt(layout_groups[n]) \cap LabelsAt(p) = {}

\* Mutant: no room is left for a smallest group.
FitsLoosely(p) ==
  LET size == layout_size + Cardinality(LabelsAt(p))
  IN  size = final_size \/ size < final_size - min_group_size

\* The group completes the layout, or leaves room for another one.
Fits(p) ==
  LET size == layout_size + Cardinality(LabelsAt(p))
  IN  size = final_size \/ size =< final_size - min_group_size

CanPush == pc = "try" /\ Fits(Top) /\ IsDisjoint(Top)

Refuse ==
  /\ pc = "try" /\ ~(Fits(Top) /\ IsDisjoint(Top))
  /\ pc' = "advance"
  /\ UNCHANGED <<it_stack, layout_groups, layout_labels, layout_size, layouts>>

\* Push followed by Pop.
PushedAndPopped == (layout_labels \cup LabelsAt(Top)) \ LabelsAt(Top)

TooCostly ==
  /\ CanPush
  /\ \E start \in Uninitialized :
       Exceeds(CostOf(Append(layout_groups, Top), start), MinCost)
  /\ layout_labels' = PushedAndPopped
  /\ pc' = "advance"
  /\ UNCHANGED <<it_stack, layout_groups, layout_size, layouts>>

\* Mutant: the comparison is the wrong way round.
InsertsBefore(n, cost) ==
  /\ \A m \in 1 .. n : ~Exceeds(cost, layouts[m].cost)
  /\ n < Len(layouts) => Exceeds(cost, layouts[n + 1].cost)

\* n layouts do not cost more, the next one does.
InsertsAfter(n, cost) ==
  /\ \A m \in 1 .. n : ~Exceeds(layouts[m].cost, cost)
  /\ n < Len(layouts) => Exceeds(layouts[n + 1].cost, cost)

\* The layout is complete: record it and go on from the next seed.
Complete ==
  /\ CanPush
  /\ Cardinality(layout_labels \cup LabelsAt(Top)) = final_size
  /\ \E start \in Uninitialized :
       LET cost == CostOf(Append(layout_groups, Top), start)
       IN  /\ ~Exceeds(cost, MinCost)
           /\ \E n \in 0 .. Len(layouts) :
                /\ InsertsAfter(n, cost)
                /\ layouts' = SubSeq(layouts, 1, n)
                     \o <<[groups |-> Append(layout_groups, Top), cost |-> cost]>>
                     \o SubSeq(layouts, n + 1, Len(layouts))
  /\ layout_groups' = <<>> /\ layout_labels' = {} /\ layout_size' = 0
  /\ it_stack' = <<it_stack[1]>>
  /\ pc' = "advance"

Acceptable ==
  /\ CanPush
  /\ Cardinality(layout_labels \cup LabelsAt(Top)) # final_size
  /\ \E start \in Uninitialized :
       ~Exceeds(CostOf(Append(layout_groups, Top), start), MinCost)

\* Keep the group and try the ones after it on top.
Descend ==
  /\ Acceptable /\ Top < Len(groups)
  /\ layout_groups' = Append(layout_groups, Top)
  /\ layout_labels' = layout_labels \cup LabelsAt(Top)
  /\ layout_size' = Cardinality(layout_labels')
  /\ it_stack' = Append(it_stack, Top + 1)
  /\ UNCHANGED <<pc, layouts>>

\* Mutant: the group is not popped.
LastGroupKept ==
  /\ Acceptable /\ Top = Len(groups)
  /\ layout_groups' = Append(layout_groups, Top)
  /\ layout_labels' = layout_labels \cup LabelsAt(Top)
  /\ layout_size' = Cardinality(layout_labels')
  /\ pc' = "advance"
  /\ UNCHANGED <<it_stack, layouts>>

\* There is none after it: Pop, and look at layout_size again.
LastGroup ==
  /\ Acceptable /\ Top = Len(groups)
  /\ layout_labels' = PushedAndPopped
  /\ layout_size' = Cardinality(layout_labels')
  /\ pc' = "advance"
  /\ UNCHANGED <<it_stack, layout_groups, layouts>>

Front(s) == SubSeq(s, 1, Len(s) - 1)

\* Mutant: the end of the groups is noticed one step late.
NextGroupPastEnd ==
  /\ pc = "advance" /\ it_stack # <<>> /\ Top =< Len(groups)
  /\ it_stack' = [it_stack EXCEPT ![Len(it_stack)] = Top + 1]
  /\ pc' = "try"
  /\ UNCHANGED <<layout_groups, layout_labels, layout_size, layouts>>

\* Mutant: the same group is tried again.
SameGroup ==
  /\ pc = "advance" /\ it_stack # <<>> /\ Top < Len(groups)
  /\ pc' = "try"
  /\ UNCHANGED <<it_stack, layout_groups, layout_labels, layout_size, layouts>>

\* The loop after the attempt: the next position, or one level up.
NextGroup ==
  /\ pc = "advance" /\ it_stack # <<>> /\ Top < Len(groups)
  /\ it_stack' = [it_stack EXCEPT ![Len(it_stack)] = Top + 1]
  /\ pc' = "try"
  /\ UNCHANGED <<layout_groups, layout_labels, layout_size, layouts>>

PopLevel ==
  /\ pc = "advance" /\ it_stack # <<>> /\ Top = Len(groups)
  /\ it_stack' = Front(it_stack)
  /\ IF layout_size > 0
     THEN /\ layout_groups' = Front(layout_groups)
          /\ layout_labels' = layout_labels \ LabelsAt(layout_groups[Len(layout_groups)])
          /\ layout_size' = Cardinality(layout_labels')
     ELSE UNCHANGED <<layout_groups, layout_labels, layout_size>>
  /\ UNCHANGED <<pc, layouts>>

\* The stack is empty: all but the cheapest layouts are dropped.
Return ==
  /\ pc = "advance" /\ it_stack = <<>>
  /\ layouts' = SubSeq(layouts, 1, IF Len(layouts) > MaxLayouts THEN MaxLayouts
                                                               ELSE Len(layouts))
  /\ pc' = "done"
  /\ UNCHANGED <<it_stack, layout_groups, layout_labels, layout_size>>

Step == \/ Refuse \/ TooCostly \/ Complete \/ Descend \/ LastGroup
        \/ NextGroup \/ PopLevel \/ Return

Next == Step /\ UNCHANGED groups

Spec == Init /\ [][Next]_vars /\ WF_vars(Next)
-----------------------------------------------------------------------------
(* Properties *)

\* The types of the variables.
TypeOK ==
  /\ pc \in {"try", "advance", "done"}
  /\ it_stack \in Seq(Position)
  /\ layout_groups \in Seq(Position)
  /\ layout_labels \subseteq Label
  /\ layout_size \in 0 .. final_size
  /\ \A n \in DOMAIN layouts : layouts[n].groups \in Seq(Position)

PairwiseDisjoint(chosen) ==
  \A m, n \in DOMAIN chosen : m # n => LabelsAt(chosen[m]) \cap LabelsAt(chosen[n]) = {}

AllLabels(chosen) == UNION {LabelsAt(chosen[n]) : n \in DOMAIN chosen}

\* The builder holds the groups at the lower levels of the stack, in ascending
\* order, with their labels, and layout_size is their number: a pop of the
\* stack that forgets to pop the builder, or pops it once too often (which
\* LayoutBuilder::Pop asserts never happens), would break it.
BuilderMatchesStack ==
  /\ Len(it_stack) = IF it_stack = <<>> THEN Len(layout_groups)
                                         ELSE Len(layout_groups) + 1
  /\ \A n \in DOMAIN layout_groups : layout_groups[n] = it_stack[n]
  /\ \A m, n \in DOMAIN it_stack : m < n => it_stack[m] < it_stack[n]
  /\ layout_labels = AllLabels(layout_groups)
  /\ layout_size = Cardinality(layout_labels)

\* Every layout found has each rectangle of the page exactly once.
LayoutsArePartitions ==
  \A n \in DOMAIN layouts : /\ PairwiseDisjoint(layouts[n].groups)
                            /\ AllLabels(layouts[n].groups) = Label

\* The layouts are kept from the cheapest to the costliest, so that those
\* cut off at the end are the costliest.
CheapestFirst ==
  \A m, n \in DOMAIN layouts : m < n => ~Exceeds(layouts[m].cost, layouts[n].cost)

-----------------------------------------------------------------------------
(* The search against an enumeration of all layouts *)

SearchOver == pc = "advance" /\ it_stack = <<>>

\* The layouts there are: ascending positions whose groups make up the page.
AllLayouts ==
  LET Ascending(n) == {c \in [1 .. n -> Position] :
                         \A m \in 1 .. n - 1 : c[m] < c[m + 1]}
  IN  {c \in UNION {Ascending(n) : n \in 1 .. final_size} :
         PairwiseDisjoint(c) /\ AllLabels(c) = Label}

\* No group on the way costs too much, if the accumulator starts from start.
Affordable(chosen, start) ==
  \A n \in DOMAIN chosen :
    ~Exceeds(CostOf(SubSeq(chosen, 1, n), start), MinCost)

Precedes(c, d) ==
  \E n \in DOMAIN c : /\ n \in DOMAIN d /\ c[n] < d[n]
                      /\ \A m \in 1 .. n - 1 : c[m] = d[m]

\* Each group leads at most one layout, the first in the order of positions
\* that can be reached within the cost; it leads one if there is one.  Not
\* trying a group that leaves too little room loses none.  (Where the result
\* depends on the accumulator: no layout that is affordable for all of its
\* start values is passed over.)
FirstOfEachSeed ==
  SearchOver => \A seed \in Position :
    LET found   == {n \in DOMAIN layouts : layouts[n].groups[1] = seed}
        led     == {c \in AllLayouts : c[1] = seed}
        certain == {c \in led : \A start \in Uninitialized : Affordable(c, start)}
    IN  /\ \A m, n \in found : m = n
        /\ certain # {} => found # {}
        /\ \A n \in found :
             /\ layouts[n].groups \in led
             /\ \A c \in certain : layouts[n].groups = c \/ Precedes(layouts[n].groups, c)

\* "Finally we can do a cost assessment based on the items in the various
\* groups" (hambidge_tree_utils.h:1258): the cost a layout is kept with is
\* that of its rectangles, from an accumulator of zero.
CostIsOfItems ==
  \A n \in DOMAIN layouts : layouts[n].cost = CostOf(layouts[n].groups, 0)

\* BuildLayout returns.
Termination == <>(pc = "done")
=============================================================================
