---------------------------- MODULE LabelGroups -----------------------------
(***************************************************************************)
(* LabelGroup and HambidgeTreeUtils::Group (GoldenSite/                    *)
(* hambidge_tree_utils.h): all the ways to join groups of rectangles to    *)
(* larger ones, by the map of complements, for as long as the joins are    *)
(* not too far from the importance of the rectangles.                      *)
(*                                                                         *)
(* A group is its ratio and the drawing of its rectangles in the unit      *)
(* square, box by label, which is what the tree of a LabelGroup is read    *)
(* for: the program draws it anew with LabelGroupDimensionIterator.        *)
(* Vectors are sequences: their positions start from 1; the loop variables *)
(* i, j and k of the code are base_at, other_at and made_at and start, as  *)
(* the labels do, from 0.                                                  *)
(***************************************************************************)
EXTENDS Ratios

CONSTANT ExpThreshold   \* new groups of a round that are too many, 20000

ASSUME ExpThresholdAssumption == ExpThreshold \in Nat

VARIABLES
  rectangles,           \* label -> ratio, importance
  complements_rmap,     \* what two ratios make, by the pair
  min_cost,             \* the greatest cost that is accepted
  joining,              \* Group() is running
  label_groups,         \* the groups known, those of the last round first
  label_groups_size,    \* how many are of the last round
  new_groups,           \* those of this round
  base_at, other_at, made_at,
  error

join_vars == <<rectangles, complements_rmap, min_cost, joining, label_groups,
               label_groups_size, new_groups, base_at, other_at, made_at, error>>

exp_ratio == Rational(7, 10)

\* Which is nearest to r of a set of indices; the smallest of the nearest, -1
\* if there is none.
FindClosestIn(r, subset) ==
  LET Off(n) == IF Less(r, ratios[n]) THEN Minus(ratios[n], r) ELSE Minus(r, ratios[n])
      nearest == {n \in subset : \A m \in subset : AtMost(Off(n), Off(m))}
  IN  IF subset = {} THEN -1 ELSE Min(nearest)

complements == [n \in RatioIndex |-> ComplementsOf(n)]

\* What two ratios make, by the pair in the order of the split.
BuildComplementsMap(table) ==
  LET Pair(split) == <<split.left_index, split.right_index>>
      Made(n, pair) == LET splits == table[n]
                       IN  FlattenSeq([m \in DOMAIN splits |->
                             IF Pair(splits[m]) = pair
                             THEN <<Complement(n, splits[m].type)>> ELSE <<>>])
  IN  [pair \in {Pair(split) : split \in UNION {Range(table[n]) : n \in RatioIndex}} |->
         FlattenSeq([n \in 1 .. RatioCount |-> Made(n - 1, pair)])]

\* Group() asserts it (1011-1014): one or two joins, to different ratios.
ASSUME ComplementsMapAssumption ==
  \A made \in Range(BuildComplementsMap(complements)) :
    /\ Len(made) \in {1, 2}
    /\ Len(made) = 2 => made[1].index # made[2].index
-----------------------------------------------------------------------------
(* LabelGroup *)

Box(left, top, right, bottom) ==
  [left |-> left, top |-> top, right |-> right, bottom |-> bottom]
Width(box)  == Minus(box.right, box.left)
Height(box) == Minus(box.bottom, box.top)
Area(box)   == Times(Width(box), Height(box))
UnitSquare  == Box(Whole(0), Whole(0), Whole(1), Whole(1))

Leaf(ratio_index, label) == [ratio_index |-> ratio_index, boxes |-> [l \in {label} |-> UnitSquare]]
Labels(group) == DOMAIN group.boxes
Size(group)   == Cardinality(Labels(group))

\* A box of the unit square once the square is drawn as whole.
Within(whole, box) ==
  LET x(r) == Plus(whole.left, Times(r, Width(whole)))
      y(r) == Plus(whole.top, Times(r, Height(whole)))
  IN  Box(x(box.left), y(box.top), x(box.right), y(box.bottom))

\* Mutant: the part of the second is given to the first.
JoinSwapped(index, type, lhs, rhs) ==
  LET share  == Over(ratios[rhs.ratio_index], ratios[index])
      first  == IF type = kSplitTypeHorizontal
                THEN Box(Whole(0), Whole(0), Whole(1), Reciprocal(share))
                ELSE Box(Whole(0), Whole(0), share, Whole(1))
      second == IF type = kSplitTypeHorizontal
                THEN Box(Whole(0), Reciprocal(share), Whole(1), Whole(1))
                ELSE Box(share, Whole(0), Whole(1), Whole(1))
  IN  [ratio_index |-> index,
       boxes |-> [l \in Labels(lhs) \cup Labels(rhs) |->
                    IF l \in Labels(lhs) THEN Within(first, lhs.boxes[l])
                                         ELSE Within(second, rhs.boxes[l])]]

\* Two groups joined to one of ratio index: the first above or to the left,
\* the second in what is left.
Join(index, type, lhs, rhs) ==
  LET share  == Over(ratios[lhs.ratio_index], ratios[index])
      first  == IF type = kSplitTypeHorizontal
                THEN Box(Whole(0), Whole(0), Whole(1), Reciprocal(share))
                ELSE Box(Whole(0), Whole(0), share, Whole(1))
      second == IF type = kSplitTypeHorizontal
                THEN Box(Whole(0), Reciprocal(share), Whole(1), Whole(1))
                ELSE Box(share, Whole(0), Whole(1), Whole(1))
  IN  [ratio_index |-> index,
       boxes |-> [l \in Labels(lhs) \cup Labels(rhs) |->
                    IF l \in Labels(lhs) THEN Within(first, lhs.boxes[l])
                                         ELSE Within(second, rhs.boxes[l])]]

\* CalculateGroupCost: how far the shares of the area are from the shares of
\* the importance, on average.
CalculateGroupCost(rects, group) ==
  LET weight == SumFunction([l \in Labels(group) |-> rects[l].importance])
      Off(l) == LET d == Minus(Area(group.boxes[l]),
                               Rational(rects[l].importance, weight))
                IN  IF Less(d, Whole(0)) THEN Minus(Whole(0), d) ELSE d
  IN  Times(FoldFunction(Plus, Whole(0), [l \in Labels(group) |-> Off(l)]),
            Rational(1, Size(group)))

IsDisjoint(lhs, rhs) == Labels(lhs) \cap Labels(rhs) = {}

\* The same rectangles in the same places, whatever their labels.
GroupsEqual(lhs, rhs) ==
  LET Corners(group) == {<<group.boxes[l].left, group.boxes[l].top>> : l \in Labels(group)}
  IN  /\ Size(lhs) = Size(rhs)
      /\ lhs.ratio_index = rhs.ratio_index
      /\ Corners(lhs) = Corners(rhs)
-----------------------------------------------------------------------------
(* Group() *)

\* The call: what it assigns before its loops.
StartGroup(groups, cost) ==
  /\ joining' = TRUE
  /\ min_cost' = cost
  /\ label_groups' = groups
  /\ label_groups_size' = Len(groups)
  /\ new_groups' = <<>> /\ base_at' = 0 /\ other_at' = 1 /\ made_at' = 0
  /\ error' = 0

BaseGroup  == label_groups[base_at + 1]
OtherGroup == label_groups[other_at + 1]

\* What the ratios make of the two, in this order or, if there is nothing, in
\* the other one.
MadeOf(base, other) ==
  LET there == <<base.ratio_index, other.ratio_index>>
      back  == <<other.ratio_index, base.ratio_index>>
  IN  CASE there \in DOMAIN complements_rmap -> complements_rmap[there]
        [] there \notin DOMAIN complements_rmap /\ back \in DOMAIN complements_rmap ->
             complements_rmap[back]
        [] OTHER -> <<>>

\* The n-th of the groups they make.
GroupOf(base, other, n) ==
  LET made == MadeOf(base, other)[n]
  IN  Join(made.index, made.split_type, base, other)

Affordable(group) == AtMost(CalculateGroupCost(rectangles, group), min_cost)

Fits(base, other) ==
  /\ Size(base) + Size(other) =< Cardinality(DOMAIN rectangles)
  /\ IsDisjoint(base, other)

InRound  == joining /\ base_at < label_groups_size
Joinable == /\ other_at < Len(label_groups)
            /\ Fits(BaseGroup, OtherGroup)
            /\ made_at < Len(MadeOf(BaseGroup, OtherGroup))
NewGroup == GroupOf(BaseGroup, OtherGroup, made_at + 1)

\* Mutant: the groups of the round are joined with each other only.
NextPairOfRound ==
  /\ made_at' = 0
  /\ IF other_at + 1 < label_groups_size
     THEN other_at' = other_at + 1 /\ base_at' = base_at
     ELSE base_at' = base_at + 1 /\ other_at' = base_at + 2

\* Mutant: the outer loop does not advance.
NextPairAgain ==
  /\ made_at' = 0
  /\ base_at' = base_at
  /\ other_at' = IF other_at + 1 < Len(label_groups) THEN other_at + 1 ELSE base_at + 1

NextPair ==
  /\ made_at' = 0
  /\ IF other_at + 1 < Len(label_groups)
     THEN other_at' = other_at + 1 /\ base_at' = base_at
     ELSE base_at' = base_at + 1 /\ other_at' = base_at + 2

NextMade ==
  IF made_at + 1 < Len(MadeOf(BaseGroup, OtherGroup))
  THEN made_at' = made_at + 1 /\ UNCHANGED <<base_at, other_at>>
  ELSE NextPair

\* The continues, an overlap, or nothing (more) that the ratios make.
SkipPair ==
  /\ InRound /\ ~Joinable
  /\ NextPair
  /\ UNCHANGED <<rectangles, complements_rmap, min_cost, joining, label_groups,
                 label_groups_size, new_groups, error>>

DropGroup ==
  /\ InRound /\ Joinable /\ ~Affordable(NewGroup)
  /\ NextMade
  /\ UNCHANGED <<rectangles, complements_rmap, min_cost, joining, label_groups,
                 label_groups_size, new_groups, error>>

KeepGroup ==
  /\ InRound /\ Joinable /\ Affordable(NewGroup)
  /\ new_groups' = Append(new_groups, NewGroup)
  /\ NextMade
  /\ UNCHANGED <<rectangles, complements_rmap, min_cost, joining, label_groups,
                 label_groups_size, error>>

\* A round that made too many groups, and most of all there are.
Exponential(made, all) ==
  /\ made > ExpThreshold
  /\ Less(exp_ratio, Rational(made, all))

\* The new groups go to the front; without any, or with too many, it is over.
EndRound ==
  /\ joining /\ ~InRound
  /\ label_groups' = new_groups \o label_groups
  /\ label_groups_size' = Len(new_groups)
  /\ new_groups' = <<>> /\ base_at' = 0 /\ other_at' = 1 /\ made_at' = 0
  /\ error' = IF Exponential(Len(new_groups), Len(label_groups')) THEN -1 ELSE 0
  /\ joining' = (error' = 0 /\ new_groups # <<>>)
  /\ UNCHANGED <<rectangles, complements_rmap, min_cost>>

GroupStep == SkipPair \/ DropGroup \/ KeepGroup \/ EndRound
=============================================================================
