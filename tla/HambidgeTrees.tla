--------------------------- MODULE HambidgeTrees ---------------------------
(***************************************************************************)
(* HambidgeTreeUtils::getMatchingTree with buildAll and splitTree          *)
(* (GoldenSite/hambidge_tree_utils.h), on HambidgeTree and                 *)
(* HambidgeTreeNode (hambidge_tree.cpp, hambidge_tree_node.cpp): all trees *)
(* of splits of a rectangle, level by level, of which the one is kept      *)
(* whose leaves match the given rectangles best.                           *)
(*                                                                         *)
(* A node is known by the way to it from the root, a tree by the splits of *)
(* its inner nodes; trees are objects, made, cloned and deleted.  Lengths  *)
(* are whole numbers of which the height of a root has scale, enough to be *)
(* exact; fractions are pairs.                                             *)
(* hungarian_solve is taken for what module Hungarian shows of it.         *)
(***************************************************************************)
EXTENDS Ratios

CONSTANTS
  scale,
  Problems,    \* root's ratio, rectangles, constraints
  Cost(_, _)   \* of a rectangle and the importance and ratio of a leaf

ASSUME TreesAssumption ==
  /\ scale \in Nat /\ \A i \in RatioIndex : ratios[i][2] = 0
  /\ \A task \in Problems : task.ratio_index \in RatioIndex

VARIABLES
  problem,
  shapes,          \* the ratio of an index, as a fraction
  complements,     \* the splits of an index
  pc,              \* "build", "match", "done", and the ends that are
                   \* none: "aborted", "undefined"
  heap,            \* tree object -> tree
  made,            \* how many objects have been made
  base_trees, trees,
  level,           \* leaves of the base trees
  it,              \* the tree looked at
  leaves,          \* its leaves, while it is split
  leaf_at, split_at,
  minimum_cost, minimum_cost_index

vars == <<problem, shapes, complements, pc, heap, made, base_trees, trees, level, it, leaves, leaf_at, split_at,
          minimum_cost, minimum_cost_index>>

constraints == problem.constraints
rectangles == problem.rectangles
rectangle_count == Len(rectangles)
INT_MAX == 1000000   \* above any cost

tables == <<shapes, complements>>

Init ==
  /\ problem \in Problems
  /\ shapes = [n \in RatioIndex |-> <<ratios[n][1], ratios[n][3]>>]
  /\ complements = [n \in RatioIndex |-> ComplementsOf(n)]
  /\ pc = "build"
  /\ heap = 1 :> << >> /\ made = 1
  /\ base_trees = <<1>> /\ trees = <<>>
  /\ level = 1 /\ it = 1 /\ leaves = <<>> /\ leaf_at = 1 /\ split_at = 1
  /\ minimum_cost = INT_MAX /\ minimum_cost_index = 1
-----------------------------------------------------------------------------
(* Nodes *)

\* A length times a ratio, or its inverse.
TimesRatio(length, index) == (length * shapes[index][1]) \div shapes[index][2]
OverRatio(length, index)  == (length * shapes[index][2]) \div shapes[index][1]

Root ==
  [path |-> <<>>, ratio_index |-> problem.ratio_index, x |-> 0, y |-> 0,
   width |-> TimesRatio(scale, problem.ratio_index), height |-> scale]

Index(split, side) == IF side = "left" THEN split.left_index ELSE split.right_index

\* getWidth and getHeight of a part, from those of its parent.
WidthOf(node, index)  == OverRatio(TimesRatio(node.width, index), node.ratio_index)
HeightOf(node, index) == OverRatio(TimesRatio(node.height, node.ratio_index), index)

\* Mutant: the right part starts where its parent does.
ParentX(node, split) == node.x

\* getX of the right one of two parts beside each other.
RightX(node, split) == node.x + WidthOf(node, split.left_index)

Child(node, split, side) ==
  LET index == Index(split, side)
      part  == [node EXCEPT !.path = Append(@, side), !.ratio_index = index]
  IN  IF split.type = kSplitTypeVertical
      THEN [part EXCEPT !.width = WidthOf(node, index),
                        !.x = IF side = "left" THEN @ ELSE RightX(node, split)]
      ELSE [part EXCEPT !.height = HeightOf(node, index),
                        !.y = IF side = "left" THEN @ ELSE @ + HeightOf(node, split.left_index)]
Parts(node, split) == {Child(node, split, side) : side \in {"left", "right"}}

NodeAt(tree, path) ==
  FoldLeft(LAMBDA node, side : Child(node, tree[node.path], side), Root, path)

IsLeaf(tree, path) == path \notin DOMAIN tree

Paths(tree) == {<<>>} \cup {Append(path, side) : path \in DOMAIN tree, side \in {"left", "right"}}

\* HambidgeTreeNode::getLeaves: those on the left first.
LeftOf(a, b) ==
  \E n \in DOMAIN a \cap DOMAIN b :
    a[n] = "left" /\ b[n] = "right" /\ SubSeq(a, 1, n - 1) = SubSeq(b, 1, n - 1)
LeafPaths(tree) == SetToSortSeq({path \in Paths(tree) : IsLeaf(tree, path)}, LeftOf)
Leaves(tree) == LET paths == LeafPaths(tree) IN [n \in DOMAIN paths |-> NodeAt(tree, paths[n])]

Area(node) == node.width * node.height
-----------------------------------------------------------------------------
(* Splitting *)

\* IsSplittable without the recursion: neither part is too small.
PartsFit(node, split) ==
  \A part \in Parts(node, split) :
    IF split.type = kSplitTypeVertical
    THEN /\ constraints.min_width =< part.width
         /\ constraints.min_column_ratio[1] * part.height =< constraints.min_column_ratio[2] * part.width
    ELSE /\ constraints.min_height =< part.height
         /\ constraints.min_row_ratio[1] * part.width =< constraints.min_row_ratio[2] * part.height

\* What may be a leaf, or can be split again.
Useful(part) ==
  \/ part.ratio_index \in constraints.leaf_ratios
  \/ \E again \in Range(complements[part.ratio_index]) : PartsFit(part, again)

IsSplittable(node, split) ==
  PartsFit(node, split) /\ \A part \in Parts(node, split) : Useful(part)

\* Mutant: one level too many.
SplittingOnceMore == pc = "build" /\ level =< rectangle_count

Splitting == pc = "build" /\ level < rectangle_count
InLevel == Splitting /\ it =< Len(base_trees)
BaseTree == heap[base_trees[it]]
InTree == InLevel /\ leaves # <<>>
TheLeaf == leaves[leaf_at]
Splits == complements[TheLeaf.ratio_index]

StartTree ==
  /\ InLevel /\ ~InTree
  /\ leaves' = Leaves(BaseTree) /\ leaf_at' = 1 /\ split_at' = 1
  /\ UNCHANGED <<problem, tables, pc, heap, made, base_trees, trees, level, it, minimum_cost,
                 minimum_cost_index>>

\* The leaf of the clone has the number of that of the tree.
TrySplit ==
  /\ InTree /\ leaf_at =< Len(leaves) /\ split_at =< Len(Splits)
  /\ IF IsSplittable(TheLeaf, Splits[split_at])
     THEN /\ made' = made + 1
          /\ heap' = heap @@ (made + 1 :> (BaseTree @@ (TheLeaf.path :> Splits[split_at])))
          /\ trees' = Append(trees, made + 1)
     ELSE UNCHANGED <<made, heap, trees>>
  /\ split_at' = split_at + 1
  /\ UNCHANGED <<problem, tables, pc, base_trees, level, it, leaves, leaf_at, minimum_cost,
                 minimum_cost_index>>

NextLeaf ==
  /\ InTree /\ leaf_at =< Len(leaves) /\ split_at > Len(Splits)
  /\ leaf_at' = leaf_at + 1 /\ split_at' = 1
  /\ UNCHANGED <<problem, tables, pc, heap, made, base_trees, trees, level, it, leaves, minimum_cost,
                 minimum_cost_index>>

Deleted(ids) == [id \in DOMAIN heap \ ids |-> heap[id]]

TreeSplit ==
  /\ InTree /\ leaf_at > Len(leaves)
  /\ heap' = Deleted({base_trees[it]})
  /\ it' = it + 1 /\ leaves' = <<>>
  /\ UNCHANGED <<problem, tables, pc, made, base_trees, trees, level, leaf_at, split_at, minimum_cost,
                 minimum_cost_index>>

\* base_trees is cleared and changes places with trees.
NextLevel ==
  /\ Splitting /\ ~InLevel
  /\ base_trees' = trees /\ trees' = <<>>
  /\ level' = level + 1 /\ it' = 1
  /\ UNCHANGED <<problem, tables, pc, heap, made, leaves, leaf_at, split_at, minimum_cost,
                 minimum_cost_index>>

AllBuilt ==
  /\ pc = "build" /\ ~Splitting
  /\ pc' = "match"
  /\ it' = 1
  /\ UNCHANGED <<problem, tables, heap, made, base_trees, trees, level, leaves, leaf_at, split_at,
                 minimum_cost, minimum_cost_index>>
-----------------------------------------------------------------------------
(* Matching *)

\* The least cost of an assignment of the rectangles to the leaves: what
\* hungarian_solve returns of the cost matrix.
MatchCost(tree) ==
  LET nodes == Leaves(tree)
      maximum_area == Max({Area(nodes[n]) : n \in DOMAIN nodes})
      cost_matrix == [n \in DOMAIN nodes |-> [m \in DOMAIN rectangles |->
        Cost(rectangles[m], [importance |-> <<Area(nodes[n]), maximum_area>>,
                             ratio |-> <<nodes[n].width, nodes[n].height>>])]]
      Total(assignment) ==
        FoldLeftDomain(LAMBDA sum, n : sum + cost_matrix[n][assignment[n]], 0, assignment)
  IN  Min({Total(assignment) : assignment \in
             {f \in [DOMAIN nodes -> DOMAIN rectangles] : IsInjective(f)}})

\* Mutant: compared the other way around.
Dearer(cost) == cost > minimum_cost

Cheaper(cost) == cost < minimum_cost

MatchTree ==
  /\ pc = "match" /\ it =< Len(base_trees)
  /\ LET tree == heap[base_trees[it]] IN
     IF Len(LeafPaths(tree)) # rectangle_count
     THEN pc' = "aborted" /\ UNCHANGED <<it, minimum_cost, minimum_cost_index>>
     ELSE /\ IF Cheaper(MatchCost(tree))
             THEN minimum_cost' = MatchCost(tree) /\ minimum_cost_index' = it
             ELSE UNCHANGED <<minimum_cost, minimum_cost_index>>
          /\ it' = it + 1
          /\ UNCHANGED pc
  /\ UNCHANGED <<problem, tables, heap, made, base_trees, trees, level, leaves, leaf_at, split_at>>

\* The trees to delete.
Others == Range(base_trees) \ {base_trees[minimum_cost_index]}

\* (*trees)[0] is returned even when there is none.
KeepMatch ==
  /\ pc = "match" /\ it > Len(base_trees)
  /\ IF base_trees = <<>> THEN pc' = "undefined" /\ UNCHANGED heap
     ELSE pc' = "done" /\ heap' = Deleted(Others)
  /\ UNCHANGED <<problem, tables, made, base_trees, trees, level, it, leaves, leaf_at, split_at,
                 minimum_cost, minimum_cost_index>>

Next == \/ StartTree \/ TrySplit \/ NextLeaf \/ TreeSplit \/ NextLevel \/ AllBuilt
        \/ MatchTree \/ KeepMatch

Returned == pc \in {"done", "aborted", "undefined"} /\ UNCHANGED vars

Spec == Init /\ [][Next \/ Returned]_vars
-----------------------------------------------------------------------------
(* Properties *)

Apart(a, b) == \/ a.x + a.width =< b.x \/ b.x + b.width =< a.x
               \/ a.y + a.height =< b.y \/ b.y + b.height =< a.y

\* The leaves of every tree that is made fill the rectangle of its root, with
\* no two on each other, and have the shapes their ratios stand for: positions
\* and sizes that are found from the parents (node, 97-188) fit together.
LeavesTileTheRoot ==
  pc = "build" /\ trees # <<>> =>
    LET nodes == Leaves(heap[trees[Len(trees)]])
        Inside(node) == /\ node.x >= 0 /\ node.x + node.width =< Root.width
                        /\ node.y >= 0 /\ node.y + node.height =< Root.height
    IN  /\ FoldLeft(LAMBDA sum, node : sum + Area(node), 0, nodes) = Area(Root)
        /\ \A n \in DOMAIN nodes :
             Inside(nodes[n]) /\ nodes[n].width = TimesRatio(nodes[n].height, nodes[n].ratio_index)
        /\ \A n, m \in DOMAIN nodes : n < m => Apart(nodes[n], nodes[m])

\* The trees with a number of inner nodes that are made of allowed splits.
AllTrees(count) ==
  LET Sides(n) == UNION {[1 .. k -> {"left", "right"}] : k \in 0 .. n}
      Closed(inner) == \A path \in inner : path = <<>> \/ Front(path) \in inner
      AllSplits == UNION {Range(complements[n]) : n \in RatioIndex}
      Allowed(tree) == \A path \in DOMAIN tree :
        LET node == NodeAt(tree, path)
        IN  tree[path] \in Range(complements[node.ratio_index]) /\ IsSplittable(node, tree[path])
  IN  UNION {{tree \in [inner -> AllSplits] : Allowed(tree)} :
               inner \in {paths \in kSubset(count, Sides(count - 1)) : Closed(paths)}}

\* In how many orders the splits of a tree can be made, parents first: all
\* orders of all nodes, by the sizes of the subtrees.
Orders(tree) ==
  LET Below(path) == Cardinality({other \in DOMAIN tree : IsPrefix(path, other)})
      Product(numbers) == FoldLeft(LAMBDA product, n : product * n, 1, numbers)
      paths == SetToSeq(DOMAIN tree)
  IN  Product([n \in DOMAIN paths |-> n]) \div Product([n \in DOMAIN paths |-> Below(paths[n])])

\* buildAll makes every tree there is with as many leaves as rectangles, and
\* each as often as there are orders of its splits: trees are not compared with
\* those before them, whose comparison is commented out (1682-1692).
EveryTreeInEveryOrder ==
  pc = "match" /\ it = 1 /\ rectangle_count > 0 =>
    LET all == AllTrees(rectangle_count - 1)
        Copies(tree) == Cardinality({n \in DOMAIN base_trees : heap[base_trees[n]] = tree})
    IN  /\ {heap[id] : id \in Range(base_trees)} = all
        /\ \A tree \in all : Copies(tree) = Orders(tree)

\* The tree that is returned matches the rectangles as well as any tree there is,
\* and of all trees that were made only it is not deleted; the call does not end
\* well when there is no tree, or no rectangle (1412, 1467).
OnlyTheCheapestIsLeft ==
  /\ pc = "done" =>
       \E match \in Range(base_trees) :
         /\ DOMAIN heap = {match}
         /\ \A tree \in AllTrees(rectangle_count - 1) : MatchCost(heap[match]) =< MatchCost(tree)
  /\ pc = "undefined" => AllTrees(rectangle_count - 1) = {}
  /\ pc = "aborted" => rectangle_count = 0
=============================================================================
