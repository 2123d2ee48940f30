--------------------------- MODULE GrouperDrawing ---------------------------
(***************************************************************************)
(* What the trees of Grouper mean: the rectangles that DimensionIterator   *)
(* (include/golden/dimension_iterator.h) draws for them.                   *)
(***************************************************************************)
EXTENDS Grouper

Box(left, top, right, bottom) ==
  [left |-> left, top |-> top, right |-> right, bottom |-> bottom]
Width(box)  == Minus(box.right, box.left)
Height(box) == Minus(box.bottom, box.top)

\* The two boxes DimensionIterator::Next pushes for the children of a node.
ChildBoxes(node, box) ==
  LET ratio == ratios[node.ratio_index]
      left  == ratios[node.left.ratio_index]
      y == Plus(box.top, Over(Times(Height(box), ratio), left))
      x == Plus(box.left, Over(Times(Width(box), left), ratio))
  IN  IF node.split_type = kSplitTypeHorizontal
      THEN <<Box(box.left, box.top, box.right, y), Box(box.left, y, box.right, box.bottom)>>
      ELSE <<Box(box.left, box.top, x, box.bottom), Box(x, box.top, box.right, box.bottom)>>

\* A turn of the iteration for each of the nodes drawn so far: leaves stay.
Opened(drawn) ==
  UNION {LET boxes == ChildBoxes(x.node, x.box)
         IN  IF x.node.split_type = kSplitTypeNone
             THEN {x}
             ELSE {[node |-> x.node.left, box |-> boxes[1]],
                   [node |-> x.node.right, box |-> boxes[2]]}
         : x \in drawn}

OpenedTimes(drawn, n) ==
  LET opened[m \in 0 .. n] == IF m = 0 THEN drawn ELSE Opened(opened[m - 1])
  IN  opened[n]

RootBox(tree) == Box(Whole(0), Whole(0), ratios[tree.ratio_index], Whole(1))

\* The leaves that the iteration visits, each with its box: no leaf is deeper in
\* a tree than there are rectangles.
Leaves(tree) == OpenedTimes({[node |-> tree, box |-> RootBox(tree)]}, Len(indexes))
-----------------------------------------------------------------------------
\* The scales a node was given by merging and scaling its children's are the
\* heights of its leaves as they are drawn, in ascending order.
ScalesAreLeafHeights ==
  SearchOver => \A n \in DOMAIN nodes :
    LET leaves == Leaves(LabelTree(nodes, n))
    IN  \A l \in DOMAIN labels :
          LET scales == nodes[n].label_scales[l]
              drawn == {leaf \in leaves : leaf.node.ratio_index = labels[l].ratio_index}
          IN  /\ \A m \in 1 .. Len(scales) - 1 : AtMost(scales[m], scales[m + 1])
              /\ Len(scales) = Cardinality(drawn)
              /\ \A h \in Range(scales) :
                   Cardinality({m \in DOMAIN scales : scales[m] = h}) =
                     Cardinality({leaf \in drawn : Height(leaf.box) = h})

Apart(a, b) ==
  \/ AtMost(a.right, b.left) \/ AtMost(b.right, a.left)
  \/ AtMost(a.bottom, b.top) \/ AtMost(b.bottom, a.top)

\* Drawn, a complete tree has every rectangle of the group once, in its own
\* ratio, inside the whole, and no two of them overlap.
CompleteTreesAreLayouts ==
  SearchOver => \A tree \in Range(complete_trees) :
    LET root == RootBox(tree)
        leaves == Leaves(tree)
    IN  /\ \A leaf \in leaves :
             /\ Over(Width(leaf.box), Height(leaf.box)) = ratios[leaf.node.ratio_index]
             /\ AtMost(root.left, leaf.box.left) /\ AtMost(leaf.box.right, root.right)
             /\ AtMost(root.top, leaf.box.top) /\ AtMost(leaf.box.bottom, root.bottom)
        /\ \A a, b \in leaves : a # b => Apart(a.box, b.box)
        /\ \A l \in DOMAIN labels :
             LET mine == {leaf \in leaves : leaf.node.ratio_index = labels[l].ratio_index}
             IN  /\ Cardinality(mine) = Len(labels[l].indexes)
                 /\ \A leaf \in mine : leaf.node.leaf_labels = labels[l].indexes
        /\ Cardinality(leaves) = Len(indexes)
=============================================================================
