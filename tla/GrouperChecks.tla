--------------------------- MODULE GrouperChecks ---------------------------
(***************************************************************************)
(* The trees that a search from the whole rectangle down would find.       *)
(***************************************************************************)
EXTENDS GrouperRefinement, GrouperDrawing

BigEnough(tree) ==
  LET root == RootBox(tree)
  IN  \A leaf \in Leaves(tree) :
        /\ AtMost(min_wscale, Over(Width(leaf.box), Width(root)))
        /\ AtMost(min_hscale, Over(Height(leaf.box), Height(root)))
-----------------------------------------------------------------------------
(* The search from the top down *)

Sum(counts) == FoldFunction(LAMBDA a, b : a + b, 0, counts)

\* All trees over counts[l] rectangles of each label l.
RECURSIVE AllTrees(_)
AllTrees(counts) ==
  IF Sum(counts) = 1
  THEN {[ratio_index |-> labels[l].ratio_index, split_type |-> kSplitTypeNone] :
          l \in {m \in DOMAIN labels : counts[m] = 1}}
  ELSE LET parts == {part \in [DOMAIN counts -> 0 .. Sum(counts)] :
                       /\ \A l \in DOMAIN counts : part[l] =< counts[l]
                       /\ Sum(part) \in 1 .. Sum(counts) - 1}
           Rest(part) == [l \in DOMAIN counts |-> counts[l] - part[l]]
       IN  UNION {UNION {{[ratio_index |-> c.index, split_type |-> c.split_type,
                           left |-> a, right |-> b] : c \in joins[<<a.ratio_index, b.ratio_index>>]}
                         : a \in AllTrees(part), b \in AllTrees(Rest(part))}
                  : part \in parts}

\* What Equals looks at, read off the drawing.
Signature(tree) ==
  LET leaves == Leaves(tree)
      Kind(leaf) == <<leaf.node.ratio_index, Height(leaf.box)>>
  IN  <<tree.ratio_index,
        [x \in {Kind(leaf) : leaf \in leaves} |->
           Cardinality({leaf \in leaves : Kind(leaf) = x})]>>

\* For a group of two or more, Group() returns one tree for each signature of
\* a tree that can be drawn with no rectangle below the minimums of the whole:
\* what it drops on its way up would have been too small, or is represented.
FindsEveryTree ==
  (SearchOver /\ Len(indexes) > 1) =>
    LET all == AllTrees([l \in DOMAIN labels |-> Len(labels[l].indexes)])
    IN  {Signature(tree) : tree \in Range(complete_trees)} =
          {Signature(tree) : tree \in {t \in all : BigEnough(t)}}
=============================================================================
