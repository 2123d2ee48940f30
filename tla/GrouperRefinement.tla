-------------------------- MODULE GrouperRefinement -------------------------
(***************************************************************************)
(* Group() implements TreeClosure: what its nodes stand for there.         *)
(***************************************************************************)
EXTENDS Grouper, Bags

joins == [pair \in RatioIndex \X RatioIndex |-> Joins(pair[1], pair[2])]

\* How often an element is in a sequence.
Copies(s, x) == Cardinality({m \in DOMAIN s : s[m] = x})

LabelOf(index) == CHOOSE l \in DOMAIN labels : labels[l].ratio_index = index

\* The leaves of a node: as many of a ratio and a height as the label of the
\* ratio has scales of the height.
LeafBag(label_scales) ==
  LET kinds == UNION {{<<labels[l].ratio_index, h>> : h \in Range(label_scales[l])}
                      : l \in DOMAIN labels}
  IN  [x \in kinds |-> Copies(label_scales[LabelOf(x[1])], x[2])]

TreeOf(node) == [ratio_index |-> node.ratio_index, leaves |-> LeafBag(node.label_scales)]

Phase == CASE pc \in {"construct", "call"} -> "idle"
           [] pc \in {"group", "delete"} -> "search"
           [] pc = "done" -> "over"

\* The group Group() is called for.
Called == IF pc \in {"construct", "call"} THEN <<>> ELSE indexes

KnownTrees == {TreeOf(nodes[n]) : n \in DOMAIN nodes}

Closure == INSTANCE TreeClosure WITH
  MinWidth  <- min_wscale,
  MinHeight <- min_hscale,
  phase <- Phase,
  group <- Called,
  known <- KnownTrees

\* Group() implements TreeClosure: it never makes a tree that could not be
\* joined, and stops only when it has them all.
ImplementsClosure == Closure!ClosureSpec
=============================================================================
