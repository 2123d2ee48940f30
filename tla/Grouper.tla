------------------------------ MODULE Grouper ------------------------------
(***************************************************************************)
(* golden::Grouper (include/golden/grouper.h): all the ways to join a      *)
(* group of rectangles, given by their ratios, to one rectangle by         *)
(* horizontal and vertical splits.                                         *)
(*                                                                         *)
(* The constructor builds the reverse map of the complements and labels    *)
(* the rectangles: those of equal ratio share a label.  Group() then works *)
(* in rounds.  A round joins each tree of the round before with each tree  *)
(* known, in every way their ratios allow, and keeps what it has not seen  *)
(* yet.  A tree remembers how many rectangles of each label it holds and   *)
(* their heights as fractions of its own, sorted (its label scales); the   *)
(* program takes two trees that agree in those for the same.               *)
(*                                                                         *)
(* GroupNode objects live in nodes, a pointer is a position in it.         *)
(* Vectors of the program are sequences: their positions start from 1,     *)
(* the loop variables i, j and k and the rectangles from 0, as in the code.*)
(***************************************************************************)
EXTENDS ComplementMap

CONSTANTS
  RatioGroups,   \* the groups the constructor may be given
  HashSize       \* the number of hash values, 2^32 in the program

ASSUME RatioGroupsAssumption == RatioGroups \subseteq Seq(RatioIndex)
ASSUME HashSizeAssumption == HashSize \in Nat \ {0}

VARIABLES
  pc,                   \* "construct", "call", "group", "delete", "done"
  indexes,              \* the group, sorted
  labels,               \* one per distinct ratio: the ratio, its rectangles
  nodes,                \* every GroupNode kept so far
  trees, new_trees,     \* partial trees: of earlier rounds, of this one
  new_complete_trees,   \* trees that hold the whole group
  complete_trees,       \* the result, as LabelNode trees
  exists_lookup,        \* hash -> the nodes with that hash
  trees_size, new_trees_size, \* kept by hand: how many they are, and how many of them new
  i, j, k,
  deleted               \* the nodes deleted, in order

group_vars == <<indexes, labels, nodes, trees, new_trees, new_complete_trees,
                complete_trees, exists_lookup, trees_size, new_trees_size, i, j, k, deleted>>
vars == <<map_vars, pc, group_vars>>

min_wscale == Rational(19, 100)
min_hscale == Rational(2, 25)
-----------------------------------------------------------------------------
(* GroupNode *)

Leaf(labels_size, ratio_index, leaf_label) ==
  [ratio_index |-> ratio_index,
   split_type |-> kSplitTypeNone,
   left |-> 0, right |-> 0,
   all_labels_count |-> 1,
   label_counts |-> [l \in 1 .. labels_size |-> IF l = leaf_label THEN 1 ELSE 0],
   label_scales |-> [l \in 1 .. labels_size |->
                       IF l = leaf_label THEN <<Whole(1)>> ELSE <<>>]]

Scaled(scales, factor) == [n \in DOMAIN scales |-> Times(scales[n], factor)]

\* Mutant: the scales are put one after the other.
Concatenated(lefts, rights) == lefts \o rights

\* The merge loops of the constructor: a tie is taken from the right.
Merged(lefts, rights) ==
  LET rest[p \in (0 .. Len(lefts)) \X (0 .. Len(rights))] ==
        LET l == p[1] + 1  r == p[2] + 1
        IN  CASE l > Len(lefts)  -> SubSeq(rights, r, Len(rights))
              [] r > Len(rights) -> SubSeq(lefts, l, Len(lefts))
              [] OTHER -> IF Less(lefts[l], rights[r])
                          THEN <<lefts[l]>> \o rest[<<l, p[2]>>]
                          ELSE <<rights[r]>> \o rest[<<p[1], r>>]
  IN  rest[<<0, 0>>]

\* The node that joins the nodes base and other to one of ratio index.
Join(index, type, base, other) ==
  LET left  == nodes[base]
      right == nodes[other]
      Factor(node) == IF type = kSplitTypeHorizontal
                      THEN Over(ratios[index], ratios[node.ratio_index]) ELSE Whole(1)
  IN  [ratio_index |-> index,
       split_type |-> type,
       left |-> base, right |-> other,
       all_labels_count |-> left.all_labels_count + right.all_labels_count,
       label_counts |-> [l \in DOMAIN labels |->
                           left.label_counts[l] + right.label_counts[l]],
       label_scales |-> [l \in DOMAIN labels |->
                           Merged(Scaled(left.label_scales[l], Factor(left)),
                                  Scaled(right.label_scales[l], Factor(right)))]]

\* A 32-bit hash of the ratio, the counts and the scales rounded to millionths,
\* all weighed by where they are; here any number computed from them will do.
HashOf(ratio_index, label_counts, label_scales) ==
  LET Digest(scales) ==
        SumFunction([m \in DOMAIN scales |->
                       (2 * m + 1) * (scales[m][1] + 3 * scales[m][2] + 7 * scales[m][3])])
      Digests == [l \in DOMAIN label_counts |->
                    (2 * l + 1) * (label_counts[l] + 3 * Digest(label_scales[l]))]
  IN  (ratio_index + 5 * SumFunction(Digests)) % HashSize

GenerateHash(node) == HashOf(node.ratio_index, node.label_counts, node.label_scales)

Equals(lhs, rhs) ==
  /\ lhs.ratio_index = rhs.ratio_index
  /\ lhs.all_labels_count = rhs.all_labels_count
  /\ lhs.label_counts = rhs.label_counts
  /\ lhs.label_scales = rhs.label_scales
-----------------------------------------------------------------------------
(* The predicates of Group() on a pair of trees *)

\* Mutant: each tree is looked at by itself.
IsDisjointEach(lhs, rhs) ==
  \A l \in DOMAIN labels : /\ lhs.label_counts[l] =< Len(labels[l].indexes)
                           /\ rhs.label_counts[l] =< Len(labels[l].indexes)

IsDisjoint(lhs, rhs) ==
  \A l \in DOMAIN labels :
    lhs.label_counts[l] + rhs.label_counts[l] =< Len(labels[l].indexes)

\* Mutant: only the heights of stacked trees are looked at.
IsUnconstrainedStacked(index, type, base, other) ==
  type = kSplitTypeHorizontal =>
    \A node \in {base, other} : \A l \in DOMAIN labels :
      \A m \in DOMAIN node.label_scales[l] :
        AtMost(min_hscale, Times(node.label_scales[l][m],
                                 Over(ratios[index], ratios[node.ratio_index])))

\* Stacked, the trees shrink in height, side by side in width: no rectangle
\* may get below the minimum of the new tree's.
IsUnconstrained(index, type, base, other) ==
  \A node \in {base, other} : \A l \in DOMAIN labels : \A m \in DOMAIN node.label_scales[l] :
    LET scale == node.label_scales[l][m]
    IN  IF type = kSplitTypeHorizontal
        THEN AtMost(min_hscale,
                    Times(scale, Over(ratios[index], ratios[node.ratio_index])))
        ELSE AtMost(min_wscale,
                    Over(Times(scale, ratios[labels[l].ratio_index]), ratios[index]))

PairWord(base, other) ==
  FlatWord(HashRatioIndexesCompact(base.ratio_index, other.ratio_index))

\* The three early exits of the loop over pairs.
Joinable(base, other) ==
  /\ base.all_labels_count + other.all_labels_count =< Len(indexes)
  /\ PairWord(base, other) # {}
  /\ IsDisjoint(base, other)

\* ConvertToLabelNode: a leaf is given every rectangle of its ratio.
LabelTree(group, root) ==
  LET tree[n \in DOMAIN group] ==
        IF group[n].split_type = kSplitTypeNone
        THEN [ratio_index |-> group[n].ratio_index,
              split_type |-> kSplitTypeNone,
              leaf_labels |-> (CHOOSE l \in Range(labels) :
                                 l.ratio_index = group[n].ratio_index).indexes]
        ELSE [ratio_index |-> group[n].ratio_index,
              split_type |-> group[n].split_type,
              left |-> tree[group[n].left], right |-> tree[group[n].right]]
  IN  tree[root]
-----------------------------------------------------------------------------
Init ==
  /\ MapInit
  /\ pc = "construct"
  /\ indexes = <<>> /\ labels = <<>> /\ nodes = <<>>
  /\ trees = <<>> /\ new_trees = <<>> /\ new_complete_trees = <<>>
  /\ complete_trees = <<>> /\ exists_lookup = << >>
  /\ trees_size = 0 /\ new_trees_size = 0 /\ i = 0 /\ j = 0 /\ k = 0
  /\ deleted = <<>>

BuildMap ==
  /\ pc = "construct"
  /\ MapNext
  /\ UNCHANGED <<pc, group_vars>>

\* What std::sort makes of a group.
Sortings(group) ==
  LET orders == Bijection(DOMAIN group, DOMAIN group)
  IN  {s \in {[n \in DOMAIN group |-> group[order[n]]] : order \in orders} :
         \A m, n \in DOMAIN s : m < n => s[m] =< s[n]}

\* The numbers of a set in ascending order.
InOrder(S) ==
  [n \in 1 .. Cardinality(S) |-> CHOOSE x \in S : Cardinality({y \in S : y < x}) = n - 1]

\* The labels of a sorted group: its ratios in ascending order, each with its
\* rectangles.
LabelsOf(group) ==
  LET distinct == InOrder(Range(group))
  IN  [l \in DOMAIN distinct |->
         [ratio_index |-> distinct[l],
          indexes |-> InOrder({n \in 0 .. Len(group) - 1 : group[n + 1] = distinct[l]})]]

\* The rest of the constructor.  Its argument is chosen here, where the state
\* first depends on it.
LabelIndexes ==
  /\ pc = "construct" /\ Built
  /\ \E group \in RatioGroups : indexes' \in Sortings(group)
  /\ labels' = LabelsOf(indexes')
  /\ pc' = "call"
  /\ UNCHANGED <<map_vars, nodes, trees, new_trees, new_complete_trees,
                 complete_trees, exists_lookup, trees_size, new_trees_size, i, j, k, deleted>>

\* unordered_map::insert does nothing if the hash is already there.
LeafLookup(leaves) ==
  [hash \in {GenerateHash(leaves[l]) : l \in DOMAIN leaves} |->
     <<Min({l \in DOMAIN leaves : GenerateHash(leaves[l]) = hash})>>]

\* Group() up to its loops: a leaf for each label.
BuildLeaves ==
  /\ pc = "call"
  /\ nodes' = [l \in DOMAIN labels |->
                 Leaf(Len(labels), labels[l].ratio_index, l)]
  /\ trees' = [l \in DOMAIN labels |-> l]
  /\ exists_lookup' = LeafLookup(nodes')
  /\ trees_size' = Len(labels) /\ new_trees_size' = Len(labels)
  /\ pc' = IF Len(labels) = 0 THEN "delete" ELSE "group"
  /\ UNCHANGED <<map_vars, indexes, labels, new_trees, new_complete_trees,
                 complete_trees, i, j, k, deleted>>

\* The innermost loop of Group() is at complement k of the trees at i and j,
\* counted from the end of trees.
BaseId   == trees[trees_size - i]
OtherId  == trees[trees_size - j]
InRound  == pc = "group" /\ i < new_trees_size
Pairable == /\ Joinable(nodes[BaseId], nodes[OtherId])
            /\ k < SplitCount(PairWord(nodes[BaseId], nodes[OtherId]))
Current  == ComplementFlat(PairWord(nodes[BaseId], nodes[OtherId]), k)

NewNode == Join(IndexFlat(Current), SplitTypeFlat(Current), BaseId, OtherId)
Unconstrained == IsUnconstrained(IndexFlat(Current), SplitTypeFlat(Current),
                                 nodes[BaseId], nodes[OtherId])

\* The bucket InsertIfUnique looks in.
Bucket(hash) == IF hash \in DOMAIN exists_lookup THEN exists_lookup[hash] ELSE <<>>
\* Mutant: only the first node of the bucket is compared.
KnownFirst(node) ==
  Bucket(GenerateHash(node)) # <<>> /\ Equals(node, nodes[Bucket(GenerateHash(node))[1]])

Known(node) ==
  \E id \in Range(Bucket(GenerateHash(node))) : Equals(node, nodes[id])

\* Mutant: the inner loop ends one tree too early.
NextPairShort ==
  /\ k' = 0
  /\ IF j + 2 < trees_size THEN j' = j + 1 /\ i' = i
                           ELSE i' = i + 1 /\ j' = i + 1

\* Mutant: the outer loop does not advance.
NextPairAgain ==
  /\ k' = 0
  /\ j' = IF j + 1 < trees_size THEN j + 1 ELSE i
  /\ i' = i

NextPair ==
  /\ k' = 0
  /\ IF j + 1 < trees_size THEN j' = j + 1 /\ i' = i
                           ELSE i' = i + 1 /\ j' = i + 1

NextComplement ==
  IF k + 1 < SplitCount(PairWord(nodes[BaseId], nodes[OtherId]))
  THEN k' = k + 1 /\ UNCHANGED <<i, j>>
  ELSE NextPair

SkipPair ==
  /\ InRound /\ ~Pairable
  /\ NextPair
  /\ UNCHANGED <<map_vars, pc, indexes, labels, nodes, trees, new_trees,
                 new_complete_trees, complete_trees, exists_lookup,
                 trees_size, new_trees_size, deleted>>

\* The join is too small somewhere, or InsertIfUnique finds it and it is
\* deleted again.
DropJoin ==
  /\ InRound /\ Pairable
  /\ ~Unconstrained \/ Known(NewNode)
  /\ NextComplement
  /\ UNCHANGED <<map_vars, pc, indexes, labels, nodes, trees, new_trees,
                 new_complete_trees, complete_trees, exists_lookup,
                 trees_size, new_trees_size, deleted>>

KeepJoin ==
  /\ InRound /\ Pairable
  /\ Unconstrained /\ ~Known(NewNode)
  /\ LET node == NewNode
         id   == Len(nodes) + 1
         hash == GenerateHash(node)
     IN  /\ nodes' = Append(nodes, node)
         /\ exists_lookup' = [h \in DOMAIN exists_lookup \cup {hash} |->
                                IF h = hash THEN Append(Bucket(h), id) ELSE Bucket(h)]
         /\ IF node.all_labels_count = Len(indexes)
            THEN /\ complete_trees' = Append(complete_trees, LabelTree(nodes', id))
                 /\ new_complete_trees' = Append(new_complete_trees, id)
                 /\ UNCHANGED new_trees
            ELSE /\ new_trees' = Append(new_trees, id)
                 /\ UNCHANGED <<complete_trees, new_complete_trees>>
  /\ NextComplement
  /\ UNCHANGED <<map_vars, pc, indexes, labels, trees, trees_size, new_trees_size, deleted>>

\* Mutant: the trees of the round are not counted.
EndRoundUncounted ==
  /\ pc = "group" /\ i = new_trees_size
  /\ trees' = trees \o new_trees
  /\ new_trees_size' = Len(new_trees)
  /\ new_trees' = <<>>
  /\ i' = 0 /\ j' = 0 /\ k' = 0
  /\ pc' = IF new_trees = <<>> THEN "delete" ELSE "group"
  /\ UNCHANGED <<map_vars, indexes, labels, nodes, new_complete_trees,
                 complete_trees, exists_lookup, trees_size, deleted>>

\* Mutant: the trees of the round replace the ones before.
EndRoundForgetting ==
  /\ pc = "group" /\ i = new_trees_size
  /\ trees' = IF new_trees = <<>> THEN trees ELSE new_trees
  /\ new_trees_size' = Len(new_trees) /\ trees_size' = Len(trees')
  /\ new_trees' = <<>>
  /\ i' = 0 /\ j' = 0 /\ k' = 0
  /\ pc' = IF new_trees = <<>> THEN "delete" ELSE "group"
  /\ UNCHANGED <<map_vars, indexes, labels, nodes, new_complete_trees,
                 complete_trees, exists_lookup, deleted>>

EndRound ==
  /\ pc = "group" /\ i = new_trees_size
  /\ trees' = trees \o new_trees
  /\ new_trees_size' = Len(new_trees) /\ trees_size' = trees_size + Len(new_trees)
  /\ new_trees' = <<>>
  /\ i' = 0 /\ j' = 0 /\ k' = 0
  /\ pc' = IF new_trees = <<>> THEN "delete" ELSE "group"
  /\ UNCHANGED <<map_vars, indexes, labels, nodes, new_complete_trees,
                 complete_trees, exists_lookup, deleted>>

\* Mutant: the complete trees are left.
DeletePartialTrees ==
  /\ pc = "delete"
  /\ deleted' = trees
  /\ pc' = "done"
  /\ UNCHANGED <<map_vars, indexes, labels, nodes, trees, new_trees,
                 new_complete_trees, complete_trees, exists_lookup,
                 trees_size, new_trees_size, i, j, k>>

DeleteTrees ==
  /\ pc = "delete"
  /\ deleted' = trees \o new_complete_trees
  /\ pc' = "done"
  /\ UNCHANGED <<map_vars, indexes, labels, nodes, trees, new_trees,
                 new_complete_trees, complete_trees, exists_lookup,
                 trees_size, new_trees_size, i, j, k>>

Group == SkipPair \/ DropJoin \/ KeepJoin \/ EndRound

Returned == pc = "done" /\ UNCHANGED vars

Next == BuildMap \/ LabelIndexes \/ BuildLeaves \/ Group \/ DeleteTrees

\* Nothing but its own loops can hold up the program.  Next is enabled until
\* pc is "done" (the runs look for deadlocks), so this is WF_vars(Next).
Fairness == []<>(pc = "done") \/ []<><<Next>>_vars

Spec == Init /\ [][Next \/ Returned]_vars /\ Fairness
-----------------------------------------------------------------------------
(* Properties *)

IdSeq(s) == s \in Seq(DOMAIN nodes)

\* The types of the variables, that every pointer is to a node, and that the two
\* sizes kept by hand are those of trees and of its new part.
TypeOK ==
  /\ pc \in {"construct", "call", "group", "delete", "done"}
  /\ indexes \in Seq(RatioIndex)
  /\ \A n \in DOMAIN nodes : nodes[n].ratio_index \in RatioIndex
                            /\ nodes[n].left \in 0 .. n - 1
                            /\ nodes[n].right \in 0 .. n - 1
  /\ IdSeq(trees) /\ IdSeq(new_trees) /\ IdSeq(new_complete_trees)
  /\ \A hash \in DOMAIN exists_lookup :
       hash \in 0 .. HashSize - 1 /\ IdSeq(exists_lookup[hash])
  /\ trees_size = Len(trees) /\ new_trees_size \in 0 .. trees_size
  /\ i \in 0 .. new_trees_size /\ j \in Nat /\ k \in {0, 1}

\* No pair of trees sends the search past the end of the array, where no one
\* knows what it reads: the pairs of two trees of the greatest ratio would.
InArray ==
  \A m, n \in DOMAIN nodes :
    nodes[m].all_labels_count + nodes[n].all_labels_count =< Len(indexes) =>
      InBounds(nodes[m].ratio_index, nodes[n].ratio_index)

SearchOver == pc \in {"delete", "done"}

\* Some node kept has the label counts and scales of the join.
Represented(index, type, base, other) ==
  \E n \in DOMAIN nodes : Equals(Join(index, type, base, other), nodes[n])

\* The n-th way to join the trees base and other gives nothing that is not known.
SettledBy(base, other, n) ==
  LET complement == Complements(PairWord(nodes[base], nodes[other]))[n]
  IN  IsUnconstrained(complement.index, complement.split_type,
                      nodes[base], nodes[other])
      => Represented(complement.index, complement.split_type, base, other)

Settled(base, other) ==
  Joinable(nodes[base], nodes[other]) =>
    \A n \in 1 .. SplitCount(PairWord(nodes[base], nodes[other])) :
      SettledBy(base, other, n)

\* Group() stops when no two partial trees give anything new: its rounds,
\* which never look at a pair again, skip none.
Saturated ==
  SearchOver => \A p \in DOMAIN trees : \A q \in 1 .. p : Settled(trees[p], trees[q])

\* No two nodes kept are the same to Equals, whatever their hashes.
NoEqualNodes ==
  \A m, n \in DOMAIN nodes : m < n => ~Equals(nodes[m], nodes[n])

\* Every node kept is deleted, and none twice.
DeletedOnce ==
  pc = "done" => IsInjective(deleted) /\ Range(deleted) = DOMAIN nodes

\* Group() returns.
Termination == <>(pc = "done")
=============================================================================
