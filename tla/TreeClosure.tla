----------------------------- MODULE TreeClosure ----------------------------
(***************************************************************************)
(* What Grouper::Group() promises, without its rounds, lookups and packed  *)
(* words: starting from single rectangles, join any two trees the geometry *)
(* lets be joined, and stop only when that gives nothing new.              *)
(*                                                                         *)
(* A tree is known by its ratio and by its leaves: how many it has of each *)
(* ratio and height, the height as a fraction of the tree's.               *)
(***************************************************************************)
EXTENDS GoldenNumbers, Sequences, FiniteSets, Bags, Functions, TLC

CONSTANTS
  ratios,               \* the ratio of each index
  joins,                \* for a pair of indices, the joins of rectangles so shaped
  RatioGroups,          \* the groups of rectangles to start from
  MinWidth, MinHeight   \* the least fractions of a joined tree

VARIABLES phase, group, known

closure_vars == <<phase, group, known>>

Tree(index, leaves) == [ratio_index |-> index, leaves |-> leaves]

SingleTree(index) == Tree(index, SetToBag({<<index, Whole(1)>>}))

\* The leaves of a tree whose height shrinks to a fraction of it.
Shrunk(leaves, factor) ==
  [leaf \in {<<x[1], Times(x[2], factor)>> : x \in DOMAIN leaves} |->
     leaves[<<leaf[1], Over(leaf[2], factor)>>]]

LeavesOfRatio(leaves, index) ==
  SumFunctionOnSet(leaves, {x \in DOMAIN leaves : x[1] = index})

\* No more rectangles of a ratio than the group has.
Fits(leaves) ==
  \A index \in DOMAIN ratios :
    LeavesOfRatio(leaves, index) =< Cardinality({n \in DOMAIN group : group[n] = index})

BigEnough(tree, type) ==
  \A leaf \in DOMAIN tree.leaves :
    IF type = "horizontal"
    THEN AtMost(MinHeight, leaf[2])
    ELSE AtMost(MinWidth, Over(Times(leaf[2], ratios[leaf[1]]), ratios[tree.ratio_index]))

Joined(a, b, complement) ==
  LET Factor(tree) == IF complement.split_type = "horizontal"
                      THEN Over(ratios[complement.index], ratios[tree.ratio_index])
                      ELSE Whole(1)
  IN  Tree(complement.index,
           Shrunk(a.leaves, Factor(a)) (+) Shrunk(b.leaves, Factor(b)))

\* Every tree that two known trees make.
Joinings(a, b) ==
  {Joined(a, b, complement) :
     complement \in {c \in joins[<<a.ratio_index, b.ratio_index>>] :
                       Fits(Joined(a, b, c).leaves)
                       /\ BigEnough(Joined(a, b, c), c.split_type)}}

Derivable == UNION {Joinings(a, b) : a \in known, b \in known}

ClosureInit ==
  /\ phase = "idle"
  /\ group = <<>>
  /\ known = {}

Begin ==
  /\ phase = "idle"
  /\ \E g \in RatioGroups : \E order \in Bijection(DOMAIN g, DOMAIN g) :
       group' = [n \in DOMAIN g |-> g[order[n]]]
  /\ known' = {SingleTree(group'[n]) : n \in DOMAIN group'}
  /\ phase' = "search"

Learn ==
  /\ phase = "search"
  /\ UNCHANGED <<phase, group>>
  /\ \E tree \in known' \ known : tree \in Derivable /\ known' = known \cup {tree}

Finish ==
  /\ phase = "search"
  /\ phase' = "over"
  /\ UNCHANGED <<group, known>>
  /\ Derivable \subseteq known

ClosureNext == Begin \/ Learn \/ Finish

ClosureSpec == ClosureInit /\ [][ClosureNext]_closure_vars
=============================================================================
