----------------------------- MODULE BaseGroups -----------------------------
(***************************************************************************)
(* HambidgeTreeUtils::CreateBaseGroups and PermuteBaseGroups (GoldenSite/  *)
(* hambidge_tree_utils.h): a section of the page is given the ratios a     *)
(* leaf may have, all groups of its rectangles are made, and the best of   *)
(* those that hold the whole section are kept.  If there is none, one      *)
(* rectangle at a time is given another ratio, the nearest ones first.     *)
(***************************************************************************)
EXTENDS LabelGroups

CONSTANTS
  Sections,      \* the rectangles CreateBaseGroups may be called with
  LeafRatios,    \* constraints.leaf_ratios
  MinCost,       \* its argument min_cost
  BestSize       \* how many groups are kept, 20 in the program

\* Vectors of rectangles, one at least: the labels are their positions.  What
\* is of no importance has no share of it.
ASSUME SectionsAssumption ==
  \A rects \in Sections :
    LET n == Cardinality(DOMAIN rects)
    IN  /\ n \in Nat \ {0} /\ DOMAIN rects = 0 .. n - 1
        /\ \A l \in DOMAIN rects : /\ rects[l].ratio \in Numbers
                                   /\ rects[l].importance \in Nat \ {0}
ASSUME LeafRatiosAssumption == LeafRatios # {} /\ LeafRatios \subseteq RatioIndex
ASSUME BestSizeAssumption == BestSize \in Nat \ {0}

VARIABLES
  pc,                \* "coerce", "group", "rank", "done"
  ratio_indices,     \* label -> the ratio it is given
  leaf_ratios,       \* label -> the ratios it has not had
  min_dif_index,     \* the rectangle whose ratio was changed last
  ranked,            \* how many of label_groups PermuteBaseGroups has looked at
  best,              \* the groups kept, with their costs
  tried              \* the values of ratio_indices so far, for the properties

base_vars == <<pc, ratio_indices, leaf_ratios, min_dif_index, ranked, best, tried>>
vars == <<join_vars, base_vars>>

Label == DOMAIN rectangles

Init ==
  /\ rectangles \in Sections
  /\ complements_rmap = << >> /\ min_cost = MinCost
  /\ joining = FALSE /\ label_groups = <<>> /\ label_groups_size = 0
  /\ new_groups = <<>> /\ base_at = 0 /\ other_at = 1 /\ made_at = 0 /\ error = 0
  /\ pc = "coerce"
  /\ ratio_indices = << >> /\ leaf_ratios = << >> /\ min_dif_index = 0
  /\ ranked = 0 /\ best = <<>> /\ tried = <<>>

ClosestLeaf(l) == FindClosestIn(rectangles[l].ratio, LeafRatios)

\* PermuteBaseGroups up to the return of Group(), for the ratios given.
StartPermute(given) ==
  LET n == Cardinality(Label)
  IN  /\ StartGroup([m \in 1 .. n |-> Leaf(given[m - 1], m - 1)], min_cost)
      /\ ratio_indices' = given
      /\ tried' = Append(tried, given)
      /\ pc' = "group"
      /\ ranked' = 0 /\ best' = <<>>
      /\ UNCHANGED rectangles

Coerce ==
  /\ pc = "coerce"
  /\ complements_rmap' = BuildComplementsMap(complements)
  /\ StartPermute([l \in Label |-> ClosestLeaf(l)])
  /\ leaf_ratios' = [l \in Label |-> LeafRatios \ {ClosestLeaf(l)}]
  /\ UNCHANGED min_dif_index

MakeGroups ==
  /\ pc = "group" /\ joining
  /\ GroupStep
  /\ UNCHANGED base_vars

GroupsMade ==
  /\ pc = "group" /\ ~joining
  /\ pc' = "rank"
  /\ UNCHANGED <<join_vars, ratio_indices, leaf_ratios, min_dif_index, ranked, best, tried>>

Candidate == label_groups[ranked + 1]

\* The first entry the loop over the best groups stops at: one like the
\* candidate, which is dropped then, or one that costs more.
AtEntry(n, cost) ==
  \/ n = Len(best) + 1
  \/ n =< Len(best) /\ (GroupsEqual(Candidate, best[n].group) \/ Less(cost, best[n].cost))

Inserts(n) ==
  /\ n =< BestSize
  /\ n =< Len(best) => ~GroupsEqual(Candidate, best[n].group)

\* Mutant: the entries behind are not moved.
Overwritten(n, entry) ==
  SubSeq(best, 1, n - 1) \o <<entry>> \o SubSeq(best, n + 1, Len(best))

\* The entries behind move back by one; the last one falls out.
Inserted(n, entry) ==
  LET all == SubSeq(best, 1, n - 1) \o <<entry>> \o SubSeq(best, n, Len(best))
  IN  SubSeq(all, 1, Min({Len(all), BestSize}))

RankGroup ==
  /\ pc = "rank" /\ ranked < Len(label_groups)
  /\ ranked' = ranked + 1
  /\ best' = IF Size(Candidate) # Cardinality(Label) THEN best
             ELSE LET cost == CalculateGroupCost(rectangles, Candidate)
                      at == Min({n \in 1 .. Len(best) + 1 : AtEntry(n, cost)})
                  IN  IF Inserts(at)
                      THEN Inserted(at, [group |-> Candidate, cost |-> cost])
                      ELSE best
  /\ UNCHANGED <<join_vars, pc, ratio_indices, leaf_ratios, min_dif_index, tried>>

Ranked == pc = "rank" /\ ranked = Len(label_groups)

\* How far rectangle l would be from the ratio n.
Damage(l, n) ==
  LET d == Minus(ratios[n], rectangles[l].ratio)
  IN  IF Less(d, Whole(0)) THEN Minus(Whole(0), d) ELSE d

\* Mutant: the last change is not taken back.
NothingReset == ratio_indices

\* The last change is taken back.
Reset == [ratio_indices EXCEPT ![min_dif_index] = ClosestLeaf(min_dif_index)]

\* There is no group of the whole section: give another rectangle, or the same
\* one, the ratio not tried yet that does the least damage.
Substitute ==
  /\ Ranked /\ best = <<>>
  /\ \E l \in Label :
       LET Nearest(m) == FindClosestIn(rectangles[m].ratio, leaf_ratios[m])
           open == {m \in Label : leaf_ratios[m] # {}}
       IN  /\ l \in open
           /\ \A m \in open : /\ AtMost(Damage(l, Nearest(l)), Damage(m, Nearest(m)))
                              /\ m < l => Less(Damage(l, Nearest(l)), Damage(m, Nearest(m)))
           /\ StartPermute([Reset EXCEPT ![l] = Nearest(l)])
           /\ leaf_ratios' = [leaf_ratios EXCEPT ![l] = @ \ {Nearest(l)}]
           /\ min_dif_index' = l
           /\ UNCHANGED complements_rmap

Return ==
  /\ Ranked
  /\ best # <<>> \/ \A l \in Label : leaf_ratios[l] = {}
  /\ pc' = "done"
  /\ UNCHANGED <<join_vars, ratio_indices, leaf_ratios, min_dif_index, ranked, best, tried>>

Next == Coerce \/ MakeGroups \/ GroupsMade \/ RankGroup \/ Substitute \/ Return

Returned == pc = "done" /\ UNCHANGED vars

\* Nothing but its own loops can hold up the program.  Next is enabled until
\* pc is "done" (the run looks for deadlocks), so this is WF_vars(Next).
Fairness == []<>(pc = "done") \/ []<><<Next>>_vars

Spec == Init /\ [][Next \/ Returned]_vars /\ Fairness
-----------------------------------------------------------------------------
(* Properties *)

\* Group() has returned, and all it made is there.
Made == pc = "rank" /\ ranked = 0 /\ error = 0

\* When Group() returns, no two groups it knows make one that it lacks: its
\* rounds, which put new groups in front and look at no pair again, skip none.
JoinsSettled ==
  Made => \A p, q \in DOMAIN label_groups :
    (p < q /\ Fits(label_groups[p], label_groups[q])) =>
      \A n \in 1 .. Len(MadeOf(label_groups[p], label_groups[q])) :
        LET group == GroupOf(label_groups[p], label_groups[q], n)
        IN  Affordable(group) => group \in Range(label_groups)

\* "find all possible groups that could contain them" (808): whichever way two
\* groups fit together, above each other or side by side, there is a group of
\* the two if it does not cost too much.
FindsEveryJoin ==
  Made => \A g, h \in Range(label_groups) :
    Fits(g, h) => \A made \in Joins(g.ratio_index, h.ratio_index) :
      Affordable(Join(made.index, made.split_type, g, h)) =>
        \E group \in Range(label_groups) :
          /\ Labels(group) = Labels(g) \cup Labels(h)
          /\ group.ratio_index = made.index

Apart(a, b) ==
  \/ AtMost(a.right, b.left) \/ AtMost(b.right, a.left)
  \/ AtMost(a.bottom, b.top) \/ AtMost(b.bottom, a.top)

\* Drawn, a group is filled by its rectangles, each in the ratio it was given:
\* the map of complements, the order in which two groups were found in it and
\* the drawing agree.
GroupsAreFilled ==
  Made => \A group \in Range(label_groups) :
    LET boxes == group.boxes
    IN  /\ FoldFunction(Plus, Whole(0), [l \in Labels(group) |-> Area(boxes[l])]) = Whole(1)
        /\ \A l, m \in Labels(group) : l # m => Apart(boxes[l], boxes[m])
        /\ \A l \in Labels(group) :
             Times(Over(Width(boxes[l]), Height(boxes[l])), ratios[group.ratio_index])
               = ratios[ratio_indices[l]]

\* The groups kept are in ascending order of cost, and every group of the whole
\* section that is not drawn like one of them had to make room: it is drawn
\* like one that costs no less than any of those kept.
BestAreCheapest ==
  Ranked => LET whole == {n \in DOMAIN label_groups : Size(label_groups[n]) = Cardinality(Label)} IN
    /\ Len(best) =< BestSize
    /\ \A n \in 1 .. Len(best) - 1 : AtMost(best[n].cost, best[n + 1].cost)
    /\ \A n \in whole :
         \/ \E m \in DOMAIN best : GroupsEqual(label_groups[n], best[m].group)
         \/ /\ Len(best) = BestSize
            /\ \E m \in whole : /\ GroupsEqual(label_groups[n], label_groups[m])
                                /\ AtMost(best[BestSize].cost,
                                          CalculateGroupCost(rectangles, label_groups[m]))

\* The ways to give one rectangle, or none, another ratio than its closest,
\* each with the damage it does.
Substitutions ==
  LET closest == [l \in Label |-> ClosestLeaf(l)]
  IN  {[given |-> closest, damage |-> Whole(-1)]} \cup
      {[given |-> [closest EXCEPT ![s[1]] = s[2]], damage |-> Damage(s[1], s[2])] :
         s \in {p \in Label \X LeafRatios : closest[p[1]] # p[2]}}

\* "Find which permutation does the least damage" (838): all ratios but one
\* are the closest ones, no choice is tried twice, none before one that does
\* less damage, and all of them before the section is given up.
LeastDamageFirst ==
  pc = "done" =>
    LET done == {s \in Substitutions : s.given \in Range(tried)}
        At(n) == (CHOOSE s \in done : s.given = tried[n]).damage
    IN  /\ Range(tried) = {s.given : s \in done} /\ IsInjective(tried)
        /\ \A n \in 1 .. Len(tried) - 1 : AtMost(At(n), At(n + 1))
        /\ \A s \in Substitutions \ done : AtMost(At(Len(tried)), s.damage)
        /\ best = <<>> => done = Substitutions

\* CreateBaseGroups returns.
Termination == <>(pc = "done")
=============================================================================
