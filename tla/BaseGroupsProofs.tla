-------------------------- MODULE BaseGroupsProofs --------------------------
(***************************************************************************)
(* CreateBaseGroups for any table of ratios, any sections and any limits,  *)
(* from the lemmas about Group() in LabelGroupsProofs: it leaves no two of *)
(* its groups unjoined (JoinsSettledCorrect), keeps the cheapest ones      *)
(* (BestAreCheapestCorrect), tries other ratios in the order of the damage *)
(* they do (LeastDamageFirstCorrect), and every group it knows is tiled by *)
(* its rectangles (GroupsAreFilledCorrect).                                *)
(***************************************************************************)
EXTENDS BaseGroups, LabelGroupsProofs

\* The inductive invariant for JoinsSettled.
BaseInv ==
  /\ JoinsInv
  /\ rectangles \in Sections
  /\ pc # "group" => ~joining

\* A call of Group() starts from a leaf for each rectangle.
LEMMA StartPermuteSettles ==
  ASSUME rectangles \in Sections, NEW given, StartPermute(given), MapIsCounted'
  PROVE  BaseInv'
<1> DEFINE N == Cardinality(Label)
           leaves == [m \in 1 .. N |-> Leaf(given[m - 1], m - 1)]
<1>1. N \in Nat
  BY SectionsAssumption DEF Label
<1>2. StartGroup(leaves, min_cost) /\ pc' = "group" /\ rectangles' = rectangles
  BY DEF StartPermute
<1> HIDE DEF N
<1>3. IsSequence(leaves)
  <2>1. leaves = [m \in 1 .. N |-> leaves[m]] /\ DOMAIN leaves = 1 .. N
    OBVIOUS
  <2> HIDE DEF leaves
  <2>2. leaves \in Seq({leaves[n] : n \in DOMAIN leaves})
    BY <1>1, <2>1
  <2> QED BY <2>2 DEF IsSequence
<1> HIDE DEF leaves
<1> QED BY <1>2, <1>3, StartGroupSettles DEF BaseInv

\* Outside of Group() its variables stay.
LEMMA OtherStepsSettle ==
  ASSUME BaseInv, UNCHANGED join_vars, pc' # "group" => ~joining
  PROVE  BaseInv'
<1>1. UNCHANGED <<rectangles, joining>>
  BY DEF join_vars
<1> QED BY <1>1, StaysJoined DEF BaseInv
-----------------------------------------------------------------------------
\* What the loops of Group() have been at is settled, in every state of
\* CreateBaseGroups.
THEOREM BaseInvariant == Spec => []BaseInv
<1>1. Init => BaseInv
  <2> SUFFICES ASSUME Init
               PROVE  BaseInv
    OBVIOUS
  <2>1. IsSequence(<<>>) /\ Len(<<>>) = 0 /\ DOMAIN <<>> = {}
    BY DEF IsSequence
  <2>2. Shape
    BY <2>1 DEF Init, Shape, MapIsCounted
  <2>3. VisitedSettled
    BY <2>1 DEF Init, VisitedSettled, InRound
  <2> QED BY <2>2, <2>3 DEF Init, BaseInv, JoinsInv
<1>2. BaseInv /\ [Next \/ Returned]_vars => BaseInv'
  <2> SUFFICES ASSUME BaseInv, [Next \/ Returned]_vars
               PROVE  BaseInv'
    OBVIOUS
  <2>1. CASE Coerce
    <3>1. complements_rmap' = BuildComplementsMap(complements)
      BY <2>1 DEF Coerce
    <3>2. MapIsCounted'
      BY <3>1, ComplementsMapAssumption DEF MapIsCounted, Range
    <3> QED BY <2>1, <3>2, StartPermuteSettles DEF Coerce, BaseInv
  <2>2. CASE MakeGroups
    <3>1. pc = "group" /\ UNCHANGED pc /\ GroupStep
      BY <2>2 DEF MakeGroups, base_vars
    <3>2. UNCHANGED rectangles
      BY <3>1 DEF GroupStep, SkipPair, DropGroup, KeepGroup, EndRound
    <3> QED BY <3>1, <3>2, GroupStepSettles DEF BaseInv
  <2>3. CASE GroupsMade
    BY <2>3, OtherStepsSettle DEF GroupsMade
  <2>4. CASE RankGroup
    <3>1. pc' # "group" => ~joining
      BY <2>4 DEF RankGroup, BaseInv
    <3> QED BY <2>4, <3>1, OtherStepsSettle DEF RankGroup
  <2>5. CASE Substitute
    <3>1. \E given : StartPermute(given)
      BY <2>5 DEF Substitute
    <3>2. MapIsCounted'
      BY <2>5 DEF Substitute, BaseInv, JoinsInv, Shape, MapIsCounted
    <3> QED BY <3>1, <3>2, StartPermuteSettles DEF BaseInv
  <2>6. CASE Return
    <3>1. pc' # "group" => ~joining
      BY <2>6 DEF Return, Ranked, BaseInv
    <3> QED BY <2>6, <3>1, OtherStepsSettle DEF Return
  <2>7. CASE UNCHANGED vars
    <3>1. UNCHANGED join_vars /\ UNCHANGED pc
      BY <2>7 DEF vars, base_vars
    <3>2. pc' # "group" => ~joining
      BY <3>1 DEF BaseInv
    <3> QED BY <3>1, <3>2, OtherStepsSettle
  <2> QED BY <2>1, <2>2, <2>3, <2>4, <2>5, <2>6, <2>7 DEF Next, Returned
<1> QED BY <1>1, <1>2, PTL DEF Spec

\* When Group() returns without having given up, no two groups it knows make
\* an affordable one that it lacks, for any table, section and limits: to look
\* at each group of the last round with those behind it is enough.
THEOREM JoinsSettledCorrect == Spec => []JoinsSettled
<1>1. BaseInv => JoinsSettled
  <2> SUFFICES ASSUME BaseInv, Made,
                      NEW p \in DOMAIN label_groups, NEW q \in DOMAIN label_groups, p < q
               PROVE  Settled(label_groups[p], label_groups[q]) /\ Known = Range(label_groups)
    BY DEF JoinsSettled, Settled, SettledBy
  <2> QED BY ReturnedSettled DEF BaseInv, Made
<1> QED BY <1>1, BaseInvariant, PTL
-----------------------------------------------------------------------------
(* The groups kept *)

\* The group at n is of the whole section; what it costs.
IsWhole(n) == Size(label_groups[n]) = Cardinality(Label)
CostOf(n)  == CalculateGroupCost(rectangles, label_groups[n])

\* The group at n is drawn like one kept, or like one that costs no less than
\* any of them.
Accounted(n) ==
  \/ \E m \in DOMAIN best : GroupsEqual(label_groups[n], best[m].group)
  \/ /\ Len(best) = BestSize
     /\ \E m \in DOMAIN label_groups : /\ IsWhole(m)
                                       /\ GroupsEqual(label_groups[n], label_groups[m])
                                       /\ AtMost(best[BestSize].cost, CostOf(m))

\* What is kept are groups of the whole section with their costs, in ascending
\* order; those looked at are accounted for.
KeptInv ==
  /\ ranked \in 0 .. Len(label_groups)
  /\ IsSequence(best) /\ Len(best) =< BestSize
  /\ \A n \in DOMAIN best : \E m \in DOMAIN label_groups :
       IsWhole(m) /\ best[n] = [group |-> label_groups[m], cost |-> CostOf(m)]
  /\ \A m, n \in DOMAIN best : m < n => AtMost(best[m].cost, best[n].cost)
  /\ \A n \in 1 .. ranked : IsWhole(n) => Accounted(n)

\* The ratios given and those left.
LeavesInv ==
  /\ ratio_indices \in [Label -> RatioIndex]
  /\ leaf_ratios \in [Label -> SUBSET LeafRatios]

\* The inductive invariant for BestAreCheapest.
BestInv ==
  /\ BaseInv
  /\ AreGroups
  /\ min_dif_index \in Label
  /\ pc # "coerce" => LeavesInv
  /\ pc = "group" => ranked = 0 /\ best = <<>>
  /\ pc = "rank" => KeptInv
-----------------------------------------------------------------------------
(* PermuteBaseGroups *)

\* The smallest of some numbers, for which it is enough to be no greater.
LEMMA MinIs ==
  ASSUME NEW S \in SUBSET Int, NEW n \in S, \A m \in S : n =< m
  PROVE  Min(S) = n
<1>1. \A x \in S : (\A m \in S : x =< m) => x = n
  OBVIOUS
<1> QED BY <1>1 DEF Min

\* What an insertion keeps, and where.
LEMMA InsertedIs ==
  ASSUME IsSequence(best), Len(best) =< BestSize, NEW entry,
         NEW n \in 1 .. Len(best) + 1, n =< BestSize
  PROVE  /\ IsSequence(Inserted(n, entry))
         /\ Len(Inserted(n, entry)) = IF Len(best) = BestSize THEN BestSize ELSE Len(best) + 1
         /\ DOMAIN Inserted(n, entry) = 1 .. Len(Inserted(n, entry))
         /\ \A m \in 1 .. n - 1 : Inserted(n, entry)[m] = best[m]
         /\ Inserted(n, entry)[n] = entry
         /\ \A m \in n + 1 .. Len(Inserted(n, entry)) : Inserted(n, entry)[m] = best[m - 1]
<1> DEFINE all == SubSeq(best, 1, n - 1) \o <<entry>> \o SubSeq(best, n, Len(best))
           kept == Min({Len(all), BestSize})
<1>1. Len(best) \in Nat /\ BestSize \in Nat \ {0}
  BY BestSizeAssumption DEF IsSequence
<1>2. PICK k \in Nat : k = Len(best)
  BY <1>1
<1>3. all = InsertedAt(best, n - 1, entry)
  <2>1. (n - 1) + 1 = n
    OBVIOUS
  <2> QED BY <2>1, Zenon DEF InsertedAt
<1>4. /\ IsSequence(all) /\ Len(all) = k + 1 /\ DOMAIN all = 1 .. k + 1
      /\ \A m \in 1 .. n - 1 : all[m] = best[m]
      /\ all[n] = entry
      /\ \A m \in n + 1 .. k + 1 : all[m] = best[m - 1]
  <2>1. n - 1 \in Nat /\ n - 1 =< Len(best)
    BY <1>1
  <2>2. PICK b \in Nat : b = n - 1
    BY <2>1
  <2> HIDE DEF all
  <2>3. /\ IsSequence(all) /\ Len(all) = k + 1 /\ DOMAIN all = 1 .. k + 1
        /\ \A m \in 1 .. b : all[m] = best[m]
        /\ all[b + 1] = entry
        /\ \A m \in b + 2 .. k + 1 : all[m] = best[m - 1]
    BY <1>2, <1>3, <2>1, <2>2, InsertedElements
  <2>4. b + 1 = n /\ b + 2 = n + 1
    BY <2>2
  <2> QED BY <2>2, <2>3, <2>4
<1> HIDE DEF all
<1>5. kept = IF k = BestSize THEN BestSize ELSE k + 1
  <2> DEFINE S == {k + 1, BestSize}
  <2>1. S \in SUBSET Int /\ kept = Min(S)
    BY <1>1, <1>4
  <2>2. \E m \in S : m = (IF k = BestSize THEN BestSize ELSE k + 1) /\ \A x \in S : m =< x
    BY <1>1, <1>2
  <2> HIDE DEF S, kept
  <2> QED BY <2>1, <2>2, MinIs
<1>6. PICK size \in Nat : size = kept /\ size =< k + 1 /\ n =< size
  BY <1>1, <1>2, <1>5
<1>7. Inserted(n, entry) = SubSeq(all, 1, size)
  BY <1>6 DEF Inserted, all
<1>8. /\ IsSequence(SubSeq(all, 1, size)) /\ Len(SubSeq(all, 1, size)) = size
      /\ DOMAIN SubSeq(all, 1, size) = 1 .. size
      /\ \A m \in 1 .. size : SubSeq(all, 1, size)[m] = all[m]
  <2> DEFINE T == {all[m] : m \in DOMAIN all}
  <2>1. all \in Seq(T)
    BY <1>4 DEF IsSequence
  <2> HIDE DEF T
  <2>2. Len(all) = k + 1 /\ size =< k + 1
    BY <1>4, <1>6
  <2> HIDE DEF kept
  <2>3. /\ SubSeq(all, 1, size) \in Seq(T) /\ Len(SubSeq(all, 1, size)) = size
        /\ \A m \in 1 .. size : SubSeq(all, 1, size)[m] = all[m]
    BY <2>1, <2>2
  <2> QED BY <2>3, SequenceIs
<1> HIDE DEF kept
<1> QED BY <1>2, <1>4, <1>5, <1>6, <1>7, <1>8

\* A group is drawn like itself.
LEMMA EqualToItself ==
  ASSUME NEW g
  PROVE  GroupsEqual(g, g)
BY DEF GroupsEqual

\* The cost of each group is a number.
LEMMA CostOfIsNumber ==
  ASSUME BestInv, NEW m \in DOMAIN label_groups
  PROVE  CostOf(m) \in Numbers
<1>1. IsGroup(label_groups[m])
  BY DEF BestInv, AreGroups, Known, Range
<1>2. \A l \in Labels(label_groups[m]) : rectangles[l].importance \in Nat \ {0}
  BY <1>1, SectionsAssumption DEF IsGroup, BestInv, BaseInv
<1> QED BY <1>1, <1>2, CostIsNumber DEF CostOf

\* What costs less costs no more.
LEMMA LessIsAtMost ==
  ASSUME NEW x \in Numbers, NEW y \in Numbers, Less(x, y)
  PROVE  AtMost(x, y)
BY AtMostTotal DEF AtMost

\* A step of the loop accounts for one group more.
LEMMA RankKeeps ==
  ASSUME BestInv, RankGroup
  PROVE  KeptInv'
<1> DEFINE at == ranked + 1
<1>1. /\ KeptInv /\ ranked \in Nat /\ at \in DOMAIN label_groups /\ at =< Len(label_groups)
      /\ Len(label_groups) \in Nat
  <2>1. IsSequence(label_groups) /\ KeptInv
    BY DEF BestInv, BaseInv, JoinsInv, Shape, RankGroup
  <2>2. Len(label_groups) \in Nat /\ DOMAIN label_groups = 1 .. Len(label_groups)
    BY <2>1 DEF IsSequence
  <2> QED BY <2>1, <2>2 DEF KeptInv, RankGroup
<1>2. /\ UNCHANGED <<label_groups, rectangles>> /\ ranked' = at
      /\ Candidate = label_groups[at]
  BY DEF RankGroup, join_vars, Candidate
<1>3. \A m : (IsWhole(m)' <=> IsWhole(m)) /\ CostOf(m)' = CostOf(m)
  BY <1>2 DEF IsWhole, CostOf, Label
<1>4. \A n \in 1 .. at : n \in 1 .. ranked \/ n = at
  BY <1>1
<1>5. PICK k \in Nat : k = Len(best) /\ DOMAIN best = 1 .. k /\ k =< BestSize
  BY <1>1 DEF KeptInv, IsSequence
<1>6. BestSize \in Nat \ {0}
  BY BestSizeAssumption
<1>7. ASSUME NEW n \in 1 .. k
      PROVE  best[n].cost \in Numbers
  <2>1. PICK m \in DOMAIN label_groups : best[n] = [group |-> label_groups[m], cost |-> CostOf(m)]
    BY <1>1, <1>5 DEF KeptInv
  <2>2. best[n].cost = CostOf(m)
    BY <2>1
  <2> QED BY <2>2, CostOfIsNumber
\* What stays as it is.
<1>8. ASSUME UNCHANGED best, IsWhole(at) => Accounted(at)
      PROVE  KeptInv'
  <2>1. \A n : Accounted(n)' <=> Accounted(n)
    BY <1>2, <1>3, <1>8 DEF Accounted
  <2>2. \A n \in 1 .. at : IsWhole(n) => Accounted(n)
    BY <1>1, <1>4, <1>8 DEF KeptInv
  <2>3. ranked' \in 0 .. Len(label_groups)'
    BY <1>1, <1>2
  <2> QED BY <1>1, <1>2, <1>3, <1>8, <2>1, <2>2, <2>3 DEF KeptInv
<1>9. CASE ~IsWhole(at)
  <2>1. UNCHANGED best
    BY <1>2, <1>9 DEF RankGroup, IsWhole
  <2> QED BY <1>8, <1>9, <2>1
<1>10. CASE IsWhole(at)
  <2>1. PICK cost \in Numbers : cost = CostOf(at)
    BY <1>1, CostOfIsNumber
  <2>2. PICK entry : entry = [group |-> label_groups[at], cost |-> cost]
    OBVIOUS
  <2> DEFINE Entries == {n \in 1 .. Len(best) + 1 : AtEntry(n, cost)}
  <2>3. PICK e \in Entries : \A n \in Entries : e =< n
    <3>1. Entries \in SUBSET Nat
      BY <1>5
    <3>2. k + 1 \in Entries
      BY <1>5 DEF AtEntry
    <3> HIDE DEF Entries
    <3> QED BY <3>1, <3>2, Smallest
  <2>4. Min(Entries) = e
    <3>1. Entries \in SUBSET Int
      BY <1>5
    <3> HIDE DEF Entries
    <3> QED BY <2>3, <3>1, MinIs
  <2>5. best' = IF Inserts(e) THEN Inserted(e, entry) ELSE best
    <3>1. cost = CalculateGroupCost(rectangles, Candidate)
      BY <1>2, <2>1 DEF CostOf
    <3>2. Size(Candidate) = Cardinality(Label)
      BY <1>2, <1>10 DEF IsWhole
    <3> QED BY <1>2, <2>2, <2>4, <3>1, <3>2 DEF RankGroup
  <2>6. e \in 1 .. k + 1 /\ AtEntry(e, cost) /\ \A n \in 1 .. e - 1 : ~AtEntry(n, cost)
    <3>1. e \in 1 .. k + 1 /\ AtEntry(e, cost)
      BY <1>5, <2>3
    <3>2. \A n \in 1 .. e - 1 : n \in 1 .. k + 1 /\ ~(e =< n)
      BY <3>1
    <3> QED BY <1>5, <2>3, <3>1, <3>2
  \* Those before it cost no more.
  <2>7. \A n \in 1 .. e - 1 : n \in 1 .. k /\ AtMost(best[n].cost, cost)
    <3>1. \A n \in 1 .. e - 1 : n \in 1 .. k
      BY <2>6
    <3> QED BY <1>5, <2>6, <3>1 DEF AtEntry, AtMost
  <2> HIDE DEF Entries
  <2>8. CASE ~Inserts(e)
    <3>1. Accounted(at)
      <4>1. CASE e =< BestSize
        <5>1. e =< k /\ GroupsEqual(label_groups[at], best[e].group)
          BY <1>2, <1>5, <2>8, <4>1 DEF Inserts
        <5> QED BY <1>5, <2>6, <5>1 DEF Accounted
      <4>2. CASE ~(e =< BestSize)
        <5>1. k = BestSize /\ BestSize \in 1 .. e - 1
          BY <1>5, <1>6, <2>6, <4>2
        <5> QED BY <1>1, <1>5, <1>10, <2>1, <2>7, <5>1, EqualToItself DEF Accounted
      <4> QED BY <4>1, <4>2
    <3> QED BY <1>8, <2>5, <2>8, <3>1
  <2>9. CASE Inserts(e)
    <3>1. e =< BestSize /\ best' = Inserted(e, entry)
      BY <2>5, <2>9 DEF Inserts
    <3>2. PICK s \in Nat : s = IF k = BestSize THEN BestSize ELSE k + 1
      BY <1>6
    <3>3. /\ IsSequence(best') /\ Len(best') = s /\ DOMAIN best' = 1 .. s
          /\ \A m \in 1 .. e - 1 : best'[m] = best[m]
          /\ best'[e] = entry
          /\ \A m \in e + 1 .. s : best'[m] = best[m - 1]
      BY <1>1, <1>5, <2>6, <3>1, <3>2, InsertedIs DEF KeptInv
    <3>4. s =< BestSize /\ s =< k + 1 /\ e \in 1 .. s /\ (s = BestSize \/ s = k + 1)
      BY <1>5, <1>6, <2>6, <3>1, <3>2
    \* Those behind cost no less.
    <3>5. \A n \in e .. k : AtMost(cost, best[n].cost)
      <4>1. SUFFICES ASSUME NEW n \in e .. k
                     PROVE  AtMost(cost, best[n].cost)
        OBVIOUS
      <4>2. e \in 1 .. k /\ n \in 1 .. k /\ (n = e \/ e < n)
        BY <2>6
      <4>3. Less(cost, best[e].cost)
        BY <1>2, <1>5, <2>6, <2>9, <3>1, <4>2 DEF AtEntry, Inserts
      <4>4. AtMost(cost, best[e].cost)
        BY <1>7, <2>1, <4>2, <4>3, LessIsAtMost
      <4>5. e < n => AtMost(best[e].cost, best[n].cost)
        BY <1>1, <1>5, <4>2 DEF KeptInv
      <4> QED BY <1>7, <2>1, <4>2, <4>4, <4>5, AtMostTransitive
    <3>6. entry.cost = cost /\ entry.group = label_groups[at]
      BY <2>2
    <3>7. \A n \in 1 .. s : \/ n \in 1 .. e - 1
                            \/ n = e
                            \/ n \in e + 1 .. s /\ n - 1 \in e .. k /\ n - 1 \in 1 .. k
      BY <2>6, <3>4
    <3>8. \A n \in 1 .. s : \E m \in DOMAIN label_groups :
            IsWhole(m) /\ best'[n] = [group |-> label_groups[m], cost |-> CostOf(m)]
      <4>1. \A n \in 1 .. k : \E m \in DOMAIN label_groups :
              IsWhole(m) /\ best[n] = [group |-> label_groups[m], cost |-> CostOf(m)]
        BY <1>1, <1>5 DEF KeptInv
      <4>2. best'[e] = [group |-> label_groups[at], cost |-> CostOf(at)]
        BY <2>1, <2>2, <3>3
      <4> QED BY <1>1, <1>10, <2>7, <3>3, <3>7, <4>1, <4>2
    <3>9. ASSUME NEW m \in 1 .. s, NEW n \in 1 .. s, m < n
          PROVE  AtMost(best'[m].cost, best'[n].cost)
      <4>1. \A i, j \in 1 .. k : i < j => AtMost(best[i].cost, best[j].cost)
        BY <1>1, <1>5 DEF KeptInv
      <4>2. CASE n \in 1 .. e - 1
        <5>1. m \in 1 .. e - 1
          BY <2>6, <3>9, <4>2
        <5> QED BY <2>7, <3>3, <3>9, <4>1, <4>2, <5>1
      <4>3. CASE n = e
        <5>1. m \in 1 .. e - 1
          BY <2>6, <3>9, <4>3
        <5> QED BY <2>7, <3>3, <3>6, <4>3, <5>1
      <4>4. CASE n \in e + 1 .. s /\ n - 1 \in e .. k /\ n - 1 \in 1 .. k
        <5>1. best'[n] = best[n - 1]
          BY <3>3, <4>4
        <5>2. CASE m \in 1 .. e - 1
          <6>1. m \in 1 .. k /\ m < n - 1
            BY <2>6, <2>7, <4>4, <5>2
          <6> QED BY <3>3, <4>1, <4>4, <5>1, <5>2, <6>1
        <5>3. CASE m = e
          BY <3>3, <3>5, <3>6, <4>4, <5>1, <5>3
        <5>4. CASE m \in e + 1 .. s /\ m - 1 \in e .. k /\ m - 1 \in 1 .. k
          <6>1. m - 1 < n - 1
            BY <3>9
          <6>2. best'[m] = best[m - 1]
            BY <3>3, <5>4
          <6> QED BY <4>1, <4>4, <5>1, <5>4, <6>1, <6>2
        <5> QED BY <3>7, <5>2, <5>3, <5>4
      <4> QED BY <3>7, <4>2, <4>3, <4>4
    \* When one falls out, all that stay cost no more.
    <3>10. ASSUME k = BestSize
           PROVE  /\ s = BestSize /\ BestSize \in 1 .. k /\ best'[BestSize].cost \in Numbers
                  /\ AtMost(best'[BestSize].cost, best[BestSize].cost)
      <4>1. s = BestSize /\ BestSize \in e .. k /\ BestSize \in 1 .. k
        BY <1>6, <3>1, <3>2, <3>10
      <4>2. CASE e = BestSize
        BY <2>1, <3>3, <3>5, <3>6, <4>1, <4>2
      <4>3. CASE e # BestSize
        <5>1. /\ BestSize \in e + 1 .. s /\ BestSize - 1 \in 1 .. k
              /\ BestSize - 1 < BestSize
          BY <1>6, <2>6, <3>1, <4>1, <4>3
        <5>2. best'[BestSize] = best[BestSize - 1]
          BY <3>3, <5>1
        <5>3. AtMost(best[BestSize - 1].cost, best[BestSize].cost)
          BY <1>1, <1>5, <4>1, <5>1 DEF KeptInv
        <5> QED BY <1>7, <4>1, <5>1, <5>2, <5>3
      <4> QED BY <4>2, <4>3
    <3>11. ASSUME NEW n \in 1 .. at, IsWhole(n)
           PROVE  Accounted(n)'
      <4>1. CASE n = at
        <5>1. GroupsEqual(label_groups[n], best'[e].group)
          BY <3>3, <3>6, <4>1, EqualToItself
        <5> QED BY <1>2, <3>3, <3>4, <5>1 DEF Accounted
      <4>2. CASE n # at
        <5>1. Accounted(n)
          BY <1>1, <1>4, <3>11, <4>2 DEF KeptInv
        <5>2. ASSUME NEW m \in 1 .. k, GroupsEqual(label_groups[n], best[m].group)
              PROVE  Accounted(n)'
          <6>1. CASE m \in 1 .. e - 1
            <7>1. m \in 1 .. s /\ best'[m] = best[m]
              BY <3>3, <3>4, <6>1
            <7> QED BY <1>2, <3>3, <5>2, <7>1 DEF Accounted
          <6>2. CASE m \notin 1 .. e - 1 /\ m + 1 =< s
            <7>1. m + 1 \in e + 1 .. s /\ m + 1 \in 1 .. s /\ (m + 1) - 1 = m
              BY <2>6, <6>2
            <7>2. best'[m + 1] = best[m]
              BY <3>3, <7>1
            <7> QED BY <1>2, <3>3, <5>2, <7>1, <7>2 DEF Accounted
          <6>3. CASE m \notin 1 .. e - 1 /\ ~(m + 1 =< s)
            <7>1. k = BestSize /\ m = BestSize
              BY <1>5, <1>6, <3>2, <6>3
            <7>2. PICK i \in DOMAIN label_groups :
                    IsWhole(i) /\ best[m] = [group |-> label_groups[i], cost |-> CostOf(i)]
              BY <1>1, <1>5 DEF KeptInv
            <7>3. /\ GroupsEqual(label_groups[n], label_groups[i])
                  /\ AtMost(best'[BestSize].cost, CostOf(i))
              BY <3>10, <5>2, <7>1, <7>2
            <7> QED BY <1>2, <1>3, <3>3, <3>10, <7>1, <7>2, <7>3 DEF Accounted
          <6> QED BY <6>1, <6>2, <6>3
        <5>3. ASSUME k = BestSize, NEW m \in DOMAIN label_groups, IsWhole(m),
                     GroupsEqual(label_groups[n], label_groups[m]),
                     AtMost(best[BestSize].cost, CostOf(m))
              PROVE  Accounted(n)'
          <6>1. AtMost(best'[BestSize].cost, CostOf(m))
            BY <1>7, <3>10, <5>3, CostOfIsNumber, AtMostTransitive
          <6> QED BY <1>2, <1>3, <3>3, <3>10, <5>3, <6>1 DEF Accounted
        <5> QED BY <1>5, <5>1, <5>2, <5>3 DEF Accounted
      <4> QED BY <4>1, <4>2
    <3>12. ranked' \in 0 .. Len(label_groups)'
      BY <1>1, <1>2
    <3> QED BY <1>2, <1>3, <3>3, <3>4, <3>8, <3>9, <3>11, <3>12 DEF KeptInv
  <2> QED BY <2>8, <2>9
<1> QED BY <1>9, <1>10
-----------------------------------------------------------------------------
(* The other steps *)

\* A call of Group() starts from groups.
LEMMA StartPermuteMakes ==
  ASSUME BestInv, NEW given \in [Label -> RatioIndex], StartPermute(given),
         \A pair \in DOMAIN complements_rmap' : \A n \in 1 .. Len(complements_rmap'[pair]) :
           complements_rmap'[pair][n].index \in RatioIndex
  PROVE  /\ AreGroups'
         /\ pc' = "group" /\ ranked' = 0 /\ best' = <<>>
         /\ ratio_indices' = given /\ UNCHANGED rectangles
<1> DEFINE N == Cardinality(Label)
           leaves == [m \in 1 .. N |-> Leaf(given[m - 1], m - 1)]
<1>1. N \in Nat /\ Label = 0 .. N - 1
  BY SectionsAssumption DEF Label, BestInv, BaseInv
<1>2. /\ StartGroup(leaves, min_cost) /\ UNCHANGED rectangles
      /\ pc' = "group" /\ ranked' = 0 /\ best' = <<>> /\ ratio_indices' = given
  BY DEF StartPermute
<1> HIDE DEF N
<1>3. ASSUME NEW m \in 1 .. N
      PROVE  IsGroup(leaves[m])
  <2>1. m - 1 \in Label
    BY <1>1
  <2>2. given[m - 1] \in RatioIndex /\ m - 1 \in DOMAIN rectangles
    BY <2>1 DEF Label
  <2> QED BY <2>2, LeafIsGroup
<1>4. DOMAIN leaves = 1 .. N
  OBVIOUS
<1> HIDE DEF leaves
<1>5. label_groups' = leaves /\ new_groups' = <<>>
  BY <1>2 DEF StartGroup
<1>6. \A g : IsGroup(g)' <=> IsGroup(g)
  BY <1>2 DEF IsGroup
<1>7. \A g \in Known' : IsGroup(g)
  BY <1>3, <1>4, <1>5 DEF Known, Range
<1> QED BY <1>2, <1>6, <1>7 DEF AreGroups

\* The closest of the leaf ratios left is one of them.
LEMMA ClosestLeafIsOne ==
  ASSUME rectangles \in Sections, NEW l \in Label, NEW T \in SUBSET LeafRatios, T # {}
  PROVE  /\ FindClosestIn(rectangles[l].ratio, T) \in T
         /\ FindClosestIn(rectangles[l].ratio, T) \in RatioIndex
<1>1. rectangles[l].ratio \in Numbers
  BY SectionsAssumption DEF Label
<1>2. T \in SUBSET RatioIndex
  BY LeafRatiosAssumption
<1> QED BY <1>1, <1>2, ClosestIsNearest

\* Where there is nothing kept the rest need not be looked at.
LEMMA StaysBest ==
  ASSUME BestInv, BaseInv', UNCHANGED <<rectangles, ratio_indices, leaf_ratios, min_dif_index>>,
         AreGroups', pc # "coerce",
         pc' = "group" => ranked' = 0 /\ best' = <<>>, pc' = "rank" => KeptInv'
  PROVE  BestInv'
BY DEF BestInv, LeavesInv, Label

\* With its ratios given, Group() starts.
LEMMA StartsBest ==
  ASSUME BestInv, BaseInv', NEW given \in [Label -> RatioIndex], StartPermute(given),
         \A pair \in DOMAIN complements_rmap' : \A n \in 1 .. Len(complements_rmap'[pair]) :
           complements_rmap'[pair][n].index \in RatioIndex,
         leaf_ratios' \in [Label -> SUBSET LeafRatios], min_dif_index' \in Label
  PROVE  BestInv'
<1>1. /\ AreGroups' /\ pc' = "group" /\ ranked' = 0 /\ best' = <<>>
      /\ ratio_indices' = given /\ UNCHANGED rectangles
  BY StartPermuteMakes
<1>2. LeavesInv'
  BY <1>1 DEF LeavesInv, Label
<1> QED BY <1>1, <1>2 DEF BestInv, Label

\* The groups kept, with what is left to try, in every state.
THEOREM BestInvariant == Spec => []BestInv
<1>1. Init => BestInv
  <2> SUFFICES ASSUME Init
               PROVE  BestInv
    OBVIOUS
  <2>1. IsSequence(<<>>) /\ DOMAIN <<>> = {}
    BY DEF IsSequence
  <2>2. Shape /\ VisitedSettled
    BY <2>1 DEF Init, Shape, MapIsCounted, VisitedSettled, InRound
  <2>3. AreGroups
    BY <2>1 DEF Init, AreGroups, Known, Range
  <2>4. 0 \in Label
    BY SectionsAssumption DEF Init, Label
  <2> QED BY <2>2, <2>3, <2>4 DEF Init, BestInv, BaseInv, JoinsInv
<1>2. BestInv /\ BaseInv' /\ [Next \/ Returned]_vars => BestInv'
  <2> SUFFICES ASSUME BestInv, BaseInv', [Next \/ Returned]_vars
               PROVE  BestInv'
    OBVIOUS
  <2>0. /\ rectangles \in Sections
        /\ \A l \in Label : \A T \in SUBSET LeafRatios : T # {} =>
             /\ FindClosestIn(rectangles[l].ratio, T) \in T
             /\ FindClosestIn(rectangles[l].ratio, T) \in RatioIndex
    BY ClosestLeafIsOne DEF BestInv, BaseInv
  <2>1. CASE Coerce
    <3> DEFINE given == [l \in Label |-> ClosestLeaf(l)]
    <3>1. \A l \in Label : ClosestLeaf(l) \in RatioIndex
      BY <2>0, LeafRatiosAssumption DEF ClosestLeaf
    <3>2. given \in [Label -> RatioIndex] /\ StartPermute(given)
      BY <2>1, <3>1 DEF Coerce
    <3>3. complements_rmap' = BuildComplementsMap(complements)
      BY <2>1 DEF Coerce
    <3>4. \A pair \in DOMAIN complements_rmap' : \A n \in 1 .. Len(complements_rmap'[pair]) :
            complements_rmap'[pair][n].index \in RatioIndex
      BY <3>3, MapIsExact DEF IsExact
    <3>5. leaf_ratios' \in [Label -> SUBSET LeafRatios]
      <4>1. \A l \in Label : LeafRatios \ {ClosestLeaf(l)} \in SUBSET LeafRatios
        OBVIOUS
      <4> QED BY <2>1, <4>1 DEF Coerce
    <3>6. min_dif_index' \in Label
      BY <2>1 DEF Coerce, BestInv, Label
    <3> HIDE DEF given
    <3> QED BY <3>2, <3>4, <3>5, <3>6, StartsBest
  <2>2. CASE MakeGroups
    <3>1. GroupStep /\ pc = "group" /\ UNCHANGED base_vars
      BY <2>2 DEF MakeGroups
    <3>2. UNCHANGED rectangles
      BY <3>1 DEF GroupStep, SkipPair, DropGroup, KeepGroup, EndRound
    <3>3. AreGroups'
      BY <3>1, GroupStepMakes DEF BestInv, BaseInv
    <3> QED BY <3>1, <3>2, <3>3, StaysBest DEF base_vars, BestInv
  <2>3. CASE GroupsMade
    <3>1. /\ pc = "group" /\ pc' = "rank" /\ UNCHANGED join_vars
          /\ UNCHANGED <<ratio_indices, leaf_ratios, min_dif_index, ranked, best>>
      BY <2>3 DEF GroupsMade
    <3>2. /\ rectangles' = rectangles /\ label_groups' = label_groups
          /\ new_groups' = new_groups /\ complements_rmap' = complements_rmap
      BY <3>1 DEF join_vars
    <3>3. AreGroups'
      BY <3>2 DEF BestInv, AreGroups, Known, IsGroup
    <3>4. ranked' = 0 /\ best' = <<>>
      BY <3>1 DEF BestInv
    <3>5. Len(label_groups)' \in Nat
      BY DEF BaseInv, JoinsInv, Shape, IsSequence
    <3>6. KeptInv'
      <4>1. IsSequence(<<>>) /\ DOMAIN <<>> = {} /\ Len(<<>>) = 0
        BY DEF IsSequence
      <4> QED BY <3>4, <3>5, <4>1, BestSizeAssumption DEF KeptInv
    <3> QED BY <3>1, <3>2, <3>3, <3>6, StaysBest
  <2>4. CASE RankGroup
    <3>1. /\ pc = "rank" /\ UNCHANGED join_vars
          /\ UNCHANGED <<pc, ratio_indices, leaf_ratios, min_dif_index>>
      BY <2>4 DEF RankGroup
    <3>2. /\ rectangles' = rectangles /\ label_groups' = label_groups
          /\ new_groups' = new_groups /\ complements_rmap' = complements_rmap
      BY <3>1 DEF join_vars
    <3>3. AreGroups'
      BY <3>2 DEF BestInv, AreGroups, Known, IsGroup
    <3>4. KeptInv'
      BY <2>4, RankKeeps
    <3> QED BY <3>1, <3>2, <3>3, <3>4, StaysBest
  <2>5. CASE Substitute
    <3>1. LeavesInv /\ pc # "coerce" /\ UNCHANGED complements_rmap
      BY <2>5 DEF Substitute, Ranked, BestInv
    <3> DEFINE Nearest(l) == FindClosestIn(rectangles[l].ratio, leaf_ratios[l])
    <3>2. PICK l \in Label : /\ leaf_ratios[l] # {}
                             /\ StartPermute([Reset EXCEPT ![l] = Nearest(l)])
                             /\ leaf_ratios' = [leaf_ratios EXCEPT ![l] = @ \ {Nearest(l)}]
                             /\ min_dif_index' = l
      BY <2>5 DEF Substitute
    <3>3. PICK closest \in RatioIndex : closest = Nearest(l)
      BY <2>0, <3>1, <3>2 DEF LeavesInv
    <3>4. Reset \in [Label -> RatioIndex]
      <4>1. ClosestLeaf(min_dif_index) \in RatioIndex
        BY <2>0, <3>1, LeafRatiosAssumption DEF ClosestLeaf, BestInv
      <4> QED BY <3>1, <4>1 DEF Reset, LeavesInv
    <3>5. [Reset EXCEPT ![l] = closest] \in [Label -> RatioIndex]
      BY <3>3, <3>4
    <3>6. leaf_ratios' \in [Label -> SUBSET LeafRatios]
      BY <3>1, <3>2 DEF LeavesInv
    <3>7. \A pair \in DOMAIN complements_rmap' : \A n \in 1 .. Len(complements_rmap'[pair]) :
            complements_rmap'[pair][n].index \in RatioIndex
      BY <3>1 DEF BestInv, AreGroups
    <3> HIDE DEF Nearest
    <3> QED BY <3>2, <3>3, <3>5, <3>6, <3>7, StartsBest
  <2>6. CASE Return \/ UNCHANGED vars
    <3>1. /\ UNCHANGED <<join_vars, ratio_indices, leaf_ratios, min_dif_index, ranked, best>>
          /\ pc' = "done" \/ UNCHANGED pc
      BY <2>6 DEF Return, vars, base_vars
    <3>2. /\ rectangles' = rectangles /\ label_groups' = label_groups
          /\ new_groups' = new_groups /\ complements_rmap' = complements_rmap
      BY <3>1 DEF join_vars
    <3>3. AreGroups'
      BY <3>2 DEF BestInv, AreGroups, Known, IsGroup
    <3>4. \A m : (IsWhole(m)' <=> IsWhole(m)) /\ CostOf(m)' = CostOf(m)
      BY <3>2 DEF IsWhole, CostOf, Label
    <3>5. KeptInv => KeptInv'
      BY <3>1, <3>2, <3>4 DEF KeptInv, Accounted
    <3>6. LeavesInv => LeavesInv'
      BY <3>1, <3>2 DEF LeavesInv, Label
    <3>7. pc = "coerce" => pc' = "coerce"
      BY <2>6 DEF Return, Ranked, vars, base_vars
    <3> QED BY <3>1, <3>2, <3>3, <3>5, <3>6, <3>7 DEF BestInv, Label
  <2> QED BY <2>1, <2>2, <2>3, <2>4, <2>5, <2>6 DEF Next, Returned
<1> QED BY <1>1, <1>2, BaseInvariant, PTL DEF Spec

\* When all groups have been looked at, those kept are in ascending order of
\* cost, and each group of the whole section that is not drawn like one of them
\* is drawn like one that costs no less than any: for any table of ratios, any
\* section of positive importances, any limits and any number kept.
THEOREM BestAreCheapestCorrect == Spec => []BestAreCheapest
<1>1. BestInv => BestAreCheapest
  <2> SUFFICES ASSUME BestInv, Ranked
               PROVE  /\ Len(best) =< BestSize
                      /\ \A n \in 1 .. Len(best) - 1 : AtMost(best[n].cost, best[n + 1].cost)
                      /\ \A n \in DOMAIN label_groups : IsWhole(n) => Accounted(n)
    BY DEF BestAreCheapest, IsWhole, Accounted, CostOf
  <2>1. KeptInv /\ ranked = Len(label_groups) /\ IsSequence(label_groups)
    BY DEF BestInv, Ranked, BaseInv, JoinsInv, Shape
  <2>2. DOMAIN label_groups = 1 .. ranked
    BY <2>1 DEF IsSequence
  <2>3. Len(best) \in Nat /\ DOMAIN best = 1 .. Len(best)
    BY <2>1 DEF KeptInv, IsSequence
  <2>4. \A n \in 1 .. Len(best) - 1 : n \in 1 .. Len(best) /\ n + 1 \in 1 .. Len(best) /\ n < n + 1
    BY <2>3
  <2> QED BY <2>1, <2>2, <2>3, <2>4 DEF KeptInv
<1> QED BY <1>1, BestInvariant, PTL
-----------------------------------------------------------------------------
(* The ratios tried *)

Closest == [l \in Label |-> ClosestLeaf(l)]

\* A rectangle and a ratio that is not its closest; what the pair gives, the
\* damage it does, and whether it is still to be tried.
Pairs == {p \in Label \X LeafRatios : Closest[p[1]] # p[2]}
Given(p) == [Closest EXCEPT ![p[1]] = p[2]]
DamageOf(p) == Damage(p[1], p[2])
Open(p) == p[2] \in leaf_ratios[p[1]]

\* What has been tried are the closest ratios, then pairs in ascending order of
\* damage, none twice; those still open do no less.
TriedOnce ==
  /\ Len(tried) >= 1 /\ tried[1] = Closest
  /\ \A n \in 2 .. Len(tried) : \E p \in Pairs : tried[n] = Given(p)
  /\ \A p \in Pairs : Open(p) <=> \A n \in DOMAIN tried : tried[n] # Given(p)
  /\ \A m, n \in DOMAIN tried : m < n => tried[m] # tried[n]

LeastFirst ==
  /\ \A m, n \in DOMAIN tried : \A p, q \in Pairs :
       m < n /\ tried[m] = Given(p) /\ tried[n] = Given(q) => AtMost(DamageOf(p), DamageOf(q))
  /\ \A n \in DOMAIN tried : \A p, q \in Pairs :
       tried[n] = Given(p) /\ Open(q) => AtMost(DamageOf(p), DamageOf(q))

\* The inductive invariant for LeastDamageFirst: one ratio at most is not the
\* closest, so that taking back the last change gives the closest ones again.
TriedInv ==
  /\ IsSequence(tried)
  /\ pc = "coerce" => tried = <<>>
  /\ pc # "coerce" => /\ TriedOnce /\ LeastFirst
                      /\ \A l \in Label : /\ ClosestLeaf(l) \notin leaf_ratios[l]
                                          /\ l # min_dif_index => ratio_indices[l] = ClosestLeaf(l)
  /\ pc = "done" => best # <<>> \/ \A l \in Label : leaf_ratios[l] = {}

LEMMA DamageIs ==
  ASSUME rectangles \in Sections, NEW l \in Label, NEW n \in RatioIndex
  PROVE  /\ Damage(l, n) \in Numbers
         /\ Damage(l, n) = Distance(rectangles[l].ratio, n)
         /\ AtMost(Whole(-1), Damage(l, n))
<1>1. PICK r \in Numbers, x \in Numbers : r = rectangles[l].ratio /\ x = ratios[n]
  BY RatioIsNumber, SectionsAssumption DEF Label
<1>2. /\ Minus(x, r) \in Reduced /\ Minus(r, x) \in Reduced
      /\ Minus(x, r) \in Numbers /\ Minus(r, x) \in Numbers
  BY NegativeIs, MinusIs, RawAre, ReducedIsNumber
<1>3. /\ Minus(Whole(0), Minus(x, r)) = Minus(r, x) /\ Minus(Whole(0), Minus(r, x)) = Minus(x, r)
      /\ Negative(Minus(x, r)) = Minus(r, x)
  BY NegativeMinus
<1>4. Less(Minus(x, r), Whole(0)) <=> Less(x, r)
  BY <1>3 DEF Less
<1>5. Damage(l, n) = IF Less(x, r) THEN Minus(r, x) ELSE Minus(x, r)
  BY <1>1, <1>3, <1>4 DEF Damage
<1>6. ~(Less(x, r) /\ Less(r, x))
  BY AtMostTotal DEF AtMost
<1>7. ~Less(x, r) /\ ~Less(r, x) => Minus(x, r) = Minus(r, x)
  <2> SUFFICES ASSUME ~Less(x, r), ~Less(r, x)
               PROVE  Minus(x, r) = Minus(r, x)
    OBVIOUS
  <2>1. ~Positive(Minus(x, r)) /\ ~Positive(Minus(r, x))
    BY DEF Less
  <2>2. Negative(Minus(r, x)) = Minus(x, r)
    BY NegativeMinus
  <2> QED BY <1>2, <1>3, <2>1, <2>2, ZeroIs
<1>8. Damage(l, n) = Distance(r, n)
  BY <1>1, <1>5, <1>6, <1>7 DEF Distance
<1>9. AtMost(Whole(0), Damage(l, n))
  <2>1. CASE Less(x, r)
    BY <1>3, <1>5, <1>6, <2>1 DEF AtMost, Less
  <2>2. CASE ~Less(x, r)
    BY <1>3, <1>5, <2>2 DEF AtMost, Less
  <2> QED BY <2>1, <2>2
<1>10. AtMost(Whole(-1), Whole(0))
  <2>1. ~Positive(Whole(-1))
    BY DEF Positive, Whole
  <2>2. Less(Whole(0), Whole(-1)) <=> Positive(Whole(-1))
    BY WholeIsNumber, AboveZero
  <2> QED BY <2>1, <2>2 DEF AtMost
<1>11. AtMost(Whole(-1), Damage(l, n))
  <2>1. Whole(-1) \in Numbers /\ Whole(0) \in Numbers /\ Damage(l, n) \in Numbers
    BY <1>2, <1>5, WholeIsNumber
  <2> QED BY <1>9, <1>10, <2>1, AtMostTransitive
<1> QED BY <1>1, <1>2, <1>5, <1>8, <1>11

\* Each pair gives ratios of its own.
LEMMA GivenIs ==
  ASSUME NEW p \in Pairs
  PROVE  /\ p[1] \in Label /\ p[2] \in LeafRatios /\ p = <<p[1], p[2]>> /\ p[2] # ClosestLeaf(p[1])
         /\ Given(p)[p[1]] = p[2] /\ Given(p) # Closest
         /\ \A l \in Label : l # p[1] => Given(p)[l] = ClosestLeaf(l)
<1>1. p[1] \in Label /\ p[2] \in LeafRatios /\ p = <<p[1], p[2]>> /\ Closest[p[1]] # p[2]
  BY DEF Pairs
<1>2. \A l \in Label : Closest[l] = ClosestLeaf(l)
  BY DEF Closest
<1>3. DOMAIN Closest = Label
  BY DEF Closest
<1>4. /\ Given(p)[p[1]] = p[2]
      /\ \A l \in Label : l # p[1] => Given(p)[l] = Closest[l]
  BY <1>1, <1>3 DEF Given
<1> QED BY <1>1, <1>2, <1>4

LEMMA GivenOnce ==
  ASSUME NEW p \in Pairs, NEW q \in Pairs, Given(p) = Given(q)
  PROVE  p = q
<1>1. p[1] = q[1]
  BY GivenIs
<1> QED BY <1>1, GivenIs

\* The first choice: the closest ratios.
LEMMA CoerceTries ==
  ASSUME BestInv, TriedInv, Coerce
  PROVE  TriedInv'
<1>1. /\ pc' = "group" /\ rectangles' = rectangles /\ tried' = Append(tried, Closest)
      /\ ratio_indices' = Closest /\ leaf_ratios' = [l \in Label |-> LeafRatios \ {ClosestLeaf(l)}]
  BY DEF Coerce, StartPermute, Closest
<1>2. tried' = <<Closest>>
  BY <1>1 DEF Coerce, TriedInv
<1>3. IsSequence(tried') /\ Len(tried') = 1 /\ DOMAIN tried' = {1} /\ tried'[1] = Closest
  BY <1>2 DEF IsSequence
<1>4. /\ Label' = Label /\ \A l : ClosestLeaf(l)' = ClosestLeaf(l)
  BY <1>1 DEF Label, ClosestLeaf
<1>5. Closest' = Closest /\ Pairs' = Pairs /\ \A p : Given(p)' = Given(p)
  BY <1>4 DEF Closest, Pairs, Given
<1>6. \A l \in Label : Closest[l] = ClosestLeaf(l)
  BY DEF Closest
<1>7. \A p \in Pairs : Open(p)' /\ Given(p) # Closest
  <2> SUFFICES ASSUME NEW p \in Pairs
               PROVE  p[2] \in leaf_ratios'[p[1]] /\ Given(p) # Closest
    BY DEF Open
  <2> QED BY <1>1, GivenIs
<1>8. TriedOnce'
  BY <1>3, <1>5, <1>7 DEF TriedOnce
<1>9. LeastFirst'
  BY <1>3, <1>5, <1>7 DEF LeastFirst
<1>10. \A l \in Label : ClosestLeaf(l) \notin leaf_ratios'[l] /\ ratio_indices'[l] = ClosestLeaf(l)
  BY <1>1, <1>6
<1> QED BY <1>1, <1>3, <1>4, <1>8, <1>9, <1>10 DEF TriedInv

\* Where no choice is made.
LEMMA StaysTried ==
  ASSUME TriedInv, pc # "coerce", pc' # "coerce",
         UNCHANGED <<rectangles, ratio_indices, leaf_ratios, min_dif_index, tried>>,
         pc' = "done" => best' # <<>> \/ \A l \in Label : leaf_ratios[l] = {}
  PROVE  TriedInv'
<1>1. Label' = Label /\ \A l : ClosestLeaf(l)' = ClosestLeaf(l)
  BY DEF Label, ClosestLeaf
<1>2. Closest' = Closest /\ Pairs' = Pairs /\ \A p : Given(p)' = Given(p)
  BY <1>1 DEF Closest, Pairs, Given
<1>3. \A p : Open(p)' = Open(p) /\ DamageOf(p)' = DamageOf(p)
  BY DEF Open, DamageOf, Damage
<1>4. TriedOnce' /\ LeastFirst'
  BY <1>2, <1>3 DEF TriedInv, TriedOnce, LeastFirst
<1> QED BY <1>1, <1>4 DEF TriedInv

\* The last choice is taken back, and the open pair of the least damage is next.
LEMMA SubstituteTries ==
  ASSUME BestInv, TriedInv, Substitute
  PROVE  TriedInv'
<1> DEFINE Nearest(l) == FindClosestIn(rectangles[l].ratio, leaf_ratios[l])
           open == {l \in Label : leaf_ratios[l] # {}}
<1>1. /\ rectangles \in Sections /\ LeavesInv /\ min_dif_index \in Label /\ pc # "coerce"
      /\ TriedOnce /\ LeastFirst /\ IsSequence(tried)
      /\ \A l \in Label : /\ ClosestLeaf(l) \notin leaf_ratios[l]
                          /\ l # min_dif_index => ratio_indices[l] = ClosestLeaf(l)
  BY DEF Substitute, Ranked, BestInv, BaseInv, TriedInv
<1>2. PICK l \in Label : /\ l \in open
                         /\ \A m \in open : AtMost(Damage(l, Nearest(l)), Damage(m, Nearest(m)))
                         /\ StartPermute([Reset EXCEPT ![l] = Nearest(l)])
                         /\ leaf_ratios' = [leaf_ratios EXCEPT ![l] = @ \ {Nearest(l)}]
                         /\ min_dif_index' = l
  BY DEF Substitute
<1>3. \A m \in open : /\ Nearest(m) \in leaf_ratios[m] /\ Nearest(m) \in LeafRatios
                      /\ \A n \in leaf_ratios[m] : AtMost(Damage(m, Nearest(m)), Damage(m, n))
  <2> SUFFICES ASSUME NEW m \in open
               PROVE  /\ Nearest(m) \in leaf_ratios[m] /\ Nearest(m) \in LeafRatios
                      /\ \A n \in leaf_ratios[m] : AtMost(Damage(m, Nearest(m)), Damage(m, n))
    OBVIOUS
  <2>1. /\ leaf_ratios[m] \in SUBSET RatioIndex /\ leaf_ratios[m] # {}
        /\ leaf_ratios[m] \subseteq LeafRatios
    BY <1>1, LeafRatiosAssumption DEF LeavesInv
  <2>2. rectangles[m].ratio \in Numbers
    BY <1>1, SectionsAssumption DEF Label
  <2>3. /\ Nearest(m) \in leaf_ratios[m]
        /\ \A n \in leaf_ratios[m] : AtMost(Distance(rectangles[m].ratio, Nearest(m)),
                                            Distance(rectangles[m].ratio, n))
    BY <2>1, <2>2, ClosestIsNearest
  <2>4. \A n \in leaf_ratios[m] : Damage(m, n) = Distance(rectangles[m].ratio, n)
    BY <1>1, <2>1, DamageIs
  <2> QED BY <2>1, <2>3, <2>4
<1> DEFINE new == <<l, Nearest(l)>>
<1>4. new \in Pairs /\ new[1] = l /\ new[2] = Nearest(l) /\ Open(new)
  <2>1. Nearest(l) \in leaf_ratios[l] /\ Nearest(l) \in LeafRatios /\ ClosestLeaf(l) \notin leaf_ratios[l]
    BY <1>1, <1>2, <1>3
  <2>2. Closest[l] = ClosestLeaf(l)
    BY DEF Closest
  <2> QED BY <2>1, <2>2 DEF Pairs, Open
<1>5. [Reset EXCEPT ![l] = Nearest(l)] = Given(new)
  <2>1. Reset = Closest
    BY <1>1 DEF Reset, Closest, LeavesInv
  <2> QED BY <2>1 DEF Given
<1>6. /\ rectangles' = rectangles /\ pc' = "group" /\ ratio_indices' = Given(new)
      /\ tried' = Append(tried, Given(new))
  BY <1>2, <1>5 DEF StartPermute
<1>7. Label' = Label /\ \A m : ClosestLeaf(m)' = ClosestLeaf(m)
  BY <1>6 DEF Label, ClosestLeaf
<1>8. /\ Closest' = Closest /\ Pairs' = Pairs
      /\ \A p : Given(p)' = Given(p) /\ DamageOf(p)' = DamageOf(p)
  BY <1>6, <1>7 DEF Closest, Pairs, Given, DamageOf, Damage
<1>9. \A p \in Pairs : Open(p)' <=> Open(p) /\ p # new
  <2> SUFFICES ASSUME NEW p \in Pairs
               PROVE  p[2] \in leaf_ratios'[p[1]] <=> p[2] \in leaf_ratios[p[1]] /\ p # new
    BY DEF Open
  <2>1. p[1] \in Label /\ p = <<p[1], p[2]>>
    BY GivenIs
  <2>2. CASE p[1] = l
    <3>1. leaf_ratios'[p[1]] = leaf_ratios[p[1]] \ {Nearest(l)}
      BY <1>1, <1>2, <2>2 DEF LeavesInv
    <3>2. p = new <=> p[2] = Nearest(l)
      BY <1>4, <2>1, <2>2
    <3> QED BY <3>1, <3>2
  <2>3. CASE p[1] # l
    <3>1. leaf_ratios'[p[1]] = leaf_ratios[p[1]]
      BY <1>1, <1>2, <2>1, <2>3 DEF LeavesInv
    <3> QED BY <1>4, <2>3, <3>1
  <2> QED BY <2>2, <2>3
<1>10. /\ \A p \in Pairs : DamageOf(p) \in Numbers
       /\ \A p \in Pairs : Open(p) => AtMost(DamageOf(new), DamageOf(p))
  <2>1. \A p \in Pairs : DamageOf(p) \in Numbers
    BY <1>1, GivenIs, DamageIs, LeafRatiosAssumption DEF DamageOf
  <2>2. ASSUME NEW p \in Pairs, Open(p)
        PROVE  AtMost(DamageOf(new), DamageOf(p))
    <3>1. p[1] \in Label /\ p[2] \in leaf_ratios[p[1]] /\ p[1] \in open
      BY <2>2, GivenIs DEF Open
    <3>2. AtMost(Damage(l, Nearest(l)), Damage(p[1], Nearest(p[1])))
      BY <1>2, <3>1
    <3>3. AtMost(Damage(p[1], Nearest(p[1])), Damage(p[1], p[2]))
      BY <1>3, <3>1
    <3>4. /\ Damage(p[1], Nearest(p[1])) \in Numbers
      BY <1>1, <1>3, <3>1, DamageIs, LeafRatiosAssumption
    <3>5. DamageOf(new) = Damage(l, Nearest(l)) /\ DamageOf(p) = Damage(p[1], p[2])
      BY <1>4 DEF DamageOf
    <3>6. DamageOf(new) \in Numbers /\ DamageOf(p) \in Numbers
      BY <1>4, <2>1
    <3> HIDE DEF Nearest, open, new
    <3> QED BY <3>2, <3>3, <3>4, <3>5, <3>6, AtMostTransitive
  <2> QED BY <2>1, <2>2
<1>11. PICK N \in Nat : N = Len(tried)
  BY <1>1 DEF IsSequence
<1>12. /\ IsSequence(tried') /\ Len(tried') = N + 1 /\ DOMAIN tried' = 1 .. N + 1
       /\ DOMAIN tried = 1 .. N
       /\ \A n \in 1 .. N : tried'[n] = tried[n]
       /\ tried'[N + 1] = Given(new)
  <2> DEFINE x == Given(new)
  <2>1. IsSequence(tried') /\ tried' = Append(tried, x)
    BY <1>1, <1>6, AppendedElements
  <2>2. tried \in Seq({tried[n] : n \in DOMAIN tried})
    BY <1>1 DEF IsSequence
  <2> HIDE DEF x
  <2>3. /\ Len(tried') = N + 1 /\ DOMAIN tried' = 1 .. N + 1 /\ DOMAIN tried = 1 .. N
        /\ \A n \in 1 .. N : tried'[n] = tried[n]
        /\ tried'[N + 1] = x
    BY <1>11, <2>1, <2>2
  <2> QED BY <2>1, <2>3 DEF x
<1> HIDE DEF Nearest, open, new
<1>13. N >= 1 /\ \A n \in 1 .. N : tried[n] # Given(new)
  BY <1>1, <1>4, <1>11, <1>12 DEF TriedOnce
<1>14. \A m \in DOMAIN tried' : m \in 1 .. N \/ m = N + 1
  BY <1>11, <1>12
<1>15. TriedOnce'
  <2>1. Len(tried') >= 1 /\ tried'[1] = Closest
    BY <1>1, <1>11, <1>12, <1>13 DEF TriedOnce
  <2>2. ASSUME NEW n \in 2 .. Len(tried')
        PROVE  \E p \in Pairs : tried'[n] = Given(p)
    <3>1. n \in 2 .. N \/ n = N + 1
      BY <1>11, <1>12, <2>2
    <3>2. CASE n \in 2 .. N
      BY <1>1, <1>11, <1>12, <3>2 DEF TriedOnce
    <3>3. CASE n = N + 1
      BY <1>4, <1>12, <3>3
    <3> QED BY <3>1, <3>2, <3>3
  <2>3. ASSUME NEW p \in Pairs
        PROVE  Open(p)' <=> \A n \in DOMAIN tried' : tried'[n] # Given(p)
    <3>1. Open(p)' <=> (\A n \in 1 .. N : tried[n] # Given(p)) /\ p # new
      BY <1>1, <1>9, <1>12 DEF TriedOnce
    <3>2. p # new <=> tried'[N + 1] # Given(p)
      BY <1>4, <1>12, GivenOnce
    <3>3. (\A n \in DOMAIN tried' : tried'[n] # Given(p)) <=>
             (\A n \in 1 .. N : tried[n] # Given(p)) /\ tried'[N + 1] # Given(p)
      BY <1>11, <1>12, <1>14
    <3> QED BY <3>1, <3>2, <3>3
  <2>4. ASSUME NEW m \in DOMAIN tried', NEW n \in DOMAIN tried', m < n
        PROVE  tried'[m] # tried'[n]
    <3>1. m \in 1 .. N
      BY <1>11, <1>12, <2>4
    <3>2. CASE n \in 1 .. N
      BY <1>1, <1>12, <2>4, <3>1, <3>2 DEF TriedOnce
    <3>3. CASE n = N + 1
      BY <1>12, <1>13, <3>1, <3>3
    <3> QED BY <1>14, <3>2, <3>3
  <2> QED BY <1>8, <2>1, <2>2, <2>3, <2>4 DEF TriedOnce
<1>16. LeastFirst'
  <2>1. ASSUME NEW m \in DOMAIN tried', NEW n \in DOMAIN tried', NEW p \in Pairs, NEW q \in Pairs,
               m < n, tried'[m] = Given(p), tried'[n] = Given(q)
        PROVE  AtMost(DamageOf(p), DamageOf(q))
    <3>1. m \in 1 .. N /\ tried[m] = Given(p)
      BY <1>11, <1>12, <2>1
    <3>2. CASE n \in 1 .. N
      BY <1>1, <1>12, <2>1, <3>1, <3>2 DEF LeastFirst
    <3>3. CASE n = N + 1
      <4>1. q = new
        BY <1>4, <1>12, <2>1, <3>3, GivenOnce
      <4> QED BY <1>1, <1>4, <1>12, <3>1, <4>1 DEF LeastFirst
    <3> QED BY <1>14, <3>2, <3>3
  <2>2. ASSUME NEW n \in DOMAIN tried', NEW p \in Pairs, NEW q \in Pairs,
               tried'[n] = Given(p), Open(q)'
        PROVE  AtMost(DamageOf(p), DamageOf(q))
    <3>1. Open(q)
      BY <1>9, <2>2
    <3>2. CASE n \in 1 .. N
      BY <1>1, <1>12, <2>2, <3>1, <3>2 DEF LeastFirst
    <3>3. CASE n = N + 1
      <4>1. p = new
        BY <1>4, <1>12, <2>2, <3>3, GivenOnce
      <4> QED BY <1>10, <3>1, <4>1
    <3> QED BY <1>14, <3>2, <3>3
  <2> QED BY <1>8, <2>1, <2>2 DEF LeastFirst
<1>17. \A m \in Label : /\ ClosestLeaf(m) \notin leaf_ratios'[m]
                        /\ m # l => ratio_indices'[m] = ClosestLeaf(m)
  <2> SUFFICES ASSUME NEW m \in Label
               PROVE  /\ ClosestLeaf(m) \notin leaf_ratios'[m]
                      /\ m # l => ratio_indices'[m] = ClosestLeaf(m)
    OBVIOUS
  <2>1. leaf_ratios'[m] \subseteq leaf_ratios[m]
    BY <1>1, <1>2 DEF LeavesInv
  <2> QED BY <1>1, <1>4, <1>6, <2>1, GivenIs
<1> QED BY <1>2, <1>6, <1>7, <1>12, <1>15, <1>16, <1>17 DEF TriedInv

\* What has been tried and what is open, in every state.
THEOREM TriedInvariant == Spec => []TriedInv
<1>1. Init => TriedInv
  <2>1. IsSequence(<<>>)
    BY DEF IsSequence
  <2> QED BY <2>1 DEF Init, TriedInv
<1>2. BestInv /\ TriedInv /\ [Next \/ Returned]_vars => TriedInv'
  <2> SUFFICES ASSUME BestInv, TriedInv, [Next \/ Returned]_vars
               PROVE  TriedInv'
    OBVIOUS
  <2>1. CASE MakeGroups
    <3>1. pc = "group" /\ UNCHANGED <<rectangles, base_vars>>
      BY <2>1 DEF MakeGroups, GroupStep, SkipPair, DropGroup, KeepGroup, EndRound
    <3> QED BY <3>1, StaysTried DEF base_vars
  <2>2. CASE GroupsMade \/ RankGroup
    <3>1. /\ UNCHANGED <<rectangles, ratio_indices, leaf_ratios, min_dif_index, tried>>
          /\ pc # "coerce" /\ pc' = "rank"
      BY <2>2 DEF GroupsMade, RankGroup, join_vars
    <3> QED BY <3>1, StaysTried
  <2>3. CASE Return
    <3>1. /\ UNCHANGED <<rectangles, ratio_indices, leaf_ratios, min_dif_index, tried, best>>
          /\ pc # "coerce" /\ pc' = "done"
          /\ best # <<>> \/ \A l \in Label : leaf_ratios[l] = {}
      BY <2>3 DEF Return, Ranked, join_vars
    <3> QED BY <3>1, StaysTried
  <2>4. CASE UNCHANGED vars
    <3>1. UNCHANGED <<rectangles, ratio_indices, leaf_ratios, min_dif_index, tried, best, pc>>
      BY <2>4 DEF vars, join_vars, base_vars
    <3>2. CASE pc = "coerce"
      BY <3>1, <3>2 DEF TriedInv
    <3>3. CASE pc # "coerce"
      BY <3>1, <3>3, StaysTried DEF TriedInv
    <3> QED BY <3>2, <3>3
  <2> QED BY <2>1, <2>2, <2>3, <2>4, CoerceTries, SubstituteTries DEF Next, Returned
<1> QED BY <1>1, <1>2, BestInvariant, PTL DEF Spec

\* When CreateBaseGroups returns, all ratios it has tried but one are the
\* closest ones, it has tried no choice twice and none before one that does less
\* damage, and all of them if it found no group of the whole section: for any
\* table of ratios, any leaf ratios and any section.
THEOREM LeastDamageFirstCorrect == Spec => []LeastDamageFirst
<1>1. BestInv /\ TriedInv => LeastDamageFirst
  <2> DEFINE first == [given |-> Closest, damage |-> Whole(-1)]
             Sub(p) == [given |-> Given(p), damage |-> DamageOf(p)]
             done == {s \in Substitutions : s.given \in Range(tried)}
             At(n) == (CHOOSE s \in done : s.given = tried[n]).damage
  <2> SUFFICES ASSUME BestInv, TriedInv, pc = "done"
               PROVE  /\ Range(tried) = {s.given : s \in done} /\ IsInjective(tried)
                      /\ \A n \in 1 .. Len(tried) - 1 : AtMost(At(n), At(n + 1))
                      /\ \A s \in Substitutions \ done : AtMost(At(Len(tried)), s.damage)
                      /\ best = <<>> => done = Substitutions
    BY DEF LeastDamageFirst
  <2>1. /\ TriedOnce /\ LeastFirst /\ IsSequence(tried) /\ LeavesInv /\ rectangles \in Sections
        /\ best # <<>> \/ \A l \in Label : leaf_ratios[l] = {}
    BY DEF TriedInv, BestInv, BaseInv
  <2>2. Substitutions = {first} \cup {Sub(p) : p \in Pairs}
    BY DEF Substitutions, Closest, Pairs, Given, DamageOf
  <2>3. PICK N \in Nat : N = Len(tried) /\ DOMAIN tried = 1 .. N /\ N >= 1
    BY <2>1 DEF IsSequence, TriedOnce
  <2>4. first.given = Closest /\ first.damage = Whole(-1)
    OBVIOUS
  <2>5. \A p \in Pairs : Sub(p).given = Given(p) /\ Sub(p).damage = DamageOf(p)
    OBVIOUS
  <2>6. \A p \in Pairs : /\ DamageOf(p) \in Numbers /\ AtMost(Whole(-1), DamageOf(p))
                         /\ Given(p) # Closest
    BY <2>1, GivenIs, DamageIs, LeafRatiosAssumption DEF DamageOf
  <2> HIDE DEF first, Sub
  <2>7. \A s \in Substitutions : s = first \/ \E p \in Pairs : s = Sub(p)
    BY <2>2
  <2>8. \A s, t \in Substitutions : s.given = t.given => s = t
    BY <2>4, <2>5, <2>6, <2>7, GivenOnce
  <2>9. ASSUME NEW n \in 1 .. N
        PROVE  \E s \in done : s.given = tried[n] /\ At(n) = s.damage
    <3>1. tried[n] \in Range(tried)
      BY <2>3 DEF Range
    <3>2. \E s \in Substitutions : s.given = tried[n]
      <4>1. CASE n = 1
        BY <2>1, <2>2, <2>4, <4>1 DEF TriedOnce
      <4>2. CASE n # 1
        <5>1. n \in 2 .. Len(tried)
          BY <2>3, <4>2
        <5>2. PICK p \in Pairs : tried[n] = Given(p)
          BY <2>1, <5>1 DEF TriedOnce
        <5> QED BY <2>2, <2>5, <5>2
      <4> QED BY <4>1, <4>2
    <3>3. PICK s \in done : s.given = tried[n]
      BY <3>1, <3>2
    <3>4. \A t \in done : t.given = tried[n] => t = s
      BY <2>8, <3>3
    <3>5. (CHOOSE t \in done : t.given = tried[n]) = s
      BY <3>3, <3>4
    <3> QED BY <3>3, <3>5
  <2>10. Range(tried) = {s.given : s \in done}
    <3>1. \A n \in 1 .. N : tried[n] \in {s.given : s \in done}
      BY <2>9
    <3> QED BY <2>3, <3>1 DEF Range
  <2>11. IsInjective(tried)
    <3>1. \A m, n \in 1 .. N : m < n \/ n < m \/ m = n
      OBVIOUS
    <3> QED BY <2>1, <2>3, <3>1 DEF IsInjective, TriedOnce
  <2> HIDE DEF done, At
  <2>12. ASSUME NEW n \in 2 .. N
         PROVE  \E p \in Pairs : tried[n] = Given(p) /\ At(n) = DamageOf(p)
    <3>1. n \in 1 .. N /\ n \in 2 .. Len(tried)
      BY <2>3
    <3>2. PICK p \in Pairs : tried[n] = Given(p)
      BY <2>1, <3>1 DEF TriedOnce
    <3>3. PICK s \in Substitutions : s.given = tried[n] /\ At(n) = s.damage
      BY <2>9, <3>1 DEF done
    <3>4. s = Sub(p)
      BY <2>2, <2>5, <2>8, <3>2, <3>3
    <3> QED BY <2>5, <3>2, <3>3, <3>4
  <2>13. tried[1] = Closest /\ At(1) = Whole(-1)
    <3>1. PICK s \in Substitutions : s.given = tried[1] /\ At(1) = s.damage
      BY <2>3, <2>9 DEF done
    <3> QED BY <2>1, <2>2, <2>4, <2>8, <3>1 DEF TriedOnce
  <2>14. ASSUME NEW n \in 1 .. Len(tried) - 1
         PROVE  AtMost(At(n), At(n + 1))
    <3>1. n \in 1 .. N /\ n + 1 \in 2 .. N /\ n + 1 \in 1 .. N /\ n < n + 1
      BY <2>3
    <3>2. PICK q \in Pairs : tried[n + 1] = Given(q) /\ At(n + 1) = DamageOf(q)
      BY <2>12, <3>1
    <3>3. CASE n = 1
      BY <2>6, <2>13, <3>2, <3>3
    <3>4. CASE n # 1
      <4>1. n \in 2 .. N
        BY <3>1, <3>4
      <4>2. PICK p \in Pairs : tried[n] = Given(p) /\ At(n) = DamageOf(p)
        BY <2>12, <4>1
      <4> QED BY <2>1, <2>3, <3>1, <3>2, <4>2 DEF LeastFirst
    <3> QED BY <3>3, <3>4
  <2>15. first \in done
    BY <2>1, <2>2, <2>3, <2>4 DEF done, TriedOnce, Range
  <2>16. \A p \in Pairs : Sub(p) \notin done => Open(p)
    BY <2>1, <2>2, <2>5 DEF done, TriedOnce, Range
  <2>17. ASSUME NEW s \in Substitutions \ done
         PROVE  AtMost(At(Len(tried)), s.damage)
    <3>1. PICK q \in Pairs : s = Sub(q) /\ Open(q)
      BY <2>7, <2>15, <2>16
    <3>2. CASE N = 1
      BY <2>3, <2>5, <2>6, <2>13, <3>1, <3>2
    <3>3. CASE N # 1
      <4>1. N \in 2 .. N /\ N \in 1 .. N
        BY <2>3, <3>3
      <4>2. PICK p \in Pairs : tried[N] = Given(p) /\ At(N) = DamageOf(p)
        BY <2>12, <4>1
      <4> QED BY <2>1, <2>3, <2>5, <3>1, <4>1, <4>2 DEF LeastFirst
    <3> QED BY <3>2, <3>3
  <2>18. ASSUME best = <<>>
         PROVE  done = Substitutions
    <3>1. \A p \in Pairs : ~Open(p)
      BY <2>1, <2>18, GivenIs DEF Open
    <3> QED BY <2>7, <2>15, <2>16, <3>1 DEF done
  <2> QED BY <2>10, <2>11, <2>14, <2>17, <2>18
<1> QED BY <1>1, BestInvariant, TriedInvariant, PTL
-----------------------------------------------------------------------------
(* The groups are filled *)

\* What is apart stays apart.
LEMMA WithinApart ==
  ASSUME NEW n, NEW p, NEW whole, IsPart(whole, n, p),
         NEW a, InUnit(a), NEW b, InUnit(b), Apart(a, b)
  PROVE  Apart(Within(whole, a), Within(whole, b))
<1>1. /\ AtMost(a.right, b.left) => AtMost(Within(whole, a).right, Within(whole, b).left)
      /\ AtMost(b.right, a.left) => AtMost(Within(whole, b).right, Within(whole, a).left)
  BY SMTT(30), RangeScaled DEF IsPart, InUnit, Width, Within, Box
<1>2. /\ AtMost(a.bottom, b.top) => AtMost(Within(whole, a).bottom, Within(whole, b).top)
      /\ AtMost(b.bottom, a.top) => AtMost(Within(whole, b).bottom, Within(whole, a).top)
  BY RangeScaled DEF IsPart, InUnit, Height, Within, Box
<1> QED BY <1>1, <1>2 DEF Apart

\* A group is filled by its rectangles, each in the ratio given.
Fills(g, given) ==
  /\ \A l \in Labels(g) : given[l] \in RatioIndex /\ IsPart(g.boxes[l], g.ratio_index, given[l])
  /\ \A l, m \in Labels(g) : l # m => Apart(g.boxes[l], g.boxes[m])
  /\ PlusOver([l \in Labels(g) |-> Area(g.boxes[l])], Labels(g)) = Whole(1)

LEMMA LeafFills ==
  ASSUME NEW n \in RatioIndex, NEW l, NEW given, given[l] = n,
         NEW g, g = Leaf(n, l)
  PROVE  Fills(g, given)
<1>1. g.ratio_index = n /\ g.boxes = [m \in {l} |-> UnitSquare]
  BY DEF Leaf
<1>2. Labels(g) = {l} /\ g.boxes[l] = UnitSquare
  BY <1>1 DEF Labels
<1>3. /\ UnitSquare.left = Whole(0) /\ UnitSquare.right = Whole(1)
      /\ UnitSquare.top = Whole(0) /\ UnitSquare.bottom = Whole(1)
      /\ UnitSquare \in Boxes
      /\ Width(UnitSquare) = Whole(1) /\ Height(UnitSquare) = Whole(1)
  BY UnitSides, BoxIs DEF UnitSquare
<1>4. Area(UnitSquare) = Whole(1)
  BY <1>3, UnitSides, Neutral DEF Area
<1>5. IsPart(UnitSquare, n, n)
  BY <1>3, UnitSides DEF IsPart, InUnit
<1>6. PlusOver([k \in {l} |-> Area(g.boxes[k])], {l}) = Whole(1)
  <2> DEFINE f == [k \in {l} |-> Area(g.boxes[k])]
  <2>1. f[l] = Whole(1) /\ \A k \in {} \cup {l} : f[k] \in Numbers
    BY <1>2, <1>4, UnitSides
  <2>2. IsFiniteSet({}) /\ l \notin {} /\ {} \cup {l} = {l}
    BY FS_EmptySet
  <2> HIDE DEF f
  <2>3. PlusOver(f, {} \cup {l}) = Plus(f[l], PlusOver(f, {}))
    BY <2>1, <2>2, PlusOverMore
  <2>4. PlusOver(f, {l}) = Plus(Whole(1), Whole(0))
    BY <2>1, <2>2, <2>3, PlusOverEmpty
  <2>5. Plus(Whole(1), Whole(0)) = Plus(Whole(0), Whole(1)) /\ Plus(Whole(0), Whole(1)) = Whole(1)
    BY UnitSides, Commutes, Neutral
  <2> QED BY <2>4, <2>5 DEF f
<1>7. given[l] \in RatioIndex /\ IsPart(g.boxes[l], g.ratio_index, given[l])
  BY <1>1, <1>2, <1>5
<1>8. \A k \in Labels(g) : k = l
  BY <1>2
<1> QED BY <1>2, <1>6, <1>7, <1>8 DEF Fills

\* Two groups that fill theirs, joined to what their ratios make, fill it.
LEMMA JoinFills ==
  ASSUME NEW given, NEW g, NEW h, IsGroup(g), IsGroup(h), Labels(g) \cap Labels(h) = {},
         Fills(g, given), Fills(h, given),
         NEW n \in RatioIndex, NEW type,
         Complement(n, type) \in Joins(g.ratio_index, h.ratio_index),
         NEW group, group = Join(n, type, g, h)
  PROVE  Fills(group, given)
<1>1. PICK p \in RatioIndex, q \in RatioIndex : p = g.ratio_index /\ q = h.ratio_index
  BY DEF IsGroup
<1>2. PICK first, second : first = First(n, type, p) /\ second = Second(n, type, p)
  OBVIOUS
<1>3. /\ IsPart(first, n, p) /\ IsPart(second, n, q)
      /\ Plus(Area(first), Area(second)) = Whole(1)
      /\ first.right = second.left \/ first.bottom = second.top
  BY <1>1, <1>2, PartsOfSquare
<1>4. /\ group.ratio_index = n
      /\ Labels(group) = Labels(g) \cup Labels(h)
      /\ \A l \in Labels(g) : group.boxes[l] = Within(first, g.boxes[l])
      /\ \A l \in Labels(h) : group.boxes[l] = Within(second, h.boxes[l])
  BY <1>1, <1>2, JoinIs
<1>5. ASSUME NEW l \in Labels(g)
      PROVE  /\ given[l] \in RatioIndex /\ IsPart(g.boxes[l], p, given[l])
             /\ IsPart(group.boxes[l], n, given[l])
             /\ Area(group.boxes[l]) = Times(Area(g.boxes[l]), Area(first))
             /\ AtMost(group.boxes[l].right, first.right)
             /\ AtMost(group.boxes[l].bottom, first.bottom)
  <2>1. given[l] \in RatioIndex /\ IsPart(g.boxes[l], p, given[l])
    BY <1>1 DEF Fills
  <2> QED BY <1>3, <1>4, <2>1, WithinIsPart
<1>6. ASSUME NEW l \in Labels(h)
      PROVE  /\ given[l] \in RatioIndex /\ IsPart(h.boxes[l], q, given[l])
             /\ IsPart(group.boxes[l], n, given[l])
             /\ Area(group.boxes[l]) = Times(Area(h.boxes[l]), Area(second))
             /\ AtMost(second.left, group.boxes[l].left)
             /\ AtMost(second.top, group.boxes[l].top)
  <2>1. given[l] \in RatioIndex /\ IsPart(h.boxes[l], q, given[l])
    BY <1>1 DEF Fills
  <2> QED BY <1>3, <1>4, <2>1, WithinIsPart
<1>7. ASSUME NEW l \in Labels(g), NEW m \in Labels(h)
      PROVE  Apart(group.boxes[l], group.boxes[m]) /\ Apart(group.boxes[m], group.boxes[l])
  <2>1. PICK a, b : a = group.boxes[l] /\ b = group.boxes[m]
    OBVIOUS
  <2>2. /\ a.right \in Numbers /\ a.bottom \in Numbers /\ b.left \in Numbers /\ b.top \in Numbers
        /\ first.right \in Numbers /\ first.bottom \in Numbers
    BY <1>3, <1>5, <1>6, <2>1, ReducedIsNumber DEF IsPart, InUnit
  <2>3. AtMost(a.right, first.right) /\ AtMost(a.bottom, first.bottom)
    BY <1>5, <2>1
  <2>4. AtMost(second.left, b.left) /\ AtMost(second.top, b.top)
    BY <1>6, <2>1
  <2>5. AtMost(a.right, b.left) \/ AtMost(a.bottom, b.top)
    BY <1>3, <2>2, <2>3, <2>4, AtMostTransitive
  <2> QED BY <2>1, <2>5 DEF Apart
<1>8. ASSUME NEW l \in Labels(group), NEW m \in Labels(group), l # m
      PROVE  Apart(group.boxes[l], group.boxes[m])
  <2>1. CASE l \in Labels(g) /\ m \in Labels(g)
    <3>1. Apart(g.boxes[l], g.boxes[m]) /\ InUnit(g.boxes[l]) /\ InUnit(g.boxes[m])
      BY <1>5, <1>8, <2>1 DEF Fills, IsPart
    <3> QED BY <1>3, <1>4, <2>1, <3>1, WithinApart
  <2>2. CASE l \in Labels(h) /\ m \in Labels(h)
    <3>1. Apart(h.boxes[l], h.boxes[m]) /\ InUnit(h.boxes[l]) /\ InUnit(h.boxes[m])
      BY <1>6, <1>8, <2>2 DEF Fills, IsPart
    <3> QED BY <1>3, <1>4, <2>2, <3>1, WithinApart
  <2> QED BY <1>4, <1>7, <2>1, <2>2
<1>9. PlusOver([l \in Labels(group) |-> Area(group.boxes[l])], Labels(group)) = Whole(1)
  <2> DEFINE f  == [l \in Labels(group) |-> Area(group.boxes[l])]
             fg == [l \in Labels(g) |-> Area(g.boxes[l])]
             fh == [l \in Labels(h) |-> Area(h.boxes[l])]
             sg == [l \in Labels(g) |-> Times(fg[l], Area(first))]
             sh == [l \in Labels(h) |-> Times(fh[l], Area(second))]
  <2>1. \A box \in Boxes : Area(box) \in Numbers
    BY TimesIsNumber, PlusIsNumber DEF Boxes, Area, Width, Height
  <2>2. PICK a \in Reduced, b \in Reduced : a = Area(first) /\ b = Area(second)
    <3>1. \A box \in Boxes : Area(box) \in Reduced
      BY RawAre, PlusIsNumber DEF Boxes, Area, Width, Height
    <3> QED BY <1>3, <3>1 DEF IsPart
  <2>3. a \in Numbers /\ b \in Numbers
    BY ReducedIsNumber
  <2>4. IsFiniteSet(Labels(g)) /\ IsFiniteSet(Labels(h))
    BY DEF IsGroup
  <2>5. \A l \in Labels(g) : /\ fg[l] \in Numbers /\ sg[l] = Times(fg[l], a) /\ sg[l] = f[l]
                             /\ f[l] \in Numbers
    BY <1>4, <1>5, <2>1, <2>2 DEF IsPart
  <2>6. \A l \in Labels(h) : /\ fh[l] \in Numbers /\ sh[l] = Times(fh[l], b) /\ sh[l] = f[l]
                             /\ f[l] \in Numbers
    BY <1>4, <1>6, <2>1, <2>2 DEF IsPart
  <2>7. PlusOver(fg, Labels(g)) = Whole(1) /\ PlusOver(fh, Labels(h)) = Whole(1)
    BY DEF Fills
  <2> HIDE DEF f, fg, fh, sg, sh
  <2>8. PlusOver(sg, Labels(g)) = Times(PlusOver(fg, Labels(g)), a)
    BY <2>3, <2>4, <2>5, PlusOverScaled
  <2>9. PlusOver(sh, Labels(h)) = Times(PlusOver(fh, Labels(h)), b)
    BY <2>3, <2>4, <2>6, PlusOverScaled
  <2>10. Times(Whole(1), a) = a /\ Times(Whole(1), b) = b
    BY Neutral
  <2>11. PlusOver(f, Labels(g) \cup Labels(h)) = Plus(PlusOver(sg, Labels(g)), PlusOver(sh, Labels(h)))
    BY <2>4, <2>5, <2>6, PlusOverUnion
  <2>12. PlusOver(f, Labels(group)) = Whole(1)
    BY <1>3, <1>4, <2>2, <2>7, <2>8, <2>9, <2>10, <2>11
  <2> QED BY <2>12 DEF f
<1>10. \A l \in Labels(group) : given[l] \in RatioIndex /\ IsPart(group.boxes[l], group.ratio_index, given[l])
  BY <1>4, <1>5, <1>6
<1> QED BY <1>8, <1>9, <1>10 DEF Fills
\* The inductive invariant for GroupsAreFilled: the map of complements is
\* exact, and the groups of this round and the rounds before are filled by
\* the ratios given now.
FilledInv ==
  pc # "coerce" => /\ IsExact(complements_rmap)
                   /\ \A g \in Known : Fills(g, ratio_indices)

\* What the map says two groups make, in either order, their ratios make.
LEMMA MadeIsExact ==
  ASSUME IsExact(complements_rmap), NEW g, NEW h,
         g.ratio_index \in RatioIndex, h.ratio_index \in RatioIndex,
         NEW n \in 1 .. Len(MadeOf(g, h))
  PROVE  /\ MadeOf(g, h)[n].index \in RatioIndex
         /\ Complement(MadeOf(g, h)[n].index, MadeOf(g, h)[n].split_type)
              \in Joins(g.ratio_index, h.ratio_index)
<1>1. PICK p \in RatioIndex, q \in RatioIndex : p = g.ratio_index /\ q = h.ratio_index
  OBVIOUS
<1>2. PICK made : made = MadeOf(g, h)[n]
  OBVIOUS
<1>3. made.index \in RatioIndex /\ made \in Joins(p, q) \cup Joins(q, p)
  <2>1. CASE <<p, q>> \in DOMAIN complements_rmap
    <3>1. MadeOf(g, h) = complements_rmap[<<p, q>>]
      BY <1>1, <2>1 DEF MadeOf
    <3>2. <<p, q>> \in RatioIndex \X RatioIndex /\ <<p, q>>[1] = p /\ <<p, q>>[2] = q
      OBVIOUS
    <3> QED BY <1>2, <2>1, <3>1, <3>2 DEF IsExact
  <2>2. CASE <<p, q>> \notin DOMAIN complements_rmap /\ <<q, p>> \in DOMAIN complements_rmap
    <3>1. MadeOf(g, h) = complements_rmap[<<q, p>>]
      BY <1>1, <2>2 DEF MadeOf
    <3>2. <<q, p>> \in RatioIndex \X RatioIndex /\ <<q, p>>[1] = q /\ <<q, p>>[2] = p
      OBVIOUS
    <3> QED BY <1>2, <2>2, <3>1, <3>2 DEF IsExact
  <2>3. CASE <<p, q>> \notin DOMAIN complements_rmap /\ <<q, p>> \notin DOMAIN complements_rmap
    <3>1. MadeOf(g, h) = <<>>
      BY <1>1, <2>3 DEF MadeOf
    <3> QED BY <3>1
  <2> QED BY <2>1, <2>2, <2>3
<1>4. made \in Joins(p, q)
  BY <1>3, JoinsCommute
<1>5. made = Complement(made.index, made.split_type)
  BY <1>4 DEF Joins, Complement
<1> QED BY <1>1, <1>2, <1>3, <1>4, <1>5

LEMMA GroupStepFills ==
  ASSUME JoinsInv, AreGroups, GroupStep, IsExact(complements_rmap),
         NEW given, \A g \in Known : Fills(g, given)
  PROVE  \A g \in Known' : Fills(g, given)
<1>1. IsSequence(label_groups) /\ IsSequence(new_groups)
  BY DEF JoinsInv, Shape
<1>2. CASE SkipPair \/ DropGroup
  BY <1>2 DEF SkipPair, DropGroup, Known
<1>3. CASE KeepGroup
  <2>1. Range(new_groups') = Range(new_groups) \cup {NewGroup} /\ UNCHANGED label_groups
    BY <1>1, <1>3, AppendedElements DEF KeepGroup
  <2>2. Fills(NewGroup, given)
    <3>1. Joinable /\ made_at \in Nat /\ base_at \in Nat /\ other_at \in Nat
      BY <1>3, AtPair DEF KeepGroup, JoinsInv, Shape
    <3>2. base_at + 1 \in DOMAIN label_groups /\ other_at + 1 \in DOMAIN label_groups
      BY <3>1, AtPair DEF Joinable, JoinsInv
    <3>3. BaseGroup \in Known /\ OtherGroup \in Known
      BY <3>2 DEF Known, Range, BaseGroup, OtherGroup
    <3>4. PICK g, h : /\ g = BaseGroup /\ h = OtherGroup
                      /\ IsGroup(g) /\ IsGroup(h) /\ Fills(g, given) /\ Fills(h, given)
      BY <3>3 DEF AreGroups
    <3>5. PICK n \in Nat, size \in Nat : n = made_at + 1 /\ size = Len(MadeOf(g, h))
      <4>1. made_at + 1 \in Nat
        BY <3>1
      <4>2. Len(MadeOf(g, h)) \in Nat
        BY MadeIsCounted DEF JoinsInv
      <4> QED BY <4>1, <4>2
    <3>6. n \in 1 .. Len(MadeOf(g, h)) /\ Labels(g) \cap Labels(h) = {}
      BY <3>1, <3>4, <3>5 DEF Joinable, Fits, IsDisjoint
    <3>7. PICK made : made = MadeOf(g, h)[n]
      OBVIOUS
    <3>8. /\ made.index \in RatioIndex
          /\ Complement(made.index, made.split_type) \in Joins(g.ratio_index, h.ratio_index)
      BY <3>4, <3>6, <3>7, MadeIsExact DEF IsGroup
    <3>9. NewGroup = Join(made.index, made.split_type, g, h)
      BY <3>4, <3>5, <3>7 DEF NewGroup, GroupOf
    <3> QED BY <3>4, <3>6, <3>8, <3>9, JoinFills
  <2> QED BY <2>1, <2>2 DEF Known
<1>4. CASE EndRound
  <2>1. label_groups' = new_groups \o label_groups /\ new_groups' = <<>>
    BY <1>4 DEF EndRound
  <2>2. Range(label_groups') = Range(new_groups) \cup Range(label_groups)
    BY <1>1, <2>1, JoinedElements
  <2>3. Range(new_groups') = {}
    BY <2>1 DEF Range
  <2> QED BY <2>2, <2>3 DEF Known
<1> QED BY <1>2, <1>3, <1>4 DEF GroupStep

\* The leaves that a call of Group() starts from.
LEMMA StartPermuteFills ==
  ASSUME rectangles \in Sections, NEW given \in [Label -> RatioIndex], StartPermute(given)
  PROVE  ratio_indices' = given /\ \A g \in Known' : Fills(g, given)
<1> DEFINE N == Cardinality(Label)
           leaves == [m \in 1 .. N |-> Leaf(given[m - 1], m - 1)]
<1>1. N \in Nat /\ Label = 0 .. N - 1
  BY SectionsAssumption DEF Label
<1>2. StartGroup(leaves, min_cost) /\ ratio_indices' = given
  BY DEF StartPermute
<1> HIDE DEF N
<1>3. ASSUME NEW m \in 1 .. N
      PROVE  Fills(leaves[m], given)
  <2>1. m - 1 \in Label /\ leaves[m] = Leaf(given[m - 1], m - 1)
    BY <1>1
  <2>2. given[m - 1] \in RatioIndex
    BY <2>1
  <2> QED BY <2>1, <2>2, LeafFills
<1>4. DOMAIN leaves = 1 .. N
  OBVIOUS
<1> HIDE DEF leaves
<1>5. label_groups' = leaves /\ new_groups' = <<>>
  BY <1>2 DEF StartGroup
<1>6. \A g \in Known' : Fills(g, given)
  BY <1>3, <1>4, <1>5 DEF Known, Range
<1> QED BY <1>2, <1>6

THEOREM FilledInvariant == Spec => []FilledInv
<1>1. Init => FilledInv
  BY DEF Init, FilledInv
<1>2. FilledInv /\ BestInv /\ BestInv' /\ [Next \/ Returned]_vars => FilledInv'
  <2> SUFFICES ASSUME FilledInv, BestInv, BestInv', [Next \/ Returned]_vars
               PROVE  FilledInv'
    OBVIOUS
  <2>1. CASE Coerce
    <3>1. PICK given : given = [l \in Label |-> ClosestLeaf(l)]
      OBVIOUS
    <3>2. StartPermute(given) /\ complements_rmap' = BuildComplementsMap(complements)
      BY <2>1, <3>1 DEF Coerce
    <3>3. given \in [Label -> RatioIndex]
      <4>1. ASSUME NEW l \in Label
            PROVE  ClosestLeaf(l) \in RatioIndex
        <5>1. LeafRatios \in SUBSET LeafRatios
          OBVIOUS
        <5> QED BY <5>1, LeafRatiosAssumption, ClosestLeafIsOne DEF ClosestLeaf, BestInv, BaseInv
      <4> QED BY <3>1, <4>1
    <3>4. ratio_indices' = given /\ \A g \in Known' : Fills(g, given)
      BY <3>2, <3>3, StartPermuteFills DEF BestInv, BaseInv
    <3> QED BY <3>2, <3>4, MapIsExact DEF FilledInv
  <2>2. CASE MakeGroups
    <3>1. /\ pc # "coerce" /\ GroupStep
          /\ UNCHANGED <<pc, ratio_indices>>
      BY <2>2 DEF MakeGroups, base_vars
    <3>2. UNCHANGED complements_rmap
      BY <3>1 DEF GroupStep, SkipPair, DropGroup, KeepGroup, EndRound
    <3>3. PICK given : given = ratio_indices
      OBVIOUS
    <3>4. \A g \in Known' : Fills(g, given)
      BY <3>1, <3>3, GroupStepFills DEF FilledInv, BestInv, BaseInv
    <3> QED BY <3>1, <3>2, <3>3, <3>4 DEF FilledInv
  <2>3. CASE Substitute
    <3>1. LeavesInv /\ pc # "coerce" /\ UNCHANGED complements_rmap
      BY <2>3 DEF Substitute, Ranked, BestInv
    <3>2. PICK given : StartPermute(given)
      BY <2>3 DEF Substitute
    <3>3. ratio_indices' = given /\ UNCHANGED rectangles /\ pc' = "group"
      BY <3>2 DEF StartPermute
    <3>4. given \in [Label -> RatioIndex]
      BY <3>3 DEF BestInv, LeavesInv, Label
    <3>5. \A g \in Known' : Fills(g, given)
      BY <3>2, <3>4, StartPermuteFills DEF BestInv, BaseInv
    <3> QED BY <3>1, <3>3, <3>5 DEF FilledInv
  <2>4. CASE GroupsMade \/ RankGroup \/ Return \/ UNCHANGED vars
    <3>1. /\ UNCHANGED <<complements_rmap, label_groups, new_groups, ratio_indices>>
          /\ pc = "coerce" => pc' = "coerce"
      BY <2>4 DEF GroupsMade, RankGroup, Return, Ranked, vars, join_vars, base_vars
    <3> QED BY <3>1 DEF FilledInv, Known
  <2> QED BY <2>1, <2>2, <2>3, <2>4 DEF Next, Returned
<1> QED BY <1>1, <1>2, BestInvariant, PTL DEF Spec

\* When Group() returns, the rectangles of every group fill it, drawn, apart
\* from each other, and each of them has the ratio it was given: for any table
\* of positive ratios and any section.
THEOREM GroupsAreFilledCorrect == Spec => []GroupsAreFilled
<1>1. FilledInv /\ BestInv => GroupsAreFilled
  <2> SUFFICES ASSUME FilledInv, BestInv, Made, NEW g \in Range(label_groups),
                      NEW boxes, boxes = g.boxes
               PROVE  /\ FoldFunction(Plus, Whole(0), [l \in Labels(g) |-> Area(boxes[l])]) = Whole(1)
                      /\ \A l, m \in Labels(g) : l # m => Apart(boxes[l], boxes[m])
                      /\ \A l \in Labels(g) :
                           Times(Over(Width(boxes[l]), Height(boxes[l])), ratios[g.ratio_index])
                             = ratios[ratio_indices[l]]
    BY DEF GroupsAreFilled
  <2>1. Fills(g, ratio_indices)
    BY DEF FilledInv, Made, Known
  <2>2. FoldFunction(Plus, Whole(0), [l \in Labels(g) |-> Area(boxes[l])]) = Whole(1)
    <3> DEFINE f == [l \in Labels(g) |-> Area(boxes[l])]
    <3>1. DOMAIN f = Labels(g) /\ PlusOver(f, Labels(g)) = Whole(1)
      BY <2>1 DEF Fills
    <3> HIDE DEF f
    <3>2. FoldFunction(Plus, Whole(0), f) = PlusOver(f, DOMAIN f)
      BY DEF FoldFunction, PlusOver
    <3> QED BY <3>1, <3>2 DEF f
  <2>3. ASSUME NEW l \in Labels(g)
        PROVE  Times(Over(Width(boxes[l]), Height(boxes[l])), ratios[g.ratio_index])
                 = ratios[ratio_indices[l]]
    <3>1. PICK W \in Reduced, H \in NonZero :
            /\ W = Width(boxes[l]) /\ H = Height(boxes[l]) /\ H \in Numbers
            /\ Times(W, ratios[g.ratio_index]) = Times(H, ratios[ratio_indices[l]])
      <4>1. IsPart(boxes[l], g.ratio_index, ratio_indices[l])
        BY <2>1 DEF Fills
      <4>2. Width(boxes[l]) \in Reduced
        BY <4>1, ReducedIsNumber, NegativeIs, MinusIs, RawAre DEF IsPart, InUnit, Width
      <4> QED BY <4>1, <4>2 DEF IsPart, NonZero
    <3>2. PICK R \in Numbers : R = ratios[g.ratio_index]
      BY RatioIsNumber DEF BestInv, AreGroups, IsGroup, Known
    <3>3. PICK Q \in Reduced : Q = ratios[ratio_indices[l]] /\ Q \in Numbers
      BY <2>1, RatioIsReduced, ReducedIsNumber DEF Fills
    <3>4. PICK h \in Reduced : h = Reciprocal(H) /\ Times(H, h) = Whole(1) /\ h \in Numbers
      BY ReciprocalIs, ReducedIsNumber
    <3>5. Over(W, H) = Times(W, h) /\ W \in Numbers
      BY <3>1, <3>4, TimesOver, ReducedIsNumber
    <3>6. Times(Times(W, h), R) = Times(Times(h, W), R)
      BY <3>4, <3>5, Commutes
    <3>7. Times(Times(h, W), R) = Times(h, Times(W, R))
      BY <3>2, <3>4, <3>5, TimesAssociative
    <3>8. Times(h, Times(H, Q)) = Times(Times(h, H), Q)
      BY <3>1, <3>3, <3>4, TimesAssociative
    <3>9. Times(h, H) = Whole(1) /\ Times(Whole(1), Q) = Q
      BY <3>1, <3>4, Commutes, Neutral
    <3> QED BY <3>1, <3>2, <3>3, <3>5, <3>6, <3>7, <3>8, <3>9
  <2> QED BY <2>1, <2>2, <2>3 DEF Fills
<1> QED BY <1>1, FilledInvariant, BestInvariant, PTL
=============================================================================
