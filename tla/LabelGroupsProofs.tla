------------------------- MODULE LabelGroupsProofs -------------------------
(***************************************************************************)
(* The rounds of the older Group() leave no two groups unjoined: lemmas    *)
(* about its steps, for any table of ratios, any rectangles, any limits,   *)
(* that both its callers use (BaseGroupsProofs, SiteGroupsProofs).  Costs  *)
(* of groups are numbers; the complements of a table are exact splits, and *)
(* the two parts of a join, drawn, tile the whole in their own ratios.     *)
(***************************************************************************)
EXTENDS LabelGroups, DataTheorems

\* The groups of the earlier rounds and of this one.
Known == Range(label_groups) \cup Range(new_groups)

\* The n-th of the groups that two groups make is known, if it may be.
SettledBy(g, h, n) == Affordable(GroupOf(g, h, n)) => GroupOf(g, h, n) \in Known

\* All they make are.
Settled(g, h) ==
  Fits(g, h) => \A n \in 1 .. Len(MadeOf(g, h)) : SettledBy(g, h, n)

\* What the ratios of two groups make is a vector.
MapIsCounted == \A pair \in DOMAIN complements_rmap : Len(complements_rmap[pair]) \in Nat

\* The vectors, the positions of the loops, and what is left when they end.
Shape ==
  /\ MapIsCounted
  /\ IsSequence(label_groups) /\ IsSequence(new_groups)
  /\ label_groups_size \in 0 .. Len(label_groups)
  /\ base_at \in 0 .. label_groups_size /\ other_at \in Nat /\ made_at \in Nat
  /\ base_at < other_at
  /\ ~joining /\ error = 0 => label_groups_size = 0 /\ new_groups = <<>>

\* The loops have been at the groups at positions p and q: in an earlier round,
\* or in this one.
Visited(p, q) ==
  \/ p > label_groups_size
  \/ p =< base_at
  \/ p = base_at + 1 /\ q =< other_at

\* What they have been at is settled, the pair they are at up to made_at.
VisitedSettled ==
  /\ \A p, q \in DOMAIN label_groups :
       p < q /\ Visited(p, q) => Settled(label_groups[p], label_groups[q])
  /\ InRound /\ other_at < Len(label_groups) /\ Fits(BaseGroup, OtherGroup) =>
       \A n \in 1 .. made_at :
         n =< Len(MadeOf(BaseGroup, OtherGroup)) => SettledBy(BaseGroup, OtherGroup, n)

\* What holds in the loops.
JoinsInv == Shape /\ VisitedSettled
-----------------------------------------------------------------------------
(* What stays when groups become known *)

\* The step makes groups known only.
OnlyLearns == Known \subseteq Known' /\ UNCHANGED <<rectangles, complements_rmap, min_cost>>

LEMMA SameFits ==
  ASSUME OnlyLearns, NEW g, NEW h
  PROVE  Fits(g, h)' <=> Fits(g, h)
BY DEF OnlyLearns, Fits

LEMMA SameMade ==
  ASSUME OnlyLearns, NEW g, NEW h
  PROVE  MadeOf(g, h)' = MadeOf(g, h)
BY DEF OnlyLearns, MadeOf

LEMMA StaysSettledBy ==
  ASSUME OnlyLearns, NEW g, NEW h, NEW n, SettledBy(g, h, n)
  PROVE  SettledBy(g, h, n)'
<1>1. GroupOf(g, h, n)' = GroupOf(g, h, n)
  BY SameMade DEF GroupOf
<1>2. Affordable(GroupOf(g, h, n))' <=> Affordable(GroupOf(g, h, n))
  BY <1>1 DEF OnlyLearns, Affordable
<1> QED BY <1>1, <1>2 DEF SettledBy, OnlyLearns

LEMMA StaysSettled ==
  ASSUME OnlyLearns, NEW g, NEW h, Settled(g, h)
  PROVE  Settled(g, h)'
BY SameFits, SameMade, StaysSettledBy DEF Settled
-----------------------------------------------------------------------------
(* The loops *)

\* What two groups make is counted.
LEMMA MadeIsCounted ==
  ASSUME Shape, NEW g, NEW h
  PROVE  Len(MadeOf(g, h)) \in Nat
<1>1. Len(<<>>) \in Nat
  OBVIOUS
<1> QED BY <1>1 DEF MadeOf, Shape, MapIsCounted

\* The positions are those of two groups.
LEMMA AtPair ==
  ASSUME Shape
  PROVE  /\ Len(label_groups) \in Nat /\ DOMAIN label_groups = 1 .. Len(label_groups)
         /\ label_groups_size \in Nat /\ label_groups_size =< Len(label_groups)
         /\ base_at \in Nat /\ base_at =< label_groups_size
         /\ other_at \in Nat /\ base_at < other_at
<1>1. Len(label_groups) \in Nat /\ DOMAIN label_groups = 1 .. Len(label_groups)
  BY DEF Shape, IsSequence
<1> QED BY <1>1 DEF Shape

\* The pair is settled, or there is none; the loops go on to the next one.
LEMMA AfterPair ==
  ASSUME Shape, VisitedSettled, InRound, OnlyLearns, NextPair,
         UNCHANGED <<label_groups, label_groups_size>>,
         NEW g, NEW h, g = BaseGroup, h = OtherGroup,
         other_at < Len(label_groups) => Settled(g, h)'
  PROVE  /\ VisitedSettled'
         /\ base_at' \in 0 .. label_groups_size /\ other_at' \in Nat /\ made_at' \in Nat
         /\ base_at' < other_at'
<1> DEFINE N == Len(label_groups)
           S == label_groups_size
<1>1. /\ N \in Nat /\ DOMAIN label_groups = 1 .. N /\ S \in Nat /\ S =< N
      /\ base_at \in Nat /\ base_at < S /\ other_at \in Nat /\ base_at < other_at
  BY AtPair DEF InRound
<1>2. \/ other_at + 1 < N /\ other_at' = other_at + 1 /\ base_at' = base_at
      \/ other_at + 1 >= N /\ base_at' = base_at + 1 /\ other_at' = base_at + 2
  BY <1>1 DEF NextPair
<1>3. made_at' = 0 /\ label_groups' = label_groups /\ S' = S /\ N' = N
  BY DEF NextPair
<1>4. ASSUME NEW p \in 1 .. N, NEW q \in 1 .. N, p < q, Visited(p, q)'
      PROVE  Settled(label_groups[p], label_groups[q])'
  <2>1. p > S \/ p =< base_at' \/ (p = base_at' + 1 /\ q =< other_at')
    BY <1>3, <1>4 DEF Visited
  <2>2. Visited(p, q) \/ (p = base_at + 1 /\ q = other_at + 1 /\ other_at < N)
    <3> HIDE DEF N, S
    <3>1. \/ p > S \/ p =< base_at \/ (p = base_at + 1 /\ q =< other_at)
          \/ (p = base_at + 1 /\ q = other_at + 1 /\ other_at < N)
      BY <1>1, <1>2, <1>4, <2>1
    <3> QED BY <3>1 DEF Visited, S
  <2>3. CASE Visited(p, q)
    <3>1. Settled(label_groups[p], label_groups[q])
      BY <1>1, <1>4, <2>3 DEF VisitedSettled
    <3>2. PICK a, b : a = label_groups[p] /\ b = label_groups[q]
      OBVIOUS
    <3>3. Settled(a, b)'
      BY <3>1, <3>2, StaysSettled
    <3> QED BY <1>3, <3>2, <3>3
  <2>4. CASE p = base_at + 1 /\ q = other_at + 1 /\ other_at < N
    <3>1. g = label_groups[p] /\ h = label_groups[q]
      BY <2>4 DEF BaseGroup, OtherGroup
    <3> QED BY <1>3, <2>4, <3>1
  <2> QED BY <2>2, <2>3, <2>4
<1>5. VisitedSettled'
  BY <1>1, <1>3, <1>4 DEF VisitedSettled
<1>6. base_at' \in 0 .. S /\ other_at' \in Nat /\ base_at' < other_at'
  <2> HIDE DEF N, S
  <2> QED BY <1>1, <1>2
<1> QED BY <1>3, <1>5, <1>6

\* One of the groups the pair makes is settled, the loops go on to the next one.
LEMMA AfterMade ==
  ASSUME Shape, VisitedSettled, InRound, Joinable, OnlyLearns, NextMade,
         UNCHANGED <<joining, label_groups, label_groups_size>>,
         NEW g, NEW h, NEW next, g = BaseGroup, h = OtherGroup, next = made_at + 1,
         SettledBy(g, h, next)'
  PROVE  /\ VisitedSettled'
         /\ base_at' \in 0 .. label_groups_size /\ other_at' \in Nat /\ made_at' \in Nat
         /\ base_at' < other_at'
<1> DEFINE ways == Len(MadeOf(g, h))
<1>1. ways \in Nat /\ made_at \in Nat /\ made_at < ways
  BY MadeIsCounted DEF Shape, Joinable
<1>0. ways' = ways
  BY SameMade
<1>2. ASSUME NEW n \in 1 .. next, n =< ways
      PROVE  SettledBy(g, h, n)'
  <2>1. CASE n = next
    BY <2>1
  <2>2. CASE n # next
    <3>1. n \in 1 .. made_at
      <4> HIDE DEF ways
      <4> QED BY <1>1, <2>2
    <3>2. SettledBy(g, h, n)
      BY <1>2, <3>1 DEF VisitedSettled, Joinable
    <3> QED BY <3>2, StaysSettledBy
  <2> QED BY <2>1, <2>2
<1>3. CASE made_at + 1 < ways
  <2>1. made_at' = next /\ UNCHANGED <<base_at, other_at>>
    BY <1>3 DEF NextMade
  <2>2. BaseGroup' = g /\ OtherGroup' = h
    BY <2>1 DEF BaseGroup, OtherGroup
  <2>3. ASSUME NEW n \in 1 .. made_at', n =< Len(MadeOf(BaseGroup, OtherGroup))'
        PROVE  SettledBy(BaseGroup, OtherGroup, n)'
    BY <1>0, <1>2, <2>1, <2>2, <2>3
  <2>4. ASSUME NEW p \in DOMAIN label_groups, NEW q \in DOMAIN label_groups,
               p < q, Visited(p, q)'
        PROVE  Settled(label_groups[p], label_groups[q])'
    <3>1. Settled(label_groups[p], label_groups[q])
      BY <2>1, <2>4 DEF VisitedSettled, Visited
    <3>2. PICK a, b : a = label_groups[p] /\ b = label_groups[q]
      OBVIOUS
    <3>3. Settled(a, b)'
      BY <3>1, <3>2, StaysSettled
    <3> QED BY <3>2, <3>3
  <2>5. VisitedSettled'
    BY <2>3, <2>4 DEF VisitedSettled
  <2> QED BY <1>1, <2>1, <2>5 DEF Shape
<1>4. CASE ~(made_at + 1 < ways)
  <2>1. NextPair
    BY <1>4 DEF NextMade
  <2>2. ways = next
    <3> HIDE DEF ways
    <3> QED BY <1>1, <1>4
  <2>3. Settled(g, h)'
    BY <1>0, <1>2, <2>2 DEF Settled
  <2> QED BY <2>1, <2>3, AfterPair
<1> QED BY <1>3, <1>4
-----------------------------------------------------------------------------
(* The actions *)

LEMMA SkipPairSettles ==
  ASSUME JoinsInv, SkipPair
  PROVE  JoinsInv'
<1>1. Shape /\ VisitedSettled /\ InRound /\ joining
  BY DEF SkipPair, JoinsInv, InRound
<1>2. OnlyLearns
  BY DEF SkipPair, OnlyLearns, Known
<1>3. PICK g, h : g = BaseGroup /\ h = OtherGroup
  OBVIOUS
<1>4. other_at < Len(label_groups) => Settled(g, h)
  <2> SUFFICES ASSUME other_at < Len(label_groups), Fits(g, h)
               PROVE  \A n \in 1 .. Len(MadeOf(g, h)) : SettledBy(g, h, n)
    BY DEF Settled
  <2>1. ~(made_at < Len(MadeOf(g, h)))
    BY <1>3 DEF SkipPair, Joinable
  <2>2. \A n \in 1 .. made_at : n =< Len(MadeOf(g, h)) => SettledBy(g, h, n)
    BY <1>1, <1>3 DEF VisitedSettled
  <2>3. \A n \in 1 .. Len(MadeOf(g, h)) : n \in 1 .. made_at /\ n =< Len(MadeOf(g, h))
    <3> DEFINE ways == Len(MadeOf(g, h))
    <3>1. ways \in Nat /\ made_at \in Nat
      BY <1>1, MadeIsCounted DEF Shape
    <3> HIDE DEF ways
    <3>2. \A n \in 1 .. ways : n \in 1 .. made_at /\ n =< ways
      BY <2>1, <3>1 DEF ways
    <3> QED BY <3>2 DEF ways
  <2> QED BY <2>2, <2>3
<1>5. other_at < Len(label_groups) => Settled(g, h)'
  BY <1>2, <1>4, StaysSettled
<1>6. /\ VisitedSettled'
      /\ base_at' \in 0 .. label_groups_size /\ other_at' \in Nat /\ made_at' \in Nat
      /\ base_at' < other_at'
  BY <1>1, <1>2, <1>3, <1>5, AfterPair DEF SkipPair
<1>7. Shape'
  BY <1>1, <1>6 DEF Shape, SkipPair, IsSequence, MapIsCounted
<1> QED BY <1>6, <1>7 DEF JoinsInv

LEMMA DropGroupSettles ==
  ASSUME JoinsInv, DropGroup
  PROVE  JoinsInv'
<1>1. Shape /\ VisitedSettled /\ InRound /\ Joinable /\ joining
  BY DEF DropGroup, JoinsInv, InRound
<1>2. OnlyLearns
  BY DEF DropGroup, OnlyLearns, Known
<1>3. PICK g, h, next : g = BaseGroup /\ h = OtherGroup /\ next = made_at + 1
  OBVIOUS
<1>4. SettledBy(g, h, next)
  BY <1>3 DEF DropGroup, NewGroup, SettledBy
<1>5. SettledBy(g, h, next)'
  BY <1>2, <1>4, StaysSettledBy
<1>6. /\ VisitedSettled'
      /\ base_at' \in 0 .. label_groups_size /\ other_at' \in Nat /\ made_at' \in Nat
      /\ base_at' < other_at'
  BY <1>1, <1>2, <1>3, <1>5, AfterMade DEF DropGroup
<1>7. Shape'
  BY <1>1, <1>6 DEF Shape, DropGroup, IsSequence, MapIsCounted
<1> QED BY <1>6, <1>7 DEF JoinsInv

LEMMA KeepGroupSettles ==
  ASSUME JoinsInv, KeepGroup
  PROVE  JoinsInv'
<1>1. Shape /\ VisitedSettled /\ InRound /\ Joinable /\ joining
  BY DEF KeepGroup, JoinsInv, InRound
<1>2. PICK g, h, next : g = BaseGroup /\ h = OtherGroup /\ next = made_at + 1
  OBVIOUS
<1>3. /\ IsSequence(new_groups')
      /\ Range(new_groups') = Range(new_groups) \cup {GroupOf(g, h, next)}
  BY <1>1, <1>2, AppendedElements DEF KeepGroup, NewGroup, Shape
<1>4. Known' = Known \cup {GroupOf(g, h, next)}
  BY <1>3 DEF Known, KeepGroup
<1>5. OnlyLearns
  BY <1>4 DEF KeepGroup, OnlyLearns
<1>6. SettledBy(g, h, next)'
  BY <1>4, <1>5, SameMade DEF SettledBy, GroupOf
<1>7. /\ VisitedSettled'
      /\ base_at' \in 0 .. label_groups_size /\ other_at' \in Nat /\ made_at' \in Nat
      /\ base_at' < other_at'
  BY <1>1, <1>2, <1>5, <1>6, AfterMade DEF KeepGroup
<1>8. Shape'
  BY <1>1, <1>3, <1>7 DEF Shape, KeepGroup, IsSequence, MapIsCounted
<1> QED BY <1>7, <1>8 DEF JoinsInv

LEMMA EndRoundSettles ==
  ASSUME JoinsInv, EndRound
  PROVE  JoinsInv'
<1> DEFINE N == Len(label_groups)
           M == Len(new_groups)
<1>1. /\ Shape /\ VisitedSettled /\ IsSequence(label_groups) /\ IsSequence(new_groups)
      /\ base_at \in Nat /\ label_groups_size \in Nat /\ base_at >= label_groups_size
  BY AtPair DEF EndRound, JoinsInv, Shape, InRound
<1>2. label_groups' = new_groups \o label_groups /\ label_groups_size' = M
      /\ new_groups' = <<>> /\ base_at' = 0 /\ other_at' = 1 /\ made_at' = 0
  BY DEF EndRound
<1>3. /\ IsSequence(label_groups') /\ Range(label_groups') = Range(new_groups) \cup Range(label_groups)
      /\ N \in Nat /\ M \in Nat /\ DOMAIN label_groups = 1 .. N
      /\ Len(label_groups') = M + N /\ DOMAIN label_groups' = 1 .. M + N
      /\ \A n \in 1 .. N : label_groups'[M + n] = label_groups[n]
  BY <1>1, <1>2, JoinedElements
<1>4. OnlyLearns
  BY <1>3 DEF EndRound, OnlyLearns, Known
<1>5. ASSUME NEW p \in 1 .. N, NEW q \in 1 .. N, p < q,
             NEW g, NEW h, g = label_groups[p], h = label_groups[q]
      PROVE  Settled(g, h)'
  <2>1. p > label_groups_size \/ p =< base_at
    BY <1>1, <1>3
  <2>2. Settled(g, h)
    BY <1>1, <1>3, <1>5, <2>1 DEF VisitedSettled, Visited
  <2> QED BY <1>4, <2>2, StaysSettled
<1>6. ASSUME NEW p \in 1 .. M + N, NEW q \in 1 .. M + N, p < q, Visited(p, q)'
      PROVE  Settled(label_groups[p], label_groups[q])'
  <2>1. p > M
    <3>1. p > M \/ p =< 0 \/ (p = 0 + 1 /\ q =< 1)
      BY <1>2, <1>6 DEF Visited
    <3> HIDE DEF M, N
    <3> QED BY <1>3, <1>6, <3>1
  <2>2. PICK a, b : a = p - M /\ b = q - M
    OBVIOUS
  <2>3. a \in 1 .. N /\ b \in 1 .. N /\ a < b /\ p = M + a /\ q = M + b
    <3> HIDE DEF M, N
    <3> QED BY <1>3, <1>6, <2>1, <2>2
  <2>4. label_groups'[p] = label_groups[a] /\ label_groups'[q] = label_groups[b]
    BY <1>3, <2>3
  <2>5. PICK g, h : g = label_groups[a] /\ h = label_groups[b]
    OBVIOUS
  <2>6. Settled(g, h)'
    BY <1>5, <2>3, <2>5
  <2> QED BY <2>4, <2>5, <2>6
<1>7. VisitedSettled'
  <2>1. made_at' = 0 /\ \A n \in 1 .. made_at' : FALSE
    BY <1>2
  <2> QED BY <1>3, <1>6, <2>1 DEF VisitedSettled
<1>8. Shape'
  <2>1. ~joining' /\ error' = 0 => label_groups_size' = 0 /\ new_groups' = <<>>
    <3>1. ~joining' /\ error' = 0 => new_groups = <<>>
      BY DEF EndRound
    <3> QED BY <1>2, <3>1
  <2>2. IsSequence(new_groups')
    BY <1>2 DEF IsSequence
  <2>3. /\ label_groups_size' \in 0 .. Len(label_groups') /\ base_at' \in 0 .. label_groups_size'
        /\ other_at' \in Nat /\ made_at' \in Nat /\ base_at' < other_at'
    <3> HIDE DEF M, N
    <3> QED BY <1>2, <1>3
  <2>4. MapIsCounted'
    BY <1>1 DEF EndRound, Shape, MapIsCounted
  <2> QED BY <1>3, <2>1, <2>2, <2>3, <2>4 DEF Shape, IsSequence
<1> QED BY <1>7, <1>8 DEF JoinsInv

LEMMA GroupStepSettles ==
  ASSUME JoinsInv, GroupStep
  PROVE  JoinsInv'
BY SkipPairSettles, DropGroupSettles, KeepGroupSettles, EndRoundSettles DEF GroupStep

\* A call of Group() starts with no pair visited.
LEMMA StartGroupSettles ==
  ASSUME NEW groups, IsSequence(groups), NEW limit, StartGroup(groups, limit), MapIsCounted'
  PROVE  JoinsInv'
<1> DEFINE N == Len(groups)
<1>1. N \in Nat /\ DOMAIN groups = 1 .. N
  BY DEF IsSequence
<1>2. /\ joining' = TRUE /\ label_groups' = groups /\ label_groups_size' = N
      /\ new_groups' = <<>> /\ base_at' = 0 /\ other_at' = 1 /\ made_at' = 0
  BY DEF StartGroup
<1> HIDE DEF N
<1>3. Shape'
  <2>1. IsSequence(<<>>)
    BY DEF IsSequence
  <2>2. Len(label_groups') = N
    BY <1>2 DEF N
  <2>3. /\ label_groups_size' \in 0 .. Len(label_groups') /\ base_at' \in 0 .. label_groups_size'
        /\ other_at' \in Nat /\ made_at' \in Nat /\ base_at' < other_at'
    BY <1>1, <1>2, <2>2
  <2> QED BY <1>2, <2>1, <2>3 DEF Shape, IsSequence
<1>4. VisitedSettled'
  <2>1. \A p, q \in 1 .. N : p < q =>
          ~(p > N \/ p =< 0 \/ (p = 0 + 1 /\ q =< 1))
    BY <1>1
  <2>2. \A p, q \in 1 .. N : p < q => ~Visited(p, q)'
    BY <1>2, <2>1 DEF Visited
  <2>3. \A n \in 1 .. made_at' : FALSE
    BY <1>2
  <2> QED BY <1>1, <1>2, <2>2, <2>3 DEF VisitedSettled
<1> QED BY <1>3, <1>4 DEF JoinsInv

\* Outside of Group() its variables stay.
LEMMA StaysJoined ==
  ASSUME JoinsInv, UNCHANGED join_vars
  PROVE  JoinsInv'
<1>1. UNCHANGED <<rectangles, complements_rmap, min_cost, joining, label_groups,
                  label_groups_size, new_groups, base_at, other_at, made_at, error>>
  BY DEF join_vars
<1>2. Known' = Known
  BY <1>1 DEF Known
<1>3. OnlyLearns
  BY <1>1, <1>2 DEF OnlyLearns
<1>4. Shape'
  BY <1>1 DEF JoinsInv, Shape, IsSequence, MapIsCounted
<1>5. ASSUME NEW p \in DOMAIN label_groups, NEW q \in DOMAIN label_groups,
             p < q, Visited(p, q)'
      PROVE  Settled(label_groups[p], label_groups[q])'
  <2>1. PICK g, h : g = label_groups[p] /\ h = label_groups[q]
    OBVIOUS
  <2>2. Settled(g, h)
    BY <1>1, <1>5, <2>1 DEF JoinsInv, VisitedSettled, Visited
  <2>3. Settled(g, h)'
    BY <1>3, <2>2, StaysSettled
  <2> QED BY <1>1, <2>1, <2>3
<1>6. ASSUME InRound', other_at' < Len(label_groups'), Fits(BaseGroup, OtherGroup)',
             NEW n \in 1 .. made_at', n =< Len(MadeOf(BaseGroup, OtherGroup))'
      PROVE  SettledBy(BaseGroup, OtherGroup, n)'
  <2>1. PICK g, h : g = BaseGroup /\ h = OtherGroup
    OBVIOUS
  <2>2. BaseGroup' = g /\ OtherGroup' = h /\ InRound
    BY <1>1, <1>6, <2>1 DEF BaseGroup, OtherGroup, InRound
  <2>3. Fits(g, h) /\ n =< Len(MadeOf(g, h))
    BY <1>3, <1>6, <2>2, SameFits, SameMade DEF Fits
  <2>4. SettledBy(g, h, n)
    BY <1>1, <1>6, <2>1, <2>2, <2>3 DEF JoinsInv, VisitedSettled
  <2>5. SettledBy(g, h, n)'
    BY <1>3, <2>4, StaysSettledBy
  <2> QED BY <2>2, <2>5
<1>7. VisitedSettled'
  BY <1>1, <1>5, <1>6 DEF VisitedSettled
<1> QED BY <1>4, <1>7 DEF JoinsInv

\* When Group() returns without having given up, all that two of its groups
\* make is there.
LEMMA ReturnedSettled ==
  ASSUME JoinsInv, ~joining, error = 0,
         NEW p \in DOMAIN label_groups, NEW q \in DOMAIN label_groups, p < q
  PROVE  Settled(label_groups[p], label_groups[q]) /\ Known = Range(label_groups)
<1>1. label_groups_size = 0 /\ new_groups = <<>>
  BY DEF JoinsInv, Shape
<1>2. p > label_groups_size
  BY <1>1, AtPair DEF JoinsInv
<1>3. Settled(label_groups[p], label_groups[q])
  BY <1>2 DEF JoinsInv, VisitedSettled, Visited
<1>4. Known = Range(label_groups)
  BY <1>1 DEF Known, Range
<1> QED BY <1>3, <1>4
-----------------------------------------------------------------------------
(* The groups *)

\* Boxes have numbers for sides.
Boxes == [left : Numbers, top : Numbers, right : Numbers, bottom : Numbers]

\* A group of some of the rectangles, drawn.
IsGroup(g) ==
  /\ g.ratio_index \in RatioIndex
  /\ IsFiniteSet(Labels(g)) /\ Labels(g) # {} /\ Labels(g) \subseteq DOMAIN rectangles
  /\ \A l \in Labels(g) : g.boxes[l] \in Boxes

\* All groups of Group() are such, and what two ratios make is in the table.
AreGroups ==
  /\ \A pair \in DOMAIN complements_rmap : \A n \in 1 .. Len(complements_rmap[pair]) :
       complements_rmap[pair][n].index \in RatioIndex
  /\ \A g \in Known : IsGroup(g)

\* The ratios are numbers to divide by.
LEMMA RatioIsNumber ==
  ASSUME NEW n \in RatioIndex
  PROVE  ratios[n] \in NonZero /\ ratios[n] \in Numbers
<1>1. ratios[n] \in Numbers /\ Positive(ratios[n])
  BY RatiosAssumption
<1>2. ratios[n][1] # 0 \/ ratios[n][2] # 0
  BY <1>1, NumberParts DEF Positive
<1> QED BY <1>1, <1>2 DEF NonZero

LEMMA WithinIsBox ==
  ASSUME NEW whole \in Boxes, NEW box \in Boxes
  PROVE  Within(whole, box) \in Boxes
<1>1. /\ whole.left \in Numbers /\ whole.top \in Numbers
      /\ whole.right \in Numbers /\ whole.bottom \in Numbers
      /\ box.left \in Numbers /\ box.top \in Numbers
      /\ box.right \in Numbers /\ box.bottom \in Numbers
  BY DEF Boxes
<1>2. Width(whole) \in Numbers /\ Height(whole) \in Numbers
  BY <1>1, PlusIsNumber DEF Width, Height
<1>3. ASSUME NEW r \in Numbers
      PROVE  /\ Plus(whole.left, Times(r, Width(whole))) \in Numbers
             /\ Plus(whole.top, Times(r, Height(whole))) \in Numbers
  BY <1>1, <1>2, TimesIsNumber, PlusIsNumber
<1>4. /\ Plus(whole.left, Times(box.left, Width(whole))) \in Numbers
      /\ Plus(whole.left, Times(box.right, Width(whole))) \in Numbers
      /\ Plus(whole.top, Times(box.top, Height(whole))) \in Numbers
      /\ Plus(whole.top, Times(box.bottom, Height(whole))) \in Numbers
  BY <1>1, <1>3
<1> QED BY <1>4 DEF Within, Box, Boxes

\* Two groups joined are a group.
LEMMA JoinIsGroup ==
  ASSUME NEW g, NEW h, IsGroup(g), IsGroup(h), NEW index \in RatioIndex, NEW type
  PROVE  IsGroup(Join(index, type, g, h))
<1> DEFINE share == Over(ratios[g.ratio_index], ratios[index])
           first == IF type = kSplitTypeHorizontal
                    THEN Box(Whole(0), Whole(0), Whole(1), Reciprocal(share))
                    ELSE Box(Whole(0), Whole(0), share, Whole(1))
           second == IF type = kSplitTypeHorizontal
                     THEN Box(Whole(0), Reciprocal(share), Whole(1), Whole(1))
                     ELSE Box(share, Whole(0), Whole(1), Whole(1))
           joined == Join(index, type, g, h)
<1>1. share \in NonZero /\ share \in Numbers
  BY RatioIsNumber, OverIsNumber DEF IsGroup
<1>2. Reciprocal(share) \in Numbers
  BY <1>1, ReciprocalIsNumber DEF NonZero
<1>3. Whole(0) \in Numbers /\ Whole(1) \in Numbers
  BY WholeIsNumber
<1>4. first \in Boxes /\ second \in Boxes
  <2> HIDE DEF share
  <2> QED BY <1>1, <1>2, <1>3 DEF Boxes, Box
<1>5. joined = [ratio_index |-> index,
                boxes |-> [l \in Labels(g) \cup Labels(h) |->
                             IF l \in Labels(g) THEN Within(first, g.boxes[l])
                                                ELSE Within(second, h.boxes[l])]]
  BY DEF Join
<1> HIDE DEF share, first, second, joined
<1>6. joined.ratio_index = index /\ Labels(joined) = Labels(g) \cup Labels(h)
  BY <1>5 DEF Labels
<1>7. ASSUME NEW l \in Labels(joined)
      PROVE  joined.boxes[l] \in Boxes
  <2>1. joined.boxes[l] = IF l \in Labels(g) THEN Within(first, g.boxes[l])
                                             ELSE Within(second, h.boxes[l])
    BY <1>5, <1>6
  <2>2. CASE l \in Labels(g)
    BY <1>4, <2>1, <2>2, WithinIsBox DEF IsGroup
  <2>3. CASE l \notin Labels(g)
    BY <1>4, <1>6, <2>1, <2>3, WithinIsBox DEF IsGroup
  <2> QED BY <2>2, <2>3
<1>8. IsFiniteSet(Labels(g) \cup Labels(h))
  BY FS_Union DEF IsGroup
<1>9. IsGroup(joined)
  BY <1>6, <1>7, <1>8 DEF IsGroup
<1> QED BY <1>9 DEF joined

\* The cost of a group is a number, if its rectangles are of importance.
LEMMA CostIsNumber ==
  ASSUME NEW g, IsGroup(g), \A l \in Labels(g) : rectangles[l].importance \in Nat \ {0}
  PROVE  CalculateGroupCost(rectangles, g) \in Numbers
<1> DEFINE S == Labels(g)
           shares == [l \in S |-> rectangles[l].importance]
           weight == SumFunction(shares)
           Off(l) == LET d == Minus(Area(g.boxes[l]), Rational(rectangles[l].importance, weight))
                     IN  IF Less(d, Whole(0)) THEN Minus(Whole(0), d) ELSE d
           offs == [l \in S |-> Off(l)]
<1>1. IsFiniteSet(S) /\ S # {}
  BY DEF IsGroup
<1>2. weight \in Nat \ {0}
  <2>1. DOMAIN shares = S /\ \A l \in S : shares[l] \in Nat /\ shares[l] # 0
    OBVIOUS
  <2>2. weight = SumFunctionOnSet(shares, S)
    BY DEF SumFunction
  <2> HIDE DEF shares, weight, S
  <2>3. weight \in Nat /\ \A l \in S : shares[l] =< weight
    BY <1>1, <2>1, <2>2, SumNotNegative
  <2> QED BY <1>1, <2>1, <2>3
<1>3. ASSUME NEW l \in S
      PROVE  Off(l) \in Numbers
  <2>1. g.boxes[l] \in Boxes
    BY DEF IsGroup
  <2>2. Area(g.boxes[l]) \in Numbers
    <3>1. PICK box \in Boxes : box = g.boxes[l]
      BY <2>1
    <3>2. /\ box.left \in Numbers /\ box.top \in Numbers
          /\ box.right \in Numbers /\ box.bottom \in Numbers
      BY DEF Boxes
    <3> QED BY <3>1, <3>2, PlusIsNumber, TimesIsNumber DEF Area, Width, Height
  <2>3. Rational(rectangles[l].importance, weight) \in Numbers
    <3>1. rectangles[l].importance \in Int /\ 0 \in Int /\ weight \in Int \ {0}
      BY <1>2
    <3> HIDE DEF weight
    <3> QED BY <3>1, NumberIs DEF Rational
  <2> HIDE DEF weight
  <2>4. Minus(Area(g.boxes[l]), Rational(rectangles[l].importance, weight)) \in Numbers
    BY <2>2, <2>3, PlusIsNumber
  <2>5. Whole(0) \in Numbers
    BY WholeIsNumber
  <2> QED BY <2>4, <2>5, PlusIsNumber
<1>4. FoldFunction(Plus, Whole(0), offs) \in Numbers
  <2>1. DOMAIN offs = S /\ \A l \in S : offs[l] \in Numbers
    <3> HIDE DEF Off
    <3> QED BY <1>3
  <2> HIDE DEF offs
  <2> QED BY <1>1, <2>1, FoldPlusIsNumber
<1>5. Rational(1, Size(g)) \in Numbers
  <2>1. Size(g) \in Nat \ {0}
    BY <1>1, FS_CardinalityType, FS_EmptySet DEF Size
  <2>2. Size(g) \in Int \ {0} /\ 1 \in Int /\ 0 \in Int
    BY <2>1
  <2> QED BY <2>2, NumberIs DEF Rational
<1>6. CalculateGroupCost(rectangles, g)
        = Times(FoldFunction(Plus, Whole(0), offs), Rational(1, Size(g)))
  BY DEF CalculateGroupCost
<1> HIDE DEF offs
<1> QED BY <1>4, <1>5, <1>6, TimesIsNumber
\* How far ratio n is from r.
Distance(r, n) == IF Less(r, ratios[n]) THEN Minus(ratios[n], r) ELSE Minus(r, ratios[n])

\* The closest ratio is one of those there are, and no other is closer.
LEMMA ClosestIsNearest ==
  ASSUME NEW r \in Numbers, NEW T \in SUBSET RatioIndex, T # {}
  PROVE  /\ FindClosestIn(r, T) \in T
         /\ \A m \in T : AtMost(Distance(r, FindClosestIn(r, T)), Distance(r, m))
<1> DEFINE nearest == {n \in T : \A m \in T : AtMost(Distance(r, n), Distance(r, m))}
           f == [n \in T |-> Distance(r, n)]
<1>1. T \in SUBSET Nat /\ IsFiniteSet(T)
  <2>1. RatioIndex \in SUBSET Nat /\ IsFiniteSet(RatioIndex)
    BY RatioTableAssumption, FS_Interval DEF RatioIndex, RatioCount
  <2> QED BY <2>1, FS_Subset
<1>2. \A n \in T : Distance(r, n) \in Numbers
  BY RatioIsNumber, PlusIsNumber DEF Distance
<1>3. nearest # {}
  <2>1. DOMAIN f = T /\ \A n \in T : f[n] = Distance(r, n)
    OBVIOUS
  <2> HIDE DEF f
  <2>2. \E n \in T : \A m \in T : AtMost(f[n], f[m])
    BY <1>1, <1>2, <2>1, LeastNumber
  <2> QED BY <2>1, <2>2
<1>4. FindClosestIn(r, T) = Min(nearest)
  BY DEF FindClosestIn, Distance
<1>5. Min(nearest) \in nearest
  <2>1. nearest \in SUBSET Nat
    BY <1>1
  <2> HIDE DEF nearest
  <2>2. PICK n \in nearest : \A m \in nearest : n =< m
    BY <1>3, <2>1, Smallest
  <2> QED BY <2>2 DEF Min
<1> QED BY <1>4, <1>5

LEMMA LeafIsGroup ==
  ASSUME NEW n \in RatioIndex, NEW l \in DOMAIN rectangles
  PROVE  IsGroup(Leaf(n, l))
<1>1. UnitSquare \in Boxes
  BY WholeIsNumber DEF UnitSquare, Box, Boxes
<1>2. Leaf(n, l).ratio_index = n /\ Leaf(n, l).boxes = [m \in {l} |-> UnitSquare]
  BY DEF Leaf
<1>3. Labels(Leaf(n, l)) = {l} /\ Leaf(n, l).boxes[l] = UnitSquare
  BY <1>2 DEF Labels
<1>4. IsFiniteSet({l})
  BY FS_Singleton
<1> QED BY <1>1, <1>2, <1>3, <1>4 DEF IsGroup
-----------------------------------------------------------------------------
(* What two ratios make, from the table *)

\* Sequences over S become a sequence over S.
LEMMA FlattenIn ==
  ASSUME NEW S, NEW N \in Nat, NEW s, Len(s) = N, N = 0 => s = <<>>,
         \A n \in 1 .. N : s[n] \in Seq(S)
  PROVE  FlattenSeq(s) \in Seq(S)
<1>1. CASE N = 0
  <2>1. FlattenSeq(s) = s
    BY <1>1 DEF FlattenSeq
  <2> QED BY <1>1, <2>1
<1>2. CASE N # 0
  <2> DEFINE flat == CHOOSE f : Flattens(s, N, f)
             Bad == {n \in Nat : n \in 1 .. N /\ flat[n] \notin Seq(S)}
  <2>1. FlattenSeq(s) = flat[N]
    BY <1>2 DEF FlattenSeq, Flattens
  <2>2. Flattens(s, N, flat)
    BY <1>2, FlattensExists
  <2> HIDE DEF flat
  <2>3. ASSUME Bad # {}
        PROVE  FALSE
    <3>1. PICK n \in Bad : \A m \in Bad : n =< m
      <4>1. Bad \in SUBSET Nat
        OBVIOUS
      <4> HIDE DEF Bad
      <4> QED BY <2>3, <4>1, Smallest
    <3>2. n \in 1 .. N /\ flat[n] \notin Seq(S) /\ n \in Nat
      OBVIOUS
    <3>3. flat[n] = IF n = 1 THEN s[n] ELSE flat[n - 1] \o s[n]
      BY <2>2, <3>2 DEF Flattens
    <3>4. n # 1
      BY <3>2, <3>3
    <3>5. n - 1 \in 1 .. N /\ n - 1 \in Nat /\ ~(n =< n - 1)
      BY <3>2, <3>4
    <3>6. flat[n - 1] \in Seq(S)
      BY <3>1, <3>5
    <3>7. flat[n - 1] \o s[n] \in Seq(S)
      <4>1. s[n] \in Seq(S)
        BY <3>2
      <4> QED BY <3>6, <4>1
    <3> QED BY <3>2, <3>3, <3>4, <3>7
  <2> QED BY <1>2, <2>1, <2>3
<1> QED BY <1>1, <1>2

\* Two ratios of which the second is what the first leaves of r.
SumPairs(r) == {p \in RatioIndex \X RatioIndex : ratios[p[2]] = Minus(r, ratios[p[1]])}

LEMMA PairsWithSumAre ==
  ASSUME NEW r
  PROVE  PairsWithSum(r) \in Seq(SumPairs(r))
<1> DEFINE Partners(j) == {k \in j .. RatioCount - 1 : ratios[k] = Minus(r, ratios[j])}
           Pair(j) == IF Less(ratios[j], r) /\ Partners(j) # {}
                      THEN << <<j, Min(Partners(j))>> >> ELSE <<>>
           s == [n \in 1 .. RatioCount |-> Pair(n - 1)]
<1>1. RatioCount \in Nat
  BY RatioTableAssumption DEF RatioCount
<1>2. ASSUME NEW n \in 1 .. RatioCount
      PROVE  Pair(n - 1) \in Seq(SumPairs(r))
  <2>1. PICK j \in RatioIndex : j = n - 1
    <3>1. n - 1 \in RatioIndex
      BY <1>1 DEF RatioIndex
    <3> QED BY <3>1
  <2>2. CASE Partners(j) # {}
    <3>1. Partners(j) \in SUBSET Nat /\ Partners(j) \subseteq RatioIndex
      BY <1>1 DEF RatioIndex
    <3>2. PICK k \in Partners(j) : \A m \in Partners(j) : k =< m
      <4> HIDE DEF Partners
      <4> QED BY <2>2, <3>1, Smallest
    <3>3. Min(Partners(j)) \in Partners(j)
      <4> HIDE DEF Partners
      <4> QED BY <3>2 DEF Min
    <3>4. <<j, Min(Partners(j))>> \in SumPairs(r)
      <4>1. Min(Partners(j)) \in RatioIndex /\ ratios[Min(Partners(j))] = Minus(r, ratios[j])
        BY <3>1, <3>3
      <4> HIDE DEF Partners
      <4> QED BY <4>1 DEF SumPairs
    <3> HIDE DEF Partners
    <3> QED BY <2>1, <3>4
  <2>3. CASE Partners(j) = {}
    BY <2>1, <2>3
  <2> QED BY <2>2, <2>3
<1>3. Len(s) = RatioCount /\ \A n \in 1 .. RatioCount : s[n] = Pair(n - 1)
  BY <1>1
<1>4. PairsWithSum(r) = FlattenSeq(s)
  BY DEF PairsWithSum
<1>5. RatioCount = 0 => s = <<>>
  BY <1>1
<1> HIDE DEF s, Pair
<1> QED BY <1>1, <1>2, <1>3, <1>4, <1>5, FlattenIn

\* Where an inverse is found it is one.
LEMMA FindInverseIs ==
  ASSUME NEW j
  PROVE  /\ FindInverseRatioIndex(j) \in RatioIndex \cup {kRatioIndexInvalid}
         /\ FindInverseRatioIndex(j) \in RatioIndex =>
              ratios[FindInverseRatioIndex(j)] = Reciprocal(ratios[j])
<1> DEFINE r == Reciprocal(ratios[j])
           closest == FindClosestIndex(r)
           below == {i \in RatioIndex : Less(ratios[i], r)}
<1>1. PICK N \in Nat \ {0} : N = RatioCount
  BY RatioTableAssumption DEF RatioCount
<1>2. RatioIndex = 0 .. N - 1 /\ kRatioIndexInvalid \notin RatioIndex
  BY <1>1 DEF RatioIndex, kRatioIndexInvalid
<1>3. LowerBound(r) \in 0 .. N
  <2>1. IsFiniteSet(RatioIndex) /\ Cardinality(RatioIndex) = N
    BY <1>1, <1>2, FS_Interval
  <2>2. below \in SUBSET RatioIndex
    OBVIOUS
  <2> HIDE DEF below
  <2>3. Cardinality(below) \in Nat /\ Cardinality(below) =< N
    BY <2>1, <2>2, FS_Subset, FS_CardinalityType
  <2>4. LowerBound(r) = Cardinality(below)
    BY DEF LowerBound, below
  <2> QED BY <1>1, <2>3, <2>4
<1> HIDE DEF r
<1>4. closest \in RatioIndex
  <2>1. PICK i \in 0 .. N : i = LowerBound(r)
    BY <1>3
  <2>2. closest = CASE i = 0 -> 0
                    [] i = N -> N - 1
                    [] OTHER -> IF AtMost(Minus(r, ratios[i - 1]), Minus(ratios[i], r))
                                THEN i - 1 ELSE i
    BY <1>1, <2>1 DEF FindClosestIndex
  <2> HIDE DEF closest
  <2>3. CASE i = 0
    BY <1>1, <1>2, <2>2, <2>3
  <2>4. CASE i = N
    BY <1>1, <1>2, <2>2, <2>4
  <2>5. CASE i # 0 /\ i # N
    <3>1. i - 1 \in RatioIndex /\ i \in RatioIndex
      BY <1>1, <1>2, <2>1, <2>5
    <3> QED BY <2>2, <2>5, <3>1
  <2> QED BY <2>3, <2>4, <2>5
<1>5. FindInverseRatioIndex(j) = IF ratios[closest] = r THEN closest ELSE kRatioIndexInvalid
  BY DEF FindInverseRatioIndex, r
<1> HIDE DEF closest
<1> QED BY <1>2, <1>4, <1>5 DEF r

\* The ratios are in lowest terms, and so are their inverses, back and forth.
LEMMA RatioIsReduced ==
  ASSUME NEW n \in RatioIndex
  PROVE  /\ ratios[n] \in Reduced /\ Positive(ratios[n])
         /\ Reciprocal(ratios[n]) \in Reduced /\ Reciprocal(ratios[n]) \in NonZero
         /\ Times(ratios[n], Reciprocal(ratios[n])) = Whole(1)
         /\ Reciprocal(Reciprocal(ratios[n])) = ratios[n]
<1>1. PICK r \in Numbers : r = ratios[n] /\ r = Number(r[1], r[2], r[3]) /\ Positive(r)
  BY RatiosAssumption
<1>2. r \in Reduced
  BY <1>1, NumberParts, NumberIsReduced
<1>3. r \in NonZero
  BY <1>1, PositiveReciprocal
<1>4. Reciprocal(r) \in Reduced /\ Reciprocal(r) \in NonZero /\ Times(r, Reciprocal(r)) = Whole(1)
  BY <1>3, ReciprocalIs, ReciprocalIsNumber
<1>5. Times(Reciprocal(r), r) = Whole(1)
  BY <1>4, ReducedIsNumber, Commutes
<1> QED BY <1>1, <1>2, <1>4, <1>5, ReciprocalIsOnly

SplitTypes == {kSplitTypeHorizontal, kSplitTypeVertical}

\* The splits of ratio i into two ratios of the table that join to it again.
ExactSplits(i) ==
  {s \in [type : SplitTypes, left_index : RatioIndex \cup {kRatioIndexInvalid},
          right_index : RatioIndex \cup {kRatioIndexInvalid}] :
     s.left_index \in RatioIndex /\ s.right_index \in RatioIndex =>
       Complement(i, s.type) \in Joins(s.left_index, s.right_index)}

\* Every split the constructor of Ratios finds is one, whatever the table.
LEMMA ComplementsAreExact ==
  ASSUME NEW i \in RatioIndex
  PROVE  ComplementsOf(i) \in Seq(ExactSplits(i))
<1> DEFINE across == PairsWithSum(ratios[i])
           down   == PairsWithSum(Reciprocal(ratios[i]))
           first  == [n \in DOMAIN across |->
                        Split(kSplitTypeVertical, across[n][1], across[n][2])]
           second == [n \in DOMAIN down |->
                        Split(kSplitTypeHorizontal, FindInverseRatioIndex(down[n][1]),
                                                    FindInverseRatioIndex(down[n][2]))]
<1>1. across \in Seq(SumPairs(ratios[i])) /\ down \in Seq(SumPairs(Reciprocal(ratios[i])))
  BY PairsWithSumAre
<1>2. first \in Seq(ExactSplits(i))
  <2>1. ASSUME NEW p \in SumPairs(ratios[i])
        PROVE  Split(kSplitTypeVertical, p[1], p[2]) \in ExactSplits(i)
    <3>1. p[1] \in RatioIndex /\ p[2] \in RatioIndex /\ ratios[p[2]] = Minus(ratios[i], ratios[p[1]])
      BY DEF SumPairs
    <3>2. ratios[i] = Plus(ratios[p[1]], ratios[p[2]])
      BY <3>1, RatioIsReduced, ReducedIsNumber, WhatIsLeftAdds
    <3>3. Complement(i, kSplitTypeVertical) \in Joins(p[1], p[2])
      BY <3>2 DEF Joins
    <3>4. PICK s : s = Split(kSplitTypeVertical, p[1], p[2])
      OBVIOUS
    <3>5. /\ s.type = kSplitTypeVertical /\ s.left_index = p[1] /\ s.right_index = p[2]
          /\ s \in [type : SplitTypes, left_index : RatioIndex \cup {kRatioIndexInvalid},
                    right_index : RatioIndex \cup {kRatioIndexInvalid}]
      BY <3>1, <3>4 DEF Split, SplitTypes
    <3> QED BY <3>3, <3>4, <3>5 DEF ExactSplits
  <2>2. PICK N \in Nat : DOMAIN across = 1 .. N /\ \A n \in 1 .. N : across[n] \in SumPairs(ratios[i])
    BY <1>1
  <2> HIDE DEF across
  <2>3. \A n \in 1 .. N : first[n] \in ExactSplits(i)
    BY <2>1, <2>2
  <2>4. first = [n \in 1 .. N |-> first[n]]
    BY <2>2
  <2> HIDE DEF first
  <2> QED BY <2>2, <2>3, <2>4
<1>3. second \in Seq(ExactSplits(i))
  <2>1. ASSUME NEW p \in SumPairs(Reciprocal(ratios[i]))
        PROVE  Split(kSplitTypeHorizontal, FindInverseRatioIndex(p[1]), FindInverseRatioIndex(p[2]))
                 \in ExactSplits(i)
    <3>1. /\ p[1] \in RatioIndex /\ p[2] \in RatioIndex
          /\ ratios[p[2]] = Minus(Reciprocal(ratios[i]), ratios[p[1]])
      BY DEF SumPairs
    <3>2. PICK left, right : left = FindInverseRatioIndex(p[1]) /\ right = FindInverseRatioIndex(p[2])
      OBVIOUS
    <3>3. /\ left \in RatioIndex \cup {kRatioIndexInvalid}
          /\ right \in RatioIndex \cup {kRatioIndexInvalid}
          /\ left \in RatioIndex => ratios[left] = Reciprocal(ratios[p[1]])
          /\ right \in RatioIndex => ratios[right] = Reciprocal(ratios[p[2]])
      BY <3>2, FindInverseIs
    <3>4. Reciprocal(ratios[i]) = Plus(ratios[p[1]], ratios[p[2]])
      BY <3>1, RatioIsReduced, ReducedIsNumber, WhatIsLeftAdds
    <3>5. left \in RatioIndex /\ right \in RatioIndex =>
            Complement(i, kSplitTypeHorizontal) \in Joins(left, right)
      <4> SUFFICES ASSUME left \in RatioIndex, right \in RatioIndex
                   PROVE  Complement(i, kSplitTypeHorizontal) \in Joins(left, right)
        OBVIOUS
      <4>1. Reciprocal(ratios[left]) = ratios[p[1]] /\ Reciprocal(ratios[right]) = ratios[p[2]]
        BY <3>1, <3>3, RatioIsReduced
      <4> QED BY <3>4, <4>1 DEF Joins
    <3>6. PICK s : s = Split(kSplitTypeHorizontal, left, right)
      OBVIOUS
    <3>7. /\ s.type = kSplitTypeHorizontal /\ s.left_index = left /\ s.right_index = right
          /\ s \in [type : SplitTypes, left_index : RatioIndex \cup {kRatioIndexInvalid},
                    right_index : RatioIndex \cup {kRatioIndexInvalid}]
      BY <3>3, <3>6 DEF Split, SplitTypes
    <3> QED BY <3>2, <3>5, <3>6, <3>7 DEF ExactSplits
  <2>2. PICK N \in Nat : /\ DOMAIN down = 1 .. N
                         /\ \A n \in 1 .. N : down[n] \in SumPairs(Reciprocal(ratios[i]))
    BY <1>1
  <2> HIDE DEF down
  <2>3. \A n \in 1 .. N : second[n] \in ExactSplits(i)
    BY <2>1, <2>2
  <2>4. second = [n \in 1 .. N |-> second[n]]
    BY <2>2
  <2> HIDE DEF second
  <2> QED BY <2>2, <2>3, <2>4
<1>4. ComplementsOf(i) = first \o second
  BY DEF ComplementsOf
<1> HIDE DEF first, second
<1> QED BY <1>2, <1>3, <1>4

\* What the map says two ratios of the table make, they make.
IsExact(map) ==
  \A pair \in DOMAIN map : \A n \in 1 .. Len(map[pair]) :
    /\ map[pair][n].index \in RatioIndex
    /\ pair \in RatioIndex \X RatioIndex => map[pair][n] \in Joins(pair[1], pair[2])

LEMMA MapIsExact == IsExact(BuildComplementsMap(complements))
<1> DEFINE Pair(split) == <<split.left_index, split.right_index>>
           One(n, pair, split) == IF Pair(split) = pair
                                  THEN <<Complement(n, split.type)>> ELSE <<>>
           Made(n, pair) == LET splits == complements[n]
                            IN  FlattenSeq([m \in DOMAIN splits |-> One(n, pair, splits[m])])
           Of(pair) == FlattenSeq([n \in 1 .. RatioCount |-> Made(n - 1, pair)])
           pairs == {Pair(split) : split \in UNION {Range(complements[n]) : n \in RatioIndex}}
           Good(pair) == {c \in [index : RatioIndex, split_type : SplitTypes] :
                            pair \in RatioIndex \X RatioIndex => c \in Joins(pair[1], pair[2])}
<1>1. BuildComplementsMap(complements) = [pair \in pairs |-> Of(pair)]
  BY DEF BuildComplementsMap
<1>2. ASSUME NEW pair, NEW n \in RatioIndex
      PROVE  Made(n, pair) \in Seq(Good(pair))
  <2>1. PICK splits \in Seq(ExactSplits(n)) : splits = complements[n]
    BY ComplementsAreExact DEF complements
  <2>2. PICK N \in Nat : N = Len(splits) /\ DOMAIN splits = 1 .. N
    OBVIOUS
  <2>3. ASSUME NEW m \in 1 .. N
        PROVE  One(n, pair, splits[m]) \in Seq(Good(pair))
    <3>1. PICK split \in ExactSplits(n) : split = splits[m]
      BY <2>2
    <3>2. CASE Pair(split) = pair
      <4>1. /\ split.type \in SplitTypes
            /\ pair \in RatioIndex \X RatioIndex => Complement(n, split.type) \in Joins(pair[1], pair[2])
        BY <3>2 DEF ExactSplits
      <4>2. Complement(n, split.type) \in [index : RatioIndex, split_type : SplitTypes]
        BY <4>1 DEF Complement
      <4>3. Complement(n, split.type) \in Good(pair)
        BY <4>1, <4>2
      <4> HIDE DEF Good
      <4> QED BY <3>1, <3>2, <4>3
    <3>3. CASE Pair(split) # pair
      BY <3>1, <3>3
    <3> QED BY <3>2, <3>3
  <2>4. PICK s : s = [m \in DOMAIN splits |-> One(n, pair, splits[m])]
    OBVIOUS
  <2>5. Len(s) = N /\ (N = 0 => s = <<>>) /\ \A m \in 1 .. N : s[m] = One(n, pair, splits[m])
    BY <2>2, <2>4
  <2>6. Made(n, pair) = FlattenSeq(s)
    BY <2>1, <2>4
  <2> HIDE DEF Made, One, Good
  <2> QED BY <2>3, <2>5, <2>6, FlattenIn
<1>3. ASSUME NEW pair
      PROVE  Of(pair) \in Seq(Good(pair))
  <2>1. PICK N \in Nat : N = RatioCount
    BY RatioTableAssumption DEF RatioCount
  <2>2. PICK s : s = [n \in 1 .. RatioCount |-> Made(n - 1, pair)]
    OBVIOUS
  <2>3. Len(s) = N /\ (N = 0 => s = <<>>) /\ \A n \in 1 .. N : s[n] = Made(n - 1, pair)
    BY <2>1, <2>2
  <2>4. \A n \in 1 .. N : n - 1 \in RatioIndex
    BY <2>1 DEF RatioIndex
  <2>5. Of(pair) = FlattenSeq(s)
    BY <2>2
  <2> HIDE DEF Made, Good, Of
  <2>6. \A n \in 1 .. N : s[n] \in Seq(Good(pair))
    BY <1>2, <2>3, <2>4
  <2> QED BY <2>3, <2>5, <2>6, FlattenIn
<1> SUFFICES ASSUME NEW pair \in pairs, NEW n \in 1 .. Len(Of(pair))
             PROVE  /\ Of(pair)[n].index \in RatioIndex
                    /\ pair \in RatioIndex \X RatioIndex => Of(pair)[n] \in Joins(pair[1], pair[2])
  BY <1>1 DEF IsExact
<1>4. Of(pair)[n] \in Good(pair)
  <2> HIDE DEF Of, Good
  <2> QED BY <1>3
<1> HIDE DEF Of
<1> QED BY <1>4
-----------------------------------------------------------------------------
(* The drawing of two groups joined *)

InUnit(box) ==
  /\ box.left \in Reduced /\ box.top \in Reduced
  /\ box.right \in Reduced /\ box.bottom \in Reduced
  /\ AtMost(Whole(0), box.left) /\ AtMost(box.right, Whole(1))
  /\ AtMost(Whole(0), box.top) /\ AtMost(box.bottom, Whole(1))

\* A part of the unit square that a group of ratio p fills when the square is
\* drawn in ratio n.
IsPart(box, n, p) ==
  /\ box \in Boxes /\ InUnit(box)
  /\ AtMost(Whole(0), Width(box)) /\ AtMost(Whole(0), Height(box)) /\ Height(box) \in NonZero
  /\ Times(Width(box), ratios[n]) = Times(Height(box), ratios[p])

First(n, type, p) ==
  LET share == Over(ratios[p], ratios[n])
  IN  IF type = kSplitTypeHorizontal THEN Box(Whole(0), Whole(0), Whole(1), Reciprocal(share))
                                     ELSE Box(Whole(0), Whole(0), share, Whole(1))
Second(n, type, p) ==
  LET share == Over(ratios[p], ratios[n])
  IN  IF type = kSplitTypeHorizontal THEN Box(Whole(0), Reciprocal(share), Whole(1), Whole(1))
                                     ELSE Box(share, Whole(0), Whole(1), Whole(1))

LEMMA JoinIs ==
  ASSUME NEW n, NEW type, NEW g, NEW h, NEW group, group = Join(n, type, g, h),
         NEW first, first = First(n, type, g.ratio_index),
         NEW second, second = Second(n, type, g.ratio_index)
  PROVE  /\ group.ratio_index = n
         /\ Labels(group) = Labels(g) \cup Labels(h)
         /\ \A l \in Labels(g) : group.boxes[l] = Within(first, g.boxes[l])
         /\ \A l \in Labels(h) \ Labels(g) : group.boxes[l] = Within(second, h.boxes[l])
<1>1. group.boxes = [l \in Labels(g) \cup Labels(h) |->
                       IF l \in Labels(g) THEN Within(first, g.boxes[l])
                                          ELSE Within(second, h.boxes[l])]
  BY DEF Join, First, Second
<1>2. group.ratio_index = n
  BY DEF Join
<1> QED BY <1>1, <1>2 DEF Labels

LEMMA BoxIs ==
  ASSUME NEW a, NEW b, NEW c, NEW d
  PROVE  /\ Box(a, b, c, d).left = a /\ Box(a, b, c, d).top = b
         /\ Box(a, b, c, d).right = c /\ Box(a, b, c, d).bottom = d
         /\ Width(Box(a, b, c, d)) = Minus(c, a) /\ Height(Box(a, b, c, d)) = Minus(d, b)
         /\ a \in Numbers /\ b \in Numbers /\ c \in Numbers /\ d \in Numbers =>
              Box(a, b, c, d) \in Boxes
BY DEF Box, Width, Height, Boxes

LEMMA UnitSides ==
  /\ Whole(0) \in Numbers /\ Whole(1) \in Numbers /\ Whole(1) \in NonZero
  /\ Whole(0) \in Reduced /\ Whole(1) \in Reduced
  /\ Minus(Whole(1), Whole(0)) = Whole(1)
  /\ AtMost(Whole(0), Whole(1)) /\ AtMost(Whole(0), Whole(0)) /\ AtMost(Whole(1), Whole(1))
<1>1. /\ Whole(0) \in Numbers /\ Whole(1) \in Numbers
      /\ Whole(0) \in Reduced /\ Whole(1) \in Reduced
  BY WholeIsNumber, WholeIsReduced
<1>2. Positive(Whole(1))
  BY DEF Positive, Whole
<1>3. Less(Whole(0), Whole(1))
  BY <1>1, <1>2, AboveZero
<1> QED BY <1>1, <1>2, <1>3, PositiveReciprocal, WithZero, AtMostTotal DEF AtMost

\* The order of the two does not matter.
LEMMA JoinsCommute ==
  ASSUME NEW p \in RatioIndex, NEW q \in RatioIndex
  PROVE  Joins(p, q) = Joins(q, p)
<1>1. Plus(ratios[p], ratios[q]) = Plus(ratios[q], ratios[p])
  BY RatioIsReduced, ReducedIsNumber, Commutes
<1>2. Plus(Reciprocal(ratios[p]), Reciprocal(ratios[q])) = Plus(Reciprocal(ratios[q]), Reciprocal(ratios[p]))
  BY RatioIsReduced, ReducedIsNumber, Commutes
<1> QED BY <1>1, <1>2 DEF Joins

\* The parts are parts, one beside the other, and all there is.
LEMMA PartsOfSquare ==
  ASSUME NEW n \in RatioIndex, NEW type, NEW p \in RatioIndex, NEW q \in RatioIndex,
         Complement(n, type) \in Joins(p, q),
         NEW first, first = First(n, type, p), NEW second, second = Second(n, type, p)
  PROVE  /\ IsPart(first, n, p) /\ IsPart(second, n, q)
         /\ Plus(Area(first), Area(second)) = Whole(1)
         /\ first.right = second.left \/ first.bottom = second.top
<1>1. PICK R \in Reduced, P \in Reduced, Q \in Reduced :
        /\ R = ratios[n] /\ P = ratios[p] /\ Q = ratios[q]
        /\ Positive(R) /\ Positive(P) /\ Positive(Q)
  BY RatioIsReduced
<1>2. /\ R \in Numbers /\ P \in Numbers /\ Q \in Numbers
      /\ R \in NonZero /\ P \in NonZero /\ Q \in NonZero
  BY <1>1, ReducedIsNumber, PositiveReciprocal
<1>3. PICK r \in Reduced, a \in Reduced, b \in Reduced :
        /\ r = Reciprocal(R) /\ a = Reciprocal(P) /\ b = Reciprocal(Q)
        /\ Times(R, r) = Whole(1) /\ Times(P, a) = Whole(1) /\ Times(Q, b) = Whole(1)
        /\ Positive(r) /\ Positive(a) /\ Positive(b)
  BY <1>1, <1>2, ReciprocalIs, PositiveReciprocal
<1>4. r \in Numbers /\ a \in Numbers /\ b \in Numbers
  BY ReducedIsNumber
<1>5. \/ type = kSplitTypeVertical /\ R = Plus(P, Q)
      \/ type = kSplitTypeHorizontal /\ r = Plus(a, b)
  <2>1. Complement(n, type).index = n /\ Complement(n, type).split_type = type
    BY DEF Complement
  <2>2. \A m, t : Complement(n, type) = Complement(m, t) => m = n /\ t = type
    BY DEF Complement
  <2> QED BY <1>1, <1>3, <2>2 DEF Joins
<1>6. CASE type = kSplitTypeVertical /\ R = Plus(P, Q)
  <2>1. PICK u \in Reduced : u = Over(P, R) /\ u = Times(P, r) /\ Times(u, R) = P
    BY <1>2, <1>3, TimesOver
  <2>2. PICK v \in Reduced : v = Over(Q, R) /\ v = Times(Q, r) /\ Times(v, R) = Q
    BY <1>2, <1>3, TimesOver
  <2>3. Positive(u) /\ Positive(v) /\ u \in Numbers /\ v \in Numbers
    BY <1>1, <1>2, <1>3, <1>4, <2>1, <2>2, PositiveProduct, ReducedIsNumber
  <2>4. Plus(u, v) = Whole(1)
    <3>1. Times(Plus(P, Q), r) = Plus(Times(P, r), Times(Q, r))
      BY <1>2, <1>4, Distributes
    <3> QED BY <1>3, <1>6, <2>1, <2>2, <3>1
  <2>5. /\ AtMost(Whole(0), u) /\ AtMost(u, Whole(1))
        /\ AtMost(Whole(0), v) /\ AtMost(v, Whole(1))
        /\ Minus(Whole(1), u) = v /\ Minus(u, Whole(0)) = u
    BY <2>3, <2>4, PartsOfOne, WithZero
  <2>6. first = Box(Whole(0), Whole(0), u, Whole(1)) /\ second = Box(u, Whole(0), Whole(1), Whole(1))
    BY <1>1, <1>6, <2>1 DEF First, Second, kSplitTypeVertical, kSplitTypeHorizontal
  <2>7. /\ first \in Boxes /\ Width(first) = u /\ Height(first) = Whole(1)
        /\ second \in Boxes /\ Width(second) = v /\ Height(second) = Whole(1)
    BY <2>3, <2>5, <2>6, BoxIs, UnitSides
  <2>8. InUnit(first) /\ InUnit(second) /\ first.right = second.left
    BY <2>5, <2>6, BoxIs, UnitSides DEF InUnit
  <2>9. Times(Whole(1), P) = P /\ Times(Whole(1), Q) = Q /\ Times(u, Whole(1)) = u /\ Times(v, Whole(1)) = v
    BY Neutral
  <2>10. Area(first) = u /\ Area(second) = v
    BY <2>7, <2>9 DEF Area
  <2>11. IsPart(first, n, p) /\ IsPart(second, n, q)
    BY <1>1, <2>1, <2>2, <2>5, <2>7, <2>8, <2>9, UnitSides DEF IsPart
  <2> QED BY <2>4, <2>8, <2>10, <2>11
<1>7. CASE type = kSplitTypeHorizontal /\ r = Plus(a, b)
  <2>1. PICK u \in Reduced : u = Over(R, P) /\ u = Times(R, a) /\ Times(u, P) = R
    BY <1>2, <1>3, TimesOver
  <2>2. PICK v \in Reduced : v = Over(R, Q) /\ v = Times(R, b) /\ Times(v, Q) = R
    BY <1>2, <1>3, TimesOver
  <2>3. Positive(u) /\ Positive(v) /\ u \in Numbers /\ v \in Numbers /\ u \in NonZero /\ v \in NonZero
    BY <1>1, <1>2, <1>3, <1>4, <2>1, <2>2, PositiveProduct, ReducedIsNumber, PositiveReciprocal
  <2>4. Plus(u, v) = Whole(1)
    <3>1. Times(Plus(a, b), R) = Plus(Times(a, R), Times(b, R))
      BY <1>2, <1>4, Distributes
    <3>2. Times(r, R) = Whole(1) /\ Times(a, R) = u /\ Times(b, R) = v
      BY <1>2, <1>3, <1>4, <2>1, <2>2, Commutes
    <3> QED BY <1>7, <3>1, <3>2
  <2>5. Reciprocal(Over(P, R)) = u
    <3>1. PICK s \in Reduced : s = Over(P, R) /\ s = Times(P, r) /\ Times(R, s) = P
      BY <1>2, <1>3, TimesOver
    <3>2. s \in NonZero /\ s \in Numbers
      BY <1>1, <1>2, <1>3, <1>4, <3>1, PositiveProduct, ReducedIsNumber, PositiveReciprocal
    <3>3. Times(s, u) = Times(Times(s, R), a)
      BY <1>2, <1>4, <2>1, <3>2, TimesAssociative
    <3>4. Times(s, R) = P
      BY <1>2, <3>1, <3>2, Commutes
    <3>5. Times(s, u) = Whole(1)
      BY <1>3, <3>3, <3>4
    <3> QED BY <3>1, <3>2, <3>5, ReciprocalIsOnly
  <2>6. /\ AtMost(Whole(0), u) /\ AtMost(u, Whole(1))
        /\ AtMost(Whole(0), v) /\ AtMost(v, Whole(1))
        /\ Minus(Whole(1), u) = v /\ Minus(u, Whole(0)) = u
    BY <2>3, <2>4, PartsOfOne, WithZero
  <2>7. first = Box(Whole(0), Whole(0), Whole(1), u) /\ second = Box(Whole(0), u, Whole(1), Whole(1))
    BY <1>1, <1>7, <2>5 DEF First, Second
  <2>8. /\ first \in Boxes /\ Width(first) = Whole(1) /\ Height(first) = u
        /\ second \in Boxes /\ Width(second) = Whole(1) /\ Height(second) = v
    BY <2>3, <2>6, <2>7, BoxIs, UnitSides
  <2>9. InUnit(first) /\ InUnit(second) /\ first.bottom = second.top
    BY <2>6, <2>7, BoxIs, UnitSides DEF InUnit
  <2>10. Times(Whole(1), R) = R /\ Times(Whole(1), u) = u /\ Times(Whole(1), v) = v
    BY Neutral
  <2>11. Area(first) = u /\ Area(second) = v
    BY <2>8, <2>10 DEF Area
  <2>12. IsPart(first, n, p) /\ IsPart(second, n, q)
    BY <1>1, <2>1, <2>2, <2>3, <2>6, <2>8, <2>9, <2>10, UnitSides DEF IsPart
  <2> QED BY <2>4, <2>9, <2>11, <2>12
<1> QED BY <1>5, <1>6, <1>7

\* The coordinates of what is within a range.
LEMMA RangeScaled ==
  ASSUME NEW a \in Reduced, NEW b \in Reduced, NEW w, w = Minus(b, a), AtMost(Whole(0), w),
         NEW r \in Reduced, NEW s \in Reduced,
         NEW x, x = Plus(a, Times(r, w)), NEW y, y = Plus(a, Times(s, w))
  PROVE  /\ w \in Numbers /\ x \in Reduced /\ y \in Reduced
         /\ Minus(y, x) = Times(Minus(s, r), w)
         /\ AtMost(r, s) => AtMost(x, y)
         /\ AtMost(Whole(0), r) => AtMost(a, x)
         /\ AtMost(s, Whole(1)) => AtMost(y, b)
<1>1. a \in Numbers /\ b \in Numbers /\ r \in Numbers /\ s \in Numbers
  BY ReducedIsNumber
<1>2. w \in Numbers
  BY <1>1, PlusIsNumber
<1>3. PICK p \in Reduced, q \in Reduced : p = Times(r, w) /\ q = Times(s, w)
  BY <1>1, <1>2, RawAre
<1>4. p \in Numbers /\ q \in Numbers
  BY ReducedIsNumber
<1>5. x = Plus(p, a) /\ y = Plus(q, a) /\ x \in Reduced /\ y \in Reduced
  BY <1>1, <1>3, <1>4, Commutes, RawAre
<1>6. Minus(y, x) = Times(Minus(s, r), w)
  <2>1. Minus(Plus(q, a), Plus(p, a)) = Minus(q, p)
    BY <1>1, <1>4, SumCancel
  <2>2. Times(Minus(s, r), w) = Minus(q, p)
    BY <1>1, <1>2, <1>3, TimesMinus
  <2> QED BY <1>5, <2>1, <2>2
<1>7. AtMost(r, s) => AtMost(x, y)
  <2>1. AtMost(r, s) => AtMost(p, q)
    BY <1>1, <1>2, <1>3, AtMostScaled
  <2> QED BY <1>1, <1>4, <1>5, <2>1, AtMostShifted
<1>8. AtMost(Whole(0), r) => AtMost(a, x)
  <2>1. Times(Whole(0), w) = Whole(0) /\ Whole(0) \in Numbers
    BY <1>2, WithZero, WholeIsNumber
  <2>2. AtMost(Whole(0), r) => AtMost(Whole(0), p)
    BY <1>1, <1>2, <1>3, <2>1, AtMostScaled
  <2>3. Plus(Whole(0), a) = a
    BY Neutral
  <2> QED BY <1>1, <1>4, <1>5, <2>1, <2>2, <2>3, AtMostShifted
<1>9. AtMost(s, Whole(1)) => AtMost(y, b)
  <2>1. w \in Reduced
    BY <1>1, NegativeIs, MinusIs, RawAre
  <2>2. Times(Whole(1), w) = w /\ Whole(1) \in Numbers
    BY <2>1, Neutral, WholeIsNumber
  <2>3. AtMost(s, Whole(1)) => AtMost(q, w)
    BY <1>1, <1>2, <1>3, <2>2, AtMostScaled
  <2>4. b = Plus(a, w)
    BY <1>1, WhatIsLeftAdds
  <2>5. Plus(a, w) = Plus(w, a)
    BY <1>1, <1>2, Commutes
  <2> QED BY <1>1, <1>2, <1>4, <1>5, <2>3, <2>4, <2>5, AtMostShifted
<1> QED BY <1>2, <1>5, <1>6, <1>7, <1>8, <1>9

\* The part of a part.
LEMMA WithinIsPart ==
  ASSUME NEW n \in RatioIndex, NEW p \in RatioIndex, NEW q \in RatioIndex,
         NEW whole, IsPart(whole, n, p), NEW box, IsPart(box, p, q),
         NEW within, within = Within(whole, box)
  PROVE  /\ IsPart(within, n, q)
         /\ Area(within) = Times(Area(box), Area(whole))
         /\ AtMost(whole.left, within.left) /\ AtMost(within.right, whole.right)
         /\ AtMost(whole.top, within.top) /\ AtMost(within.bottom, whole.bottom)
<1>1. PICK W \in Numbers, H \in Numbers : W = Width(whole) /\ H = Height(whole)
  BY PlusIsNumber, ReducedIsNumber DEF IsPart, InUnit, Width, Height
<1>2. PICK w \in Numbers, h \in Numbers : w = Width(box) /\ h = Height(box)
  BY PlusIsNumber, ReducedIsNumber DEF IsPart, InUnit, Width, Height
<1>3. /\ AtMost(Whole(0), W) /\ AtMost(Whole(0), H) /\ H \in NonZero
      /\ AtMost(Whole(0), w) /\ AtMost(Whole(0), h) /\ h \in NonZero
  BY <1>1, <1>2 DEF IsPart
<1>4. /\ within.left = Plus(whole.left, Times(box.left, W))
      /\ within.right = Plus(whole.left, Times(box.right, W))
      /\ within.top = Plus(whole.top, Times(box.top, H))
      /\ within.bottom = Plus(whole.top, Times(box.bottom, H))
      /\ within = Box(within.left, within.top, within.right, within.bottom)
  BY <1>1 DEF Within, Box
<1>5. /\ within.left \in Reduced /\ within.right \in Reduced
      /\ Width(within) = Times(w, W)
      /\ AtMost(whole.left, within.left) /\ AtMost(within.right, whole.right)
  BY <1>1, <1>2, <1>3, <1>4, RangeScaled DEF IsPart, InUnit, Width
<1>6. /\ within.top \in Reduced /\ within.bottom \in Reduced
      /\ Height(within) = Times(h, H)
      /\ AtMost(whole.top, within.top) /\ AtMost(within.bottom, whole.bottom)
  BY <1>1, <1>2, <1>3, <1>4, RangeScaled DEF IsPart, InUnit, Height
<1>7. InUnit(within)
  <2>1. /\ within.left \in Numbers /\ within.right \in Numbers
        /\ within.top \in Numbers /\ within.bottom \in Numbers
        /\ whole.left \in Numbers /\ whole.right \in Numbers
        /\ whole.top \in Numbers /\ whole.bottom \in Numbers
        /\ Whole(0) \in Numbers /\ Whole(1) \in Numbers
    BY <1>5, <1>6, ReducedIsNumber, UnitSides DEF IsPart, InUnit
  <2>2. AtMost(Whole(0), within.left) /\ AtMost(Whole(0), within.top)
    BY <1>5, <1>6, <2>1, AtMostTransitive DEF IsPart, InUnit
  <2>3. AtMost(within.right, Whole(1)) /\ AtMost(within.bottom, Whole(1))
    BY <1>5, <1>6, <2>1, AtMostTransitive DEF IsPart, InUnit
  <2> QED BY <1>5, <1>6, <2>2, <2>3 DEF InUnit
<1>8. Area(within) = Times(Area(box), Area(whole))
  <2>1. Times(Times(w, W), Times(h, H)) = Times(Times(w, h), Times(W, H))
    BY <1>1, <1>2, TimesSwaps
  <2> QED BY <1>1, <1>2, <1>5, <1>6, <2>1 DEF Area
<1>9. AtMost(Whole(0), Width(within)) /\ AtMost(Whole(0), Height(within))
  <2>1. Whole(0) \in Numbers /\ Times(Whole(0), W) = Whole(0) /\ Times(Whole(0), H) = Whole(0)
    BY WithZero, WholeIsNumber
  <2> QED BY <1>3, <1>5, <1>6, <2>1, AtMostScaled
<1>10. Height(within) \in NonZero
  BY <1>3, <1>6, TimesIsNumber
<1>11. Times(Width(within), ratios[n]) = Times(Height(within), ratios[q])
  <2>1. PICK R \in Numbers, P \in Numbers, Q \in Numbers : R = ratios[n] /\ P = ratios[p] /\ Q = ratios[q]
    BY RatioIsNumber
  <2>2. Times(W, R) = Times(H, P) /\ Times(w, P) = Times(h, Q)
    BY <1>1, <1>2, <2>1 DEF IsPart
  <2>3. Times(Times(w, W), R) = Times(w, Times(H, P))
    BY <2>2, TimesAssociative
  <2>4. Times(Times(w, P), H) = Times(w, Times(P, H)) /\ Times(H, P) = Times(P, H)
    BY TimesAssociative, Commutes
  <2>5. Times(Times(h, Q), H) = Times(h, Times(Q, H)) /\ Times(Q, H) = Times(H, Q)
    BY TimesAssociative, Commutes
  <2>6. Times(Times(h, H), Q) = Times(h, Times(H, Q))
    BY TimesAssociative
  <2> QED BY <1>5, <1>6, <2>1, <2>2, <2>3, <2>4, <2>5, <2>6
<1>12. within \in Boxes
  BY <1>4, <1>5, <1>6, ReducedIsNumber, BoxIs
<1> QED BY <1>5, <1>6, <1>7, <1>8, <1>9, <1>10, <1>11, <1>12 DEF IsPart
-----------------------------------------------------------------------------
(* Group() makes groups *)

LEMMA MadeIsInTable ==
  ASSUME AreGroups, NEW g, NEW h, NEW n \in 1 .. Len(MadeOf(g, h))
  PROVE  MadeOf(g, h)[n].index \in RatioIndex
BY DEF AreGroups, MadeOf

LEMMA GroupStepMakes ==
  ASSUME JoinsInv, AreGroups, GroupStep
  PROVE  AreGroups'
<1>1. UNCHANGED <<rectangles, complements_rmap>>
  BY DEF GroupStep, SkipPair, DropGroup, KeepGroup, EndRound
<1>2. IsSequence(label_groups) /\ IsSequence(new_groups)
  BY DEF JoinsInv, Shape
<1>3. CASE SkipPair \/ DropGroup
  BY <1>1, <1>3 DEF SkipPair, DropGroup, AreGroups, Known, IsGroup
<1>4. CASE KeepGroup
  <2>1. Range(new_groups') = Range(new_groups) \cup {NewGroup} /\ UNCHANGED label_groups
    BY <1>2, <1>4, AppendedElements DEF KeepGroup
  <2>2. IsGroup(NewGroup)
    <3>1. Joinable /\ made_at \in Nat /\ base_at \in Nat /\ other_at \in Nat
      BY <1>4, AtPair DEF KeepGroup, JoinsInv, Shape
    <3>2. base_at + 1 \in DOMAIN label_groups /\ other_at + 1 \in DOMAIN label_groups
      BY <3>1, AtPair DEF Joinable, JoinsInv
    <3>3. IsGroup(BaseGroup) /\ IsGroup(OtherGroup)
      BY <3>2 DEF AreGroups, Known, Range, BaseGroup, OtherGroup
    <3>4. PICK n \in Nat, size \in Nat : n = made_at + 1 /\ size = Len(MadeOf(BaseGroup, OtherGroup))
      <4>1. made_at + 1 \in Nat
        BY <3>1
      <4>2. Len(MadeOf(BaseGroup, OtherGroup)) \in Nat
        BY MadeIsCounted DEF JoinsInv
      <4> QED BY <4>1, <4>2
    <3>5. n \in 1 .. Len(MadeOf(BaseGroup, OtherGroup))
      BY <3>1, <3>4 DEF Joinable
    <3>6. MadeOf(BaseGroup, OtherGroup)[n].index \in RatioIndex
      BY <3>5, MadeIsInTable
    <3>7. NewGroup = Join(MadeOf(BaseGroup, OtherGroup)[n].index,
                          MadeOf(BaseGroup, OtherGroup)[n].split_type, BaseGroup, OtherGroup)
      BY <3>4 DEF NewGroup, GroupOf
    <3> QED BY <3>3, <3>6, <3>7, JoinIsGroup
  <2>3. \A g : IsGroup(g)' <=> IsGroup(g)
    BY <1>1 DEF IsGroup
  <2> QED BY <1>1, <2>1, <2>2, <2>3 DEF AreGroups, Known
<1>5. CASE EndRound
  <2>1. label_groups' = new_groups \o label_groups /\ new_groups' = <<>>
    BY <1>5 DEF EndRound
  <2>2. Range(label_groups') = Range(new_groups) \cup Range(label_groups)
    BY <1>2, <2>1, JoinedElements
  <2>3. Range(new_groups') = {}
    BY <2>1 DEF Range
  <2>4. \A g : IsGroup(g)' <=> IsGroup(g)
    BY <1>1 DEF IsGroup
  <2> QED BY <1>1, <2>2, <2>3, <2>4 DEF AreGroups, Known
<1> QED BY <1>3, <1>4, <1>5 DEF GroupStep
=============================================================================
