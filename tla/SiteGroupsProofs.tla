-------------------------- MODULE SiteGroupsProofs --------------------------
(***************************************************************************)
(* BuildLayouts keeps the groups of the windows behind all others and lays *)
(* out a settled list: proofs for any pages, any groups of the windows,    *)
(* any table of ratios and any limits, from the lemmas about Group() in    *)
(* LabelGroupsProofs.                                                      *)
(***************************************************************************)
EXTENDS SiteGroups, LabelGroupsProofs, SequenceTheorems

\* The rectangles of a group are those of a window that was tried.
FromWindow(group) ==
  \E w \in Range(windows) : Labels(group) = w[1] .. w[1] + w[2] - 1

\* The groups of the windows are the last ones, in their order.
BasesBehind ==
  /\ IsSequence(bases) /\ all_groups_size = Len(bases)
  /\ all_groups_size =< Len(label_groups)
  /\ \A n \in 1 .. all_groups_size :
       label_groups[Len(label_groups) - all_groups_size + n] = bases[n]

\* The loops over the windows.
WindowsInv ==
  /\ rectangles \in Pages
  /\ section \in Nat /\ rows \in Int /\ rows =< MaxSectionSize
  /\ IsSequence(windows) /\ IsSequence(limits)

\* What the windows gave.
BasesInv ==
  /\ pc \in {"windows", "group", "sort"} => IsSequence(label_groups)
  /\ pc = "windows" => \A group \in Range(label_groups) : FromWindow(group)
  /\ pc \in {"group", "sort"} =>
       BasesBehind /\ \A group \in Range(bases) : FromWindow(group)

\* The calls of Group() and what is made of their result.
GroupInv ==
  /\ pc = "group" => JoinsInv /\ error \in {0, -1} /\ min_cost = limits[Len(limits)]
  /\ SettledOrBases

\* The inductive invariant.
SiteInv == WindowsInv /\ BasesInv /\ GroupInv
-----------------------------------------------------------------------------
(* The groups of the windows *)

\* A window that was tried stays tried.
LEMMA StaysFromWindow ==
  ASSUME Range(windows) \subseteq Range(windows'), NEW group, FromWindow(group)
  PROVE  FromWindow(group)'
BY DEF FromWindow

\* What is moved to the front is what the windows gave.
LEMMA RestoredAreBases ==
  ASSUME IsSequence(label_groups), BasesBehind
  PROVE  Restored = bases
<1> DEFINE N == Len(label_groups)
           K == all_groups_size
           S == {label_groups[n] : n \in DOMAIN label_groups} \cup {bases[n] : n \in DOMAIN bases}
<1>1. label_groups \in Seq(S) /\ bases \in Seq(S)
  <2>1. /\ label_groups = [n \in 1 .. N |-> label_groups[n]] /\ N \in Nat
        /\ DOMAIN label_groups = 1 .. N
    BY DEF IsSequence
  <2>2. /\ bases = [n \in 1 .. Len(bases) |-> bases[n]] /\ Len(bases) \in Nat
        /\ DOMAIN bases = 1 .. Len(bases)
    BY DEF BasesBehind, IsSequence
  <2>3. (\A n \in 1 .. N : label_groups[n] \in S) /\ \A n \in 1 .. Len(bases) : bases[n] \in S
    BY <2>1, <2>2
  <2> HIDE DEF S
  <2> QED BY <2>1, <2>2, <2>3
<1> HIDE DEF S
<1>2. N \in Nat /\ K \in Nat /\ K =< N /\ K = Len(bases)
  BY <1>1 DEF BasesBehind
<1>3. ASSUME K = 0
      PROVE  Restored = bases
  <2>1. Restored = SubSeq(label_groups, N + 1, N)
    BY <1>2, <1>3 DEF Restored
  <2>2. SubSeq(label_groups, N + 1, N) = <<>>
    BY <1>1, <1>2, SubSeqEmpty
  <2>3. bases = <<>>
    BY <1>1, <1>2, <1>3, EmptySeq
  <2> QED BY <2>1, <2>2, <2>3
<1>4. ASSUME K # 0
      PROVE  Restored = bases
  <2>1. PICK first : first = N - K + 1
    OBVIOUS
  <2>2. first \in 1 .. N + 1 /\ N \in 0 .. N /\ first =< N /\ N - first + 1 = K
    BY <1>2, <1>4, <2>1
  <2>3. PICK t : t = SubSeq(label_groups, first, N)
    OBVIOUS
  <2>4. t \in Seq(S) /\ Len(t) = K
        /\ \A n \in 1 .. K : t[n] = label_groups[first + n - 1]
    <3>1. PICK last, size : last = N /\ size = K
      OBVIOUS
    <3>2. /\ t \in Seq(S) /\ (first =< last => Len(t) = last - first + 1)
          /\ \A n \in 1 .. last - first + 1 : t[n] = label_groups[first + n - 1]
      BY <1>1, <2>2, <2>3, <3>1, SubSeqProperties
    <3> QED BY <2>2, <3>1, <3>2
  <2>5. \A n \in 1 .. K : first + n - 1 = N - K + n
    BY <1>2, <2>1
  <2>6. \A n \in 1 .. K : t[n] = bases[n]
    BY <2>4, <2>5 DEF BasesBehind
  <2>7. t = bases
    BY <1>1, <1>2, <2>4, <2>6, SeqEqual
  <2> QED BY <2>1, <2>3, <2>7 DEF Restored
<1> QED BY <1>3, <1>4

\* A list that is only the groups of the windows has them behind.
LEMMA BasesAlone ==
  ASSUME IsSequence(bases)', label_groups' = bases', all_groups_size' = Len(bases')
  PROVE  BasesBehind' /\ IsSequence(label_groups)'
<1>1. Len(bases') \in Nat
  BY DEF IsSequence
<1>2. PICK k : k = Len(bases')
  OBVIOUS
<1>3. k =< k /\ \A n \in 1 .. k : k - k + n = n
  BY <1>1, <1>2
<1> QED BY <1>2, <1>3 DEF BasesBehind, IsSequence

\* So has one that got others in front.
LEMMA BasesStayBehind ==
  ASSUME IsSequence(label_groups), BasesBehind, UNCHANGED <<bases, all_groups_size>>,
         NEW front, IsSequence(front), label_groups' = front \o label_groups
  PROVE  BasesBehind' /\ IsSequence(label_groups)'
<1> DEFINE N == Len(label_groups)
           M == Len(front)
           K == all_groups_size
<1>1. /\ IsSequence(label_groups') /\ N \in Nat /\ M \in Nat /\ Len(label_groups') = M + N
      /\ \A n \in 1 .. N : label_groups'[M + n] = label_groups[n]
  BY JoinedElements
<1>2. K \in Nat /\ K =< N
  BY DEF BasesBehind, IsSequence
<1> HIDE DEF M, N
<1>3. \A n \in 1 .. K : N - K + n \in 1 .. N /\ (M + N) - K + n = M + (N - K + n)
  BY <1>1, <1>2
<1>4. \A n \in 1 .. K : label_groups'[(M + N) - K + n] = bases[n]
  BY ZenonT(40), <1>1, <1>3 DEF BasesBehind, N
<1>5. K =< M + N
  BY <1>1, <1>2
<1> QED BY ZenonT(40), <1>1, <1>4, <1>5 DEF BasesBehind, IsSequence

\* Group() puts groups in front.
LEMMA GroupStepKeeps ==
  ASSUME JoinsInv, GroupStep, IsSequence(label_groups), BasesBehind,
         UNCHANGED <<bases, all_groups_size>>
  PROVE  BasesBehind' /\ IsSequence(label_groups)'
<1>1. CASE EndRound
  <2>1. label_groups' = new_groups \o label_groups /\ IsSequence(new_groups)
    BY <1>1 DEF EndRound, JoinsInv, Shape
  <2> QED BY <2>1, BasesStayBehind
<1>2. CASE SkipPair \/ DropGroup \/ KeepGroup
  <2>1. label_groups' = label_groups
    BY <1>2 DEF SkipPair, DropGroup, KeepGroup
  <2> QED BY <2>1 DEF BasesBehind, IsSequence
<1> QED BY <1>1, <1>2 DEF GroupStep
-----------------------------------------------------------------------------
(* The steps *)

\* The size of a window is a number, though it may be negative.
LEMMA SectionSizeIsSmall ==
  ASSUME NEW page \in Pages, page = rectangles, NEW first \in Nat
  PROVE  SectionSize(first) \in Int /\ SectionSize(first) =< MaxSectionSize
<1>1. PageSize \in Nat
  BY PagesAssumption DEF PageSize
<1> QED BY <1>1, WidthsAssumption DEF SectionSize

\* What a list of CreateBaseGroups is, counted from the first row of the page.
LEMMA ShiftedFromWindow ==
  ASSUME WindowsInv, rows >= min_section_size,
         NEW groups \in BaseGroupsOf[rectangles][rows],
         windows' = Append(windows, <<section, rows>>),
         NEW shifted, shifted = [n \in DOMAIN groups |-> OffsetLabels(groups[n], section)]
  PROVE  /\ IsSequence(shifted)
         /\ \A group \in Range(shifted) : FromWindow(group)'
         /\ IsSequence(windows)' /\ Range(windows) \subseteq Range(windows')
<1>1. /\ section \in Nat /\ rows \in Int /\ rows \in min_section_size .. MaxSectionSize
      /\ rectangles \in Pages
  BY WidthsAssumption DEF WindowsInv, min_section_size
<1>2. groups \in Seq(Range(groups)) /\ \A at \in DOMAIN groups : Labels(groups[at]) = 0 .. rows - 1
  BY <1>1, BaseGroupsAssumption
<1>3. IsSequence(shifted)
  <2>1. Len(groups) \in Nat /\ DOMAIN groups = 1 .. Len(groups)
    BY <1>2
  <2>2. shifted = [n \in 1 .. Len(groups) |-> shifted[n]] /\ DOMAIN shifted = 1 .. Len(groups)
    BY <2>1
  <2>3. shifted \in Seq({shifted[n] : n \in DOMAIN shifted})
    BY <2>1, <2>2
  <2> QED BY <2>3 DEF IsSequence
<1>4. IsSequence(windows') /\ Range(windows') = Range(windows) \cup {<<section, rows>>}
  BY AppendedElements DEF WindowsInv
<1>5. ASSUME NEW at \in DOMAIN groups
      PROVE  FromWindow(shifted[at])'
  <2>1. PICK group : group = groups[at]
    OBVIOUS
  <2>2. Labels(group) = 0 .. rows - 1
    BY <1>2, <2>1
  <2>3. Labels(OffsetLabels(group, section)) = {n + section : n \in Labels(group)}
    BY DEF Labels, OffsetLabels
  <2>4. {n + section : n \in 0 .. rows - 1} = section .. section + rows - 1
    <3>1. \A l \in section .. section + rows - 1 : l - section \in 0 .. rows - 1 /\ l = (l - section) + section
      BY <1>1
    <3>2. \A n \in 0 .. rows - 1 : n + section \in section .. section + rows - 1
      BY <1>1
    <3> QED BY <3>1, <3>2
  <2>5. Labels(shifted[at]) = section .. section + rows - 1
    BY <2>1, <2>2, <2>3, <2>4
  <2>6. PICK made, w : made = shifted[at] /\ w = <<section, rows>>
    OBVIOUS
  <2>7. w \in Range(windows') /\ Labels(made) = w[1] .. w[1] + w[2] - 1
    BY <1>4, <2>5, <2>6
  <2>8. FromWindow(made)'
    BY <2>7 DEF FromWindow, Labels
  <2> QED BY <2>6, <2>8
<1>6. \A group \in Range(shifted) : FromWindow(group)'
  BY <1>5 DEF Range
<1> QED BY <1>3, <1>4, <1>6

LEMMA TryWindowKeeps ==
  ASSUME SiteInv, TryWindow
  PROVE  SiteInv'
<1>1. PICK groups \in BaseGroupsOf[rectangles][rows] :
        label_groups' = label_groups \o [n \in DOMAIN groups |-> OffsetLabels(groups[n], section)]
  BY DEF TryWindow
<1>2. PICK shifted : shifted = [n \in DOMAIN groups |-> OffsetLabels(groups[n], section)]
  OBVIOUS
<1>3. /\ IsSequence(shifted) /\ \A group \in Range(shifted) : FromWindow(group)'
      /\ IsSequence(windows)' /\ Range(windows) \subseteq Range(windows')
  BY <1>2, ShiftedFromWindow DEF SiteInv, TryWindow
<1>4. pc = "windows" /\ pc' = "windows" /\ IsSequence(label_groups)
      /\ \A group \in Range(label_groups) : FromWindow(group)
  BY DEF SiteInv, BasesInv, TryWindow, InWindows
<1>5. IsSequence(label_groups') /\ Range(label_groups') = Range(label_groups) \cup Range(shifted)
  BY <1>1, <1>2, <1>3, <1>4, JoinedElements
<1>6. \A group \in Range(label_groups') : FromWindow(group)'
  BY <1>3, <1>4, <1>5, StaysFromWindow
<1>7. BasesInv'
  BY <1>4, <1>5, <1>6 DEF BasesInv, IsSequence
<1>8. WindowsInv'
  <2>1. rows' \in Int /\ rows' =< MaxSectionSize
    BY WidthsAssumption DEF SiteInv, WindowsInv, TryWindow
  <2> QED BY <1>3, <2>1 DEF SiteInv, WindowsInv, TryWindow, IsSequence
<1>9. GroupInv'
  BY <1>4 DEF GroupInv, SettledOrBases
<1> QED BY <1>7, <1>8, <1>9 DEF SiteInv

LEMMA NextSectionKeeps ==
  ASSUME SiteInv, NextSection
  PROVE  SiteInv'
<1>1. pc = "windows" /\ pc' = "windows" /\ UNCHANGED <<rectangles, label_groups, windows, limits>>
  BY DEF NextSection, InWindows, join_vars
<1>2. WindowsInv'
  <2>1. section + 1 \in Nat /\ rectangles \in Pages
    BY DEF SiteInv, WindowsInv
  <2>2. PICK first : first = section + 1
    OBVIOUS
  <2>3. SectionSize(first) \in Int /\ SectionSize(first) =< MaxSectionSize
    BY <2>1, <2>2, SectionSizeIsSmall
  <2> QED BY <1>1, <2>1, <2>2, <2>3 DEF SiteInv, WindowsInv, NextSection, IsSequence
<1>3. BasesInv'
  <2>1. \A group \in Range(label_groups) : FromWindow(group)
    BY <1>1 DEF SiteInv, BasesInv
  <2>2. Range(windows) \subseteq Range(windows')
    BY <1>1
  <2>3. \A group \in Range(label_groups') : FromWindow(group)'
    BY <1>1, <2>1, <2>2, StaysFromWindow
  <2> QED BY <1>1, <2>3 DEF SiteInv, BasesInv, IsSequence
<1>4. GroupInv'
  BY <1>1 DEF GroupInv, SettledOrBases
<1> QED BY <1>2, <1>3, <1>4 DEF SiteInv

LEMMA EndWindowsKeeps ==
  ASSUME SiteInv, EndWindows
  PROVE  SiteInv'
<1>1. /\ pc = "windows" /\ pc' = "group" /\ IsSequence(label_groups)
      /\ StartGroup(label_groups, first_min_cost) /\ limits' = Append(limits, first_min_cost)
      /\ all_groups_size' = Len(label_groups) /\ bases' = label_groups
      /\ label_groups' = label_groups
      /\ UNCHANGED <<rectangles, section, rows, windows>>
  BY DEF SiteInv, BasesInv, EndWindows, GroupAll, StartGroup
<1>2. JoinsInv'
  <2>1. MapIsCounted'
    BY ComplementsMapAssumption DEF EndWindows, MapIsCounted, Range
  <2> QED BY <1>1, <2>1, StartGroupSettles
<1>3. IsSequence(limits') /\ limits'[Len(limits')] = first_min_cost
  <2>1. IsSequence(limits)
    BY DEF SiteInv, WindowsInv
  <2>2. limits'[Len(limits')] = first_min_cost
    BY <1>1, <2>1 DEF IsSequence
  <2> QED BY <1>1, <2>1, <2>2, AppendedElements
<1>4. BasesInv'
  <2>1. BasesBehind' /\ IsSequence(label_groups)'
    BY <1>1, BasesAlone DEF IsSequence
  <2>2. \A group \in Range(label_groups) : FromWindow(group)
    BY <1>1 DEF SiteInv, BasesInv
  <2>3. Range(windows) \subseteq Range(windows')
    BY <1>1
  <2>4. \A group \in Range(bases') : FromWindow(group)'
    BY <1>1, <2>2, <2>3, StaysFromWindow
  <2> QED BY <1>1, <2>1, <2>4 DEF BasesInv
<1>5. WindowsInv'
  BY <1>1, <1>3 DEF SiteInv, WindowsInv, IsSequence
<1>6. GroupInv'
  BY <1>1, <1>2, <1>3 DEF GroupInv, SettledOrBases, StartGroup
<1> QED BY <1>4, <1>5, <1>6 DEF SiteInv

LEMMA JoinGroupsKeeps ==
  ASSUME SiteInv, JoinGroups
  PROVE  SiteInv'
<1>1. /\ pc = "group" /\ JoinsInv /\ GroupStep /\ IsSequence(label_groups) /\ BasesBehind
      /\ error \in {0, -1} /\ min_cost = limits[Len(limits)]
      /\ UNCHANGED <<pc, section, rows, all_groups_size, windows, bases, limits>>
  BY DEF SiteInv, BasesInv, GroupInv, JoinGroups, site_vars
<1>2. UNCHANGED <<rectangles, min_cost>> /\ error' \in {0, -1}
  BY <1>1 DEF GroupStep, SkipPair, DropGroup, KeepGroup, EndRound
<1>3. BasesInv'
  <2>1. BasesBehind' /\ IsSequence(label_groups)'
    BY <1>1, GroupStepKeeps
  <2>2. \A group \in Range(bases) : FromWindow(group)
    BY <1>1 DEF SiteInv, BasesInv
  <2>3. Range(windows) \subseteq Range(windows')
    BY <1>1
  <2>4. \A group \in Range(bases') : FromWindow(group)'
    BY <1>1, <2>2, <2>3, StaysFromWindow
  <2> QED BY <1>1, <2>1, <2>4 DEF BasesInv
<1>4. WindowsInv'
  BY <1>1, <1>2 DEF SiteInv, WindowsInv, IsSequence
<1>5. GroupInv'
  <2>1. JoinsInv'
    BY <1>1, GroupStepSettles
  <2> QED BY <1>1, <1>2, <2>1 DEF GroupInv, SettledOrBases
<1> QED BY <1>3, <1>4, <1>5 DEF SiteInv

LEMMA RetryKeeps ==
  ASSUME SiteInv, Retry
  PROVE  SiteInv'
<1>1. /\ pc = "group" /\ IsSequence(label_groups) /\ BasesBehind /\ JoinsInv
      /\ UNCHANGED <<rectangles, complements_rmap, pc, section, rows, all_groups_size, windows, bases>>
  BY DEF SiteInv, BasesInv, GroupInv, Retry, Grouped, GroupAll
<1>2. PICK limit : limit = LowerLimit
  OBVIOUS
<1>3. StartGroup(bases, limit) /\ limits' = Append(limits, limit)
  BY <1>1, <1>2, RestoredAreBases DEF Retry, GroupAll
<1>4. label_groups' = bases /\ min_cost' = limit /\ error' = 0
  BY <1>3 DEF StartGroup
<1>5. IsSequence(bases) /\ all_groups_size = Len(bases)
  BY <1>1 DEF BasesBehind
<1>6. JoinsInv'
  <2>1. MapIsCounted'
    BY <1>1 DEF JoinsInv, Shape, MapIsCounted
  <2> QED BY <1>3, <1>5, <2>1, StartGroupSettles
<1>7. IsSequence(limits') /\ limits'[Len(limits')] = limit
  <2>1. IsSequence(limits)
    BY DEF SiteInv, WindowsInv
  <2>2. limits'[Len(limits')] = limit
    BY <1>3, <2>1 DEF IsSequence
  <2> QED BY <1>3, <2>1, <2>2, AppendedElements
<1>8. BasesInv'
  <2>1. BasesBehind' /\ IsSequence(label_groups)'
    BY <1>1, <1>4, <1>5, BasesAlone DEF IsSequence
  <2>2. \A group \in Range(bases) : FromWindow(group)
    BY <1>1 DEF SiteInv, BasesInv
  <2>3. Range(windows) \subseteq Range(windows')
    BY <1>1
  <2>4. \A group \in Range(bases') : FromWindow(group)'
    BY <1>1, <2>2, <2>3, StaysFromWindow
  <2> QED BY <1>1, <2>1, <2>4 DEF BasesInv
<1>9. WindowsInv'
  BY <1>1, <1>7 DEF SiteInv, WindowsInv, IsSequence
<1>10. GroupInv'
  BY <1>1, <1>4, <1>6, <1>7 DEF GroupInv, SettledOrBases
<1> QED BY <1>8, <1>9, <1>10 DEF SiteInv

\* What is left when Group() is not called again: the groups of the windows.
LEMMA DiscardKeeps ==
  ASSUME SiteInv, Discard
  PROVE  SiteInv'
<1>1. /\ pc = "group" /\ pc' = "sort" /\ IsSequence(label_groups) /\ BasesBehind
      /\ min_cost = limits[Len(limits)]
      /\ UNCHANGED <<rectangles, section, rows, all_groups_size, windows, bases, limits>>
  BY DEF SiteInv, BasesInv, GroupInv, Discard, Grouped
<1>2. label_groups' = bases /\ min_cost' = Times(min_cost, cost_factor)
  BY <1>1, RestoredAreBases DEF Discard, LowerLimit
<1>3. BasesInv'
  <2>1. IsSequence(bases) /\ all_groups_size = Len(bases)
    BY <1>1 DEF BasesBehind
  <2>2. BasesBehind' /\ IsSequence(label_groups)'
    BY <1>1, <1>2, <2>1, BasesAlone DEF IsSequence
  <2>3. \A group \in Range(bases) : FromWindow(group)
    BY <1>1 DEF SiteInv, BasesInv
  <2>4. Range(windows) \subseteq Range(windows')
    BY <1>1
  <2>5. \A group \in Range(bases') : FromWindow(group)'
    BY <1>1, <2>3, <2>4, StaysFromWindow
  <2> QED BY <1>1, <2>2, <2>5 DEF BasesInv
<1>4. WindowsInv'
  BY <1>1 DEF SiteInv, WindowsInv, IsSequence
<1>5. GroupInv'
  BY <1>1, <1>2 DEF GroupInv, SettledOrBases
<1> QED BY <1>3, <1>4, <1>5 DEF SiteInv

\* Group() has not given up, so that what it left is settled.
LEMMA KeepIsSettled ==
  ASSUME SiteInv, Keep
  PROVE  SettledOrBases'
<1>1. /\ pc = "group" /\ ~joining /\ error = 0 /\ Len(label_groups) =< ManyGroups
      /\ JoinsInv /\ min_cost = limits[Len(limits)] /\ IsSequence(label_groups)
      /\ UNCHANGED <<rectangles, complements_rmap, label_groups, limits>>
  <2>1. pc = "group" /\ ~joining /\ ~TooMany /\ JoinsInv /\ error \in {0, -1}
        /\ min_cost = limits[Len(limits)] /\ IsSequence(label_groups)
    BY DEF SiteInv, BasesInv, GroupInv, Keep, Grouped
  <2>2. ~(Len(label_groups) > ManyGroups) /\ ~(error < 0)
    BY <2>1 DEF TooMany
  <2>3. error = 0
    BY <2>1, <2>2
  <2>4. Len(label_groups) \in Nat
    BY <2>1 DEF IsSequence
  <2>5. Len(label_groups) =< ManyGroups
    BY <2>2, <2>4, WidthsAssumption
  <2> QED BY <2>1, <2>3, <2>5 DEF Keep, join_vars
<1>2. ASSUME NEW p \in DOMAIN label_groups, NEW q \in DOMAIN label_groups, p < q,
             NEW g, NEW h, g = label_groups[p], h = label_groups[q], Fits(g, h),
             NEW n \in 1 .. Len(MadeOf(g, h)),
             AtMost(CalculateGroupCost(rectangles, GroupOf(g, h, n)), min_cost)
      PROVE  GroupOf(g, h, n) \in Range(label_groups)
  <2>1. Settled(label_groups[p], label_groups[q]) /\ Known = Range(label_groups)
    BY <1>1, <1>2, ReturnedSettled
  <2>2. SettledBy(g, h, n)
    BY <1>2, <2>1 DEF Settled
  <2> QED BY <1>2, <2>1, <2>2 DEF SettledBy, Affordable
<1>3. ASSUME NEW p \in DOMAIN label_groups', NEW q \in DOMAIN label_groups', p < q,
             Fits(label_groups[p], label_groups[q])',
             NEW n \in 1 .. Len(MadeOf(label_groups[p], label_groups[q]))',
             AtMost(CalculateGroupCost(rectangles, GroupOf(label_groups[p], label_groups[q], n)),
                    limits[Len(limits)])'
      PROVE  GroupOf(label_groups[p], label_groups[q], n)' \in Range(label_groups')
  <2>1. PICK g, h : g = label_groups[p] /\ h = label_groups[q]
    OBVIOUS
  <2>2. OnlyLearns
    BY <1>1 DEF Keep, join_vars, OnlyLearns, Known
  <2>3. MadeOf(g, h)' = MadeOf(g, h) /\ GroupOf(g, h, n)' = GroupOf(g, h, n)
    BY <2>2, SameMade DEF GroupOf
  <2>4. Fits(g, h) /\ n \in 1 .. Len(MadeOf(g, h))
    BY <1>1, <1>3, <2>1, <2>2, <2>3, SameFits
  <2>5. AtMost(CalculateGroupCost(rectangles, GroupOf(g, h, n)), min_cost)
    BY <1>1, <1>3, <2>1, <2>3
  <2> QED BY <1>1, <1>2, <1>3, <2>1, <2>3, <2>4, <2>5
<1>4. pc' = "sort" /\ Len(label_groups') =< ManyGroups
  BY <1>1 DEF Keep
<1> QED BY <1>3, <1>4 DEF SettledOrBases

LEMMA KeepKeeps ==
  ASSUME SiteInv, Keep
  PROVE  SiteInv'
<1>1. /\ pc = "group" /\ pc' = "sort"
      /\ UNCHANGED <<rectangles, label_groups, section, rows, all_groups_size, windows, bases, limits>>
  BY DEF Keep, Grouped, join_vars
<1>2. BasesInv'
  <2>1. IsSequence(label_groups) /\ BasesBehind /\ \A group \in Range(bases) : FromWindow(group)
    BY <1>1 DEF SiteInv, BasesInv
  <2>2. Range(windows) \subseteq Range(windows')
    BY <1>1
  <2>3. \A group \in Range(bases') : FromWindow(group)'
    BY <1>1, <2>1, <2>2, StaysFromWindow
  <2> QED BY <1>1, <2>1, <2>3 DEF BasesInv, BasesBehind, IsSequence
<1>3. WindowsInv'
  BY <1>1 DEF SiteInv, WindowsInv, IsSequence
<1>4. GroupInv'
  BY <1>1, KeepIsSettled DEF GroupInv
<1> QED BY <1>2, <1>3, <1>4 DEF SiteInv

\* Once the groups are to be sorted nothing is asked of them.
LEMMA AfterwardsKeeps ==
  ASSUME SiteInv, LoseCount \/ SortGroups \/ LayOut \/ Return
  PROVE  SiteInv'
<1>1. /\ pc' \in {"layouts", "done", "undefined"}
      /\ UNCHANGED <<rectangles, section, rows, windows, limits>>
  BY DEF LoseCount, SortGroups, LayOut, Return, join_vars
<1>2. WindowsInv'
  BY <1>1 DEF SiteInv, WindowsInv, IsSequence
<1> QED BY <1>1, <1>2 DEF SiteInv, BasesInv, GroupInv, SettledOrBases

LEMMA StutterKeeps ==
  ASSUME SiteInv, UNCHANGED vars
  PROVE  SiteInv'
<1>1. /\ UNCHANGED join_vars
      /\ UNCHANGED <<rectangles, complements_rmap, min_cost, label_groups, error,
                     pc, section, rows, all_groups_size, windows, bases, limits>>
  BY DEF vars, site_vars, join_vars
<1>2. WindowsInv'
  BY <1>1 DEF SiteInv, WindowsInv, IsSequence
<1>3. BasesInv'
  <2>1. ASSUME NEW group, FromWindow(group)
        PROVE  FromWindow(group)'
    BY <1>1, <2>1, StaysFromWindow
  <2>2. BasesBehind => BasesBehind'
    BY <1>1 DEF BasesBehind, IsSequence
  <2> QED BY <1>1, <2>1, <2>2 DEF SiteInv, BasesInv, IsSequence
<1>4. GroupInv'
  <2>1. JoinsInv => JoinsInv'
    BY <1>1, StaysJoined
  <2>2. SettledOrBases'
    <3>1. \A g, h : Fits(g, h)' = Fits(g, h)
      BY <1>1 DEF Fits
    <3>2. \A g, h : MadeOf(g, h)' = MadeOf(g, h)
      BY <1>1 DEF MadeOf
    <3>3. \A g, h, n : GroupOf(g, h, n)' = GroupOf(g, h, n)
      BY <3>2 DEF GroupOf
    <3> QED BY <1>1, <3>1, <3>2, <3>3, Zenon DEF SiteInv, GroupInv, SettledOrBases
  <2> QED BY <1>1, <2>1, <2>2 DEF SiteInv, GroupInv
<1> QED BY <1>2, <1>3, <1>4 DEF SiteInv
-----------------------------------------------------------------------------
(* The windows *)

\* Those of the earlier first rows, and of this one those of more than rows.
TriedSoFar ==
  {w \in Nat \X (min_section_size .. MaxSectionSize) :
     /\ w[1] + w[2] =< PageSize
     /\ w[1] < section \/ (w[1] = section /\ w[2] > rows)}

\* The windows tried are the first ones in the order of the loops.
TriedInv ==
  /\ pc = "windows" =>
       /\ section =< IntMax /\ section =< WindowsEnd
       /\ section + rows =< PageSize
       /\ section = WindowsEnd => rows = SectionSize(section)
       /\ IsInjective(windows) /\ Range(windows) = TriedSoFar
  /\ WindowsTried

\* The limit of the loop: the unsigned difference of a page of one section is
\* more than an int can be.
LEMMA WindowsEndIs ==
  ASSUME rectangles \in Pages
  PROVE  /\ PageSize \in Nat \ {0}
         /\ PageSize = 1 => WindowsEnd \in Int /\ WindowsEnd > IntMax
         /\ PageSize # 1 => WindowsEnd = PageSize - 2
<1>1. PageSize \in Nat \ {0} /\ PageSize =< IntMax
  <2>1. \E page \in Pages : PageSize = Cardinality(DOMAIN page) /\ PageSize \in Nat \ {0}
    BY PagesAssumption DEF PageSize
  <2> QED BY <2>1, WidthsAssumption DEF min_section_size
<1>2. IntMax \in Nat /\ SizeMod \in Nat /\ SizeMod > IntMax + 2
  BY WidthsAssumption
<1>3. ASSUME PageSize = 1
      PROVE  WindowsEnd = SizeMod - 1
  BY <1>2, <1>3 DEF WindowsEnd, min_section_size
<1>4. ASSUME PageSize # 1
      PROVE  WindowsEnd = PageSize - 2
  <2>1. PageSize - 2 \in 0 .. SizeMod - 1
    BY <1>1, <1>2, <1>4
  <2> QED BY <1>2, <2>1 DEF WindowsEnd, min_section_size
<1> QED BY <1>1, <1>2, <1>3, <1>4

\* A largest window does not go past the page, and leaves out none.
LEMMA LargestWindow ==
  ASSUME rectangles \in Pages, NEW first \in Nat
  PROVE  /\ SectionSize(first) \in Int /\ first + SectionSize(first) =< PageSize
         /\ \A size \in min_section_size .. MaxSectionSize :
              first + size =< PageSize => size =< SectionSize(first)
<1>1. PageSize \in Nat
  BY PagesAssumption DEF PageSize
<1> QED BY <1>1, WidthsAssumption DEF SectionSize, min_section_size

\* Nothing is tried before the first window of a row.
LEMMA TriedBefore ==
  ASSUME rectangles \in Pages, section \in Nat, rows = SectionSize(section)
  PROVE  TriedSoFar = {w \in Nat \X (min_section_size .. MaxSectionSize) :
                         w[1] + w[2] =< PageSize /\ w[1] < section}
<1>1. ASSUME NEW w \in Nat \X (min_section_size .. MaxSectionSize),
             w[1] + w[2] =< PageSize, w[1] = section, w[2] > rows
      PROVE  FALSE
  <2>1. rows \in Int /\ \A size \in min_section_size .. MaxSectionSize :
                          section + size =< PageSize => size =< rows
    BY LargestWindow
  <2>2. w[2] \in min_section_size .. MaxSectionSize
    OBVIOUS
  <2>3. w[2] =< rows /\ w[2] \in Int
    BY <1>1, <2>1, <2>2
  <2> QED BY <1>1, <2>1, <2>3
<1> QED BY <1>1 DEF TriedSoFar

LEMMA TriesWindow ==
  ASSUME WindowsInv, TriedInv, TryWindow
  PROVE  TriedInv'
<1>1. /\ pc = "windows" /\ section < WindowsEnd /\ rows >= min_section_size
      /\ rows' = rows - 1 /\ windows' = Append(windows, <<section, rows>>)
      /\ UNCHANGED <<pc, section, rectangles>>
  BY DEF TryWindow, InWindows
<1>2. PICK P, E, w : P = PageSize /\ E = WindowsEnd /\ w = <<section, rows>>
  OBVIOUS
<1>3. /\ section \in Nat /\ rows \in Int /\ rows =< MaxSectionSize /\ IsSequence(windows)
      /\ P \in Nat /\ E \in Int /\ MaxSectionSize \in Nat
  BY <1>2, WindowsEndIs, WidthsAssumption DEF WindowsInv
<1>4. /\ section =< IntMax /\ section =< E /\ section + rows =< P
      /\ IsInjective(windows) /\ Range(windows) = TriedSoFar
  BY <1>1, <1>2 DEF TriedInv
<1>5. PageSize' = P /\ WindowsEnd' = E
  BY <1>1, <1>2 DEF PageSize, WindowsEnd
<1>6. w \notin Range(windows)
  BY <1>2, <1>3, <1>4 DEF TriedSoFar
<1>7. TriedSoFar' = TriedSoFar \cup {w}
  <2>1. w \in TriedSoFar'
    BY <1>1, <1>2, <1>3, <1>4, <1>5 DEF TriedSoFar, min_section_size
  <2>2. ASSUME NEW v \in Nat \X (min_section_size .. MaxSectionSize), v # w
        PROVE  (v[1] = section /\ v[2] > rows - 1) <=> (v[1] = section /\ v[2] > rows)
    <3>1. v = <<v[1], v[2]>> /\ v[1] \in Nat /\ v[2] \in Int
      BY DEF min_section_size
    <3>2. v[1] = section => v[2] # rows
      BY <1>2, <2>2, <3>1
    <3> QED BY <1>3, <3>1, <3>2
  <2>3. \A v : v # w => (v \in TriedSoFar' <=> v \in TriedSoFar)
    BY <1>1, <1>2, <1>5, <2>2 DEF TriedSoFar
  <2>4. TriedSoFar \subseteq TriedSoFar'
    BY <1>4, <1>6, <2>3
  <2> QED BY <2>1, <2>3, <2>4
<1>8. IsInjective(windows') /\ Range(windows') = Range(windows) \cup {w}
  <2>1. Range(windows') = Range(windows) \cup {w}
    BY <1>1, <1>2, <1>3, AppendedElements
  <2>2. /\ Len(windows) \in Nat /\ DOMAIN windows = 1 .. Len(windows)
        /\ windows \in Seq({windows[n] : n \in DOMAIN windows} \cup {w})
    <3>1. Len(windows) \in Nat /\ DOMAIN windows = 1 .. Len(windows)
          /\ windows = [n \in 1 .. Len(windows) |-> windows[n]]
      BY <1>3 DEF IsSequence
    <3>2. \A n \in 1 .. Len(windows) : windows[n] \in {windows[m] : m \in DOMAIN windows} \cup {w}
      BY <3>1
    <3> QED BY <3>1, <3>2
  <2>3. /\ DOMAIN windows' = 1 .. Len(windows) + 1 /\ windows'[Len(windows) + 1] = w
        /\ \A n \in 1 .. Len(windows) : windows'[n] = windows[n]
    BY <1>1, <1>2, <2>2
  <2>4. \A n \in 1 .. Len(windows) : windows[n] # w
    BY <1>6, <2>2 DEF Range
  <2>5. ASSUME NEW a \in DOMAIN windows', NEW b \in DOMAIN windows', windows'[a] = windows'[b]
        PROVE  a = b
    <3>1. a \in 1 .. Len(windows) \/ a = Len(windows) + 1
      BY <2>2, <2>3
    <3>2. b \in 1 .. Len(windows) \/ b = Len(windows) + 1
      BY <2>2, <2>3
    <3> QED BY <1>4, <2>2, <2>3, <2>4, <2>5, <3>1, <3>2 DEF IsInjective
  <2> QED BY <2>1, <2>5 DEF IsInjective
<1>9. section + rows' =< P
  BY <1>1, <1>3, <1>4
<1> QED BY <1>1, <1>2, <1>3, <1>4, <1>5, <1>7, <1>8, <1>9 DEF TriedInv, WindowsTried

LEMMA TriesNextSection ==
  ASSUME WindowsInv, TriedInv, NextSection
  PROVE  TriedInv'
<1>1. /\ pc = "windows" /\ section < WindowsEnd /\ rows < min_section_size
      /\ section + 1 + MaxSectionSize =< IntMax
      /\ section' = section + 1 /\ rows' = SectionSize(section + 1)
      /\ UNCHANGED <<pc, windows, rectangles>>
  BY DEF NextSection, InWindows, join_vars
<1>2. PICK P, E, next : P = PageSize /\ E = WindowsEnd /\ next = section + 1
  OBVIOUS
<1>3. /\ section \in Nat /\ next \in Nat /\ rows \in Int /\ rectangles \in Pages
      /\ P \in Nat /\ E \in Int /\ IntMax \in Nat
  BY <1>2, WindowsEndIs, WidthsAssumption DEF WindowsInv
<1>4. PageSize' = P /\ WindowsEnd' = E /\ SectionSize(next)' = SectionSize(next)
  BY <1>1, <1>2 DEF PageSize, WindowsEnd, SectionSize
<1>5. next =< IntMax /\ next =< E
  <2>1. MaxSectionSize \in Nat
    BY WidthsAssumption
  <2> QED BY <1>1, <1>2, <1>3, <2>1
<1>6. next + rows' =< P
  BY <1>1, <1>2, <1>3, LargestWindow
<1>7. TriedSoFar' = {w \in Nat \X (min_section_size .. MaxSectionSize) :
                       w[1] + w[2] =< P /\ w[1] < next}
  <2>1. ASSUME NEW w \in Nat \X (min_section_size .. MaxSectionSize), w[1] + w[2] =< P
        PROVE  ~(w[1] = next /\ w[2] > rows')
    <3>1. w[2] \in min_section_size .. MaxSectionSize /\ w[2] \in Int
      BY DEF min_section_size
    <3>2. rows' \in Int /\ \A size \in min_section_size .. MaxSectionSize :
                             next + size =< P => size =< rows'
      BY <1>1, <1>2, <1>3, LargestWindow
    <3> QED BY <2>1, <3>1, <3>2
  <2> QED BY <1>1, <1>2, <1>4, <2>1 DEF TriedSoFar
<1>8. TriedSoFar = {w \in Nat \X (min_section_size .. MaxSectionSize) :
                      w[1] + w[2] =< P /\ w[1] < next}
  <2>1. ASSUME NEW w \in Nat \X (min_section_size .. MaxSectionSize)
        PROVE  w[1] < section \/ (w[1] = section /\ w[2] > rows) <=> w[1] < next
    <3>1. w[1] \in Nat /\ w[2] \in Int /\ w[2] >= 2
      BY DEF min_section_size
    <3>2. rows < 2
      BY <1>1 DEF min_section_size
    <3> QED BY <1>2, <1>3, <3>1, <3>2
  <2> QED BY <1>2, <2>1 DEF TriedSoFar
<1>9. IsInjective(windows') /\ Range(windows') = TriedSoFar'
  BY <1>1, <1>7, <1>8 DEF TriedInv
<1> QED BY <1>1, <1>2, <1>4, <1>5, <1>6, <1>9 DEF TriedInv, WindowsTried

\* At its end the loop has been at all windows but the last one of two.
LEMMA TriesAll ==
  ASSUME WindowsInv, TriedInv, EndWindows
  PROVE  TriedInv'
<1>1. pc = "windows" /\ ~(section < WindowsEnd) /\ pc' = "group" /\ UNCHANGED <<windows, rectangles>>
  BY DEF EndWindows, InWindows, GroupAll
<1>2. PICK P : P = PageSize
  OBVIOUS
<1>3. section \in Nat /\ rectangles \in Pages /\ IntMax \in Nat /\ P \in Nat \ {0}
  BY <1>2, WindowsEndIs, WidthsAssumption DEF WindowsInv
<1>4. /\ section =< IntMax /\ section =< WindowsEnd
      /\ section = WindowsEnd => rows = SectionSize(section)
      /\ IsInjective(windows) /\ Range(windows) = TriedSoFar
  BY <1>1 DEF TriedInv
<1>5. P # 1 /\ section = P - 2
  BY <1>1, <1>2, <1>3, <1>4, WindowsEndIs
<1>6. rows = SectionSize(section)
  <2>1. WindowsEnd = P - 2
    BY <1>2, <1>3, <1>5, WindowsEndIs
  <2> QED BY <1>4, <1>5, <2>1
<1>7. Range(windows) = {w \in Nat \X (min_section_size .. MaxSectionSize) :
                          w[1] + w[2] =< P /\ w[1] < section}
  BY <1>2, <1>3, <1>4, <1>6, TriedBefore
<1>8. Range(windows) = {w \in (0 .. P - 3) \X (2 .. MaxSectionSize) : w[1] + w[2] =< P}
  <2>1. \A first \in Nat : first < section <=> first \in 0 .. P - 3
    BY <1>3, <1>5
  <2>2. \A first \in 0 .. P - 3 : first \in Nat
    OBVIOUS
  <2>3. ASSUME NEW w, w \in Nat \X (2 .. MaxSectionSize), w[1] < section
        PROVE  w \in (0 .. P - 3) \X (2 .. MaxSectionSize)
    BY <2>1, <2>3
  <2>4. ASSUME NEW w, w \in (0 .. P - 3) \X (2 .. MaxSectionSize)
        PROVE  w \in Nat \X (2 .. MaxSectionSize) /\ w[1] < section
    BY <2>1, <2>2, <2>4
  <2> QED BY <1>7, <2>3, <2>4 DEF min_section_size
<1>9. PageSize' = P
  BY <1>1, <1>2 DEF PageSize
<1> QED BY <1>1, <1>4, <1>8, <1>9 DEF TriedInv, WindowsTried

\* Behind the loop nothing is tried.
LEMMA TriesNoMore ==
  ASSUME TriedInv, UNCHANGED <<rectangles, windows>>, pc' # "windows",
         pc' \in {"group", "sort", "layouts", "done"} => pc \in {"group", "sort", "layouts", "done"}
  PROVE  TriedInv'
<1>1. PageSize' = PageSize
  BY DEF PageSize
<1> QED BY <1>1 DEF TriedInv, WindowsTried
-----------------------------------------------------------------------------
(* The pages that are not laid out *)

\* A page of one section does not leave the windows, one of two has none, and
\* of no groups Group() makes none.
PageInv ==
  /\ pc \in {"windows", "group", "sort", "layouts", "done", "undefined"}
  /\ pc \in {"group", "sort", "layouts", "done"} =>
       PageSize # 1 /\ (PageSize = 2 => bases = <<>>)
  /\ pc \in {"group", "sort", "layouts"} /\ bases = <<>> => label_groups = <<>>
  /\ pc = "group" /\ bases = <<>> => new_groups = <<>>
  /\ pc = "layouts" /\ label_groups = <<>> => bases = <<>>
  /\ pc = "layouts" /\ layouts # 0 => label_groups # <<>>
  /\ pc \in {"windows", "group", "sort"} => layouts = 0
  /\ UndefinedOnSmallPages

\* A sequence of no elements is the empty one.
LEMMA NoElements ==
  ASSUME NEW s, IsSequence(s), Range(s) = {}
  PROVE  s = <<>>
<1>1. PICK T : T = {s[n] : n \in DOMAIN s}
  OBVIOUS
<1>2. s \in Seq(T) /\ T = {}
  BY <1>1 DEF IsSequence, Range
<1>3. Len(s) \in Nat /\ \A n \in 1 .. Len(s) : s[n] \in T
  BY <1>2
<1>4. Len(s) = 0
  BY <1>2, <1>3
<1> QED BY <1>2, <1>4, EmptySeq

\* A page of two sections has no window but that of the last two.
LEMMA NoGroupsOfTwo ==
  ASSUME NEW page, page = 2, NEW given, IsSequence(given),
         NEW tried, tried = {w \in (0 .. page - 3) \X (2 .. MaxSectionSize) : w[1] + w[2] =< page},
         \A group \in Range(given) : \E w \in tried : Labels(group) = w[1] .. w[1] + w[2] - 1
  PROVE  given = <<>>
<1>1. 0 .. 2 - 3 = {}
  OBVIOUS
<1>2. tried = {}
  BY <1>1
<1> QED BY <1>2, NoElements

LEMMA WindowsPage ==
  ASSUME SiteInv, TriedInv, PageInv, TryWindow \/ NextSection
  PROVE  PageInv'
<1>1. pc = "windows" /\ UNCHANGED <<pc, layouts>>
  BY DEF TryWindow, NextSection, InWindows
<1> QED BY <1>1 DEF PageInv, UndefinedOnSmallPages

\* Only the rows of a page of one section are counted too far.
LEMMA LoseCountPage ==
  ASSUME SiteInv, TriedInv, PageInv, LoseCount
  PROVE  PageInv'
<1>1. /\ pc' = "undefined" /\ section + 1 + MaxSectionSize > IntMax /\ section < WindowsEnd
      /\ UNCHANGED rectangles
  BY DEF LoseCount, InWindows, join_vars
<1>2. PICK P \in Nat \ {0} : P = PageSize /\ P + MaxSectionSize =< IntMax
  BY PagesAssumption, WidthsAssumption DEF SiteInv, WindowsInv, PageSize
<1>3. PageSize = 1
  <2>1. rectangles \in Pages /\ section \in Nat /\ IntMax \in Nat /\ MaxSectionSize \in Nat
    BY WidthsAssumption DEF SiteInv, WindowsInv
  <2>2. P # 1 => section < P - 2
    BY <1>1, <1>2, <2>1, WindowsEndIs
  <2> QED BY <1>1, <1>2, <2>1, <2>2
<1>4. PageSize' = PageSize
  BY <1>1 DEF PageSize
<1> QED BY <1>1, <1>3, <1>4 DEF PageInv, UndefinedOnSmallPages

LEMMA EndWindowsPage ==
  ASSUME SiteInv, TriedInv, PageInv, EndWindows
  PROVE  PageInv'
<1>1. /\ pc = "windows" /\ ~(section < WindowsEnd) /\ pc' = "group" /\ bases' = label_groups
      /\ StartGroup(label_groups, first_min_cost) /\ UNCHANGED rectangles
  BY DEF EndWindows, InWindows, GroupAll
<1>2. PageSize # 1
  <2>1. section =< IntMax /\ section \in Nat /\ rectangles \in Pages /\ IntMax \in Nat
    BY <1>1, WidthsAssumption DEF TriedInv, SiteInv, WindowsInv
  <2> QED BY <1>1, <2>1, WindowsEndIs
<1>3. SiteInv' /\ TriedInv'
  BY EndWindowsKeeps, TriesAll DEF SiteInv
<1>4. PageSize' = 2 => bases' = <<>>
  <2>1. WindowsTried' /\ BasesInv'
    BY <1>3 DEF TriedInv, SiteInv
  <2>2. Range(windows') = {w \in (0 .. PageSize' - 3) \X (2 .. MaxSectionSize) :
                             w[1] + w[2] =< PageSize'}
    BY <1>1, <2>1 DEF WindowsTried
  <2>3. /\ IsSequence(bases')
        /\ \A group \in Range(bases') : \E w \in Range(windows') :
             Labels(group) = w[1] .. w[1] + w[2] - 1
    BY <1>1, <2>1 DEF BasesInv, BasesBehind, IsSequence, FromWindow
  <2> QED BY <2>2, <2>3, NoGroupsOfTwo
<1>5. PageSize' = PageSize
  BY <1>1 DEF PageSize
<1>6. label_groups' = label_groups /\ new_groups' = <<>>
  BY <1>1 DEF StartGroup
<1>7. pc' = "group" /\ bases' = label_groups' /\ layouts' = 0
  BY <1>1, <1>6 DEF EndWindows, PageInv
<1> QED BY <1>2, <1>4, <1>5, <1>6, <1>7 DEF PageInv, UndefinedOnSmallPages

\* Nothing is joined when there is nothing.
LEMMA JoinGroupsPage ==
  ASSUME SiteInv, PageInv, JoinGroups
  PROVE  PageInv'
<1>1. pc = "group" /\ Shape /\ GroupStep /\ UNCHANGED <<rectangles, pc, layouts, bases>>
  BY DEF SiteInv, GroupInv, JoinsInv, JoinGroups, site_vars, GroupStep, SkipPair, DropGroup,
         KeepGroup, EndRound
<1>2. ASSUME bases = <<>>
      PROVE  label_groups' = <<>> /\ new_groups' = <<>>
  <2>1. label_groups = <<>> /\ new_groups = <<>>
    BY <1>1, <1>2 DEF PageInv
  <2>2. ~InRound
    <3>1. label_groups_size \in 0 .. Len(<<>>) /\ base_at \in 0 .. label_groups_size
      BY <1>1, <2>1 DEF Shape
    <3>2. Len(<<>>) = 0
      OBVIOUS
    <3> QED BY <3>1, <3>2 DEF InRound
  <2>3. EndRound
    BY <1>1, <2>2 DEF GroupStep, SkipPair, DropGroup, KeepGroup
  <2>4. <<>> \o <<>> = <<>>
    OBVIOUS
  <2> QED BY <2>1, <2>3, <2>4 DEF EndRound
<1>3. PageSize' = PageSize
  BY <1>1 DEF PageSize
<1> QED BY <1>1, <1>2, <1>3 DEF PageInv, UndefinedOnSmallPages

LEMMA RetryPage ==
  ASSUME SiteInv, PageInv, Retry
  PROVE  PageInv'
<1>1. /\ pc = "group" /\ IsSequence(label_groups) /\ BasesBehind
      /\ UNCHANGED <<rectangles, pc, layouts, bases>>
  BY DEF SiteInv, BasesInv, Retry, Grouped, GroupAll
<1>2. label_groups' = bases /\ new_groups' = <<>>
  BY <1>1, RestoredAreBases DEF Retry, GroupAll, StartGroup
<1>3. PageSize' = PageSize
  BY <1>1 DEF PageSize
<1> QED BY <1>1, <1>2, <1>3 DEF PageInv, UndefinedOnSmallPages

LEMMA DiscardOrKeepPage ==
  ASSUME SiteInv, PageInv, Discard \/ Keep
  PROVE  PageInv'
<1>1. pc = "group" /\ pc' = "sort" /\ UNCHANGED <<rectangles, layouts, bases>>
  BY DEF Discard, Keep, Grouped, join_vars
<1>2. bases = <<>> => label_groups' = <<>>
  <2>1. CASE Discard
    <3>1. IsSequence(label_groups) /\ BasesBehind
      BY <1>1 DEF SiteInv, BasesInv
    <3> QED BY <2>1, <3>1, RestoredAreBases DEF Discard
  <2>2. CASE Keep
    BY <1>1, <2>2 DEF PageInv, Keep, join_vars
  <2> QED BY <2>1, <2>2
<1>3. PageSize' = PageSize
  BY <1>1 DEF PageSize
<1> QED BY <1>1, <1>2, <1>3 DEF PageInv, UndefinedOnSmallPages

\* The groups of the windows are among those that are sorted.
LEMMA SortGroupsPage ==
  ASSUME SiteInv, PageInv, SortGroups
  PROVE  PageInv'
<1>1. /\ pc = "sort" /\ pc' = "layouts" /\ UNCHANGED <<rectangles, layouts, bases>>
      /\ IsSequence(label_groups) /\ BasesBehind
  BY DEF SortGroups, SiteInv, BasesInv
<1>2. label_groups' = <<>> <=> label_groups = <<>>
  <2>1. DOMAIN label_groups' = DOMAIN label_groups
    BY DEF SortGroups
  <2>2. label_groups = <<>> => label_groups' = <<>>
    BY DEF SortGroups
  <2>3. label_groups' = <<>> => DOMAIN label_groups = {}
    BY <2>1
  <2>4. DOMAIN label_groups = {} => Range(label_groups) = {}
    BY DEF Range
  <2> QED BY <1>1, <2>2, <2>3, <2>4, NoElements
<1>3. label_groups = <<>> => bases = <<>>
  <2>1. ASSUME label_groups = <<>>
        PROVE  bases = <<>>
    <3>1. Len(bases) =< 0 /\ IsSequence(bases)
      BY <1>1, <2>1 DEF BasesBehind
    <3>2. Len(bases) \in Nat
      BY <3>1 DEF IsSequence
    <3>3. Len(bases) = 0
      BY <3>1, <3>2
    <3> QED BY <3>1, <3>3, EmptySeq DEF IsSequence
  <2> QED BY <2>1
<1>4. bases = <<>> => label_groups = <<>>
  BY <1>1 DEF PageInv
<1>5. PageSize' = PageSize
  BY <1>1 DEF PageSize
<1> QED BY <1>1, <1>2, <1>3, <1>4, <1>5 DEF PageInv, UndefinedOnSmallPages

\* BuildLayout reads an element that is not there only if there are no groups.
LEMMA LayOutPage ==
  ASSUME SiteInv, PageInv, LayOut
  PROVE  PageInv'
<1>1. pc = "layouts" /\ UNCHANGED <<rectangles, label_groups, bases>>
  BY DEF LayOut, join_vars
<1>2. PageSize' = PageSize
  BY <1>1 DEF PageSize
<1>3. CASE label_groups = <<>>
  BY <1>1, <1>2, <1>3 DEF LayOut, PageInv, UndefinedOnSmallPages
<1>4. CASE label_groups # <<>>
  BY <1>1, <1>2, <1>4 DEF LayOut, PageInv, UndefinedOnSmallPages
<1> QED BY <1>3, <1>4

LEMMA ReturnPage ==
  ASSUME SiteInv, PageInv, Return
  PROVE  PageInv'
<1>1. pc = "layouts" /\ pc' = "done" /\ layouts = LayoutTargets /\ UNCHANGED <<rectangles, bases>>
  BY DEF Return
<1>2. label_groups # <<>>
  BY <1>1, WidthsAssumption DEF PageInv
<1>3. PageSize # 1 /\ (PageSize = 2 => bases = <<>>) /\ bases # <<>>
  BY <1>1, <1>2 DEF PageInv
<1>4. PageSize' = PageSize /\ PageSize \in Nat \ {0}
  BY <1>1, WindowsEndIs DEF PageSize, SiteInv, WindowsInv
<1> QED BY <1>1, <1>3, <1>4 DEF PageInv, UndefinedOnSmallPages

LEMMA StutterPage ==
  ASSUME PageInv, UNCHANGED vars
  PROVE  PageInv'
<1>1. UNCHANGED <<rectangles, pc, label_groups, new_groups, bases, layouts>>
  BY DEF vars, site_vars, join_vars
<1>2. PageSize' = PageSize
  BY <1>1 DEF PageSize
<1> QED BY <1>1, <1>2 DEF PageInv, UndefinedOnSmallPages
-----------------------------------------------------------------------------
\* In every state of BuildLayouts the groups of the windows are behind the
\* others and Group() has settled what it has been at.
THEOREM SiteInvariant == Spec => []SiteInv
<1>1. Init => SiteInv
  <2> SUFFICES ASSUME Init
               PROVE  SiteInv
    OBVIOUS
  <2>1. IsSequence(<<>>) /\ Range(<<>>) = {}
    BY DEF IsSequence, Range
  <2>2. rectangles \in Pages /\ rows = SectionSize(0) /\ 0 \in Nat
    BY DEF Init
  <2>3. rows \in Int /\ rows =< MaxSectionSize
    BY <2>2, SectionSizeIsSmall
  <2>4. WindowsInv
    BY <2>1, <2>3 DEF Init, WindowsInv
  <2>5. BasesInv /\ GroupInv
    BY <2>1 DEF Init, BasesInv, GroupInv, SettledOrBases
  <2> QED BY <2>4, <2>5 DEF SiteInv
<1>2. SiteInv /\ [Next \/ Returned]_vars => SiteInv'
  BY TryWindowKeeps, NextSectionKeeps, EndWindowsKeeps, JoinGroupsKeeps, RetryKeeps,
     DiscardKeeps, KeepKeeps, AfterwardsKeeps, StutterKeeps
     DEF Next, Returned
<1> QED BY <1>1, <1>2, PTL DEF Spec

\* However often the groups are joined and discarded, those of the windows are
\* there, in their order, each with the rows of its window.
THEOREM BasesAreKeptCorrect == Spec => []BasesAreKept
<1>1. SiteInv => BasesAreKept
  <2> SUFFICES ASSUME SiteInv, pc \in {"group", "sort"}
               PROVE  /\ Restored = bases
                      /\ \A n \in DOMAIN bases : FromWindow(bases[n])
    BY DEF BasesAreKept, Restored, FromWindow
  <2>1. IsSequence(label_groups) /\ BasesBehind /\ \A group \in Range(bases) : FromWindow(group)
    BY DEF SiteInv, BasesInv
  <2>2. \A n \in DOMAIN bases : bases[n] \in Range(bases)
    BY DEF Range
  <2> QED BY <2>1, <2>2, RestoredAreBases
<1> QED BY <1>1, SiteInvariant, PTL

\* The layouts are made of a settled list, or of the groups of the windows.
THEOREM SettledOrBasesCorrect == Spec => []SettledOrBases
<1>1. SiteInv => SettledOrBases
  BY DEF SiteInv, GroupInv
<1> QED BY <1>1, SiteInvariant, PTL

\* In every state the windows tried are the first ones in the order of the loops.
THEOREM TriedInvariant == Spec => []TriedInv
<1>1. Init => TriedInv
  <2> SUFFICES ASSUME Init
               PROVE  TriedInv
    OBVIOUS
  <2>1. /\ rectangles \in Pages /\ pc = "windows" /\ section = 0 /\ rows = SectionSize(section)
        /\ windows = <<>> /\ section \in Nat /\ IntMax \in Nat
    BY WidthsAssumption DEF Init
  <2>2. section =< IntMax /\ section =< WindowsEnd
    BY <2>1, WindowsEndIs
  <2>3. section + rows =< PageSize
    BY <2>1, LargestWindow
  <2>4. TriedSoFar = {}
    <3>1. \A w \in Nat \X (min_section_size .. MaxSectionSize) : ~(w[1] < section)
      BY <2>1
    <3> QED BY <2>1, <3>1, TriedBefore
  <2>5. IsInjective(windows) /\ Range(windows) = {}
    BY <2>1 DEF IsInjective, Range
  <2> QED BY <2>1, <2>2, <2>3, <2>4, <2>5 DEF TriedInv, WindowsTried
<1>2. SiteInv /\ TriedInv /\ [Next \/ Returned]_vars => TriedInv'
  <2> SUFFICES ASSUME SiteInv, TriedInv, [Next \/ Returned]_vars
               PROVE  TriedInv'
    OBVIOUS
  <2>1. CASE TryWindow
    BY <2>1, TriesWindow DEF SiteInv
  <2>2. CASE NextSection
    BY <2>2, TriesNextSection DEF SiteInv
  <2>3. CASE EndWindows
    BY <2>3, TriesAll DEF SiteInv
  <2>4. CASE LoseCount
    BY <2>4, TriesNoMore DEF LoseCount, InWindows, join_vars
  <2>5. CASE JoinGroups
    <3>1. UNCHANGED rectangles
      BY <2>5 DEF JoinGroups, GroupStep, SkipPair, DropGroup, KeepGroup, EndRound
    <3> QED BY <2>5, <3>1, TriesNoMore DEF JoinGroups, site_vars
  <2>6. CASE Retry
    BY <2>6, TriesNoMore DEF Retry, Grouped, GroupAll
  <2>7. CASE Discard \/ Keep \/ SortGroups
    BY <2>7, TriesNoMore DEF Discard, Keep, SortGroups, Grouped, join_vars
  <2>8. CASE LayOut \/ Return
    BY <2>8, TriesNoMore DEF LayOut, Return, join_vars
  <2>9. CASE UNCHANGED vars
    <3>1. UNCHANGED <<rectangles, pc, section, rows, windows>>
      BY <2>9 DEF vars, site_vars, join_vars
    <3>2. /\ PageSize' = PageSize /\ WindowsEnd' = WindowsEnd
          /\ SectionSize(section)' = SectionSize(section) /\ TriedSoFar' = TriedSoFar
      BY <3>1 DEF PageSize, WindowsEnd, SectionSize, TriedSoFar
    <3> QED BY <3>1, <3>2 DEF TriedInv, WindowsTried
  <2> QED BY <2>1, <2>2, <2>3, <2>4, <2>5, <2>6, <2>7, <2>8, <2>9 DEF Next, Returned
<1> QED BY <1>1, <1>2, SiteInvariant, PTL DEF Spec

\* CreateBaseGroups is asked, once, for every run of neighbouring sections it
\* may be asked for, but for that of the last two.
THEOREM WindowsTriedCorrect == Spec => []WindowsTried
<1>1. TriedInv => WindowsTried
  BY DEF TriedInv
<1> QED BY <1>1, TriedInvariant, PTL

\* Only a page of one section, or one that gives no group, is not laid out: the
\* rows of the first are counted too far, and for the second, as for any page of
\* two sections, BuildLayout reads an element that is not there.
THEOREM UndefinedOnSmallPagesCorrect == Spec => []UndefinedOnSmallPages
<1>1. Init => PageInv
  BY DEF Init, PageInv, UndefinedOnSmallPages
<1>2. SiteInv /\ TriedInv /\ PageInv /\ [Next \/ Returned]_vars => PageInv'
  BY WindowsPage, LoseCountPage, EndWindowsPage, JoinGroupsPage, RetryPage, DiscardOrKeepPage,
     SortGroupsPage, LayOutPage, ReturnPage, StutterPage DEF Next, Returned
<1>3. PageInv => UndefinedOnSmallPages
  BY DEF PageInv
<1> QED BY <1>1, <1>2, <1>3, SiteInvariant, TriedInvariant, PTL DEF Spec
=============================================================================
