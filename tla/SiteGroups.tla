----------------------------- MODULE SiteGroups -----------------------------
(***************************************************************************)
(* BuildLayouts of the GoldenSite program (GoldenSite/main.cpp): groups of *)
(* a few neighbouring sections of a page are made first, by                *)
(* CreateBaseGroups (module BaseGroups); Group() (module LabelGroups)      *)
(* joins these, again with a lower limit of cost when they get too many;   *)
(* and BuildLayout (module LayoutSearch) lines up what there is for every  *)
(* width of a screen.                                                      *)
(*                                                                         *)
(* all_groups is passed to Group() and is what Group() returns: here it is *)
(* label_groups all the time, and min_cost is the limit of both.  What     *)
(* CreateBaseGroups finds for a window is any of a few lists; what         *)
(* BuildLayout finds is left to its module.                                *)
(***************************************************************************)
EXTENDS LabelGroups

CONSTANTS
  Pages,             \* the sections BuildLayouts may be called with
  BaseGroupsOf,      \* page -> size of a window -> what CreateBaseGroups may return
  MaxSectionSize,    \* max_section_size, 8
  ManyGroups,        \* groups that are too many to go on with, 10000
  LayoutTargets,     \* how many layout_targets there are
  SizeMod,           \* a size_t is counted modulo this
  IntMax,            \* the greatest int
  MaxRetries         \* bound: Group() is not called again more often

min_section_size == 2
first_min_cost == Rational(1, 4)
cost_factor == Rational(13, 20)

ASSUME PagesAssumption ==
  \A page \in Pages : LET n == Cardinality(DOMAIN page)
                      IN  n \in Nat \ {0} /\ DOMAIN page = 0 .. n - 1
ASSUME BaseGroupsAssumption ==
  \A page \in Pages, size \in min_section_size .. MaxSectionSize :
    \A groups \in BaseGroupsOf[page][size] :
      /\ groups \in Seq(Range(groups))
      /\ \A at \in DOMAIN groups : Labels(groups[at]) = 0 .. size - 1
ASSUME WidthsAssumption ==
  /\ MaxSectionSize \in Nat /\ MaxSectionSize >= min_section_size
  /\ ManyGroups \in Nat /\ LayoutTargets \in Nat \ {0} /\ MaxRetries \in Nat
  /\ IntMax \in Nat /\ SizeMod \in Nat /\ SizeMod > IntMax + 2
  /\ \A page \in Pages : Cardinality(DOMAIN page) + MaxSectionSize =< IntMax

VARIABLES
  pc,               \* "windows", "group", "sort", "layouts", "done", "undefined"
  section,          \* the first row of the window at hand
  rows,             \* i: its size
  all_groups_size,  \* how many groups the windows gave
  layouts,          \* the targets laid out
  windows,          \* the windows tried so far, for the properties
  bases,            \* what they gave, for the properties
  limits            \* the limits Group() was called with, for the properties

site_vars == <<pc, section, rows, all_groups_size, layouts, windows, bases, limits>>
vars == <<join_vars, site_vars>>

PageSize == Cardinality(DOMAIN rectangles)

\* Mutant: the last window of two has its turn.
WindowsEndAfter == (PageSize - min_section_size + 1) % SizeMod

\* sections.size() - min_section_size: a size_t.
WindowsEnd == (PageSize - min_section_size) % SizeMod

\* Mutant: as if all windows had max_section_size rows.
SectionSizeCapped(first) == Min({PageSize - first, MaxSectionSize - 1})

\* The largest window that starts with a row; none if it is negative.
SectionSize(first) ==
  IF first + MaxSectionSize > PageSize THEN PageSize - first ELSE MaxSectionSize

Init ==
  /\ rectangles \in Pages
  /\ complements_rmap = << >> /\ min_cost = first_min_cost
  /\ joining = FALSE /\ label_groups = <<>> /\ label_groups_size = 0
  /\ new_groups = <<>> /\ base_at = 0 /\ other_at = 1 /\ made_at = 0 /\ error = -1
  /\ pc = "windows" /\ section = 0 /\ rows = SectionSize(0)
  /\ all_groups_size = 0 /\ layouts = 0
  /\ windows = <<>> /\ bases = <<>> /\ limits = <<>>

\* LabelGroup::OffsetLabels: counted from the first row of the page.
OffsetLabels(group, offset) ==
  [ratio_index |-> group.ratio_index,
   boxes |-> [l \in {n + offset : n \in Labels(group)} |-> group.boxes[l - offset]]]

InWindows == pc = "windows" /\ section < WindowsEnd

TryWindow ==
  /\ InWindows /\ rows >= min_section_size
  /\ \E groups \in BaseGroupsOf[rectangles][rows] :
       label_groups' = label_groups \o [n \in DOMAIN groups |-> OffsetLabels(groups[n], section)]
  /\ rows' = rows - 1
  /\ windows' = Append(windows, <<section, rows>>)
  /\ UNCHANGED <<rectangles, complements_rmap, min_cost, joining, label_groups_size,
                 new_groups, base_at, other_at, made_at, error,
                 pc, section, all_groups_size, layouts, bases, limits>>

NextSection ==
  /\ InWindows /\ rows < min_section_size /\ section + 1 + MaxSectionSize =< IntMax
  /\ section' = section + 1
  /\ rows' = SectionSize(section + 1)
  /\ UNCHANGED <<join_vars, pc, all_groups_size, layouts, windows, bases, limits>>

\* The end of a largest window at the next row is more than an int holds.
LoseCount ==
  /\ InWindows /\ rows < min_section_size /\ section + 1 + MaxSectionSize > IntMax
  /\ pc' = "undefined"
  /\ UNCHANGED <<join_vars, section, rows, all_groups_size, layouts, windows, bases, limits>>

\* All groups there are go to Group(), with the sections of the page.
GroupAll(groups, cost) ==
  /\ StartGroup(groups, cost)
  /\ limits' = Append(limits, cost)
  /\ UNCHANGED rectangles

EndWindows ==
  /\ pc = "windows" /\ ~InWindows
  /\ complements_rmap' = BuildComplementsMap(complements)
  /\ GroupAll(label_groups, first_min_cost)
  /\ all_groups_size' = Len(label_groups)
  /\ bases' = label_groups
  /\ pc' = "group"
  /\ UNCHANGED <<section, rows, layouts, windows>>

JoinGroups ==
  /\ pc = "group" /\ joining
  /\ GroupStep
  /\ UNCHANGED site_vars

Grouped == pc = "group" /\ ~joining

\* Mutant: what Group() says of its end is not looked at.
OnlyMany == Len(label_groups) > ManyGroups

TooMany == error < 0 \/ Len(label_groups) > ManyGroups

\* Mutant: the groups in front are not replaced.
FrontOnly == SubSeq(label_groups, 1, all_groups_size)

\* Those Group() put in front are deleted, those behind are moved to the front.
Restored ==
  LET all == Len(label_groups)
  IN  SubSeq(label_groups, all - all_groups_size + 1, all)

\* Mutant: the limit stays.
SameLimit == min_cost

LowerLimit == Times(min_cost, cost_factor)

Retry ==
  /\ Grouped /\ TooMany /\ error < 0
  /\ Len(limits) =< MaxRetries
  /\ GroupAll(Restored, LowerLimit)
  /\ UNCHANGED <<complements_rmap, pc, section, rows, all_groups_size, layouts, windows, bases>>

\* Many groups without an error: they are discarded and nothing replaces them.
Discard ==
  /\ Grouped /\ TooMany /\ error >= 0
  /\ label_groups' = Restored
  /\ min_cost' = LowerLimit
  /\ pc' = "sort"
  /\ UNCHANGED <<rectangles, complements_rmap, joining, label_groups_size, new_groups,
                 base_at, other_at, made_at, error,
                 section, rows, all_groups_size, layouts, windows, bases, limits>>

Keep ==
  /\ Grouped /\ ~TooMany
  /\ pc' = "sort"
  /\ UNCHANGED <<join_vars, section, rows, all_groups_size, layouts, windows, bases, limits>>

\* Layout::SortGroupsByRange
SortGroupsByRange(lhs, rhs) ==
  \/ Min(Labels(lhs)) < Min(Labels(rhs))
  \/ Min(Labels(lhs)) = Min(Labels(rhs)) /\ Max(Labels(lhs)) < Max(Labels(rhs))

\* std::sort.  In which order it leaves groups of the same range does not
\* matter here, and to BuildLayout any order is given in the run of its module:
\* they stay in the order they have.
Precedes(k, m) ==
  LET lhs == label_groups[k]
      rhs == label_groups[m]
  IN  \/ SortGroupsByRange(lhs, rhs)
      \/ ~SortGroupsByRange(rhs, lhs) /\ k < m

Rank(m) == Cardinality({k \in DOMAIN label_groups : Precedes(k, m)}) + 1

SortGroups ==
  /\ pc = "sort"
  /\ label_groups' = [n \in DOMAIN label_groups |->
                        label_groups[CHOOSE m \in DOMAIN label_groups : Rank(m) = n]]
  /\ pc' = "layouts"
  /\ UNCHANGED <<rectangles, complements_rmap, min_cost, joining, label_groups_size,
                 new_groups, base_at, other_at, made_at, error,
                 section, rows, all_groups_size, layouts, windows, bases, limits>>

\* BuildLayout reads the first group before it counts them.
LayOut ==
  /\ pc = "layouts" /\ layouts < LayoutTargets
  /\ IF label_groups = <<>>
     THEN pc' = "undefined" /\ UNCHANGED layouts
     ELSE layouts' = layouts + 1 /\ UNCHANGED pc
  /\ UNCHANGED <<join_vars, section, rows, all_groups_size, windows, bases, limits>>

\* The groups are deleted.
Return ==
  /\ pc = "layouts" /\ layouts = LayoutTargets
  /\ label_groups' = <<>>
  /\ pc' = "done"
  /\ UNCHANGED <<rectangles, complements_rmap, min_cost, joining, label_groups_size,
                 new_groups, base_at, other_at, made_at, error,
                 section, rows, all_groups_size, layouts, windows, bases, limits>>

Next == \/ TryWindow \/ NextSection \/ LoseCount \/ EndWindows \/ JoinGroups
        \/ Retry \/ Discard \/ Keep \/ SortGroups \/ LayOut \/ Return

\* The end, or the bound: Group() would be called again.
Stopped ==
  \/ pc \in {"done", "undefined"}
  \/ Grouped /\ error < 0 /\ Len(limits) > MaxRetries

Returned == Stopped /\ UNCHANGED vars

\* Nothing but its own loops can hold up the program.  Next is enabled until
\* Stopped (the run looks for deadlocks), so this is WF_vars(Next).
Fairness == []<>Stopped \/ []<><<Next>>_vars

Spec == Init /\ [][Next \/ Returned]_vars /\ Fairness
-----------------------------------------------------------------------------
(* Properties *)

\* CreateBaseGroups has been asked, once, for every run of 2 to max_section_size
\* neighbouring sections (748-754), but for that of the last two: the loop
\* over the first rows ends one too early.
WindowsTried ==
  pc \in {"group", "sort", "layouts", "done"} =>
    /\ IsInjective(windows)
    /\ Range(windows) =
         {w \in (0 .. PageSize - 3) \X (2 .. MaxSectionSize) : w[1] + w[2] =< PageSize}

\* "delete them and move the back back to the front" (878-889): however often
\* the groups are joined and discarded, those of the windows are there, in
\* their order and behind all others, each with the rows of its window.
BasesAreKept ==
  pc \in {"group", "sort"} =>
    LET all == Len(label_groups)
        behind == SubSeq(label_groups, all - all_groups_size + 1, all)
    IN  /\ behind = bases
        /\ \A n \in DOMAIN bases : \E w \in Range(windows) :
             Labels(bases[n]) = w[1] .. w[1] + w[2] - 1

\* The layouts are made of a settled list: either no two of its groups make
\* one that it lacks and that the last limit allows, or all joins were thrown
\* away.  No list is used that Group() broke off.
SettledOrBases ==
  pc = "sort" =>
    \/ label_groups = bases /\ min_cost = Times(limits[Len(limits)], cost_factor)
    \/ /\ Len(label_groups) =< ManyGroups
       /\ \A p, q \in DOMAIN label_groups :
            (p < q /\ Fits(label_groups[p], label_groups[q])) =>
              \A n \in 1 .. Len(MadeOf(label_groups[p], label_groups[q])) :
                LET group == GroupOf(label_groups[p], label_groups[q], n)
                IN  AtMost(CalculateGroupCost(rectangles, group), limits[Len(limits)])
                      => group \in Range(label_groups)

\* A page of one section is counted for ever, or until the count overflows
\* (748), and one of two sections, or one without any group, has BuildLayout
\* read an element that is not there (utils 1124); all others are laid out.
UndefinedOnSmallPages ==
  /\ pc = "undefined" => PageSize < 3 \/ bases = <<>>
  /\ pc = "done" => PageSize >= 3 /\ bases # <<>>

\* Joins that cost nothing: no limit keeps them out.
FreeJoins ==
  {n \in 1 .. Len(label_groups) - all_groups_size :
     CalculateGroupCost(rectangles, label_groups[n]) = Whole(0)}

\* The loop that lowers the limit ends (870-891), unless more joins cost
\* nothing than a round of Group() may make.
Termination ==
  [](Grouped => Cardinality(FreeJoins) =< ExpThreshold) =>
    <>(pc \in {"done", "undefined"})
=============================================================================
