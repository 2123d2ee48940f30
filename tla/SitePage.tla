------------------------------ MODULE SitePage ------------------------------
(***************************************************************************)
(* main of the GoldenSite program (GoldenSite/main.cpp) with the reader of *)
(* its page, SiteReader::ReadSite (GoldenSite/site_section_reader.h): the  *)
(* rows of a table become sections, the sections of a layout group are     *)
(* laid out together for every width of a screen, and the layouts of all   *)
(* groups are put below each other in one style sheet per width.           *)
(*                                                                         *)
(* The table comes from CsvParser (see module SiteFile) as records of      *)
(* cells, a cell being <<>> or <<value>>; BuildLayouts (SiteGroups) gives  *)
(* any of a few lists of layouts, a layout being its leaves in the order   *)
(* they are drawn.                                                         *)
(* Rows, labels and targets are counted from 0, as in the code.            *)
(***************************************************************************)
EXTENDS GoldenNumbers, SequencesExt, FiniteSetsExt

CONSTANTS
  Tables,        \* header, rows
  TargetWidths,  \* layout_targets: their widths
  DefaultTarget, \* the one of default_width
  LayoutsOf,     \* sections of a group -> targets -> the lists BuildLayouts may give
  Devices        \* widths of screens, for the properties

Field == {"name", "poster", "dimensions", "layout", "disabled", "unknown"}
Target == 0 .. Len(TargetWidths) - 1
Width(t) == TargetWidths[t + 1]

none == -1

\* A cell holds what its column is for: a poster is a name with a dot or without,
\* with "jpg" or "jpeg" behind the last dot, or for a name without one, of a
\* picture that has a size if it can be read.
Holds(field, value) ==
  CASE field = "poster" ->
         /\ value \in [dot : BOOLEAN, jpeg : BOOLEAN, width : Int, height : Int]
         /\ \/ value.width > 0 /\ value.height > 0
            \/ value.width = none /\ value.height = none
    [] field = "dimensions" -> value \in (Nat \ {0}) \X (Nat \ {0})
    [] field = "layout" -> value \in Int
    [] OTHER -> TRUE

IsTable(table) ==
  /\ table.header \in Seq(Field) /\ Len(table.rows) \in Nat
  /\ \A m \in 1 .. Len(table.rows) :
       /\ Len(table.rows[m]) \in Nat
       /\ \A n \in DOMAIN table.header :
            n =< Len(table.rows[m]) /\ table.rows[m][n] # <<>> =>
              Holds(table.header[n], table.rows[m][n][1])

Apart(a, b) ==
  a.right =< b.left \/ b.right =< a.left \/ a.bottom =< b.top \/ b.bottom =< a.top

\* What LayoutSearch and BaseGroups show of a layout: each section has its place
\* in it, and no two overlap.
IsLayout(layout, size) ==
  /\ layout \in Seq([label : 0 .. size - 1, left : Int, top : Nat, right : Int, bottom : Nat])
  /\ \A l \in 0 .. size - 1 : \E k \in DOMAIN layout : layout[k].label = l
  /\ \A k \in DOMAIN layout :
       layout[k].left < layout[k].right /\ layout[k].top < layout[k].bottom
  /\ \A j, k \in DOMAIN layout :
       j # k => layout[j].label # layout[k].label /\ Apart(layout[j], layout[k])

\* The program's targets get wider, from one that is for phones.
ASSUME TargetsAssumption ==
  /\ TargetWidths \in Seq(Nat \ {0}) /\ Len(TargetWidths) > 1 /\ DefaultTarget \in Target
  /\ \A s, t \in Target : s < t => Width(s) < Width(t)
  /\ Width(0) =< 480
  /\ Devices \subseteq Nat
ASSUME TablesAssumption ==
  \A table \in Tables :
    IsTable(table) /\ 3 .. Len(table.rows) \subseteq DOMAIN LayoutsOf
ASSUME LayoutsAssumption ==
  \A size \in DOMAIN LayoutsOf : \A layouts \in LayoutsOf[size], t \in Target :
    /\ layouts[t] \in Seq(Range(layouts[t]))
    /\ \A layout \in Range(layouts[t]) : IsLayout(layout, size)

VARIABLES
  pc,              \* "read", "layouts", "build", "draw", "images", "done", and
                   \* the other ends: "aborted", "undefined"
  table,
  read,            \* how many rows of it have been read
  row,             \* the number of the next section
  sections,
  all_layouts,     \* group -> target -> layouts
  layout_permutations,
  p,               \* how many of the permutations are built
  drawing,         \* the place in target_order, and the group drawn
  drawn,           \* how many of its leaves are drawn
  offset_y, max_height,
  ordered_dimensions,
  sheets,          \* target -> what its style sheet shows
  max_thumb_scale, \* target -> row -> scale
  images           \* row -> post_fix -> scale

vars == <<pc, table, read, row, sections, all_layouts, layout_permutations, p, drawing,
          drawn, offset_y, max_height, ordered_dimensions, sheets, max_thumb_scale, images>>
page == <<table, read, row, sections, all_layouts, layout_permutations>>

INT_MAX == 1000000   \* above any number of layouts

Init ==
  /\ table \in Tables
  /\ pc = "read" /\ read = 0 /\ row = 0 /\ sections = <<>>
  /\ all_layouts = <<>> /\ layout_permutations = INT_MAX /\ p = 0
  /\ drawing = [at |-> 0, group |-> 0] /\ drawn = 0
  /\ offset_y = 0 /\ max_height = 0 /\ ordered_dimensions = <<>>
  /\ sheets = << >> /\ max_thumb_scale = << >> /\ images = << >>
-----------------------------------------------------------------------------
(* ReadSite *)

Record == table.rows[read + 1]

\* The loop over the columns: the last cell for a field that is not empty.
Filled(field) == {n \in DOMAIN table.header : table.header[n] = field /\ Record[n] # <<>>}
Cell(field, default) ==
  IF Filled(field) = {} THEN default ELSE Record[Max(Filled(field))][1]
Disabled == Filled("disabled") # {}

\* Mutant: the first field may be empty.
MoreRecords == table.header # <<>> /\ read < Len(table.rows)

MoreRows ==
  /\ table.header # <<>> /\ read < Len(table.rows)
  /\ Record # <<>> /\ Record[1] # <<>>

\* The last column that tells a size goes over the others; without any, width and
\* height are what was in memory, for which none stands.
Sized == Filled("dimensions") \cup {n \in Filled("poster") : Record[n][1].jpeg}
SizeIn(n) ==
  IF table.header[n] = "dimensions" THEN Record[n][1]
  ELSE <<Record[n][1].width, Record[n][1].height>>

\* A name without a dot is read as that of a picture, but is none to main (503).
Section ==
  LET poster == Cell("poster", [dot |-> FALSE, jpeg |-> FALSE, width |-> none, height |-> none])
      size   == IF Sized = {} THEN <<none, none>> ELSE SizeIn(Max(Sized))
  IN  [row |-> row, layout |-> Cell("layout", none), jpeg |-> poster.dot /\ poster.jpeg,
       width |-> size[1], height |-> size[2]]

\* The loop over the columns gets no further where the record has no field, where
\* a picture can not be read (71) and where the name of a video has no dot to end
\* in front of (180).
NoField(record, n) == n > Len(record)
HasPoster(record, n) == ~NoField(record, n) /\ table.header[n] = "poster" /\ record[n] # <<>>
Unreadable(record, n) ==
  HasPoster(record, n) /\ record[n][1].jpeg /\ record[n][1].width = none
NoDot(record, n) == HasPoster(record, n) /\ ~record[n][1].jpeg /\ ~record[n][1].dot

Stops ==
  {n \in DOMAIN table.header :
     NoField(Record, n) \/ Unreadable(Record, n) \/ NoDot(Record, n)}

ReadRow ==
  /\ pc = "read" /\ MoreRows
  /\ read' = read + 1
  /\ IF Stops # {}
     THEN /\ pc' = IF Unreadable(Record, Min(Stops)) THEN "aborted" ELSE "undefined"
          /\ UNCHANGED <<row, sections>>
     ELSE /\ row' = row + 1
          /\ sections' = IF Disabled THEN sections ELSE Append(sections, Section)
          /\ UNCHANGED pc
  /\ UNCHANGED <<table, all_layouts, layout_permutations, p, drawing, drawn, offset_y,
                 max_height, ordered_dimensions, sheets, max_thumb_scale, images>>

\* max_thumb_scale has a place for every section there is.
SiteRead ==
  /\ pc = "read" /\ ~MoreRows
  /\ pc' = "layouts"
  /\ max_thumb_scale' = [t \in Target |-> [r \in 0 .. Len(sections) - 1 |-> Whole(0)]]
  /\ UNCHANGED <<page, p, drawing, drawn, offset_y, max_height, ordered_dimensions,
                 sheets, images>>
-----------------------------------------------------------------------------
(* Layout groups *)

\* The m-th of some numbers in ascending order.
Nth(S, m) == CHOOSE x \in S : Cardinality({y \in S : y < x}) = m - 1

\* The keys of layout_groups in order, and the sections of one.
Ids == {sections[n].layout : n \in {m \in DOMAIN sections : sections[m].layout > none}}
LayoutIds == [n \in 1 .. Cardinality(Ids) |-> Nth(Ids, n)]

Places(id) == {n \in DOMAIN sections : sections[n].layout = id}
GroupOf(id) == [m \in 1 .. Cardinality(Places(id)) |-> sections[Nth(Places(id), m)]]

\* Mutant: groups and their copies share their labels.
OffsetTwice(layout, offset) ==
  [n \in DOMAIN layout |-> [layout[n] EXCEPT !.label = @ + 2 * offset]]

\* Layout::OffsetLabels
OffsetLabels(layout, offset) ==
  [n \in DOMAIN layout |-> [layout[n] EXCEPT !.label = @ + offset]]

MoreGroups == pc = "layouts" /\ Len(all_layouts) < Len(LayoutIds)
NextGroup == GroupOf(LayoutIds[Len(all_layouts) + 1])

BuildGroup ==
  /\ MoreGroups /\ Len(NextGroup) >= 3
  /\ \E layouts \in LayoutsOf[Len(NextGroup)] :
       /\ layout_permutations' = Min({layout_permutations} \cup {Len(layouts[t]) : t \in Target})
       /\ pc' = IF layout_permutations' = 0 THEN "aborted" ELSE pc
       /\ all_layouts' = Append(all_layouts, [t \in Target |->
            [n \in DOMAIN layouts[t] |-> OffsetLabels(layouts[t][n], NextGroup[1].row)]])
  /\ UNCHANGED <<table, read, row, sections, p, drawing, drawn, offset_y, max_height,
                 ordered_dimensions, sheets, max_thumb_scale, images>>

\* BuildLayouts reads past an end: always for fewer than three sections, and for
\* more when none of their windows has a group to start a layout with
\* (SiteGroups.UndefinedOnSmallPages, hambidge_tree_utils.h:1124).
NoBaseGroups ==
  /\ MoreGroups
  /\ pc' = "undefined"
  /\ UNCHANGED <<page, p, drawing, drawn, offset_y, max_height, ordered_dimensions,
                 sheets, max_thumb_scale, images>>

export_permutations == Min({layout_permutations, 3})

GroupsBuilt ==
  /\ pc = "layouts" /\ Len(all_layouts) = Len(LayoutIds)
  /\ pc' = "build"
  /\ UNCHANGED <<page, p, drawing, drawn, offset_y, max_height, ordered_dimensions,
                 sheets, max_thumb_scale, images>>
-----------------------------------------------------------------------------
(* Style sheets *)

\* The default comes first, the others follow in their order.
target_order ==
  [n \in 1 .. Len(TargetWidths) |->
     IF n = 1 THEN DefaultTarget ELSE IF n - 2 < DefaultTarget THEN n - 2 ELSE n - 1]

\* Mutant: the limits of two sheets meet.
NextWidth(t) == Width(t + 1)

UpperLimit(t) == Width(t + 1) - 1

\* The media query of a sheet: from the width in [1] to that in [2], none
\* where there is no limit.
MediaQuery(t) ==
  CASE t = DefaultTarget -> <<none, none>>
    [] t # DefaultTarget /\ t = 0 -> <<none, UpperLimit(t)>>
    [] t # DefaultTarget /\ t # 0 /\ t = Len(TargetWidths) - 1 -> <<Width(t), none>>
    [] OTHER -> <<Width(t), UpperLimit(t)>>

\* A permutation is built, always from the first layouts of the groups.
StartBuild ==
  /\ pc = "build" /\ p < export_permutations
  /\ pc' = "draw"
  /\ drawing' = [at |-> 1, group |-> 1] /\ drawn' = 0
  /\ offset_y' = 0 /\ max_height' = 0 /\ ordered_dimensions' = <<>>
  /\ UNCHANGED <<page, p, sheets, max_thumb_scale, images>>

CurrentTarget == target_order[drawing.at]
CurrentLayout == all_layouts[drawing.group][CurrentTarget][1]
InSheet == pc = "draw" /\ drawing.at =< Len(target_order)
InGroup == InSheet /\ drawing.group =< Len(all_layouts)

Moved(leaf) == [leaf EXCEPT !.top = @ + offset_y, !.bottom = @ + offset_y]

\* The scale a section's picture is shown at.
Scale(leaf, section) ==
  LET width_scale  == Rational(leaf.right - leaf.left, section.width)
      height_scale == Rational(leaf.bottom - leaf.top, section.height)
  IN  IF Less(width_scale, height_scale) THEN height_scale ELSE width_scale

\* Before the first that the leaf is above of, or beside and to the left of.
Ordered(leaf) ==
  LET Before(n) == LET it == ordered_dimensions[n]
                   IN  \/ leaf.bottom =< it.top
                       \/ leaf.top < it.bottom /\ leaf.left < it.left
      places == {n \in DOMAIN ordered_dimensions : Before(n)}
  IN  IF places = {} THEN Append(ordered_dimensions, leaf)
      ELSE InsertAt(ordered_dimensions, Min(places), leaf)

\* A section with no place in max_thumb_scale is written where there is nothing,
\* and one without a size has no scale.
Shown(section) == section.row < Len(sections) /\ section.width # none

DrawLeaf ==
  /\ InGroup /\ drawn < Len(CurrentLayout)
  /\ LET leaf == Moved(CurrentLayout[drawn + 1]) IN
     IF leaf.label >= Len(sections) \/ ~Shown(sections[leaf.label + 1])
     THEN pc' = "undefined" /\ UNCHANGED <<drawn, max_height, ordered_dimensions, max_thumb_scale>>
     ELSE LET section == sections[leaf.label + 1] IN
          /\ max_thumb_scale' = [max_thumb_scale EXCEPT ![CurrentTarget][section.row] =
                                   Scale(leaf, section)]
          /\ max_height' = Max({max_height, leaf.bottom})
          /\ ordered_dimensions' = Ordered(leaf)
          /\ drawn' = drawn + 1
          /\ UNCHANGED pc
  /\ UNCHANGED <<page, p, drawing, offset_y, sheets, images>>

\* Mutant: the next group is drawn over this one.
StayOnTop == offset_y

BelowThis == max_height

GroupDrawn ==
  /\ InGroup /\ drawn = Len(CurrentLayout)
  /\ offset_y' = BelowThis
  /\ drawing' = [drawing EXCEPT !.group = @ + 1] /\ drawn' = 0
  /\ UNCHANGED <<pc, page, p, max_height, ordered_dimensions, sheets, max_thumb_scale, images>>

SheetDrawn ==
  /\ InSheet /\ ~InGroup
  /\ sheets' = [t \in DOMAIN sheets \cup {CurrentTarget} |->
                  IF t = CurrentTarget
                  THEN [query |-> MediaQuery(t), leaves |-> ordered_dimensions]
                  ELSE sheets[t]]
  /\ drawing' = [at |-> drawing.at + 1, group |-> 1] /\ drawn' = 0
  /\ offset_y' = 0 /\ max_height' = 0 /\ ordered_dimensions' = <<>>
  /\ UNCHANGED <<pc, page, p, max_thumb_scale, images>>

SheetsDrawn ==
  /\ pc = "draw" /\ ~InSheet
  /\ pc' = "images"
  /\ UNCHANGED <<page, p, drawing, drawn, offset_y, max_height, ordered_dimensions,
                 sheets, max_thumb_scale, images>>
-----------------------------------------------------------------------------
(* Pictures *)

Greatest(S) == CHOOSE x \in S : \A y \in S : AtMost(y, x)

\* Mutant: the block is not stretched.
NotStretched(t, scale) == scale

\* "Increase scale since the whole block can be stretched to the next level".
Stretched(t, scale) ==
  IF t < Len(TargetWidths) - 1
  THEN Times(scale, Rational(Width(t + 1), Width(t))) ELSE scale

MaxScale(section) ==
  Greatest({Whole(0)} \cup {Stretched(t, max_thumb_scale[t][section.row]) : t \in Target})

MaxScale480(section) ==
  Greatest({Whole(0)} \cup
    {LET scale == max_thumb_scale[t][section.row]
     IN  IF Width(t) < 480 THEN Times(scale, Rational(480, Width(t))) ELSE scale :
       t \in {u \in Target : Width(u) =< 480}})

\* ResizeAndExportSection: the scale at which a picture is written.
ExportScale(section, scale, min_dim) ==
  LET size == Max({section.width, section.height})
  IN  IF Less(Times(Whole(size), scale), Whole(min_dim)) THEN Rational(min_dim, size) ELSE scale

Half3 == Rational(3, 2)

ExportImages ==
  /\ pc = "images"
  /\ LET Export(section) ==
           [desktop    |-> ExportScale(section, MaxScale(section), 768),
            desktop_2x |-> ExportScale(section, Times(MaxScale(section), Half3), 1152),
            mobile     |-> ExportScale(section, MaxScale480(section), 480),
            mobile_2x  |-> ExportScale(section, Times(MaxScale480(section), Half3), 720)]
         jpegs == {n \in DOMAIN sections : sections[n].jpeg}
     IN  IF \E n \in jpegs : ~Shown(sections[n])
         THEN pc' = "undefined" /\ UNCHANGED <<p, images>>
         ELSE /\ images' = [r \in {sections[n].row : n \in jpegs} |->
                  Export(CHOOSE section \in Range(sections) : section.row = r)]
              /\ p' = p + 1
              /\ pc' = "build"
  /\ UNCHANGED <<page, drawing, drawn, offset_y, max_height, ordered_dimensions,
                 sheets, max_thumb_scale>>

Return ==
  /\ pc = "build" /\ p = export_permutations
  /\ pc' = "done"
  /\ UNCHANGED <<page, p, drawing, drawn, offset_y, max_height, ordered_dimensions,
                 sheets, max_thumb_scale, images>>

Next == \/ ReadRow \/ SiteRead \/ BuildGroup \/ NoBaseGroups \/ GroupsBuilt \/ StartBuild \/ DrawLeaf
        \/ GroupDrawn \/ SheetDrawn \/ SheetsDrawn \/ ExportImages \/ Return

Returned == pc \in {"done", "aborted", "undefined"} /\ UNCHANGED vars

Spec == Init /\ [][Next \/ Returned]_vars
-----------------------------------------------------------------------------
(* Properties *)

\* Tables that are drawn as they were laid out: all rows are whole, enabled and
\* tell a size, their videos are names with a dot, and those of a layout group are
\* three at least and neighbours.
Contiguous ==
  /\ row = Len(sections)
  /\ \A n \in DOMAIN sections : sections[n].width # none
  /\ \A m \in 1 .. read : \A n \in DOMAIN table.header :
       ~NoField(table.rows[m], n) /\ ~NoDot(table.rows[m], n)
  /\ \A n \in DOMAIN LayoutIds :
       LET group == GroupOf(LayoutIds[n])
       IN  /\ Len(group) >= 3
           /\ \A m \in DOMAIN group : group[m].row = group[1].row + m - 1

\* Every sheet shows every section that has a layout, once, in the place it has
\* in the layout of its group, whose groups are below each other: labels counted
\* in a group (189) find their rows, and no leaf covers another (352-413).
SheetsShowTheLayouts ==
  pc \in {"images", "done"} /\ Contiguous =>
    \A t \in DOMAIN sheets :
      LET leaves == sheets[t].leaves
          Placed(leaf, n, m) ==
            LET from == all_layouts[n][t][1]
                at == {k \in DOMAIN from : from[k].label = m - 1 + GroupOf(LayoutIds[n])[1].row}
            IN  \E k \in at : /\ leaf.left = from[k].left /\ leaf.right = from[k].right
                              /\ leaf.bottom - leaf.top = from[k].bottom - from[k].top
      IN  /\ Len(leaves) = Cardinality({n \in DOMAIN sections : sections[n].layout > none})
          /\ \A a, b \in DOMAIN leaves : a # b =>
               leaves[a].label # leaves[b].label /\ Apart(leaves[a], leaves[b])
          /\ \A n \in DOMAIN LayoutIds : \A m \in DOMAIN GroupOf(LayoutIds[n]) :
               \E leaf \in Range(leaves) :
                 leaf.label = GroupOf(LayoutIds[n])[m].row /\ Placed(leaf, n, m)

\* A page without gaps is read, drawn and exported past no end: the labels of its
\* leaves are rows of its sections (189), and these have a place in
\* max_thumb_scale.  Only BuildLayouts may find nothing to start with, within its
\* own limits (SiteGroups.UndefinedOnSmallPages).
UndefinedOnlyInBuildLayouts == [][pc' = "undefined" /\ Contiguous' => pc = "layouts"]_vars

Matches(query, width) ==
  (query[1] # none => query[1] =< width) /\ (query[2] # none => width =< query[2])

\* The sheets that show on a screen: the default one and, unless the screen is
\* as wide as that is made for, the one for the widest target that fits (338-349).
SheetFor(width) ==
  LET fit == {t \in Target : Width(t) =< width} IN IF fit = {} THEN 0 ELSE Max(fit)

OneSheetPerWidth ==
  pc = "done" /\ p > 0 => \A width \in Devices :
    {t \in DOMAIN sheets : Matches(sheets[t].query, width)} = {DefaultTarget, SheetFor(width)}

\* On no screen a picture is shown larger than it is: those for the desktop on
\* any screen, with the block stretched up to the next target or to the widest
\* (521-530), those for phones on screens of up to 480 (512-519).
PicturesAreLargeEnough ==
  pc = "done" /\ p > 0 /\ Contiguous =>
    \A n \in DOMAIN sections : sections[n].jpeg => \A width \in Devices :
      LET t == SheetFor(width)
          last == Width(Len(TargetWidths) - 1)
          shown == Rational(Min({width, last}), Width(t))
          image == images[sections[n].row]
      IN  \A leaf \in Range(sheets[t].leaves) : leaf.label = sections[n].row =>
            LET needed == Times(Scale(leaf, sections[n]), shown)
            IN  /\ AtMost(needed, image.desktop)
                /\ width =< 480 => AtMost(needed, image.mobile)
=============================================================================
