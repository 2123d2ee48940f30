# Golden layouts in TLA+

A verification project for the two layout programs of this repository.
GoldenTest groups rectangles of "golden" aspect ratios to larger ones
(`include/golden/`); GoldenSite arranges the sections of a web page with an
older generation of the same code (`GoldenSite/`).  Both are sequential C++:
what is hard about them is not concurrency but long searches with several
records of one state kept side by side by hand, packed words, hashes, and
results that nobody can check by looking at them.

- [The system](#the-system): components, state, interactions, hazards
- [Modules](#modules): what is modelled, and how it corresponds to the code
- [Runs](#runs): what TLC checks, with which bounds
- [Proofs](#proofs): what TLAPS proves for every value of the constants
- [Not modelled](#not-modelled), [Plan](#plan)

## The system

| component | source | state | operations | correct when |
|---|---|---|---|---|
| `golden::Ratios` | `include/golden/ratios.h` | the sorted table, `complements_` | constructor, `FindClosestIndex`, `FindInverseRatioIndex`, `BuildComplements` | every way to split a rectangle of the table into two of the table is listed once |
| `golden::Grouper` | `include/golden/grouper.h` | the packed reverse map, labels, group; in `Group()` the vectors of trees and `exists_lookup_` | constructor, `Group()` | the packed array answers like the map; every layout of the group with no rectangle too small is found, up to exchangeable ones, and no other; no node leaks; it ends |
| label trees | `label_node.h`, `dimension_iterator.h`, `geometry.h`, `tree_iterator.h` | immutable trees | `Next` of the iterators | the drawn rectangles tile the whole in their own ratios |
| writers, GoldenTest | `postscript_writer.h`, `json_writer.h`, `GoldenTest/main.cpp` | position on the page, open file | `Open`, `WriteTree`, `Close` | trees end up on pages in order; the groups printed are those of the last try |
| `Group` of GoldenSite | `hambidge_tree_utils.h` 24-425, 753-1085, 1314-1338 | `LabelGroup` trees, complement map, list of base groups | `CreateBaseGroups`, `PermuteBaseGroups`, `Group` | groups are filled by disjoint rectangles in their ratios; no affordable combination is missed; the cheapest groups are kept; other ratios are tried in the order of the damage they do; it ends |
| `BuildLayout` | `hambidge_tree_utils.h` 455-702, 1088-1309 | explicit stack, `LayoutBuilder`, list of layouts | one step of the search | each layout is a partition of the page; the cheapest ones are kept; it ends |
| `HambidgeTree`, `buildAll` | `hambidge_tree*.{h,cpp}`, `hambidge_tree_utils.h` 721-758, 1384-1776 | trees of nodes with cached positions and sizes, two vectors of trees | `split`, `clone`, `getLeaves`, `splitTree`, `buildAll`, `getMatchingTree`, iterate, serialise | the leaves tile the root; every tree of useful splits is made; the best match is returned and all others are deleted |
| Hungarian solver | `hungarian.{h,c}`, `hungarian_assigner.h` | cost matrix, potentials, matching, a forest with slacks | `hungarian_init`, `hungarian_solve` | the assignment is a cheapest perfect matching; the checks at the end, which exit the process, do not fail |
| reader | `csv_parser.h`, `site_section_reader.h` | stream, field with the place of its quotes, row counter | `ParseLine`, `ReadSite` | fields and rows come out as they were written |
| `BuildLayouts` | `GoldenSite/main.cpp` 651-975 | one vector of groups, a falling limit of cost | windows over the page, `Group` with retries, sort, `BuildLayout` per target | every window is tried; the groups of the windows survive every retry; no list that `Group` broke off is laid out |
| GoldenSite `main` | `GoldenSite/main.cpp` 40-571 | sections, layouts per group and target, scales of pictures, style sheets | read, lay out, draw, export | each section is in each sheet once, where it was laid out; one sheet per screen; pictures are large enough |
| image resizing, jsoncpp, libjpeg, libexif | | | | external |

**Interactions.**  `Ratios` is built once and copied into a `Grouper`, whose
constructor inverts `Ratios::complements()` into two representations of one
map; `Group()` reads the packed one only.  `Group()` returns `LabelNode` trees
that the iterators draw and the writers print.  In GoldenSite, `Group` produces
`LabelGroup` trees, `BuildLayout` stacks them to pages and calls back into the
cost function at every step; `BuildLayouts` of `main.cpp` drives both, first over
windows of the page, then over all of it.  `main` reads the page through the
parser and `ReadSite`, calls `BuildLayouts` for every layout group, and maps
labels back to rows of the input.  `getMatchingTree` calls `hungarian_solve`
for every tree; nothing calls it, so that both are beside the two programs.
Everything is a direct call; there are no threads, messages or persistent state.

**Hazards.**  `PROJECT.json` lists them with their lines.  The main ones: words
with room for two entries and an index computed in one place and used in
another; positions counted from the end of a growing vector; hash collisions;
deduplication by an equality that ignores shape; memory freed from two vectors;
a stack, a builder and a cached size that must agree through four ways to leave
a step; an accumulator that is never initialised; a map with ordered keys that is
asked in one order only; a list of the best that drops duplicates while it is
built; retries that change three variables together, and put the groups to
keep behind those to discard; labels counted from the first row of a group that
need not be contiguous; a forest of rows and columns kept in five arrays that a
change of the potentials must update together.

## Modules

| module | models | status |
|---|---|---|
| `GoldenNumbers` | the numbers (a + b√5) / d, exactly | |
| `Ratios` | `golden::Ratios` | operators over a table `RatioTable` |
| `GoldenRatios` | the 75 ratios of `GoldenRatios::ratios()` | |
| `ComplementMap` | the constructor of `Ratios` and `BuildComplementsReverseMap` | state machine |
| `Grouper` | the rest of the constructor and `Group()` | state machine, extends `ComplementMap` |
| `TreeClosure` | what `Group()` promises | abstract specification |
| `GrouperRefinement` | what the nodes of `Group()` stand for in `TreeClosure` | refinement mapping |
| `GrouperDrawing` | `DimensionIterator`, the drawing of the trees of `Group()` | operators, extends `Grouper` |
| `GrouperChecks` | all layouts from the top down | for TLC (recursive operators) |
| `LayoutSearch` | `BuildLayout` with `LayoutBuilder` and `CalculateLayoutCost` | state machine |
| `LabelGroups` | `LabelGroup`, its drawing and cost, `BuildComplementsMap`, `Group` of GoldenSite | part of a state machine |
| `BaseGroups` | `CreateBaseGroups` and `PermuteBaseGroups` | state machine, extends `LabelGroups` |
| `SiteGroups` | `BuildLayouts` of `main.cpp` | state machine, extends `LabelGroups` |
| `Hungarian` | `hungarian_init`, `hungarian_solve` | state machine |
| `HambidgeTrees` | `getMatchingTree`, `buildAll`, `splitTree`, the nodes' geometry | state machine, extends `Ratios` |
| `CsvParser` | `ParseLine`, called until the file ends | state machine over characters |
| `SitePage` | `ReadSite` and `main` from the table to sheets and pictures | state machine |
| `SiteFile` | the program from the file on: `CsvParser` and `SitePage` | composition |
| `GrouperProofs`, `LayoutSearchProofs`, `LabelGroupsProofs`, `BaseGroupsProofs`, `SiteGroupsProofs`, `HungarianProofs`, `SitePageProofs` | | theorems |
| `DataTheorems` | | facts about numbers, sums and sequences that they rest on |
| `MC*` | | instances for TLC |

**Numbers.**  The programs compute with doubles and take numbers that differ by
less than 1e-7 (`kRatioEpsilon`), or scales that differ by less than 1e-6, as
equal.  All their numbers are sums, products and quotients of ratios of the
form (a + b√5) / d; `GoldenNumbers` computes with these exactly, and equality
stands for equality up to the tolerance.  On the program's table no two
different sums come closer than the tolerance, so nothing is lost there; the
effect of rounding in longer computations is not modelled.  `Equals` takes
`abs()` of a double (grouper.h:230); the model reads it as the floating-point
overload.

**ComplementMap.**  One action is one pass of an inner loop: `BuildComplements`
handles one ratio, `AddComplement` is the body of the loop at grouper.h:620,
`NextRow` the end of it.  A packed word is the set of its one bits, so the
bit operations of the code are set operations.  The array is a sparse function
whose absent elements are 0, except the word one past its end, which is memory
of the heap: `HeapWords` are the values it may hold.

**Grouper.**  Nodes live in `nodes`, and pointers are positions in it.  An action
is one pass of the innermost loop of `Group()`:

| action | code |
|---|---|
| `BuildMap`, `LabelIndexes` | the constructor |
| `BuildLeaves` | 332-352 |
| `SkipPair` | the `continue`s at 361-368 and a pair that is not disjoint |
| `DropJoin` | a join too small, or not inserted and deleted at 415 |
| `KeepJoin` | 410-425: insertion into the lookup, into `new_trees` or, converted, into the results |
| `EndRound` | 432-439 |
| `DeleteTrees` | 444-450 |

The early exits are one guard (`Pairable`); `NextComplement` advances `k`, `j`
and `i`.  `HashOf` is some function of the same arguments as the code's hash
with a small range, so collisions are frequent; nothing proved depends on
which.  `Group()` is called once, as the programs do: the stale pointers
`exists_lookup_` keeps after it are cleared by a second call before use.

**TreeClosure** is what `Group()` is for: a set of known trees, each only its
ratio and the bag of its leaves with their heights, to which any derivable tree
may be added, and which may be left only when nothing new is derivable.
`GrouperRefinement` maps `nodes` to it (`TreeOf`), `call` and before to `idle`;
the refinement says that rounds, packed words, hashes and labels lose and add
nothing.

**LayoutSearch.**  A group is its set of labels and the sizes of its rectangles.
`Refuse`, `TooCostly`, `Complete`, `Descend` and `LastGroup` are the five ways
through the attempt at 1132-1190 and `NextGroup`, `PopLevel` the loop at
1199-1206, one turn each.  `layout_size` is the code's cached size and is
updated exactly where the code does.  `double cost;` at 1262 starts from any
of `Uninitialized`; costs are exact fractions.

**LabelGroups and BaseGroups.**  A `LabelGroup` is its ratio and the boxes of its
rectangles in the unit square: the program reads a tree only by drawing it, and
`Join` does at once what `LabelGroupDimensionIterator::Next` does from the root
down.  The labels are the domain of the boxes, which the code keeps as a sorted
vector.  As the square stands for a drawing of any width, shares of the area are
areas.  `Group()` is a set of actions that its callers' modules use; the loop
variables `i`, `j` and `k` are `base_at`, `other_at` and `made_at`:

| action | code |
|---|---|
| `Coerce` | 810-833 and the first call of `PermuteBaseGroups` up to that of `Group()` |
| `SkipPair` | the `continue`s at 969-978, a pair with no entry in the map or not disjoint, the end of the loop over `k` |
| `DropGroup`, `KeepGroup` | one pass of the loop at 1015: too costly, or not |
| `EndRound` | 1065-1081 |
| `GroupsMade` | the return of `Group()` |
| `RankGroup` | one pass of the loop at 886, with the search in the list of the best and the shift of its entries |
| `Substitute` | 835-860: the last substitution taken back, the next one made, the next call |
| `Return` | the end of the loop at 835, by success or by the `break` at 854 |

`GroupsEqual` compares the corners of the rectangles in an order `SortLeavesLex`
gives them; the model compares the sets of corners, exactly, where the code
allows for 0.0001.  (Corners that rounding has moved apart may be sorted in
another order by the code, which would then not find the groups equal.)
`PermuteBaseGroups` does not look at the error of `Group()`, and neither does the
model.  `tried` is a history of the ratios given, for the properties.  Its limits
are constants: 20000 new groups are `ExpThreshold`, twenty best groups `BestSize`.

**SiteGroups.**  The vector `all_groups`, which `BuildLayouts` passes to `Group()`
and gets back, is `label_groups`, so that the actions of `LabelGroups` are the
call.  A window gives any of a few lists of groups (`BaseGroupsOf`); which they
are is the business of `BaseGroups`.

| action | code |
|---|---|
| `TryWindow`, `NextSection`, `LoseCount` | 748-834: one window; the next first row; `section + max_section_size` (751) past the greatest `int`, which only a page of one section reaches, whose limit is `size_t` -1 |
| `EndWindows`, `JoinGroups` | 855-872: the map, and `Group()` step by step |
| `Retry` | 873-891: too many or an error; the joins in front are deleted, the limit falls by 0.65 |
| `Discard` | the same path when the loop then ends, `error` not being negative |
| `Keep` | neither |
| `SortGroups`, `LayOut`, `Return` | 893, 954-967, 969-973 |

**Hungarian.**  The C function is one procedure of 280 lines; an action is one
pass of one of its loops, or one path through it:

| action | code |
|---|---|
| `SubtractMinimum`, `MinimaSubtracted`, `MatchRow`, `RowsMatched` | 193-251: the heuristic start |
| `SkipColumn`, `Tighten`, `Grow`, `BreakThrough`, `NextNode` | 254-288: row `unchosen_row[q]` is compared with column `l` |
| `NewZero`, `RaiseColumn`, `NearColumn`, `ReachNew`, `BreakThroughNew`, `ZeroIntroduced` | 290-329: the potentials change by the least slack; a column to a pass, because a way out in the middle leaves the pass unfinished for those behind, whose rest line 311 does |
| `RematchOn`, `RematchLast` | 334-355: the path back to the root |
| `CollectRow`, `NextStage` | 356-364 |
| `Return` | 367-417 with the checks that end in `exit(0)` |

`INF` is -1, a value no slack has.  Overflow is not modelled: costs are those of
`getMatchingTree`, fractions of 65535.

**HambidgeTrees.**  A node is its path from the root, a tree the function from
the paths of its inner nodes to their splits; `heap` holds the trees that are
made and not deleted.  Positions and sizes are computed from parents and left
siblings as `getX`, `getY`, `getWidth` and `getHeight` do, in whole numbers of
which `scale` make the height of the root (the caches hold what is computed: no
node of a tree changes its place after it is drawn).  `StartTree`, `TrySplit`, `NextLeaf`, `TreeSplit`
are `splitTree` (1655-1776) a split at a time, `NextLevel` and `AllBuilt` the rest of
`buildAll`, `MatchTree` and `KeepMatch` the two loops of `getMatchingTree`.
`IsSplittable` calls itself once, for parts that may not be leaves: `Useful`.  For
`hungarian_solve` stands the least cost of all assignments, which is what the run
`hungarian` shows it to return.

**CsvParser.**  A character to an action; the ways through the loop at 46-103 are
the actions.  The file is written from a document by the rules of the remarks at
22-28 (`Written`), so that the properties can compare what comes back with what
was meant.  `start` and `end` are the code's, -1 included.

**SitePage.**  `ReadRow` is one record of `ReadSite`, `BuildGroup` one layout group
with the call of `BuildLayouts`, `NoBaseGroups` that call when it finds no group to
start a layout with (`UndefinedOnSmallPages` of `SiteGroups`), `DrawLeaf` one leaf of
a layout with its scale and its place among `ordered_dimensions`, `GroupDrawn`,
`SheetDrawn` and `SheetsDrawn` the ends of the three loops (398-439), `ExportImages`
the loop at 500-541.
What a row may hold is what the code tells apart: a column it knows, an empty
cell, a poster with or without a dot in its name, a picture with or without a
readable size.  The columns are read in order: of two that tell a size the last one
counts, and a row is read no further than to the first field that is missing, the
first video without a dot in its name (180) or the first picture that can not be
read (71).  Reading or writing past an end leads to `undefined`, the assertions that
a picture can be read and that there is a layout to `aborted`.
The coordinates of a layout, doubles in the code, are whole numbers of some unit; a
leaf keeps its label and its box.  Permutations are counted, but each builds the first layouts of the groups: the
program never uses the others.

**SiteFile** puts the two together: `CSV == INSTANCE CsvParser WITH pc <- parsing`;
all records are read, turned into cells (`HandOver`) and then used.  The program
reads a record when it needs one; as the parser never looks back, the order does
not matter.

## Runs

| run | checks | bound |
|---|---|---|
| `complement_map` | `FlatAgreesWithMap`, `FlatIsEveryJoin` | the program's own table, all 75 ratios |
| `complement_map_bounds` | violates `CompactIndexInBounds` | the same |
| `grouper` | nine properties, see below | a table of 13 ratios closed under inversion; every ascending group of 2 and 3 rectangles of ten ratios, of 4 of seven, and five single cases; 8 hash values |
| `layout_search` | six properties | a page of 4 rectangles, all ordered choices of 4 groups from a pool of 8, lists of 1, 5 and 6 groups; two layouts kept |
| `layout_cost` | violates `CostIsOfItems` | the same |
| `base_groups` | five properties | the program's own table and leaf ratios; all pairs of pictures of three shapes and three importances, all triples of four pictures, 10 sections of four; `ExpThreshold` 10, `BestSize` 3, `MinCost` 1/4 as in the program |
| `base_groups_joins` | violates `FindsEveryJoin` | the same table and leaf ratios; one section, a square of importance 2 before a wide picture of importance 1 |
| `site_groups` | five properties | pages of 1 to 7 sections, windows of 2 and 3 (`MaxSectionSize`), each giving any of up to three lists of groups; 17 groups are many (`ManyGroups`) and 6 too many for a round; at most three retries (`MaxRetries`); `IntMax` 10, `SizeMod` 64 |
| `hungarian` | four properties | all 2x2 matrices over -1..2 and many of 1x3, 3x2, 2x3 and 3x3, both modes; five matrices of 4 and 5 rows with long paths |
| `hambidge_trees` | three properties | 7 ratios, up to 4 rectangles, four sets of constraints |
| `site_file` | six properties | the program's five targets and 13 widths of screens; 60 or so pages of one or two layout groups with rows that disturb them; all files of one field with short pieces in and out of quotes, some of two fields and of two records; each with and without its last delimiter |
| `csv_trim` | violates `TrimsOutsideQuotes` | the same |

`complement_map` needs no small instance: it *is* the program's constructor, and
what it shows is true of the program.  In `grouper` the table has every kind of
coincidence of the full one: pairs with two joins, squares, joins that fall
below the minimum height and others below the minimum width, products that
leave the table.  Four rectangles are needed for joins of joins, five for a
tree that is joined in two later rounds; 8 hash values make collisions,
including those between leaves, ordinary.  `Saturated`, `NoEqualNodes` and
`DeletedOnce` are about the algorithm; `ScalesAreLeafHeights` and
`CompleteTreesAreLayouts` compare its bookkeeping with the rectangles that
`DimensionIterator` draws; `FindsEveryTree` compares the result with all
layouts generated from the whole rectangle down; `ImplementsClosure` is the
refinement.  In `layout_search` two layouts kept instead of twenty make the cut
happen, and the pool has groups that overlap, that leave too little room, and
that break the limits on sizes.

In `base_groups` the cases that matter all occur: sections given up after every
substitution, sections that succeed after some, lists of the best that overflow,
a cheaper candidate dropped because it is drawn like an entry, and a section of
four squares whose pairs are more than `ExpThreshold`.  `JoinsSettled` is about
the rounds; `GroupsAreFilled` compares the map of complements, the order of the
two parts and the drawing: a group is tiled by its rectangles, each in the ratio
it was given.  `BestAreCheapest` says what is kept: a group that is not in the
list is drawn like one whose cost is no less than any of those kept.  That it
may itself be cheaper than they are is not excluded, because of two groups drawn
alike the one found first counts, though their costs differ if their labels do.
`LeastDamageFirst` compares the history of substitutions with a list of all of
them in order of damage.

In `site_groups` the pages are small but every path of the retry loop occurs:
lists with errors, lists that are only long, limits that fall until joins cost
too much, and joins that cost nothing, which no limit keeps out.  `WindowsTried`
says that the last window of two is never tried; `BasesAreKept` that the groups
of the windows are, through every retry, the tail of the vector; `SettledOrBases`
what is laid out; `UndefinedOnSmallPages` which pages end in an overflow or a
read past the end.  Without a bound `Termination` needs its premise: the loop
lowers the limit for ever when more joins cost nothing than a round may make.
`MaxRetries` cuts that off, and such states are not counted as ends; where the
premise holds the loop ends before the bound.

In `hungarian` the larger matrices make paths of several rematched rows and
potentials that change more than once in a stage.  `HungarianInv` is the
inductive invariant of the proof, so that the run checks what is proved before it
is; `CheapestAssignment` compares with all bijections.

In `hambidge_trees` four rectangles are the least for which trees of one shape
are made in two orders; the tightest constraints leave no tree.
`EveryTreeInEveryOrder` counts the copies: a tree is made as often as its splits
can be ordered, for the comparison with earlier trees is commented out (1685).

In `site_file` every target is the default or has one of the three forms of a
media query, and the widths of screens are the limits and their neighbours.
`SectionsAreTheRecords` relates the file to the sections; `SheetsShowTheLayouts` and
`PicturesAreLargeEnough` say what a page gets whose layout groups are contiguous, and
that pictures are never shown larger than they are.  `UndefinedOnlyInBuildLayouts` is
an action property: on a page without gaps no step but the call of `BuildLayouts`
leads to `undefined`, and when that does is what `UndefinedOnSmallPages` says in
`site_groups`.  Gaps are rows that are disabled, too short, without a size, or have
a video without a dot in its name, and layout groups of fewer than three sections
or with others between them; the run has each of them at every place.  Pictures for phones are checked on screens of up
to 480, though the sheet refers to them up to 568 (480).

**Fairness.**  The programs are single-threaded loops, which nothing but their own
steps can hold up: `WF_vars(Next)`.  `Grouper`, `BaseGroups`, `SiteGroups` and
`Hungarian` state it without ENABLED (`Fairness`), which TLC checks faster; a run
that found a deadlock would refute the equivalence.  `CHECK_DEADLOCK FALSE` is set
where the model ends when the program does; the newer modules have `Returned`
instead.  `HambidgeTrees` and `SiteFile` state no fairness: their loops run over
vectors and files that do not grow, so that their termination says nothing.

**Violations.**  Four runs show where the code is not what its comments say.
`complement_map_bounds`: the array is allocated with as many elements as its
largest index, not one more, and the real table uses that index
(grouper.h:613-616, 708).  The `grouper` run gives the word past the end a
value that no pair could be mistaken for and uses no group that reads it
(`GroupsStayInArray`).
`layout_cost`: `CalculateLayoutCost` adds to a variable that is never set
(hambidge_tree_utils.h:1262).
`base_groups_joins`: "find all possible groups" (808) is not what `Group()` does.
The map's entry for a pair of ratios holds the joins side by side if the smaller
ratio comes first and those above each other if the greater one does, and the
other order is looked up only if there is no entry (984).  A square before a
wide picture is only ever put beside it, which here costs too much (.285 of the
1/4 there is), while one above the other would cost .049; a square before a tall
picture is, the other way round, only ever put above it.
`csv_trim`: "leading and trailing white space is removed outside of quoted
sections" (csv_parser.h:23), but a field of white space only is kept whole, and
of a field with two sections in quotes the first may lose its white space, for
`start` is that of the last (59-68).

## Proofs

All proofs hold for every table of ratios, every group, every number of hash
values, every page and every list of groups, from the named assumptions of the
modules.  Two theorems of `GrouperProofs` have a hypothesis on the behaviour,
`[]InArray`, which is explained there.  The assumptions say what the code asserts
or its inputs are:

| assumption | why |
|---|---|
| a table with an entry, groups of its indices, groups with a rectangle and only with those of the page | the callers |
| ratios are positive and in lowest terms (`RatiosAssumption`) | how `GoldenNumbers` writes a ratio; no ratio is 0 or less |
| a table for `Grouper` has 256 ratios at most, none twice, each with its inverse (`TableAssumption`) | the index of the array has a byte for each; `BuildComplements` asserts the inverse (`ratios.h` 174); TLC evaluates it on the program's 75 |
| two ratios make one or two others, different ones (`ComplementsMapAssumption`) | the assertion at 1011; TLC evaluates it on the program's table |
| importances are not negative (`LayoutSearch`), positive for sections (`SectionsAssumption`) | a section of importance 0 alone has a cost of 0 / 0; the program's are 1 to 3 |
| heights of groups and the width of a layout are positive | they are divided by |
| the matrix has whole costs | `getMatchingTree`, its only caller |
| a list of the best has room for one | 20 in the program |
| targets get wider, the first is 480 wide at most (`TargetsAssumption`) | the program's five (`main.cpp` 96-101) |
| cells hold what their columns are for, sizes in `dimensions` are positive (`TablesAssumption`) | sizes are divided by; the reader takes whatever it is given |
| in a layout every section of the group has one place, none is empty and no two overlap (`LayoutsAssumption`) | `LayoutsCorrect` and `GroupsAreFilledCorrect`, of the two modules that make the layouts |

`GrouperProofs`, the map: **`FlatAgreesCorrect`** and **`FlatIsEveryJoinCorrect`**.
`MapInv` says of every pair of ratios that the vector of the map has the joins of
the splits passed so far, each once, and that the word of the array is what
`WordOf` makes of the vector (`Holds`).  This is inductive, as the compact index of
two bytes and the hash of two halves are those of one pair only (`HashesDiffer`),
and as no pair of ratios joins in more than two ways (`TwoAtMost`: one way to lie
side by side and one to be stacked, since no ratio is twice in the table).  That a
word of two joins unpacks to both is about its bits (`Unpacks`, `BitsAddUp`); that
nothing is missing when the loops are over is about fractions: a join of `x` and
`y` is a split of the new ratio that `BuildComplements` finds as `(x, y)` if
`x =< y` or else as `(y, x)` (`JoinsEitherWay`, `ComplementsAre`), also when it has
to find it as the inverses of the two.

The search: **`SaturationCorrect`**, `Spec => []Saturated`.  `Saturated`
says nothing while the rounds run, so the invariant `SaturationInv` says what
the loops have done so far: with `Shape` (pointers point to nodes, `i`, `j` in
range, `trees_size` the length of `trees`), every pair `Visited` - an older round, or before `(i, j)` in this one -
is settled, and the pair at `(i, j)` up to complement `k`.  Settled means: each
join big enough is equal to some node.  As nodes are only added (`OnlyAdds`),
what is settled stays so; each action settles what it passes; at the end of a
round all pairs of `trees` are visited, and they are the old trees of the next.

It also proves **`NoEqualNodesCorrect`** and **`DeletedOnceCorrect`**.  The
first needs that joins are in the bucket of their hash (`JoinsFound`) and that
leaves, which may be in none, differ from joins in their number of rectangles
and from each other in their label.  The second needs that the three vectors
hold each node once (`HeldOnce`).

What its nodes are: **`TypeCorrect`** and **`ImplementsClosureCorrect`**, both of
the form `Spec /\ []InArray => ...`.  `InArray` says that no two trees the search
compares are looked up past the end of the array; only two of the greatest ratio
of the table would be.  What the program then reads is no one's (the
finding of `complement_map_bounds`), and it may make a node of any index, so that
neither theorem is true without it.  `GroupsStayInArray` shows that the groups of
the `grouper` run never get there: none has the greatest ratio, and no join of
others makes it.

`TypeInv`, which is inductive together with `SaturationInv` and
`InArray`, has three parts.  `MapInv`, of the constructor.  `LabelsInv`: from
`call` on, the labels share out the rectangles of the group - each ratio of it
has one label and each label the number of its rectangles (`LabelsShare`), which
is about sorting and counting (`LabelsAre`, `SumOfCounts`).  `TreesInv`: every
node has of each label as many scales as it counts, its number of rectangles is
the sum of them, and it was made from earlier nodes.  `k` is never more than 1, for no word has a third
join.  `Merged` is a recursive function over two sequences; that it has the
elements of both, each as often as they have it together, is proved by a least
counterexample (`MergesExist`, `MergedIs`).

The refinement has to show both directions.  A kept node is one that `TreeClosure`
could add (`KeepJoinRefines`): the leaves of a join are those of its parts, scaled
(`LeafBag`); that the labels have room is that the group's bag has (`FitsIs`); that
the minimum of a label's scale in width is that of its rectangles
(`UnconstrainedIs`).  And when `Group()` deletes its trees nothing is derivable
that is not known (`DeleteTreesRefines`, `NothingNew`): every pair of partial trees
is settled, by `SaturationInv`, in each way `Joins` names, by `FlatIsEveryJoin`;
that a settled join is *equal* to a node makes the trees they stand for the same;
and a complete tree fits with no other, for what it holds is the whole group.

What its trees look like: **`ScalesAreLeafHeightsCorrect`** and
**`CompleteTreesAreLayoutsCorrect`**, under the same hypothesis.  `DrawInv` is
inductive given `SaturationInv`, `TypeInv` and `InArray`.  It says what the nodes
are: leaves of the labels, or joins of two earlier nodes in a way that the pair
has (`NodesAreTrees`), none with more of a label than the group has rectangles, and
with scales in ascending order, which `Merged` keeps (`MergesInOrder`) and scaling
by a positive factor too (`ScaledAscends`); and that the complete trees are those of
the nodes that hold the whole group (`TreesListed`).  What is drawn is no part of
it, but follows for any nodes that are such trees, by the least node whose tree is
drawn wrong (`TreesAreDrawn`).  The boxes of a join's two parts are in their ratios
and share its box (`ChildrenAre`), because the join is exact; the parts are drawn
in them as they would be alone, only smaller (`PartsDrawn`); and so a height is
drawn as often as the parts' scales, shrunk by `ShrinksBy`, have it together, which is
how often `Merged` has it (`MergedIs`).  That a complete tree has every rectangle
once is about counting: it has as many of each label as there are, since it has
no more of any and as many in all (`WholeGroupHeld`).

`LayoutSearchProofs`: **`BuilderCorrect`**, **`LayoutsCorrect`** and
**`TypeCorrect`**.  `BuilderMatchesStack` is inductive only together with
`BuilderDisjoint`: `Pop` takes labels away by set difference, which is the
inverse of `Push` only for disjoint groups.  **`CheapestFirstCorrect`** says
where a layout is inserted: costs are fractions, of which `Exceeds` is a total
order because heights are positive.  **`FirstOfEachSeedCorrect`** compares the
search with all layouts there are.  `NonePassed` is its core: a layout that is
affordable for certain is either ahead of the search or its first group has one
already.  It is inductive only with `FirstOfAll` (what was found before was the
first), `SeedsPassed` (layouts found are of groups that the bottom of the stack
has left) and `RoomLeft`.  That a prefix of an affordable layout is affordable
too is what makes `TooCostly` safe; that its groups are disjoint and its labels
are those of the page, `Refuse`.

`LabelGroupsProofs` has the lemmas about the older `Group()` that both its
callers use.  The invariant `JoinsInv` has the plan of `SaturationInv`: with
`Shape`, every pair `Visited` is settled, and the pair at hand up to `made_at`.
Here the new groups go to the *front* of the vector, so that the pairs of a round
move when it ends (`EndRoundSettles`), and a new call forgets all of them
(`StartGroupSettles`).  Each round starts with all pairs behind the new groups
visited; when the loop ends without an error there are no new ones
(`ReturnedSettled`).  The second part is geometry.  **`ComplementsAreExact`**
says that a split which the search of the table finds is one: the parts' ratios
add up, side by side, or their inverses do, above each other.  **`MapIsExact`**
carries this through the construction of the map, and `PartsOfSquare` to the
drawing: the two boxes of a join are parts of the unit square in their ratios,
beside each other, with areas that add up to 1; `WithinIsPart` says that this
survives being drawn within a part.

`BaseGroupsProofs`: **`JoinsSettledCorrect`**, `Spec => []JoinsSettled`, from
`ComplementsMapAssumption`, which is the code's assertion at 1011, and
`SectionsAssumption`.  **`BestAreCheapestCorrect`**: `BestInv` says of the groups
ranked so far that each is `Accounted` for, by a group drawn like it or by one
no cheaper than the whole list; an entry shifted out keeps this true because
the order of numbers is total and transitive.  **`LeastDamageFirstCorrect`**:
`TriedInv` says that no ratio but that of `min_dif_index` differs from the
closest, which is why taking back only the last substitution is enough, and that
what is still in `leaf_ratios` does no less damage than all that was tried.
**`GroupsAreFilledCorrect`**: `FilledInv` says that every group known, of this
round and those before, `Fills`: each of its boxes is a part in the ratio its
rectangle was given, they are apart, and their areas add up to 1.  A leaf does, a
join of two that do does (`JoinFills`), and the ratios given change only when all
groups are made anew (`StartPermuteFills`).

`SiteGroupsProofs`: **`BasesAreKeptCorrect`**, **`SettledOrBasesCorrect`** and
**`WindowsTriedCorrect`**, from the assumptions of `SiteGroups`: pages are numbered
from 0, an `int` counts their rows and those of a largest window more, and a window gives groups of its
own rows.  The invariant `SiteInv` says that the last `all_groups_size` groups are
those of the windows, in order (`BasesBehind`): true as `Group()` only puts groups
in front (`GroupStepKeeps`), so that what is moved to the front is what was there
at first (`RestoredAreBases`), and joins of deleted groups are deleted with them.
While `Group()` runs it has `JoinsInv` too, which `TryWindow` breaks and every call
restores.  `TriedInv` says which windows the loops have been at, up to the `rows`
at hand; its limit is a number modulo `SizeMod` (`WindowsEndIs`).
**`UndefinedOnSmallPagesCorrect`** follows the empty list through the retries: it
is empty at the end just when the windows gave none, because sorting and
restoring neither add nor lose a group (`PageInv`).

`SitePageProofs`: **`OneSheetPerWidthCorrect`**, for any ascending list of widths
and any default, from `TargetsAssumption`.  `SheetsInv` says that the sheets in
front of the one that is drawn are there with their queries; that the queries cut
the widths of screens in two-sided intervals, of which each screen is in one
(`OneIsFor`), is the part that depends on the widths.

**`UndefinedOnlyInBuildLayoutsCorrect`**, **`SheetsShowTheLayoutsCorrect`** and
**`PicturesAreLargeEnoughCorrect`** are three ends of one argument, for tables of any
length and any number of layout groups.  None of the properties is inductive: they
speak of the end, and of pages that are `Contiguous`, which only the whole table
tells.  `ReadInv` says of any page that, as long as no row is disabled, the place
of a section is its row.  `LayoutsInv` says that the leaves of a group are labelled
with consecutive rows from that of its first section on (`IsDrawable`), which
is what `OffsetLabels` makes of them; that these are the rows of the sections of the group,
and that no two groups have one in common, is true of contiguous groups only
(`RowsAre`, `RowsDiffer`).  `DrawingInv` says of the sheet that is drawn that it
shows just the leaves drawn so far (`Shows`), each above `offset_y` or where it is
in the group at hand, so that the next leaf is apart from all of them
(`MovedIsApart`); the search for its place in `ordered_dimensions` matters only in
that it loses none (`OrderedIsWith`).  As labels differ, the scale a leaf writes is
not overwritten by another of the sheet (`ScalesAre`), and is that of the row when
the pictures are written (`ImagesInv`).  There the stretching has to be as
much as any screen asks for (`NeededIsAtMost`), which is a fact about fractions.
`SitePageInv` joins these; that a step to `undefined` takes a gap in `ReadRow`
(`StopIsGap`), `DrawLeaf` or `ExportImages`, and that no other action but those of
`BuildLayouts` ends there, is the theorem's own case split.

`HungarianProofs`: **`HungarianInvariant`**, `Spec => []HungarianInv`, and
**`NeverExitsCorrect`**, for matrices of every size with whole costs, from
`ProblemsAssumption`.  The checks at the end are only true because of what every
pass before preserves: potentials that bound the costs (`Feasible`), matched
cells that are tight (`Tight`), `col_mate` and `row_mate` inverse but for the
column a path is at (`Mates`), and the forest (`Forest`): each of its rows has no
column or was reached by a tight cell from a row before it (`Rooted`), and the
slack of a column is its distance from the rows compared so far
(`SlackIsNearest`).  The hard part is the change of the potentials, which takes
a pass per column: `Rest` is the distance a cell has when the pass is over, so
that between two columns the invariant speaks of numbers that no longer change
(`RestStays`).  Each group of actions has a lemma for each part of the invariant.
**`CheapestAssignmentCorrect`** is weak duality on top of it: potentials that are
nowhere above the costs sum up to no more than any assignment costs (`Duality`),
and to just that if its cells are tight.  What the heuristic start subtracts is
no part of the potentials, but of `total` (`ReducedInv`).

`DataTheorems` holds what these rest on: greatest common divisors and lowest
terms; that the numbers (a + b√5) / d are a field with a total order, for which
√5 must be irrational (`RootOfFive`); that sums over finite sets can be taken in
any order, apart and together.  The folds of the community modules choose an
order; the lemmas show that it does not matter.  Induction is by a least
counterexample, as the library's induction theorems cannot be used here.

Only model-checked:

- termination, as liveness is beyond the prover;
- `FindsEveryTree`, which compares with a recursive enumeration of all trees.
  Its two halves are theorems of other forms: that what is found can be drawn is
  `CompleteTreesAreLayoutsCorrect`, that nothing derivable is missing is
  `ImplementsClosureCorrect`; what stays with the run is that building up with
  the minimums of every part finds what building down with those of the whole
  does;
- `HambidgeTrees`: its whole numbers are exact only for the tables and scales
  that the run gives, and its counts of trees are recursive;
- `ReadsTheDocument` and `SectionsAreTheRecords`, which compare with a document
  written by concatenation.  The theorems about `SitePage` are of its own `Spec`,
  which starts from a table; that the parser gives it such a table is what
  these two and `PagesAssumption` show of the files of the run.

## Not modelled

Most of the repository's lines are vendored: libjpeg (`jpeg-8d/`), libexif,
jsoncpp.  They are not this project's subject, and the map leaves them out.  Of
the 6700 lines of the two programs these are not modelled:

- the writers and GoldenTest's `main`: they print what `Group()` returns, page by
  page; what could be wrong with them is to be seen on the page;
- image resizing, the copying of files, `index.html` and the text of the style
  sheets: calls into CoreGraphics and the file system, or wording;
- `ReadJpegDimensions`: what libjpeg and libexif say of a picture is one of the
  values of a cell;
- `HungarianAssigner`, which nothing uses.  Its `Solve()` overwrites the matrix
  counted from 1 by one counted from 0 and then reads past its end;
- of `HambidgeTree`, the comparison of trees, whose call is commented out, the
  iterator, which only disabled code uses, and serialisation: `deserialize` reads
  with `sgetc`, which does not advance, so that nothing but a leaf comes back;
- `constraints` of `main`, which are never set and never used;
- rounding of doubles; `Ratios` functions no program calls; a second call of
  `Group()` on one `Grouper`; of the older grouper, the copies and deletions of
  trees, `Sort`, `Swap`, and the filter of `Group()` (1067-1070), which all its
  callers switch off.

## Plan

What is left, in the order of importance:

1. A specification of what `CreateBaseGroups` promises that `BaseGroups`
   implements, and the composition of `SiteGroups` with `LayoutSearch`, whose
   `GroupLists` it produces.
2. The writers' open, write and close, and their page wrap.
