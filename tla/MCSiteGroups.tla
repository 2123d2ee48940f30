---------------------------- MODULE MCSiteGroups ----------------------------
(***************************************************************************)
(* BuildLayouts on pages of one to seven sections, with a small table of     *)
(* ratios and windows of two or three sections.                            *)
(***************************************************************************)
EXTENDS SiteGroups

Table == <<Rational(1, 4), Rational(1, 3), Rational(1, 2), Rational(2, 3), Whole(1), Rational(3, 2),
           Whole(2), Whole(3), Whole(4)>>

Section(width, height, importance) ==
  [ratio |-> Rational(width, height), importance |-> importance]

Equal == Section(1, 1, 1)
Greater == Section(3, 2, 2)

\* All alike, or every second one of more importance: joins of four of them
\* cost nothing, or a twelfth at least.
MCPages ==
  {[l \in 0 .. n - 1 |-> Equal] : n \in {1, 2, 3, 4, 5, 7}}
  \cup {[l \in 0 .. n - 1 |-> IF l % 2 = 0 THEN Equal ELSE Greater] : n \in {4, 5, 7}}

One == FindClosestIndex(Whole(1))
Two == FindClosestIndex(Whole(2))
Half == FindClosestIndex(Rational(1, 2))
Beside == Join(Two, kSplitTypeVertical, Leaf(One, 0), Leaf(One, 1))
Above == Join(Half, kSplitTypeHorizontal, Leaf(One, 0), Leaf(One, 1))
Square(first, second) ==
  Join(One, kSplitTypeVertical, Leaf(Half, first), Leaf(Half, second))
Flat(first, second) ==
  Join(One, kSplitTypeHorizontal, Leaf(Two, first), Leaf(Two, second))
Row3 == Join(FindClosestIndex(Whole(3)), kSplitTypeVertical, Beside, Leaf(One, 2))

\* Groups of two that fit together in a few ways, and some that all do.  On the
\* largest pages every window of two gives one.
MCBaseGroups ==
  LET small == 2 :> {<<>>, <<Beside, Above>>,
                     <<Square(0, 1), Square(1, 0), Flat(0, 1), Flat(1, 0)>>}
               @@ 3 :> {<<>>, <<Row3>>}
      large == 2 :> {<<Square(0, 1)>>} @@ 3 :> {<<>>}
  IN  [page \in MCPages |-> IF Cardinality(DOMAIN page) = 7 THEN large ELSE small]
=============================================================================
