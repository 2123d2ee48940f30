-------------------------- MODULE MCHambidgeTrees --------------------------
(***************************************************************************)
(* getMatchingTree for up to four rectangles, with ratios that have splits *)
(* both ways, and from no constraints to such as no tree meets.            *)
(***************************************************************************)
EXTENDS HambidgeTrees

SmallTable == <<Rational(1, 3), Rational(1, 2), Rational(2, 3), Whole(1),
                Rational(3, 2), Whole(2), Whole(3)>>

\* Ratio and importance in twelfths.
Rectangle(ratio, importance) == [ratio |-> ratio, importance |-> importance]
Square == Rectangle(12, 6)
Wide == Rectangle(30, 12)
Tall == Rectangle(4, 3)

Constraints(min_width, min_height, min_ratio, leaf_ratios) ==
  [min_width |-> min_width, min_height |-> min_height, min_column_ratio |-> min_ratio,
   min_row_ratio |-> min_ratio, leaf_ratios |-> leaf_ratios]

\* Enough for the thirds and halves of four splits.
Scale == 1296

Free == Constraints(0, 0, <<0, 1>>, RatioIndex)
Flat == Constraints(Scale \div 3, Scale \div 2, <<1, 4>>, {1, 3, 5})
Narrow == Constraints(Scale \div 2, Scale \div 4, <<1, 3>>, {3})
Tight == Constraints((2 * Scale) \div 3, (2 * Scale) \div 3, <<0, 1>>, RatioIndex)

Problem(ratio_index, sections, limits) ==
  [ratio_index |-> ratio_index, rectangles |-> sections, constraints |-> limits]

MCProblems ==
  {Problem(n, sections, limits) : n \in RatioIndex, limits \in {Free, Flat, Narrow, Tight},
     sections \in {<<>>, <<Tall>>, <<Wide, Tall>>, <<Square, Wide, Tall>>, <<Wide, Wide, Square>>}}
  \cup {Problem(n, <<Wide, Tall, Square, Tall>>, limits) : n \in {0, 3, 5}, limits \in {Flat, Narrow}}
  \cup {Problem(3, <<Square, Square, Tall, Wide>>, Free)}

\* The sum of the differences.
MCCost(rectangle, leaf) ==
  LET Twelfths(fraction) == (12 * fraction[1]) \div fraction[2]
  IN  Magnitude(rectangle.importance - Twelfths(leaf.importance)) + Magnitude(rectangle.ratio - Twelfths(leaf.ratio))
=============================================================================
