---------------------------- MODULE MCBaseGroups ----------------------------
(***************************************************************************)
(* CreateBaseGroups with the program's own ratios and leaf ratios, called  *)
(* with sections of two and three rectangles of the sizes of pictures.     *)
(***************************************************************************)
EXTENDS BaseGroups, GoldenRatios

Picture(width, height, importance) ==
  [ratio |-> Rational(width, height), importance |-> importance]

\* square_ratio, golden_ratio and root_five_ratio, and the inverses of these.
Leaves == {FindClosestIndex(r) : r \in {Whole(1), <<1, 1, 2>>, <<-1, 1, 2>>,
                                        <<0, 1, 1>>, <<0, 1, 5>>}}

Tall == Picture(4, 6, 2)
Square == Picture(6, 6, 1)
Wide == Picture(9, 6, 1)
Banner == Picture(12, 6, 3)

\* All pairs and triples; fours in which a ratio comes twice, and one of four
\* squares, whose pairs are too many for ExpThreshold.
Pages ==
  [0 .. 1 -> {Picture(w, 6, m) : w \in {4, 6, 9}, m \in {1, 2, 5}}]
  \cup [0 .. 2 -> {Tall, Square, Wide, Banner}]
  \cup {0 :> a @@ 1 :> Square @@ 2 :> b @@ 3 :> Wide : a, b \in {Tall, Square, Wide}}
  \cup {[l \in 0 .. 3 |-> Square]}

\* A square, of more importance, in front of a wide picture.
SquareFirst == {0 :> Picture(6, 6, 2) @@ 1 :> Wide}

Quarter == Rational(1, 4)
=============================================================================
