--------------------------- MODULE MCLayoutSearch ---------------------------
(***************************************************************************)
(* BuildLayout for a page of four rectangles, called with every ordered    *)
(* choice of four groups from a pool, and with five that can be stacked in *)
(* several ways.                                                           *)
(***************************************************************************)
EXTENDS LayoutSearch

Four == [l \in 0 .. 3 |-> IF l = 3 THEN 3 ELSE 1]
Width == 12
Quarter == <<1, 4>>

\* Rectangles of equal width side by side, as wide as the page.
Row(members, height) ==
  [labels |-> members, height |-> height,
   leaves |-> {[label |-> l, width |-> Width \div Cardinality(members), height |-> height]
               : l \in members}]

\* One above the other.
Column(members, height) ==
  [labels |-> members, height |-> height * Cardinality(members),
   leaves |-> {[label |-> l, width |-> Width, height |-> height] : l \in members}]

Least == [width |-> 4, height |-> 2]
Most  == [width |-> 12, height |-> 9]

\* The last one is higher than a rectangle may be.
Pool == <<Row({0}, 2), Row({3}, 6), Row({0, 1}, 4), Row({2, 3}, 4), Row({1, 2}, 4),
          Column({1, 2}, 2), Row({0, 1, 2}, 6), Column({3}, 10)>>

Chosen(positions) == [n \in DOMAIN positions |-> Pool[positions[n]]]

Lists ==
  {Chosen(c) : c \in {f \in [1 .. 4 -> DOMAIN Pool] :
                        \A m, n \in 1 .. 4 : m # n => f[m] # f[n]}}
  \cup {Chosen(<<1, 5, 6, 2, 3>>), Chosen(<<3, 4, 1, 6, 2, 7>>),
        <<Column({0, 1, 2, 3}, 2)>>}

\* Zero is what it would have been initialised to; from -1 any layout whose
\* rectangles have an allowed size is cheap enough.
Garbage == {0, -1}
=============================================================================
