----------------------------- MODULE MCGrouper -----------------------------
(***************************************************************************)
(* Grouper on a slice of the golden table, closed under inversion: the     *)
(* powers of two and of the golden ratio around 1, and the ratios that     *)
(* stack to 1 / 2.618 with a strip below the minimum height and line up to *)
(* 2.618 with one below the minimum width.                                 *)
(***************************************************************************)
EXTENDS GrouperChecks, TLC

Table == <<<<1, 0, 8>>, <<7, -3, 2>>, <<3, -1, 2>>, <<1, 1, 8>>, <<1, 0, 2>>,
           <<-1, 1, 2>>, <<1, 0, 1>>, <<1, 1, 2>>, <<2, 0, 1>>, <<-2, 2, 1>>,
           <<3, 1, 2>>, <<7, 3, 2>>, <<8, 0, 1>>>>

\* Ascending groups of n ratio indices of a set.
Ascending(n, S) == {g \in [1 .. n -> S] : \A m \in 1 .. n - 1 : g[m] =< g[m + 1]}

\* Pairs, triples and fours, one group in descending order (the constructor
\* sorts), a single rectangle and none.
Groups ==
  Ascending(2, 2 .. 11) \cup Ascending(3, 2 .. 11) \cup Ascending(4, 3 .. 9)
  \cup {<<>>, <<6>>, <<8, 7, 6, 6, 4>>, <<4, 4, 6, 8, 8>>, <<5, 6, 6, 7, 4>>}

\* A pair of the greatest ratio alone is past the end of the array, and no
\* group holds that ratio or can be joined to it: the search is InArray.
ASSUME GroupsStayInArray ==
  LET last == RatioCount - 1
  IN  /\ \A a, b \in RatioIndex : InBounds(a, b) \/ (a = last /\ b = last)
      /\ \A g \in Groups : last \notin Range(g)
      /\ \A a, b \in RatioIndex \ {last} : \A c \in Joins(a, b) : c.index # last

\* Not a pair that could be mistaken for an empty element.
Garbage == {{30, 3}}
=============================================================================
