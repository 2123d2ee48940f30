------------------------------- MODULE Ratios -------------------------------
(***************************************************************************)
(* golden::Ratios (include/golden/ratios.h): the sorted table of aspect    *)
(* ratios (width / height) and, for each of them, every way to split a     *)
(* rectangle of that ratio into two rectangles whose ratios are in the     *)
(* table.  Indices are the program's, counted from 0.                      *)
(***************************************************************************)
EXTENDS GoldenNumbers, SequencesExt, FiniteSetsExt

CONSTANT RatioTable   \* the array handed to Ratios::FromArray, in its order

ASSUME RatioTableAssumption == RatioTable # <<>> /\ Len(RatioTable) \in Nat

kRatioIndexInvalid == -1
kSplitTypeNone == "none"
kSplitTypeHorizontal == "horizontal"
kSplitTypeVertical == "vertical"

RatioCount == Len(RatioTable)
RatioIndex == 0 .. RatioCount - 1

\* The constructor sorts its copy of the table.
sorted_ratios == SortSeq(RatioTable, Less)
ratios == [i \in RatioIndex |-> sorted_ratios[i + 1]]

\* Widths divided by heights, in lowest terms.
ASSUME RatiosAssumption ==
  \A n \in RatioIndex : LET r == ratios[n]
                        IN  r \in Numbers /\ r = Number(r[1], r[2], r[3]) /\ Positive(r)

\* std::lower_bound: the number of entries smaller than r.
LowerBound(r) == Cardinality({i \in RatioIndex : Less(ratios[i], r)})

\* The entry nearest to r; the smaller one when two are equally near.
FindClosestIndex(r) ==
  LET i == LowerBound(r)
  IN  CASE i = 0 -> 0
        [] i = RatioCount -> RatioCount - 1
        [] OTHER -> IF AtMost(Minus(r, ratios[i - 1]), Minus(ratios[i], r))
                    THEN i - 1 ELSE i

FindInverseRatioIndex(i) ==
  LET inverse == Reciprocal(ratios[i])
      closest == FindClosestIndex(inverse)
  IN  IF ratios[closest] = inverse THEN closest ELSE kRatioIndexInvalid

\* Mutant: the second loop starts after the first one's entry.
PairsOfDistinct(r) ==
  LET Partners(j) == {k \in j + 1 .. RatioCount - 1 : ratios[k] = Minus(r, ratios[j])}
      Pair(j) == IF Less(ratios[j], r) /\ Partners(j) # {}
                 THEN << <<j, Min(Partners(j))>> >> ELSE <<>>
  IN  FlattenSeq([n \in 1 .. RatioCount |-> Pair(n - 1)])

\* The inner loops of BuildComplements: for every j with ratios[j] < r, in
\* order, the first k >= j with ratios[j] + ratios[k] = r, if there is one.
PairsWithSum(r) ==
  LET Partners(j) == {k \in j .. RatioCount - 1 : ratios[k] = Minus(r, ratios[j])}
      Pair(j) == IF Less(ratios[j], r) /\ Partners(j) # {}
                 THEN << <<j, Min(Partners(j))>> >> ELSE <<>>
  IN  FlattenSeq([n \in 1 .. RatioCount |-> Pair(n - 1)])

Split(type, left, right) ==
  [type |-> type, left_index |-> left, right_index |-> right]

\* One round of the outer loop of BuildComplements.  Side by side the ratios
\* add up; stacked, their inverses do.
ComplementsOf(i) ==
  LET across == PairsWithSum(ratios[i])
      down   == PairsWithSum(Reciprocal(ratios[i]))
  IN  [n \in DOMAIN across |->
         Split(kSplitTypeVertical, across[n][1], across[n][2])]
      \o [n \in DOMAIN down |->
         Split(kSplitTypeHorizontal, FindInverseRatioIndex(down[n][1]),
                                     FindInverseRatioIndex(down[n][2]))]

Complement(index, type) == [index |-> index, split_type |-> type]

\* The ratios two rectangles can be joined to, from the geometry alone: the
\* widths add up under a common height, the heights under a common width.
Joins(i, j) ==
  {Complement(n, kSplitTypeVertical) :
     n \in {m \in RatioIndex : ratios[m] = Plus(ratios[i], ratios[j])}}
  \cup
  {Complement(n, kSplitTypeHorizontal) :
     n \in {m \in RatioIndex :
              Reciprocal(ratios[m]) = Plus(Reciprocal(ratios[i]), Reciprocal(ratios[j]))}}
=============================================================================
