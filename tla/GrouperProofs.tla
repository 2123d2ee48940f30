---------------------------- MODULE GrouperProofs ----------------------------
(***************************************************************************)
(* Grouper for any table of ratios, any group and any number of hash       *)
(* values.  The packed array of the reverse map agrees with the map        *)
(* (FlatAgreesCorrect) and holds every join there is                       *)
(* (FlatIsEveryJoinCorrect).  The rounds of Group() leave no pair of       *)
(* partial trees unsettled (SaturationCorrect), no two of its nodes are    *)
(* equal (NoEqualNodesCorrect) and each is deleted once                    *)
(* (DeletedOnceCorrect).  As long as no pair of trees is past the end of   *)
(* the array (InArray), the state is well typed (TypeCorrect) and Group()  *)
(* implements TreeClosure: every node it keeps can be derived, and every   *)
(* tree that can be derived is kept (ImplementsClosureCorrect).  Drawn as  *)
(* DimensionIterator does, the scales of a node are the heights of its     *)
(* leaves (ScalesAreLeafHeightsCorrect), and a complete tree is a layout of*)
(* the group (CompleteTreesAreLayoutsCorrect).                             *)
(***************************************************************************)
EXTENDS GrouperRefinement, GrouperDrawing, DataTheorems

-----------------------------------------------------------------------------
(* Powers and bits                                                         *)

\* The powers that a byte or an index is made of.
LEMMA PowersDouble ==
  \A b \in 0 .. 13 : 2^b \in Nat \ {0} /\ 2^(b + 1) = 2 * 2^b
<1> SUFFICES ASSUME NEW b \in 0 .. 13
             PROVE  2^b \in Nat \ {0} /\ 2^(b + 1) = 2 * 2^b
  OBVIOUS
<1>1. CASE b = 0
  BY <1>1
<1>2. CASE b = 1
  BY <1>2
<1>3. CASE b = 2
  BY <1>3
<1>4. CASE b = 3
  BY <1>4
<1>5. CASE b = 4
  BY <1>5
<1>6. CASE b = 5
  BY <1>6
<1>7. CASE b = 6
  BY <1>7
<1>8. CASE b = 7
  BY <1>8
<1>9. CASE b = 8
  BY <1>9
<1>10. CASE b = 9
  BY <1>10
<1>11. CASE b = 10
  BY <1>11
<1>12. CASE b = 11
  BY <1>12
<1>13. CASE b = 12
  BY <1>13
<1>14. CASE b = 13
  BY <1>14
<1> QED BY <1>1, <1>2, <1>3, <1>4, <1>5, <1>6, <1>7, <1>8, <1>9, <1>10, <1>11, <1>12, <1>13, <1>14

\* A number cut off after one more bit.
LEMMA OneBitMore ==
  ASSUME NEW n \in Nat, NEW p \in Nat \ {0}
  PROVE  n % (2 * p) = (n % p) + (IF (n \div p) % 2 = 1 THEN p ELSE 0)
<1>1. PICK q \in Nat, r \in Nat : q = n \div p /\ r = n % p /\ n = p * q + r /\ r < p
  BY Division
<1>2. PICK h \in Nat, t \in {0, 1} : q = 2 * h + t /\ t = q % 2
  OBVIOUS
<1>3. n = (2 * p) * h + (p * t + r) /\ p * t + r \in 0 .. 2 * p - 1
  BY <1>1, <1>2
<1>4. n % (2 * p) = p * t + r
  <2>1. PICK w \in Nat, d \in Nat \ {0} : w = p * t + r /\ d = 2 * p
    BY <1>3
  <2>2. n = d * h + w /\ w \in 0 .. d - 1
    BY <1>3, <2>1
  <2>3. n % d = w
    <3>1. n % d \in Nat /\ n % d < d /\ n \div d \in Nat /\ n = d * (n \div d) + (n % d)
      BY <2>1, Division
    <3>2. PICK a \in Nat, c \in Nat : a = n \div d /\ c = n % d
      BY <3>1
    <3>3. d * h + w = d * a + c /\ w < d /\ c < d
      BY <2>2, <3>1, <3>2
    <3>4. h = a
      <4>1. ~(h < a)
        <5>1. h < a => d * (h + 1) =< d * a
          OBVIOUS
        <5> QED BY <3>3, <5>1
      <4>2. ~(a < h)
        <5>1. a < h => d * (a + 1) =< d * h
          OBVIOUS
        <5> QED BY <3>3, <5>1
      <4> QED BY <4>1, <4>2
    <3> QED BY <3>2, <3>3, <3>4
  <2> QED BY <2>1, <2>3
<1> QED BY <1>1, <1>2, <1>4

\* The bits of a number add up to it.
LEMMA BitsAddUp ==
  ASSUME NEW n \in 0 .. 2^14 - 1
  PROVE  SumFunctionOnSet([b \in 0 .. 13 |-> 2^b], Bits(n)) = n
<1> DEFINE W(b) == 2^b
           pow == [b \in 0 .. 13 |-> W(b)]
           Low(m) == {b \in 0 .. m - 1 : b \in Bits(n)}
           Off == {m \in Nat : m =< 14 /\ SumFunctionOnSet(pow, Low(m)) # n % W(m)}
<1>1. n \in Nat /\ n < W(14) /\ W(0) = 1
  OBVIOUS
<1>2. \A b \in 0 .. 13 : W(b) \in Nat \ {0} /\ W(b + 1) = 2 * W(b)
  BY PowersDouble
<1>3. Bits(n) = {b \in 0 .. 13 : (n \div W(b)) % 2 = 1}
  BY DEF Bits
<1>4. W(14) \in Nat \ {0}
  <2>1. 2^14 = 16384
    OBVIOUS
  <2> QED BY <2>1
<1> HIDE DEF W
<1>5. \A b \in 0 .. 13 : pow[b] = W(b) /\ pow[b] \in Int
  BY <1>2
<1> HIDE DEF pow
<1>6. ASSUME Off # {}
      PROVE  FALSE
  <2>1. PICK m \in Off : \A l \in Off : m =< l
    <3>1. Off \in SUBSET Nat
      OBVIOUS
    <3> HIDE DEF Off
    <3> QED BY <1>6, <3>1, Smallest
  <2>2. m # 0
    <3>1. Low(0) = {}
      OBVIOUS
    <3>2. SumFunctionOnSet(pow, Low(0)) = 0
      BY <3>1, SumEmpty
    <3>3. n % W(0) = 0
      BY <1>1
    <3> QED BY <3>2, <3>3
  <2>3. PICK b \in 0 .. 13 : m = b + 1
    <3>1. m - 1 \in 0 .. 13 /\ m = (m - 1) + 1
      BY <2>1, <2>2
    <3> QED BY <3>1
  <2>4. SumFunctionOnSet(pow, Low(b)) = n % W(b)
    <3>1. b \in Nat /\ b =< 14 /\ ~(m =< b)
      BY <2>3
    <3> QED BY <2>1, <3>1
  <2>5. PICK p \in Nat \ {0} : p = W(b) /\ W(b + 1) = 2 * p
    BY <1>2
  <2>6. n % W(b + 1) = (n % p) + (IF (n \div p) % 2 = 1 THEN p ELSE 0)
    BY <1>1, <2>5, OneBitMore
  <2>7. IsFiniteSet(Low(b)) /\ b \notin Low(b)
    <3>1. Low(b) \subseteq 0 .. b - 1 /\ IsFiniteSet(0 .. b - 1)
      BY FS_Interval
    <3>2. b \notin 0 .. b - 1
      OBVIOUS
    <3> HIDE DEF Low
    <3> QED BY <3>1, <3>2, FS_Subset
  <2>8. n % p \in Nat
    BY <1>1, Division
  <2>9. 0 .. b + 1 - 1 = (0 .. b - 1) \cup {b}
    OBVIOUS
  <2>10. b \in Bits(n) <=> (n \div p) % 2 = 1
    BY <1>3, <2>5
  <2>11. CASE (n \div p) % 2 = 1
    <3>1. Low(b + 1) = Low(b) \cup {b}
      BY <2>9, <2>10, <2>11
    <3>2. \A y \in Low(b) \cup {b} : pow[y] \in Int
      <4>1. \A y \in Low(b) \cup {b} : y \in 0 .. 13
        OBVIOUS
      <4> HIDE DEF Low
      <4> QED BY <1>5, <4>1
    <3> HIDE DEF Low, Off
    <3>3. SumFunctionOnSet(pow, Low(b + 1)) = pow[b] + SumFunctionOnSet(pow, Low(b))
      BY <2>7, <3>1, <3>2, SumMore
    <3>4. pow[b] = p
      BY <1>5, <2>5
    <3>5. SumFunctionOnSet(pow, Low(b)) = n % p
      BY <2>4, <2>5
    <3>6. SumFunctionOnSet(pow, Low(b + 1)) = n % W(b + 1)
      BY <2>6, <2>8, <2>11, <3>3, <3>4, <3>5
    <3> QED BY <2>1, <2>3, <3>6 DEF Off
  <2>12. CASE (n \div p) % 2 # 1
    <3>1. Low(b + 1) = Low(b)
      BY <2>9, <2>10, <2>12
    <3>2. n % W(b + 1) = n % p
      BY <2>6, <2>8, <2>12
    <3>3. n % p = n % W(b)
      BY <2>5
    <3> QED BY <2>1, <2>3, <2>4, <3>1, <3>2, <3>3
  <2> QED BY <2>11, <2>12
<1>7. Low(14) = Bits(n)
  BY <1>3
<1>8. SumFunctionOnSet(pow, Low(14)) = n % W(14)
  <2>1. 14 \in Nat /\ 14 =< 14
    OBVIOUS
  <2> QED BY <1>6, <2>1
<1>9. n % W(14) = n
  <2>1. PICK p \in Nat \ {0} : p = W(14)
    BY <1>4
  <2>2. n < p
    BY <1>1, <2>1
  <2>3. n % p = n
    BY <1>1, <2>2
  <2> QED BY <2>1, <2>3
<1>10. [b \in 0 .. 13 |-> 2^b] = pow
  BY DEF pow, W
<1> QED BY <1>7, <1>8, <1>9, <1>10
-----------------------------------------------------------------------------
(* What the table gives *)

\* The ratios are in lowest terms, and so are their inverses, back and forth.
LEMMA RatioIsReduced ==
  ASSUME NEW n \in RatioIndex
  PROVE  /\ ratios[n] \in Reduced /\ ratios[n] \in Numbers /\ Positive(ratios[n])
         /\ ratios[n] \in NonZero
         /\ Reciprocal(ratios[n]) \in Reduced /\ Reciprocal(ratios[n]) \in NonZero
         /\ Reciprocal(Reciprocal(ratios[n])) = ratios[n]
<1>1. PICK r \in Numbers : r = ratios[n] /\ r = Number(r[1], r[2], r[3]) /\ Positive(r)
  BY RatiosAssumption
<1>2. r \in Reduced
  BY <1>1, NumberParts, NumberIsReduced
<1>3. r \in NonZero
  BY <1>1, PositiveReciprocal
<1>4. Reciprocal(r) \in Reduced /\ Reciprocal(r) \in NonZero /\ Times(r, Reciprocal(r)) = Whole(1)
  BY <1>3, ReciprocalIs, ReciprocalIsNumber
<1>5. Times(Reciprocal(r), r) = Whole(1)
  BY <1>4, ReducedIsNumber, Commutes
<1> QED BY <1>1, <1>2, <1>3, <1>4, <1>5, ReciprocalIsOnly

\* The closest entry is one of the table, and so is an inverse that is found.
LEMMA InverseIs ==
  ASSUME NEW n \in RatioIndex
  PROVE  /\ FindInverseRatioIndex(n) \in RatioIndex
         /\ ratios[FindInverseRatioIndex(n)] = Reciprocal(ratios[n])
         /\ FindInverseRatioIndex(FindInverseRatioIndex(n)) = n
<1> DEFINE Found(m) == /\ FindInverseRatioIndex(m) \in RatioIndex
                       /\ ratios[FindInverseRatioIndex(m)] = Reciprocal(ratios[m])
<1>1. ASSUME NEW m \in RatioIndex
      PROVE  Found(m)
  <2> DEFINE r == Reciprocal(ratios[m])
             closest == FindClosestIndex(r)
             below == {l \in RatioIndex : Less(ratios[l], r)}
  <2>1. PICK N \in Nat \ {0} : N = RatioCount
    BY RatioTableAssumption DEF RatioCount
  <2>2. RatioIndex = 0 .. N - 1
    BY <2>1 DEF RatioIndex
  <2>3. LowerBound(r) \in 0 .. N
    <3>1. IsFiniteSet(RatioIndex) /\ Cardinality(RatioIndex) = N
      BY <2>1, <2>2, FS_Interval
    <3>2. below \in SUBSET RatioIndex
      OBVIOUS
    <3> HIDE DEF below
    <3>3. Cardinality(below) \in Nat /\ Cardinality(below) =< N
      BY <3>1, <3>2, FS_Subset, FS_CardinalityType
    <3>4. LowerBound(r) = Cardinality(below)
      BY DEF LowerBound, below
    <3> QED BY <2>1, <3>3, <3>4
  <2> HIDE DEF r
  <2>4. closest \in RatioIndex
    <3>1. PICK l \in 0 .. N : l = LowerBound(r)
      BY <2>3
    <3>2. closest = CASE l = 0 -> 0
                      [] l = N -> N - 1
                      [] OTHER -> IF AtMost(Minus(r, ratios[l - 1]), Minus(ratios[l], r))
                                  THEN l - 1 ELSE l
      BY <2>1, <3>1 DEF FindClosestIndex
    <3> HIDE DEF closest
    <3>3. CASE l = 0
      BY <2>1, <2>2, <3>2, <3>3
    <3>4. CASE l = N
      BY <2>1, <2>2, <3>2, <3>4
    <3>5. CASE l # 0 /\ l # N
      <4>1. l - 1 \in RatioIndex /\ l \in RatioIndex
        BY <2>1, <2>2, <3>1, <3>5
      <4> QED BY <3>2, <3>5, <4>1
    <3> QED BY <3>3, <3>4, <3>5
  <2>5. FindInverseRatioIndex(m) = IF ratios[closest] = r THEN closest ELSE kRatioIndexInvalid
    BY DEF FindInverseRatioIndex, r
  <2>6. FindInverseRatioIndex(m) # kRatioIndexInvalid
    BY TableAssumption
  <2> HIDE DEF closest
  <2> QED BY <2>4, <2>5, <2>6 DEF r
<1>2. PICK m \in RatioIndex : m = FindInverseRatioIndex(n) /\ ratios[m] = Reciprocal(ratios[n])
  BY <1>1
<1>3. PICK l \in RatioIndex : l = FindInverseRatioIndex(m) /\ ratios[l] = Reciprocal(ratios[m])
  BY <1>1
<1>4. ratios[l] = ratios[n]
  BY <1>2, <1>3, RatioIsReduced
<1>5. l = n
  BY <1>4, TableAssumption
<1> QED BY <1>2, <1>3, <1>5

\* What is left of a sum when one of the two is taken away.
LEMMA SumLess ==
  ASSUME NEW x \in Numbers, NEW y \in Reduced
  PROVE  Minus(Plus(x, y), x) = y
<1>1. PICK z \in Numbers : z = Negative(x)
  BY NegativeIs
<1>2. y \in Numbers /\ Plus(x, y) \in Numbers
  BY ReducedIsNumber, PlusIsNumber
<1>3. Minus(Plus(x, y), x) = Plus(Plus(x, y), z)
  BY <1>1, <1>2, MinusIs
<1>4. Plus(x, y) = Plus(y, x) /\ Plus(Plus(y, x), z) = Plus(y, Plus(x, z))
  BY <1>2, Commutes, PlusAssociative
<1>5. Plus(x, z) = Whole(0) /\ Plus(y, Whole(0)) = y
  BY <1>1, NegativeIs, Neutral
<1> QED BY <1>3, <1>4, <1>5

\* Two entries that add up to r, in their order in the table.
SumPairs(r) ==
  {p \in RatioIndex \X RatioIndex : p[1] =< p[2] /\ Plus(ratios[p[1]], ratios[p[2]]) = r}

\* The inner loops of BuildComplements find every such pair, once.
LEMMA PairsWithSumAre ==
  ASSUME NEW r \in Reduced
  PROVE  /\ IsSequence(PairsWithSum(r))
         /\ \A n \in DOMAIN PairsWithSum(r) : PairsWithSum(r)[n] \in SumPairs(r)
         /\ \A p \in SumPairs(r) : \E n \in DOMAIN PairsWithSum(r) : PairsWithSum(r)[n] = p
         /\ \A m, n \in DOMAIN PairsWithSum(r) :
              PairsWithSum(r)[m] = PairsWithSum(r)[n] => m = n
<1> DEFINE Partners(y) == {z \in y .. RatioCount - 1 : ratios[z] = Minus(r, ratios[y])}
           Pair(y) == IF Less(ratios[y], r) /\ Partners(y) # {}
                      THEN << <<y, Min(Partners(y))>> >> ELSE <<>>
           s == [n \in 1 .. RatioCount |-> Pair(n - 1)]
           e == [n \in 1 .. RatioCount |-> <<n - 1, Min(Partners(n - 1))>>]
           flat == CHOOSE f : Flattens(s, RatioCount, f)
<1>1. PICK N \in Nat \ {0} : N = RatioCount
  BY RatioTableAssumption DEF RatioCount
<1>2. RatioIndex = 0 .. N - 1 /\ \A n \in 1 .. N : n - 1 \in RatioIndex
  BY <1>1 DEF RatioIndex
<1>3. /\ \A n \in 1 .. N : s[n] = Pair(n - 1) /\ e[n] = <<n - 1, Min(Partners(n - 1))>>
      /\ Len(s) = N
  <2> HIDE DEF Pair, Partners
  <2> QED BY <1>1
<1>4. PairsWithSum(r) = flat[N]
  <2>1. PairsWithSum(r) = FlattenSeq(s)
    BY DEF PairsWithSum
  <2> HIDE DEF s
  <2>2. FlattenSeq(s) = flat[N]
    BY <1>1, <1>3 DEF FlattenSeq, Flattens
  <2> QED BY <2>1, <2>2
<1>5. ASSUME NEW n \in 1 .. N
      PROVE  s[n] \in {<<>>, <<e[n]>>}
  BY <1>3
<1>6. Flattens(s, N, flat)
  <2> HIDE DEF s
  <2> QED BY <1>1, FlattensExists
<1> HIDE DEF flat
<1>7. PicksUp(flat[N], s, e, N)
  <2> HIDE DEF s, e
  <2> QED BY <1>5, <1>6, FlattenSome
<1>8. ASSUME NEW n \in 1 .. N, s[n] # <<>>
      PROVE  e[n] \in SumPairs(r)
  <2>1. PICK y \in RatioIndex : y = n - 1
    BY <1>2
  <2>2. Partners(y) # {}
    BY <1>3, <1>8, <2>1
  <2>3. Partners(y) \in SUBSET Nat /\ \A z \in Partners(y) : z \in RatioIndex /\ y =< z
    BY <1>1, <1>2
  <2>4. Min(Partners(y)) \in Partners(y)
    <3> HIDE DEF Partners
    <3>1. PICK z \in Partners(y) : \A m \in Partners(y) : z =< m
      BY <2>2, <2>3, Smallest
    <3> QED BY <3>1 DEF Min
  <2>5. PICK z \in RatioIndex : z = Min(Partners(y)) /\ y =< z /\ ratios[z] = Minus(r, ratios[y])
    BY <2>3, <2>4
  <2>6. Plus(ratios[y], ratios[z]) = r
    BY <2>5, RatioIsReduced, WhatIsLeftAdds
  <2>7. e[n] = <<y, z>>
    BY <1>3, <2>1, <2>5
  <2> HIDE DEF e
  <2> QED BY <2>5, <2>6, <2>7 DEF SumPairs
<1>9. ASSUME NEW p \in SumPairs(r)
      PROVE  \E n \in 1 .. N : s[n] # <<>> /\ e[n] = p
  <2>1. PICK y \in RatioIndex, z \in RatioIndex :
          p = <<y, z>> /\ y =< z /\ Plus(ratios[y], ratios[z]) = r
    BY DEF SumPairs
  <2>2. ratios[z] = Minus(r, ratios[y]) /\ Positive(ratios[z])
    BY <2>1, RatioIsReduced, SumLess
  <2>3. Less(ratios[y], r)
    BY <2>2 DEF Less
  <2>4. Partners(y) = {z}
    <3>1. \A m \in Partners(y) : m \in RatioIndex /\ ratios[m] = ratios[z]
      BY <1>1, <1>2, <2>2
    <3>2. z \in Partners(y)
      BY <1>1, <1>2, <2>1, <2>2
    <3> HIDE DEF Partners
    <3> QED BY <3>1, <3>2, TableAssumption
  <2>5. Min(Partners(y)) = z
    <3>1. z \in Int
      BY <1>2
    <3>2. Min({z}) = z
      BY <3>1 DEF Min
    <3> QED BY <2>4, <3>2
  <2>6. y + 1 \in 1 .. N /\ (y + 1) - 1 = y
    BY <1>2
  <2>7. PICK n \in 1 .. N : n - 1 = y
    BY <2>6
  <2>8. s[n] = Pair(y) /\ e[n] = <<y, Min(Partners(y))>>
    BY <1>3, <2>7
  <2>9. Pair(y) # <<>>
    BY <2>3, <2>4
  <2> HIDE DEF Pair, Partners, s, e
  <2>10. s[n] # <<>> /\ e[n] = <<y, z>>
    BY <2>5, <2>8, <2>9
  <2> QED BY <2>1, <2>10
<1>10. ASSUME NEW m \in 1 .. N, NEW n \in 1 .. N, m < n
       PROVE  e[m] # e[n]
  <2>1. e[m] = <<m - 1, Min(Partners(m - 1))>> /\ e[n] = <<n - 1, Min(Partners(n - 1))>>
    BY <1>3
  <2> HIDE DEF e, Partners
  <2> QED BY <1>10, <2>1
<1>11. PICK t : t = flat[N] /\ t = PairsWithSum(r)
  BY <1>4
<1>12. IsSequence(t) /\ \A n \in DOMAIN t : t[n] \in SumPairs(r)
  <2> HIDE DEF s, e
  <2> QED BY <1>7, <1>8, <1>11 DEF PicksUp
<1>13. \A p \in SumPairs(r) : \E n \in DOMAIN t : t[n] = p
  <2> HIDE DEF s, e
  <2> QED BY <1>7, <1>9, <1>11 DEF PicksUp
<1>14. ASSUME NEW m \in DOMAIN t, NEW n \in DOMAIN t, m < n
       PROVE  t[m] # t[n]
  <2> HIDE DEF s, e
  <2>1. PICK l \in 1 .. N, z \in 1 .. N : l < z /\ t[m] = e[l] /\ t[n] = e[z]
    BY <1>7, <1>11, <1>14 DEF PicksUp
  <2> QED BY <1>10, <2>1
<1>15. \A m \in DOMAIN t : m \in Int
  BY <1>12 DEF IsSequence
<1>16. \A m, n \in DOMAIN t : t[m] = t[n] => m = n
  BY <1>14, <1>15
<1> QED BY <1>11, <1>12, <1>13, <1>16

SplitTypes == {kSplitTypeHorizontal, kSplitTypeVertical}

\* The two ratios of a split, the lesser index first.
PairOf(split) == <<Lesser(split.left_index, split.right_index),
                   Greater(split.left_index, split.right_index)>>

\* Two entries join to entry n in a way of type t.
AddTo(n, t, x, y) ==
  \/ t = kSplitTypeVertical /\ ratios[n] = Plus(ratios[x], ratios[y])
  \/ t = kSplitTypeHorizontal
     /\ Reciprocal(ratios[n]) = Plus(Reciprocal(ratios[x]), Reciprocal(ratios[y]))

LEMMA InJoins ==
  ASSUME NEW x, NEW y
  PROVE  /\ \A n \in RatioIndex, t \in SplitTypes : Complement(n, t) \in Joins(x, y) <=> AddTo(n, t, x, y)
         /\ \A c \in Joins(x, y) : \E n \in RatioIndex, t \in SplitTypes : c = Complement(n, t)
<1>1. kSplitTypeHorizontal # kSplitTypeVertical
  BY DEF kSplitTypeHorizontal, kSplitTypeVertical
<1>2. \A n, t, m, u : Complement(n, t) = Complement(m, u) => n = m /\ t = u
  BY DEF Complement
<1>3. ASSUME NEW n \in RatioIndex, NEW t \in SplitTypes, Complement(n, t) \in Joins(x, y)
      PROVE  AddTo(n, t, x, y)
  <2>1. \/ \E m \in RatioIndex : /\ Complement(n, t) = Complement(m, kSplitTypeVertical)
                                  /\ ratios[m] = Plus(ratios[x], ratios[y])
        \/ \E m \in RatioIndex :
             /\ Complement(n, t) = Complement(m, kSplitTypeHorizontal)
             /\ Reciprocal(ratios[m]) = Plus(Reciprocal(ratios[x]), Reciprocal(ratios[y]))
    BY <1>3 DEF Joins
  <2> QED BY <1>2, <2>1 DEF AddTo
<1>4. ASSUME NEW n \in RatioIndex, NEW t \in SplitTypes, AddTo(n, t, x, y)
      PROVE  Complement(n, t) \in Joins(x, y)
  BY <1>4 DEF AddTo, Joins
<1>5. ASSUME NEW c \in Joins(x, y)
      PROVE  \E n \in RatioIndex, t \in SplitTypes : c = Complement(n, t)
  BY DEF Joins, SplitTypes
<1> QED BY <1>3, <1>4, <1>5

\* In either order two ratios join to the same.
LEMMA JoinsEitherWay ==
  ASSUME NEW x \in RatioIndex, NEW y \in RatioIndex
  PROVE  Joins(x, y) = Joins(y, x)
<1>1. Plus(ratios[x], ratios[y]) = Plus(ratios[y], ratios[x])
  BY RatioIsReduced, Commutes
<1>2. Plus(Reciprocal(ratios[x]), Reciprocal(ratios[y])) = Plus(Reciprocal(ratios[y]), Reciprocal(ratios[x]))
  BY RatioIsReduced, ReducedIsNumber, Commutes
<1> QED BY <1>1, <1>2 DEF Joins

\* In one way they join to one ratio at most.
LEMMA JoinsOneEachWay ==
  ASSUME NEW x \in RatioIndex, NEW y \in RatioIndex, NEW t \in SplitTypes,
         NEW m \in RatioIndex, NEW n \in RatioIndex, AddTo(m, t, x, y), AddTo(n, t, x, y)
  PROVE  m = n
<1>1. kSplitTypeHorizontal # kSplitTypeVertical
  BY DEF kSplitTypeHorizontal, kSplitTypeVertical
<1>2. CASE t = kSplitTypeVertical
  BY <1>1, <1>2, TableAssumption DEF AddTo
<1>3. CASE t = kSplitTypeHorizontal
  <2>1. Reciprocal(ratios[m]) = Reciprocal(ratios[n])
    BY <1>1, <1>3 DEF AddTo
  <2>2. ratios[m] = ratios[n]
    BY <2>1, RatioIsReduced
  <2> QED BY <2>2, TableAssumption
<1> QED BY <1>2, <1>3 DEF SplitTypes

LEMMA Ordered ==
  ASSUME NEW x \in Nat, NEW y \in Nat
  PROVE  /\ Lesser(x, y) =< Greater(x, y)
         /\ x =< y => Lesser(x, y) = x /\ Greater(x, y) = y
         /\ y =< x => Lesser(x, y) = y /\ Greater(x, y) = x
BY DEF Lesser, Greater

\* The splits of ratio n are all there are, each one once.
SplitsOf(n, c) ==
  /\ IsSequence(c)
  /\ \A m \in DOMAIN c : /\ c[m].left_index \in RatioIndex /\ c[m].right_index \in RatioIndex
                         /\ c[m].type \in SplitTypes
                         /\ AddTo(n, c[m].type, c[m].left_index, c[m].right_index)
  /\ \A x, y \in RatioIndex, t \in SplitTypes :
       AddTo(n, t, x, y) =>
         \E m \in DOMAIN c : c[m].type = t /\ PairOf(c[m]) = <<Lesser(x, y), Greater(x, y)>>
  /\ \A l, m \in DOMAIN c : c[l].type = c[m].type /\ PairOf(c[l]) = PairOf(c[m]) => l = m

LEMMA ComplementsAre ==
  ASSUME NEW n \in RatioIndex
  PROVE  SplitsOf(n, ComplementsOf(n))
<1> DEFINE across == PairsWithSum(ratios[n])
           down   == PairsWithSum(Reciprocal(ratios[n]))
           Inv(x) == FindInverseRatioIndex(x)
           first  == [m \in DOMAIN across |->
                        Split(kSplitTypeVertical, across[m][1], across[m][2])]
           second == [m \in DOMAIN down |->
                        Split(kSplitTypeHorizontal, Inv(down[m][1]), Inv(down[m][2]))]
           c == ComplementsOf(n)
<1>1. kSplitTypeHorizontal # kSplitTypeVertical
  BY DEF kSplitTypeHorizontal, kSplitTypeVertical
<1>2. \A x \in RatioIndex : x \in Nat
  BY RatioTableAssumption DEF RatioIndex, RatioCount
<1>3. /\ IsSequence(across) /\ \A m \in DOMAIN across : across[m] \in SumPairs(ratios[n])
      /\ \A p \in SumPairs(ratios[n]) : \E m \in DOMAIN across : across[m] = p
      /\ \A l, m \in DOMAIN across : across[l] = across[m] => l = m
  BY RatioIsReduced, PairsWithSumAre
<1>4. /\ IsSequence(down) /\ \A m \in DOMAIN down : down[m] \in SumPairs(Reciprocal(ratios[n]))
      /\ \A p \in SumPairs(Reciprocal(ratios[n])) : \E m \in DOMAIN down : down[m] = p
      /\ \A l, m \in DOMAIN down : down[l] = down[m] => l = m
  BY RatioIsReduced, PairsWithSumAre
<1>5. c = first \o second
  BY DEF ComplementsOf
<1> HIDE DEF across, down, c
<1>6. PICK A \in Nat, D \in Nat : A = Len(across) /\ D = Len(down)
  BY <1>3, <1>4 DEF IsSequence
<1>7. /\ DOMAIN across = 1 .. A /\ DOMAIN down = 1 .. D
      /\ IsSequence(first) /\ IsSequence(second) /\ Len(first) = A /\ Len(second) = D
      /\ \A m \in 1 .. A : first[m] = Split(kSplitTypeVertical, across[m][1], across[m][2])
      /\ \A m \in 1 .. D : second[m] = Split(kSplitTypeHorizontal, Inv(down[m][1]), Inv(down[m][2]))
  <2> HIDE DEF Inv
  <2>1. DOMAIN across = 1 .. A /\ DOMAIN down = 1 .. D
    BY <1>3, <1>4, <1>6 DEF IsSequence
  <2>2. ASSUME NEW L \in Nat, NEW f, f = [m \in 1 .. L |-> f[m]]
        PROVE  IsSequence(f) /\ Len(f) = L
    <3>1. PICK S : S = {f[m] : m \in DOMAIN f}
      OBVIOUS
    <3>2. f \in Seq(S)
      BY <2>2, <3>1
    <3> QED BY <2>2, <3>1, <3>2 DEF IsSequence
  <2>3. first = [m \in 1 .. A |-> first[m]] /\ second = [m \in 1 .. D |-> second[m]]
    BY <2>1
  <2>4. /\ \A m \in 1 .. A : first[m] = Split(kSplitTypeVertical, across[m][1], across[m][2])
        /\ \A m \in 1 .. D : second[m] = Split(kSplitTypeHorizontal, Inv(down[m][1]), Inv(down[m][2]))
    BY <2>1
  <2> HIDE DEF first, second
  <2> QED BY <2>1, <2>2, <2>3, <2>4
<1> HIDE DEF first, second, Inv
<1>8. /\ IsSequence(c) /\ DOMAIN c = 1 .. A + D
      /\ \A m \in 1 .. A : c[m] = first[m]
      /\ \A m \in 1 .. D : c[A + m] = second[m]
  <2>1. /\ IsSequence(c) /\ DOMAIN c = 1 .. A + D
        /\ \A m \in 1 .. D : c[A + m] = second[m]
    BY SMTT(30), <1>5, <1>7, JoinedElements
  <2>2. \A m \in 1 .. A : c[m] = first[m]
    <3>1. PICK S : first \in Seq(S) /\ second \in Seq(S)
      <4>1. first \in Seq({first[m] : m \in DOMAIN first}) /\ second \in Seq({second[m] : m \in DOMAIN second})
        BY <1>7 DEF IsSequence
      <4>2. PICK S, T : first \in Seq(S) /\ second \in Seq(T)
        BY <4>1
      <4>3. first \in Seq(S \cup T) /\ second \in Seq(S \cup T)
        BY <4>2
      <4> QED BY <4>3
    <3> QED BY <1>5, <1>7, <3>1
  <2> QED BY <2>1, <2>2
<1>9. ASSUME NEW m \in DOMAIN c
      PROVE  \/ m \in 1 .. A
             \/ \E l \in 1 .. D : m = A + l
  <2>1. CASE m > A
    <3>1. m - A \in 1 .. D /\ m = A + (m - A)
      BY <1>8, <2>1
    <3> QED BY <3>1
  <2> QED BY <1>8, <2>1
<1>10. ASSUME NEW m \in 1 .. A
       PROVE  \E x, y \in RatioIndex : /\ across[m] = <<x, y>> /\ x =< y
                                        /\ c[m] = Split(kSplitTypeVertical, x, y)
                                        /\ ratios[n] = Plus(ratios[x], ratios[y])
  <2>1. across[m] \in SumPairs(ratios[n]) /\ c[m] = Split(kSplitTypeVertical, across[m][1], across[m][2])
    BY <1>3, <1>7, <1>8
  <2>2. PICK x \in RatioIndex, y \in RatioIndex :
          across[m] = <<x, y>> /\ x =< y /\ Plus(ratios[x], ratios[y]) = ratios[n]
    BY <2>1 DEF SumPairs
  <2>3. across[m][1] = x /\ across[m][2] = y
    BY <2>2
  <2> QED BY <2>1, <2>2, <2>3
<1>11. ASSUME NEW m \in 1 .. D
       PROVE  \E x, y \in RatioIndex : /\ down[m] = <<x, y>> /\ x =< y
                                        /\ c[A + m] = Split(kSplitTypeHorizontal, Inv(x), Inv(y))
                                        /\ Reciprocal(ratios[n]) = Plus(ratios[x], ratios[y])
  <2>1. /\ down[m] \in SumPairs(Reciprocal(ratios[n]))
        /\ c[A + m] = Split(kSplitTypeHorizontal, Inv(down[m][1]), Inv(down[m][2]))
    BY <1>4, <1>7, <1>8
  <2>2. PICK x \in RatioIndex, y \in RatioIndex :
          down[m] = <<x, y>> /\ x =< y /\ Plus(ratios[x], ratios[y]) = Reciprocal(ratios[n])
    BY <2>1 DEF SumPairs
  <2>3. down[m][1] = x /\ down[m][2] = y
    BY <2>2
  <2> QED BY <2>1, <2>2, <2>3
<1>12. \A x \in RatioIndex : /\ Inv(x) \in RatioIndex /\ ratios[Inv(x)] = Reciprocal(ratios[x])
                              /\ Inv(Inv(x)) = x
  BY InverseIs DEF Inv
<1>13. \A t, x, y : LET s == Split(t, x, y)
                    IN  /\ s.type = t /\ s.left_index = x /\ s.right_index = y
                        /\ PairOf(s) = <<Lesser(x, y), Greater(x, y)>>
  BY DEF Split, PairOf
<1>14. ASSUME NEW m \in DOMAIN c
       PROVE  /\ c[m].left_index \in RatioIndex /\ c[m].right_index \in RatioIndex
              /\ c[m].type \in SplitTypes
              /\ AddTo(n, c[m].type, c[m].left_index, c[m].right_index)
  <2>1. CASE m \in 1 .. A
    <3>1. PICK x \in RatioIndex, y \in RatioIndex :
            c[m] = Split(kSplitTypeVertical, x, y) /\ ratios[n] = Plus(ratios[x], ratios[y])
      BY <1>10, <2>1
    <3>2. c[m].type = kSplitTypeVertical /\ c[m].left_index = x /\ c[m].right_index = y
      BY <1>13, <3>1
    <3> QED BY <3>1, <3>2 DEF AddTo, SplitTypes
  <2>2. ASSUME NEW l \in 1 .. D, m = A + l
        PROVE  /\ c[m].left_index \in RatioIndex /\ c[m].right_index \in RatioIndex
               /\ c[m].type \in SplitTypes
               /\ AddTo(n, c[m].type, c[m].left_index, c[m].right_index)
    <3>1. PICK x \in RatioIndex, y \in RatioIndex :
            /\ c[m] = Split(kSplitTypeHorizontal, Inv(x), Inv(y))
            /\ Reciprocal(ratios[n]) = Plus(ratios[x], ratios[y])
      BY <1>11, <2>2
    <3>2. c[m].type = kSplitTypeHorizontal /\ c[m].left_index = Inv(x) /\ c[m].right_index = Inv(y)
      BY <1>13, <3>1
    <3>3. Reciprocal(ratios[Inv(x)]) = ratios[x] /\ Reciprocal(ratios[Inv(y)]) = ratios[y]
      BY <1>12, RatioIsReduced
    <3>4. AddTo(n, kSplitTypeHorizontal, Inv(x), Inv(y))
      BY <3>1, <3>3 DEF AddTo
    <3> QED BY <1>12, <3>2, <3>4 DEF SplitTypes
  <2> QED BY <1>9, <2>1, <2>2
<1>15. ASSUME NEW x \in RatioIndex, NEW y \in RatioIndex, NEW t \in SplitTypes, AddTo(n, t, x, y), x =< y
       PROVE  \E m \in DOMAIN c : c[m].type = t /\ PairOf(c[m]) = <<x, y>>
  <2>1. CASE t = kSplitTypeVertical
    <3>1. ratios[n] = Plus(ratios[x], ratios[y])
      BY <1>1, <1>15, <2>1 DEF AddTo
    <3>2. <<x, y>> \in SumPairs(ratios[n])
      BY <1>15, <3>1 DEF SumPairs
    <3>3. PICK m \in 1 .. A : across[m] = <<x, y>>
      BY <1>3, <1>7, <3>2
    <3>4. c[m] = Split(kSplitTypeVertical, x, y)
      BY <1>7, <1>8, <3>3
    <3>5. c[m].type = t /\ PairOf(c[m]) = <<x, y>>
      BY <1>2, <1>13, <1>15, <2>1, <3>4, Ordered
    <3>6. m \in DOMAIN c
      BY <1>8
    <3> QED BY <3>5, <3>6
  <2>2. CASE t = kSplitTypeHorizontal
    <3>1. Reciprocal(ratios[n]) = Plus(Reciprocal(ratios[x]), Reciprocal(ratios[y]))
      BY <1>1, <1>15, <2>2 DEF AddTo
    <3>2. PICK a \in RatioIndex, b \in RatioIndex : a = Inv(x) /\ b = Inv(y) /\ Inv(a) = x /\ Inv(b) = y
      BY <1>12
    <3>3. Plus(ratios[a], ratios[b]) = Reciprocal(ratios[n])
      BY <1>12, <3>1, <3>2
    <3>4. Plus(ratios[b], ratios[a]) = Reciprocal(ratios[n])
      BY <3>3, RatioIsReduced, Commutes
    <3>5. \/ <<a, b>> \in SumPairs(Reciprocal(ratios[n]))
          \/ <<b, a>> \in SumPairs(Reciprocal(ratios[n]))
      BY <1>2, <3>3, <3>4 DEF SumPairs
    <3>6. PICK m \in 1 .. D : down[m] = <<a, b>> \/ down[m] = <<b, a>>
      BY <1>4, <1>7, <3>5
    <3>7. c[A + m] = Split(kSplitTypeHorizontal, x, y) \/ c[A + m] = Split(kSplitTypeHorizontal, y, x)
      BY <1>7, <1>8, <3>2, <3>6
    <3>8. c[A + m].type = t /\ PairOf(c[A + m]) = <<x, y>>
      BY <1>2, <1>13, <1>15, <2>2, <3>7, Ordered
    <3>9. A + m \in DOMAIN c
      BY <1>8
    <3> QED BY <3>8, <3>9
  <2> QED BY <2>1, <2>2 DEF SplitTypes
<1>16. ASSUME NEW x \in RatioIndex, NEW y \in RatioIndex, NEW t \in SplitTypes, AddTo(n, t, x, y)
       PROVE  \E m \in DOMAIN c : c[m].type = t /\ PairOf(c[m]) = <<Lesser(x, y), Greater(x, y)>>
  <2>1. CASE x =< y
    BY <1>2, <1>15, <1>16, <2>1, Ordered
  <2>2. CASE y =< x
    <3>1. AddTo(n, t, y, x)
      <4>1. Plus(ratios[x], ratios[y]) = Plus(ratios[y], ratios[x])
        BY RatioIsReduced, Commutes
      <4>2. Plus(Reciprocal(ratios[x]), Reciprocal(ratios[y])) = Plus(Reciprocal(ratios[y]), Reciprocal(ratios[x]))
        BY RatioIsReduced, ReducedIsNumber, Commutes
      <4> QED BY <1>16, <4>1, <4>2 DEF AddTo
    <3> QED BY <1>2, <1>15, <2>2, <3>1, Ordered
  <2> QED BY <1>2, <2>1, <2>2
<1>17. ASSUME NEW l \in DOMAIN c, NEW m \in DOMAIN c, c[l].type = c[m].type, PairOf(c[l]) = PairOf(c[m])
       PROVE  l = m
  <2>1. ASSUME NEW z \in 1 .. A
        PROVE  c[z].type = kSplitTypeVertical /\ PairOf(c[z]) = across[z]
    <3>1. PICK x \in RatioIndex, y \in RatioIndex :
            across[z] = <<x, y>> /\ x =< y /\ c[z] = Split(kSplitTypeVertical, x, y)
      BY <1>10
    <3> QED BY <1>2, <1>13, <3>1, Ordered
  <2>2. ASSUME NEW z \in 1 .. D
        PROVE  c[A + z].type = kSplitTypeHorizontal
    BY <1>11, <1>13
  <2>3. CASE l \in 1 .. A /\ m \in 1 .. A
    <3>1. across[l] = across[m]
      BY <1>17, <2>1, <2>3
    <3> QED BY <1>3, <1>7, <2>3, <3>1
  <2>4. ASSUME NEW v \in 1 .. D, NEW w \in 1 .. D, l = A + v, m = A + w
        PROVE  l = m
    <3>1. PICK x \in RatioIndex, y \in RatioIndex :
            down[v] = <<x, y>> /\ x =< y /\ c[l] = Split(kSplitTypeHorizontal, Inv(x), Inv(y))
      BY <1>11, <2>4
    <3>2. PICK a \in RatioIndex, b \in RatioIndex :
            down[w] = <<a, b>> /\ a =< b /\ c[m] = Split(kSplitTypeHorizontal, Inv(a), Inv(b))
      BY <1>11, <2>4
    <3>3. /\ Lesser(Inv(x), Inv(y)) = Lesser(Inv(a), Inv(b))
          /\ Greater(Inv(x), Inv(y)) = Greater(Inv(a), Inv(b))
      BY <1>13, <1>17, <3>1, <3>2
    <3>4. \/ Inv(x) = Inv(a) /\ Inv(y) = Inv(b)
          \/ Inv(x) = Inv(b) /\ Inv(y) = Inv(a)
      <4>1. Inv(x) \in Nat /\ Inv(y) \in Nat /\ Inv(a) \in Nat /\ Inv(b) \in Nat
        BY <1>2, <1>12
      <4> QED BY <3>3, <4>1 DEF Lesser, Greater
    <3>5. \/ x = a /\ y = b
          \/ x = b /\ y = a
      BY <1>12, <3>4
    <3>6. down[v] = down[w]
      BY <1>2, <3>1, <3>2, <3>5
    <3> QED BY <1>4, <1>7, <2>4, <3>6
  <2> QED BY <1>1, <1>9, <1>17, <2>1, <2>2, <2>3, <2>4
<1> QED BY <1>8, <1>14, <1>16, <1>17 DEF SplitsOf, c
-----------------------------------------------------------------------------
(* The packed words *)

\* The word of a vector of two complements at most.
WordOf(made) ==
  CASE Len(made) = 0 -> {}
    [] Len(made) = 1 -> Packed({}, made[1].index, made[1].split_type)
    [] OTHER -> Packed(Packed({}, made[1].index, made[1].split_type),
                       made[2].index, made[2].split_type)

\* Indices of the table fit the 14 bits of a word and the byte of a hash.
LEMMA IndexFits ==
  ASSUME NEW n \in RatioIndex
  PROVE  n \in Nat /\ n \in 0 .. 255 /\ n \in 0 .. 2^14 - 1
<1>1. PICK N \in Nat : N = RatioCount
  BY RatioTableAssumption DEF RatioCount
<1>2. N =< 256
  BY <1>1, TableAssumption
<1> QED BY <1>1, <1>2 DEF RatioIndex

LEMMA SplitTypesDiffer == kSplitTypeHorizontal # kSplitTypeVertical
BY DEF kSplitTypeHorizontal, kSplitTypeVertical

\* The bit of a horizontal split, at its place.
TypeBit(t, b) == IF t = kSplitTypeHorizontal THEN {b} ELSE {}

\* The bits of a complement, at their place, and none but higher ones.
IsHalf(flat, n, t) ==
  \E high \in SUBSET Nat : /\ \A b \in high : b > 14
                           /\ flat = high \cup TypeBit(t, 14) \cup Bits(n)

LEMMA HalfIs ==
  ASSUME NEW n \in RatioIndex, NEW t \in SplitTypes, NEW flat, IsHalf(flat, n, t)
  PROVE  IndexFlat(flat) = n /\ SplitTypeFlat(flat) = t
<1>0. PICK high \in SUBSET Nat : /\ \A b \in high : b > 14
                                 /\ flat = high \cup TypeBit(t, 14) \cup Bits(n)
  BY DEF IsHalf
<1>1. Bits(n) \subseteq 0 .. 13
  BY DEF Bits
<1>2. flat \cap 0 .. 13 = Bits(n)
  <2>1. \A b \in 0 .. 13 : b \notin high /\ b # 14
    BY <1>0
  <2> QED BY <1>0, <1>1, <2>1 DEF TypeBit
<1>3. IndexFlat(flat) = n
  BY <1>2, IndexFits, BitsAddUp DEF IndexFlat
<1>4. 14 \in flat <=> t = kSplitTypeHorizontal
  <2>1. 14 \notin high /\ 14 \notin 0 .. 13
    BY <1>0
  <2> QED BY <1>0, <1>1, <2>1 DEF TypeBit
<1> QED BY <1>3, <1>4, SplitTypesDiffer DEF SplitTypeFlat, SplitTypes

\* What is packed in a word is read from it again.
LEMMA Unpacks ==
  ASSUME NEW made, IsSequence(made), Len(made) =< 2,
         \A m \in DOMAIN made : \E n \in RatioIndex, t \in SplitTypes : made[m] = Complement(n, t)
  PROVE  /\ Complements(WordOf(made)) = made
         /\ SplitCount(WordOf(made)) = Len(made)
         /\ WordOf(made) = {} <=> made = <<>>
<1>1. Len(made) \in Nat /\ DOMAIN made = 1 .. Len(made) /\ made = [m \in 1 .. Len(made) |-> made[m]]
  BY DEF IsSequence
<1>2. \A n : Bits(n) \subseteq 0 .. 13
  BY DEF Bits
<1>8. \A t, b : TypeBit(t, b) \subseteq {b}
  BY DEF TypeBit
<1>3. \A n, t : Complement(n, t).index = n /\ Complement(n, t).split_type = t
  BY DEF Complement
<1>4. CASE Len(made) = 0
  <2>1. WordOf(made) = {} /\ made = <<>>
    BY <1>1, <1>4 DEF WordOf
  <2>2. SplitCount({}) = 0
    BY DEF SplitCount
  <2>3. Complements({}) = <<>>
    BY <2>2 DEF Complements
  <2> QED BY <1>4, <2>1, <2>2, <2>3
<1>5. ASSUME NEW n \in RatioIndex, NEW t \in SplitTypes, NEW word, word = Packed({}, n, t)
      PROVE  /\ word = {30} \cup TypeBit(t, 14) \cup Bits(n) /\ word \subseteq Nat
             /\ SplitCount(word) = 1
             /\ Complement(IndexFlat(ComplementFlat(word, 0)), SplitTypeFlat(ComplementFlat(word, 0)))
                  = Complement(n, t)
  <2>1. word = {30} \cup TypeBit(t, 14) \cup Bits(n)
    BY <1>5 DEF Packed, TypeBit
  <2>2. word \subseteq Nat /\ 30 \in word /\ 31 \notin word
    BY <1>2, <1>8, <2>1
  <2>3. ComplementFlat(word, 0) = word
    <3>1. \A b \in word : b >= 15 * 0 /\ b - 15 * 0 = b
      BY <2>2
    <3> QED BY <3>1 DEF ComplementFlat
  <2>4. IndexFlat(word) = n /\ SplitTypeFlat(word) = t
    <3>2. PICK high : high = {30}
      OBVIOUS
    <3>1. high \subseteq Nat /\ \A b \in high : b > 14
      BY <3>2
    <3>3. word = high \cup TypeBit(t, 14) \cup Bits(n)
      BY <2>1, <3>2
    <3>4. IsHalf(word, n, t)
      BY <3>1, <3>3 DEF IsHalf
    <3> QED BY <3>4, HalfIs
  <2>5. SplitCount(word) = 1
    BY <2>2 DEF SplitCount
  <2> QED BY <2>1, <2>2, <2>3, <2>4, <2>5
<1>6. CASE Len(made) = 1
  <2>1. PICK n \in RatioIndex, t \in SplitTypes : made[1] = Complement(n, t)
    BY <1>1, <1>6
  <2>2. PICK word : word = Packed({}, n, t) /\ WordOf(made) = word
    BY <1>3, <1>6, <2>1 DEF WordOf
  <2>3. SplitCount(word) = 1 /\ word # {}
    BY <1>5, <2>2
  <2>4. Complements(word) = [m \in 1 .. 1 |-> made[m]]
    <3>1. \A m \in 1 .. 1 : m = 1 /\ m - 1 = 0
      OBVIOUS
    <3> QED BY <1>5, <2>1, <2>2, <2>3, <3>1 DEF Complements
  <2> QED BY <1>1, <1>6, <2>2, <2>3, <2>4
<1>7. CASE Len(made) = 2
  <2>1. PICK n \in RatioIndex, t \in SplitTypes : made[1] = Complement(n, t)
    BY <1>1, <1>7
  <2>2. PICK o \in RatioIndex, u \in SplitTypes : made[2] = Complement(o, u)
    BY <1>1, <1>7
  <2>3. PICK first, word : first = Packed({}, n, t) /\ word = Packed(first, o, u) /\ WordOf(made) = word
    BY <1>3, <1>7, <2>1, <2>2 DEF WordOf
  <2>4. first = {30} \cup TypeBit(t, 14) \cup Bits(n)
    BY <1>5, <2>3
  <2> DEFINE up == {b + 15 : b \in Bits(o)}
             back == {b - 15 : b \in {c \in word : c >= 15}}
  <2>5. word = (first \ {30}) \cup {31} \cup TypeBit(u, 29) \cup up
    <3>1. first # {}
      BY <2>4
    <3> QED BY <2>3, <3>1 DEF Packed, TypeBit
  <2>6. up \subseteq 15 .. 28
    BY SMTT(30), <1>2
  <2>7. word = ({31} \cup TypeBit(u, 29) \cup up) \cup TypeBit(t, 14) \cup Bits(n)
    <3>1. 30 \notin TypeBit(t, 14) /\ 30 \notin Bits(n)
      BY <1>2, <1>8
    <3> HIDE DEF up
    <3> QED BY <2>4, <2>5, <3>1
  <2>8. word \subseteq Nat /\ 30 \notin word /\ 31 \in word
    <3>1. /\ {31} \subseteq 31 .. 31 /\ TypeBit(u, 29) \subseteq 29 .. 29
          /\ TypeBit(t, 14) \subseteq 14 .. 14 /\ Bits(n) \subseteq 0 .. 13
      BY <1>2, <1>8
    <3> HIDE DEF up
    <3>2. \A b \in word : b \in Nat /\ b # 30
      BY SMTT(30), <2>6, <2>7, <3>1
    <3> QED BY <2>7, <3>2
  <2>9. SplitCount(word) = 2
    BY <2>8 DEF SplitCount
  <2>10. ComplementFlat(word, 0) = word
    <3>1. \A b \in word : b >= 15 * 0 /\ b - 15 * 0 = b
      BY <2>8
    <3> QED BY <3>1 DEF ComplementFlat
  <2>11. IndexFlat(word) = n /\ SplitTypeFlat(word) = t
    <3> DEFINE high == {31} \cup TypeBit(u, 29) \cup up
    <3>1. high \subseteq Nat /\ \A b \in high : b > 14
      <4>1. TypeBit(u, 29) \subseteq 29 .. 29 /\ {31} \subseteq 31 .. 31
        BY <1>8
      <4> HIDE DEF up
      <4>2. \A b \in high : b \in 15 .. 31
        BY <2>6, <4>1
      <4> HIDE DEF high
      <4> QED BY <4>2
    <3>2. word = high \cup TypeBit(t, 14) \cup Bits(n)
      BY <2>7
    <3> HIDE DEF high
    <3>3. IsHalf(word, n, t)
      BY <3>1, <3>2 DEF IsHalf
    <3> QED BY <3>3, HalfIs
  <2>12. ComplementFlat(word, 1) = back
    BY DEF ComplementFlat
  <2>13. back = {16} \cup TypeBit(u, 14) \cup Bits(o)
    <3>1. \A b \in Bits(o) : b + 15 \in word /\ b + 15 >= 15 /\ (b + 15) - 15 = b
      <4>1. \A b \in Bits(o) : b \in Nat
        BY <1>2
      <4> QED BY <2>7, <4>1
    <3>2. 31 \in word /\ 31 >= 15 /\ 31 - 15 = 16
      BY <2>7
    <3>3. TypeBit(u, 14) # {} => 29 \in word /\ 29 >= 15 /\ 29 - 15 = 14
      BY <2>7 DEF TypeBit
    <3>4. ASSUME NEW c \in word, c >= 15
          PROVE  c - 15 \in {16} \cup TypeBit(u, 14) \cup Bits(o)
      <4>1. c \notin Bits(n) /\ c \notin TypeBit(t, 14)
        BY <1>2, <1>8, <3>4
      <4>2. CASE c = 31
        BY <4>2
      <4>3. CASE c \in TypeBit(u, 29)
        BY <1>8, <4>3 DEF TypeBit
      <4>4. CASE c \in up
        <5>1. PICK b \in Bits(o) : c = b + 15
          BY <4>4
        <5>2. c - 15 = b
          BY SMTT(30), <1>2, <5>1
        <5> QED BY <5>1, <5>2
      <4> QED BY <2>7, <4>1, <4>2, <4>3, <4>4
    <3>5. back \subseteq {16} \cup TypeBit(u, 14) \cup Bits(o)
      BY <3>4
    <3>6. Bits(o) \subseteq back /\ {16} \subseteq back
      BY <3>1, <3>2
    <3>7. TypeBit(u, 14) \subseteq back
      BY <1>8, <3>3
    <3> HIDE DEF back
    <3> QED BY <3>5, <3>6, <3>7
  <2>14. IndexFlat(back) = o /\ SplitTypeFlat(back) = u
    <3>2. PICK high : high = {16}
      OBVIOUS
    <3>1. high \subseteq Nat /\ \A b \in high : b > 14
      BY <3>2
    <3>3. back = high \cup TypeBit(u, 14) \cup Bits(o)
      BY <2>13, <3>2
    <3> HIDE DEF back
    <3>4. IsHalf(back, o, u)
      BY <3>1, <3>3 DEF IsHalf
    <3> QED BY <3>4, HalfIs
  <2>15. Complements(word) = [m \in 1 .. 2 |-> made[m]]
    <3>1. 1 .. 2 = {1, 2} /\ 1 - 1 = 0 /\ 2 - 1 = 1
      OBVIOUS
    <3> HIDE DEF back
    <3>2. ASSUME NEW m \in 1 .. 2
          PROVE  Complement(IndexFlat(ComplementFlat(word, m - 1)), SplitTypeFlat(ComplementFlat(word, m - 1)))
                   = made[m]
      BY <2>1, <2>2, <2>10, <2>11, <2>12, <2>14, <3>1
    <3> QED BY <2>9, <3>2 DEF Complements
  <2>16. Complements(word) = made
    BY <1>1, <1>7, <2>15
  <2>17. word # {}
    BY <2>8
  <2>18. made # <<>>
    BY <1>7
  <2> QED BY <1>7, <2>3, <2>9, <2>16, <2>17, <2>18
<1> QED BY <1>1, <1>4, <1>6, <1>7
-----------------------------------------------------------------------------
(* The map and the array *)

LEMMA HashIs ==
  ASSUME NEW m \in RatioIndex, NEW n \in RatioIndex, m =< n
  PROVE  /\ HashRatioIndexes(m, n) = m * 65536 + n
         /\ HashRatioIndexesCompact(m, n) = m * 256 + n
<1>1. Lesser(m, n) = m /\ Greater(m, n) = n
  BY IndexFits, Ordered
<1>2. m % 65536 = m /\ n % 65536 = n /\ m % 256 = m /\ n % 256 = n
  BY IndexFits
<1>3. 2^16 = 65536 /\ 2^8 = 256
  OBVIOUS
<1>4. HashRatioIndexes(m, n) = (m % 65536) * 65536 + (n % 65536)
  BY <1>1, <1>3 DEF HashRatioIndexes
<1>5. HashRatioIndexesCompact(m, n) = (m % 256) * 256 + (n % 256)
  BY <1>1, <1>3 DEF HashRatioIndexesCompact
<1> QED BY <1>2, <1>4, <1>5

\* Two different pairs of the table do not meet in a hash.
LEMMA HashesDiffer ==
  ASSUME NEW x \in RatioIndex, NEW y \in RatioIndex, x =< y,
         NEW z \in RatioIndex, NEW l \in RatioIndex, z =< l,
         \/ HashRatioIndexes(x, y) = HashRatioIndexes(z, l)
         \/ HashRatioIndexesCompact(x, y) = HashRatioIndexesCompact(z, l)
  PROVE  x = z /\ y = l
<1>1. x \in 0 .. 255 /\ y \in 0 .. 255 /\ z \in 0 .. 255 /\ l \in 0 .. 255
  BY IndexFits
<1>2. /\ HashRatioIndexes(x, y) = x * 65536 + y
      /\ HashRatioIndexesCompact(x, y) = x * 256 + y
  BY HashIs
<1>3. /\ HashRatioIndexes(z, l) = z * 65536 + l
      /\ HashRatioIndexesCompact(z, l) = z * 256 + l
  BY HashIs
<1>4. \/ x * 65536 + y = z * 65536 + l
      \/ x * 256 + y = z * 256 + l
  BY <1>2, <1>3
<1> QED BY <1>1, <1>4

LEMMA HashOfPair ==
  ASSUME NEW x \in RatioIndex, NEW y \in RatioIndex
  PROVE  /\ Lesser(x, y) \in RatioIndex /\ Greater(x, y) \in RatioIndex
         /\ Lesser(x, y) =< Greater(x, y)
         /\ HashRatioIndexes(x, y) = HashRatioIndexes(Lesser(x, y), Greater(x, y))
         /\ HashRatioIndexesCompact(x, y) = HashRatioIndexesCompact(Lesser(x, y), Greater(x, y))
         /\ Joins(x, y) = Joins(Lesser(x, y), Greater(x, y))
<1>1. x \in Nat /\ y \in Nat
  BY IndexFits
<1>2. PICK a \in RatioIndex, b \in RatioIndex : a = Lesser(x, y) /\ b = Greater(x, y) /\ a =< b
  BY <1>1 DEF Lesser, Greater
<1>3. Lesser(a, b) = a /\ Greater(a, b) = b
  BY <1>2, IndexFits, Ordered
<1>4. Joins(x, y) = Joins(a, b)
  <2>1. (a = x /\ b = y) \/ (a = y /\ b = x)
    BY <1>2 DEF Lesser, Greater
  <2> QED BY <2>1, JoinsEitherWay
<1> QED BY <1>2, <1>3, <1>4 DEF HashRatioIndexes, HashRatioIndexesCompact

\* The splits that were handed out.
Done(n, m) == n < row \/ (n = row /\ m =< col)

\* One of them is of the pair and makes the complement c.
AddedFor(x, y, c) ==
  \E n \in RatioIndex : \E m \in DOMAIN ComplementsOf(n) :
    /\ Done(n, m)
    /\ PairOf(ComplementsOf(n)[m]) = <<x, y>>
    /\ c = Complement(n, ComplementsOf(n)[m].type)

MapShape ==
  /\ row \in 0 .. RatioCount /\ col \in Nat
  /\ IsSequence(complements) /\ Len(complements) =< RatioCount
  /\ \A n \in DOMAIN complements : complements[n] = ComplementsOf(n - 1)
  /\ Len(complements) < RatioCount => row = 0 /\ col = 0
  /\ row = RatioCount => col = 0

\* The vector and the word of a pair hold what was added for it.
Holds(x, y) ==
  /\ IsSequence(Made(HashRatioIndexes(x, y))) /\ IsInjective(Made(HashRatioIndexes(x, y)))
  /\ \A c : c \in Range(Made(HashRatioIndexes(x, y))) <=> AddedFor(x, y, c)
  /\ InBounds(x, y) =>
       FlatWord(HashRatioIndexesCompact(x, y)) = WordOf(Made(HashRatioIndexes(x, y)))

MapInv == MapShape /\ \A x, y \in RatioIndex : x =< y => Holds(x, y)

\* What is added for a pair is a join of it.
LEMMA AddedJoins ==
  ASSUME NEW x \in RatioIndex, NEW y \in RatioIndex, x =< y, NEW c, AddedFor(x, y, c)
  PROVE  \E n \in RatioIndex, t \in SplitTypes : c = Complement(n, t) /\ AddTo(n, t, x, y)
<1>1. PICK n \in RatioIndex : \E m \in DOMAIN ComplementsOf(n) :
        /\ PairOf(ComplementsOf(n)[m]) = <<x, y>>
        /\ c = Complement(n, ComplementsOf(n)[m].type)
  BY DEF AddedFor
<1>2. PICK m \in DOMAIN ComplementsOf(n) :
        /\ PairOf(ComplementsOf(n)[m]) = <<x, y>>
        /\ c = Complement(n, ComplementsOf(n)[m].type)
  BY <1>1
<1>3. PICK left \in RatioIndex, right \in RatioIndex, t \in SplitTypes :
        /\ t = ComplementsOf(n)[m].type /\ AddTo(n, t, left, right)
        /\ Lesser(left, right) = x /\ Greater(left, right) = y
  BY <1>2, ComplementsAre DEF SplitsOf, PairOf
<1>4. AddTo(n, t, x, y)
  <2>1. Joins(left, right) = Joins(x, y)
    BY <1>3, HashOfPair
  <2> QED BY <1>3, <2>1, InJoins
<1> QED BY <1>2, <1>3, <1>4

\* A pair has a vertical and a horizontal join at most.
LEMMA TwoAtMost ==
  ASSUME NEW x \in RatioIndex, NEW y \in RatioIndex, NEW made, IsSequence(made), IsInjective(made),
         \A m \in DOMAIN made :
           \E n \in RatioIndex, t \in SplitTypes : made[m] = Complement(n, t) /\ AddTo(n, t, x, y)
  PROVE  Len(made) =< 2
<1> SUFFICES ASSUME ~(Len(made) =< 2)
             PROVE  FALSE
  OBVIOUS
<1>1. 1 \in DOMAIN made /\ 2 \in DOMAIN made /\ 3 \in DOMAIN made
  BY DEF IsSequence
<1>2. PICK n1 \in RatioIndex, t1 \in SplitTypes : made[1] = Complement(n1, t1) /\ AddTo(n1, t1, x, y)
  BY <1>1
<1>3. PICK n2 \in RatioIndex, t2 \in SplitTypes : made[2] = Complement(n2, t2) /\ AddTo(n2, t2, x, y)
  BY <1>1
<1>4. PICK n3 \in RatioIndex, t3 \in SplitTypes : made[3] = Complement(n3, t3) /\ AddTo(n3, t3, x, y)
  BY <1>1
<1>5. t1 = t2 \/ t1 = t3 \/ t2 = t3
  BY DEF SplitTypes
<1>6. made[1] = made[2] \/ made[1] = made[3] \/ made[2] = made[3]
  <2>1. t1 = t2 => n1 = n2
    BY <1>2, <1>3, JoinsOneEachWay
  <2>2. t1 = t3 => n1 = n3
    BY <1>2, <1>4, JoinsOneEachWay
  <2>3. t2 = t3 => n2 = n3
    BY <1>3, <1>4, JoinsOneEachWay
  <2> QED BY <1>2, <1>3, <1>4, <1>5, <2>1, <2>2, <2>3
<1> QED BY <1>1, <1>6 DEF IsInjective

LEMMA WordOfMore ==
  ASSUME NEW made, IsSequence(made), Len(made) =< 1, NEW n, NEW t
  PROVE  WordOf(Append(made, Complement(n, t))) = Packed(WordOf(made), n, t)
<1>6. PICK c : c = Complement(n, t)
  OBVIOUS
<1>1. c = Complement(n, t) /\ c.index = n /\ c.split_type = t
  BY <1>6 DEF Complement
<1>2. PICK S : made \in Seq(S) /\ c \in S
  <2>1. PICK T : made \in Seq(T)
    BY DEF IsSequence
  <2>2. made \in Seq(T \cup {c})
    BY <2>1
  <2> QED BY <2>2
<1>3. PICK more : more = Append(made, c)
  OBVIOUS
<1>4. CASE Len(made) = 0
  <2>1. Len(more) = 1 /\ more[1] = c
    BY <1>2, <1>3, <1>4
  <2> QED BY <1>1, <1>3, <1>4, <2>1 DEF WordOf
<1>5. CASE Len(made) = 1
  <2>1. Len(more) = 2 /\ more[1] = made[1] /\ more[2] = c
    BY <1>2, <1>3, <1>5
  <2> QED BY <1>1, <1>3, <1>5, <2>1 DEF WordOf
<1>7. Len(made) = 0 \/ Len(made) = 1
  <2>1. PICK L \in Nat : L = Len(made)
    BY <1>2
  <2>2. L =< 1
    BY <2>1
  <2>3. L = 0 \/ L = 1
    BY <2>1, <2>2
  <2> QED BY <2>1, <2>3
<1> QED BY <1>4, <1>5, <1>7

\* All that a step changes in the vectors and the words.
LEMMA PutIs ==
  ASSUME NEW map, NEW key, NEW value, NEW x
  PROVE  /\ x \in DOMAIN Put(map, key, value) <=> x = key \/ x \in DOMAIN map
         /\ x \in DOMAIN Put(map, key, value) =>
              Put(map, key, value)[x] = IF x = key THEN value ELSE map[x]
BY DEF Put

LEMMA TableSize == RatioCount \in Nat \ {0} /\ RatioIndex = 0 .. RatioCount - 1
<1>1. PICK N \in Nat \ {0} : N = RatioCount
  BY RatioTableAssumption DEF RatioCount
<1> QED BY <1>1 DEF RatioIndex

\* The splits of a ratio are counted from 1.
LEMMA SplitsCounted ==
  ASSUME NEW n \in RatioIndex
  PROVE  /\ Len(ComplementsOf(n)) \in Nat
         /\ DOMAIN ComplementsOf(n) = 1 .. Len(ComplementsOf(n))
<1>1. IsSequence(ComplementsOf(n))
  BY ComplementsAre DEF SplitsOf
<1> QED BY <1>1 DEF IsSequence

LEMMA MapInitInv == MapInit => MapInv
<1> SUFFICES ASSUME MapInit
             PROVE  MapInv
  OBVIOUS
<1>1. PICK w : complements_rmap_flat = [index \in {ArraySize} |-> w]
  BY DEF MapInit
<1>2. MapShape
  <2>1. Len(<<>>) = 0 /\ DOMAIN <<>> = {} /\ IsSequence(<<>>)
    BY DEF IsSequence
  <2>2. complements = <<>> /\ row = 0 /\ col = 0
    BY DEF MapInit
  <2> QED BY <2>1, <2>2, TableSize DEF MapShape
<1>3. ASSUME NEW x \in RatioIndex, NEW y \in RatioIndex, x =< y
      PROVE  Holds(x, y)
  <2>1. Made(HashRatioIndexes(x, y)) = <<>>
    BY DEF Made, MapInit
  <2>2. IsSequence(<<>>) /\ IsInjective(<<>>) /\ Range(<<>>) = {}
    BY DEF IsSequence, IsInjective, Range
  <2>3. ASSUME NEW c
        PROVE  ~AddedFor(x, y, c)
    <3>1. row = 0 /\ col = 0
      BY DEF MapInit
    <3>2. \A n \in RatioIndex : \A m \in DOMAIN ComplementsOf(n) : ~Done(n, m)
      <4>1. ASSUME NEW n \in RatioIndex, NEW m \in DOMAIN ComplementsOf(n)
            PROVE  ~Done(n, m)
        <5>1. n \in Nat /\ m \in Nat \ {0}
          BY IndexFits, SplitsCounted
        <5> QED BY <3>1, <5>1 DEF Done
      <4> QED BY <4>1
    <3> QED BY <3>2 DEF AddedFor
  <2>4. WordOf(<<>>) = {}
    BY DEF WordOf
  <2>5. InBounds(x, y) => FlatWord(HashRatioIndexesCompact(x, y)) = {}
    <3>1. x \in Nat /\ y \in Nat /\ HashRatioIndexesCompact(x, y) = x * 256 + y
      BY <1>3, IndexFits, HashIs
    <3>2. ArraySize \in Int
      <4>1. 2^8 = 256
        OBVIOUS
      <4> QED BY <4>1, TableSize DEF ArraySize
    <3>3. PICK a \in Int, h \in Int : a = ArraySize /\ h = HashRatioIndexesCompact(x, y)
      BY <3>1, <3>2
    <3>4. h < a => h \notin DOMAIN complements_rmap_flat
      BY <1>1, <3>3
    <3> QED BY <3>3, <3>4 DEF InBounds, FlatWord
  <2> QED BY <2>1, <2>2, <2>3, <2>4, <2>5 DEF Holds
<1> QED BY <1>2, <1>3 DEF MapInv

\* Neither the vectors nor the words change, nor what was added.
LEMMA HoldsStays ==
  ASSUME NEW x \in RatioIndex, NEW y \in RatioIndex, Holds(x, y),
         UNCHANGED <<complements_rmap, complements_rmap_flat>>,
         \A n \in RatioIndex : \A m \in DOMAIN ComplementsOf(n) : Done(n, m) <=> Done(n, m)'
  PROVE  Holds(x, y)'
<1>1. \A c : AddedFor(x, y, c) <=> AddedFor(x, y, c)'
  BY DEF AddedFor
<1>2. \A h : Made(h)' = Made(h) /\ FlatWord(h)' = FlatWord(h)
  BY DEF Made, FlatWord
<1> QED BY <1>1, <1>2 DEF Holds

LEMMA BuildComplementsMap == MapInv /\ BuildComplements => MapInv'
<1> SUFFICES ASSUME MapInv, BuildComplements
             PROVE  MapInv'
  OBVIOUS
<1>1. PICK L \in Nat : /\ L = Len(complements) /\ L < RatioCount /\ DOMAIN complements = 1 .. L
                       /\ IsSequence(complements)
  <2>1. IsSequence(complements) /\ Len(complements) < RatioCount
    BY DEF MapInv, MapShape, BuildComplements
  <2>2. Len(complements) \in Nat /\ DOMAIN complements = 1 .. Len(complements)
    BY <2>1 DEF IsSequence
  <2> QED BY <2>1, <2>2
<1>2. /\ complements' = Append(complements, ComplementsOf(L)) /\ row = 0 /\ col = 0
      /\ row' = row /\ col' = col
  BY <1>1 DEF BuildComplements, MapInv, MapShape
<1>3. /\ IsSequence(complements') /\ Len(complements') = L + 1 /\ DOMAIN complements' = 1 .. L + 1
      /\ \A n \in 1 .. L : complements'[n] = complements[n]
      /\ complements'[L + 1] = ComplementsOf(L)
  <2>1. PICK S : complements \in Seq(S) /\ ComplementsOf(L) \in S
    <3>1. PICK T : complements \in Seq(T)
      BY <1>1 DEF IsSequence
    <3>2. complements \in Seq(T \cup {ComplementsOf(L)})
      BY <3>1
    <3> QED BY <3>2
  <2>2. IsSequence(complements')
    BY <1>1, <1>2, AppendedElements
  <2> QED BY <1>1, <1>2, <2>1, <2>2
<1>4. MapShape'
  <2>1. \A n \in 1 .. L + 1 : complements'[n] = ComplementsOf(n - 1)
    <3>1. ASSUME NEW n \in 1 .. L + 1
          PROVE  complements'[n] = ComplementsOf(n - 1)
      <4>1. CASE n = L + 1
        <5>1. n - 1 = L
          BY <4>1
        <5> QED BY <1>3, <4>1, <5>1
      <4>2. CASE n # L + 1
        <5>1. n \in 1 .. L
          BY <4>2
        <5> QED BY <1>1, <1>3, <5>1 DEF MapInv, MapShape
      <4> QED BY <4>1, <4>2
    <3> QED BY <3>1
  <2>2. L + 1 =< RatioCount /\ 0 # RatioCount
    BY <1>1, TableSize
  <2> QED BY <1>1, <1>2, <1>3, <2>1, <2>2, TableSize DEF MapShape
<1>5. ASSUME NEW x \in RatioIndex, NEW y \in RatioIndex, x =< y
      PROVE  Holds(x, y)'
  <2>1. UNCHANGED <<complements_rmap, complements_rmap_flat>>
    BY DEF BuildComplements
  <2>2. \A n, m : Done(n, m) <=> Done(n, m)'
    BY <1>2 DEF Done
  <2> QED BY <1>5, <2>1, <2>2, HoldsStays DEF MapInv
<1> QED BY <1>4, <1>5 DEF MapInv

LEMMA NextRowMap == MapInv /\ NextRow => MapInv'
<1> SUFFICES ASSUME MapInv, NextRow
             PROVE  MapInv'
  OBVIOUS
<1>1. /\ row \in RatioIndex /\ row \in Nat /\ Len(complements) = RatioCount /\ IsSequence(complements)
      /\ row' = row + 1 /\ col' = 0 /\ complements' = complements
  BY TableSize DEF NextRow, Filling, MapInv, MapShape
<1>2. col = Len(ComplementsOf(row)) /\ col \in Nat
  <2>1. row + 1 \in DOMAIN complements /\ (row + 1) - 1 = row
    BY <1>1, TableSize DEF IsSequence
  <2>2. complements[row + 1] = ComplementsOf(row)
    BY <2>1 DEF MapInv, MapShape
  <2> QED BY <2>2 DEF NextRow, MapInv, MapShape
<1>3. MapShape'
  <2>1. row + 1 \in 0 .. RatioCount
    BY <1>1, TableSize
  <2> QED BY <1>1, <2>1, TableSize DEF MapShape, MapInv
<1>4. ASSUME NEW n \in RatioIndex, NEW m \in DOMAIN ComplementsOf(n)
      PROVE  Done(n, m) <=> Done(n, m)'
  <2>1. n \in Nat /\ m \in Nat \ {0} /\ m =< Len(ComplementsOf(n))
    BY IndexFits, SplitsCounted
  <2>2. n = row => m =< col
    BY <1>2, <2>1
  <2>3. Done(n, m)' <=> n < row + 1 \/ (n = row + 1 /\ m =< 0)
    BY <1>1 DEF Done
  <2>4. Done(n, m) <=> n =< row
    BY <1>1, <2>1, <2>2 DEF Done
  <2> QED BY <1>1, <2>1, <2>3, <2>4
<1>5. ASSUME NEW x \in RatioIndex, NEW y \in RatioIndex, x =< y
      PROVE  Holds(x, y)'
  <2>1. UNCHANGED <<complements_rmap, complements_rmap_flat>>
    BY DEF NextRow
  <2>2. Holds(x, y)
    BY <1>5 DEF MapInv
  <2> QED BY <1>4, <2>1, <2>2, HoldsStays
<1> QED BY <1>3, <1>5 DEF MapInv

LEMMA AddComplementMap == MapInv /\ AddComplement => MapInv'
<1> SUFFICES ASSUME MapInv, AddComplement
             PROVE  MapInv'
  OBVIOUS
<1>1. /\ row \in RatioIndex /\ row \in Nat /\ col \in Nat /\ Len(complements) = RatioCount
      /\ IsSequence(complements) /\ row' = row /\ col' = col + 1 /\ complements' = complements
  BY TableSize DEF AddComplement, Filling, MapInv, MapShape
<1>2. complements[row + 1] = ComplementsOf(row)
  <2>1. row + 1 \in DOMAIN complements /\ (row + 1) - 1 = row
    BY <1>1, TableSize DEF IsSequence
  <2> QED BY <2>1 DEF MapInv, MapShape
<1>3. PICK split : split = ComplementsOf(row)[col + 1]
  OBVIOUS
<1>4. /\ complements_rmap_flat' =
           Put(complements_rmap_flat, HashRatioIndexesCompact(split.left_index, split.right_index),
               Packed(FlatWord(HashRatioIndexesCompact(split.left_index, split.right_index)),
                      row, split.type))
      /\ complements_rmap' =
           Put(complements_rmap, HashRatioIndexes(split.left_index, split.right_index),
               Append(Made(HashRatioIndexes(split.left_index, split.right_index)),
                      Complement(row, split.type)))
      /\ col < Len(ComplementsOf(row))
  BY <1>2, <1>3 DEF AddComplement
<1>5. col + 1 \in DOMAIN ComplementsOf(row)
  BY <1>1, <1>4, SplitsCounted
<1>6. PICK t \in SplitTypes, left \in RatioIndex, right \in RatioIndex :
        t = split.type /\ left = split.left_index /\ right = split.right_index
  BY <1>1, <1>3, <1>5, ComplementsAre DEF SplitsOf
<1>7. PICK a \in RatioIndex, b \in RatioIndex :
        a = Lesser(left, right) /\ b = Greater(left, right) /\ a =< b
  BY HashOfPair
<1>8. PICK hash, index, c : /\ hash = HashRatioIndexes(a, b) /\ index = HashRatioIndexesCompact(a, b)
                            /\ c = Complement(row, t)
  OBVIOUS
<1>9. /\ complements_rmap_flat' = Put(complements_rmap_flat, index, Packed(FlatWord(index), row, t))
      /\ complements_rmap' = Put(complements_rmap, hash, Append(Made(hash), c))
  BY <1>4, <1>6, <1>7, <1>8, HashOfPair
<1>10. /\ Made(hash)' = Append(Made(hash), c) /\ \A h : h # hash => Made(h)' = Made(h)
       /\ FlatWord(index)' = Packed(FlatWord(index), row, t)
       /\ \A h : h # index => FlatWord(h)' = FlatWord(h)
  <2>1. \A h : Made(h)' = IF h = hash THEN Append(Made(hash), c) ELSE Made(h)
    <3>1. ASSUME NEW h
          PROVE  Made(h)' = IF h = hash THEN Append(Made(hash), c) ELSE Made(h)
      <4>1. PICK value : value = Append(Made(hash), c)
        OBVIOUS
      <4>2. /\ h \in DOMAIN complements_rmap' <=> h = hash \/ h \in DOMAIN complements_rmap
            /\ h \in DOMAIN complements_rmap' =>
                 complements_rmap'[h] = IF h = hash THEN value ELSE complements_rmap[h]
        BY <1>9, <4>1, PutIs
      <4>3. Made(h)' = IF h = hash THEN value ELSE Made(h)
        BY <4>2 DEF Made
      <4> QED BY <4>1, <4>3
    <3> QED BY <3>1
  <2>2. \A h : FlatWord(h)' = IF h = index THEN Packed(FlatWord(index), row, t) ELSE FlatWord(h)
    <3>1. ASSUME NEW h
          PROVE  FlatWord(h)' = IF h = index THEN Packed(FlatWord(index), row, t) ELSE FlatWord(h)
      <4>1. PICK value : value = Packed(FlatWord(index), row, t)
        OBVIOUS
      <4>2. /\ h \in DOMAIN complements_rmap_flat' <=> h = index \/ h \in DOMAIN complements_rmap_flat
            /\ h \in DOMAIN complements_rmap_flat' =>
                 complements_rmap_flat'[h] = IF h = index THEN value ELSE complements_rmap_flat[h]
        BY <1>9, <4>1, PutIs
      <4>3. FlatWord(h)' = IF h = index THEN value ELSE FlatWord(h)
        BY <4>2 DEF FlatWord
      <4> QED BY <4>1, <4>3
    <3> QED BY <3>1
  <2> QED BY <2>1, <2>2
<1>11. PairOf(split) = <<a, b>>
  BY <1>6, <1>7 DEF PairOf
<1>12. \A n \in RatioIndex : \A m \in DOMAIN ComplementsOf(n) :
         Done(n, m)' <=> Done(n, m) \/ (n = row /\ m = col + 1)
  <2>1. ASSUME NEW n \in RatioIndex, NEW m \in DOMAIN ComplementsOf(n)
        PROVE  Done(n, m)' <=> Done(n, m) \/ (n = row /\ m = col + 1)
    <3>1. n \in Nat /\ m \in Nat
      BY IndexFits, SplitsCounted
    <3>2. Done(n, m)' <=> n < row \/ (n = row /\ m =< col + 1)
      BY <1>1 DEF Done
    <3>3. m =< col + 1 <=> m =< col \/ m = col + 1
      BY <1>1, <3>1
    <3> QED BY <3>2, <3>3 DEF Done
  <2> QED BY <2>1
<1>13. ASSUME NEW x, NEW y, NEW d
       PROVE  AddedFor(x, y, d)' <=> AddedFor(x, y, d) \/ (<<x, y>> = <<a, b>> /\ d = c)
  <2>1. ASSUME AddedFor(x, y, d)'
        PROVE  AddedFor(x, y, d) \/ (<<x, y>> = <<a, b>> /\ d = c)
    <3>9. PICK n \in RatioIndex : \E m \in DOMAIN ComplementsOf(n) :
            /\ Done(n, m)' /\ PairOf(ComplementsOf(n)[m]) = <<x, y>>
            /\ d = Complement(n, ComplementsOf(n)[m].type)
      BY <2>1 DEF AddedFor
    <3>1. PICK m \in DOMAIN ComplementsOf(n) :
            /\ Done(n, m)' /\ PairOf(ComplementsOf(n)[m]) = <<x, y>>
            /\ d = Complement(n, ComplementsOf(n)[m].type)
      BY <3>9
    <3>2. CASE Done(n, m)
      BY <3>1, <3>2 DEF AddedFor
    <3>3. CASE n = row /\ m = col + 1
      BY <1>3, <1>6, <1>8, <1>11, <3>1, <3>3
    <3> QED BY <1>12, <3>1, <3>2, <3>3
  <2>2. ASSUME AddedFor(x, y, d)
        PROVE  AddedFor(x, y, d)'
    <3>9. PICK n \in RatioIndex : \E m \in DOMAIN ComplementsOf(n) :
            /\ Done(n, m) /\ PairOf(ComplementsOf(n)[m]) = <<x, y>>
            /\ d = Complement(n, ComplementsOf(n)[m].type)
      BY <2>2 DEF AddedFor
    <3>1. PICK m \in DOMAIN ComplementsOf(n) :
            /\ Done(n, m) /\ PairOf(ComplementsOf(n)[m]) = <<x, y>>
            /\ d = Complement(n, ComplementsOf(n)[m].type)
      BY <3>9
    <3>2. Done(n, m)'
      BY <1>12, <3>1
    <3> QED BY <3>1, <3>2 DEF AddedFor
  <2>3. ASSUME <<x, y>> = <<a, b>>, d = c
        PROVE  AddedFor(x, y, d)'
    <3>1. PICK n \in RatioIndex : n = row /\ col + 1 \in DOMAIN ComplementsOf(n)
      BY <1>1, <1>5
    <3>2. PICK m \in DOMAIN ComplementsOf(n) : m = col + 1
      BY <3>1
    <3>3. Done(n, m)'
      BY <1>12, <3>1, <3>2
    <3>4. PairOf(ComplementsOf(n)[m]) = <<x, y>> /\ d = Complement(n, ComplementsOf(n)[m].type)
      BY <1>3, <1>6, <1>8, <1>11, <2>3, <3>1, <3>2
    <3> QED BY <3>3, <3>4 DEF AddedFor
  <2> QED BY <2>1, <2>2, <2>3
<1>14. MapShape'
  <2>1. row # RatioCount
    BY <1>1, TableSize
  <2> QED BY <1>1, <2>1 DEF MapShape, MapInv
<1>15. ASSUME NEW x \in RatioIndex, NEW y \in RatioIndex, x =< y, <<x, y>> # <<a, b>>
       PROVE  Holds(x, y)'
  <2>1. HashRatioIndexes(x, y) # hash /\ HashRatioIndexesCompact(x, y) # index
    BY <1>7, <1>8, <1>15, HashesDiffer
  <2>2. /\ Made(HashRatioIndexes(x, y))' = Made(HashRatioIndexes(x, y))
        /\ FlatWord(HashRatioIndexesCompact(x, y))' = FlatWord(HashRatioIndexesCompact(x, y))
    BY <1>10, <2>1
  <2>3. \A d : AddedFor(x, y, d)' <=> AddedFor(x, y, d)
    BY <1>13, <1>15
  <2>4. Holds(x, y)
    BY <1>15 DEF MapInv
  <2> QED BY <2>2, <2>3, <2>4 DEF Holds
<1>16. Holds(a, b)'
  <2>1. Holds(a, b)
    BY <1>7 DEF MapInv
  <2>2. PICK made, more : made = Made(hash) /\ more = Append(made, c)
    OBVIOUS
  <2>3. /\ IsSequence(made) /\ IsInjective(made) /\ \A d : d \in Range(made) <=> AddedFor(a, b, d)
        /\ InBounds(a, b) => FlatWord(index) = WordOf(made)
    BY <1>8, <2>1, <2>2 DEF Holds
  <2>4. ~AddedFor(a, b, c)
    <3> SUFFICES ASSUME AddedFor(a, b, c)
                 PROVE  FALSE
      OBVIOUS
    <3>9. PICK n \in RatioIndex : \E m \in DOMAIN ComplementsOf(n) :
            /\ Done(n, m) /\ PairOf(ComplementsOf(n)[m]) = <<a, b>>
            /\ c = Complement(n, ComplementsOf(n)[m].type)
      BY DEF AddedFor
    <3>1. PICK m \in DOMAIN ComplementsOf(n) :
            /\ Done(n, m) /\ PairOf(ComplementsOf(n)[m]) = <<a, b>>
            /\ c = Complement(n, ComplementsOf(n)[m].type)
      BY <3>9
    <3>2. n = row /\ ComplementsOf(n)[m].type = t
      BY <1>8, <3>1 DEF Complement
    <3>3. m = col + 1
      BY <1>1, <1>3, <1>5, <1>6, <1>11, <3>1, <3>2, ComplementsAre DEF SplitsOf
    <3> QED BY <1>1, <3>1, <3>2, <3>3 DEF Done
  <2>5. /\ IsSequence(more) /\ Len(made) \in Nat /\ Len(more) = Len(made) + 1
        /\ DOMAIN made = 1 .. Len(made) /\ DOMAIN more = 1 .. Len(made) + 1
        /\ \A m \in 1 .. Len(made) : more[m] = made[m]
        /\ more[Len(made) + 1] = c
        /\ Range(more) = Range(made) \cup {c}
    <3>1. IsSequence(more) /\ Range(more) = Range(made) \cup {c}
      BY <2>2, <2>3, AppendedElements
    <3>2. PICK T : made \in Seq(T)
      BY <2>3 DEF IsSequence
    <3>3. made \in Seq(T \cup {c}) /\ c \in T \cup {c}
      BY <3>2
    <3> QED BY <2>2, <3>1, <3>3
  <2>6. IsInjective(more)
    <3>1. ASSUME NEW m \in 1 .. Len(made)
          PROVE  made[m] # c
      BY <2>3, <2>4, <2>5 DEF Range
    <3>2. \A m \in DOMAIN more : m \in 1 .. Len(made) \/ m = Len(made) + 1
      BY <2>5
    <3> QED BY <2>3, <2>5, <3>1, <3>2 DEF IsInjective
  <2>7. \A d : d \in Range(more) <=> AddedFor(a, b, d)'
    BY <1>13, <2>3, <2>5
  <2>8. \A m \in DOMAIN more :
          \E n \in RatioIndex, u \in SplitTypes : more[m] = Complement(n, u) /\ AddTo(n, u, a, b)
    <3>1. ASSUME NEW m \in DOMAIN made
          PROVE  \E n \in RatioIndex, u \in SplitTypes : made[m] = Complement(n, u) /\ AddTo(n, u, a, b)
      <4>1. made[m] \in Range(made)
        BY DEF Range
      <4> QED BY <1>7, <2>3, <4>1, AddedJoins
    <3>2. AddTo(row, t, a, b)
      <4>1. AddTo(row, t, left, right)
        BY <1>1, <1>3, <1>5, <1>6, ComplementsAre DEF SplitsOf
      <4>2. Joins(left, right) = Joins(a, b)
        BY <1>7, HashOfPair
      <4> QED BY <1>1, <4>1, <4>2, InJoins
    <3>3. \A m \in DOMAIN more : m \in 1 .. Len(made) \/ m = Len(made) + 1
      BY <2>5
    <3> QED BY <1>1, <1>8, <2>5, <3>1, <3>2, <3>3
  <2>9. Len(made) =< 1
    <3>1. Len(more) =< 2
      BY <2>5, <2>6, <2>8, TwoAtMost
    <3> QED BY <2>5, <3>1
  <2>10. WordOf(more) = Packed(WordOf(made), row, t)
    BY <1>8, <2>2, <2>3, <2>9, WordOfMore
  <2>11. /\ Made(HashRatioIndexes(a, b))' = more
         /\ InBounds(a, b) => FlatWord(HashRatioIndexesCompact(a, b))' = WordOf(more)
    BY <1>8, <1>10, <2>2, <2>3, <2>10
  <2> QED BY <2>5, <2>6, <2>7, <2>11 DEF Holds
<1>17. ASSUME NEW x \in RatioIndex, NEW y \in RatioIndex, x =< y
       PROVE  Holds(x, y)'
  BY <1>15, <1>16, <1>17
<1> QED BY <1>14, <1>17 DEF MapInv

LEMMA MapStepInv == MapInv /\ [MapNext]_map_vars => MapInv'
<1> SUFFICES ASSUME MapInv, [MapNext]_map_vars
             PROVE  MapInv'
  OBVIOUS
<1>1. CASE MapNext
  BY <1>1, BuildComplementsMap, AddComplementMap, NextRowMap DEF MapNext, BuildComplementsReverseMap
<1>2. CASE UNCHANGED map_vars
  <2>1. MapShape'
    BY <1>2 DEF map_vars, MapInv, MapShape
  <2>2. ASSUME NEW x \in RatioIndex, NEW y \in RatioIndex, x =< y
        PROVE  Holds(x, y)'
    <3>1. Holds(x, y) /\ \A n, m : Done(n, m) <=> Done(n, m)'
      BY <1>2, <2>2 DEF MapInv, map_vars, Done
    <3> QED BY <1>2, <3>1, HoldsStays DEF map_vars
  <2> QED BY <2>1, <2>2 DEF MapInv
<1> QED BY <1>1, <1>2

\* What holds of the loops of BuildComplementsReverseMap: the map has, for each
\* pair of ratios, the joins that the splits gone through so far give, each
\* once, and the array the word that packs them.
THEOREM MapInvariant == MapSpec => []MapInv
<1>1. MapInit => MapInv
  BY MapInitInv
<1>2. MapInv /\ [MapNext]_map_vars => MapInv'
  BY MapStepInv
<1> QED BY <1>1, <1>2, PTL DEF MapSpec

\* What was added for a pair is what its word unpacks to.
LEMMA MapUnpacks ==
  ASSUME MapInv, NEW x \in RatioIndex, NEW y \in RatioIndex, x =< y
  PROVE  /\ IsInjective(Made(HashRatioIndexes(x, y)))
         /\ \A c : c \in Range(Made(HashRatioIndexes(x, y))) <=> AddedFor(x, y, c)
         /\ Len(Made(HashRatioIndexes(x, y))) \in Nat /\ Len(Made(HashRatioIndexes(x, y))) =< 2
         /\ InBounds(x, y) =>
              LET word == FlatWord(HashRatioIndexesCompact(x, y))
              IN  /\ Complements(word) = Made(HashRatioIndexes(x, y))
                  /\ SplitCount(word) = Len(Made(HashRatioIndexes(x, y)))
                  /\ word = {} <=> Made(HashRatioIndexes(x, y)) = <<>>
<1>1. PICK made : made = Made(HashRatioIndexes(x, y))
  OBVIOUS
<1>2. /\ IsSequence(made) /\ IsInjective(made) /\ \A c : c \in Range(made) <=> AddedFor(x, y, c)
      /\ InBounds(x, y) => FlatWord(HashRatioIndexesCompact(x, y)) = WordOf(made)
  BY <1>1 DEF MapInv, Holds
<1>3. ASSUME NEW m \in DOMAIN made
      PROVE  \E n \in RatioIndex, t \in SplitTypes : made[m] = Complement(n, t) /\ AddTo(n, t, x, y)
  <2>1. made[m] \in Range(made)
    BY DEF Range
  <2> QED BY <1>2, <2>1, AddedJoins
<1>4. Len(made) =< 2 /\ Len(made) \in Nat
  <2>1. Len(made) \in Nat
    BY <1>2 DEF IsSequence
  <2> QED BY <1>2, <1>3, <2>1, TwoAtMost
<1>5. /\ Complements(WordOf(made)) = made /\ SplitCount(WordOf(made)) = Len(made)
      /\ WordOf(made) = {} <=> made = <<>>
  BY <1>2, <1>3, <1>4, Unpacks
<1> QED BY <1>1, <1>2, <1>4, <1>5

LEMMA MapAgrees == MapInv => FlatAgreesWithMap
<1>1. ASSUME MapInv, NEW x \in RatioIndex, NEW y \in RatioIndex, x =< y, InBounds(x, y)
      PROVE  Complements(FlatWord(HashRatioIndexesCompact(x, y))) = Made(HashRatioIndexes(x, y))
  BY <1>1, MapUnpacks
<1> QED BY <1>1 DEF FlatAgreesWithMap

\* When all is done nothing is missing.
LEMMA AllAdded ==
  ASSUME MapInv, Built, NEW x \in RatioIndex, NEW y \in RatioIndex, x =< y, NEW c
  PROVE  AddedFor(x, y, c) <=> c \in Joins(x, y)
<1>1. ASSUME AddedFor(x, y, c)
      PROVE  c \in Joins(x, y)
  BY <1>1, AddedJoins, InJoins
<1>2. ASSUME c \in Joins(x, y)
      PROVE  AddedFor(x, y, c)
  <2>1. PICK n \in RatioIndex, t \in SplitTypes : c = Complement(n, t)
    BY <1>2, InJoins
  <2>2. AddTo(n, t, x, y)
    BY <1>2, <2>1, InJoins
  <2>3. Lesser(x, y) = x /\ Greater(x, y) = y
    BY IndexFits, Ordered
  <2>4. PICK m \in DOMAIN ComplementsOf(n) :
          ComplementsOf(n)[m].type = t /\ PairOf(ComplementsOf(n)[m]) = <<x, y>>
    BY <2>2, <2>3, ComplementsAre DEF SplitsOf
  <2>5. Done(n, m)
    BY TableSize DEF Built, Done
  <2> QED BY <2>1, <2>4, <2>5 DEF AddedFor
<1> QED BY <1>1, <1>2

LEMMA MapIsComplete ==
  ASSUME MapInv, Built, NEW x \in RatioIndex, NEW y \in RatioIndex, InBounds(x, y)
  PROVE  LET found == Complements(FlatWord(HashRatioIndexesCompact(x, y)))
         IN  IsInjective(found) /\ Range(found) = Joins(x, y)
<1>1. PICK a \in RatioIndex, b \in RatioIndex :
        /\ a =< b /\ Joins(x, y) = Joins(a, b)
        /\ HashRatioIndexesCompact(x, y) = HashRatioIndexesCompact(a, b)
  BY HashOfPair
<1>2. InBounds(a, b)
  BY <1>1 DEF InBounds
<1>3. PICK made : made = Made(HashRatioIndexes(a, b))
  OBVIOUS
<1>4. /\ Complements(FlatWord(HashRatioIndexesCompact(a, b))) = made
      /\ IsInjective(made) /\ \A c : c \in Range(made) <=> AddedFor(a, b, c)
  BY <1>1, <1>2, <1>3, MapUnpacks
<1>5. Range(made) = Joins(a, b)
  BY <1>1, <1>4, AllAdded
<1> QED BY <1>1, <1>4, <1>5

LEMMA MapIsEveryJoin == MapInv => FlatIsEveryJoin
<1>1. ASSUME MapInv, Built, NEW x \in RatioIndex, NEW y \in RatioIndex, InBounds(x, y)
      PROVE  LET found == Complements(FlatWord(HashRatioIndexesCompact(x, y)))
             IN  IsInjective(found) /\ Range(found) = Joins(x, y)
  BY <1>1, MapIsComplete
<1> QED BY <1>1 DEF FlatIsEveryJoin

\* For every pair of ratios the word of the array unpacks to the vector of the
\* map: a word has room for two joins, and no two ratios join in more ways.
THEOREM FlatAgreesCorrect == MapSpec => []FlatAgreesWithMap
BY MapInvariant, MapAgrees, PTL

\* When the constructor is done a word has every join of its two ratios and
\* no other, once: what Group() looks up is complete.
THEOREM FlatIsEveryJoinCorrect == MapSpec => []FlatIsEveryJoin
BY MapInvariant, MapIsEveryJoin, PTL

-----------------------------------------------------------------------------
(* Order and copies *)

\* Numbers moved are as many as before.
LEMMA Shifted ==
  ASSUME NEW S, IsFiniteSet(S), S \subseteq Int, NEW d \in Int
  PROVE  IsFiniteSet({n + d : n \in S}) /\ Cardinality({n + d : n \in S}) = Cardinality(S)
<1> DEFINE T == {n + d : n \in S}
           f == [n \in S |-> n + d]
<1>1. f \in Bijection(S, T)
  <2>1. f \in [S -> T] /\ \A t \in T : \E n \in S : f[n] = t
    OBVIOUS
  <2>2. \A m, n \in S : f[m] = f[n] => m = n
    OBVIOUS
  <2> QED BY <2>1, <2>2 DEF Bijection, Injection, Surjection, IsInjective
<1>2. ExistsBijection(S, T)
  BY <1>1 DEF ExistsBijection
<1> HIDE DEF T
<1>3. IsFiniteSet(T) /\ Cardinality(T) = Cardinality(S)
  BY <1>2, FS_Bijection
<1> QED BY <1>3 DEF T

\* The elements of D counted by what f gives them.
Counts(D, f, K, key, size) ==
  /\ \A a, b \in K : key[a] = key[b] => a = b
  /\ \A a \in K : size[a] = Cardinality({n \in D : f[n] = key[a]})
  /\ \A n \in D : \E a \in K : f[n] = key[a]

LEMMA SumOfCounts ==
  ASSUME NEW D, IsFiniteSet(D), NEW f, NEW K, IsFiniteSet(K), NEW key, NEW size,
         Counts(D, f, K, key, size)
  PROVE  SumFunctionOnSet(size, K) = Cardinality(D)
<1> USE DEF Counts
<1> DEFINE Of(a) == {n \in D : f[n] = key[a]}
           All(T) == {n \in D : \E a \in T : f[n] = key[a]}
           Good == {T \in SUBSET K : SumFunctionOnSet(size, T) = Cardinality(All(T))}
<1>1. \A a \in K : IsFiniteSet(Of(a)) /\ size[a] \in Int /\ size[a] = Cardinality(Of(a))
  <2> TAKE a \in K
  <2>1. Of(a) \in SUBSET D /\ size[a] = Cardinality(Of(a))
    OBVIOUS
  <2> HIDE DEF Of
  <2> QED BY <2>1, FS_Subset, FS_CardinalityType
<1>2. {} \in Good
  <2>1. All({}) = {}
    OBVIOUS
  <2> QED BY <2>1, SumEmpty, FS_EmptySet
<1>3. ASSUME NEW T \in SUBSET K, NEW a \in K \ T, T \in Good
      PROVE  T \cup {a} \in Good
  <2>1. SumFunctionOnSet(size, T) = Cardinality(All(T))
    BY <1>3
  <2>2. IsFiniteSet(T) /\ a \notin T /\ a \in K
    BY FS_Subset
  <2>3. All(T \cup {a}) = All(T) \cup Of(a) /\ All(T) \cap Of(a) = {}
    OBVIOUS
  <2>4. IsFiniteSet(All(T)) /\ IsFiniteSet(Of(a))
    <3>1. All(T) \in SUBSET D /\ Of(a) \in SUBSET D
      OBVIOUS
    <3> HIDE DEF All, Of
    <3> QED BY <3>1, FS_Subset
  <2>5. \A y \in T \cup {a} : size[y] \in Int
    BY <1>1
  <2> HIDE DEF All, Of, Good
  <2>6. Cardinality(All(T) \cup Of(a)) = Cardinality(All(T)) + Cardinality(Of(a))
    <3>1. Cardinality(All(T) \cup Of(a)) = Cardinality(All(T)) + Cardinality(Of(a)) - Cardinality({})
      BY <2>3, <2>4, FS_Union
    <3> QED BY <2>4, <3>1, FS_EmptySet, FS_CardinalityType
  <2>7. SumFunctionOnSet(size, T \cup {a}) = size[a] + SumFunctionOnSet(size, T)
    BY <2>2, <2>5, SumMore
  <2>8. SumFunctionOnSet(size, T \cup {a}) = Cardinality(All(T \cup {a}))
    <3>1. PICK u \in Nat, v \in Nat : u = Cardinality(All(T)) /\ v = Cardinality(Of(a))
      BY <2>4, FS_CardinalityType
    <3>2. size[a] = v
      BY <1>1, <2>2, <3>1
    <3>3. Cardinality(All(T \cup {a})) = u + v
      BY <2>3, <2>6, <3>1
    <3>4. SumFunctionOnSet(size, T \cup {a}) = v + u
      BY <2>1, <2>7, <3>1, <3>2
    <3> QED BY <3>1, <3>3, <3>4
  <2> QED BY <2>8 DEF Good
<1>4. K \in Good
  <2> HIDE DEF Good
  <2> QED BY <1>2, <1>3, FiniteSetInduction
<1>5. All(K) = D
  OBVIOUS
<1> QED BY <1>4, <1>5

LEMMA InOrderIs ==
  ASSUME NEW S, IsFiniteSet(S), S \subseteq Int
  PROVE  /\ IsSequence(InOrder(S)) /\ Len(InOrder(S)) = Cardinality(S)
         /\ DOMAIN InOrder(S) = 1 .. Cardinality(S)
         /\ Range(InOrder(S)) = S /\ IsInjective(InOrder(S))
<1> DEFINE N == Cardinality(S)
           Below(x) == {y \in S : y < x}
           rank == [x \in S |-> Cardinality(Below(x)) + 1]
           s == InOrder(S)
<1>1. N \in Nat /\ \A T \in SUBSET S : /\ IsFiniteSet(T) /\ Cardinality(T) \in Nat /\ Cardinality(T) =< N
                                       /\ Cardinality(T) = N => T = S
  BY FS_Subset, FS_CardinalityType
<1>2. ASSUME NEW x \in S
      PROVE  Cardinality(Below(x)) \in 0 .. N - 1
  <2>1. Below(x) \in SUBSET S /\ x \notin Below(x)
    OBVIOUS
  <2> HIDE DEF Below, N
  <2> QED BY <1>1, <2>1
<1>3. ASSUME NEW x \in S, NEW y \in S, x < y
      PROVE  Cardinality(Below(x)) # Cardinality(Below(y))
  <2>1. Below(x) \in SUBSET Below(y) /\ x \in Below(y) /\ x \notin Below(x) /\ Below(y) \in SUBSET S
    <3>1. \A z \in S : z < x => z < y
      BY <1>3
    <3>2. ~(x < x)
      OBVIOUS
    <3> QED BY <1>3, <3>1, <3>2
  <2> HIDE DEF Below, N
  <2> QED BY <1>1, <2>1, FS_Subset
<1>4. \A x, y \in S : Cardinality(Below(x)) = Cardinality(Below(y)) => x = y
  <2> HIDE DEF Below
  <2> TAKE x, y \in S
  <2>1. x < y \/ y < x \/ x = y
    OBVIOUS
  <2> QED BY <1>3, <2>1
<1>5. rank \in Surjection(S, 1 .. N)
  <2>1. rank \in Injection(S, 1 .. N)
    <3>1. \A x \in S : rank[x] \in 1 .. N /\ rank[x] - 1 = Cardinality(Below(x))
      BY <1>1, <1>2
    <3>2. \A x, y \in S : rank[x] = rank[y] => x = y
      BY <1>4, <3>1
    <3> QED BY <3>1, <3>2 DEF Injection, IsInjective
  <2>2. IsFiniteSet(1 .. N) /\ Cardinality(1 .. N) = N
    BY <1>1, FS_Interval
  <2> HIDE DEF rank
  <2> QED BY <2>1, <2>2, FS_Injection
<1>6. \A n \in 1 .. N : \E x \in S : Cardinality(Below(x)) = n - 1
  <2> TAKE n \in 1 .. N
  <2>1. PICK x \in S : rank[x] = n
    BY <1>5 DEF Surjection
  <2> QED BY <1>2, <2>1
<1>7. DOMAIN s = 1 .. N /\ \A n \in 1 .. N : s[n] = CHOOSE x \in S : Cardinality(Below(x)) = n - 1
  BY DEF InOrder
<1>8. \A n \in 1 .. N : s[n] \in S /\ Cardinality(Below(s[n])) = n - 1
  <2> HIDE DEF Below, s, N
  <2> QED BY <1>6, <1>7
<1>9. s = [n \in 1 .. N |-> s[n]]
  <2>1. PICK t : t = [n \in 1 .. N |-> CHOOSE x \in S : Cardinality(Below(x)) = n - 1]
    OBVIOUS
  <2>2. s = t
    BY <2>1 DEF InOrder
  <2> HIDE DEF s, N, Below
  <2> QED BY <2>1, <2>2
<1> HIDE DEF Below, s, N
<1>10. s \in Seq(S) /\ Len(s) = N
  BY <1>1, <1>8, <1>9
<1>11. S \subseteq Range(s)
  <2> SUFFICES ASSUME NEW x \in S
               PROVE  x \in Range(s)
    OBVIOUS
  <2>1. PICK n \in 1 .. N : Cardinality(Below(x)) = n - 1
    <3>1. Cardinality(Below(x)) + 1 \in 1 .. N
      BY <1>1, <1>2
    <3> QED BY <1>2, <3>1
  <2>2. s[n] = x
    BY <1>4, <1>8, <2>1
  <2> QED BY <1>7, <2>2 DEF Range
<1>12. Range(s) \subseteq S
  BY <1>7, <1>8 DEF Range
<1>13. IsInjective(s)
  <2>1. ASSUME NEW m \in 1 .. N, NEW n \in 1 .. N, s[m] = s[n]
        PROVE  m = n
    <3>1. m - 1 = n - 1
      BY <1>8, <2>1
    <3> QED BY <3>1
  <2> QED BY <1>7, <2>1 DEF IsInjective
<1> QED BY <1>7, <1>10, <1>11, <1>12, <1>13, SequenceIs DEF s, N
-----------------------------------------------------------------------------
(* Copies *)

LEMMA CopiesAre ==
  ASSUME NEW s, IsSequence(s)
  PROVE  \A x : Copies(s, x) \in Nat /\ (Copies(s, x) = 0 <=> x \notin Range(s))
<1>1. PICK L \in Nat : DOMAIN s = 1 .. L
  BY DEF IsSequence
<1>2. IsFiniteSet(DOMAIN s)
  BY <1>1, FS_Interval
<1> TAKE x
<1> DEFINE at == {m \in DOMAIN s : s[m] = x}
<1>3. at \in SUBSET DOMAIN s /\ (at = {} <=> x \notin Range(s))
  BY DEF Range
<1>4. Copies(s, x) = Cardinality(at)
  BY DEF Copies
<1> HIDE DEF at
<1>5. IsFiniteSet(at)
  BY <1>2, <1>3, FS_Subset
<1> QED BY <1>3, <1>4, <1>5, FS_CardinalityType, FS_EmptySet

LEMMA CopiesJoined ==
  ASSUME NEW s, IsSequence(s), NEW t, IsSequence(t)
  PROVE  /\ IsSequence(s \o t) /\ Len(s \o t) = Len(s) + Len(t)
         /\ \A x : Copies(s \o t, x) = Copies(s, x) + Copies(t, x)
<1>1. PICK M \in Nat, N \in Nat : M = Len(s) /\ N = Len(t)
  BY DEF IsSequence
<1>2. PICK f : f = s \o t
  OBVIOUS
<1>3. /\ f \in Seq({s[n] : n \in DOMAIN s} \cup {t[n] : n \in DOMAIN t})
      /\ Len(f) = M + N /\ DOMAIN f = 1 .. M + N /\ DOMAIN s = 1 .. M /\ DOMAIN t = 1 .. N
      /\ \A n \in 1 .. M : f[n] = s[n]
      /\ \A n \in 1 .. M + N : n > M => f[n] = t[n - M]
  <2>1. PICK T : s \in Seq(T) /\ t \in Seq(T) /\ T = {s[n] : n \in DOMAIN s} \cup {t[n] : n \in DOMAIN t}
    <3>1. PICK U, V : /\ U = {s[n] : n \in DOMAIN s} /\ V = {t[n] : n \in DOMAIN t}
                      /\ s \in Seq(U) /\ t \in Seq(V)
      BY DEF IsSequence
    <3>2. s \in Seq(U \cup V) /\ t \in Seq(U \cup V)
      BY <3>1
    <3> QED BY <3>1, <3>2
  <2> QED BY <1>1, <1>2, <2>1
<1>4. IsSequence(f)
  BY <1>3, SequenceIs
<1>5. ASSUME NEW x
      PROVE  Copies(f, x) = Copies(s, x) + Copies(t, x)
  <2> DEFINE A == {n \in 1 .. M : s[n] = x}
             B == {n \in 1 .. N : t[n] = x}
             C == {n + M : n \in B}
             All == {n \in 1 .. M + N : f[n] = x}
  <2>1. IsFiniteSet(A) /\ IsFiniteSet(B) /\ B \subseteq Int
    <3>1. A \in SUBSET (1 .. M) /\ B \in SUBSET (1 .. N)
      OBVIOUS
    <3>2. IsFiniteSet(1 .. M) /\ IsFiniteSet(1 .. N) /\ 1 .. N \subseteq Int
      BY FS_Interval
    <3> HIDE DEF A, B
    <3> QED BY <3>1, <3>2, FS_Subset
  <2>2. IsFiniteSet(C) /\ Cardinality(C) = Cardinality(B)
    <3> HIDE DEF B
    <3>1. M \in Int
      BY <1>1
    <3> QED BY <2>1, <3>1, Shifted
  <2>3. All = A \cup C /\ A \cap C = {}
    <3>1. ASSUME NEW n \in All
          PROVE  n \in A \cup C
      <4>1. CASE n \in 1 .. M
        BY <1>3, <3>1, <4>1
      <4>2. CASE n > M
        <5>1. n - M \in 1 .. N /\ (n - M) + M = n /\ t[n - M] = x
          BY <1>3, <3>1, <4>2
        <5> QED BY <5>1
      <4>3. n \in 1 .. M \/ n > M
        BY <3>1
      <4> QED BY <4>1, <4>2, <4>3
    <3>2. A \subseteq All
      BY <1>3
    <3>3. ASSUME NEW n \in B
          PROVE  n + M \in All /\ n + M \notin A
      <4>1. n + M \in 1 .. M + N /\ n + M > M /\ (n + M) - M = n /\ n + M \notin 1 .. M
        BY <3>3
      <4> QED BY <1>3, <3>3, <4>1
    <3> QED BY <3>1, <3>2, <3>3
  <2>4. Copies(f, x) = Cardinality(All) /\ Copies(s, x) = Cardinality(A) /\ Copies(t, x) = Cardinality(B)
    BY <1>3 DEF Copies
  <2> HIDE DEF A, B, C, All
  <2>5. Cardinality(A \cup C) = Cardinality(A) + Cardinality(C) - Cardinality({})
    BY <2>1, <2>2, <2>3, FS_Union
  <2>6. PICK u \in Nat, v \in Nat : u = Cardinality(A) /\ v = Cardinality(C)
    BY <2>1, <2>2, FS_CardinalityType
  <2>7. Cardinality(A \cup C) = u + v
    BY <2>5, <2>6, FS_EmptySet
  <2> QED BY <2>2, <2>3, <2>4, <2>6, <2>7
<1> QED BY <1>1, <1>2, <1>3, <1>4, <1>5

\* What is left of a sequence after n elements.
After(s, n) == SubSeq(s, n + 1, Len(s))

LEMMA AfterIs ==
  ASSUME NEW s, IsSequence(s)
  PROVE  /\ Len(s) \in Nat /\ After(s, 0) = s /\ After(s, Len(s)) = <<>>
         /\ \A n \in 0 .. Len(s) : IsSequence(After(s, n)) /\ Len(After(s, n)) = Len(s) - n
         /\ \A n \in 0 .. Len(s) - 1 : After(s, n) = <<s[n + 1]>> \o After(s, n + 1)
<1>1. PICK T : s \in Seq(T)
  BY DEF IsSequence
<1>2. PICK L \in Nat : L = Len(s) /\ DOMAIN s = 1 .. L
  BY <1>1
<1>3. After(s, 0) = s /\ After(s, L) = <<>>
  BY <1>1, <1>2 DEF After
<1>4. ASSUME NEW n \in 0 .. L
      PROVE  After(s, n) \in Seq(T) /\ Len(After(s, n)) = L - n
             /\ \A m \in 1 .. L - n : After(s, n)[m] = s[n + m]
  BY <1>1, <1>2 DEF After
<1>5. ASSUME NEW n \in 0 .. L - 1
      PROVE  After(s, n) = <<s[n + 1]>> \o After(s, n + 1)
  <2>1. PICK u, v : u = After(s, n) /\ v = After(s, n + 1)
    OBVIOUS
  <2>2. PICK h \in Nat : h = L - (n + 1) /\ h + 1 = L - n
    OBVIOUS
  <2>3. n \in 0 .. L /\ n + 1 \in 0 .. L
    OBVIOUS
  <2>4. /\ u \in Seq(T) /\ Len(u) = h + 1 /\ \A m \in 1 .. h + 1 : u[m] = s[n + m]
        /\ v \in Seq(T) /\ Len(v) = h /\ \A m \in 1 .. h : v[m] = s[(n + 1) + m]
    BY <1>4, <2>1, <2>2, <2>3
  <2>5. s[n + 1] \in T
    BY <1>1, <1>2
  <2>6. PICK x \in T : x = s[n + 1]
    BY <2>5
  <2>7. PICK w : w = <<x>> \o v
    OBVIOUS
  <2>8. /\ w \in Seq(T) /\ Len(w) = h + 1 /\ w[1] = x
        /\ \A m \in 2 .. h + 1 : w[m] = v[m - 1]
    BY <2>4, <2>6, <2>7
  <2>9. ASSUME NEW m \in 1 .. h + 1
        PROVE  u[m] = w[m]
    <3>1. CASE m = 1
      BY <2>4, <2>6, <2>8, <3>1
    <3>2. CASE m # 1
      <4>1. m \in 2 .. h + 1 /\ m - 1 \in 1 .. h /\ (n + 1) + (m - 1) = n + m
        BY <2>9, <3>2
      <4>2. w[m] = v[m - 1] /\ v[m - 1] = s[(n + 1) + (m - 1)] /\ u[m] = s[n + m]
        BY <2>4, <2>8, <4>1
      <4> QED BY <4>1, <4>2
    <3> QED BY <3>1, <3>2
  <2>10. u = w
    <3>1. u = [m \in 1 .. h + 1 |-> u[m]] /\ w = [m \in 1 .. h + 1 |-> w[m]]
      BY <2>4, <2>8
    <3>2. [m \in 1 .. h + 1 |-> u[m]] = [m \in 1 .. h + 1 |-> w[m]]
      BY <2>9
    <3> QED BY <3>1, <3>2
  <2> QED BY <2>1, <2>6, <2>7, <2>10
<1> QED BY <1>2, <1>3, <1>4, <1>5, SequenceIs
-----------------------------------------------------------------------------
(* Merging *)

\* The body of the recursion of Merged.
MergeRest(x, y, rest, p) ==
  LET l == p[1] + 1  r == p[2] + 1
  IN  CASE l > Len(x) -> SubSeq(y, r, Len(y))
        [] r > Len(y) -> SubSeq(x, l, Len(x))
        [] OTHER -> IF Less(x[l], y[r])
                    THEN <<x[l]>> \o rest[<<l, p[2]>>]
                    ELSE <<y[r]>> \o rest[<<p[1], r>>]

ToMerge(x, y, p) == (Len(x) - p[1]) + (Len(y) - p[2])

\* Where at most n elements are left to be merged.
MergesFrom(x, y, n) ==
  {p \in (0 .. Len(x)) \X (0 .. Len(y)) : ToMerge(x, y, p) =< n}

Merges(x, y, n, rest) == rest = [p \in MergesFrom(x, y, n) |-> MergeRest(x, y, rest, p)]

LEMMA MergesNext ==
  ASSUME NEW x, IsSequence(x), NEW y, IsSequence(y), NEW n \in Nat,
         NEW rest, Merges(x, y, n, rest)
  PROVE  \E next : Merges(x, y, n + 1, next)
<1> DEFINE D == MergesFrom(x, y, n)
           E == MergesFrom(x, y, n + 1)
           next == [p \in E |-> IF p \in D THEN rest[p] ELSE MergeRest(x, y, rest, p)]
<1>1. PICK X \in Nat, Y \in Nat : X = Len(x) /\ Y = Len(y)
  BY DEF IsSequence
<1>2. /\ D = {p \in (0 .. X) \X (0 .. Y) : (X - p[1]) + (Y - p[2]) =< n}
      /\ E = {p \in (0 .. X) \X (0 .. Y) : (X - p[1]) + (Y - p[2]) =< n + 1}
  BY <1>1 DEF MergesFrom, ToMerge
<1>3. D \subseteq E
  BY <1>2
<1>4. \A p \in D : next[p] = rest[p] /\ rest[p] = MergeRest(x, y, rest, p)
  BY <1>3 DEF Merges
<1>5. ASSUME NEW p \in E
      PROVE  MergeRest(x, y, next, p) = MergeRest(x, y, rest, p)
  <2>1. PICK a \in 0 .. X, b \in 0 .. Y : p = <<a, b>> /\ (X - a) + (Y - b) =< n + 1
    BY <1>2
  <2>2. a + 1 =< X => <<a + 1, b>> \in D
    BY <1>2, <2>1
  <2>3. b + 1 =< Y => <<a, b + 1>> \in D
    BY <1>2, <2>1
  <2>4. /\ a + 1 =< X => next[<<a + 1, b>>] = rest[<<a + 1, b>>]
        /\ b + 1 =< Y => next[<<a, b + 1>>] = rest[<<a, b + 1>>]
    BY <1>4, <2>2, <2>3
  <2> HIDE DEF next, D, E
  <2>5. p[1] = a /\ p[2] = b
    BY <2>1
  <2>6. CASE a + 1 > X
    BY <1>1, <2>5, <2>6 DEF MergeRest
  <2>7. CASE a + 1 =< X /\ b + 1 > Y
    <3>1. ~(a + 1 > X) /\ b + 1 > Y
      BY <2>1, <2>7
    <3> QED BY <1>1, <2>5, <3>1, Zenon DEF MergeRest
  <2>8. CASE a + 1 =< X /\ b + 1 =< Y
    <3>1. ~(a + 1 > X) /\ ~(b + 1 > Y)
      BY <1>1, <2>1, <2>8
    <3> QED BY <1>1, <2>4, <2>5, <2>8, <3>1 DEF MergeRest
  <2> QED BY <2>1, <2>6, <2>7, <2>8
<1>6. next = [p \in E |-> MergeRest(x, y, next, p)]
  <2>1. \A p \in E : next[p] = MergeRest(x, y, next, p)
    BY <1>4, <1>5
  <2>2. next = [p \in E |-> next[p]]
    OBVIOUS
  <2> HIDE DEF next, D, E
  <2> QED BY <2>1, <2>2
<1> HIDE DEF next
<1> QED BY <1>6 DEF Merges

LEMMA MergesExist ==
  ASSUME NEW x, IsSequence(x), NEW y, IsSequence(y), NEW N \in Nat
  PROVE  \E rest : Merges(x, y, N, rest)
<1> DEFINE Without == {n \in Nat : ~ \E rest : Merges(x, y, n, rest)}
<1> SUFFICES ASSUME Without # {}
             PROVE  FALSE
  OBVIOUS
<1>1. PICK n \in Without : \A m \in Without : n =< m
  <2>1. Without \in SUBSET Nat
    OBVIOUS
  <2> HIDE DEF Without
  <2> QED BY <2>1, Smallest
<1>2. n # 0
  <2> SUFFICES ASSUME n = 0
               PROVE  FALSE
    OBVIOUS
  <2>1. PICK X \in Nat, Y \in Nat : X = Len(x) /\ Y = Len(y)
    BY DEF IsSequence
  <2> DEFINE rest == [p \in MergesFrom(x, y, 0) |-> <<>>]
  <2>2. MergesFrom(x, y, 0) = {<<X, Y>>}
    BY <2>1 DEF MergesFrom, ToMerge
  <2>3. ASSUME NEW f, NEW p, p = <<X, Y>>
        PROVE  MergeRest(x, y, f, p) = SubSeq(y, Y + 1, Y)
    <3>1. p[1] = X /\ p[2] = Y /\ X + 1 > X
      BY <2>3
    <3> QED BY <2>1, <3>1 DEF MergeRest
  <2>4. SubSeq(y, Y + 1, Y) = <<>>
    <3>1. After(y, Len(y)) = <<>>
      BY AfterIs
    <3> QED BY <2>1, <3>1 DEF After
  <2>5. \A p \in MergesFrom(x, y, 0) : MergeRest(x, y, rest, p) = <<>>
    <3> HIDE DEF rest
    <3> QED BY <2>2, <2>3, <2>4
  <2>6. Merges(x, y, 0, rest)
    BY <2>5 DEF Merges
  <2> QED BY <2>6
<1>3. PICK h \in Nat : n = h + 1
  <2>1. n - 1 \in Nat /\ n = (n - 1) + 1
    BY <1>2
  <2> QED BY <2>1
<1>4. h \notin Without
  <2> HIDE DEF Without
  <2> QED BY <1>1, <1>3
<1>5. PICK rest : Merges(x, y, h, rest)
  BY <1>3, <1>4
<1> QED BY <1>3, <1>5, MergesNext

\* f has what is left of x and y from p on.
Merging(x, y, p, f) ==
  /\ IsSequence(f) /\ Len(f) = ToMerge(x, y, p)
  /\ \A h : Copies(f, h) = Copies(After(x, p[1]), h) + Copies(After(y, p[2]), h)

LEMMA MergesRight ==
  ASSUME NEW x, IsSequence(x), NEW y, IsSequence(y), NEW N \in Nat, NEW rest, Merges(x, y, N, rest)
  PROVE  \A p \in MergesFrom(x, y, N) : Merging(x, y, p, rest[p])
<1> DEFINE D == MergesFrom(x, y, N)
           Bad == {n \in Nat : \E p \in D : ToMerge(x, y, p) = n /\ ~Merging(x, y, p, rest[p])}
<1>1. PICK X \in Nat, Y \in Nat : X = Len(x) /\ Y = Len(y)
  BY DEF IsSequence
<1>2. D = {p \in (0 .. X) \X (0 .. Y) : (X - p[1]) + (Y - p[2]) =< N}
  BY <1>1 DEF MergesFrom, ToMerge
<1>3. \A p \in D : ToMerge(x, y, p) \in Nat
  BY <1>1, <1>2 DEF ToMerge
<1> SUFFICES ASSUME Bad # {}
             PROVE  FALSE
  BY <1>3
<1>4. PICK n \in Bad : \A m \in Bad : n =< m
  <2>1. Bad \in SUBSET Nat
    OBVIOUS
  <2> HIDE DEF Bad
  <2> QED BY <2>1, Smallest
<1>5. PICK p \in D : ToMerge(x, y, p) = n /\ ~Merging(x, y, p, rest[p])
  BY <1>4
<1>6. PICK a \in 0 .. X, b \in 0 .. Y : p = <<a, b>> /\ n = (X - a) + (Y - b) /\ n =< N
  <2>1. PICK a \in 0 .. X, b \in 0 .. Y : p = <<a, b>>
    BY <1>2
  <2>2. p[1] = a /\ p[2] = b /\ (X - p[1]) + (Y - p[2]) =< N
    BY <1>2, <2>1
  <2>3. n = (X - p[1]) + (Y - p[2])
    BY <1>1, <1>5 DEF ToMerge
  <2> QED BY <2>1, <2>2, <2>3
<1>7. ASSUME NEW q \in D, ToMerge(x, y, q) = n - 1, n # 0
      PROVE  Merging(x, y, q, rest[q])
  <2>1. n - 1 \in Nat /\ ~(n =< n - 1)
    BY <1>4, <1>7
  <2>2. n - 1 \notin Bad
    <3> HIDE DEF Bad
    <3> QED BY <1>4, <2>1
  <2> QED BY <1>7, <2>1, <2>2
<1> HIDE DEF Bad
<1>8. PICK f : f = rest[p] /\ f = MergeRest(x, y, rest, p) /\ ~Merging(x, y, p, f)
  <2>1. rest[p] = MergeRest(x, y, rest, p)
    BY DEF Merges
  <2> QED BY <1>5, <2>1
<1>17. /\ After(x, 0) = x /\ After(x, X) = <<>>
       /\ \A m \in 0 .. X : IsSequence(After(x, m)) /\ Len(After(x, m)) = X - m
       /\ \A m \in 0 .. X - 1 : After(x, m) = <<x[m + 1]>> \o After(x, m + 1)
  BY <1>1, AfterIs
<1>18. /\ After(y, 0) = y /\ After(y, Y) = <<>>
       /\ \A m \in 0 .. Y : IsSequence(After(y, m)) /\ Len(After(y, m)) = Y - m
       /\ \A m \in 0 .. Y - 1 : After(y, m) = <<y[m + 1]>> \o After(y, m + 1)
  BY <1>1, AfterIs
<1>9. /\ p[1] = a /\ p[2] = b /\ a \in Nat /\ b \in Nat
      /\ After(x, 0) = x /\ After(x, X) = <<>> /\ After(y, Y) = <<>>
      /\ IsSequence(After(x, a)) /\ Len(After(x, a)) = X - a
      /\ IsSequence(After(y, b)) /\ Len(After(y, b)) = Y - b
  BY <1>1, <1>6, <1>17, <1>18
<1>10. \A h : Copies(<<>>, h) = 0
  <2>1. IsSequence(<<>>) /\ Range(<<>>) = {}
    BY DEF IsSequence, Range
  <2> QED BY <2>1, CopiesAre
<1>11. \A h : Copies(After(x, a), h) \in Nat /\ Copies(After(y, b), h) \in Nat
  BY <1>9, CopiesAre
<1>12. a # X /\ b # Y
  <2>1. CASE a = X
    <3>2. p[1] + 1 > Len(x)
      BY <1>1, <1>9, <2>1
    <3>1. f = After(y, b)
      <4>1. CASE b = Y
        <5>1. f = After(x, a) \/ f = After(y, b)
          BY <1>1, <1>8, <1>9, <3>2 DEF MergeRest, After
        <5> QED BY <1>9, <2>1, <4>1, <5>1
      <4>2. CASE b # Y
        <5>1. ~(b + 1 > Y)
          BY <1>6, <4>2
        <5> QED BY <1>1, <1>8, <1>9, <3>2, <5>1 DEF MergeRest, After
      <4> QED BY <4>1, <4>2
    <3> QED BY <1>1, <1>8, <1>9, <1>10, <1>11, <2>1, <3>1 DEF Merging, ToMerge
  <2>2. CASE a # X /\ b = Y
    <3>1. ~(a + 1 > X) /\ b + 1 > Y
      BY <1>6, <2>2
    <3>2. f = After(x, a)
      BY <1>1, <1>8, <1>9, <3>1 DEF MergeRest, After
    <3> QED BY <1>1, <1>8, <1>9, <1>10, <1>11, <2>2, <3>2 DEF Merging, ToMerge
  <2> QED BY <2>1, <2>2
<1>13. ~(a + 1 > X) /\ ~(b + 1 > Y) /\ a \in 0 .. X - 1 /\ b \in 0 .. Y - 1 /\ n # 0
  BY <1>6, <1>12
<1>14. ASSUME NEW s, IsSequence(s), NEW v
       PROVE  /\ IsSequence(<<v>> \o s) /\ Len(<<v>> \o s) = Len(s) + 1
              /\ \A h : Copies(<<v>> \o s, h) = Copies(<<v>>, h) + Copies(s, h)
                        /\ Copies(<<v>>, h) \in Nat /\ Copies(s, h) \in Nat
  <2>1. IsSequence(<<v>>) /\ Len(<<v>>) = 1 /\ Len(s) \in Nat
    <3>1. <<v>> \in Seq({v})
      OBVIOUS
    <3> QED BY <1>14, <3>1, SequenceIs DEF IsSequence
  <2> QED BY <1>14, <2>1, CopiesJoined, CopiesAre
<1>15. CASE Less(x[a + 1], y[b + 1])
  <2> DEFINE q == <<a + 1, b>>
  <2>1. q \in D /\ q[1] = a + 1 /\ q[2] = b /\ ToMerge(x, y, q) = n - 1
    <3>1. q \in (0 .. X) \X (0 .. Y) /\ q[1] = a + 1 /\ q[2] = b
      BY <1>6, <1>13
    <3>2. (X - q[1]) + (Y - q[2]) = n - 1
      BY <1>6, <3>1
    <3>3. n - 1 =< N
      BY <1>6
    <3>4. ToMerge(x, y, q) = n - 1
      BY <1>1, <3>2 DEF ToMerge
    <3> QED BY <1>2, <3>1, <3>2, <3>3, <3>4
  <2>2. f = <<x[a + 1]>> \o rest[q]
    BY <1>1, <1>8, <1>9, <1>13, <1>15 DEF MergeRest
  <2> HIDE DEF q
  <2>3. PICK g : g = rest[q] /\ Merging(x, y, q, g)
    BY <1>7, <1>13, <2>1
  <2>4. /\ After(x, a) = <<x[a + 1]>> \o After(x, a + 1) /\ IsSequence(After(x, a + 1))
    <3>1. a + 1 \in 0 .. Len(x)
      BY <1>1, <1>13
    <3> QED BY <1>1, <1>13, <1>17, <3>1
  <2>5. IsSequence(g) /\ Len(g) = n - 1
    BY <2>1, <2>3 DEF Merging
  <2>6. IsSequence(f) /\ Len(f) = n
    <3>1. IsSequence(f) /\ Len(f) = (n - 1) + 1
      BY <1>14, <2>2, <2>3, <2>5
    <3>2. n \in Nat
      BY <1>6, <1>9
    <3> QED BY <3>1, <3>2
  <2>7. ASSUME NEW h
        PROVE  Copies(f, h) = Copies(After(x, a), h) + Copies(After(y, b), h)
    <3>1. Copies(g, h) = Copies(After(x, a + 1), h) + Copies(After(y, b), h)
      BY <2>1, <2>3 DEF Merging
    <3>2. PICK u \in Nat, v \in Nat, w \in Nat :
            /\ u = Copies(<<x[a + 1]>>, h) /\ v = Copies(After(x, a + 1), h)
            /\ w = Copies(After(y, b), h) /\ Copies(After(x, a), h) = u + v
      BY <1>11, <1>14, <2>4
    <3>3. Copies(f, h) = u + Copies(g, h)
      BY <1>14, <2>2, <2>3, <2>5, <3>2
    <3> QED BY <3>1, <3>2, <3>3
  <2>8. Merging(x, y, p, f)
    BY <1>5, <1>9, <2>6, <2>7 DEF Merging
  <2> QED BY <1>8, <2>8
<1>16. CASE ~Less(x[a + 1], y[b + 1])
  <2> DEFINE q == <<a, b + 1>>
  <2>1. q \in D /\ q[1] = a /\ q[2] = b + 1 /\ ToMerge(x, y, q) = n - 1
    <3>1. q \in (0 .. X) \X (0 .. Y) /\ q[1] = a /\ q[2] = b + 1
      BY <1>6, <1>13
    <3>2. (X - q[1]) + (Y - q[2]) = n - 1
      BY <1>6, <3>1
    <3>3. n - 1 =< N
      BY <1>6
    <3>4. ToMerge(x, y, q) = n - 1
      BY <1>1, <3>2 DEF ToMerge
    <3> QED BY <1>2, <3>1, <3>2, <3>3, <3>4
  <2>2. f = <<y[b + 1]>> \o rest[q]
    BY <1>1, <1>8, <1>9, <1>13, <1>16 DEF MergeRest
  <2> HIDE DEF q
  <2>3. PICK g : g = rest[q] /\ Merging(x, y, q, g)
    BY <1>7, <1>13, <2>1
  <2>4. /\ After(y, b) = <<y[b + 1]>> \o After(y, b + 1) /\ IsSequence(After(y, b + 1))
    <3>1. b + 1 \in 0 .. Len(y)
      BY <1>1, <1>13
    <3> QED BY <1>1, <1>13, <1>18, <3>1
  <2>5. IsSequence(g) /\ Len(g) = n - 1
    BY <2>1, <2>3 DEF Merging
  <2>6. IsSequence(f) /\ Len(f) = n
    <3>1. IsSequence(f) /\ Len(f) = (n - 1) + 1
      BY <1>14, <2>2, <2>3, <2>5
    <3>2. n \in Nat
      BY <1>6, <1>9
    <3> QED BY <3>1, <3>2
  <2>7. ASSUME NEW h
        PROVE  Copies(f, h) = Copies(After(x, a), h) + Copies(After(y, b), h)
    <3>1. Copies(g, h) = Copies(After(x, a), h) + Copies(After(y, b + 1), h)
      BY <2>1, <2>3 DEF Merging
    <3>2. PICK u \in Nat, v \in Nat, w \in Nat :
            /\ u = Copies(<<y[b + 1]>>, h) /\ v = Copies(After(y, b + 1), h)
            /\ w = Copies(After(x, a), h) /\ Copies(After(y, b), h) = u + v
      BY <1>11, <1>14, <2>4
    <3>3. Copies(f, h) = u + Copies(g, h)
      BY <1>14, <2>2, <2>3, <2>5, <3>2
    <3> QED BY <3>1, <3>2, <3>3
  <2>8. Merging(x, y, p, f)
    BY <1>5, <1>9, <2>6, <2>7 DEF Merging
  <2> QED BY <1>8, <2>8
<1> QED BY <1>15, <1>16

\* Merged sequences hold what the two held.
LEMMA MergedIs ==
  ASSUME NEW x, IsSequence(x), NEW y, IsSequence(y)
  PROVE  /\ IsSequence(Merged(x, y)) /\ Len(Merged(x, y)) = Len(x) + Len(y)
         /\ \A h : Copies(Merged(x, y), h) = Copies(x, h) + Copies(y, h)
<1> DEFINE own == CHOOSE rest : rest = [p \in (0 .. Len(x)) \X (0 .. Len(y)) |->
                                          MergeRest(x, y, rest, p)]
<1>1. PICK X \in Nat, Y \in Nat : X = Len(x) /\ Y = Len(y)
  BY DEF IsSequence
<1>2. Merged(x, y) = own[<<0, 0>>]
  BY DEF Merged, MergeRest
<1>3. MergesFrom(x, y, X + Y) = (0 .. Len(x)) \X (0 .. Len(y))
  BY <1>1 DEF MergesFrom, ToMerge
<1>4. Merges(x, y, X + Y, own)
  <2>1. \E rest : Merges(x, y, X + Y, rest)
    BY <1>1, MergesExist
  <2> QED BY <1>3, <2>1 DEF Merges
<1> HIDE DEF own
<1>5. Merging(x, y, <<0, 0>>, own[<<0, 0>>])
  <2>1. <<0, 0>> \in MergesFrom(x, y, X + Y) /\ X + Y \in Nat
    BY <1>1, <1>3
  <2> QED BY <1>4, <2>1, MergesRight
<1>6. After(x, 0) = x /\ After(y, 0) = y
  BY AfterIs
<1> QED BY <1>1, <1>2, <1>5, <1>6 DEF Merging, ToMerge
-----------------------------------------------------------------------------
(* The operators of TreeClosure *)

\* The numbers and sums of TreeClosure are those of the search.
LEMMA ClosureNumbers ==
  /\ \A x, y : /\ Closure!Times(x, y) = Times(x, y) /\ Closure!Over(x, y) = Over(x, y)
               /\ Closure!AtMost(x, y) = AtMost(x, y)
  /\ \A n : Closure!Whole(n) = Whole(n)
<1>1. \A x, y : Closure!Times(x, y) = Times(x, y)
  BY DEF Closure!Times, Times, Closure!Number, Number, Closure!gcd, gcd,
         Closure!Magnitude, Magnitude
<1>2. \A x : Closure!Reciprocal(x) = Reciprocal(x)
  BY DEF Closure!Reciprocal, Reciprocal, Closure!Number, Number, Closure!gcd, gcd,
         Closure!Magnitude, Magnitude
<1>3. \A x, y : Closure!Over(x, y) = Over(x, y)
  BY <1>1, <1>2 DEF Closure!Over, Over
<1>4. \A x, y : Closure!Plus(x, y) = Plus(x, y)
  BY DEF Closure!Plus, Plus, Closure!Number, Number, Closure!gcd, gcd,
         Closure!Magnitude, Magnitude
<1>5. \A x, y : Closure!AtMost(x, y) = AtMost(x, y)
  BY <1>4 DEF Closure!AtMost, AtMost, Closure!Less, Less, Closure!Minus, Minus,
              Closure!Positive, Positive
<1>6. \A n : Closure!Whole(n) = Whole(n)
  BY DEF Closure!Whole, Whole
<1> QED BY <1>1, <1>3, <1>5, <1>6

LEMMA ClosureSums ==
  \A f, S : Closure!SumFunctionOnSet(f, S) = SumFunctionOnSet(f, S)
BY DEF Closure!SumFunctionOnSet, SumFunctionOnSet, Closure!FoldFunctionOnSet,
       FoldFunctionOnSet, Closure!MapThenFoldSet, MapThenFoldSet

LEMMA ClosureBags ==
  \A b, c : Closure!(+)(b, c) =
              [x \in DOMAIN b \cup DOMAIN c |->
                 (IF x \in DOMAIN b THEN b[x] ELSE 0) + (IF x \in DOMAIN c THEN c[x] ELSE 0)]
BY DEF Closure!(+)
-----------------------------------------------------------------------------
(* Leaves *)

\* No two labels are of one ratio.
LabelsApart ==
  \A l, m \in DOMAIN labels : labels[l].ratio_index = labels[m].ratio_index => l = m

LEMMA LeafBagIs ==
  ASSUME LabelsApart, NEW f
  PROVE  /\ \A l \in DOMAIN labels : \A h \in Range(f[l]) :
              /\ <<labels[l].ratio_index, h>> \in DOMAIN LeafBag(f)
              /\ LeafBag(f)[<<labels[l].ratio_index, h>>] = Copies(f[l], h)
         /\ \A x \in DOMAIN LeafBag(f) : \E l \in DOMAIN labels : \E h \in Range(f[l]) :
              x = <<labels[l].ratio_index, h>>
<1> DEFINE kinds == UNION {{<<labels[l].ratio_index, h>> : h \in Range(f[l])} : l \in DOMAIN labels}
<1>1. /\ DOMAIN LeafBag(f) = kinds
      /\ \A x \in kinds : LeafBag(f)[x] = Copies(f[LabelOf(x[1])], x[2])
  BY DEF LeafBag
<1>2. \A l \in DOMAIN labels : LabelOf(labels[l].ratio_index) = l
  BY DEF LabelsApart, LabelOf
<1>3. ASSUME NEW l \in DOMAIN labels, NEW h \in Range(f[l])
      PROVE  /\ <<labels[l].ratio_index, h>> \in DOMAIN LeafBag(f)
             /\ LeafBag(f)[<<labels[l].ratio_index, h>>] = Copies(f[l], h)
  <2>1. PICK r, x : r = labels[l].ratio_index /\ x = <<r, h>>
    OBVIOUS
  <2>2. x[1] = r /\ x[2] = h
    BY <2>1
  <2>3. x \in kinds
    BY <2>1
  <2> HIDE DEF kinds
  <2> QED BY <1>1, <1>2, <2>1, <2>2, <2>3
<1> QED BY <1>1, <1>3

\* A bag b with the elements S that counts as LeafBag does.
CountsLeaves(f, S, b) ==
  /\ \A l \in DOMAIN labels : \A h \in Range(f[l]) :
       /\ <<labels[l].ratio_index, h>> \in S
       /\ b[<<labels[l].ratio_index, h>>] = Copies(f[l], h)
  /\ \A x \in S : \E l \in DOMAIN labels : \E h \in Range(f[l]) : x = <<labels[l].ratio_index, h>>

LEMMA LeafBagOnly ==
  ASSUME LabelsApart, NEW f, NEW S, NEW b, CountsLeaves(f, S, b)
  PROVE  /\ LeafBag(f) = [x \in DOMAIN LeafBag(f) |-> LeafBag(f)[x]]
         /\ DOMAIN LeafBag(f) = S
         /\ \A x \in S : LeafBag(f)[x] = b[x]
<1>1. PICK B : B = LeafBag(f)
  OBVIOUS
<1>2. B = [x \in DOMAIN B |-> B[x]]
  BY <1>1 DEF LeafBag
<1>3. DOMAIN B = S
  <2>1. /\ \A l \in DOMAIN labels : \A h \in Range(f[l]) : <<labels[l].ratio_index, h>> \in DOMAIN B
        /\ \A x \in DOMAIN B : \E l \in DOMAIN labels : \E h \in Range(f[l]) : x = <<labels[l].ratio_index, h>>
    BY <1>1, LeafBagIs
  <2> QED BY <2>1 DEF CountsLeaves
<1>4. \A x \in S : b[x] = B[x]
  <2>1. \A l \in DOMAIN labels : \A h \in Range(f[l]) :
          B[<<labels[l].ratio_index, h>>] = Copies(f[l], h)
    BY <1>1, LeafBagIs
  <2> QED BY <2>1 DEF CountsLeaves
<1> QED BY <1>1, <1>2, <1>3, <1>4

\* A factor that can be divided by again.
LEMMA OverTimes ==
  ASSUME NEW x \in Reduced, NEW y \in NonZero
  PROVE  Times(x, y) \in Reduced /\ Over(Times(x, y), y) = x
<1>1. PICK z \in Reduced : z = Reciprocal(y) /\ Times(y, z) = Whole(1)
  BY ReciprocalIs
<1>2. x \in Numbers /\ y \in Numbers /\ z \in Numbers
  BY ReducedIsNumber DEF NonZero
<1>3. Over(Times(x, y), y) = Times(Times(x, y), z)
  BY <1>1 DEF Over
<1>4. Times(Times(x, y), z) = Times(x, Times(y, z))
  BY <1>2, TimesAssociative
<1>5. Times(x, Whole(1)) = x
  BY Neutral
<1>6. Times(x, y) \in Reduced
  BY <1>2, RawAre
<1> QED BY <1>1, <1>3, <1>4, <1>5, <1>6

\* Sequences of numbers in lowest terms, which scales are.
IsScales(s) == IsSequence(s) /\ \A n \in DOMAIN s : s[n] \in Reduced

LEMMA ScaledIs ==
  ASSUME NEW s, IsScales(s), NEW y \in NonZero
  PROVE  /\ IsScales(Scaled(s, y)) /\ Len(Scaled(s, y)) = Len(s)
         /\ \A v \in Range(s) : /\ v \in Reduced /\ Times(v, y) \in Range(Scaled(s, y))
                                /\ Copies(Scaled(s, y), Times(v, y)) = Copies(s, v)
         /\ \A h \in Range(Scaled(s, y)) : \E v \in Range(s) : h = Times(v, y)
<1>1. PICK L \in Nat : L = Len(s) /\ DOMAIN s = 1 .. L
  BY DEF IsScales, IsSequence
<1>2. PICK t : t = Scaled(s, y)
  OBVIOUS
<1>3. t = [n \in 1 .. L |-> t[n]] /\ DOMAIN t = 1 .. L /\ \A n \in 1 .. L : t[n] = Times(s[n], y)
  BY <1>1, <1>2 DEF Scaled
<1>4. \A n \in 1 .. L : /\ s[n] \in Reduced /\ t[n] \in Reduced /\ Over(t[n], y) = s[n]
  BY <1>1, <1>3, OverTimes DEF IsScales
<1>5. t \in Seq(Reduced) /\ Len(t) = L
  BY <1>3, <1>4
<1>6. IsScales(t)
  BY <1>3, <1>4, <1>5, SequenceIs DEF IsScales
<1>7. ASSUME NEW v \in Range(s)
      PROVE  v \in Reduced /\ Times(v, y) \in Range(t) /\ Copies(t, Times(v, y)) = Copies(s, v)
  <2>1. PICK n \in 1 .. L : s[n] = v
    BY <1>1 DEF Range
  <2>2. v \in Reduced /\ Over(Times(v, y), y) = v /\ t[n] = Times(v, y)
    BY <1>3, <1>4, <2>1
  <2>3. \A m \in 1 .. L : t[m] = Times(v, y) <=> s[m] = v
    BY <1>3, <1>4, <2>2
  <2>4. {m \in DOMAIN t : t[m] = Times(v, y)} = {m \in DOMAIN s : s[m] = v}
    BY <1>1, <1>3, <2>3
  <2> QED BY <1>3, <2>2, <2>4 DEF Copies, Range
<1>8. \A h \in Range(t) : \E v \in Range(s) : h = Times(v, y)
  BY <1>1, <1>3 DEF Range
<1> QED BY <1>1, <1>2, <1>5, <1>6, <1>7, <1>8

LEMMA ShrunkBag ==
  ASSUME LabelsApart, NEW f, \A l \in DOMAIN labels : IsScales(f[l]), NEW y \in NonZero
  PROVE  Closure!Shrunk(LeafBag(f), y) = LeafBag([l \in DOMAIN labels |-> Scaled(f[l], y)])
<1> DEFINE g == [l \in DOMAIN labels |-> Scaled(f[l], y)]
           D == {<<x[1], Times(x[2], y)>> : x \in DOMAIN LeafBag(f)}
<1>1. PICK b : b = Closure!Shrunk(LeafBag(f), y)
  OBVIOUS
<1>2. b = [leaf \in D |-> b[leaf]] /\ \A leaf \in D : b[leaf] = LeafBag(f)[<<leaf[1], Over(leaf[2], y)>>]
  BY <1>1, ClosureNumbers DEF Closure!Shrunk
<1>3. ASSUME NEW l \in DOMAIN labels, NEW h \in Range(g[l])
      PROVE  <<labels[l].ratio_index, h>> \in D
             /\ b[<<labels[l].ratio_index, h>>] = Copies(g[l], h)
  <2>1. g[l] = Scaled(f[l], y)
    OBVIOUS
  <2>2. PICK v \in Range(f[l]) : /\ h = Times(v, y) /\ v \in Reduced
                                 /\ Copies(g[l], h) = Copies(f[l], v)
    BY <1>3, <2>1, ScaledIs
  <2>3. PICK r : r = labels[l].ratio_index
    OBVIOUS
  <2>4. <<r, v>> \in DOMAIN LeafBag(f) /\ LeafBag(f)[<<r, v>>] = Copies(f[l], v)
    BY <2>2, <2>3, LeafBagIs
  <2>5. <<r, h>> \in D
    <3>1. <<r, v>>[1] = r /\ <<r, v>>[2] = v
      OBVIOUS
    <3> QED BY <2>2, <2>4, <3>1
  <2>6. <<r, h>>[1] = r /\ Over(<<r, h>>[2], y) = v
    BY <2>2, OverTimes
  <2> HIDE DEF D
  <2> QED BY <1>2, <2>2, <2>3, <2>4, <2>5, <2>6
<1>4. ASSUME NEW x \in D
      PROVE  \E l \in DOMAIN labels : \E h \in Range(g[l]) : x = <<labels[l].ratio_index, h>>
  <2>1. PICK u \in DOMAIN LeafBag(f) : x = <<u[1], Times(u[2], y)>>
    OBVIOUS
  <2>2. PICK l \in DOMAIN labels : \E v \in Range(f[l]) : u = <<labels[l].ratio_index, v>>
    BY LeafBagIs
  <2>3. PICK v \in Range(f[l]) : u = <<labels[l].ratio_index, v>>
    BY <2>2
  <2>4. Times(v, y) \in Range(g[l])
    BY <2>2, <2>3, ScaledIs
  <2>5. u[1] = labels[l].ratio_index /\ u[2] = v
    BY <2>3
  <2> QED BY <2>1, <2>4, <2>5
<1> HIDE DEF g, D
<1>a. b = [x \in D |-> b[x]]
  BY <1>2
<1>b. \A l \in DOMAIN labels : \A h \in Range(g[l]) :
        /\ <<labels[l].ratio_index, h>> \in D
        /\ b[<<labels[l].ratio_index, h>>] = Copies(g[l], h)
  BY <1>3
<1>c. \A x \in D : \E l \in DOMAIN labels : \E h \in Range(g[l]) : x = <<labels[l].ratio_index, h>>
  BY <1>4
<1>d. PICK B : B = LeafBag(g)
  OBVIOUS
<1>e. B = [x \in DOMAIN B |-> B[x]] /\ DOMAIN B = D /\ \A x \in D : B[x] = b[x]
  <2>1. CountsLeaves(g, D, b)
    BY <1>b, <1>c DEF CountsLeaves
  <2> QED BY <1>d, <2>1, LeafBagOnly
<1>5. b = LeafBag(g)
  BY <1>a, <1>d, <1>e
<1> QED BY <1>1, <1>5 DEF g

LEMMA MergedBag ==
  ASSUME LabelsApart, NEW f, NEW g, \A l \in DOMAIN labels : IsSequence(f[l]) /\ IsSequence(g[l])
  PROVE  Closure!(+)(LeafBag(f), LeafBag(g)) = LeafBag([l \in DOMAIN labels |-> Merged(f[l], g[l])])
<1> DEFINE m == [l \in DOMAIN labels |-> Merged(f[l], g[l])]
<1>1. PICK b, B, C : b = Closure!(+)(LeafBag(f), LeafBag(g)) /\ B = LeafBag(f) /\ C = LeafBag(g)
  OBVIOUS
<1>2. /\ b = [x \in DOMAIN B \cup DOMAIN C |-> b[x]]
      /\ \A x \in DOMAIN B \cup DOMAIN C :
           b[x] = (IF x \in DOMAIN B THEN B[x] ELSE 0) + (IF x \in DOMAIN C THEN C[x] ELSE 0)
  BY <1>1, ClosureBags
<1>3. ASSUME NEW l \in DOMAIN labels
      PROVE  /\ IsSequence(m[l]) /\ \A h : /\ Copies(m[l], h) = Copies(f[l], h) + Copies(g[l], h)
                                           /\ h \in Range(m[l]) <=> h \in Range(f[l]) \/ h \in Range(g[l])
                                           /\ h \notin Range(f[l]) => Copies(f[l], h) = 0
                                           /\ h \notin Range(g[l]) => Copies(g[l], h) = 0
  <2>1. PICK u, v, w : u = f[l] /\ v = g[l] /\ w = m[l] /\ w = Merged(u, v) /\ IsSequence(u) /\ IsSequence(v)
    OBVIOUS
  <2>2. IsSequence(w) /\ \A h : Copies(w, h) = Copies(u, h) + Copies(v, h)
    BY <2>1, MergedIs
  <2>3. \A h : /\ Copies(u, h) \in Nat /\ (Copies(u, h) = 0 <=> h \notin Range(u))
               /\ Copies(v, h) \in Nat /\ (Copies(v, h) = 0 <=> h \notin Range(v))
               /\ Copies(w, h) \in Nat /\ (Copies(w, h) = 0 <=> h \notin Range(w))
    BY <2>1, <2>2, CopiesAre
  <2>4. \A h : h \in Range(w) <=> h \in Range(u) \/ h \in Range(v)
    <3> TAKE h
    <3>1. PICK p \in Nat, q \in Nat : p = Copies(u, h) /\ q = Copies(v, h) /\ Copies(w, h) = p + q
      BY <2>2, <2>3
    <3>2. p + q = 0 <=> p = 0 /\ q = 0
      OBVIOUS
    <3> QED BY <2>3, <3>1, <3>2
  <2> QED BY <2>1, <2>2, <2>3, <2>4
<1> HIDE DEF m
<1>4. ASSUME NEW l \in DOMAIN labels, NEW h \in Range(m[l])
      PROVE  <<labels[l].ratio_index, h>> \in DOMAIN B \cup DOMAIN C
             /\ b[<<labels[l].ratio_index, h>>] = Copies(m[l], h)
  <2>1. PICK x : x = <<labels[l].ratio_index, h>>
    OBVIOUS
  <2>2. ASSUME NEW q, NEW Q, Q = LeafBag(q)
        PROVE  /\ h \in Range(q[l]) => x \in DOMAIN Q /\ Q[x] = Copies(q[l], h)
               /\ x \in DOMAIN Q => h \in Range(q[l])
    <3>1. h \in Range(q[l]) => x \in DOMAIN Q /\ Q[x] = Copies(q[l], h)
      BY <2>1, <2>2, LeafBagIs
    <3>2. ASSUME x \in DOMAIN Q
          PROVE  h \in Range(q[l])
      <4>1. PICK n \in DOMAIN labels : \E v \in Range(q[n]) : x = <<labels[n].ratio_index, v>>
        BY <2>2, <3>2, LeafBagIs
      <4>2. PICK v \in Range(q[n]) : x = <<labels[n].ratio_index, v>>
        BY <4>1
      <4>3. n = l /\ v = h
        BY <2>1, <4>2 DEF LabelsApart
      <4> QED BY <4>3
    <3> QED BY <3>1, <3>2
  <2>3. /\ h \in Range(f[l]) => x \in DOMAIN B /\ B[x] = Copies(f[l], h)
        /\ x \in DOMAIN B => h \in Range(f[l])
        /\ h \in Range(g[l]) => x \in DOMAIN C /\ C[x] = Copies(g[l], h)
        /\ x \in DOMAIN C => h \in Range(g[l])
    BY <1>1, <2>2
  <2>4. x \in DOMAIN B \cup DOMAIN C
    BY <1>3, <1>4, <2>3
  <2>5. b[x] = Copies(f[l], h) + Copies(g[l], h)
    BY <1>2, <1>3, <2>3, <2>4
  <2> QED BY <1>3, <2>1, <2>4, <2>5
<1>5. ASSUME NEW x \in DOMAIN B \cup DOMAIN C
      PROVE  \E l \in DOMAIN labels : \E h \in Range(m[l]) : x = <<labels[l].ratio_index, h>>
  <2>1. \/ \E l \in DOMAIN labels : \E h \in Range(f[l]) : x = <<labels[l].ratio_index, h>>
        \/ \E l \in DOMAIN labels : \E h \in Range(g[l]) : x = <<labels[l].ratio_index, h>>
    BY <1>1, LeafBagIs
  <2> QED BY <1>3, <2>1
<1>a. PICK D : D = DOMAIN B \cup DOMAIN C
  OBVIOUS
<1>b. b = [x \in D |-> b[x]]
  BY <1>2, <1>a
<1>c. \A l \in DOMAIN labels : \A h \in Range(m[l]) :
        /\ <<labels[l].ratio_index, h>> \in D
        /\ b[<<labels[l].ratio_index, h>>] = Copies(m[l], h)
  BY <1>4, <1>a
<1>d. \A x \in D : \E l \in DOMAIN labels : \E h \in Range(m[l]) : x = <<labels[l].ratio_index, h>>
  BY <1>5, <1>a
<1>6. b = LeafBag(m)
  <2>1. PICK M : M = LeafBag(m)
    OBVIOUS
  <2>2. M = [x \in DOMAIN M |-> M[x]] /\ DOMAIN M = D /\ \A x \in D : M[x] = b[x]
    <3>1. CountsLeaves(m, D, b)
      BY <1>c, <1>d DEF CountsLeaves
    <3> QED BY <2>1, <3>1, LeafBagOnly
  <2> QED BY <1>b, <2>1, <2>2
<1> QED BY <1>1, <1>6 DEF m
-----------------------------------------------------------------------------
(* The search of Group() *)

\* The vectors hold pointers to nodes, the size of trees kept by hand is its
\* length, and the loop variables are in range.
Shape ==
  /\ pc \in {"construct", "call", "group", "delete", "done"}
  /\ IsSequence(labels) /\ IsSequence(nodes)
  /\ trees \in Seq(DOMAIN nodes) /\ new_trees \in Seq(DOMAIN nodes)
  /\ new_complete_trees \in Seq(DOMAIN nodes)
  /\ \A h \in DOMAIN exists_lookup : exists_lookup[h] \in Seq(DOMAIN nodes)
  /\ trees_size = Len(trees) /\ new_trees_size \in 0 .. Len(trees)
  /\ i \in 0 .. new_trees_size /\ j \in Nat /\ k \in Nat
  /\ i < new_trees_size => j \in i .. Len(trees) - 1

\* Before Group() there are no nodes.
Fresh ==
  pc \in {"construct", "call"} =>
    /\ nodes = <<>> /\ trees = <<>> /\ new_trees = <<>> /\ new_complete_trees = <<>>
    /\ i = 0 /\ j = 0 /\ k = 0

\* The loops have been at the trees at positions p and q: in an earlier round,
\* or before i and j in this one.
Visited(p, q) ==
  \/ p =< Len(trees) - new_trees_size
  \/ Len(trees) - p < i
  \/ Len(trees) - p = i /\ Len(trees) - q < j

\* What they have been at is settled, the pair at i and j up to k.
VisitedSettled ==
  /\ \A p \in DOMAIN trees : \A q \in 1 .. p :
       Visited(p, q) => Settled(trees[p], trees[q])
  /\ InRound =>
       \A n \in 1 .. k :
         n =< SplitCount(PairWord(nodes[BaseId], nodes[OtherId])) =>
           SettledBy(BaseId, OtherId, n)

\* The inductive invariant for Saturated.
SaturationInv == Shape /\ Fresh /\ VisitedSettled /\ Saturated
-----------------------------------------------------------------------------
(* What stays when nodes are added *)

\* The step only adds nodes.
OnlyAdds ==
  /\ DOMAIN nodes \subseteq DOMAIN nodes'
  /\ \A n \in DOMAIN nodes : nodes'[n] = nodes[n]
  /\ UNCHANGED <<complements_rmap_flat, labels, indexes>>

LEMMA SameWord ==
  ASSUME OnlyAdds, NEW b \in DOMAIN nodes, NEW o \in DOMAIN nodes
  PROVE  PairWord(nodes[b], nodes[o])' = PairWord(nodes[b], nodes[o])
BY DEF OnlyAdds, PairWord, FlatWord

LEMMA SameJoinable ==
  ASSUME OnlyAdds, NEW b \in DOMAIN nodes, NEW o \in DOMAIN nodes
  PROVE  Joinable(nodes[b], nodes[o])' <=> Joinable(nodes[b], nodes[o])
BY SameWord DEF OnlyAdds, Joinable, IsDisjoint

LEMMA SameJoin ==
  ASSUME OnlyAdds, NEW b \in DOMAIN nodes, NEW o \in DOMAIN nodes, NEW index, NEW type
  PROVE  /\ Join(index, type, b, o)' = Join(index, type, b, o)
         /\ IsUnconstrained(index, type, nodes[b], nodes[o])'
              <=> IsUnconstrained(index, type, nodes[b], nodes[o])
<1>1. nodes'[b] = nodes[b] /\ nodes'[o] = nodes[o] /\ labels' = labels
  BY DEF OnlyAdds
<1>2. Join(index, type, b, o)' = Join(index, type, b, o)
  BY <1>1 DEF Join
<1>3. IsUnconstrained(index, type, nodes[b], nodes[o])'
        <=> IsUnconstrained(index, type, nodes[b], nodes[o])
  BY <1>1 DEF IsUnconstrained
<1> QED BY <1>2, <1>3

LEMMA StaysSettledBy ==
  ASSUME OnlyAdds, NEW b \in DOMAIN nodes, NEW o \in DOMAIN nodes, NEW n,
         SettledBy(b, o, n)
  PROVE  SettledBy(b, o, n)'
<1> DEFINE complement == Complements(PairWord(nodes[b], nodes[o]))[n]
<1>1. complement' = complement
  BY SameWord
<1>2. Represented(complement.index, complement.split_type, b, o)
        => Represented(complement.index, complement.split_type, b, o)'
  BY <1>1, SameJoin DEF Represented, OnlyAdds
<1> QED BY <1>1, <1>2, SameJoin DEF SettledBy

LEMMA StaysSettled ==
  ASSUME OnlyAdds, NEW b \in DOMAIN nodes, NEW o \in DOMAIN nodes, Settled(b, o)
  PROVE  Settled(b, o)'
BY SameWord, SameJoinable, StaysSettledBy DEF Settled
-----------------------------------------------------------------------------
(* The loops *)

\* The two trees the loops are at.
LEMMA AtPair ==
  ASSUME Shape, InRound
  PROVE  /\ Len(trees) \in Nat /\ DOMAIN trees = 1 .. Len(trees)
         /\ i \in Nat /\ j \in Nat /\ i =< j /\ j < Len(trees)
         /\ trees_size = Len(trees) /\ new_trees_size \in 0 .. Len(trees)
         /\ BaseId \in DOMAIN nodes /\ OtherId \in DOMAIN nodes
<1>1. /\ Len(trees) \in Nat /\ DOMAIN trees = 1 .. Len(trees)
      /\ trees \in Seq(DOMAIN nodes)
  BY DEF Shape
<1>2. /\ i \in Nat /\ j \in Nat /\ i =< j /\ j < Len(trees)
      /\ trees_size = Len(trees) /\ new_trees_size \in 0 .. Len(trees)
  BY <1>1 DEF Shape, InRound
<1>3. Len(trees) - i \in DOMAIN trees /\ Len(trees) - j \in DOMAIN trees
  BY <1>1, <1>2
<1> QED BY <1>1, <1>2, <1>3 DEF BaseId, OtherId

\* Unconstrained and NewNode are about the k-th complement of the pair.
LEMMA CurrentComplement ==
  ASSUME Shape, InRound, Pairable
  PROVE  LET complement == Complements(PairWord(nodes[BaseId], nodes[OtherId]))[k + 1]
         IN  complement.index = IndexFlat(Current)
             /\ complement.split_type = SplitTypeFlat(Current)
<1> DEFINE word == PairWord(nodes[BaseId], nodes[OtherId])
<1>1. k \in Nat /\ k < SplitCount(word)
  BY DEF Shape, Pairable
<1>2. SplitCount(word) \in Nat
  BY DEF SplitCount
<1> HIDE DEF word
<1>3. k + 1 \in 1 .. SplitCount(word) /\ (k + 1) - 1 = k
  BY <1>1, <1>2
<1>4. Complements(word)[k + 1] = Complement(IndexFlat(ComplementFlat(word, k)),
                                            SplitTypeFlat(ComplementFlat(word, k)))
  BY <1>3 DEF Complements
<1> QED BY <1>4 DEF Complement, Current, word

\* The pair is settled, the loops go on to the next one.
LEMMA AfterPair ==
  ASSUME Shape, VisitedSettled, InRound, OnlyAdds, NextPair,
         NEW b, NEW o, b = BaseId, o = OtherId, Settled(b, o)',
         UNCHANGED <<pc, trees, trees_size, new_trees_size>>
  PROVE  /\ VisitedSettled'
         /\ i' \in 0 .. new_trees_size /\ j' \in Nat /\ k' \in Nat
         /\ i' < new_trees_size => j' \in i' .. Len(trees) - 1
<1> DEFINE N == Len(trees)
           S == new_trees_size
<1>1. /\ N \in Nat /\ DOMAIN trees = 1 .. N
      /\ i \in Nat /\ j \in Nat /\ i =< j /\ j < N
      /\ trees_size = N /\ S \in 0 .. N /\ i < S
      /\ trees \in Seq(DOMAIN nodes)
  BY AtPair DEF InRound, Shape
<1>2. \/ j + 1 < N /\ j' = j + 1 /\ i' = i
      \/ j + 1 >= N /\ i' = i + 1 /\ j' = i + 1
  BY <1>1 DEF NextPair
<1>3. k' = 0
  BY DEF NextPair
<1>4. trees' = trees /\ S' = S /\ N' = N
  OBVIOUS
<1>5. ASSUME NEW p \in DOMAIN trees, NEW q \in 1 .. p, Visited(p, q)'
      PROVE  Settled(trees[p], trees[q])'
  <2>1. p \in 1 .. N /\ q \in 1 .. N
    BY <1>1
  <2>2. trees[p] \in DOMAIN nodes /\ trees[q] \in DOMAIN nodes
    BY <1>1, <2>1
  <2>3. p =< N - S \/ N - p < i' \/ (N - p = i' /\ N - q < j')
    BY <1>4, <1>5 DEF Visited
  <2>4. Visited(p, q) \/ (N - p = i /\ N - q = j)
    <3> HIDE DEF N, S
    <3>1. \/ p =< N - S \/ N - p < i \/ (N - p = i /\ N - q < j)
          \/ (N - p = i /\ N - q = j)
      BY <1>1, <1>2, <2>1, <2>3
    <3> QED BY <3>1 DEF Visited, N, S
  <2>5. CASE Visited(p, q)
    <3>1. Settled(trees[p], trees[q])
      BY <2>5 DEF VisitedSettled
    <3>2. Settled(trees[p], trees[q])'
      BY <1>4, <2>2, <3>1, StaysSettled
    <3> QED BY <3>2
  <2>6. CASE N - p = i /\ N - q = j
    <3>1. p = N - i /\ q = N - j
      <4> HIDE DEF N
      <4> QED BY <1>1, <2>1, <2>6
    <3>2. trees[p] = b /\ trees[q] = o
      BY <1>1, <3>1 DEF BaseId, OtherId
    <3> QED BY <1>4, <3>2
  <2> QED BY <2>4, <2>5, <2>6
<1>6. VisitedSettled'
  BY <1>3, <1>4, <1>5 DEF VisitedSettled
<1>7. i' \in 0 .. S /\ j' \in Nat /\ k' \in Nat /\ (i' < S => j' \in i' .. N - 1)
  <2> HIDE DEF N, S
  <2> QED BY <1>1, <1>2, <1>3
<1> QED BY <1>6, <1>7
\* The loop variables do not move.
LEMMA StaysVisited ==
  ASSUME Shape, VisitedSettled, OnlyAdds, UNCHANGED <<trees, trees_size, new_trees_size, i, j>>,
         NEW p \in DOMAIN trees, NEW q \in 1 .. p, Visited(p, q)'
  PROVE  Settled(trees[p], trees[q])'
<1>1. DOMAIN trees = 1 .. Len(trees) /\ Len(trees) \in Nat /\ trees \in Seq(DOMAIN nodes)
  BY DEF Shape
<1>2. trees[p] \in DOMAIN nodes /\ trees[q] \in DOMAIN nodes
  <2>1. p \in 1 .. Len(trees) /\ q \in 1 .. Len(trees)
    BY <1>1
  <2> QED BY <1>1, <2>1
<1>3. Settled(trees[p], trees[q])
  BY DEF VisitedSettled, Visited
<1>4. trees' = trees
  OBVIOUS
<1> QED BY <1>2, <1>3, <1>4, StaysSettled

\* A complement of the pair is settled, the loops go on to the next one.
LEMMA AfterComplement ==
  ASSUME Shape, VisitedSettled, InRound, Pairable, OnlyAdds, NextComplement,
         NEW b, NEW o, NEW next, b = BaseId, o = OtherId, next = k + 1,
         SettledBy(b, o, next)',
         UNCHANGED <<pc, trees, trees_size, new_trees_size>>
  PROVE  /\ VisitedSettled'
         /\ i' \in 0 .. new_trees_size /\ j' \in Nat /\ k' \in Nat
         /\ i' < new_trees_size => j' \in i' .. Len(trees) - 1
<1> DEFINE ways == SplitCount(PairWord(nodes[b], nodes[o]))
<1>1. b \in DOMAIN nodes /\ o \in DOMAIN nodes
  BY AtPair
<1>2. ways \in Nat /\ k \in Nat /\ k < ways
  BY DEF SplitCount, Shape, Pairable
<1>3. ways' = ways
  BY <1>1, SameWord
<1>4. ASSUME NEW n \in 1 .. next, n =< ways
      PROVE  SettledBy(b, o, n)'
  <2>1. CASE n = next
    BY <2>1
  <2>2. CASE n # next
    <3>1. n \in 1 .. k
      BY <1>2, <2>2
    <3>2. SettledBy(b, o, n)
      BY <1>4, <3>1 DEF VisitedSettled
    <3> QED BY <1>1, <3>2, StaysSettledBy
  <2> QED BY <2>1, <2>2
<1>5. CASE k + 1 < ways
  <2>1. k' = next /\ UNCHANGED <<i, j>>
    BY <1>5 DEF NextComplement
  <2>2. BaseId' = b /\ OtherId' = o
    BY <2>1 DEF BaseId, OtherId
  <2>3. \A n \in 1 .. k' :
          n =< SplitCount(PairWord(nodes[BaseId], nodes[OtherId]))' =>
            SettledBy(BaseId, OtherId, n)'
    BY <1>3, <1>4, <2>1, <2>2
  <2>4. VisitedSettled'
    BY <2>1, <2>3, StaysVisited DEF VisitedSettled
  <2> QED BY <1>2, <2>1, <2>4 DEF Shape
<1>6. CASE ~(k + 1 < ways)
  <2>1. NextPair
    BY <1>6 DEF NextComplement
  <2>2. ways = next
    <3> HIDE DEF ways
    <3> QED BY <1>2, <1>6
  <2>3. Settled(b, o)'
    BY <1>3, <1>4, <2>2 DEF Settled
  <2> QED BY <2>1, <2>3, AfterPair
<1> QED BY <1>5, <1>6
-----------------------------------------------------------------------------
(* The actions *)

LEMMA NoNodesAdded ==
  ASSUME UNCHANGED <<map_vars, nodes, labels, indexes>>
  PROVE  OnlyAdds
BY DEF OnlyAdds, map_vars

LEMMA SkipPairSettles ==
  ASSUME SaturationInv, SkipPair
  PROVE  SaturationInv'
<1>1. Shape /\ VisitedSettled /\ InRound /\ OnlyAdds /\ pc = "group"
  BY NoNodesAdded DEF SkipPair, SaturationInv, InRound
<1>2. PICK b, o : b = BaseId /\ o = OtherId
  OBVIOUS
<1>3. b \in DOMAIN nodes /\ o \in DOMAIN nodes
  BY <1>1, <1>2, AtPair
<1>4. Settled(b, o)
  <2> DEFINE ways == SplitCount(PairWord(nodes[b], nodes[o]))
  <2>1. ways \in Nat /\ k \in Nat
    BY <1>1 DEF SplitCount, Shape
  <2>2. ~Joinable(nodes[b], nodes[o]) \/ ~(k < ways)
    BY <1>2 DEF SkipPair, Pairable
  <2>3. \A n \in 1 .. k : n =< ways => SettledBy(b, o, n)
    BY <1>1, <1>2 DEF VisitedSettled
  <2>4. CASE ~(k < ways)
    <3>1. \A n \in 1 .. ways : n \in 1 .. k /\ n =< ways
      <4> HIDE DEF ways
      <4> QED BY <2>1, <2>4
    <3> QED BY <2>3, <3>1 DEF Settled
  <2> QED BY <2>2, <2>4 DEF Settled
<1>5. Settled(b, o)'
  BY <1>1, <1>3, <1>4, StaysSettled
<1>6. /\ VisitedSettled'
      /\ i' \in 0 .. new_trees_size /\ j' \in Nat /\ k' \in Nat
      /\ i' < new_trees_size => j' \in i' .. Len(trees) - 1
  BY <1>1, <1>2, <1>5, AfterPair DEF SkipPair
<1>7. Shape'
  BY <1>1, <1>6 DEF Shape, SkipPair
<1>8. Fresh' /\ Saturated'
  BY <1>1 DEF SkipPair, Fresh, Saturated, SearchOver
<1> QED BY <1>6, <1>7, <1>8 DEF SaturationInv

LEMMA DropJoinSettles ==
  ASSUME SaturationInv, DropJoin
  PROVE  SaturationInv'
<1>1. Shape /\ VisitedSettled /\ InRound /\ Pairable /\ OnlyAdds /\ pc = "group"
  BY NoNodesAdded DEF DropJoin, SaturationInv, InRound
<1>2. PICK b, o, next : b = BaseId /\ o = OtherId /\ next = k + 1
  OBVIOUS
<1>3. b \in DOMAIN nodes /\ o \in DOMAIN nodes
  BY <1>1, <1>2, AtPair
<1>4. SettledBy(b, o, next)
  <2>1. Known(NewNode) => \E n \in DOMAIN nodes : Equals(NewNode, nodes[n])
    <3>1. \A h : Range(Bucket(h)) \subseteq DOMAIN nodes
      BY <1>1 DEF Bucket, Range, Shape
    <3> QED BY <3>1 DEF Known
  <2> QED BY <1>1, <1>2, <2>1, CurrentComplement
          DEF SettledBy, Represented, NewNode, Unconstrained, DropJoin
<1>5. SettledBy(b, o, next)'
  BY <1>1, <1>3, <1>4, StaysSettledBy
<1>6. /\ VisitedSettled'
      /\ i' \in 0 .. new_trees_size /\ j' \in Nat /\ k' \in Nat
      /\ i' < new_trees_size => j' \in i' .. Len(trees) - 1
  BY <1>1, <1>2, <1>5, AfterComplement DEF DropJoin
<1>7. Shape'
  BY <1>1, <1>6 DEF Shape, DropJoin
<1>8. Fresh' /\ Saturated'
  BY <1>1 DEF DropJoin, Fresh, Saturated, SearchOver
<1> QED BY <1>6, <1>7, <1>8 DEF SaturationInv

LEMMA EndRoundSettles ==
  ASSUME SaturationInv, EndRound
  PROVE  SaturationInv'
<1> DEFINE N == Len(trees)
           S == Len(new_trees)
<1>1. Shape /\ VisitedSettled /\ pc = "group" /\ i = new_trees_size
  BY DEF EndRound, SaturationInv
<1>2. OnlyAdds
  BY NoNodesAdded DEF EndRound
<1>3. /\ trees \in Seq(DOMAIN nodes) /\ new_trees \in Seq(DOMAIN nodes)
      /\ N \in Nat /\ S \in Nat /\ DOMAIN trees = 1 .. N
      /\ trees_size = N /\ new_trees_size \in 0 .. N
  BY <1>1 DEF Shape
<1>4. /\ trees' \in Seq(DOMAIN nodes) /\ Len(trees') = N + S
      /\ DOMAIN trees' = 1 .. N + S
      /\ \A p \in 1 .. N : trees'[p] = trees[p]
  BY <1>3 DEF EndRound
<1>5. new_trees_size' = S /\ trees_size' = N + S /\ i' = 0 /\ j' = 0 /\ k' = 0 /\ new_trees' = <<>>
  BY <1>3 DEF EndRound
<1>6. \A p \in 1 .. N : \A q \in 1 .. p : Settled(trees[p], trees[q])'
  <2> SUFFICES ASSUME NEW p \in 1 .. N, NEW q \in 1 .. p
               PROVE  Settled(trees[p], trees[q])'
    OBVIOUS
  <2>1. p \in 1 .. N /\ q \in 1 .. N
    <3> HIDE DEF N
    <3> QED BY <1>3
  <2>2. Visited(p, q)
    <3>1. p =< N - new_trees_size \/ N - p < i
      <4> HIDE DEF N
      <4> QED BY <1>1, <1>3, <2>1
    <3> QED BY <3>1 DEF Visited
  <2>3. Settled(trees[p], trees[q])
    BY <1>1, <1>3, <2>1, <2>2 DEF VisitedSettled
  <2>4. PICK b, o : b = trees[p] /\ o = trees[q]
    OBVIOUS
  <2>5. b \in DOMAIN nodes /\ o \in DOMAIN nodes
    BY <1>3, <2>1, <2>4
  <2>6. Settled(b, o)'
    BY <1>2, <2>3, <2>4, <2>5, StaysSettled
  <2> QED BY <1>4, <2>1, <2>4, <2>6
<1>7. VisitedSettled'
  <2> SUFFICES ASSUME NEW p \in 1 .. N + S, NEW q \in 1 .. p, Visited(p, q)'
               PROVE  Settled(trees[p], trees[q])'
    BY <1>4, <1>5 DEF VisitedSettled
  <2>1. \/ p =< (N + S) - S \/ (N + S) - p < 0
        \/ (N + S) - p = 0 /\ (N + S) - q < 0
    BY <1>4, <1>5 DEF Visited
  <2>2. p \in 1 .. N
    <3> HIDE DEF N, S
    <3> QED BY <1>3, <2>1
  <2> QED BY <1>6, <2>2
<1>8. Saturated'
  <2> SUFFICES ASSUME SearchOver', NEW p \in 1 .. N + S, NEW q \in 1 .. p
               PROVE  Settled(trees[p], trees[q])'
    BY <1>4 DEF Saturated
  <2>1. new_trees = <<>>
    BY DEF EndRound, SearchOver
  <2>2. p \in 1 .. N
    BY <1>3, <2>1
  <2> QED BY <1>6, <2>2
<1>9. Shape'
  <2>1. /\ trees_size' = Len(trees') /\ new_trees_size' \in 0 .. Len(trees')
        /\ i' \in 0 .. new_trees_size'
        /\ j' \in Nat /\ k' \in Nat
        /\ i' < new_trees_size' => j' \in i' .. Len(trees') - 1
    <3> HIDE DEF N, S
    <3> QED BY <1>3, <1>4, <1>5
  <2>2. /\ pc' \in {"group", "delete"} /\ new_trees' \in Seq(DOMAIN nodes)
        /\ UNCHANGED <<labels, nodes, new_complete_trees, exists_lookup>>
    BY <1>5 DEF EndRound
  <2> QED BY <1>1, <1>4, <2>1, <2>2 DEF Shape
<1>10. Fresh'
  BY DEF EndRound, Fresh
<1> QED BY <1>7, <1>8, <1>9, <1>10 DEF SaturationInv

\* A sequence stays one when an element is added, and one of nodes is one of
\* more nodes.
LEMMA Appended ==
  ASSUME NEW s, IsSequence(s), NEW x
  PROVE  /\ IsSequence(Append(s, x)) /\ Len(s) \in Nat /\ DOMAIN s = 1 .. Len(s)
         /\ DOMAIN Append(s, x) = 1 .. Len(s) + 1
         /\ \A n \in 1 .. Len(s) : Append(s, x)[n] = s[n]
         /\ Append(s, x)[Len(s) + 1] = x
<1> DEFINE T == {s[n] : n \in DOMAIN s} \cup {x}
           U == {Append(s, x)[n] : n \in DOMAIN Append(s, x)}
<1>1. s \in Seq(T) /\ x \in T
  BY DEF IsSequence
<1> HIDE DEF T
<1>2. /\ Append(s, x) \in Seq(T) /\ Len(s) \in Nat /\ DOMAIN s = 1 .. Len(s)
      /\ DOMAIN Append(s, x) = 1 .. Len(s) + 1 /\ Len(Append(s, x)) = Len(s) + 1
      /\ \A n \in 1 .. Len(s) : Append(s, x)[n] = s[n]
      /\ Append(s, x)[Len(s) + 1] = x
  BY <1>1
<1>3. \A n \in 1 .. Len(s) + 1 : Append(s, x)[n] \in U
  BY <1>2
<1> HIDE DEF U
<1>4. Append(s, x) \in Seq(U)
  BY <1>2, <1>3
<1> QED BY <1>2, <1>4 DEF IsSequence, U

LEMMA Widened ==
  ASSUME NEW S, NEW T, S \subseteq T, NEW s \in Seq(S)
  PROVE  s \in Seq(T)
<1>1. Len(s) \in Nat /\ DOMAIN s = 1 .. Len(s) /\ \A n \in 1 .. Len(s) : s[n] \in T
  OBVIOUS
<1> QED BY <1>1

\* What KeepJoin does to the nodes.
LEMMA KeptNode ==
  ASSUME Shape, KeepJoin
  PROVE  /\ OnlyAdds /\ IsSequence(nodes') /\ Len(nodes) \in Nat
         /\ DOMAIN nodes = 1 .. Len(nodes) /\ DOMAIN nodes' = 1 .. Len(nodes) + 1
         /\ nodes'[Len(nodes) + 1] = NewNode
<1>1. IsSequence(nodes) /\ nodes' = Append(nodes, NewNode)
  BY DEF Shape, KeepJoin
<1>2. /\ IsSequence(nodes') /\ Len(nodes) \in Nat
      /\ DOMAIN nodes = 1 .. Len(nodes) /\ DOMAIN nodes' = 1 .. Len(nodes) + 1
      /\ \A n \in 1 .. Len(nodes) : nodes'[n] = nodes[n]
      /\ nodes'[Len(nodes) + 1] = NewNode
  BY <1>1, Appended
<1>3. UNCHANGED <<complements_rmap_flat, labels, indexes>>
  BY DEF KeepJoin, map_vars
<1> QED BY <1>2, <1>3 DEF OnlyAdds

LEMMA KeepJoinSettles ==
  ASSUME SaturationInv, KeepJoin
  PROVE  SaturationInv'
<1>1. /\ Shape /\ VisitedSettled /\ InRound /\ Pairable /\ pc = "group"
      /\ UNCHANGED <<pc, labels, trees, trees_size, new_trees_size>>
  BY DEF KeepJoin, SaturationInv, InRound
<1>2. PICK b, o, next, id, index, type :
        /\ b = BaseId /\ o = OtherId /\ next = k + 1 /\ id = Len(nodes) + 1
        /\ index = IndexFlat(Current) /\ type = SplitTypeFlat(Current)
  OBVIOUS
<1>3. b \in DOMAIN nodes /\ o \in DOMAIN nodes
  BY <1>1, <1>2, AtPair
<1>4. /\ OnlyAdds /\ IsSequence(nodes') /\ Len(nodes) \in Nat
      /\ DOMAIN nodes = 1 .. Len(nodes) /\ DOMAIN nodes' = 1 .. Len(nodes) + 1
      /\ nodes'[id] = NewNode /\ id \in DOMAIN nodes'
  BY <1>1, <1>2, KeptNode
<1>5. SettledBy(b, o, next)'
  <2> DEFINE complement == Complements(PairWord(nodes[b], nodes[o]))[next]
  <2>1. complement' = complement
    BY <1>3, <1>4, SameWord
  <2>2. complement.index = index /\ complement.split_type = type
    BY <1>1, <1>2, CurrentComplement
  <2>3. nodes'[id] = Join(index, type, b, o)
    BY <1>2, <1>4 DEF NewNode
  <2>4. nodes'[id] = Join(index, type, b, o)'
    BY <1>3, <1>4, <2>3, SameJoin
  <2>5. Represented(index, type, b, o)'
    BY <1>4, <2>4 DEF Represented, Equals
  <2> HIDE DEF complement
  <2>6. Represented(complement.index, complement.split_type, b, o)'
    BY <2>1, <2>2, <2>5
  <2> QED BY <2>6 DEF SettledBy, complement
<1>6. /\ VisitedSettled'
      /\ i' \in 0 .. new_trees_size /\ j' \in Nat /\ k' \in Nat
      /\ i' < new_trees_size => j' \in i' .. Len(trees) - 1
  BY <1>1, <1>2, <1>4, <1>5, AfterComplement DEF KeepJoin
<1>7. DOMAIN nodes \subseteq DOMAIN nodes'
  BY <1>4 DEF OnlyAdds
<1>8. /\ trees' \in Seq(DOMAIN nodes') /\ new_trees' \in Seq(DOMAIN nodes')
      /\ new_complete_trees' \in Seq(DOMAIN nodes')
  <2>1. /\ trees \in Seq(DOMAIN nodes') /\ new_trees \in Seq(DOMAIN nodes')
        /\ new_complete_trees \in Seq(DOMAIN nodes')
    BY <1>1, <1>7, Widened DEF Shape
  <2>2. /\ trees' = trees
        /\ new_trees' \in {new_trees, Append(new_trees, id)}
        /\ new_complete_trees' \in {new_complete_trees, Append(new_complete_trees, id)}
    BY <1>1, <1>2 DEF KeepJoin
  <2>3. \A s \in Seq(DOMAIN nodes') : Append(s, id) \in Seq(DOMAIN nodes')
    BY <1>4
  <2>4. /\ Append(new_trees, id) \in Seq(DOMAIN nodes')
        /\ Append(new_complete_trees, id) \in Seq(DOMAIN nodes')
    BY <2>1, <2>3
  <2>5. new_trees' = new_trees \/ new_trees' = Append(new_trees, id)
    BY <2>2
  <2>6. \/ new_complete_trees' = new_complete_trees
        \/ new_complete_trees' = Append(new_complete_trees, id)
    BY <2>2
  <2> QED BY <2>1, <2>2, <2>4, <2>5, <2>6
<1>9. \A h \in DOMAIN exists_lookup' : exists_lookup'[h] \in Seq(DOMAIN nodes')
  <2>1. \A h : Bucket(h) \in Seq(DOMAIN nodes)
    <3> SUFFICES ASSUME NEW h PROVE Bucket(h) \in Seq(DOMAIN nodes)
      OBVIOUS
    <3>1. CASE h \in DOMAIN exists_lookup
      BY <1>1, <3>1 DEF Shape, Bucket
    <3>2. CASE h \notin DOMAIN exists_lookup
      BY <3>2 DEF Bucket
    <3> QED BY <3>1, <3>2
  <2>2. \A h : Bucket(h) \in Seq(DOMAIN nodes')
    BY <1>7, <2>1, Widened
  <2>3. \A h : Append(Bucket(h), id) \in Seq(DOMAIN nodes')
    BY <1>4, <2>2
  <2> QED BY <1>2, <2>2, <2>3 DEF KeepJoin
<1>10. Shape'
  BY <1>1, <1>4, <1>6, <1>8, <1>9 DEF Shape
<1>11. Fresh' /\ Saturated'
  BY <1>1 DEF Fresh, Saturated, SearchOver
<1> QED BY <1>6, <1>10, <1>11 DEF SaturationInv

LEMMA DeleteTreesSettles ==
  ASSUME SaturationInv, DeleteTrees
  PROVE  SaturationInv'
<1>1. /\ pc = "delete" /\ pc' = "done"
      /\ UNCHANGED <<map_vars, indexes, labels, nodes, trees, new_trees,
                     new_complete_trees, exists_lookup, trees_size, new_trees_size,
                     i, j, k>>
  BY DEF DeleteTrees
<1>2. Shape'
  BY <1>1 DEF SaturationInv, Shape
<1>3. Fresh'
  BY <1>1 DEF Fresh
<1>4. \A p \in DOMAIN trees : \A q \in 1 .. p : Settled(trees[p], trees[q])
  BY <1>1 DEF SaturationInv, Saturated, SearchOver
<1>5. \A p \in DOMAIN trees : \A q \in 1 .. p :
        trees[p] \in DOMAIN nodes /\ trees[q] \in DOMAIN nodes
  <2>1. Len(trees) \in Nat /\ DOMAIN trees = 1 .. Len(trees) /\ trees \in Seq(DOMAIN nodes)
    BY DEF SaturationInv, Shape
  <2>2. \A p \in 1 .. Len(trees) : \A q \in 1 .. p : q \in 1 .. Len(trees)
    BY <2>1
  <2> QED BY <2>1, <2>2
<1>6. \A p \in DOMAIN trees : \A q \in 1 .. p : Settled(trees[p], trees[q])'
  BY <1>1, <1>4, <1>5, NoNodesAdded, StaysSettled
<1>7. VisitedSettled' /\ Saturated'
  BY <1>1, <1>6 DEF VisitedSettled, Saturated, InRound
<1> QED BY <1>2, <1>3, <1>7 DEF SaturationInv
-----------------------------------------------------------------------------
(* Before the loops *)

LEMMA InitSettles ==
  ASSUME Init
  PROVE  SaturationInv
<1>1. /\ pc = "construct" /\ labels = <<>> /\ nodes = <<>> /\ trees = <<>>
      /\ new_trees = <<>> /\ new_complete_trees = <<>> /\ exists_lookup = << >>
      /\ trees_size = 0 /\ new_trees_size = 0 /\ i = 0 /\ j = 0 /\ k = 0
  BY DEF Init
<1>2. Shape
  BY <1>1 DEF Shape, IsSequence
<1>3. VisitedSettled /\ Saturated
  BY <1>1 DEF VisitedSettled, Saturated, InRound, SearchOver
<1> QED BY <1>1, <1>2, <1>3 DEF SaturationInv, Fresh

LEMMA BuildMapSettles ==
  ASSUME SaturationInv, BuildMap
  PROVE  SaturationInv'
<1>1. /\ pc = "construct" /\ pc' = "construct"
      /\ UNCHANGED <<labels, nodes, trees, new_trees, new_complete_trees,
                     exists_lookup, trees_size, new_trees_size, i, j, k>>
  BY DEF BuildMap, group_vars
<1>2. Shape' /\ Fresh' /\ trees' = <<>>
  BY <1>1 DEF SaturationInv, Shape, Fresh
<1>3. VisitedSettled' /\ Saturated'
  BY <1>1, <1>2 DEF VisitedSettled, Saturated, InRound, SearchOver
<1> QED BY <1>2, <1>3 DEF SaturationInv

\* What std::sort leaves of a group.
LEMMA SortingsAre ==
  ASSUME NEW g \in RatioGroups, NEW s \in Sortings(g)
  PROVE  /\ s \in Seq(RatioIndex) /\ Len(s) \in Nat /\ DOMAIN s = 1 .. Len(s)
         /\ \E order \in Bijection(DOMAIN g, DOMAIN g) : s = [n \in DOMAIN g |-> g[order[n]]]
<1>1. g \in Seq(RatioIndex)
  BY RatioGroupsAssumption
<1>2. PICK L \in Nat : L = Len(g) /\ DOMAIN g = 1 .. L /\ \A n \in 1 .. L : g[n] \in RatioIndex
  BY <1>1
<1>3. PICK order \in Bijection(1 .. L, 1 .. L) : s = [n \in 1 .. L |-> g[order[n]]]
  BY <1>2 DEF Sortings
<1>4. \A n \in 1 .. L : order[n] \in 1 .. L
  BY <1>3 DEF Bijection, Injection
<1>5. \A n \in 1 .. L : s[n] \in RatioIndex
  BY <1>2, <1>3, <1>4
<1>6. s \in Seq(RatioIndex) /\ Len(s) = L /\ DOMAIN s = 1 .. L
  BY <1>2, <1>3, <1>5
<1> QED BY <1>2, <1>3, <1>6

\* The labels are apart and share out the rectangles.
LEMMA LabelsAre ==
  ASSUME NEW s \in Seq(RatioIndex), NEW L, L = LabelsOf(s)
  PROVE  /\ IsSequence(L) /\ IsFiniteSet(DOMAIN L)
         /\ \A l, m \in DOMAIN L : L[l].ratio_index = L[m].ratio_index => l = m
         /\ \A l \in DOMAIN L :
              /\ L[l].ratio_index \in RatioIndex
              /\ L[l].ratio_index \in Range(s)
              /\ Len(L[l].indexes) = Cardinality({n \in DOMAIN s : s[n] = L[l].ratio_index})
         /\ \A n \in DOMAIN s : \E l \in DOMAIN L : s[n] = L[l].ratio_index
<1>1. PICK size \in Nat : size = Len(s) /\ DOMAIN s = 1 .. size /\ \A n \in 1 .. size : s[n] \in RatioIndex
  OBVIOUS
<1>2. PICK R : R = Range(s) /\ R \subseteq RatioIndex
  BY <1>1 DEF Range
<1>3. IsFiniteSet(R) /\ R \subseteq Int
  <2>1. IsFiniteSet(RatioIndex) /\ RatioIndex \subseteq Int
    BY RatioTableAssumption, FS_Interval DEF RatioIndex, RatioCount
  <2> QED BY <1>2, <2>1, FS_Subset
<1>4. PICK d : d = InOrder(R)
  OBVIOUS
<1>5. PICK c \in Nat : /\ DOMAIN d = 1 .. c /\ Range(d) = R /\ IsInjective(d)
  BY <1>3, <1>4, InOrderIs, FS_CardinalityType
<1>6. PICK indices : indices = [l \in 1 .. c |-> InOrder({n \in 0 .. size - 1 : s[n + 1] = d[l]})]
  OBVIOUS
<1>7. L = [l \in 1 .. c |-> [ratio_index |-> d[l], indexes |-> indices[l]]]
  BY <1>1, <1>2, <1>4, <1>5, <1>6 DEF LabelsOf
<1>8. DOMAIN L = 1 .. c /\ \A l \in 1 .. c : L[l].ratio_index = d[l] /\ L[l].indexes = indices[l]
  BY <1>7
<1>9. IsSequence(L)
  <2> DEFINE T == {L[n] : n \in DOMAIN L}
  <2>1. L = [l \in 1 .. c |-> L[l]] /\ \A l \in 1 .. c : L[l] \in T
    BY <1>7, <1>8
  <2> HIDE DEF T
  <2>2. L \in Seq(T)
    BY <2>1
  <2> QED BY <2>2 DEF IsSequence, T
<1>10. \A l, m \in 1 .. c : d[l] = d[m] => l = m
  BY <1>5 DEF IsInjective
<1>11. /\ \A l \in 1 .. c : d[l] \in R
       /\ \A n \in 1 .. size : \E l \in 1 .. c : s[n] = d[l]
  BY <1>1, <1>2, <1>5 DEF Range
<1>12. ASSUME NEW l \in 1 .. c
       PROVE  Len(L[l].indexes) = Cardinality({n \in DOMAIN s : s[n] = L[l].ratio_index})
  <2>1. PICK S : S = {n \in 0 .. size - 1 : s[n + 1] = d[l]}
    OBVIOUS
  <2>2. PICK T : T = {n \in DOMAIN s : s[n] = L[l].ratio_index}
    OBVIOUS
  <2>3. S \in SUBSET (0 .. size - 1)
    BY <2>1
  <2>a. IsFiniteSet(0 .. size - 1)
    BY <1>1, FS_Interval
  <2>b. IsFiniteSet(S)
    BY <2>3, <2>a, FS_Subset
  <2>4. IsFiniteSet(S) /\ S \subseteq Int
    BY <2>3, <2>b
  <2>5. L[l].indexes = InOrder(S)
    BY <1>6, <1>8, <1>12, <2>1
  <2>6. T = {n + 1 : n \in S}
    <3>1. \A n \in 1 .. size : n - 1 \in 0 .. size - 1 /\ (n - 1) + 1 = n
      BY <1>1
    <3>2. \A n \in 0 .. size - 1 : n + 1 \in 1 .. size
      BY <1>1
    <3>3. T = {n \in 1 .. size : s[n] = d[l]}
      BY <1>1, <1>8, <1>12, <2>2
    <3>4. ASSUME NEW n \in T
          PROVE  \E a \in S : n = a + 1
      <4>1. n \in 1 .. size /\ s[n] = d[l]
        BY <3>3, <3>4
      <4>2. n - 1 \in S /\ n = (n - 1) + 1
        BY <2>1, <3>1, <4>1
      <4> QED BY <4>2
    <3>5. \A n \in S : n + 1 \in T
      BY <2>1, <3>2, <3>3
    <3> QED BY <3>4, <3>5
  <2>7. Len(InOrder(S)) = Cardinality(S)
    BY <2>4, InOrderIs
  <2>8. Cardinality(T) = Cardinality(S)
    <3>1. IsFiniteSet(S) /\ S \subseteq Int /\ 1 \in Int
      BY <2>4
    <3>2. Cardinality({n + 1 : n \in S}) = Cardinality(S)
      BY <3>1, Shifted
    <3> QED BY <2>6, <3>2
  <2> QED BY <2>2, <2>5, <2>7, <2>8
<1>13. IsFiniteSet(DOMAIN L)
  BY <1>5, <1>8, FS_Interval
<1> QED BY SMTT(30), <1>1, <1>2, <1>8, <1>9, <1>10, <1>11, <1>12, <1>13

LEMMA LabelIndexesAre ==
  ASSUME LabelIndexes
  PROVE  /\ indexes' \in Seq(RatioIndex) /\ labels' = LabelsOf(indexes')
         /\ \E g \in RatioGroups : \E order \in Bijection(DOMAIN g, DOMAIN g) :
              indexes' = [n \in DOMAIN g |-> g[order[n]]]
<1>1. PICK g \in RatioGroups : indexes' \in Sortings(g)
  BY DEF LabelIndexes
<1>2. PICK s : s = indexes'
  OBVIOUS
<1>3. s \in Seq(RatioIndex)
      /\ \E order \in Bijection(DOMAIN g, DOMAIN g) : s = [n \in DOMAIN g |-> g[order[n]]]
  BY <1>1, <1>2, SortingsAre
<1> QED BY <1>2, <1>3 DEF LabelIndexes

LEMMA LabelIndexesSettles ==
  ASSUME SaturationInv, LabelIndexes
  PROVE  SaturationInv'
<1>1. /\ pc = "construct" /\ pc' = "call" /\ labels' = LabelsOf(indexes')
      /\ UNCHANGED <<nodes, trees, new_trees, new_complete_trees,
                     exists_lookup, trees_size, new_trees_size, i, j, k>>
  BY DEF LabelIndexes
<1>2. IsSequence(labels')
  <2>1. PICK s, L : s = indexes' /\ L = labels'
    OBVIOUS
  <2> QED BY <1>1, <2>1, LabelIndexesAre, LabelsAre
<1>3. Shape' /\ Fresh' /\ trees' = <<>>
  BY <1>1, <1>2 DEF SaturationInv, Shape, Fresh
<1>4. VisitedSettled' /\ Saturated'
  BY <1>1, <1>3 DEF VisitedSettled, Saturated, InRound, SearchOver
<1> QED BY <1>3, <1>4 DEF SaturationInv

\* The leaf in a bucket is the first one with its hash.
LEMMA LeafOfHash ==
  ASSUME NEW leaves, NEW size \in Nat, DOMAIN leaves = 1 .. size,
         NEW h \in DOMAIN LeafLookup(leaves)
  PROVE  \E l \in 1 .. size : /\ LeafLookup(leaves)[h] = <<l>>
                              /\ GenerateHash(leaves[l]) = h
<1> DEFINE same == {l \in DOMAIN leaves : GenerateHash(leaves[l]) = h}
<1>1. same \subseteq Nat /\ same # {}
  BY DEF LeafLookup
<1> HIDE DEF same
<1> DEFINE Smaller == OpToRel(<, Nat)
<1>2. IsWellFoundedOn(Smaller, Nat)
  BY NatLessThanWellFounded
<1>3. PICK x \in same : \A y \in same : <<y, x>> \notin Smaller
  BY <1>1, <1>2, WFMin
<1>4. \A y \in same : x =< y
  <2>1. \A y \in same : ~(y < x)
    BY <1>1, <1>3, Zenon DEF OpToRel
  <2> QED BY <1>1, <2>1
<1>5. Min(same) \in same
  BY <1>4 DEF Min
<1>6. LeafLookup(leaves)[h] = <<Min(same)>>
  BY DEF LeafLookup, same
<1> QED BY <1>5, <1>6 DEF same

LEMMA BuildLeavesSettles ==
  ASSUME SaturationInv, BuildLeaves
  PROVE  SaturationInv'
<1> DEFINE S == Len(labels)
<1>1. IsSequence(labels) /\ S \in Nat /\ DOMAIN labels = 1 .. S
  BY DEF SaturationInv, Shape, IsSequence
<1>2. /\ pc = "call" /\ nodes' = [l \in 1 .. S |-> Leaf(S, labels[l].ratio_index, l)]
      /\ trees' = [l \in 1 .. S |-> l] /\ exists_lookup' = LeafLookup(nodes')
      /\ trees_size' = S /\ new_trees_size' = S /\ pc' = IF S = 0 THEN "delete" ELSE "group"
      /\ UNCHANGED <<labels, new_trees, new_complete_trees, i, j, k>>
  BY <1>1 DEF BuildLeaves
<1> HIDE DEF S
<1>3. /\ i' = 0 /\ j' = 0 /\ k' = 0 /\ new_trees' = <<>> /\ new_complete_trees' = <<>>
  BY <1>2 DEF SaturationInv, Fresh
<1>4. /\ DOMAIN nodes' = 1 .. S /\ trees' \in Seq(1 .. S) /\ Len(trees') = S
      /\ DOMAIN trees' = 1 .. S
  BY <1>1, <1>2
<1>5. IsSequence(nodes')
  <2> DEFINE T == {nodes'[n] : n \in DOMAIN nodes'}
  <2>1. nodes' = [l \in 1 .. S |-> nodes'[l]] /\ \A l \in 1 .. S : nodes'[l] \in T
    BY <1>2, <1>4
  <2> HIDE DEF T
  <2>2. nodes' \in Seq(T)
    BY <1>1, <2>1
  <2> QED BY <2>2 DEF IsSequence, T
<1>6. \A h \in DOMAIN exists_lookup' : exists_lookup'[h] \in Seq(1 .. S)
  <2> SUFFICES ASSUME NEW h \in DOMAIN LeafLookup(nodes')
               PROVE  LeafLookup(nodes')[h] \in Seq(1 .. S)
    BY <1>2
  <2>1. PICK l \in 1 .. S : LeafLookup(nodes')[h] = <<l>>
    BY <1>1, <1>4, LeafOfHash
  <2> QED BY <2>1
<1>7. Shape'
  BY <1>1, <1>2, <1>3, <1>4, <1>5, <1>6 DEF Shape
<1>8. VisitedSettled'
  <2>1. ASSUME NEW p \in 1 .. S, NEW q \in 1 .. p, Visited(p, q)'
        PROVE  FALSE
    BY <1>1, <1>2, <1>3, <1>4, <2>1 DEF Visited
  <2> QED BY <1>3, <1>4, <2>1 DEF VisitedSettled
<1>9. Saturated'
  BY <1>2, <1>4 DEF Saturated, SearchOver
<1>10. Fresh'
  BY <1>2 DEF Fresh
<1> QED BY <1>7, <1>8, <1>9, <1>10 DEF SaturationInv

LEMMA StutterSettles ==
  ASSUME SaturationInv, UNCHANGED vars
  PROVE  SaturationInv'
<1>1. /\ Shape /\ OnlyAdds
      /\ UNCHANGED <<pc, labels, nodes, trees, new_trees, new_complete_trees,
                     exists_lookup, trees_size, new_trees_size, i, j, k>>
  BY NoNodesAdded DEF vars, group_vars, SaturationInv
<1>2. Shape' /\ Fresh'
  BY <1>1 DEF SaturationInv, Shape, Fresh, IsSequence
<1>3. \A p \in DOMAIN trees : \A q \in 1 .. p :
        Settled(trees[p], trees[q]) => Settled(trees[p], trees[q])'
  <2>1. Len(trees) \in Nat /\ DOMAIN trees = 1 .. Len(trees) /\ trees \in Seq(DOMAIN nodes)
    BY <1>1 DEF Shape
  <2>2. \A p \in 1 .. Len(trees) : \A q \in 1 .. p : q \in 1 .. Len(trees)
    BY <2>1
  <2>3. \A b, o \in DOMAIN nodes : Settled(b, o) => Settled(b, o)'
    BY <1>1, StaysSettled
  <2> QED BY <1>1, <2>1, <2>2, <2>3
<1>4. ASSUME InRound', NEW n \in 1 .. k',
             n =< SplitCount(PairWord(nodes[BaseId], nodes[OtherId]))'
      PROVE  SettledBy(BaseId, OtherId, n)'
  <2>1. PICK b, o : b = BaseId /\ o = OtherId
    OBVIOUS
  <2>2. InRound /\ BaseId' = b /\ OtherId' = o
    BY <1>1, <1>4, <2>1 DEF InRound, BaseId, OtherId
  <2>3. b \in DOMAIN nodes /\ o \in DOMAIN nodes
    BY <1>1, <2>1, <2>2, AtPair
  <2>4. n =< SplitCount(PairWord(nodes[b], nodes[o]))
    BY <1>1, <1>4, <2>2, <2>3, SameWord
  <2>5. SettledBy(b, o, n)
    BY <1>1, <2>1, <2>2, <2>4 DEF SaturationInv, VisitedSettled
  <2>6. SettledBy(b, o, n)'
    BY <1>1, <2>3, <2>5, StaysSettledBy
  <2> QED BY <2>2, <2>6
<1>5. VisitedSettled' /\ Saturated'
  BY <1>1, <1>3, <1>4
     DEF SaturationInv, VisitedSettled, Visited, Saturated, SearchOver
<1> QED BY <1>2, <1>5 DEF SaturationInv
-----------------------------------------------------------------------------
\* SaturationInv holds in every state: each action keeps it.
THEOREM SaturationInvariant == Spec => []SaturationInv
<1>1. Init => SaturationInv
  BY InitSettles
<1>2. SaturationInv /\ [Next \/ Returned]_vars => SaturationInv'
  <2> SUFFICES ASSUME SaturationInv, [Next \/ Returned]_vars
               PROVE  SaturationInv'
    OBVIOUS
  <2>1. CASE BuildMap
    BY <2>1, BuildMapSettles
  <2>2. CASE LabelIndexes
    BY <2>2, LabelIndexesSettles
  <2>3. CASE BuildLeaves
    BY <2>3, BuildLeavesSettles
  <2>4. CASE Group
    BY <2>4, SkipPairSettles, DropJoinSettles, KeepJoinSettles, EndRoundSettles DEF Group
  <2>5. CASE DeleteTrees
    BY <2>5, DeleteTreesSettles
  <2>6. CASE UNCHANGED vars
    BY <2>6, StutterSettles
  <2> QED BY <2>1, <2>2, <2>3, <2>4, <2>5, <2>6 DEF Next, Returned
<1> QED BY <1>1, <1>2, PTL DEF Spec

\* The rounds of Group() leave no pair of partial trees unsettled, for any
\* table, group and hash function: looking at each new tree with itself and
\* the older ones is enough.
THEOREM SaturationCorrect == Spec => []Saturated
<1>1. SaturationInv => Saturated
  BY DEF SaturationInv
<1> QED BY <1>1, SaturationInvariant, PTL
-----------------------------------------------------------------------------
(* The nodes Group() makes: no two equal ones, and each deleted once *)

\* The first nodes are the leaves, one for each label.
LeavesFirst ==
  pc \notin {"construct", "call"} =>
    \A n \in 1 .. Len(labels) :
      n \in DOMAIN nodes /\ nodes[n] = Leaf(Len(labels), labels[n].ratio_index, n)

\* The others hold two rectangles at least, and InsertIfUnique finds them.
JoinsFound ==
  \A n \in DOMAIN nodes :
    /\ nodes[n].all_labels_count \in Nat /\ nodes[n].all_labels_count >= 1
    /\ n > Len(labels) => /\ nodes[n].all_labels_count >= 2
                          /\ n \in Range(Bucket(GenerateHash(nodes[n])))

\* Each node is in one of the three vectors, once.
HeldOnce ==
  /\ IsInjective(trees) /\ IsInjective(new_trees) /\ IsInjective(new_complete_trees)
  /\ Range(trees) \cap Range(new_trees) = {}
  /\ Range(trees) \cap Range(new_complete_trees) = {}
  /\ Range(new_trees) \cap Range(new_complete_trees) = {}
  /\ Range(trees) \cup Range(new_trees) \cup Range(new_complete_trees) = DOMAIN nodes

\* At the end nothing is left in new_trees, and two vectors are deleted.
Deletion ==
  /\ pc \in {"delete", "done"} => new_trees = <<>>
  /\ pc = "done" => deleted = trees \o new_complete_trees

\* The inductive invariant, given SaturationInv.
NodesInv == LeavesFirst /\ JoinsFound /\ NoEqualNodes /\ HeldOnce /\ Deletion
-----------------------------------------------------------------------------
(* Sequences without repetition *)

LEMMA RangeAppended ==
  ASSUME NEW S, NEW s \in Seq(S), NEW x
  PROVE  /\ Range(Append(s, x)) = Range(s) \cup {x}
         /\ IsInjective(s) /\ x \notin Range(s) => IsInjective(Append(s, x))
<1>1. s \in Seq(S \cup {x}) /\ x \in S \cup {x}
  BY Widened
<1>2. /\ Len(s) \in Nat /\ DOMAIN s = 1 .. Len(s)
      /\ DOMAIN Append(s, x) = 1 .. Len(s) + 1
      /\ \A n \in 1 .. Len(s) : Append(s, x)[n] = s[n]
      /\ Append(s, x)[Len(s) + 1] = x
  BY <1>1
<1>3. \A n \in 1 .. Len(s) + 1 : n \in 1 .. Len(s) \/ n = Len(s) + 1
  BY <1>2
<1>4. \A n \in 1 .. Len(s) : n \in 1 .. Len(s) + 1
  BY <1>2
<1>5. Len(s) + 1 \in 1 .. Len(s) + 1
  BY <1>2
<1>6. Range(Append(s, x)) = Range(s) \cup {x}
  BY <1>2, <1>3, <1>4, <1>5 DEF Range
<1>7. ASSUME IsInjective(s), x \notin Range(s)
      PROVE  IsInjective(Append(s, x))
  BY <1>2, <1>3, <1>7 DEF IsInjective, Range
<1> QED BY <1>6, <1>7

LEMMA RangeConcatenated ==
  ASSUME NEW S, NEW s \in Seq(S), NEW t \in Seq(S)
  PROVE  /\ Range(s \o t) = Range(s) \cup Range(t)
         /\ IsInjective(s) /\ IsInjective(t) /\ Range(s) \cap Range(t) = {}
              => IsInjective(s \o t)
<1> DEFINE M == Len(s)
           N == Len(t)
<1>1. /\ M \in Nat /\ N \in Nat /\ DOMAIN s = 1 .. M /\ DOMAIN t = 1 .. N
      /\ DOMAIN (s \o t) = 1 .. M + N
      /\ \A n \in 1 .. M : (s \o t)[n] = s[n]
      /\ \A n \in 1 .. M + N : n > M => (s \o t)[n] = t[n - M]
  OBVIOUS
<1> HIDE DEF M, N
<1>2. \A n \in 1 .. M + N : n \in 1 .. M \/ (n > M /\ n - M \in 1 .. N)
  BY <1>1
<1>3. /\ \A n \in 1 .. M : n \in 1 .. M + N
      /\ \A n \in 1 .. N : n + M \in 1 .. M + N /\ n + M > M /\ (n + M) - M = n
  BY <1>1
<1>4. \A n \in 1 .. N : (s \o t)[n + M] = t[n]
  <2> TAKE n \in 1 .. N
  <2>1. n + M \in 1 .. M + N /\ n + M > M /\ (n + M) - M = n
    BY <1>3
  <2> QED BY <1>1, <2>1
<1>5. Range(s \o t) = Range(s) \cup Range(t)
  <2>1. ASSUME NEW n \in 1 .. M + N
        PROVE  (s \o t)[n] \in Range(s) \cup Range(t)
    <3>1. CASE n \in 1 .. M
      BY <1>1, <3>1 DEF Range
    <3>2. CASE n > M /\ n - M \in 1 .. N
      BY <1>1, <3>2 DEF Range
    <3> QED BY <1>2, <3>1, <3>2
  <2>2. \A n \in 1 .. M : s[n] \in Range(s \o t)
    BY <1>1, <1>3 DEF Range
  <2>3. \A n \in 1 .. N : t[n] \in Range(s \o t)
    <3> TAKE n \in 1 .. N
    <3>1. n + M \in DOMAIN (s \o t) /\ (s \o t)[n + M] = t[n]
      BY <1>1, <1>3, <1>4
    <3> QED BY <3>1 DEF Range
  <2> QED BY ZenonT(40), <1>1, <2>1, <2>2, <2>3 DEF Range
<1>6. ASSUME IsInjective(s), IsInjective(t), Range(s) \cap Range(t) = {},
             NEW a \in 1 .. M + N, NEW b \in 1 .. M + N, (s \o t)[a] = (s \o t)[b]
      PROVE  a = b
  <2>1. CASE a \in 1 .. M /\ b \in 1 .. M
    BY <1>1, <1>6, <2>1 DEF IsInjective
  <2>2. CASE a \notin 1 .. M /\ b \notin 1 .. M
    <3>1. a > M /\ b > M /\ a - M \in 1 .. N /\ b - M \in 1 .. N
      BY <1>2, <2>2
    <3>2. t[a - M] = t[b - M]
      BY <1>1, <1>6, <3>1
    <3>3. a - M = b - M
      BY <1>1, <1>6, <3>1, <3>2 DEF IsInjective
    <3> QED BY <1>1, <3>3
  <2>3. ASSUME NEW m \in 1 .. M, NEW n \in 1 .. N
        PROVE  s[m] # t[n]
    BY <1>1, <1>6 DEF Range
  <2> QED BY <1>1, <1>2, <1>6, <2>1, <2>2, <2>3
<1> QED BY <1>1, <1>5, <1>6 DEF IsInjective
-----------------------------------------------------------------------------
(* The actions *)

\* An action that leaves nodes, labels and the lookup alone keeps the first
\* three parts.
LEMMA NodesStay ==
  ASSUME LeavesFirst, JoinsFound, NoEqualNodes, UNCHANGED <<nodes, labels, exists_lookup>>,
         pc \in {"construct", "call"} => pc' \in {"construct", "call"}
  PROVE  LeavesFirst' /\ JoinsFound' /\ NoEqualNodes'
<1>1. LeavesFirst'
  BY DEF LeavesFirst, Leaf
<1>2. JoinsFound'
  BY DEF JoinsFound, Bucket, GenerateHash
<1>3. NoEqualNodes'
  BY DEF NoEqualNodes, Equals
<1> QED BY <1>1, <1>2, <1>3

LEMMA InitNodes ==
  ASSUME Init
  PROVE  NodesInv
<1>1. /\ pc = "construct" /\ nodes = <<>> /\ trees = <<>>
      /\ new_trees = <<>> /\ new_complete_trees = <<>>
  BY DEF Init
<1>2. DOMAIN nodes = {} /\ DOMAIN trees = {} /\ DOMAIN new_trees = {}
      /\ DOMAIN new_complete_trees = {}
  BY <1>1
<1>3. LeavesFirst /\ JoinsFound /\ NoEqualNodes
  BY <1>1, <1>2 DEF LeavesFirst, JoinsFound, NoEqualNodes
<1>4. HeldOnce
  BY <1>2 DEF HeldOnce, IsInjective, Range
<1> QED BY <1>1, <1>3, <1>4 DEF NodesInv, Deletion

\* The constructor has no nodes.
LEMMA ConstructNodes ==
  ASSUME SaturationInv, NodesInv, BuildMap \/ LabelIndexes
  PROVE  NodesInv'
<1>1. /\ pc = "construct" /\ pc' \in {"construct", "call"}
      /\ UNCHANGED <<nodes, trees, new_trees, new_complete_trees>>
  BY DEF BuildMap, LabelIndexes, group_vars
<1>2. nodes' = <<>>
  BY <1>1 DEF SaturationInv, Fresh
<1>3. DOMAIN nodes' = {}
  BY <1>2
<1>4. LeavesFirst' /\ JoinsFound' /\ NoEqualNodes'
  BY <1>1, <1>3 DEF LeavesFirst, JoinsFound, NoEqualNodes
<1>5. HeldOnce'
  BY <1>1 DEF NodesInv, HeldOnce, IsInjective, Range
<1>6. Deletion'
  BY <1>1 DEF Deletion
<1> QED BY <1>4, <1>5, <1>6 DEF NodesInv

LEMMA BuildLeavesNodes ==
  ASSUME SaturationInv, BuildLeaves
  PROVE  NodesInv'
<1> DEFINE S == Len(labels)
<1>1. S \in Nat /\ DOMAIN labels = 1 .. S
  BY DEF SaturationInv, Shape, IsSequence
<1>2. /\ pc = "call" /\ nodes' = [l \in 1 .. S |-> Leaf(S, labels[l].ratio_index, l)]
      /\ trees' = [l \in 1 .. S |-> l] /\ pc' \in {"delete", "group"}
      /\ UNCHANGED <<labels, new_trees, new_complete_trees>>
  BY <1>1 DEF BuildLeaves
<1>3. new_trees' = <<>> /\ new_complete_trees' = <<>>
  BY <1>2 DEF SaturationInv, Fresh
<1>4. LeavesFirst'
  BY <1>2 DEF LeavesFirst, Leaf
<1>5. \A n \in 1 .. S : /\ nodes'[n].all_labels_count = 1
                        /\ nodes'[n].label_counts[n] = 1
                        /\ \A m \in 1 .. S : m # n => nodes'[n].label_counts[m] = 0
  BY <1>2 DEF Leaf
<1>6. JoinsFound'
  <2>1. \A n \in 1 .. S : ~(n > S)
    BY <1>1
  <2> QED BY <1>2, <1>5, <2>1 DEF JoinsFound
<1>7. NoEqualNodes'
  <2> SUFFICES ASSUME NEW m \in 1 .. S, NEW n \in 1 .. S, m < n
               PROVE  ~Equals(nodes[m], nodes[n])'
    BY <1>2 DEF NoEqualNodes
  <2>1. m # n
    BY <1>1
  <2>2. nodes'[m].label_counts[m] # nodes'[n].label_counts[m]
    BY <1>5, <2>1
  <2> QED BY <2>2 DEF Equals
<1>8. HeldOnce'
  BY <1>2, <1>3 DEF HeldOnce, IsInjective, Range
<1>9. Deletion'
  BY <1>2, <1>3 DEF Deletion
<1> QED BY <1>4, <1>6, <1>7, <1>8, <1>9 DEF NodesInv

LEMMA SkipNodes ==
  ASSUME NodesInv, SkipPair \/ DropJoin
  PROVE  NodesInv'
<1>1. /\ pc = "group" /\ pc' = "group"
      /\ UNCHANGED <<labels, nodes, exists_lookup, trees, new_trees, new_complete_trees>>
  BY DEF SkipPair, DropJoin, InRound
<1>2. LeavesFirst' /\ JoinsFound' /\ NoEqualNodes'
  BY <1>1, NodesStay DEF NodesInv
<1>3. HeldOnce' /\ Deletion'
  BY <1>1 DEF NodesInv, HeldOnce, Deletion
<1> QED BY <1>2, <1>3 DEF NodesInv

LEMMA EndRoundNodes ==
  ASSUME SaturationInv, NodesInv, EndRound
  PROVE  NodesInv'
<1>1. /\ pc = "group" /\ pc' \in {"group", "delete"}
      /\ trees' = trees \o new_trees /\ new_trees' = <<>>
      /\ UNCHANGED <<labels, nodes, exists_lookup, new_complete_trees>>
  BY DEF EndRound
<1>2. LeavesFirst' /\ JoinsFound' /\ NoEqualNodes'
  BY <1>1, NodesStay DEF NodesInv
<1>3. trees \in Seq(DOMAIN nodes) /\ new_trees \in Seq(DOMAIN nodes)
  BY DEF SaturationInv, Shape
<1>4. HeldOnce
  BY DEF NodesInv
<1>5. /\ Range(trees') = Range(trees) \cup Range(new_trees)
      /\ IsInjective(trees')
  BY <1>1, <1>3, <1>4, RangeConcatenated DEF HeldOnce
<1>6. Range(new_trees') = {} /\ IsInjective(new_trees')
  BY <1>1 DEF Range, IsInjective
<1>7. HeldOnce'
  BY <1>1, <1>4, <1>5, <1>6 DEF HeldOnce
<1>8. Deletion'
  BY <1>1 DEF Deletion
<1> QED BY <1>2, <1>7, <1>8 DEF NodesInv

LEMMA DeleteTreesNodes ==
  ASSUME NodesInv, DeleteTrees
  PROVE  NodesInv'
<1>1. /\ pc = "delete" /\ pc' = "done" /\ deleted' = trees \o new_complete_trees
      /\ UNCHANGED <<labels, nodes, exists_lookup, trees, new_trees, new_complete_trees>>
  BY DEF DeleteTrees
<1>2. LeavesFirst' /\ JoinsFound' /\ NoEqualNodes'
  BY <1>1, NodesStay DEF NodesInv
<1>3. HeldOnce' /\ Deletion'
  BY <1>1 DEF NodesInv, HeldOnce, Deletion
<1> QED BY <1>2, <1>3 DEF NodesInv

LEMMA StutterNodes ==
  ASSUME NodesInv, UNCHANGED vars
  PROVE  NodesInv'
<1>1. UNCHANGED <<pc, labels, nodes, exists_lookup, trees, new_trees,
                  new_complete_trees, deleted>>
  BY DEF vars, group_vars
<1>2. LeavesFirst' /\ JoinsFound' /\ NoEqualNodes'
  BY <1>1, NodesStay DEF NodesInv
<1>3. HeldOnce' /\ Deletion'
  BY <1>1 DEF NodesInv, HeldOnce, Deletion
<1> QED BY <1>2, <1>3 DEF NodesInv

\* The hash of a node depends on the node alone.
LEMMA SameHash ==
  ASSUME NEW n, nodes'[n] = nodes[n]
  PROVE  GenerateHash(nodes[n])' = GenerateHash(nodes[n])
BY DEF GenerateHash

LEMMA KeepJoinNodes ==
  ASSUME SaturationInv, NodesInv, KeepJoin
  PROVE  NodesInv'
<1>1. /\ Shape /\ pc = "group" /\ pc' = "group" /\ InRound /\ ~Known(NewNode)
      /\ UNCHANGED <<labels, trees>>
  BY DEF KeepJoin, SaturationInv, InRound
<1>2. PICK id, node, hash : /\ id = Len(nodes) + 1 /\ node = NewNode
                            /\ hash = GenerateHash(NewNode)
  OBVIOUS
<1>3. /\ OnlyAdds /\ Len(nodes) \in Nat
      /\ DOMAIN nodes = 1 .. Len(nodes) /\ DOMAIN nodes' = 1 .. Len(nodes) + 1
      /\ nodes'[id] = node
  BY <1>1, <1>2, KeptNode
<1>4. /\ id \notin DOMAIN nodes /\ id \in DOMAIN nodes'
      /\ \A n \in DOMAIN nodes' : n \in DOMAIN nodes \/ n = id
      /\ \A n \in DOMAIN nodes : nodes'[n] = nodes[n] /\ n \in DOMAIN nodes'
  BY <1>2, <1>3 DEF OnlyAdds
<1>5. LeavesFirst /\ JoinsFound /\ NoEqualNodes /\ HeldOnce
  BY DEF NodesInv
<1>6. \A h : /\ Bucket(h) \in Seq(DOMAIN nodes)
             /\ Bucket(h)' = IF h = hash THEN Append(Bucket(h), id) ELSE Bucket(h)
  <2> SUFFICES ASSUME NEW h
               PROVE  /\ Bucket(h) \in Seq(DOMAIN nodes)
                      /\ Bucket(h)' = IF h = hash THEN Append(Bucket(h), id) ELSE Bucket(h)
    OBVIOUS
  <2>1. Bucket(h) \in Seq(DOMAIN nodes)
    <3>1. CASE h \in DOMAIN exists_lookup
      BY <1>1, <3>1 DEF Shape, Bucket
    <3>2. CASE h \notin DOMAIN exists_lookup
      BY <3>2 DEF Bucket
    <3> QED BY <3>1, <3>2
  <2>2. exists_lookup' = [g \in DOMAIN exists_lookup \cup {hash} |->
                            IF g = hash THEN Append(Bucket(hash), id) ELSE Bucket(g)]
    BY <1>2 DEF KeepJoin
  <2>3. Bucket(h)' = IF h \in DOMAIN exists_lookup \cup {hash}
                     THEN exists_lookup'[h] ELSE <<>>
    BY <2>2 DEF Bucket
  <2>4. h \notin DOMAIN exists_lookup => Bucket(h) = <<>>
    BY DEF Bucket
  <2> QED BY <2>1, <2>2, <2>3, <2>4
<1>7. \A h : Range(Bucket(h)) \subseteq Range(Bucket(h)') /\ id \in Range(Bucket(hash)')
  <2>1. \A h : Range(Append(Bucket(h), id)) = Range(Bucket(h)) \cup {id}
    BY <1>6, RangeAppended
  <2> QED BY <1>6, <2>1
<1>8. node.all_labels_count \in Nat /\ node.all_labels_count >= 2
  <2>1. BaseId \in DOMAIN nodes /\ OtherId \in DOMAIN nodes
    BY <1>1, AtPair
  <2>2. node.all_labels_count
          = nodes[BaseId].all_labels_count + nodes[OtherId].all_labels_count
    BY <1>2 DEF NewNode, Join
  <2> QED BY <1>5, <2>1, <2>2 DEF JoinsFound
<1>9. LeavesFirst'
  BY <1>1, <1>4, <1>5 DEF LeavesFirst, Leaf
<1>10. JoinsFound'
  <2>1. ASSUME NEW n \in DOMAIN nodes
        PROVE  /\ nodes'[n].all_labels_count \in Nat /\ nodes'[n].all_labels_count >= 1
               /\ n > Len(labels) => /\ nodes'[n].all_labels_count >= 2
                                     /\ n \in Range(Bucket(GenerateHash(nodes[n])))'
    <3>1. nodes'[n] = nodes[n] /\ GenerateHash(nodes[n])' = GenerateHash(nodes[n])
      BY <1>4, SameHash
    <3>2. Range(Bucket(GenerateHash(nodes[n]))) \subseteq Range(Bucket(GenerateHash(nodes[n])))'
      BY <1>7, <3>1
    <3> QED BY <1>5, <3>1, <3>2 DEF JoinsFound
  <2>2. id \in Range(Bucket(GenerateHash(nodes[id])))'
    BY <1>2, <1>3, <1>7 DEF GenerateHash
  <2> QED BY <1>1, <1>3, <1>4, <1>8, <2>1, <2>2 DEF JoinsFound
<1>11. \A m \in DOMAIN nodes : ~Equals(nodes[m], node)
  <2> SUFFICES ASSUME NEW m \in DOMAIN nodes, Equals(nodes[m], node)
               PROVE  FALSE
    OBVIOUS
  <2>1. nodes[m].all_labels_count >= 2
    BY <1>8 DEF Equals
  <2>2. ~(m \in 1 .. Len(labels))
    <3>1. \A size, index, l : Leaf(size, index, l).all_labels_count = 1
      BY DEF Leaf
    <3>2. m \in 1 .. Len(labels) => nodes[m].all_labels_count = 1
      BY <1>1, <1>5, <3>1 DEF LeavesFirst
    <3> QED BY <2>1, <3>2
  <2>3. m > Len(labels)
    BY <1>1, <1>3, <2>2 DEF Shape, IsSequence
  <2>4. m \in Range(Bucket(GenerateHash(nodes[m])))
    BY <1>5, <2>3 DEF JoinsFound
  <2>5. GenerateHash(nodes[m]) = GenerateHash(node)
    BY DEF Equals, GenerateHash
  <2>6. Known(node)
    BY <2>4, <2>5 DEF Known, Equals
  <2> QED BY <1>1, <1>2, <2>6
<1>12. NoEqualNodes'
  <2> SUFFICES ASSUME NEW m \in DOMAIN nodes', NEW n \in DOMAIN nodes', m < n
               PROVE  ~Equals(nodes'[m], nodes'[n])
    BY DEF NoEqualNodes, Equals
  <2>1. m \in DOMAIN nodes
    BY <1>2, <1>3
  <2>2. CASE n \in DOMAIN nodes
    BY <1>4, <1>5, <2>1, <2>2 DEF NoEqualNodes
  <2>3. CASE n = id
    BY <1>3, <1>4, <1>11, <2>1, <2>3
  <2> QED BY <1>4, <2>2, <2>3
<1>13. HeldOnce'
  <2>1. /\ trees \in Seq(DOMAIN nodes) /\ new_trees \in Seq(DOMAIN nodes)
        /\ new_complete_trees \in Seq(DOMAIN nodes)
    BY <1>1 DEF Shape
  <2>2. /\ id \notin Range(trees) /\ id \notin Range(new_trees)
        /\ id \notin Range(new_complete_trees)
    BY <1>4, <1>5 DEF HeldOnce
  <2>3. DOMAIN nodes' = DOMAIN nodes \cup {id}
    BY <1>4
  <2>4. CASE /\ new_complete_trees' = Append(new_complete_trees, id)
             /\ UNCHANGED new_trees
    <3>1. /\ Range(new_complete_trees') = Range(new_complete_trees) \cup {id}
          /\ IsInjective(new_complete_trees')
      BY <1>5, <2>1, <2>2, <2>4, RangeAppended DEF HeldOnce
    <3> QED BY <1>1, <1>5, <2>2, <2>3, <2>4, <3>1 DEF HeldOnce
  <2>5. CASE /\ new_trees' = Append(new_trees, id)
             /\ UNCHANGED new_complete_trees
    <3>1. /\ Range(new_trees') = Range(new_trees) \cup {id}
          /\ IsInjective(new_trees')
      BY <1>5, <2>1, <2>2, <2>5, RangeAppended DEF HeldOnce
    <3> QED BY <1>1, <1>5, <2>2, <2>3, <2>5, <3>1 DEF HeldOnce
  <2> QED BY <1>2, <2>4, <2>5 DEF KeepJoin
<1>14. Deletion'
  BY <1>1 DEF Deletion
<1> QED BY <1>9, <1>10, <1>12, <1>13, <1>14 DEF NodesInv
-----------------------------------------------------------------------------
\* NodesInv holds in every state.
THEOREM NodesInvariant == Spec => []NodesInv
<1>1. Init => NodesInv
  BY InitNodes
<1>2. SaturationInv /\ NodesInv /\ [Next \/ Returned]_vars => NodesInv'
  <2> SUFFICES ASSUME SaturationInv, NodesInv, [Next \/ Returned]_vars
               PROVE  NodesInv'
    OBVIOUS
  <2>1. CASE BuildMap \/ LabelIndexes
    BY <2>1, ConstructNodes
  <2>2. CASE BuildLeaves
    BY <2>2, BuildLeavesNodes
  <2>3. CASE Group
    BY <2>3, SkipNodes, KeepJoinNodes, EndRoundNodes DEF Group
  <2>4. CASE DeleteTrees
    BY <2>4, DeleteTreesNodes
  <2>5. CASE UNCHANGED vars
    BY <2>5, StutterNodes
  <2> QED BY <2>1, <2>2, <2>3, <2>4, <2>5 DEF Next, Returned
<1> QED BY <1>1, <1>2, SaturationInvariant, PTL DEF Spec

\* InsertIfUnique, which compares a node only with those of its hash, keeps no
\* two equal ones: collisions do not matter, nor that a leaf which collides is
\* not in the lookup.
THEOREM NoEqualNodesCorrect == Spec => []NoEqualNodes
<1>1. NodesInv => NoEqualNodes
  BY DEF NodesInv
<1> QED BY <1>1, NodesInvariant, PTL

\* Group() leaks no node and deletes none twice.
THEOREM DeletedOnceCorrect == Spec => []DeletedOnce
<1>1. SaturationInv /\ NodesInv => DeletedOnce
  <2> SUFFICES ASSUME SaturationInv, NodesInv, pc = "done"
               PROVE  IsInjective(deleted) /\ Range(deleted) = DOMAIN nodes
    BY DEF DeletedOnce
  <2>1. HeldOnce /\ new_trees = <<>> /\ deleted = trees \o new_complete_trees
    BY DEF NodesInv, Deletion
  <2>2. Range(new_trees) = {}
    BY <2>1 DEF Range
  <2>3. trees \in Seq(DOMAIN nodes) /\ new_complete_trees \in Seq(DOMAIN nodes)
    BY DEF SaturationInv, Shape
  <2>4. /\ Range(deleted) = Range(trees) \cup Range(new_complete_trees)
        /\ IsInjective(trees) /\ IsInjective(new_complete_trees)
             /\ Range(trees) \cap Range(new_complete_trees) = {} => IsInjective(deleted)
    BY <2>1, <2>3, RangeConcatenated
  <2> QED BY <2>1, <2>2, <2>4 DEF HeldOnce
<1> QED BY <1>1, SaturationInvariant, NodesInvariant, PTL

-----------------------------------------------------------------------------
(* The trees Group() knows *)

\* A node's scales are numbers, as many of each label as it counts.
NodeOK(node) ==
  /\ node.ratio_index \in RatioIndex
  /\ DOMAIN node.label_counts = DOMAIN labels
  /\ \A l \in DOMAIN labels : /\ IsScales(node.label_scales[l])
                              /\ node.label_counts[l] = Len(node.label_scales[l])
  /\ node.all_labels_count = SumFunctionOnSet(node.label_counts, DOMAIN labels)

\* The factor that a node shrinks by.
ShrinksBy(index, type, node) ==
  IF type = kSplitTypeHorizontal
  THEN Over(ratios[index], ratios[node.ratio_index]) ELSE Whole(1)

LEMMA OneIsNonZero == Whole(1) \in NonZero
BY DEF Whole, NonZero, Numbers

LEMMA ShrinksByIs ==
  ASSUME NEW index \in RatioIndex, NEW type, NEW node, node.ratio_index \in RatioIndex
  PROVE  ShrinksBy(index, type, node) \in NonZero
<1>1. PICK x, y : x = ratios[index] /\ y = ratios[node.ratio_index]
  OBVIOUS
<1>2. /\ x \in Numbers /\ Positive(x) /\ y \in Numbers /\ Positive(y)
  BY <1>1, RatioIsReduced
<1>3. Reciprocal(y) \in Reduced /\ Positive(Reciprocal(y))
  BY <1>2, PositiveReciprocal, ReciprocalIs
<1>4. Reciprocal(y) \in Numbers
  BY <1>3, ReducedIsNumber
<1>5. Times(x, Reciprocal(y)) \in Numbers /\ Positive(Times(x, Reciprocal(y)))
  <2>1. Times(x, Reciprocal(y)) \in Reduced
    BY <1>2, <1>4, RawAre
  <2> QED BY <1>2, <1>3, <1>4, <2>1, PositiveProduct, ReducedIsNumber
<1>6. Over(x, y) \in NonZero
  BY <1>5, PositiveReciprocal DEF Over
<1> QED BY <1>1, <1>6, OneIsNonZero DEF ShrinksBy

LEMMA JoinIs ==
  ASSUME LabelsApart, NEW index \in RatioIndex, NEW type, NEW base, NEW other,
         NodeOK(nodes[base]), NodeOK(nodes[other])
  PROVE  TreeOf(Join(index, type, base, other)) =
           Closure!Joined(TreeOf(nodes[base]), TreeOf(nodes[other]), Complement(index, type))
<1>1. PICK left, right, node : /\ left = nodes[base] /\ right = nodes[other]
                               /\ node = Join(index, type, base, other)
  OBVIOUS
<1>2. PICK u \in NonZero, v \in NonZero : /\ u = ShrinksBy(index, type, left)
                                          /\ v = ShrinksBy(index, type, right)
  BY <1>1, ShrinksByIs DEF NodeOK
<1>3. PICK f, g : f = left.label_scales /\ g = right.label_scales
  OBVIOUS
<1>4. /\ node.ratio_index = index
      /\ node.label_scales = [l \in DOMAIN labels |-> Merged(Scaled(f[l], u), Scaled(g[l], v))]
  <2>1. node.label_scales = [l \in DOMAIN labels |-> Merged(Scaled(left.label_scales[l], u),
                                                           Scaled(right.label_scales[l], v))]
    BY <1>1, <1>2 DEF Join, ShrinksBy
  <2>2. node.ratio_index = index
    BY <1>1, <1>2 DEF Join, ShrinksBy
  <2> QED BY <1>3, <2>1, <2>2
<1>5. \A l \in DOMAIN labels : IsScales(f[l]) /\ IsScales(g[l])
  BY <1>1, <1>3 DEF NodeOK
<1>6. PICK p, q : p = [l \in DOMAIN labels |-> Scaled(f[l], u)]
                  /\ q = [l \in DOMAIN labels |-> Scaled(g[l], v)]
  OBVIOUS
<1>7. \A l \in DOMAIN labels : p[l] = Scaled(f[l], u) /\ q[l] = Scaled(g[l], v)
  BY <1>6
<1>8. Closure!Shrunk(LeafBag(f), u) = LeafBag(p) /\ Closure!Shrunk(LeafBag(g), v) = LeafBag(q)
  BY <1>5, <1>6, ShrunkBag
<1>9. \A l \in DOMAIN labels : IsSequence(p[l]) /\ IsSequence(q[l])
  BY <1>5, <1>7, ScaledIs DEF IsScales
<1>10. Closure!(+)(LeafBag(p), LeafBag(q)) = LeafBag([l \in DOMAIN labels |-> Merged(p[l], q[l])])
  BY <1>9, MergedBag
<1>11. [l \in DOMAIN labels |-> Merged(p[l], q[l])] = node.label_scales
  BY <1>4, <1>7
<1>12. PICK a, b, c : a = TreeOf(left) /\ b = TreeOf(right) /\ c = Complement(index, type)
  OBVIOUS
<1>13. /\ a.ratio_index = left.ratio_index /\ a.leaves = LeafBag(f)
       /\ b.ratio_index = right.ratio_index /\ b.leaves = LeafBag(g)
       /\ c.index = index /\ c.split_type = type
  BY <1>3, <1>12 DEF TreeOf, Complement
<1>14. Closure!Joined(a, b, c) =
         [ratio_index |-> index,
          leaves |-> Closure!(+)(Closure!Shrunk(LeafBag(f), u), Closure!Shrunk(LeafBag(g), v))]
  <2>1. /\ u = IF c.split_type = "horizontal"
               THEN Closure!Over(ratios[c.index], ratios[a.ratio_index]) ELSE Closure!Whole(1)
        /\ v = IF c.split_type = "horizontal"
               THEN Closure!Over(ratios[c.index], ratios[b.ratio_index]) ELSE Closure!Whole(1)
    BY <1>2, <1>13, ClosureNumbers DEF ShrinksBy, kSplitTypeHorizontal
  <2> QED BY <1>13, <2>1 DEF Closure!Joined, Closure!Tree
<1>15. TreeOf(node) = [ratio_index |-> index, leaves |-> LeafBag(node.label_scales)]
  BY <1>4 DEF TreeOf
<1> QED BY <1>1, <1>8, <1>10, <1>11, <1>12, <1>14, <1>15

LEMMA MergedScales ==
  ASSUME NEW s, IsScales(s), NEW t, IsScales(t)
  PROVE  /\ IsScales(Merged(s, t)) /\ Len(Merged(s, t)) = Len(s) + Len(t)
         /\ \A h : h \in Range(Merged(s, t)) <=> h \in Range(s) \/ h \in Range(t)
<1>1. PICK w : w = Merged(s, t)
  OBVIOUS
<1>2. IsSequence(s) /\ IsSequence(t)
  BY DEF IsScales
<1>3. IsSequence(w) /\ Len(w) = Len(s) + Len(t) /\ \A h : Copies(w, h) = Copies(s, h) + Copies(t, h)
  BY <1>1, <1>2, MergedIs
<1>4. \A h : /\ Copies(s, h) \in Nat /\ (Copies(s, h) = 0 <=> h \notin Range(s))
             /\ Copies(t, h) \in Nat /\ (Copies(t, h) = 0 <=> h \notin Range(t))
             /\ Copies(w, h) \in Nat /\ (Copies(w, h) = 0 <=> h \notin Range(w))
  BY <1>2, <1>3, CopiesAre
<1>5. \A h : h \in Range(w) <=> h \in Range(s) \/ h \in Range(t)
  <2> TAKE h
  <2>1. PICK p \in Nat, q \in Nat : p = Copies(s, h) /\ q = Copies(t, h) /\ Copies(w, h) = p + q
    BY <1>3, <1>4
  <2>2. p + q = 0 <=> p = 0 /\ q = 0
    OBVIOUS
  <2> QED BY <1>4, <2>1, <2>2
<1>6. \A n \in DOMAIN w : w[n] \in Reduced
  <2>1. ASSUME NEW n \in DOMAIN w
        PROVE  w[n] \in Reduced
    <3>1. w[n] \in Range(s) \/ w[n] \in Range(t)
      BY <1>5, <2>1 DEF Range
    <3> QED BY <3>1 DEF Range, IsScales
  <2> QED BY <2>1
<1> QED BY <1>1, <1>3, <1>5, <1>6 DEF IsScales

\* The labels share out the rectangles of the group.
LabelsShare ==
  /\ indexes \in Seq(RatioIndex)
  /\ IsSequence(labels) /\ IsFiniteSet(DOMAIN labels)
  /\ LabelsApart
  /\ \A l \in DOMAIN labels :
       /\ labels[l].ratio_index \in RatioIndex
       /\ labels[l].ratio_index \in Range(indexes)
       /\ Len(labels[l].indexes) = Cardinality({n \in DOMAIN indexes : indexes[n] = labels[l].ratio_index})
  /\ \A n \in DOMAIN indexes : \E l \in DOMAIN labels : indexes[n] = labels[l].ratio_index

\* What a node has of the two it joins, which shrink by u and v.
JoinsBoth(node, left, right, u, v) ==
  /\ NodeOK(node)
  /\ \A l \in DOMAIN labels :
       /\ Len(node.label_scales[l]) = left.label_counts[l] + right.label_counts[l]
       /\ \A h : h \in Range(node.label_scales[l]) <=>
                   \/ \E x \in Range(left.label_scales[l]) : h = Times(x, u)
                   \/ \E x \in Range(right.label_scales[l]) : h = Times(x, v)

LEMMA JoinOK ==
  ASSUME LabelsShare, NEW index \in RatioIndex, NEW type, NEW base, NEW other,
         NodeOK(nodes[base]), NodeOK(nodes[other])
  PROVE  JoinsBoth(Join(index, type, base, other), nodes[base], nodes[other],
                   ShrinksBy(index, type, nodes[base]), ShrinksBy(index, type, nodes[other]))
<1>1. PICK left, right, node : /\ left = nodes[base] /\ right = nodes[other]
                               /\ node = Join(index, type, base, other)
  OBVIOUS
<1>2. PICK u \in NonZero, v \in NonZero : /\ u = ShrinksBy(index, type, left)
                                          /\ v = ShrinksBy(index, type, right)
  BY <1>1, ShrinksByIs DEF NodeOK
<1>3. /\ node.ratio_index = index
      /\ node.all_labels_count = left.all_labels_count + right.all_labels_count
      /\ node.label_counts = [l \in DOMAIN labels |-> left.label_counts[l] + right.label_counts[l]]
      /\ node.label_scales = [l \in DOMAIN labels |-> Merged(Scaled(left.label_scales[l], u),
                                                             Scaled(right.label_scales[l], v))]
  BY <1>1, <1>2 DEF Join, ShrinksBy
<1>4. ASSUME NEW l \in DOMAIN labels
      PROVE  /\ IsScales(node.label_scales[l])
             /\ node.label_counts[l] = left.label_counts[l] + right.label_counts[l]
             /\ Len(node.label_scales[l]) = left.label_counts[l] + right.label_counts[l]
             /\ left.label_counts[l] \in Nat /\ right.label_counts[l] \in Nat
             /\ \A h : h \in Range(node.label_scales[l]) <=>
                         \/ \E x \in Range(left.label_scales[l]) : h = Times(x, u)
                         \/ \E x \in Range(right.label_scales[l]) : h = Times(x, v)
  <2>1. PICK f, g, p, q, w : /\ f = left.label_scales[l] /\ g = right.label_scales[l]
                             /\ p = Scaled(f, u) /\ q = Scaled(g, v) /\ w = Merged(p, q)
    OBVIOUS
  <2>2. /\ IsScales(f) /\ left.label_counts[l] = Len(f) /\ IsScales(g) /\ right.label_counts[l] = Len(g)
    BY <1>1, <2>1 DEF NodeOK
  <2>3. /\ IsScales(p) /\ Len(p) = Len(f) /\ \A h : h \in Range(p) <=> \E x \in Range(f) : h = Times(x, u)
    BY <2>1, <2>2, ScaledIs
  <2>4. /\ IsScales(q) /\ Len(q) = Len(g) /\ \A h : h \in Range(q) <=> \E x \in Range(g) : h = Times(x, v)
    BY <2>1, <2>2, ScaledIs
  <2>5. /\ IsScales(w) /\ Len(w) = Len(p) + Len(q)
        /\ \A h : h \in Range(w) <=> h \in Range(p) \/ h \in Range(q)
    BY <2>1, <2>3, <2>4, MergedScales
  <2>6. node.label_scales[l] = w /\ node.label_counts[l] = left.label_counts[l] + right.label_counts[l]
    BY <1>3, <2>1
  <2>7. Len(f) \in Nat /\ Len(g) \in Nat
    BY <2>2 DEF IsScales, IsSequence
  <2> QED BY <2>1, <2>2, <2>3, <2>4, <2>5, <2>6, <2>7
<1>5. node.all_labels_count = SumFunctionOnSet(node.label_counts, DOMAIN labels)
  <2>1. PICK a, b, c : a = left.label_counts /\ b = right.label_counts /\ c = node.label_counts
    OBVIOUS
  <2>2. \A l \in DOMAIN labels : a[l] \in Int /\ b[l] \in Int /\ c[l] = a[l] + b[l]
    BY <1>4, <2>1
  <2>3. SumFunctionOnSet(c, DOMAIN labels) =
          SumFunctionOnSet(a, DOMAIN labels) + SumFunctionOnSet(b, DOMAIN labels)
    BY <2>2, SumOfSums DEF LabelsShare
  <2>4. /\ left.all_labels_count = SumFunctionOnSet(a, DOMAIN labels)
        /\ right.all_labels_count = SumFunctionOnSet(b, DOMAIN labels)
    BY <1>1, <2>1 DEF NodeOK
  <2> QED BY <1>3, <2>1, <2>3, <2>4
<1>6. NodeOK(node)
  <2>1. \A l \in DOMAIN labels : IsScales(node.label_scales[l])
                                 /\ node.label_counts[l] = Len(node.label_scales[l])
    BY <1>4
  <2>2. node.ratio_index \in RatioIndex /\ DOMAIN node.label_counts = DOMAIN labels
    BY <1>3
  <2> QED BY <1>5, <2>1, <2>2 DEF NodeOK
<1>7. JoinsBoth(node, left, right, u, v)
  BY <1>4, <1>6 DEF JoinsBoth
<1> QED BY <1>1, <1>2, <1>7

\* A leaf of label l and height h is not too small in a tree of ratio index.
Tall(index, type, l, h) ==
  IF type = kSplitTypeHorizontal
  THEN AtMost(min_hscale, h)
  ELSE AtMost(min_wscale, Over(Times(h, ratios[labels[l].ratio_index]), ratios[index]))

LEMMA BigEnoughIs ==
  ASSUME LabelsApart, NEW type, NEW node
  PROVE  Closure!BigEnough(TreeOf(node), type) <=>
           \A l \in DOMAIN labels : \A h \in Range(node.label_scales[l]) :
             Tall(node.ratio_index, type, l, h)
<1>1. PICK B, f, index : B = LeafBag(f) /\ f = node.label_scales /\ index = node.ratio_index
  OBVIOUS
<1> DEFINE Big(leaf) ==
             IF type = kSplitTypeHorizontal
             THEN AtMost(min_hscale, leaf[2])
             ELSE AtMost(min_wscale, Over(Times(leaf[2], ratios[leaf[1]]), ratios[index]))
<1>2. Closure!BigEnough(TreeOf(node), type) <=> \A leaf \in DOMAIN B : Big(leaf)
  <2>1. TreeOf(node).leaves = B /\ TreeOf(node).ratio_index = index
    BY <1>1 DEF TreeOf
  <2> QED BY <2>1, ClosureNumbers DEF Closure!BigEnough, kSplitTypeHorizontal
<1>3. \A l, h : Big(<<labels[l].ratio_index, h>>) <=> Tall(index, type, l, h)
  BY DEF Tall
<1> HIDE DEF Big
<1>4. /\ \A l \in DOMAIN labels : \A h \in Range(f[l]) : <<labels[l].ratio_index, h>> \in DOMAIN B
      /\ \A x \in DOMAIN B : \E l \in DOMAIN labels : \E h \in Range(f[l]) : x = <<labels[l].ratio_index, h>>
  BY <1>1, LeafBagIs
<1>5. (\A leaf \in DOMAIN B : Big(leaf)) <=>
        \A l \in DOMAIN labels : \A h \in Range(f[l]) : Big(<<labels[l].ratio_index, h>>)
  BY <1>4
<1> QED BY <1>1, <1>2, <1>3, <1>5

LEMMA UnconstrainedIs ==
  ASSUME LabelsShare, NEW index \in RatioIndex, NEW type, NEW base, NEW other,
         NodeOK(nodes[base]), NodeOK(nodes[other])
  PROVE  IsUnconstrained(index, type, nodes[base], nodes[other]) <=>
           Closure!BigEnough(TreeOf(Join(index, type, base, other)), type)
<1>1. PICK left, right, node : /\ left = nodes[base] /\ right = nodes[other]
                               /\ node = Join(index, type, base, other)
  OBVIOUS
<1> DEFINE TallIn(tree) == \A l \in DOMAIN labels : \A m \in DOMAIN tree.label_scales[l] :
                             Tall(index, type, l, Times(tree.label_scales[l][m], ShrinksBy(index, type, tree)))
<1>2. ASSUME NEW tree, NodeOK(tree)
      PROVE  TallIn(tree) <=>
               \A l \in DOMAIN labels : \A m \in DOMAIN tree.label_scales[l] :
                 LET scale == tree.label_scales[l][m]
                 IN  IF type = kSplitTypeHorizontal
                     THEN AtMost(min_hscale, Times(scale, Over(ratios[index], ratios[tree.ratio_index])))
                     ELSE AtMost(min_wscale,
                                 Over(Times(scale, ratios[labels[l].ratio_index]), ratios[index]))
  <2>1. \A l \in DOMAIN labels : \A m \in DOMAIN tree.label_scales[l] :
          tree.label_scales[l][m] \in Reduced
    BY <1>2 DEF NodeOK, IsScales
  <2>2. CASE type = kSplitTypeHorizontal
    BY <2>2 DEF Tall, ShrinksBy
  <2>3. CASE type # kSplitTypeHorizontal
    <3>1. \A x \in Reduced : Times(x, ShrinksBy(index, type, tree)) = x
      BY <2>3, Neutral DEF ShrinksBy
    <3> QED BY <2>1, <2>3, <3>1 DEF Tall
  <2> QED BY <2>2, <2>3
<1>3. IsUnconstrained(index, type, left, right) <=> TallIn(left) /\ TallIn(right)
  BY <1>1, <1>2 DEF IsUnconstrained
<1>4. ASSUME NEW tree
      PROVE  TallIn(tree) <=> \A l \in DOMAIN labels : \A x \in Range(tree.label_scales[l]) :
                                Tall(index, type, l, Times(x, ShrinksBy(index, type, tree)))
  BY DEF Range
<1> HIDE DEF TallIn
<1>5. Closure!BigEnough(TreeOf(node), type) <=>
        \A l \in DOMAIN labels : \A h \in Range(node.label_scales[l]) : Tall(index, type, l, h)
  <2>1. LabelsApart
    BY DEF LabelsShare
  <2>2. node.ratio_index = index
    BY <1>1 DEF Join
  <2> QED BY <2>1, <2>2, BigEnoughIs
<1>6. \A l \in DOMAIN labels : \A h : h \in Range(node.label_scales[l]) <=>
        \/ \E x \in Range(left.label_scales[l]) : h = Times(x, ShrinksBy(index, type, left))
        \/ \E x \in Range(right.label_scales[l]) : h = Times(x, ShrinksBy(index, type, right))
  <2>1. JoinsBoth(node, left, right, ShrinksBy(index, type, left), ShrinksBy(index, type, right))
    BY <1>1, JoinOK
  <2> QED BY <2>1 DEF JoinsBoth
<1>7. Closure!BigEnough(TreeOf(node), type) <=> TallIn(left) /\ TallIn(right)
  <2> DEFINE Part(tree, l) == \A x \in Range(tree.label_scales[l]) :
                                Tall(index, type, l, Times(x, ShrinksBy(index, type, tree)))
  <2>1. ASSUME NEW l \in DOMAIN labels
        PROVE  (\A h \in Range(node.label_scales[l]) : Tall(index, type, l, h))
                 <=> Part(left, l) /\ Part(right, l)
    <3> DEFINE By(tree) == {Times(x, ShrinksBy(index, type, tree)) : x \in Range(tree.label_scales[l])}
    <3>1. Range(node.label_scales[l]) = By(left) \cup By(right)
      BY <1>6, <2>1
    <3>2. /\ Part(left, l) <=> \A h \in By(left) : Tall(index, type, l, h)
          /\ Part(right, l) <=> \A h \in By(right) : Tall(index, type, l, h)
      OBVIOUS
    <3> HIDE DEF By, Part
    <3> QED BY <3>1, <3>2
  <2>2. /\ TallIn(left) <=> \A l \in DOMAIN labels : Part(left, l)
        /\ TallIn(right) <=> \A l \in DOMAIN labels : Part(right, l)
    BY <1>4
  <2> HIDE DEF Part
  <2> QED BY <1>5, <2>1, <2>2
<1> QED BY <1>1, <1>3, <1>7

LEMMA LeavesOfLabel ==
  ASSUME LabelsApart, NEW f, NEW l \in DOMAIN labels, IsSequence(f[l])
  PROVE  Closure!LeavesOfRatio(LeafBag(f), labels[l].ratio_index) = Len(f[l])
<1>1. PICK B, r, s : B = LeafBag(f) /\ r = labels[l].ratio_index /\ s = f[l]
  OBVIOUS
<1>2. PICK L \in Nat : L = Len(s) /\ DOMAIN s = 1 .. L
  BY <1>1 DEF IsSequence
<1>3. PICK K : K = {x \in DOMAIN B : x[1] = r}
  OBVIOUS
<1>4. \A h \in Range(s) : <<r, h>> \in DOMAIN B /\ B[<<r, h>>] = Copies(s, h)
  BY <1>1, LeafBagIs
<1>5. \A x \in K : \E h \in Range(s) : x = <<r, h>>
  <2> SUFFICES ASSUME NEW x \in K
               PROVE  \E h \in Range(s) : x = <<r, h>>
    OBVIOUS
  <2>1. x \in DOMAIN B /\ x[1] = r
    BY <1>3
  <2>2. PICK m \in DOMAIN labels : \E h \in Range(f[m]) : x = <<labels[m].ratio_index, h>>
    BY <1>1, <2>1, LeafBagIs
  <2>3. PICK h \in Range(f[m]) : x = <<labels[m].ratio_index, h>>
    BY <2>2
  <2>4. x[1] = labels[m].ratio_index
    BY <2>3
  <2>5. m = l
    BY <1>1, <2>1, <2>4 DEF LabelsApart
  <2> QED BY <1>1, <2>3, <2>5
<1>6. \A h \in Range(s) : <<r, h>> \in K
  BY <1>3, <1>4
<1>7. IsFiniteSet(K)
  <2>1. IsFiniteSet(1 .. L)
    BY FS_Interval
  <2>2. K = {<<r, s[n]>> : n \in 1 .. L}
    BY <1>2, <1>5, <1>6 DEF Range
  <2> DEFINE to == [n \in 1 .. L |-> <<r, s[n]>>]
  <2>3. to \in Surjection(1 .. L, K)
    BY <2>2 DEF Surjection
  <2> HIDE DEF to
  <2> QED BY <2>1, <2>3, FS_Surjection
<1>8. PICK key : key = [x \in K |-> x[2]]
  OBVIOUS
<1>9. \A x \in K : key[x] = x[2] /\ x = <<r, x[2]>> /\ x[2] \in Range(s)
  BY <1>5, <1>8
<1>10. \A x, y \in K : key[x] = key[y] => x = y
  BY <1>9
<1>11. \A x \in K : B[x] = Cardinality({n \in 1 .. L : s[n] = key[x]})
  <2> SUFFICES ASSUME NEW x \in K
               PROVE  B[x] = Cardinality({n \in 1 .. L : s[n] = key[x]})
    OBVIOUS
  <2>1. PICK h \in Range(s) : h = x[2] /\ x = <<r, h>> /\ key[x] = h
    BY <1>9
  <2>2. B[x] = Copies(s, h)
    BY <1>4, <2>1
  <2> QED BY <1>2, <2>1, <2>2 DEF Copies
<1>12. \A n \in 1 .. L : \E x \in K : s[n] = key[x]
  <2> SUFFICES ASSUME NEW n \in 1 .. L
               PROVE  \E x \in K : s[n] = key[x]
    OBVIOUS
  <2>1. <<r, s[n]>> \in K
    BY <1>2, <1>6 DEF Range
  <2>2. <<r, s[n]>>[2] = s[n]
    OBVIOUS
  <2> QED BY <1>9, <2>1, <2>2
<1>13. IsFiniteSet(1 .. L) /\ Cardinality(1 .. L) = L
  BY FS_Interval
<1>14. SumFunctionOnSet(B, K) = L
  <2>1. PICK D : D = 1 .. L
    OBVIOUS
  <2>2. /\ \A x \in K : B[x] = Cardinality({n \in D : s[n] = key[x]})
        /\ \A n \in D : \E x \in K : s[n] = key[x]
        /\ IsFiniteSet(D) /\ Cardinality(D) = L
    BY <1>11, <1>12, <1>13, <2>1
  <2>3. SumFunctionOnSet(B, K) = Cardinality(D)
    <3>1. Counts(D, s, K, key, B)
      BY <1>10, <2>2 DEF Counts
    <3> QED BY <1>7, <2>2, <3>1, SumOfCounts
  <2> QED BY <2>2, <2>3
<1>15. Closure!LeavesOfRatio(B, r) = SumFunctionOnSet(B, K)
  BY <1>3, ClosureSums DEF Closure!LeavesOfRatio
<1> QED BY <1>1, <1>2, <1>14, <1>15

\* No leaf is of a ratio that no label has.
LEMMA LeavesOfNoLabel ==
  ASSUME LabelsApart, NEW f, NEW r, \A l \in DOMAIN labels : labels[l].ratio_index # r
  PROVE  Closure!LeavesOfRatio(LeafBag(f), r) = 0
<1>1. PICK B : B = LeafBag(f)
  OBVIOUS
<1>2. {x \in DOMAIN B : x[1] = r} = {}
  <2> SUFFICES ASSUME NEW x \in DOMAIN B, x[1] = r
               PROVE  FALSE
    OBVIOUS
  <2>1. PICK m \in DOMAIN labels : \E h \in Range(f[m]) : x = <<labels[m].ratio_index, h>>
    BY <1>1, LeafBagIs
  <2>2. x[1] = labels[m].ratio_index
    BY <2>1
  <2> QED BY <2>2
<1>3. Closure!LeavesOfRatio(B, r) = SumFunctionOnSet(B, {x \in DOMAIN B : x[1] = r})
  BY ClosureSums DEF Closure!LeavesOfRatio
<1> QED BY <1>1, <1>2, <1>3, SumEmpty

LEMMA ClosureCounts == \A S : Closure!Cardinality(S) = Cardinality(S)
BY DEF Closure!Cardinality, Cardinality

LEMMA FitsIs ==
  ASSUME LabelsShare, pc \notin {"construct", "call"},
         NEW f, \A l \in DOMAIN labels : IsSequence(f[l])
  PROVE  Closure!Fits(LeafBag(f)) <=>
           \A l \in DOMAIN labels : Len(f[l]) =< Len(labels[l].indexes)
<1>1. PICK B : B = LeafBag(f)
  OBVIOUS
<1> DEFINE OfRatio(r) == {n \in DOMAIN indexes : indexes[n] = r}
           Few(r) == Closure!LeavesOfRatio(B, r) =< Cardinality(OfRatio(r))
<1>2. Closure!Fits(B) <=> \A r \in RatioIndex : Few(r)
  <2>1. DOMAIN ratios = RatioIndex
    BY DEF ratios
  <2>2. \A r : {n \in DOMAIN Called : Called[n] = r} = OfRatio(r)
    BY DEF Called
  <2> HIDE DEF OfRatio
  <2> QED BY <2>1, <2>2, ClosureCounts DEF Closure!Fits
<1>3. \A l \in DOMAIN labels :
        Few(labels[l].ratio_index) <=> Len(f[l]) =< Len(labels[l].indexes)
  <2> SUFFICES ASSUME NEW l \in DOMAIN labels
               PROVE  Few(labels[l].ratio_index) <=> Len(f[l]) =< Len(labels[l].indexes)
    OBVIOUS
  <2>1. Closure!LeavesOfRatio(B, labels[l].ratio_index) = Len(f[l])
    BY <1>1, LeavesOfLabel DEF LabelsShare
  <2>2. Len(labels[l].indexes) = Cardinality(OfRatio(labels[l].ratio_index))
    BY DEF LabelsShare
  <2> QED BY <2>1, <2>2
<1>4. \A r \in RatioIndex : (\A l \in DOMAIN labels : labels[l].ratio_index # r) => Few(r)
  <2> SUFFICES ASSUME NEW r \in RatioIndex, \A l \in DOMAIN labels : labels[l].ratio_index # r
               PROVE  Few(r)
    OBVIOUS
  <2>1. Closure!LeavesOfRatio(B, r) = 0
    BY <1>1, LeavesOfNoLabel DEF LabelsShare
  <2>2. PICK size \in Nat : DOMAIN indexes = 1 .. size
    BY DEF LabelsShare
  <2>3. IsFiniteSet(1 .. size)
    BY FS_Interval
  <2>4. OfRatio(r) \in SUBSET (1 .. size)
    BY <2>2
  <2> HIDE DEF OfRatio
  <2>5. IsFiniteSet(OfRatio(r))
    BY <2>3, <2>4, FS_Subset
  <2>6. Cardinality(OfRatio(r)) \in Nat
    BY <2>5, FS_CardinalityType
  <2> QED BY <2>1, <2>6
<1> HIDE DEF Few
<1>5. \A l \in DOMAIN labels : labels[l].ratio_index \in RatioIndex
  BY DEF LabelsShare
<1> QED BY <1>1, <1>2, <1>3, <1>4, <1>5
-----------------------------------------------------------------------------
(* What holds of them *)

\* A pair of trees that fits the group has at most two joins, those there are.
LEMMA PairJoins ==
  ASSUME MapInv, Built, InArray, NEW b \in DOMAIN nodes, NEW o \in DOMAIN nodes,
         nodes[b].ratio_index \in RatioIndex, nodes[o].ratio_index \in RatioIndex,
         nodes[b].all_labels_count + nodes[o].all_labels_count =< Len(indexes),
         NEW word, word = PairWord(nodes[b], nodes[o])
  PROVE  /\ SplitCount(word) \in Nat /\ SplitCount(word) =< 2
         /\ DOMAIN Complements(word) = 1 .. SplitCount(word)
         /\ Range(Complements(word)) = Joins(nodes[b].ratio_index, nodes[o].ratio_index)
<1>1. PICK x \in RatioIndex, y \in RatioIndex : /\ x = nodes[b].ratio_index /\ y = nodes[o].ratio_index
  OBVIOUS
<1>2. InBounds(x, y)
  BY <1>1 DEF InArray
<1>3. word = FlatWord(HashRatioIndexesCompact(x, y))
  BY <1>1 DEF PairWord
<1>4. Range(Complements(word)) = Joins(x, y)
  BY <1>2, <1>3, MapIsComplete
<1>5. SplitCount(word) \in Nat /\ SplitCount(word) =< 2
  <2>1. PICK p \in RatioIndex, q \in RatioIndex : /\ p =< q
                                                  /\ HashRatioIndexesCompact(p, q) = HashRatioIndexesCompact(x, y)
    <3>1. x \in Int /\ y \in Int
      BY DEF RatioIndex
    <3>2. CASE x =< y
      BY <3>2
    <3>3. CASE ~(x =< y)
      <4>1. y =< x /\ y < x
        BY <3>1, <3>3
      <4>2. /\ Lesser(x, y) = y /\ Greater(x, y) = x /\ Lesser(y, x) = y /\ Greater(y, x) = x
        BY <3>1, <4>1 DEF Lesser, Greater
      <4>3. HashRatioIndexesCompact(y, x) = HashRatioIndexesCompact(x, y)
        BY <4>2 DEF HashRatioIndexesCompact
      <4> QED BY <4>1, <4>3
    <3> QED BY <3>2, <3>3
  <2>2. InBounds(p, q)
    BY <1>2, <2>1 DEF InBounds
  <2>3. PICK made : made = Made(HashRatioIndexes(p, q))
    OBVIOUS
  <2>4. SplitCount(word) = Len(made) /\ Len(made) \in Nat /\ Len(made) =< 2
    BY <1>3, <2>1, <2>2, <2>3, MapUnpacks
  <2> QED BY <2>4
<1>6. DOMAIN Complements(word) = 1 .. SplitCount(word)
  BY DEF Complements
<1> QED BY <1>1, <1>4, <1>5, <1>6

\* The labels are those of the group the constructor was given.
LabelsInv ==
  /\ pc = "construct" => indexes = <<>>
  /\ pc # "construct" =>
       /\ Built /\ LabelsShare
       /\ \E g \in RatioGroups : \E order \in Bijection(DOMAIN g, DOMAIN g) :
            indexes = [n \in DOMAIN g |-> g[order[n]]]

\* The nodes are joins of earlier ones, filed under hash values.
TreesInv ==
  /\ \A n \in DOMAIN nodes : /\ NodeOK(nodes[n])
                             /\ nodes[n].left \in 0 .. n - 1 /\ nodes[n].right \in 0 .. n - 1
  /\ \A h \in DOMAIN exists_lookup : h \in 0 .. HashSize - 1
  /\ k \in {0, 1}
  /\ \A p \in DOMAIN new_complete_trees :
       nodes[new_complete_trees[p]].all_labels_count = Len(indexes)

\* The inductive invariant for Grouper.TypeOK, given SaturationInv and InArray.
TypeInv == MapInv /\ LabelsInv /\ TreesInv

LEMMA HashIsOne ==
  ASSUME IsSequence(labels), IsFiniteSet(DOMAIN labels), NEW node, NodeOK(node)
  PROVE  GenerateHash(node) \in 0 .. HashSize - 1
<1>1. PICK counts, scales, index : /\ counts = node.label_counts /\ scales = node.label_scales
                                   /\ index = node.ratio_index
  OBVIOUS
<1>2. /\ index \in Int /\ DOMAIN counts = DOMAIN labels
      /\ \A l \in DOMAIN labels : IsScales(scales[l]) /\ counts[l] = Len(scales[l])
  BY <1>1 DEF NodeOK, RatioIndex
<1> DEFINE Ints(s) == [m \in DOMAIN s |-> (2 * m + 1) * (s[m][1] + 3 * s[m][2] + 7 * s[m][3])]
           Digest(s) == SumFunction(Ints(s))
           Digests == [l \in DOMAIN counts |-> (2 * l + 1) * (counts[l] + 3 * Digest(scales[l]))]
<1>3. GenerateHash(node) = (index + 5 * SumFunction(Digests)) % HashSize
  BY <1>1 DEF GenerateHash, HashOf
<1>4. ASSUME NEW l \in DOMAIN labels
      PROVE  Digest(scales[l]) \in Int
  <2>a. PICK s : s = scales[l]
    OBVIOUS
  <2>b. IsScales(s)
    BY <1>2, <2>a
  <2>1. PICK L \in Nat : DOMAIN s = 1 .. L /\ \A m \in 1 .. L : s[m] \in Reduced
    BY <2>b DEF IsScales, IsSequence
  <2>2. PICK f : f = Ints(s)
    OBVIOUS
  <2>3. DOMAIN f = 1 .. L
    BY <2>1, <2>2
  <2>4. \A m \in 1 .. L : f[m] \in Int
    <3> SUFFICES ASSUME NEW m \in 1 .. L
                 PROVE  f[m] \in Int
      OBVIOUS
    <3>1. s[m] \in Numbers
      BY <2>1, ReducedIsNumber
    <3>2. PICK a \in Int, b \in Int, c \in Int : a = s[m][1] /\ b = s[m][2] /\ c = s[m][3]
      BY <3>1 DEF Numbers
    <3>3. f[m] = (2 * m + 1) * (a + 3 * b + 7 * c)
      BY <2>1, <2>2, <3>2
    <3>4. 2 * m + 1 \in Int /\ a + 3 * b + 7 * c \in Int
      OBVIOUS
    <3>5. \A x, y \in Int : x * y \in Int
      OBVIOUS
    <3> QED BY <3>3, <3>4, <3>5
  <2>5. IsFiniteSet(1 .. L)
    BY FS_Interval
  <2>6. SumFunctionOnSet(f, 1 .. L) \in Int
    BY <2>4, <2>5, SumIsInt
  <2>7. SumFunction(f) = SumFunctionOnSet(f, 1 .. L)
    BY <2>3 DEF SumFunction
  <2> QED BY <2>a, <2>2, <2>6, <2>7
<1>5. \A l \in DOMAIN labels : Digests[l] \in Int
  <2> SUFFICES ASSUME NEW l \in DOMAIN labels
               PROVE  Digests[l] \in Int
    OBVIOUS
  <2>a. l \in Int
    BY DEF IsSequence
  <2>b. PICK s : s = scales[l]
    OBVIOUS
  <2>c. IsScales(s) /\ counts[l] = Len(s)
    BY <1>2, <2>b
  <2>1. counts[l] \in Int
    BY <2>c DEF IsScales, IsSequence
  <2>2. PICK d \in Int : d = Digest(scales[l])
    BY <1>4
  <2> HIDE DEF Digest
  <2>3. Digests[l] = (2 * l + 1) * (counts[l] + 3 * d)
    BY <1>2, <2>2
  <2>4. 2 * l + 1 \in Int /\ counts[l] + 3 * d \in Int
    BY <2>a, <2>1
  <2>5. \A x, y \in Int : x * y \in Int
    OBVIOUS
  <2> QED BY <2>3, <2>4, <2>5
<1>6. DOMAIN Digests = DOMAIN labels
  BY <1>2
<1> HIDE DEF Digests, Digest, Ints
<1>7. SumFunction(Digests) \in Int
  <2>1. SumFunctionOnSet(Digests, DOMAIN labels) \in Int
    BY <1>5, SumIsInt
  <2> QED BY <1>6, <2>1 DEF SumFunction
<1>8. PICK sum \in Int : sum = SumFunction(Digests)
  BY <1>7
<1>9. (index + 5 * sum) % HashSize \in 0 .. HashSize - 1
  <2>1. index + 5 * sum \in Int
    BY <1>2
  <2> QED BY <2>1, HashSizeAssumption
<1> QED BY <1>3, <1>8, <1>9
-----------------------------------------------------------------------------
(* The actions *)

LEMMA NodeStays ==
  ASSUME UNCHANGED labels, NEW x, NodeOK(x)
  PROVE  NodeOK(x)'
BY DEF NodeOK

LEMMA TreesStay ==
  ASSUME TreesInv, UNCHANGED <<labels, indexes, nodes, exists_lookup, new_complete_trees>>,
         k' \in {0, 1}
  PROVE  TreesInv'
<1>1. \A n \in DOMAIN nodes : NodeOK(nodes[n])'
  <2> SUFFICES ASSUME NEW n \in DOMAIN nodes
               PROVE  NodeOK(nodes[n])'
    OBVIOUS
  <2>1. PICK x : x = nodes[n]
    OBVIOUS
  <2>2. NodeOK(x)'
    BY <2>1, NodeStays DEF TreesInv
  <2> QED BY <2>1, <2>2
<1> QED BY <1>1 DEF TreesInv

LEMMA LabelsStay ==
  ASSUME LabelsInv, UNCHANGED <<labels, indexes, row>>, pc = "construct" <=> pc' = "construct"
  PROVE  LabelsInv'
BY DEF LabelsInv, LabelsShare, LabelsApart, Built

LEMMA InitTypes ==
  ASSUME Init
  PROVE  TypeInv
<1>1. MapInv
  BY MapInitInv DEF Init
<1>2. pc = "construct" /\ indexes = <<>> /\ nodes = <<>> /\ new_complete_trees = <<>>
      /\ exists_lookup = << >> /\ k = 0
  BY DEF Init
<1>3. LabelsInv
  BY <1>2 DEF LabelsInv
<1>4. TreesInv
  BY <1>2 DEF TreesInv
<1> QED BY <1>1, <1>3, <1>4 DEF TypeInv

LEMMA BuildMapTypes ==
  ASSUME TypeInv, BuildMap
  PROVE  TypeInv'
<1>1. /\ pc = "construct" /\ pc' = "construct" /\ MapNext
      /\ UNCHANGED <<labels, indexes, nodes, exists_lookup, new_complete_trees, k>>
  BY DEF BuildMap, group_vars
<1>2. MapInv'
  BY <1>1, MapStepInv DEF TypeInv
<1>3. LabelsInv'
  BY <1>1 DEF TypeInv, LabelsInv
<1>4. TreesInv'
  <2>1. k' \in {0, 1}
    BY <1>1 DEF TypeInv, TreesInv
  <2> QED BY <1>1, <2>1, TreesStay DEF TypeInv
<1> QED BY <1>2, <1>3, <1>4 DEF TypeInv

LEMMA LabelIndexesTypes ==
  ASSUME SaturationInv, TypeInv, LabelIndexes
  PROVE  TypeInv'
<1>1. /\ pc = "construct" /\ pc' = "call" /\ Built
      /\ UNCHANGED <<map_vars, nodes, exists_lookup, new_complete_trees, k>>
  BY DEF LabelIndexes
<1>2. nodes = <<>> /\ new_complete_trees = <<>>
  BY <1>1 DEF SaturationInv, Fresh
<1>3. MapInv'
  BY <1>1, MapStepInv DEF TypeInv
<1>4. /\ indexes' \in Seq(RatioIndex) /\ labels' = LabelsOf(indexes')
      /\ \E g \in RatioGroups : \E order \in Bijection(DOMAIN g, DOMAIN g) :
           indexes' = [n \in DOMAIN g |-> g[order[n]]]
  BY LabelIndexesAre
<1>5. LabelsShare'
  <2>1. PICK s, L : s = indexes' /\ L = labels'
    OBVIOUS
  <2>2. s \in Seq(RatioIndex) /\ L = LabelsOf(s)
    BY <1>4, <2>1
  <2>3. /\ IsSequence(L) /\ IsFiniteSet(DOMAIN L)
        /\ \A l, m \in DOMAIN L : L[l].ratio_index = L[m].ratio_index => l = m
        /\ \A l \in DOMAIN L :
             /\ L[l].ratio_index \in RatioIndex
             /\ L[l].ratio_index \in Range(s)
             /\ Len(L[l].indexes) = Cardinality({n \in DOMAIN s : s[n] = L[l].ratio_index})
        /\ \A n \in DOMAIN s : \E l \in DOMAIN L : s[n] = L[l].ratio_index
    BY <2>2, LabelsAre
  <2> QED BY <2>1, <2>2, <2>3 DEF LabelsShare, LabelsApart
<1>6. LabelsInv'
  <2>1. Built'
    BY <1>1 DEF map_vars, Built
  <2> QED BY <1>1, <1>4, <1>5, <2>1 DEF LabelsInv
<1>7. TreesInv'
  BY <1>1, <1>2 DEF TypeInv, TreesInv
<1> QED BY <1>3, <1>6, <1>7 DEF TypeInv

LEMMA LeafOK ==
  ASSUME LabelsShare, NEW size, DOMAIN labels = 1 .. size, NEW l \in 1 .. size,
         NEW node, node = Leaf(size, labels[l].ratio_index, l)
  PROVE  NodeOK(node)
<1>1. /\ node.ratio_index = labels[l].ratio_index /\ node.left = 0 /\ node.right = 0
      /\ node.all_labels_count = 1
      /\ node.label_counts = [m \in 1 .. size |-> IF m = l THEN 1 ELSE 0]
      /\ node.label_scales = [m \in 1 .. size |-> IF m = l THEN <<Whole(1)>> ELSE <<>>]
  BY DEF Leaf
<1>2. PICK counts, scales : counts = node.label_counts /\ scales = node.label_scales
  OBVIOUS
<1>3. \A m \in 1 .. size : /\ counts[m] = IF m = l THEN 1 ELSE 0
                           /\ scales[m] = IF m = l THEN <<Whole(1)>> ELSE <<>>
  BY <1>1, <1>2
<1>4. PICK one \in Reduced : one = Whole(1)
  BY WholeIsReduced
<1>5. IsScales(<<one>>) /\ Len(<<one>>) = 1
  <2>1. <<one>> \in Seq(Reduced) /\ Len(<<one>>) = 1
    OBVIOUS
  <2>2. IsSequence(<<one>>)
    BY <2>1, SequenceIs
  <2> QED BY <2>1, <2>2 DEF IsScales
<1>6. IsScales(<<>>) /\ Len(<<>>) = 0
  BY DEF IsScales, IsSequence
<1>7. \A m \in 1 .. size : IsScales(scales[m]) /\ counts[m] = Len(scales[m])
  BY <1>3, <1>4, <1>5, <1>6
<1>8. SumFunctionOnSet(counts, 1 .. size) = 1
  <2>1. IsFiniteSet(1 .. size) /\ \A m \in 1 .. size : counts[m] \in Int
    BY <1>3 DEF LabelsShare
  <2>2. {l} \in SUBSET (1 .. size) /\ \A m \in (1 .. size) \ {l} : counts[m] = 0
    BY <1>3
  <2>3. SumFunctionOnSet(counts, 1 .. size) = SumFunctionOnSet(counts, {l})
    BY <2>1, <2>2, SumZeros
  <2>4. IsFiniteSet({l}) /\ \A m \in {l} : counts[m] \in Int
    BY <2>1, FS_Singleton
  <2>5. SumFunctionOnSet(counts, {l}) = counts[l] + SumFunctionOnSet(counts, {l} \ {l})
    BY <2>4, SumFirst
  <2>6. {l} \ {l} = {} /\ counts[l] = 1
    BY <1>3
  <2>7. SumFunctionOnSet(counts, {l} \ {l}) = 0
    BY <2>6, SumEmpty
  <2> QED BY <2>3, <2>5, <2>6, <2>7
<1> QED BY <1>1, <1>2, <1>7, <1>8 DEF NodeOK, LabelsShare

LEMMA BuildLeavesTypes ==
  ASSUME SaturationInv, TypeInv, BuildLeaves
  PROVE  TypeInv'
<1>1. PICK size \in Nat : size = Len(labels) /\ DOMAIN labels = 1 .. size
  BY DEF SaturationInv, Shape, IsSequence
<1>2. /\ pc = "call" /\ nodes' = [l \in 1 .. size |-> Leaf(size, labels[l].ratio_index, l)]
      /\ exists_lookup' = LeafLookup(nodes') /\ pc' \in {"group", "delete"}
      /\ UNCHANGED <<map_vars, labels, indexes, new_complete_trees, k>>
  BY <1>1 DEF BuildLeaves
<1>3. new_complete_trees = <<>> /\ k = 0
  BY <1>2 DEF SaturationInv, Fresh
<1>4. LabelsShare
  BY <1>2 DEF TypeInv, LabelsInv
<1>5. MapInv'
  BY <1>2, MapStepInv DEF TypeInv
<1>6. LabelsInv'
  BY <1>2, LabelsStay DEF TypeInv, map_vars
<1>7. DOMAIN nodes' = 1 .. size
  BY <1>2
<1>8. ASSUME NEW n \in 1 .. size
      PROVE  /\ NodeOK(nodes[n])' /\ nodes'[n].left = 0 /\ nodes'[n].right = 0
             /\ GenerateHash(nodes'[n]) \in 0 .. HashSize - 1
  <2>1. PICK x : x = nodes'[n] /\ x = Leaf(size, labels[n].ratio_index, n)
    BY <1>2
  <2>a. NodeOK(x)
    BY <1>1, <1>4, <2>1, LeafOK
  <2>2. NodeOK(x) /\ x.left = 0 /\ x.right = 0
    BY <2>1, <2>a DEF Leaf
  <2>3. NodeOK(x)'
    BY <1>2, <2>2, NodeStays
  <2>4. GenerateHash(x) \in 0 .. HashSize - 1
    BY <1>4, <2>2, HashIsOne DEF LabelsShare
  <2> QED BY <2>1, <2>2, <2>3, <2>4
<1>9. \A h \in DOMAIN exists_lookup' : h \in 0 .. HashSize - 1
  BY <1>2, <1>7, <1>8 DEF LeafLookup
<1>10. TreesInv'
  <2>1. \A n \in 1 .. size : 0 \in 0 .. n - 1
    BY <1>1
  <2> QED BY <1>2, <1>3, <1>7, <1>8, <1>9, <2>1 DEF TreesInv
<1> QED BY <1>5, <1>6, <1>10 DEF TypeInv

\* The loops are at a pair of trees with a join or two.
LEMMA AtJoins ==
  ASSUME SaturationInv, TypeInv, InArray, InRound, Pairable,
         NEW base, base = BaseId, NEW other, other = OtherId,
         NEW word, word = PairWord(nodes[base], nodes[other])
  PROVE  /\ base \in DOMAIN nodes /\ other \in DOMAIN nodes /\ LabelsShare /\ Built
         /\ NodeOK(nodes[base]) /\ NodeOK(nodes[other])
         /\ nodes[base].all_labels_count + nodes[other].all_labels_count =< Len(indexes)
         /\ SplitCount(word) \in Nat /\ SplitCount(word) =< 2 /\ k < SplitCount(word)
         /\ DOMAIN Complements(word) = 1 .. SplitCount(word)
         /\ Range(Complements(word)) = Joins(nodes[base].ratio_index, nodes[other].ratio_index)
<1>1. base \in DOMAIN nodes /\ other \in DOMAIN nodes
  BY AtPair DEF SaturationInv
<1>2. NodeOK(nodes[base]) /\ NodeOK(nodes[other])
  BY <1>1 DEF TypeInv, TreesInv
<1>3. LabelsShare /\ Built
  BY DEF TypeInv, LabelsInv, InRound
<1>4. /\ nodes[base].all_labels_count + nodes[other].all_labels_count =< Len(indexes)
      /\ k < SplitCount(word)
  BY DEF Pairable, Joinable
<1>5. nodes[base].ratio_index \in RatioIndex /\ nodes[other].ratio_index \in RatioIndex
  BY <1>2 DEF NodeOK
<1>6. /\ SplitCount(word) \in Nat /\ SplitCount(word) =< 2
      /\ DOMAIN Complements(word) = 1 .. SplitCount(word)
      /\ Range(Complements(word)) = Joins(nodes[base].ratio_index, nodes[other].ratio_index)
  BY <1>1, <1>3, <1>4, <1>5, PairJoins DEF TypeInv
<1> QED BY <1>1, <1>2, <1>3, <1>4, <1>6

LEMMA NextK ==
  ASSUME SaturationInv, TypeInv, InArray, InRound, Pairable, NextComplement
  PROVE  k' \in {0, 1}
<1>1. PICK base, other, word : /\ base = BaseId /\ other = OtherId
                               /\ word = PairWord(nodes[base], nodes[other])
  OBVIOUS
<1>2. SplitCount(word) \in Nat /\ SplitCount(word) =< 2
  BY <1>1, AtJoins
<1>3. k \in {0, 1}
  BY DEF TypeInv, TreesInv
<1>4. CASE k + 1 < SplitCount(word)
  BY <1>1, <1>2, <1>3, <1>4 DEF NextComplement
<1>5. CASE ~(k + 1 < SplitCount(word))
  BY <1>1, <1>5 DEF NextComplement, NextPair
<1> QED BY <1>4, <1>5

LEMMA StayTypes ==
  ASSUME SaturationInv, TypeInv, InArray,
         SkipPair \/ DropJoin \/ EndRound \/ DeleteTrees \/ UNCHANGED vars
  PROVE  TypeInv'
<1>1. /\ UNCHANGED <<map_vars, labels, indexes, nodes, exists_lookup, new_complete_trees>>
      /\ pc = "construct" <=> pc' = "construct"
  BY DEF SkipPair, DropJoin, EndRound, DeleteTrees, vars, group_vars, InRound
<1>2. k' \in {0, 1}
  <2>1. CASE SkipPair
    BY <2>1 DEF SkipPair, NextPair
  <2>2. CASE DropJoin
    BY <2>2, NextK DEF DropJoin
  <2>3. CASE EndRound
    BY <2>3 DEF EndRound
  <2>4. CASE DeleteTrees \/ UNCHANGED vars
    BY <2>4 DEF DeleteTrees, vars, group_vars, TypeInv, TreesInv
  <2> QED BY <2>1, <2>2, <2>3, <2>4
<1>3. MapInv'
  BY <1>1, MapStepInv DEF TypeInv
<1>4. LabelsInv'
  BY <1>1, LabelsStay DEF TypeInv, map_vars
<1>5. TreesInv'
  BY <1>1, <1>2, TreesStay DEF TypeInv
<1> QED BY <1>3, <1>4, <1>5 DEF TypeInv

\* The node the loops are at is a join of the two trees there.
LEMMA NewNodeIs ==
  ASSUME SaturationInv, TypeInv, InArray, InRound, Pairable,
         NEW base, base = BaseId, NEW other, other = OtherId
  PROVE  \E index \in RatioIndex, type \in SplitTypes :
           /\ index = IndexFlat(Current) /\ type = SplitTypeFlat(Current)
           /\ NewNode = Join(index, type, base, other)
           /\ Complement(index, type) \in Joins(nodes[base].ratio_index, nodes[other].ratio_index)
<1>1. PICK word, found : /\ word = PairWord(nodes[base], nodes[other])
                         /\ found = Complements(word)
  OBVIOUS
<1>2. /\ SplitCount(word) \in Nat /\ k < SplitCount(word) /\ DOMAIN found = 1 .. SplitCount(word)
      /\ Range(found) = Joins(nodes[base].ratio_index, nodes[other].ratio_index)
  BY <1>1, AtJoins
<1>3. k \in Nat
  BY DEF TypeInv, TreesInv
<1>4. k + 1 \in DOMAIN found
  BY <1>2, <1>3
<1>5. PICK c : c = found[k + 1]
  OBVIOUS
<1>6. c \in Joins(nodes[base].ratio_index, nodes[other].ratio_index)
  BY <1>2, <1>4, <1>5 DEF Range
<1>7. PICK index \in RatioIndex, type \in SplitTypes : c = Complement(index, type)
  BY <1>6, InJoins
<1>8. c.index = IndexFlat(Current) /\ c.split_type = SplitTypeFlat(Current)
  BY <1>1, <1>5, CurrentComplement DEF SaturationInv
<1>9. c.index = index /\ c.split_type = type
  BY <1>7 DEF Complement
<1>10. index = IndexFlat(Current) /\ type = SplitTypeFlat(Current)
  BY <1>8, <1>9
<1>11. NewNode = Join(index, type, base, other)
  BY <1>10 DEF NewNode
<1> QED BY <1>6, <1>7, <1>10, <1>11

LEMMA KeepJoinTypes ==
  ASSUME SaturationInv, TypeInv, InArray, KeepJoin
  PROVE  TypeInv'
<1>1. /\ InRound /\ Pairable /\ NextComplement
      /\ UNCHANGED <<map_vars, pc, labels, indexes>>
  BY DEF KeepJoin
<1>2. PICK base, other : base = BaseId /\ other = OtherId
  OBVIOUS
<1>3. /\ base \in DOMAIN nodes /\ other \in DOMAIN nodes /\ LabelsShare
      /\ NodeOK(nodes[base]) /\ NodeOK(nodes[other])
  BY <1>1, <1>2, AtJoins
<1>4. PICK index \in RatioIndex, type \in SplitTypes : NewNode = Join(index, type, base, other)
  BY <1>1, <1>2, NewNodeIs
<1>5. PICK node : node = NewNode
  OBVIOUS
<1>6. NodeOK(node)
  BY <1>3, <1>4, <1>5, JoinOK DEF JoinsBoth
<1>7. node.left = base /\ node.right = other
  BY <1>4, <1>5 DEF Join
<1>8. PICK size \in Nat : size = Len(nodes)
  BY KeptNode DEF SaturationInv
<1>9. /\ DOMAIN nodes = 1 .. size /\ DOMAIN nodes' = 1 .. size + 1
      /\ nodes'[size + 1] = node /\ \A n \in 1 .. size : nodes'[n] = nodes[n]
  BY <1>5, <1>8, KeptNode DEF SaturationInv, OnlyAdds
<1>10. ASSUME NEW n \in 1 .. size + 1
       PROVE  /\ NodeOK(nodes[n])'
              /\ nodes'[n].left \in 0 .. n - 1 /\ nodes'[n].right \in 0 .. n - 1
  <2>1. PICK x : x = nodes'[n]
    OBVIOUS
  <2>2. NodeOK(x) /\ x.left \in 0 .. n - 1 /\ x.right \in 0 .. n - 1
    <3>1. CASE n = size + 1
      BY <1>3, <1>6, <1>7, <1>9, <2>1, <3>1
    <3>2. CASE n \in 1 .. size
      BY <1>9, <2>1, <3>2 DEF TypeInv, TreesInv
    <3> QED BY <3>1, <3>2
  <2>3. NodeOK(x)'
    BY <1>1, <2>2, NodeStays
  <2> QED BY <2>1, <2>2, <2>3
<1>11. \A h \in DOMAIN exists_lookup' : h \in 0 .. HashSize - 1
  <2>1. GenerateHash(node) \in 0 .. HashSize - 1
    BY <1>3, <1>6, HashIsOne DEF LabelsShare
  <2>2. DOMAIN exists_lookup' = DOMAIN exists_lookup \cup {GenerateHash(node)}
    BY <1>5 DEF KeepJoin
  <2> QED BY <2>1, <2>2 DEF TypeInv, TreesInv
<1>12. \A p \in DOMAIN new_complete_trees' :
         nodes'[new_complete_trees'[p]].all_labels_count = Len(indexes)
  <2>1. new_complete_trees \in Seq(1 .. size)
    BY <1>9 DEF SaturationInv, Shape
  <2>2. PICK c \in Nat : /\ c = Len(new_complete_trees) /\ DOMAIN new_complete_trees = 1 .. c
                         /\ \A p \in 1 .. c : new_complete_trees[p] \in 1 .. size
    BY <2>1
  <2>3. \A p \in 1 .. c : nodes'[new_complete_trees[p]].all_labels_count = Len(indexes)
    BY <1>9, <2>2 DEF TypeInv, TreesInv
  <2>4. CASE node.all_labels_count = Len(indexes)
    <3>1. new_complete_trees' = Append(new_complete_trees, size + 1)
      BY <1>5, <1>8, <2>4 DEF KeepJoin
    <3>2. /\ DOMAIN new_complete_trees' = 1 .. c + 1 /\ new_complete_trees'[c + 1] = size + 1
          /\ \A p \in 1 .. c : new_complete_trees'[p] = new_complete_trees[p]
      BY <2>1, <2>2, <3>1
    <3>3. \A p \in 1 .. c + 1 : p \in 1 .. c \/ p = c + 1
      BY <2>2
    <3> QED BY <1>9, <2>3, <2>4, <3>2, <3>3
  <2>5. CASE node.all_labels_count # Len(indexes)
    <3>1. new_complete_trees' = new_complete_trees
      BY <1>5, <2>5 DEF KeepJoin
    <3> QED BY <2>2, <2>3, <3>1
  <2> QED BY <2>4, <2>5
<1>13. k' \in {0, 1}
  BY <1>1, NextK
<1>14. TreesInv'
  BY <1>1, <1>9, <1>10, <1>11, <1>12, <1>13 DEF TreesInv
<1>15. MapInv'
  BY <1>1, MapStepInv DEF TypeInv
<1>16. LabelsInv'
  BY <1>1, LabelsStay DEF TypeInv, map_vars
<1> QED BY <1>14, <1>15, <1>16 DEF TypeInv

\* TypeInv holds as long as no pair of trees reads past the end of the array.
THEOREM TypeInvariant == Spec /\ []InArray => []TypeInv
<1>1. Init => TypeInv
  BY InitTypes
<1>2. SaturationInv /\ InArray /\ TypeInv /\ [Next \/ Returned]_vars => TypeInv'
  <2> SUFFICES ASSUME SaturationInv, InArray, TypeInv, [Next \/ Returned]_vars
               PROVE  TypeInv'
    OBVIOUS
  <2>1. CASE BuildMap
    BY <2>1, BuildMapTypes
  <2>2. CASE LabelIndexes
    BY <2>2, LabelIndexesTypes
  <2>3. CASE BuildLeaves
    BY <2>3, BuildLeavesTypes
  <2>4. CASE KeepJoin
    BY <2>4, KeepJoinTypes
  <2>5. CASE SkipPair \/ DropJoin \/ EndRound \/ DeleteTrees \/ UNCHANGED vars
    BY <2>5, StayTypes
  <2> QED BY <2>1, <2>2, <2>3, <2>4, <2>5 DEF Next, Group, Returned
<1> QED BY <1>1, <1>2, SaturationInvariant, PTL DEF Spec

\* Every pointer of Group() is to a node, every node was made from earlier
\* ones and is filed under a hash value, and no pair has a third join.
THEOREM TypeCorrect == Spec /\ []InArray => []TypeOK
<1>1. SaturationInv /\ TypeInv => TypeOK
  <2> SUFFICES ASSUME SaturationInv, TypeInv
               PROVE  TypeOK
    OBVIOUS
  <2>1. indexes \in Seq(RatioIndex)
    <3>1. CASE pc = "construct"
      BY <3>1 DEF TypeInv, LabelsInv
    <3>2. CASE pc # "construct"
      BY <3>2 DEF TypeInv, LabelsInv, LabelsShare
    <3> QED BY <3>1, <3>2
  <2> QED BY <2>1 DEF SaturationInv, Shape, TypeInv, TreesInv, NodeOK, TypeOK, IdSeq
<1> QED BY <1>1, SaturationInvariant, TypeInvariant, PTL
-----------------------------------------------------------------------------
(* Group() implements TreeClosure *)

LEMMA TreeStays ==
  ASSUME UNCHANGED labels, NEW x
  PROVE  TreeOf(x)' = TreeOf(x)
BY DEF TreeOf, LeafBag, LabelOf

\* Group() tells a join from others as TreeClosure does.
LEMMA JoiningIs ==
  ASSUME LabelsShare, pc \notin {"construct", "call"},
         NEW index \in RatioIndex, NEW type \in SplitTypes, NEW base, NEW other,
         NodeOK(nodes[base]), NodeOK(nodes[other]),
         NEW tree, tree = Closure!Joined(TreeOf(nodes[base]), TreeOf(nodes[other]),
                                         Complement(index, type))
  PROVE  /\ tree = TreeOf(Join(index, type, base, other))
         /\ Closure!Fits(tree.leaves) <=> IsDisjoint(nodes[base], nodes[other])
         /\ Closure!BigEnough(tree, type) <=>
              IsUnconstrained(index, type, nodes[base], nodes[other])
<1>1. PICK left, right, node : /\ left = nodes[base] /\ right = nodes[other]
                               /\ node = Join(index, type, base, other)
  OBVIOUS
<1>2. LabelsApart
  BY DEF LabelsShare
<1>3. tree = TreeOf(node)
  BY <1>1, <1>2, JoinIs
<1>4. Closure!BigEnough(tree, type) <=> IsUnconstrained(index, type, left, right)
  BY <1>1, <1>3, UnconstrainedIs
<1>5. JoinsBoth(node, left, right, ShrinksBy(index, type, left), ShrinksBy(index, type, right))
  BY <1>1, JoinOK
<1>6. PICK f : f = node.label_scales
  OBVIOUS
<1>7. \A l \in DOMAIN labels : /\ IsSequence(f[l])
                               /\ Len(f[l]) = left.label_counts[l] + right.label_counts[l]
  BY <1>5, <1>6 DEF JoinsBoth, NodeOK, IsScales
<1>8. Closure!Fits(LeafBag(f)) <=> \A l \in DOMAIN labels : Len(f[l]) =< Len(labels[l].indexes)
  BY <1>7, FitsIs
<1>9. tree.leaves = LeafBag(f)
  BY <1>3, <1>6 DEF TreeOf
<1>10. Closure!Fits(tree.leaves) <=> IsDisjoint(left, right)
  BY <1>7, <1>8, <1>9 DEF IsDisjoint
<1> QED BY <1>1, <1>3, <1>4, <1>10

\* What TreeClosure makes of two trees.
LEMMA JoiningsAre ==
  ASSUME NEW a, NEW b, a.ratio_index \in RatioIndex, b.ratio_index \in RatioIndex, NEW tree
  PROVE  tree \in Closure!Joinings(a, b) <=>
           \E c \in Joins(a.ratio_index, b.ratio_index) :
             /\ tree = Closure!Joined(a, b, c)
             /\ Closure!Fits(tree.leaves) /\ Closure!BigEnough(tree, c.split_type)
<1>1. joins[<<a.ratio_index, b.ratio_index>>] = Joins(a.ratio_index, b.ratio_index)
  <2>1. PICK x \in RatioIndex, y \in RatioIndex : x = a.ratio_index /\ y = b.ratio_index
    OBVIOUS
  <2>2. PICK pair : pair = <<x, y>>
    OBVIOUS
  <2>3. pair \in RatioIndex \X RatioIndex /\ pair[1] = x /\ pair[2] = y
    BY <2>2
  <2>4. joins[pair] = Joins(x, y)
    BY <2>3 DEF joins
  <2> QED BY <2>1, <2>2, <2>4
<1> QED BY <1>1 DEF Closure!Joinings

LEMMA KeptIsDerivable ==
  ASSUME SaturationInv, TypeInv, InArray, KeepJoin
  PROVE  TreeOf(NewNode) \in Closure!Derivable
<1>1. /\ InRound /\ Pairable /\ Unconstrained /\ pc = "group"
  BY DEF KeepJoin, InRound
<1>2. PICK base, other : base = BaseId /\ other = OtherId
  OBVIOUS
<1>3. /\ base \in DOMAIN nodes /\ other \in DOMAIN nodes /\ LabelsShare
      /\ NodeOK(nodes[base]) /\ NodeOK(nodes[other])
  BY <1>1, <1>2, AtJoins
<1>4. PICK index \in RatioIndex, type \in SplitTypes :
        /\ index = IndexFlat(Current) /\ type = SplitTypeFlat(Current)
        /\ NewNode = Join(index, type, base, other)
        /\ Complement(index, type) \in Joins(nodes[base].ratio_index, nodes[other].ratio_index)
  BY <1>1, <1>2, NewNodeIs
<1>5. PICK a, b, c : a = TreeOf(nodes[base]) /\ b = TreeOf(nodes[other]) /\ c = Complement(index, type)
  OBVIOUS
<1>6. PICK tree : tree = Closure!Joined(a, b, c)
  OBVIOUS
<1>7. IsUnconstrained(index, type, nodes[base], nodes[other])
  BY <1>1, <1>2, <1>4 DEF Unconstrained
<1>8. IsDisjoint(nodes[base], nodes[other])
  BY <1>1, <1>2 DEF Pairable, Joinable
<1>9. /\ tree = TreeOf(Join(index, type, base, other))
      /\ Closure!Fits(tree.leaves) /\ Closure!BigEnough(tree, type)
  BY <1>1, <1>3, <1>5, <1>6, <1>7, <1>8, JoiningIs
<1>10. /\ a.ratio_index = nodes[base].ratio_index /\ b.ratio_index = nodes[other].ratio_index
       /\ c.split_type = type
  BY <1>5 DEF TreeOf, Complement
<1>11. tree \in Closure!Joinings(a, b)
  <2>1. a.ratio_index \in RatioIndex /\ b.ratio_index \in RatioIndex
    BY <1>3, <1>10 DEF NodeOK
  <2>2. c \in Joins(a.ratio_index, b.ratio_index)
    BY <1>4, <1>5, <1>10
  <2>3. Closure!BigEnough(tree, c.split_type)
    BY <1>9, <1>10
  <2> QED BY <1>6, <1>9, <2>1, <2>2, <2>3, JoiningsAre
<1>12. a \in KnownTrees /\ b \in KnownTrees
  BY <1>3, <1>5 DEF KnownTrees
<1>13. tree \in Closure!Derivable
  BY <1>11, <1>12 DEF Closure!Derivable
<1> QED BY <1>4, <1>9, <1>13

\* When a node is kept, TreeClosure learns its tree, or knows it already: two
\* nodes differ to Equals by the order of their scales too.
LEMMA KeepJoinRefines ==
  ASSUME SaturationInv, TypeInv, InArray, KeepJoin
  PROVE  Closure!Learn \/ UNCHANGED Closure!closure_vars
<1>1. PICK node, tree : node = NewNode /\ tree = TreeOf(node)
  OBVIOUS
<1>2. PICK size \in Nat : /\ DOMAIN nodes = 1 .. size /\ DOMAIN nodes' = 1 .. size + 1
                          /\ nodes'[size + 1] = node /\ \A n \in 1 .. size : nodes'[n] = nodes[n]
  BY <1>1, KeptNode DEF SaturationInv, OnlyAdds
<1>3. pc = "group" /\ UNCHANGED <<pc, indexes, labels>>
  BY DEF KeepJoin, InRound
<1>4. Phase = "search" /\ UNCHANGED <<Phase, Called>>
  BY <1>3 DEF Phase, Called
<1>5. \A n \in 1 .. size : TreeOf(nodes[n])' = TreeOf(nodes[n])
  <2> SUFFICES ASSUME NEW n \in 1 .. size
               PROVE  TreeOf(nodes[n])' = TreeOf(nodes[n])
    OBVIOUS
  <2>1. PICK x : x = nodes[n]
    OBVIOUS
  <2>2. nodes'[n] = x
    BY <1>2, <2>1
  <2> QED BY <1>3, <2>1, <2>2, TreeStays
<1>6. TreeOf(nodes[size + 1])' = tree
  <2>1. (nodes[size + 1])' = node
    BY <1>2
  <2>2. TreeOf(node)' = tree
    BY <1>1, <1>3, TreeStays
  <2> QED BY <2>1, <2>2
<1>7. KnownTrees' = KnownTrees \cup {tree}
  <2>1. KnownTrees' = {TreeOf(nodes[n])' : n \in 1 .. size + 1}
    BY <1>2 DEF KnownTrees
  <2>2. KnownTrees = {TreeOf(nodes[n]) : n \in 1 .. size}
    BY <1>2 DEF KnownTrees
  <2>3. \A n : n \in 1 .. size + 1 <=> n \in 1 .. size \/ n = size + 1
    OBVIOUS
  <2> QED BY <1>5, <1>6, <2>1, <2>2, <2>3
<1>8. tree \in Closure!Derivable
  BY <1>1, KeptIsDerivable
<1>9. CASE tree \in KnownTrees
  <2>1. KnownTrees' = KnownTrees
    BY <1>7, <1>9
  <2> QED BY <1>4, <2>1 DEF Closure!closure_vars
<1>10. CASE tree \notin KnownTrees
  <2>1. tree \in KnownTrees' \ KnownTrees
    BY <1>7, <1>10
  <2> QED BY <1>4, <1>7, <1>8, <2>1 DEF Closure!Learn
<1> QED BY <1>9, <1>10

\* The rectangles of the labels, summed up.
LEMMA LabelsSumUp ==
  ASSUME LabelsShare, NEW sizes, sizes = [l \in DOMAIN labels |-> Len(labels[l].indexes)]
  PROVE  /\ \A l \in DOMAIN labels : sizes[l] \in Int /\ sizes[l] = Len(labels[l].indexes)
         /\ SumFunctionOnSet(sizes, DOMAIN labels) = Len(indexes)
<1>1. PICK K : K = DOMAIN labels /\ IsFiniteSet(K) /\ \A l \in K : sizes[l] = Len(labels[l].indexes)
  BY DEF LabelsShare
<1>2. PICK size \in Nat : size = Len(indexes) /\ DOMAIN indexes = 1 .. size
  BY DEF LabelsShare
<1>3. IsFiniteSet(1 .. size) /\ Cardinality(1 .. size) = size
  BY FS_Interval
<1>4. SumFunctionOnSet(sizes, K) = size
  <2>1. PICK key : key = [l \in K |-> labels[l].ratio_index]
    OBVIOUS
  <2>2. \A l \in K : key[l] = labels[l].ratio_index
    BY <2>1
  <2>3. \A l \in K : sizes[l] = Cardinality({n \in 1 .. size : indexes[n] = key[l]})
    BY <1>1, <1>2, <2>2 DEF LabelsShare
  <2>4. \A l, m \in K : key[l] = key[m] => l = m
    BY <1>1, <2>2 DEF LabelsShare, LabelsApart
  <2>5. \A n \in 1 .. size : \E l \in K : indexes[n] = key[l]
    BY <1>1, <1>2, <2>2 DEF LabelsShare
  <2>6. Counts(1 .. size, indexes, K, key, sizes)
    BY <2>3, <2>4, <2>5 DEF Counts
  <2> QED BY <1>1, <1>3, <2>6, SumOfCounts
<1>5. \A l \in K : sizes[l] \in Int
  <2> SUFFICES ASSUME NEW l \in K
               PROVE  sizes[l] \in Int
    OBVIOUS
  <2>1. PICK S : S = {n \in 1 .. size : indexes[n] = labels[l].ratio_index}
    OBVIOUS
  <2>2. S \in SUBSET (1 .. size)
    BY <2>1
  <2>3. IsFiniteSet(S)
    BY <1>3, <2>2, FS_Subset
  <2>4. Cardinality(S) \in Nat
    BY <2>3, FS_CardinalityType
  <2>5. sizes[l] = Cardinality(S)
    BY <1>1, <1>2, <2>1 DEF LabelsShare
  <2> QED BY <2>4, <2>5
<1> QED BY <1>1, <1>2, <1>4, <1>5

\* The total of the rectangles of the labels.
LEMMA FewEnough ==
  ASSUME LabelsShare, NEW a, NodeOK(a), NEW b, NodeOK(b), IsDisjoint(a, b)
  PROVE  a.all_labels_count + b.all_labels_count =< Len(indexes)
<1>1. PICK p, q, K : p = a.label_counts /\ q = b.label_counts /\ K = DOMAIN labels
  OBVIOUS
<1>2. PICK u, v : u = [l \in K |-> p[l] + q[l]] /\ v = [l \in K |-> Len(labels[l].indexes)]
  OBVIOUS
<1>3. /\ \A l \in K : v[l] \in Int /\ v[l] = Len(labels[l].indexes)
      /\ SumFunctionOnSet(v, K) = Len(indexes)
  BY <1>1, <1>2, LabelsSumUp
<1>4. IsFiniteSet(K)
  BY <1>1 DEF LabelsShare
<1>5. \A l \in K : p[l] \in Nat /\ q[l] \in Nat
  <2> SUFFICES ASSUME NEW l \in K
               PROVE  p[l] \in Nat /\ q[l] \in Nat
    OBVIOUS
  <2>1. PICK s, t : s = a.label_scales[l] /\ t = b.label_scales[l]
    OBVIOUS
  <2>2. IsScales(s) /\ IsScales(t) /\ p[l] = Len(s) /\ q[l] = Len(t)
    BY <1>1, <2>1 DEF NodeOK
  <2> QED BY <2>2 DEF IsScales, IsSequence
<1>6. \A l \in K : u[l] = p[l] + q[l] /\ u[l] =< v[l]
  BY <1>1, <1>2 DEF IsDisjoint
<1>7. SumFunctionOnSet(u, K) = SumFunctionOnSet(p, K) + SumFunctionOnSet(q, K)
  <2>1. \A l \in K : p[l] \in Int /\ q[l] \in Int /\ u[l] = p[l] + q[l]
    BY <1>5, <1>6
  <2> QED BY <1>4, <2>1, SumOfSums
<1>8. SumFunctionOnSet(u, K) =< SumFunctionOnSet(v, K)
  <2>1. \A l \in K : u[l] \in Int /\ v[l] \in Int /\ u[l] =< v[l]
    BY <1>3, <1>5, <1>6
  <2> QED BY <1>4, <2>1, SumAtMost
<1>9. a.all_labels_count = SumFunctionOnSet(p, K) /\ b.all_labels_count = SumFunctionOnSet(q, K)
  BY <1>1 DEF NodeOK
<1> QED BY <1>3, <1>7, <1>8, <1>9

\* At the end of the search a partial tree joined with itself or an earlier one
\* gives nothing new.
LEMMA NothingNew ==
  ASSUME SaturationInv, TypeInv, InArray, pc = "delete",
         NEW p \in DOMAIN trees, NEW q \in 1 .. p,
         NEW a, a = TreeOf(nodes[trees[p]]), NEW b, b = TreeOf(nodes[trees[q]]),
         NEW c \in Joins(a.ratio_index, b.ratio_index),
         NEW tree, tree = Closure!Joined(a, b, c),
         Closure!Fits(tree.leaves), Closure!BigEnough(tree, c.split_type)
  PROVE  tree \in KnownTrees
<1>1. PICK size \in Nat : /\ DOMAIN trees = 1 .. size
                          /\ \A n \in 1 .. size : trees[n] \in DOMAIN nodes
  BY DEF SaturationInv, Shape
<1>2. PICK base, other : base = trees[p] /\ other = trees[q]
  OBVIOUS
<1>3. base \in DOMAIN nodes /\ other \in DOMAIN nodes
  BY <1>1, <1>2
<1>4. /\ LabelsShare /\ Built /\ NodeOK(nodes[base]) /\ NodeOK(nodes[other])
  BY <1>3 DEF TypeInv, LabelsInv, TreesInv
<1>5. a.ratio_index = nodes[base].ratio_index /\ b.ratio_index = nodes[other].ratio_index
  BY <1>2 DEF TreeOf
<1>6. PICK index \in RatioIndex, type \in SplitTypes : c = Complement(index, type)
  BY InJoins
<1>7. c.index = index /\ c.split_type = type
  BY <1>6 DEF Complement
<1>8. /\ tree = TreeOf(Join(index, type, base, other))
      /\ IsDisjoint(nodes[base], nodes[other])
      /\ IsUnconstrained(index, type, nodes[base], nodes[other])
  BY <1>2, <1>4, <1>6, <1>7, JoiningIs
<1>9. nodes[base].all_labels_count + nodes[other].all_labels_count =< Len(indexes)
  BY <1>4, <1>8, FewEnough
<1>10. PICK word, found : word = PairWord(nodes[base], nodes[other]) /\ found = Complements(word)
  OBVIOUS
<1>11. /\ SplitCount(word) \in Nat /\ DOMAIN found = 1 .. SplitCount(word)
       /\ Range(found) = Joins(nodes[base].ratio_index, nodes[other].ratio_index)
  BY <1>3, <1>4, <1>9, <1>10, PairJoins DEF TypeInv, NodeOK
<1>12. PICK n \in 1 .. SplitCount(word) : found[n] = c
  BY <1>5, <1>11 DEF Range
<1>13. word # {}
  BY <1>12 DEF SplitCount
<1>14. Joinable(nodes[base], nodes[other])
  BY <1>8, <1>9, <1>10, <1>13 DEF Joinable
<1>15. Settled(base, other)
  BY <1>2 DEF SaturationInv, Saturated, SearchOver
<1>16. SettledBy(base, other, n)
  BY <1>10, <1>12, <1>14, <1>15 DEF Settled
<1>17. Represented(index, type, base, other)
  BY <1>7, <1>8, <1>10, <1>12, <1>16 DEF SettledBy
<1>18. PICK m \in DOMAIN nodes : Equals(Join(index, type, base, other), nodes[m])
  BY <1>17 DEF Represented
<1>19. TreeOf(nodes[m]) = tree
  BY <1>8, <1>18 DEF Equals, TreeOf
<1> QED BY <1>19 DEF KnownTrees

\* Leaves are put together in any order.
LEMMA LeavesEitherWay ==
  ASSUME LabelsApart, NEW f, NEW g, \A l \in DOMAIN labels : IsSequence(f[l]) /\ IsSequence(g[l])
  PROVE  Closure!(+)(LeafBag(f), LeafBag(g)) = Closure!(+)(LeafBag(g), LeafBag(f))
<1>1. ASSUME NEW q, \A l \in DOMAIN labels : IsSequence(q[l]), NEW x \in DOMAIN LeafBag(q)
      PROVE  LeafBag(q)[x] \in Int
  <2>1. PICK l \in DOMAIN labels : \E h \in Range(q[l]) : x = <<labels[l].ratio_index, h>>
    BY LeafBagIs
  <2>2. PICK h \in Range(q[l]) : x = <<labels[l].ratio_index, h>>
    BY <2>1
  <2>3. LeafBag(q)[x] = Copies(q[l], h)
    BY <2>2, LeafBagIs
  <2> QED BY <1>1, <2>3, CopiesAre
<1>2. PICK B, C : B = LeafBag(f) /\ C = LeafBag(g)
  OBVIOUS
<1>3. \A x \in DOMAIN B : B[x] \in Int
  BY <1>1, <1>2
<1>4. \A x \in DOMAIN C : C[x] \in Int
  BY <1>1, <1>2
<1>5. \A x : (IF x \in DOMAIN B THEN B[x] ELSE 0) + (IF x \in DOMAIN C THEN C[x] ELSE 0)
               = (IF x \in DOMAIN C THEN C[x] ELSE 0) + (IF x \in DOMAIN B THEN B[x] ELSE 0)
  BY <1>3, <1>4
<1>6. DOMAIN B \cup DOMAIN C = DOMAIN C \cup DOMAIN B
  OBVIOUS
<1> QED BY <1>2, <1>5, <1>6, ClosureBags

LEMMA JoinedEitherWay ==
  ASSUME LabelsApart, NEW x, NodeOK(x), NEW y, NodeOK(y),
         NEW index \in RatioIndex, NEW type, NEW c, c = Complement(index, type)
  PROVE  Closure!Joined(TreeOf(x), TreeOf(y), c) = Closure!Joined(TreeOf(y), TreeOf(x), c)
<1>1. PICK u \in NonZero, v \in NonZero : /\ u = ShrinksBy(index, type, x)
                                          /\ v = ShrinksBy(index, type, y)
  BY ShrinksByIs DEF NodeOK
<1>2. PICK f, g : f = x.label_scales /\ g = y.label_scales
  OBVIOUS
<1>3. \A l \in DOMAIN labels : IsScales(f[l]) /\ IsScales(g[l])
  BY <1>2 DEF NodeOK
<1>4. PICK p, q : p = [l \in DOMAIN labels |-> Scaled(f[l], u)]
                  /\ q = [l \in DOMAIN labels |-> Scaled(g[l], v)]
  OBVIOUS
<1>5. \A l \in DOMAIN labels : p[l] = Scaled(f[l], u) /\ q[l] = Scaled(g[l], v)
  BY <1>4
<1>6. Closure!Shrunk(LeafBag(f), u) = LeafBag(p) /\ Closure!Shrunk(LeafBag(g), v) = LeafBag(q)
  BY <1>3, <1>4, ShrunkBag
<1>7. \A l \in DOMAIN labels : IsSequence(p[l]) /\ IsSequence(q[l])
  BY <1>3, <1>5, ScaledIs DEF IsScales
<1>8. Closure!(+)(LeafBag(p), LeafBag(q)) = Closure!(+)(LeafBag(q), LeafBag(p))
  BY <1>7, LeavesEitherWay
<1>9. PICK a, b : a = TreeOf(x) /\ b = TreeOf(y)
  OBVIOUS
<1>10. /\ a.ratio_index = x.ratio_index /\ a.leaves = LeafBag(f)
       /\ b.ratio_index = y.ratio_index /\ b.leaves = LeafBag(g)
       /\ c.index = index /\ c.split_type = type
  BY <1>2, <1>9 DEF TreeOf, Complement
<1>11. /\ u = IF c.split_type = "horizontal"
              THEN Closure!Over(ratios[c.index], ratios[a.ratio_index]) ELSE Closure!Whole(1)
       /\ v = IF c.split_type = "horizontal"
              THEN Closure!Over(ratios[c.index], ratios[b.ratio_index]) ELSE Closure!Whole(1)
  BY <1>1, <1>10, ClosureNumbers DEF ShrinksBy, kSplitTypeHorizontal
<1>12. /\ Closure!Joined(a, b, c) =
            [ratio_index |-> index, leaves |-> Closure!(+)(LeafBag(p), LeafBag(q))]
       /\ Closure!Joined(b, a, c) =
            [ratio_index |-> index, leaves |-> Closure!(+)(LeafBag(q), LeafBag(p))]
  BY <1>6, <1>10, <1>11 DEF Closure!Joined, Closure!Tree
<1> QED BY <1>8, <1>9, <1>12


LEMMA ClosureOrders == \A S, T : Closure!Bijection(S, T) = Bijection(S, T)
BY DEF Closure!Bijection, Bijection, Closure!Injection, Injection, Closure!Surjection, Surjection,
       Closure!IsInjective, IsInjective

\* A leaf is a tree of one rectangle, as high as the tree.
LEMMA LeafTree ==
  ASSUME LabelsApart, NEW size, DOMAIN labels = 1 .. size, NEW l \in 1 .. size,
         NEW node, node = Leaf(size, labels[l].ratio_index, l)
  PROVE  TreeOf(node) = Closure!SingleTree(labels[l].ratio_index)
<1>1. PICK r, one, f : r = labels[l].ratio_index /\ one = Whole(1) /\ f = node.label_scales
  OBVIOUS
<1>2. node.ratio_index = r /\ f = [m \in 1 .. size |-> IF m = l THEN <<one>> ELSE <<>>]
  BY <1>1 DEF Leaf
<1>3. f[l] = <<one>> /\ \A m \in 1 .. size : m # l => f[m] = <<>>
  BY <1>2
<1>4. Range(<<one>>) = {one} /\ Range(<<>>) = {}
  BY DEF Range
<1>5. Copies(<<one>>, one) = 1
  <2>1. {m \in DOMAIN <<one>> : <<one>>[m] = one} = {1}
    OBVIOUS
  <2>2. Cardinality({1}) = 1
    BY FS_Singleton
  <2> QED BY <2>1, <2>2 DEF Copies
<1>6. PICK S : S = {<<r, one>>}
  OBVIOUS
<1>7. PICK b : b = [x \in S |-> 1]
  OBVIOUS
<1>8. \A x \in S : b[x] = 1 /\ x = <<r, one>>
  BY <1>6, <1>7
<1>9. CountsLeaves(f, S, b)
  <2>1. ASSUME NEW m \in DOMAIN labels, NEW h \in Range(f[m])
        PROVE  <<labels[m].ratio_index, h>> \in S /\ b[<<labels[m].ratio_index, h>>] = Copies(f[m], h)
    <3>1. m = l
      BY <1>3, <1>4, <2>1
    <3>2. h = one /\ labels[m].ratio_index = r
      BY <1>1, <1>3, <1>4, <2>1, <3>1
    <3>3. <<r, one>> \in S
      BY <1>6
    <3>4. b[<<r, one>>] = 1
      BY <1>8, <3>3
    <3> QED BY <1>3, <1>5, <3>1, <3>2, <3>3, <3>4
  <2>2. ASSUME NEW x \in S
        PROVE  \E m \in DOMAIN labels : \E h \in Range(f[m]) : x = <<labels[m].ratio_index, h>>
    <3>1. one \in Range(f[l])
      BY <1>3, <1>4
    <3> QED BY <1>1, <1>8, <3>1
  <2> QED BY <2>1, <2>2 DEF CountsLeaves
<1>10. PICK B : B = LeafBag(f)
  OBVIOUS
<1>11. B = [x \in DOMAIN B |-> B[x]] /\ DOMAIN B = S /\ \A x \in S : B[x] = b[x]
  BY <1>9, <1>10, LeafBagOnly
<1>12. B = [x \in S |-> 1]
  BY <1>8, <1>11
<1>13. TreeOf(node) = [ratio_index |-> r, leaves |-> B]
  BY <1>1, <1>2, <1>10 DEF TreeOf
<1>14. Closure!SingleTree(r) = [ratio_index |-> r, leaves |-> [x \in S |-> 1]]
  BY <1>1, <1>6, ClosureNumbers DEF Closure!SingleTree, Closure!Tree, Closure!SetToBag
<1> QED BY <1>1, <1>12, <1>13, <1>14

LEMMA BuildLeavesRefines ==
  ASSUME SaturationInv, TypeInv, BuildLeaves
  PROVE  Closure!Begin
<1>1. PICK size \in Nat : size = Len(labels) /\ DOMAIN labels = 1 .. size
  BY DEF SaturationInv, Shape, IsSequence
<1>2. /\ pc = "call" /\ nodes' = [l \in 1 .. size |-> Leaf(size, labels[l].ratio_index, l)]
      /\ pc' \in {"group", "delete"} /\ UNCHANGED <<labels, indexes>>
  BY <1>1 DEF BuildLeaves
<1>3. Phase = "idle" /\ Phase' = "search" /\ Called' = indexes
  BY <1>2 DEF Phase, Called
<1>4. LabelsShare
  BY <1>2 DEF TypeInv, LabelsInv
<1>5. \E g \in RatioGroups : \E order \in Bijection(DOMAIN g, DOMAIN g) :
        indexes = [n \in DOMAIN g |-> g[order[n]]]
  BY <1>2 DEF TypeInv, LabelsInv
<1>6. \A l \in 1 .. size : TreeOf(nodes[l])' = Closure!SingleTree(labels[l].ratio_index)
  <2> SUFFICES ASSUME NEW l \in 1 .. size
               PROVE  TreeOf(nodes[l])' = Closure!SingleTree(labels[l].ratio_index)
    OBVIOUS
  <2>1. PICK x : x = nodes'[l] /\ x = Leaf(size, labels[l].ratio_index, l)
    BY <1>2
  <2>2. TreeOf(x) = Closure!SingleTree(labels[l].ratio_index)
    BY <1>1, <1>4, <2>1, LeafTree DEF LabelsShare
  <2>3. TreeOf(x)' = TreeOf(x)
    BY <1>2, TreeStays
  <2> QED BY <2>1, <2>2, <2>3
<1>7. KnownTrees' = {Closure!SingleTree(labels[l].ratio_index) : l \in 1 .. size}
  <2>1. DOMAIN nodes' = 1 .. size
    BY <1>2
  <2>2. KnownTrees' = {TreeOf(nodes[l])' : l \in 1 .. size}
    BY <2>1 DEF KnownTrees
  <2> QED BY <1>6, <2>2
<1>8. /\ \A l \in 1 .. size : \E n \in DOMAIN indexes : labels[l].ratio_index = indexes[n]
      /\ \A n \in DOMAIN indexes : \E l \in 1 .. size : labels[l].ratio_index = indexes[n]
  <2>1. \A l \in 1 .. size : labels[l].ratio_index \in Range(indexes)
    BY <1>1, <1>4 DEF LabelsShare
  <2>2. \A l \in 1 .. size : \E n \in DOMAIN indexes : labels[l].ratio_index = indexes[n]
    <3> SUFFICES ASSUME NEW l \in 1 .. size
                 PROVE  \E n \in DOMAIN indexes : labels[l].ratio_index = indexes[n]
      OBVIOUS
    <3>1. PICK index : index = labels[l].ratio_index /\ index \in Range(indexes)
      BY <2>1
    <3> QED BY <3>1 DEF Range
  <2>3. \A n \in DOMAIN indexes : \E l \in 1 .. size : labels[l].ratio_index = indexes[n]
    BY <1>1, <1>4 DEF LabelsShare
  <2> QED BY <2>2, <2>3
<1>9. KnownTrees' = {Closure!SingleTree(indexes[n]) : n \in DOMAIN indexes}
  BY <1>7, <1>8
<1>10. KnownTrees' = {Closure!SingleTree(Called'[n]) : n \in DOMAIN Called'}
  BY <1>3, <1>9
<1> QED BY <1>3, <1>5, <1>10, ClosureOrders DEF Closure!Begin

\* When Group() is done every tree that can be derived is known: one that holds
\* the whole group can be joined with none.
LEMMA DeleteTreesRefines ==
  ASSUME SaturationInv, NodesInv, TypeInv, InArray, DeleteTrees
  PROVE  Closure!Finish
<1>1. pc = "delete" /\ pc' = "done" /\ UNCHANGED <<labels, indexes, nodes>>
  BY DEF DeleteTrees
<1>2. Phase = "search" /\ Phase' = "over" /\ UNCHANGED <<Called, KnownTrees>>
  <2>1. UNCHANGED KnownTrees
    BY <1>1 DEF KnownTrees, TreeOf, LeafBag, LabelOf
  <2> QED BY <1>1, <2>1 DEF Phase, Called
<1>3. LabelsShare
  BY <1>1 DEF TypeInv, LabelsInv
<1>4. LabelsApart
  BY <1>3 DEF LabelsShare
<1>5. Closure!Derivable \subseteq KnownTrees
  <2> SUFFICES ASSUME NEW tree \in Closure!Derivable
               PROVE  tree \in KnownTrees
    OBVIOUS
  <2>1. PICK a \in KnownTrees, b \in KnownTrees : tree \in Closure!Joinings(a, b)
    BY DEF Closure!Derivable
  <2>2. PICK m \in DOMAIN nodes, n \in DOMAIN nodes : a = TreeOf(nodes[m]) /\ b = TreeOf(nodes[n])
    BY <2>1 DEF KnownTrees
  <2>3. NodeOK(nodes[m]) /\ NodeOK(nodes[n])
    BY DEF TypeInv, TreesInv
  <2>4. a.ratio_index = nodes[m].ratio_index /\ b.ratio_index = nodes[n].ratio_index
    BY <2>2 DEF TreeOf
  <2>5. a.ratio_index \in RatioIndex /\ b.ratio_index \in RatioIndex
    BY <2>3, <2>4 DEF NodeOK
  <2>6. PICK c \in Joins(a.ratio_index, b.ratio_index) :
          /\ tree = Closure!Joined(a, b, c)
          /\ Closure!Fits(tree.leaves) /\ Closure!BigEnough(tree, c.split_type)
    BY <2>1, <2>5, JoiningsAre
  <2>7. PICK index \in RatioIndex, type \in SplitTypes : c = Complement(index, type)
    BY InJoins
  <2>8. IsDisjoint(nodes[m], nodes[n])
    BY <1>1, <1>3, <2>2, <2>3, <2>6, <2>7, JoiningIs
  <2>9. nodes[m].all_labels_count + nodes[n].all_labels_count =< Len(indexes)
    BY <1>3, <2>3, <2>8, FewEnough
  <2>10. m \in Range(trees) /\ n \in Range(trees)
    <3>1. /\ nodes[m].all_labels_count \in Nat /\ nodes[m].all_labels_count >= 1
          /\ nodes[n].all_labels_count \in Nat /\ nodes[n].all_labels_count >= 1
      BY DEF NodesInv, JoinsFound
    <3>2. Len(indexes) \in Nat
      BY <1>3 DEF LabelsShare
    <3>3. \A x \in Range(new_complete_trees) : nodes[x].all_labels_count = Len(indexes)
      BY DEF TypeInv, TreesInv, Range
    <3>4. m \notin Range(new_complete_trees) /\ n \notin Range(new_complete_trees)
      BY <2>9, <3>1, <3>2, <3>3
    <3>5. Range(new_trees) = {}
      BY <1>1 DEF NodesInv, Deletion, Range
    <3>6. DOMAIN nodes = Range(trees) \cup Range(new_trees) \cup Range(new_complete_trees)
      BY DEF NodesInv, HeldOnce
    <3> QED BY <3>4, <3>5, <3>6
  <2>11. PICK p \in DOMAIN trees, q \in DOMAIN trees : trees[p] = m /\ trees[q] = n
    BY <2>10 DEF Range
  <2>12. PICK size \in Nat : DOMAIN trees = 1 .. size
    BY DEF SaturationInv, Shape
  <2>13. CASE q =< p
    <3>1. q \in 1 .. p
      BY <2>12, <2>13
    <3> QED BY <1>1, <2>2, <2>6, <2>11, <3>1, NothingNew
  <2>14. CASE ~(q =< p)
    <3>1. p \in 1 .. q
      BY <2>12, <2>14
    <3>2. tree = Closure!Joined(b, a, c)
      BY <1>4, <2>2, <2>3, <2>6, <2>7, JoinedEitherWay
    <3>3. c \in Joins(b.ratio_index, a.ratio_index)
      BY <2>5, <2>6, JoinsEitherWay
    <3> QED BY <1>1, <2>2, <2>6, <2>11, <3>1, <3>2, <3>3, NothingNew
  <2> QED BY <2>13, <2>14
<1> QED BY <1>1, <1>2, <1>5 DEF Closure!Finish

\* Before Group() TreeClosure is idle, and the loops are none of its steps.
LEMMA OthersStutter ==
  ASSUME SaturationInv,
         BuildMap \/ LabelIndexes \/ SkipPair \/ DropJoin \/ EndRound \/ UNCHANGED vars
  PROVE  UNCHANGED Closure!closure_vars
<1>1. CASE BuildMap \/ LabelIndexes
  <2>1. pc = "construct" /\ pc' \in {"construct", "call"} /\ UNCHANGED nodes
    BY <1>1 DEF BuildMap, LabelIndexes, group_vars
  <2>2. nodes = <<>>
    BY <2>1 DEF SaturationInv, Fresh
  <2>3. UNCHANGED <<Phase, Called>>
    BY <2>1 DEF Phase, Called
  <2>4. KnownTrees = {} /\ KnownTrees' = {}
    BY <2>1, <2>2 DEF KnownTrees
  <2> QED BY <2>3, <2>4 DEF Closure!closure_vars
<1>2. CASE SkipPair \/ DropJoin \/ EndRound \/ UNCHANGED vars
  <2>1. /\ UNCHANGED <<labels, indexes, nodes>>
        /\ pc' = pc \/ (pc = "group" /\ pc' \in {"group", "delete"})
    BY <1>2 DEF SkipPair, DropJoin, EndRound, vars, group_vars
  <2>2. UNCHANGED <<Phase, Called>>
    BY <2>1 DEF Phase, Called
  <2>3. UNCHANGED KnownTrees
    BY <2>1 DEF KnownTrees, TreeOf, LeafBag, LabelOf
  <2> QED BY <2>2, <2>3 DEF Closure!closure_vars
<1> QED BY <1>1, <1>2

\* Group() implements TreeClosure as long as no pair of trees reads past the
\* end of the array: its rounds, which look at each pair once, its buckets and
\* its packed words find every tree that can be joined, and no other.
THEOREM ImplementsClosureCorrect == Spec /\ []InArray => ImplementsClosure
<1>1. Init => Closure!ClosureInit
  <2> SUFFICES ASSUME Init
               PROVE  Closure!ClosureInit
    OBVIOUS
  <2>1. pc = "construct" /\ nodes = <<>>
    BY DEF Init
  <2>2. KnownTrees = {}
    BY <2>1 DEF KnownTrees
  <2> QED BY <2>1, <2>2 DEF Closure!ClosureInit, Phase, Called
<1>2. SaturationInv /\ NodesInv /\ TypeInv /\ InArray /\ [Next \/ Returned]_vars
        => [Closure!ClosureNext]_(Closure!closure_vars)
  <2> SUFFICES ASSUME SaturationInv, NodesInv, TypeInv, InArray, [Next \/ Returned]_vars
               PROVE  Closure!ClosureNext \/ UNCHANGED Closure!closure_vars
    OBVIOUS
  <2>1. CASE BuildLeaves
    BY <2>1, BuildLeavesRefines DEF Closure!ClosureNext
  <2>2. CASE KeepJoin
    BY <2>2, KeepJoinRefines DEF Closure!ClosureNext
  <2>3. CASE DeleteTrees
    BY <2>3, DeleteTreesRefines DEF Closure!ClosureNext
  <2>4. CASE BuildMap \/ LabelIndexes \/ SkipPair \/ DropJoin \/ EndRound \/ UNCHANGED vars
    BY <2>4, OthersStutter
  <2> QED BY <2>1, <2>2, <2>3, <2>4 DEF Next, Group, Returned
<1> QED BY <1>1, <1>2, SaturationInvariant, NodesInvariant, TypeInvariant, PTL
        DEF Spec, ImplementsClosure, Closure!ClosureSpec

-----------------------------------------------------------------------------
(* The iteration over a tree *)

Opens(drawn, n, f) ==
  f = [m \in 0 .. n |-> IF m = 0 THEN drawn ELSE Opened(f[m - 1])]

LEMMA OpensNext ==
  ASSUME NEW drawn, NEW n \in Nat, NEW f, Opens(drawn, n, f)
  PROVE  \E g : Opens(drawn, n + 1, g)
<1> DEFINE g == [m \in 0 .. n + 1 |-> IF m = n + 1 THEN Opened(f[n]) ELSE f[m]]
<1>1. \A m \in 0 .. n : g[m] = f[m] /\ f[m] = (IF m = 0 THEN drawn ELSE Opened(f[m - 1]))
  BY DEF Opens
<1>2. ASSUME NEW m \in 0 .. n + 1
      PROVE  g[m] = IF m = 0 THEN drawn ELSE Opened(g[m - 1])
  <2>1. CASE m = n + 1
    <3>1. m # 0 /\ m - 1 = n /\ g[m] = Opened(f[n])
      BY <2>1
    <3>2. g[n] = f[n]
      BY <1>1
    <3> HIDE DEF g
    <3> QED BY <3>1, <3>2
  <2>2. CASE m \in 0 .. n
    <3>1. m # 0 => g[m - 1] = f[m - 1]
      BY <1>1, <2>2
    <3> HIDE DEF g
    <3> QED BY <1>1, <2>2, <3>1
  <2> QED BY <2>1, <2>2
<1>3. g = [m \in 0 .. n + 1 |-> g[m]]
  OBVIOUS
<1> HIDE DEF g
<1> QED BY <1>2, <1>3 DEF Opens

LEMMA OpensExist ==
  ASSUME NEW drawn, NEW n \in Nat
  PROVE  \E f : Opens(drawn, n, f)
<1> DEFINE Without == {m \in Nat : ~ \E f : Opens(drawn, m, f)}
<1> SUFFICES ASSUME Without # {}
             PROVE  FALSE
  OBVIOUS
<1>1. PICK m \in Without : \A l \in Without : m =< l
  <2>1. Without \in SUBSET Nat
    OBVIOUS
  <2> HIDE DEF Without
  <2> QED BY <2>1, Smallest
<1>2. m # 0
  <2>1. Opens(drawn, 0, [l \in 0 .. 0 |-> drawn])
    BY DEF Opens
  <2> QED BY <1>1, <2>1
<1>3. PICK f : Opens(drawn, m - 1, f)
  BY <1>1, <1>2
<1>4. \E g : Opens(drawn, m - 1 + 1, g)
  BY <1>1, <1>2, <1>3, OpensNext
<1> QED BY <1>1, <1>4

LEMMA OpensAgree ==
  ASSUME NEW drawn, NEW n \in Nat, NEW f, Opens(drawn, n, f),
         NEW l \in Nat, NEW g, Opens(drawn, l, g)
  PROVE  \A m \in Nat : m =< n /\ m =< l => f[m] = g[m]
<1> DEFINE Differ == {m \in Nat : m =< n /\ m =< l /\ f[m] # g[m]}
<1> SUFFICES ASSUME Differ # {}
             PROVE  FALSE
  OBVIOUS
<1>1. PICK m \in Differ : \A p \in Differ : m =< p
  <2>1. Differ \in SUBSET Nat
    OBVIOUS
  <2> HIDE DEF Differ
  <2> QED BY <2>1, Smallest
<1>2. m \in 0 .. n /\ m \in 0 .. l
  BY <1>1
<1>3. /\ f[m] = (IF m = 0 THEN drawn ELSE Opened(f[m - 1]))
      /\ g[m] = (IF m = 0 THEN drawn ELSE Opened(g[m - 1]))
  BY <1>2 DEF Opens
<1>4. m # 0
  BY <1>1, <1>3
<1>5. f[m - 1] = g[m - 1]
  BY <1>1, <1>4
<1> QED BY <1>1, <1>3, <1>4, <1>5

\* A turn more.
LEMMA OpenedTimesIs ==
  ASSUME NEW drawn
  PROVE  /\ OpenedTimes(drawn, 0) = drawn
         /\ \A n \in Nat : OpenedTimes(drawn, n + 1) = Opened(OpenedTimes(drawn, n))
<1>1. ASSUME NEW n \in Nat
      PROVE  \E f : Opens(drawn, n, f) /\ OpenedTimes(drawn, n) = f[n]
  <2> DEFINE own == CHOOSE f : f = [m \in 0 .. n |-> IF m = 0 THEN drawn ELSE Opened(f[m - 1])]
  <2>1. OpenedTimes(drawn, n) = own[n]
    BY DEF OpenedTimes
  <2>2. Opens(drawn, n, own)
    <3>1. \E f : Opens(drawn, n, f)
      BY OpensExist
    <3> QED BY <3>1 DEF Opens
  <2> QED BY <2>1, <2>2
<1>2. OpenedTimes(drawn, 0) = drawn
  <2>1. PICK f : Opens(drawn, 0, f) /\ OpenedTimes(drawn, 0) = f[0]
    BY <1>1
  <2> QED BY <2>1 DEF Opens
<1>3. ASSUME NEW n \in Nat
      PROVE  OpenedTimes(drawn, n + 1) = Opened(OpenedTimes(drawn, n))
  <2>1. PICK f : Opens(drawn, n, f) /\ OpenedTimes(drawn, n) = f[n]
    BY <1>1
  <2>2. PICK g : Opens(drawn, n + 1, g) /\ OpenedTimes(drawn, n + 1) = g[n + 1]
    BY <1>1
  <2>3. g[n + 1] = Opened(g[n + 1 - 1])
    BY <2>2 DEF Opens
  <2>4. f[n] = g[n]
    BY <2>1, <2>2, OpensAgree
  <2> QED BY <2>1, <2>2, <2>3, <2>4
<1> QED BY <1>2, <1>3

\* Trees are opened each by itself.
LEMMA OpenedParts ==
  ASSUME NEW drawn, NEW others, NEW n \in Nat
  PROVE  OpenedTimes(drawn \cup others, n) = OpenedTimes(drawn, n) \cup OpenedTimes(others, n)
<1> DEFINE Mixed == {m \in Nat : OpenedTimes(drawn \cup others, m) #
                                   OpenedTimes(drawn, m) \cup OpenedTimes(others, m)}
<1> SUFFICES ASSUME Mixed # {}
             PROVE  FALSE
  OBVIOUS
<1>1. PICK m \in Mixed : \A p \in Mixed : m =< p
  <2>1. Mixed \in SUBSET Nat
    OBVIOUS
  <2> HIDE DEF Mixed
  <2> QED BY <2>1, Smallest
<1>2. m # 0
  BY <1>1, OpenedTimesIs
<1>3. PICK p \in Nat : m = p + 1
  BY <1>1, <1>2
<1>4. OpenedTimes(drawn \cup others, p) = OpenedTimes(drawn, p) \cup OpenedTimes(others, p)
  <2>1. p \notin Mixed
    <3>1. ~(m =< p)
      BY <1>3
    <3> HIDE DEF Mixed
    <3> QED BY <1>1, <3>1
  <2> QED BY <2>1
<1>5. \A S, T : Opened(S \cup T) = Opened(S) \cup Opened(T)
  BY DEF Opened
<1>6. /\ OpenedTimes(drawn \cup others, m) = Opened(OpenedTimes(drawn \cup others, p))
      /\ OpenedTimes(drawn, m) = Opened(OpenedTimes(drawn, p))
      /\ OpenedTimes(others, m) = Opened(OpenedTimes(others, p))
  BY <1>3, OpenedTimesIs
<1>7. OpenedTimes(drawn \cup others, m) = OpenedTimes(drawn, m) \cup OpenedTimes(others, m)
  <2>1. PICK a, b : a = OpenedTimes(drawn, p) /\ b = OpenedTimes(others, p)
    OBVIOUS
  <2>2. Opened(a \cup b) = Opened(a) \cup Opened(b)
    BY <1>5
  <2> QED BY <1>4, <1>6, <2>1, <2>2
<1> QED BY <1>1, <1>7

\* A turn before.
LEMMA OpenedBefore ==
  ASSUME NEW drawn, NEW n \in Nat
  PROVE  OpenedTimes(drawn, n + 1) = OpenedTimes(Opened(drawn), n)
<1> DEFINE Late == {m \in Nat : OpenedTimes(drawn, m + 1) # OpenedTimes(Opened(drawn), m)}
<1> SUFFICES ASSUME Late # {}
             PROVE  FALSE
  OBVIOUS
<1>1. PICK m \in Late : \A p \in Late : m =< p
  <2>1. Late \in SUBSET Nat
    OBVIOUS
  <2> HIDE DEF Late
  <2> QED BY <2>1, Smallest
<1>2. OpenedTimes(drawn, m + 1) = Opened(OpenedTimes(drawn, m))
  BY <1>1, OpenedTimesIs
<1>3. m # 0
  BY <1>1, <1>2, OpenedTimesIs
<1>4. PICK p \in Nat : m = p + 1
  BY <1>1, <1>3
<1>5. OpenedTimes(drawn, p + 1) = OpenedTimes(Opened(drawn), p)
  BY <1>1, <1>4
<1>6. OpenedTimes(Opened(drawn), m) = Opened(OpenedTimes(Opened(drawn), p))
  BY <1>4, OpenedTimesIs
<1> QED BY <1>1, <1>2, <1>4, <1>5, <1>6

\* A leaf stays as it is.
LEMMA OpenedLeaf ==
  ASSUME NEW x, x.node.split_type = kSplitTypeNone, NEW n \in Nat
  PROVE  OpenedTimes({x}, n) = {x}
<1>1. Opened({x}) = {x}
  BY DEF Opened
<1> DEFINE Moved == {m \in Nat : OpenedTimes({x}, m) # {x}}
<1> SUFFICES ASSUME Moved # {}
             PROVE  FALSE
  OBVIOUS
<1>2. PICK m \in Moved : \A p \in Moved : m =< p
  <2>1. Moved \in SUBSET Nat
    OBVIOUS
  <2> HIDE DEF Moved
  <2> QED BY <2>1, Smallest
<1>3. m # 0
  <2>1. OpenedTimes({x}, 0) = {x}
    BY OpenedTimesIs
  <2> QED BY <1>2, <2>1
<1>4. PICK p \in Nat : m = p + 1
  BY <1>2, <1>3
<1>5. OpenedTimes({x}, p) = {x}
  BY <1>2, <1>4
<1>6. OpenedTimes({x}, m) = {x}
  BY <1>1, <1>4, <1>5, OpenedTimesIs
<1> QED BY <1>2, <1>6

\* The two parts that are drawn for a node that is joined.
FirstOf(x)  == [node |-> x.node.left, box |-> ChildBoxes(x.node, x.box)[1]]
SecondOf(x) == [node |-> x.node.right, box |-> ChildBoxes(x.node, x.box)[2]]

\* What is drawn for it are the leaves of these.
LEMMA OpenedJoin ==
  ASSUME NEW x, x.node.split_type # kSplitTypeNone, NEW n \in Nat
  PROVE  OpenedTimes({x}, n + 1) = OpenedTimes({FirstOf(x)}, n) \cup OpenedTimes({SecondOf(x)}, n)
<1>1. PICK y, z : y = FirstOf(x) /\ z = SecondOf(x)
  OBVIOUS
<1>2. Opened({x}) = {y, z}
  BY <1>1 DEF Opened, FirstOf, SecondOf
<1>3. {y, z} = {y} \cup {z}
  OBVIOUS
<1>4. OpenedTimes({x}, n + 1) = OpenedTimes(Opened({x}), n)
  BY OpenedBefore
<1>5. OpenedTimes({y} \cup {z}, n) = OpenedTimes({y}, n) \cup OpenedTimes({z}, n)
  BY OpenedParts
<1> QED BY <1>1, <1>2, <1>3, <1>4, <1>5

-----------------------------------------------------------------------------
(* The trees that nodes are converted to *)

\* The nodes before size are made of earlier ones.
MadeOfEarlier(group, size) ==
  \A n \in 1 .. size :
    group[n].split_type # kSplitTypeNone =>
      group[n].left \in 1 .. n - 1 /\ group[n].right \in 1 .. n - 1

TreeOver(group, n, f) ==
  IF group[n].split_type = kSplitTypeNone
  THEN [ratio_index |-> group[n].ratio_index,
        split_type |-> kSplitTypeNone,
        leaf_labels |-> (CHOOSE l \in Range(labels) :
                           l.ratio_index = group[n].ratio_index).indexes]
  ELSE [ratio_index |-> group[n].ratio_index,
        split_type |-> group[n].split_type,
        left |-> f[group[n].left], right |-> f[group[n].right]]

Converts(group, size, f) == f = [n \in 1 .. size |-> TreeOver(group, n, f)]

LEMMA ConvertsNext ==
  ASSUME NEW group, NEW n \in Nat, MadeOfEarlier(group, n + 1), NEW f, Converts(group, n, f)
  PROVE  \E g : Converts(group, n + 1, g)
<1> DEFINE g == [m \in 1 .. n + 1 |-> IF m = n + 1 THEN TreeOver(group, m, f) ELSE f[m]]
<1>1. \A m \in 1 .. n : g[m] = f[m] /\ f[m] = TreeOver(group, m, f)
  BY DEF Converts
<1>2. ASSUME NEW m \in 1 .. n + 1
      PROVE  g[m] = TreeOver(group, m, g)
  <2>1. TreeOver(group, m, g) = TreeOver(group, m, f)
    <3>1. group[m].split_type # kSplitTypeNone =>
            group[m].left \in 1 .. n /\ group[m].right \in 1 .. n
      BY DEF MadeOfEarlier
    <3>2. group[m].split_type # kSplitTypeNone =>
            g[group[m].left] = f[group[m].left] /\ g[group[m].right] = f[group[m].right]
      BY <1>1, <3>1
    <3> HIDE DEF g
    <3> QED BY <3>2 DEF TreeOver
  <2>2. g[m] = TreeOver(group, m, f)
    <3>1. CASE m = n + 1
      BY <3>1
    <3>2. CASE m \in 1 .. n
      BY <1>1, <3>2
    <3> QED BY <3>1, <3>2
  <2> QED BY <2>1, <2>2
<1>3. g = [m \in 1 .. n + 1 |-> g[m]]
  OBVIOUS
<1> HIDE DEF g
<1> QED BY <1>2, <1>3 DEF Converts

LEMMA ConvertsExists ==
  ASSUME NEW group, NEW size \in Nat, MadeOfEarlier(group, size)
  PROVE  \E f : Converts(group, size, f)
<1> DEFINE Without == {m \in Nat : m =< size /\ ~ \E f : Converts(group, m, f)}
<1> SUFFICES ASSUME Without # {}
             PROVE  FALSE
  OBVIOUS
<1>1. PICK m \in Without : \A l \in Without : m =< l
  <2>1. Without \in SUBSET Nat
    OBVIOUS
  <2> HIDE DEF Without
  <2> QED BY <2>1, Smallest
<1>2. m # 0
  <2>1. Converts(group, 0, [n \in 1 .. 0 |-> n])
    BY DEF Converts
  <2> QED BY <1>1, <2>1
<1>3. PICK p \in Nat : m = p + 1 /\ p + 1 =< size
  BY <1>1, <1>2
<1>4. PICK f : Converts(group, p, f)
  <2>1. p \notin Without
    <3>1. ~(m =< p)
      BY <1>3
    <3> HIDE DEF Without
    <3> QED BY <1>1, <3>1
  <2> QED BY <1>3, <2>1
<1>5. MadeOfEarlier(group, p + 1)
  BY <1>3 DEF MadeOfEarlier
<1> QED BY <1>1, <1>3, <1>4, <1>5, ConvertsNext

\* A tree depends only on the nodes before it.
LEMMA ConvertsAgree ==
  ASSUME NEW size \in Nat, NEW group, MadeOfEarlier(group, size), NEW f, Converts(group, size, f),
         NEW more \in Nat, NEW others, NEW g, Converts(others, more, g),
         size =< more, \A n \in 1 .. size : others[n] = group[n]
  PROVE  \A n \in 1 .. size : f[n] = g[n]
<1> DEFINE Differ == {m \in Nat : m \in 1 .. size /\ f[m] # g[m]}
<1> SUFFICES ASSUME Differ # {}
             PROVE  FALSE
  OBVIOUS
<1>1. PICK m \in Differ : \A p \in Differ : m =< p
  <2>1. Differ \in SUBSET Nat
    OBVIOUS
  <2> HIDE DEF Differ
  <2> QED BY <2>1, Smallest
<1>2. m \in 1 .. size /\ m \in 1 .. more
  BY <1>1
<1>3. \A p \in 1 .. m - 1 : f[p] = g[p]
  <2> SUFFICES ASSUME NEW p \in 1 .. m - 1
               PROVE  f[p] = g[p]
    OBVIOUS
  <2>1. p \notin Differ
    <3>1. ~(m =< p)
      BY <1>2
    <3> HIDE DEF Differ
    <3> QED BY <1>1, <3>1
  <2> QED BY <1>2, <2>1
<1>4. f[m] = TreeOver(group, m, f) /\ g[m] = TreeOver(others, m, g)
  BY <1>2 DEF Converts
<1>5. group[m].split_type # kSplitTypeNone =>
        f[group[m].left] = g[group[m].left] /\ f[group[m].right] = g[group[m].right]
  BY <1>2, <1>3 DEF MadeOfEarlier
<1>6. others[m] = group[m]
  BY <1>2
<1>7. TreeOver(group, m, f) = TreeOver(others, m, g)
  BY <1>5, <1>6 DEF TreeOver
<1> QED BY <1>1, <1>4, <1>7

LEMMA LabelTreeConverts ==
  ASSUME NEW size \in Nat, NEW group, DOMAIN group = 1 .. size, MadeOfEarlier(group, size)
  PROVE  \E f : Converts(group, size, f) /\ \A n : LabelTree(group, n) = f[n]
<1> DEFINE own == CHOOSE f : f = [n \in DOMAIN group |-> TreeOver(group, n, f)]
<1>1. \A n : LabelTree(group, n) = own[n]
  BY DEF LabelTree, TreeOver
<1>2. Converts(group, size, own)
  <2>1. \E f : Converts(group, size, f)
    BY ConvertsExists
  <2> QED BY <2>1 DEF Converts
<1> HIDE DEF own
<1> QED BY <1>1, <1>2

\* A leaf is given the rectangles of its ratio, what else there is its parts.
LEMMA LabelTreeIs ==
  ASSUME NEW size \in Nat, NEW group, DOMAIN group = 1 .. size, MadeOfEarlier(group, size),
         NEW n \in 1 .. size
  PROVE  /\ LabelTree(group, n).ratio_index = group[n].ratio_index
         /\ LabelTree(group, n).split_type = group[n].split_type
         /\ group[n].split_type = kSplitTypeNone =>
              LabelTree(group, n).leaf_labels =
                (CHOOSE l \in Range(labels) : l.ratio_index = group[n].ratio_index).indexes
         /\ group[n].split_type # kSplitTypeNone =>
              /\ LabelTree(group, n).left = LabelTree(group, group[n].left)
              /\ LabelTree(group, n).right = LabelTree(group, group[n].right)
<1>1. PICK f : Converts(group, size, f) /\ \A m : LabelTree(group, m) = f[m]
  BY LabelTreeConverts
<1>2. LabelTree(group, n) = TreeOver(group, n, f)
  BY <1>1 DEF Converts
<1>3. group[n].split_type # kSplitTypeNone =>
        /\ f[group[n].left] = LabelTree(group, group[n].left)
        /\ f[group[n].right] = LabelTree(group, group[n].right)
  BY <1>1
<1>4. PICK t : t = TreeOver(group, n, f)
  OBVIOUS
<1>5. CASE group[n].split_type = kSplitTypeNone
  <2>1. /\ t.ratio_index = group[n].ratio_index /\ t.split_type = group[n].split_type
        /\ t.leaf_labels = (CHOOSE l \in Range(labels) : l.ratio_index = group[n].ratio_index).indexes
    BY <1>4, <1>5 DEF TreeOver
  <2> QED BY <1>2, <1>4, <1>5, <2>1
<1>6. CASE group[n].split_type # kSplitTypeNone
  <2>1. /\ t.ratio_index = group[n].ratio_index /\ t.split_type = group[n].split_type
        /\ t.left = f[group[n].left] /\ t.right = f[group[n].right]
    BY <1>4, <1>6 DEF TreeOver
  <2> QED BY <1>2, <1>3, <1>4, <1>6, <2>1
<1> QED BY <1>5, <1>6

\* Nodes added behind change no tree.
LEMMA LabelTreeStays ==
  ASSUME NEW size \in Nat, NEW group, DOMAIN group = 1 .. size, MadeOfEarlier(group, size),
         NEW more \in Nat, NEW others, DOMAIN others = 1 .. more, MadeOfEarlier(others, more),
         size =< more, \A n \in 1 .. size : others[n] = group[n]
  PROVE  \A n \in 1 .. size : LabelTree(others, n) = LabelTree(group, n)
<1>1. PICK f : Converts(group, size, f) /\ \A m : LabelTree(group, m) = f[m]
  BY LabelTreeConverts
<1>2. PICK g : Converts(others, more, g) /\ \A m : LabelTree(others, m) = g[m]
  BY LabelTreeConverts
<1> QED BY <1>1, <1>2, ConvertsAgree

-----------------------------------------------------------------------------
(* Boxes *)

\* A box of the ratio of index: its width is that many times its height.
OfRatio(box, index) ==
  /\ box.left \in Reduced /\ box.top \in Reduced
  /\ box.right \in Reduced /\ box.bottom \in Reduced
  /\ Positive(Height(box)) /\ Positive(Width(box))
  /\ Width(box) = Times(Height(box), ratios[index])

Inside(box, whole) ==
  /\ AtMost(whole.left, box.left) /\ AtMost(box.right, whole.right)
  /\ AtMost(whole.top, box.top) /\ AtMost(box.bottom, whole.bottom)

LEMMA SidesAre ==
  ASSUME NEW box, NEW index, OfRatio(box, index)
  PROVE  /\ Height(box) \in Reduced /\ Width(box) \in Reduced
         /\ Height(box) \in Numbers /\ Height(box) \in NonZero /\ Width(box) \in Numbers
         /\ box.left \in Numbers /\ box.top \in Numbers
         /\ box.right \in Numbers /\ box.bottom \in Numbers
<1>1. /\ box.left \in Numbers /\ box.top \in Numbers
      /\ box.right \in Numbers /\ box.bottom \in Numbers
  BY ReducedIsNumber DEF OfRatio
<1>2. Height(box) \in Reduced /\ Width(box) \in Reduced
  BY <1>1, NegativeIs, MinusIs, RawAre DEF Height, Width
<1> QED BY <1>1, <1>2, ReducedIsNumber, PositiveReciprocal DEF OfRatio

\* A range cut in two.
LEMMA RangeCut ==
  ASSUME NEW a \in Reduced, NEW c \in Reduced, NEW p \in Reduced, NEW q \in Reduced,
         Positive(p), Positive(q), Minus(c, a) = Plus(p, q), NEW x, x = Plus(a, p)
  PROVE  /\ x \in Reduced /\ Minus(x, a) = p /\ Minus(c, x) = q
         /\ AtMost(a, x) /\ AtMost(x, c)
<1>1. /\ a \in Numbers /\ c \in Numbers /\ p \in Numbers /\ q \in Numbers
      /\ Whole(0) \in Numbers
  BY ReducedIsNumber, WholeIsNumber
<1>2. x \in Reduced /\ x = Plus(p, a)
  BY <1>1, RawAre, Commutes
<1>3. x \in Numbers
  BY <1>2, ReducedIsNumber
<1>4. Plus(Whole(0), a) = a /\ Plus(Whole(0), x) = x
  BY <1>2, Neutral
<1>5. Minus(p, Whole(0)) = p /\ Minus(q, Whole(0)) = q
  BY <1>1, WithZero
<1>6. Minus(x, a) = p
  <2>1. Minus(Plus(p, a), Plus(Whole(0), a)) = Minus(p, Whole(0))
    BY <1>1, SumCancel
  <2> QED BY <1>2, <1>4, <1>5, <2>1
<1>7. c = Plus(q, x)
  <2>1. c = Plus(a, Plus(p, q))
    BY <1>1, WhatIsLeftAdds
  <2>2. Plus(Plus(a, p), q) = Plus(a, Plus(p, q))
    BY <1>1, PlusAssociative
  <2>3. Plus(x, q) = Plus(q, x)
    BY <1>1, <1>3, Commutes
  <2> QED BY <2>1, <2>2, <2>3
<1>8. Minus(c, x) = q
  <2>1. Minus(Plus(q, x), Plus(Whole(0), x)) = Minus(q, Whole(0))
    BY <1>1, <1>3, SumCancel
  <2> QED BY <1>4, <1>5, <1>7, <2>1
<1>9. AtMost(Whole(0), p) /\ AtMost(Whole(0), q)
  <2>1. Less(Whole(0), p) /\ Less(Whole(0), q)
    BY <1>1, AboveZero
  <2> QED BY <1>1, <2>1, AtMostTotal DEF AtMost
<1>10. AtMost(a, x) /\ AtMost(x, c)
  <2>1. AtMost(Plus(Whole(0), a), Plus(p, a)) /\ AtMost(Plus(Whole(0), x), Plus(q, x))
    BY <1>1, <1>3, <1>9, AtMostShifted
  <2> QED BY <1>2, <1>4, <1>7, <2>1
<1> QED BY <1>2, <1>6, <1>8, <1>10

\* The shares of the height that the parts of a stack have.
LEMMA SharesOfHeight ==
  ASSUME NEW R \in Reduced, NEW P \in Reduced, NEW Q \in Reduced,
         Positive(R), Positive(P), Positive(Q),
         Reciprocal(R) = Plus(Reciprocal(P), Reciprocal(Q))
  PROVE  /\ Over(R, P) \in Reduced /\ Over(R, Q) \in Reduced
         /\ Positive(Over(R, P)) /\ Positive(Over(R, Q))
         /\ Times(Over(R, P), P) = R /\ Times(Over(R, Q), Q) = R
         /\ Plus(Over(R, P), Over(R, Q)) = Whole(1)
<1>1. /\ R \in Numbers /\ P \in Numbers /\ Q \in Numbers
      /\ R \in NonZero /\ P \in NonZero /\ Q \in NonZero
  BY ReducedIsNumber, PositiveReciprocal
<1>2. PICK r \in Reduced, a \in Reduced, b \in Reduced :
        /\ r = Reciprocal(R) /\ a = Reciprocal(P) /\ b = Reciprocal(Q)
        /\ Times(R, r) = Whole(1) /\ Positive(a) /\ Positive(b)
  BY <1>1, ReciprocalIs, PositiveReciprocal
<1>3. r \in Numbers /\ a \in Numbers /\ b \in Numbers
  BY ReducedIsNumber
<1>4. PICK u \in Reduced : u = Over(R, P) /\ u = Times(R, a) /\ Times(u, P) = R
  BY <1>1, <1>2, TimesOver
<1>5. PICK v \in Reduced : v = Over(R, Q) /\ v = Times(R, b) /\ Times(v, Q) = R
  BY <1>1, <1>2, TimesOver
<1>6. Positive(u) /\ Positive(v)
  BY <1>1, <1>2, <1>3, <1>4, <1>5, PositiveProduct
<1>7. Plus(u, v) = Whole(1)
  <2>1. Times(Plus(a, b), R) = Plus(Times(a, R), Times(b, R))
    BY <1>1, <1>3, Distributes
  <2>2. Times(r, R) = Whole(1) /\ Times(a, R) = u /\ Times(b, R) = v
    BY <1>1, <1>2, <1>3, <1>4, <1>5, Commutes
  <2> QED BY <1>2, <2>1, <2>2
<1> QED BY <1>4, <1>5, <1>6, <1>7

\* The two boxes of a node that is stacked.
LEMMA StackedBoxes ==
  ASSUME NEW index \in RatioIndex, NEW p \in RatioIndex, NEW q \in RatioIndex,
         Reciprocal(ratios[index]) = Plus(Reciprocal(ratios[p]), Reciprocal(ratios[q])),
         NEW box, OfRatio(box, index),
         NEW y, y = Plus(box.top, Over(Times(Height(box), ratios[index]), ratios[p])),
         NEW first, first = Box(box.left, box.top, box.right, y),
         NEW second, second = Box(box.left, y, box.right, box.bottom)
  PROVE  /\ OfRatio(first, p) /\ Inside(first, box)
         /\ OfRatio(second, q) /\ Inside(second, box)
         /\ Height(first) = Times(Height(box), Over(ratios[index], ratios[p]))
         /\ Height(second) = Times(Height(box), Over(ratios[index], ratios[q]))
<1>1. PICK R \in Reduced, P \in Reduced, Q \in Reduced :
        /\ R = ratios[index] /\ P = ratios[p] /\ Q = ratios[q]
        /\ Positive(R) /\ Positive(P) /\ Positive(Q)
  BY RatioIsReduced
<1>2. /\ R \in Numbers /\ P \in Numbers /\ Q \in Numbers /\ P \in NonZero
  BY <1>1, ReducedIsNumber, PositiveReciprocal
<1>3. PICK u \in Reduced, v \in Reduced :
        /\ u = Over(R, P) /\ v = Over(R, Q) /\ Positive(u) /\ Positive(v)
        /\ Times(u, P) = R /\ Times(v, Q) = R /\ Plus(u, v) = Whole(1)
  BY <1>1, SharesOfHeight
<1>4. u \in Numbers /\ v \in Numbers
  BY ReducedIsNumber
<1>5. PICK h : /\ h = Height(box) /\ h \in Reduced /\ h \in Numbers /\ Positive(h)
               /\ Width(box) = Times(h, R)
  BY <1>1, SidesAre DEF OfRatio
<1>6. PICK s, t : s = Times(h, u) /\ t = Times(h, v)
  OBVIOUS
<1>7. s \in Reduced /\ t \in Reduced /\ Positive(s) /\ Positive(t)
  BY <1>3, <1>4, <1>5, <1>6, RawAre, PositiveProduct
<1>8. Over(Times(h, R), P) = s
  <2>1. Reciprocal(P) \in Numbers /\ u = Times(R, Reciprocal(P))
    BY <1>2, <1>3, ReciprocalIs, ReducedIsNumber DEF Over
  <2>2. Times(Times(h, R), Reciprocal(P)) = Times(h, Times(R, Reciprocal(P)))
    BY <1>2, <1>5, <2>1, TimesAssociative
  <2> QED BY <1>6, <2>1, <2>2 DEF Over
<1>9. h = Plus(s, t)
  <2>1. Times(Plus(u, v), h) = Plus(Times(u, h), Times(v, h))
    BY <1>4, <1>5, Distributes
  <2>2. Times(u, h) = s /\ Times(v, h) = t /\ Times(Whole(1), h) = h
    BY <1>4, <1>5, <1>6, Commutes, Neutral
  <2> QED BY <1>3, <2>1, <2>2
<1>10. /\ y \in Reduced /\ Minus(y, box.top) = s /\ Minus(box.bottom, y) = t
       /\ AtMost(box.top, y) /\ AtMost(y, box.bottom)
  <2>1. y = Plus(box.top, s)
    BY <1>1, <1>5, <1>8
  <2>2. Minus(box.bottom, box.top) = Plus(s, t)
    BY <1>5, <1>9 DEF Height
  <2>3. box.top \in Reduced /\ box.bottom \in Reduced
    BY DEF OfRatio
  <2> QED BY <1>7, <2>1, <2>2, <2>3, RangeCut
<1>11. Times(s, P) = Times(h, R) /\ Times(t, Q) = Times(h, R)
  BY <1>2, <1>3, <1>4, <1>5, <1>6, TimesAssociative
<1>12. /\ first.left = box.left /\ first.top = box.top /\ first.right = box.right /\ first.bottom = y
       /\ second.left = box.left /\ second.top = y /\ second.right = box.right
       /\ second.bottom = box.bottom
  BY DEF Box
<1>13. /\ Height(first) = s /\ Width(first) = Width(box)
       /\ Height(second) = t /\ Width(second) = Width(box)
  BY <1>10, <1>12 DEF Height, Width
<1>14. \A x \in Reduced : AtMost(x, x)
  BY ReducedIsNumber, AtMostTotal
<1>15. OfRatio(first, p) /\ OfRatio(second, q)
  BY <1>1, <1>5, <1>7, <1>10, <1>11, <1>12, <1>13 DEF OfRatio
<1>16. Inside(first, box) /\ Inside(second, box)
  BY <1>10, <1>12, <1>14 DEF OfRatio, Inside
<1> QED BY <1>1, <1>3, <1>5, <1>6, <1>13, <1>15, <1>16

\* The two boxes of a node whose parts are side by side.
LEMMA LinedUpBoxes ==
  ASSUME NEW index \in RatioIndex, NEW p \in RatioIndex, NEW q \in RatioIndex,
         ratios[index] = Plus(ratios[p], ratios[q]),
         NEW box, OfRatio(box, index),
         NEW x, x = Plus(box.left, Over(Times(Width(box), ratios[p]), ratios[index])),
         NEW first, first = Box(box.left, box.top, x, box.bottom),
         NEW second, second = Box(x, box.top, box.right, box.bottom)
  PROVE  /\ OfRatio(first, p) /\ Inside(first, box)
         /\ OfRatio(second, q) /\ Inside(second, box)
         /\ Height(first) = Height(box) /\ Height(second) = Height(box)
<1>1. PICK R \in Reduced, P \in Reduced, Q \in Reduced :
        /\ R = ratios[index] /\ P = ratios[p] /\ Q = ratios[q]
        /\ Positive(R) /\ Positive(P) /\ Positive(Q)
  BY RatioIsReduced
<1>2. /\ R \in Numbers /\ P \in Numbers /\ Q \in Numbers /\ R \in NonZero
  BY <1>1, ReducedIsNumber, PositiveReciprocal
<1>3. PICK h : /\ h = Height(box) /\ h \in Reduced /\ h \in Numbers /\ Positive(h)
               /\ Width(box) = Times(h, R)
  BY <1>1, SidesAre DEF OfRatio
<1>4. PICK s, t : s = Times(h, P) /\ t = Times(h, Q)
  OBVIOUS
<1>5. s \in Reduced /\ t \in Reduced /\ Positive(s) /\ Positive(t)
  BY <1>1, <1>2, <1>3, <1>4, RawAre, PositiveProduct
<1>6. Over(Times(Times(h, R), P), R) = s
  <2>1. Times(Times(h, R), P) = Times(s, R)
    <3>1. Times(Times(h, R), P) = Times(h, Times(R, P)) /\ Times(s, R) = Times(h, Times(P, R))
      BY <1>2, <1>3, <1>4, TimesAssociative
    <3> QED BY <1>2, <3>1, Commutes
  <2> QED BY <1>2, <1>5, <2>1, OverTimes
<1>7. Times(h, R) = Plus(s, t)
  <2>1. Times(Plus(P, Q), h) = Plus(Times(P, h), Times(Q, h))
    BY <1>2, <1>3, Distributes
  <2>2. Times(P, h) = s /\ Times(Q, h) = t /\ Times(R, h) = Times(h, R)
    BY <1>2, <1>3, <1>4, Commutes
  <2> QED BY <1>1, <2>1, <2>2
<1>8. /\ x \in Reduced /\ Minus(x, box.left) = s /\ Minus(box.right, x) = t
      /\ AtMost(box.left, x) /\ AtMost(x, box.right)
  BY <1>1, <1>3, <1>5, <1>6, <1>7, RangeCut DEF OfRatio, Width
<1>9. /\ first.left = box.left /\ first.top = box.top /\ first.right = x
      /\ first.bottom = box.bottom
      /\ second.left = x /\ second.top = box.top /\ second.right = box.right
      /\ second.bottom = box.bottom
  BY DEF Box
<1>10. /\ Height(first) = h /\ Width(first) = s /\ Height(second) = h /\ Width(second) = t
  BY <1>3, <1>8, <1>9 DEF Height, Width
<1>11. \A z \in Reduced : AtMost(z, z)
  BY ReducedIsNumber, AtMostTotal
<1>12. OfRatio(first, p) /\ OfRatio(second, q)
  BY <1>1, <1>3, <1>4, <1>5, <1>8, <1>9, <1>10 DEF OfRatio
<1>13. Inside(first, box) /\ Inside(second, box)
  BY <1>8, <1>9, <1>11 DEF OfRatio, Inside
<1> QED BY <1>3, <1>10, <1>12, <1>13

\* The boxes of the children of a join: parts of its own, in their ratios,
\* beside each other, as high as the node shrinks by.
LEMMA ChildrenAre ==
  ASSUME NEW index \in RatioIndex, NEW type \in SplitTypes,
         NEW p \in RatioIndex, NEW q \in RatioIndex, Complement(index, type) \in Joins(p, q),
         NEW node, node.ratio_index = index, node.split_type = type, node.left.ratio_index = p,
         NEW box, OfRatio(box, index),
         NEW first, first = ChildBoxes(node, box)[1],
         NEW second, second = ChildBoxes(node, box)[2]
  PROVE  /\ OfRatio(first, p) /\ Inside(first, box)
         /\ OfRatio(second, q) /\ Inside(second, box)
         /\ first.right = second.left \/ first.bottom = second.top
         /\ \A part : part.ratio_index = p =>
              Height(first) = Times(Height(box), ShrinksBy(index, type, part))
         /\ \A part : part.ratio_index = q =>
              Height(second) = Times(Height(box), ShrinksBy(index, type, part))
<1>1. \/ type = kSplitTypeVertical /\ ratios[index] = Plus(ratios[p], ratios[q])
      \/ type = kSplitTypeHorizontal
         /\ Reciprocal(ratios[index]) = Plus(Reciprocal(ratios[p]), Reciprocal(ratios[q]))
  <2>1. \A m, t : Complement(index, type) = Complement(m, t) => m = index /\ t = type
    BY DEF Complement
  <2> QED BY <2>1 DEF Joins
<1>2. CASE type = kSplitTypeVertical /\ ratios[index] = Plus(ratios[p], ratios[q])
  <2>1. PICK x : x = Plus(box.left, Over(Times(Width(box), ratios[p]), ratios[index]))
    OBVIOUS
  <2>2. /\ first = Box(box.left, box.top, x, box.bottom)
        /\ second = Box(x, box.top, box.right, box.bottom)
    BY <1>2, <2>1 DEF ChildBoxes, kSplitTypeVertical, kSplitTypeHorizontal
  <2>3. first.right = second.left
    BY <2>2 DEF Box
  <2>4. \A part : Times(Height(box), ShrinksBy(index, type, part)) = Height(box)
    <3>1. Height(box) \in Reduced
      BY SidesAre
    <3> QED BY <1>2, <3>1, Neutral DEF ShrinksBy, kSplitTypeVertical, kSplitTypeHorizontal
  <2>5. /\ OfRatio(first, p) /\ Inside(first, box)
        /\ OfRatio(second, q) /\ Inside(second, box)
        /\ Height(first) = Height(box) /\ Height(second) = Height(box)
    BY <1>2, <2>1, <2>2, LinedUpBoxes
  <2> QED BY <2>3, <2>4, <2>5
<1>3. CASE /\ type = kSplitTypeHorizontal
           /\ Reciprocal(ratios[index]) = Plus(Reciprocal(ratios[p]), Reciprocal(ratios[q]))
  <2>1. PICK y : y = Plus(box.top, Over(Times(Height(box), ratios[index]), ratios[p]))
    OBVIOUS
  <2>2. /\ first = Box(box.left, box.top, box.right, y)
        /\ second = Box(box.left, y, box.right, box.bottom)
    BY <1>3, <2>1 DEF ChildBoxes
  <2>3. first.bottom = second.top
    BY <2>2 DEF Box
  <2>4. /\ OfRatio(first, p) /\ Inside(first, box)
        /\ OfRatio(second, q) /\ Inside(second, box)
        /\ Height(first) = Times(Height(box), Over(ratios[index], ratios[p]))
        /\ Height(second) = Times(Height(box), Over(ratios[index], ratios[q]))
    BY <1>3, <2>1, <2>2, StackedBoxes
  <2> QED BY <1>3, <2>3, <2>4 DEF ShrinksBy
<1> QED BY <1>1, <1>2, <1>3

-----------------------------------------------------------------------------
(* What is drawn for a node *)

OfLabel(leaves, l)   == {x \in leaves : x.node.ratio_index = labels[l].ratio_index}
AsHigh(leaves, l, h) == {x \in OfLabel(leaves, l) : Height(x.box) = h}

\* A leaf of a label, drawn in its ratio, within a box.
DrawnIn(x, box) ==
  /\ \E l \in DOMAIN labels : /\ x.node.ratio_index = labels[l].ratio_index
                              /\ x.node.leaf_labels = labels[l].indexes
  /\ OfRatio(x.box, x.node.ratio_index)
  /\ Inside(x.box, box)

\* The leaves share out the box: they are apart, as many of each label as there
\* are scales, and as high as these say.
WellDrawn(leaves, scales, box) ==
  /\ IsFiniteSet(leaves)
  /\ \A x \in leaves : DrawnIn(x, box)
  /\ \A x, y \in leaves : x # y => Apart(x.box, y.box)
  /\ \A l \in DOMAIN labels : Cardinality(OfLabel(leaves, l)) = Len(scales[l])
  /\ \A l \in DOMAIN labels : \A h \in Reduced :
       Cardinality(AsHigh(leaves, l, Times(h, Height(box)))) = Copies(scales[l], h)

\* No box is apart from itself.
LEMMA NotFromItself ==
  ASSUME NEW box, NEW index, OfRatio(box, index)
  PROVE  ~Apart(box, box)
<1>1. Less(box.left, box.right) /\ Less(box.top, box.bottom)
  BY DEF OfRatio, Width, Height, Less
<1> QED BY <1>1 DEF Apart, AtMost

LEMMA InsideTwice ==
  ASSUME NEW a, NEW m, OfRatio(a, m), NEW b, NEW n, OfRatio(b, n), NEW c, NEW o, OfRatio(c, o),
         Inside(a, b), Inside(b, c)
  PROVE  Inside(a, c)
<1>1. /\ a.left \in Numbers /\ a.top \in Numbers /\ a.right \in Numbers /\ a.bottom \in Numbers
      /\ b.left \in Numbers /\ b.top \in Numbers /\ b.right \in Numbers /\ b.bottom \in Numbers
      /\ c.left \in Numbers /\ c.top \in Numbers /\ c.right \in Numbers /\ c.bottom \in Numbers
  BY SidesAre
<1>2. AtMost(c.left, a.left) /\ AtMost(a.right, c.right)
  BY <1>1, AtMostTransitive DEF Inside
<1>3. AtMost(c.top, a.top) /\ AtMost(a.bottom, c.bottom)
  BY <1>1, AtMostTransitive DEF Inside
<1> QED BY <1>2, <1>3 DEF Inside

\* What is in one of two boxes beside each other is apart from what is in the
\* other.
LEMMA InsideApart ==
  ASSUME NEW a, NEW m, OfRatio(a, m), NEW b, NEW n, OfRatio(b, n),
         NEW first, NEW p, OfRatio(first, p), NEW second, NEW q, OfRatio(second, q),
         Inside(a, first), Inside(b, second),
         first.right = second.left \/ first.bottom = second.top
  PROVE  Apart(a, b) /\ Apart(b, a)
<1>1. /\ a.right \in Numbers /\ a.bottom \in Numbers /\ b.left \in Numbers /\ b.top \in Numbers
      /\ first.right \in Numbers /\ first.bottom \in Numbers
  BY SidesAre
<1>2. CASE first.right = second.left
  <2>1. AtMost(a.right, first.right) /\ AtMost(first.right, b.left)
    BY <1>2 DEF Inside
  <2>2. AtMost(a.right, b.left)
    BY <1>1, <2>1, AtMostTransitive
  <2> QED BY <2>2 DEF Apart
<1>3. CASE first.bottom = second.top
  <2>1. AtMost(a.bottom, first.bottom) /\ AtMost(first.bottom, b.top)
    BY <1>3 DEF Inside
  <2>2. AtMost(a.bottom, b.top)
    BY <1>1, <2>1, AtMostTransitive
  <2> QED BY <2>2 DEF Apart
<1> QED BY <1>2, <1>3

LEMMA CountedTogether ==
  ASSUME NEW S, IsFiniteSet(S), NEW T, IsFiniteSet(T), S \cap T = {}
  PROVE  IsFiniteSet(S \cup T) /\ Cardinality(S \cup T) = Cardinality(S) + Cardinality(T)
<1>1. /\ IsFiniteSet(S \cup T)
      /\ Cardinality(S \cup T) = Cardinality(S) + Cardinality(T) - Cardinality(S \cap T)
  BY FS_Union
<1>2. Cardinality(S \cap T) = 0
  BY FS_EmptySet
<1>3. Cardinality(S) \in Nat /\ Cardinality(T) \in Nat
  BY FS_CardinalityType
<1> QED BY <1>1, <1>2, <1>3

\* How often a height is among the scales that a part is given in a join.
LEMMA ScaledCopies ==
  ASSUME NEW s, IsScales(s), NEW u \in NonZero, NEW h \in Reduced,
         NEW tall \in Reduced, NEW high, high = Times(tall, u)
  PROVE  \E w \in Reduced : /\ Copies(Scaled(s, u), h) = Copies(s, w)
                            /\ Times(h, tall) = Times(w, high)
<1>1. PICK w \in Reduced : w = Over(h, u) /\ Times(w, u) = h
  BY TimesOver
<1>2. /\ u \in Numbers /\ w \in Numbers /\ tall \in Numbers
  BY ReducedIsNumber DEF NonZero
<1>3. Times(h, tall) = Times(w, high)
  <2>1. Times(Times(w, u), tall) = Times(w, Times(u, tall))
    BY <1>2, TimesAssociative
  <2>2. Times(u, tall) = Times(tall, u)
    BY <1>2, Commutes
  <2> QED BY <1>1, <2>1, <2>2
<1>4. IsSequence(s) /\ IsScales(Scaled(s, u))
  BY ScaledIs DEF IsScales
<1>5. CASE w \in Range(s)
  <2>1. Copies(Scaled(s, u), Times(w, u)) = Copies(s, w)
    BY <1>5, ScaledIs
  <2> QED BY <1>1, <1>3, <2>1
<1>6. CASE w \notin Range(s)
  <2>1. h \notin Range(Scaled(s, u))
    <3> SUFFICES ASSUME h \in Range(Scaled(s, u))
                 PROVE  FALSE
      OBVIOUS
    <3>1. PICK v \in Range(s) : h = Times(v, u) /\ v \in Reduced
      BY ScaledIs
    <3>2. Over(Times(v, u), u) = v
      BY <3>1, OverTimes
    <3> QED BY <1>1, <1>6, <3>1, <3>2
  <2>2. Copies(Scaled(s, u), h) = 0
    BY <1>4, <2>1, CopiesAre DEF IsScales
  <2>3. Copies(s, w) = 0
    BY <1>4, <1>6, CopiesAre
  <2> QED BY <1>1, <1>3, <2>2, <2>3
<1> QED BY <1>5, <1>6

\* The leaves of the two parts of a join, drawn each in its half of the box.
LEMMA PartsDrawn ==
  ASSUME NEW box, NEW index, OfRatio(box, index),
         NEW first, NEW p, OfRatio(first, p), Inside(first, box),
         NEW second, NEW q, OfRatio(second, q), Inside(second, box),
         first.right = second.left \/ first.bottom = second.top,
         NEW u \in NonZero, Height(first) = Times(Height(box), u),
         NEW v \in NonZero, Height(second) = Times(Height(box), v),
         NEW s, \A l \in DOMAIN labels : IsScales(s[l]),
         NEW t, \A l \in DOMAIN labels : IsScales(t[l]),
         NEW S, WellDrawn(S, s, first),
         NEW T, WellDrawn(T, t, second),
         NEW scales, \A l \in DOMAIN labels : scales[l] = Merged(Scaled(s[l], u), Scaled(t[l], v))
  PROVE  WellDrawn(S \cup T, scales, box)
<1>1. IsFiniteSet(S) /\ IsFiniteSet(T)
  BY DEF WellDrawn
<1>2. \A x \in S : DrawnIn(x, first)
  BY DEF WellDrawn
<1>3. \A x \in T : DrawnIn(x, second)
  BY DEF WellDrawn
<1>4. \A x \in S \cup T : DrawnIn(x, box)
  <2>1. ASSUME NEW x \in S
        PROVE  DrawnIn(x, box)
    <3>1. PICK b, m : b = x.box /\ m = x.node.ratio_index
      OBVIOUS
    <3>2. OfRatio(b, m) /\ Inside(b, first)
      BY <1>2, <3>1 DEF DrawnIn
    <3>3. Inside(b, box)
      BY <3>2, InsideTwice
    <3> QED BY <1>2, <3>1, <3>3 DEF DrawnIn
  <2>2. ASSUME NEW x \in T
        PROVE  DrawnIn(x, box)
    <3>1. PICK b, m : b = x.box /\ m = x.node.ratio_index
      OBVIOUS
    <3>2. OfRatio(b, m) /\ Inside(b, second)
      BY <1>3, <3>1 DEF DrawnIn
    <3>3. Inside(b, box)
      BY <3>2, InsideTwice
    <3> QED BY <1>3, <3>1, <3>3 DEF DrawnIn
  <2> QED BY <2>1, <2>2
<1>5. ASSUME NEW x \in S, NEW y \in T
      PROVE  Apart(x.box, y.box) /\ Apart(y.box, x.box) /\ x # y
  <2>1. PICK a, m, b, n : /\ a = x.box /\ m = x.node.ratio_index
                          /\ b = y.box /\ n = y.node.ratio_index
    OBVIOUS
  <2>2. OfRatio(a, m) /\ Inside(a, first)
    BY <1>2, <2>1 DEF DrawnIn
  <2>3. OfRatio(b, n) /\ Inside(b, second)
    BY <1>3, <2>1 DEF DrawnIn
  <2>4. Apart(a, b) /\ Apart(b, a)
    BY <2>2, <2>3, InsideApart
  <2>5. ~Apart(a, a)
    BY <2>2, NotFromItself
  <2> QED BY <2>1, <2>4, <2>5
<1>6. \A x, y \in S \cup T : x # y => Apart(x.box, y.box)
  <2>1. \A x, y \in S : x # y => Apart(x.box, y.box)
    BY DEF WellDrawn
  <2>2. \A x, y \in T : x # y => Apart(x.box, y.box)
    BY DEF WellDrawn
  <2> QED BY <1>5, <2>1, <2>2
<1>7. S \cap T = {}
  BY <1>5
<1>8. ASSUME NEW l \in DOMAIN labels
      PROVE  /\ Cardinality(OfLabel(S \cup T, l)) = Len(scales[l])
             /\ \A h \in Reduced :
                  Cardinality(AsHigh(S \cup T, l, Times(h, Height(box)))) = Copies(scales[l], h)
  <2>1. PICK a, b : a = s[l] /\ b = t[l]
    OBVIOUS
  <2>2. IsScales(a) /\ IsScales(b) /\ scales[l] = Merged(Scaled(a, u), Scaled(b, v))
    BY <2>1
  <2>3. /\ IsScales(Scaled(a, u)) /\ Len(Scaled(a, u)) = Len(a)
        /\ IsScales(Scaled(b, v)) /\ Len(Scaled(b, v)) = Len(b)
    BY <2>2, ScaledIs
  <2>4. /\ Len(scales[l]) = Len(a) + Len(b)
        /\ \A h : Copies(scales[l], h) = Copies(Scaled(a, u), h) + Copies(Scaled(b, v), h)
    <3>1. PICK x, y : x = Scaled(a, u) /\ y = Scaled(b, v)
      OBVIOUS
    <3>2. IsSequence(x) /\ IsSequence(y)
      BY <2>3, <3>1 DEF IsScales
    <3>3. /\ Len(Merged(x, y)) = Len(x) + Len(y)
          /\ \A h : Copies(Merged(x, y), h) = Copies(x, h) + Copies(y, h)
      BY <3>2, MergedIs
    <3> QED BY <2>2, <2>3, <3>1, <3>3
  <2>5. Cardinality(OfLabel(S \cup T, l)) = Len(scales[l])
    <3>1. OfLabel(S \cup T, l) = OfLabel(S, l) \cup OfLabel(T, l)
      BY DEF OfLabel
    <3>2. OfLabel(S, l) \subseteq S /\ OfLabel(T, l) \subseteq T
      BY DEF OfLabel
    <3>3. /\ IsFiniteSet(OfLabel(S, l)) /\ IsFiniteSet(OfLabel(T, l))
          /\ OfLabel(S, l) \cap OfLabel(T, l) = {}
      BY <1>1, <1>7, <3>2, FS_Subset
    <3>4. Cardinality(OfLabel(S, l)) = Len(a) /\ Cardinality(OfLabel(T, l)) = Len(b)
      BY <2>1 DEF WellDrawn
    <3>5. Cardinality(OfLabel(S, l) \cup OfLabel(T, l)) =
            Cardinality(OfLabel(S, l)) + Cardinality(OfLabel(T, l))
      BY <3>3, CountedTogether
    <3> QED BY <2>4, <3>1, <3>4, <3>5
  <2>6. ASSUME NEW h \in Reduced
        PROVE  Cardinality(AsHigh(S \cup T, l, Times(h, Height(box)))) = Copies(scales[l], h)
    <3>1. PICK tall \in Reduced : tall = Height(box)
      BY SidesAre
    <3>2. PICK w \in Reduced : /\ Copies(Scaled(a, u), h) = Copies(a, w)
                               /\ Times(h, tall) = Times(w, Height(first))
      BY <2>2, <3>1, ScaledCopies
    <3>3. PICK z \in Reduced : /\ Copies(Scaled(b, v), h) = Copies(b, z)
                               /\ Times(h, tall) = Times(z, Height(second))
      BY <2>2, <3>1, ScaledCopies
    <3>4. PICK high : high = Times(h, tall)
      OBVIOUS
    <3>5. Cardinality(AsHigh(S, l, high)) = Copies(a, w)
      BY <2>1, <3>2, <3>4 DEF WellDrawn
    <3>6. Cardinality(AsHigh(T, l, high)) = Copies(b, z)
      BY <2>1, <3>3, <3>4 DEF WellDrawn
    <3>7. AsHigh(S \cup T, l, high) = AsHigh(S, l, high) \cup AsHigh(T, l, high)
      BY DEF AsHigh, OfLabel
    <3>8. AsHigh(S, l, high) \subseteq S /\ AsHigh(T, l, high) \subseteq T
      BY DEF AsHigh, OfLabel
    <3>9. /\ IsFiniteSet(AsHigh(S, l, high)) /\ IsFiniteSet(AsHigh(T, l, high))
          /\ AsHigh(S, l, high) \cap AsHigh(T, l, high) = {}
      BY <1>1, <1>7, <3>8, FS_Subset
    <3>10. Cardinality(AsHigh(S, l, high) \cup AsHigh(T, l, high)) =
             Cardinality(AsHigh(S, l, high)) + Cardinality(AsHigh(T, l, high))
      BY <3>9, CountedTogether
    <3> QED BY <2>4, <3>1, <3>2, <3>3, <3>4, <3>5, <3>6, <3>7, <3>10
  <2> QED BY <2>5, <2>6
<1>9. IsFiniteSet(S \cup T)
  BY <1>1, <1>7, CountedTogether
<1> QED BY <1>4, <1>6, <1>8, <1>9 DEF WellDrawn

\* A rectangle by itself fills its box.
LEMMA LeafDrawn ==
  ASSUME LabelsApart, NEW size, DOMAIN labels = 1 .. size, NEW l \in 1 .. size,
         NEW leaf, leaf = Leaf(size, labels[l].ratio_index, l),
         NEW x, x.node.ratio_index = labels[l].ratio_index, x.node.leaf_labels = labels[l].indexes,
         OfRatio(x.box, labels[l].ratio_index)
  PROVE  WellDrawn({x}, leaf.label_scales, x.box)
<1>1. PICK tall : tall = Height(x.box) /\ tall \in Reduced /\ tall \in NonZero
  BY SidesAre
<1>2. \A z \in Reduced : AtMost(z, z)
  BY ReducedIsNumber, AtMostTotal
<1>3. DrawnIn(x, x.box)
  BY <1>2 DEF DrawnIn, Inside, OfRatio
<1>4. IsFiniteSet({x}) /\ Cardinality({x}) = 1
  BY FS_Singleton
<1>5. ASSUME NEW m \in DOMAIN labels, NEW h \in Reduced
      PROVE  /\ Cardinality(OfLabel({x}, m)) = Len(leaf.label_scales[m])
             /\ Cardinality(AsHigh({x}, m, Times(h, tall))) = Copies(leaf.label_scales[m], h)
  <2>1. leaf.label_scales[m] = IF m = l THEN <<Whole(1)>> ELSE <<>>
    BY DEF Leaf
  <2>2. CASE m = l
    <3>1. OfLabel({x}, m) = {x}
      BY <2>2 DEF OfLabel
    <3>2. Times(Whole(1), tall) = tall
      BY <1>1, Neutral
    <3>3. Times(h, tall) = tall <=> h = Whole(1)
      <4>1. Over(Times(h, tall), tall) = h
        BY <1>1, OverTimes
      <4>2. Over(Times(Whole(1), tall), tall) = Whole(1)
        BY <1>1, WholeIsReduced, OverTimes
      <4> QED BY <3>2, <4>1, <4>2
    <3>4. PICK one : one = Whole(1) /\ leaf.label_scales[m] = <<one>>
      BY <2>1, <2>2
    <3>5. {n \in DOMAIN <<one>> : <<one>>[n] = h} = IF h = one THEN {1} ELSE {}
      OBVIOUS
    <3>6. AsHigh({x}, m, Times(h, tall)) = IF h = one THEN {x} ELSE {}
      BY <1>1, <3>1, <3>3, <3>4 DEF AsHigh
    <3>7. Cardinality({1}) = 1 /\ Cardinality({}) = 0
      BY FS_Singleton, FS_EmptySet
    <3>8. Copies(<<one>>, h) = IF h = one THEN 1 ELSE 0
      BY <3>5, <3>7 DEF Copies
    <3>9. Cardinality(AsHigh({x}, m, Times(h, tall))) = IF h = one THEN 1 ELSE 0
      BY <1>4, <3>6, <3>7
    <3> QED BY <1>4, <3>1, <3>4, <3>8, <3>9
  <2>3. CASE m # l
    <3>1. OfLabel({x}, m) = {}
      BY <2>3 DEF OfLabel, LabelsApart
    <3>2. AsHigh({x}, m, Times(h, tall)) = {}
      BY <3>1 DEF AsHigh
    <3>3. Cardinality({}) = 0
      BY FS_EmptySet
    <3>4. leaf.label_scales[m] = <<>>
      BY <2>1, <2>3
    <3>5. Copies(<<>>, h) = 0
      BY <3>3 DEF Copies
    <3> QED BY <3>1, <3>2, <3>3, <3>4, <3>5
  <2> QED BY <2>2, <2>3
<1>6. \A m \in DOMAIN labels : Cardinality(OfLabel({x}, m)) = Len(leaf.label_scales[m])
  <2>1. Whole(1) \in Reduced
    BY WholeIsReduced
  <2> QED BY <1>5, <2>1
<1>7. \A a, b \in {x} : a = b
  OBVIOUS
<1> QED BY <1>1, <1>3, <1>4, <1>5, <1>6, <1>7 DEF WellDrawn

-----------------------------------------------------------------------------
(* The nodes as trees *)

MadeLeaf(n) ==
  n \in DOMAIN labels /\ nodes[n] = Leaf(Len(labels), labels[n].ratio_index, n)

MadeJoin(n) ==
  \E index \in RatioIndex, type \in SplitTypes, left, right \in 1 .. n - 1 :
    /\ nodes[n] = Join(index, type, left, right)
    /\ Complement(index, type) \in Joins(nodes[left].ratio_index, nodes[right].ratio_index)

Ascending(s) == \A m \in 1 .. Len(s) - 1 : AtMost(s[m], s[m + 1])

\* A node has no more of a label than there are, and its scales in order.
FitsGroup(node) ==
  /\ node.all_labels_count \in 1 .. Len(indexes)
  /\ \A l \in DOMAIN labels : /\ node.label_counts[l] =< Len(labels[l].indexes)
                              /\ Ascending(node.label_scales[l])

\* What TypeInv and SaturationInv say of the nodes.
NodesAreTyped == /\ IsSequence(nodes) /\ LabelsShare
                 /\ \A n \in DOMAIN nodes : NodeOK(nodes[n])

NodesAreTrees == \A n \in DOMAIN nodes : (MadeLeaf(n) \/ MadeJoin(n)) /\ FitsGroup(nodes[n])

LEMMA TreesAreEarlier ==
  ASSUME NodesAreTyped, NodesAreTrees
  PROVE  /\ Len(nodes) \in Nat /\ DOMAIN nodes = 1 .. Len(nodes)
         /\ MadeOfEarlier(nodes, Len(nodes))
<1>1. Len(nodes) \in Nat /\ DOMAIN nodes = 1 .. Len(nodes)
  BY DEF NodesAreTyped, IsSequence
<1>2. ASSUME NEW n \in 1 .. Len(nodes), nodes[n].split_type # kSplitTypeNone
      PROVE  nodes[n].left \in 1 .. n - 1 /\ nodes[n].right \in 1 .. n - 1
  <2>1. ~MadeLeaf(n)
    BY <1>2 DEF MadeLeaf, Leaf
  <2>2. MadeJoin(n)
    BY <1>1, <2>1 DEF NodesAreTrees
  <2>3. PICK index \in RatioIndex, type \in SplitTypes, left, right \in 1 .. n - 1 :
          nodes[n] = Join(index, type, left, right)
    BY <2>2 DEF MadeJoin
  <2>4. left \in 1 .. n - 1 /\ right \in 1 .. n - 1
    BY <2>3
  <2>5. nodes[n].left = left /\ nodes[n].right = right
    BY <2>3 DEF Join
  <2> QED BY <2>4, <2>5
<1> QED BY <1>1, <1>2 DEF MadeOfEarlier

\* The label of a ratio, as ConvertToLabelNode finds it.
LEMMA LabelFound ==
  ASSUME LabelsShare, NEW l \in DOMAIN labels
  PROVE  (CHOOSE m \in Range(labels) : m.ratio_index = labels[l].ratio_index) = labels[l]
<1>1. labels[l] \in Range(labels)
  BY DEF Range
<1>2. \A m \in Range(labels) : m.ratio_index = labels[l].ratio_index => m = labels[l]
  BY DEF LabelsShare, LabelsApart, Range
<1> QED BY <1>1, <1>2

\* Turned until it has no more parts, a node's tree shares out the box.
Drawn(n) ==
  \A turns \in Nat : nodes[n].all_labels_count =< turns + 1 =>
    \A box : OfRatio(box, nodes[n].ratio_index) =>
      WellDrawn(OpenedTimes({[node |-> LabelTree(nodes, n), box |-> box]}, turns),
                nodes[n].label_scales, box)

LEMMA LeafIsDrawn ==
  ASSUME NodesAreTyped, NodesAreTrees, NEW n \in DOMAIN nodes, MadeLeaf(n)
  PROVE  Drawn(n)
<1> SUFFICES ASSUME NEW turns \in Nat, NEW box, OfRatio(box, nodes[n].ratio_index)
             PROVE  WellDrawn(OpenedTimes({[node |-> LabelTree(nodes, n), box |-> box]}, turns),
                              nodes[n].label_scales, box)
  BY DEF Drawn
<1>1. PICK size : /\ size = Len(labels) /\ DOMAIN labels = 1 .. size /\ n \in 1 .. size
                  /\ nodes[n] = Leaf(size, labels[n].ratio_index, n)
  <2>1. IsSequence(labels)
    BY DEF NodesAreTyped, LabelsShare
  <2>2. DOMAIN labels = 1 .. Len(labels)
    BY <2>1 DEF IsSequence
  <2>3. n \in DOMAIN labels /\ nodes[n] = Leaf(Len(labels), labels[n].ratio_index, n)
    BY DEF MadeLeaf
  <2> QED BY <2>2, <2>3
<1>2. nodes[n].split_type = kSplitTypeNone /\ nodes[n].ratio_index = labels[n].ratio_index
  BY <1>1 DEF Leaf
<1>3. PICK node : node = LabelTree(nodes, n)
  OBVIOUS
<1>4. /\ node.ratio_index = labels[n].ratio_index /\ node.split_type = kSplitTypeNone
      /\ node.leaf_labels =
           (CHOOSE m \in Range(labels) : m.ratio_index = labels[n].ratio_index).indexes
  <2>1. PICK amount \in Nat : amount = Len(nodes) /\ DOMAIN nodes = 1 .. amount
                              /\ MadeOfEarlier(nodes, amount)
    BY TreesAreEarlier
  <2>2. /\ LabelTree(nodes, n).ratio_index = nodes[n].ratio_index
        /\ LabelTree(nodes, n).split_type = nodes[n].split_type
        /\ nodes[n].split_type = kSplitTypeNone =>
              LabelTree(nodes, n).leaf_labels =
                (CHOOSE m \in Range(labels) : m.ratio_index = nodes[n].ratio_index).indexes
    BY <2>1, LabelTreeIs
  <2> QED BY <1>2, <1>3, <2>2
<1>5. node.leaf_labels = labels[n].indexes
  BY <1>1, <1>4, LabelFound DEF NodesAreTyped
<1>6. PICK x : x = [node |-> node, box |-> box]
  OBVIOUS
<1>7. x.node = node /\ x.box = box
  BY <1>6
<1>8. OpenedTimes({x}, turns) = {x}
  BY <1>4, <1>7, OpenedLeaf
<1>9. WellDrawn({x}, Leaf(size, labels[n].ratio_index, n).label_scales, x.box)
  <2>1. PICK leaf : leaf = Leaf(size, labels[n].ratio_index, n)
    OBVIOUS
  <2>2. LabelsApart
    BY DEF NodesAreTyped, LabelsShare
  <2>3. OfRatio(x.box, labels[n].ratio_index)
    BY <1>2, <1>7
  <2>4. WellDrawn({x}, leaf.label_scales, x.box)
    BY <1>1, <1>4, <1>5, <1>7, <2>1, <2>2, <2>3, LeafDrawn
  <2> QED BY <2>1, <2>4
<1> QED BY <1>1, <1>3, <1>6, <1>7, <1>8, <1>9

LEMMA JoinIsDrawn ==
  ASSUME NodesAreTyped, NodesAreTrees, NEW n \in DOMAIN nodes, MadeJoin(n),
         \A m \in 1 .. n - 1 : Drawn(m)
  PROVE  Drawn(n)
<1> SUFFICES ASSUME NEW turns \in Nat, nodes[n].all_labels_count =< turns + 1,
                    NEW box, OfRatio(box, nodes[n].ratio_index)
             PROVE  WellDrawn(OpenedTimes({[node |-> LabelTree(nodes, n), box |-> box]}, turns),
                              nodes[n].label_scales, box)
  BY DEF Drawn
<1>1. PICK amount \in Nat : amount = Len(nodes) /\ DOMAIN nodes = 1 .. amount
                            /\ MadeOfEarlier(nodes, amount)
  BY TreesAreEarlier
<1>2. PICK index \in RatioIndex, type \in SplitTypes, left, right \in 1 .. n - 1 :
        /\ nodes[n] = Join(index, type, left, right)
        /\ Complement(index, type) \in Joins(nodes[left].ratio_index, nodes[right].ratio_index)
  BY DEF MadeJoin
<1>3. n \in Nat /\ left \in DOMAIN nodes /\ right \in DOMAIN nodes
  BY <1>1
<1>4. PICK L, R : L = nodes[left] /\ R = nodes[right]
  OBVIOUS
<1>5. /\ NodeOK(L) /\ NodeOK(R) /\ L.ratio_index \in RatioIndex /\ R.ratio_index \in RatioIndex
      /\ L.all_labels_count \in Nat \ {0} /\ R.all_labels_count \in Nat \ {0}
      /\ Len(indexes) \in Nat
  <2>1. NodeOK(L) /\ NodeOK(R)
    BY <1>3, <1>4 DEF NodesAreTyped
  <2>2. FitsGroup(L) /\ FitsGroup(R)
    BY <1>3, <1>4 DEF NodesAreTrees
  <2>3. Len(indexes) \in Nat
    BY DEF NodesAreTyped, LabelsShare
  <2> QED BY <2>1, <2>2, <2>3 DEF NodeOK, FitsGroup
<1>6. PICK u, v : u = ShrinksBy(index, type, L) /\ v = ShrinksBy(index, type, R)
  OBVIOUS
<1>7. u \in NonZero /\ v \in NonZero
  BY <1>5, <1>6, ShrinksByIs
<1>8. /\ nodes[n].ratio_index = index /\ nodes[n].split_type = type
      /\ nodes[n].left = left /\ nodes[n].right = right
      /\ nodes[n].all_labels_count = L.all_labels_count + R.all_labels_count
      /\ \A l \in DOMAIN labels :
           nodes[n].label_scales[l] = Merged(Scaled(L.label_scales[l], u), Scaled(R.label_scales[l], v))
  BY <1>2, <1>4, <1>6 DEF Join, ShrinksBy
<1>9. PICK node : node = LabelTree(nodes, n)
  OBVIOUS
<1>10. type # kSplitTypeNone
  BY DEF SplitTypes, kSplitTypeNone, kSplitTypeVertical, kSplitTypeHorizontal
<1>11. /\ node.ratio_index = index /\ node.split_type = type
       /\ node.left = LabelTree(nodes, left) /\ node.right = LabelTree(nodes, right)
       /\ node.left.ratio_index = L.ratio_index
  <2>1. /\ LabelTree(nodes, n).ratio_index = nodes[n].ratio_index
        /\ LabelTree(nodes, n).split_type = nodes[n].split_type
        /\ nodes[n].split_type # kSplitTypeNone =>
              /\ LabelTree(nodes, n).left = LabelTree(nodes, nodes[n].left)
              /\ LabelTree(nodes, n).right = LabelTree(nodes, nodes[n].right)
    BY <1>1, LabelTreeIs
  <2>2. LabelTree(nodes, left).ratio_index = nodes[left].ratio_index
    BY <1>1, <1>3, LabelTreeIs
  <2> QED BY <1>4, <1>8, <1>9, <1>10, <2>1, <2>2
<1>12. PICK first, second : first = ChildBoxes(node, box)[1] /\ second = ChildBoxes(node, box)[2]
  OBVIOUS
<1>13. OfRatio(box, index)
  BY <1>8
<1>14. /\ OfRatio(first, L.ratio_index) /\ Inside(first, box)
       /\ OfRatio(second, R.ratio_index) /\ Inside(second, box)
       /\ first.right = second.left \/ first.bottom = second.top
       /\ Height(first) = Times(Height(box), u) /\ Height(second) = Times(Height(box), v)
  <2>1. PICK p \in RatioIndex, q \in RatioIndex : p = L.ratio_index /\ q = R.ratio_index
    BY <1>5
  <2>2. Complement(index, type) \in Joins(p, q)
    BY <1>2, <1>4, <2>1
  <2>3. node.left.ratio_index = p
    BY <1>11, <2>1
  <2>4. /\ OfRatio(first, p) /\ Inside(first, box)
        /\ OfRatio(second, q) /\ Inside(second, box)
        /\ first.right = second.left \/ first.bottom = second.top
        /\ \A part : part.ratio_index = p =>
             Height(first) = Times(Height(box), ShrinksBy(index, type, part))
        /\ \A part : part.ratio_index = q =>
             Height(second) = Times(Height(box), ShrinksBy(index, type, part))
    BY <1>11, <1>12, <1>13, <2>2, <2>3, ChildrenAre
  <2> QED BY <1>6, <2>1, <2>4
<1>15. PICK less \in Nat : turns = less + 1
  <2>1. turns # 0
    BY <1>5, <1>8
  <2>2. turns - 1 \in Nat /\ turns = turns - 1 + 1
    BY <2>1
  <2> QED BY <2>2
<1>16. PICK x, y, z : /\ x = [node |-> node, box |-> box]
                      /\ y = [node |-> LabelTree(nodes, left), box |-> first]
                      /\ z = [node |-> LabelTree(nodes, right), box |-> second]
  OBVIOUS
<1>17. PICK S, T : S = OpenedTimes({y}, less) /\ T = OpenedTimes({z}, less)
                   /\ OpenedTimes({x}, turns) = S \cup T
  <2>1. x.node = node /\ x.box = box
    BY <1>16
  <2>2. y = FirstOf(x) /\ z = SecondOf(x)
    BY <1>11, <1>12, <1>16, <2>1 DEF FirstOf, SecondOf
  <2>3. x.node.split_type # kSplitTypeNone
    BY <1>10, <1>11, <2>1
  <2>4. OpenedTimes({x}, less + 1) =
          OpenedTimes({FirstOf(x)}, less) \cup OpenedTimes({SecondOf(x)}, less)
    BY <2>3, OpenedJoin
  <2> QED BY <1>15, <2>2, <2>4
<1>18. L.all_labels_count =< less + 1 /\ R.all_labels_count =< less + 1
  BY <1>5, <1>8, <1>15
<1>19. WellDrawn(S, L.label_scales, first)
  <2>1. Drawn(left)
    BY <1>2
  <2> QED BY <1>4, <1>14, <1>16, <1>17, <1>18, <2>1 DEF Drawn
<1>20. WellDrawn(T, R.label_scales, second)
  <2>1. Drawn(right)
    BY <1>2
  <2> QED BY <1>4, <1>14, <1>16, <1>17, <1>18, <2>1 DEF Drawn
<1>21. WellDrawn(S \cup T, nodes[n].label_scales, box)
  <2>1. PICK s, t, scales : /\ s = L.label_scales /\ t = R.label_scales
                            /\ scales = nodes[n].label_scales
    OBVIOUS
  <2>2. \A l \in DOMAIN labels : IsScales(s[l])
    BY <1>5, <2>1 DEF NodeOK
  <2>3. \A l \in DOMAIN labels : IsScales(t[l])
    BY <1>5, <2>1 DEF NodeOK
  <2>4. \A l \in DOMAIN labels : scales[l] = Merged(Scaled(s[l], u), Scaled(t[l], v))
    BY <1>8, <2>1
  <2>5. WellDrawn(S, s, first) /\ WellDrawn(T, t, second)
    BY <1>19, <1>20, <2>1
  <2>6. PICK p, q : p = L.ratio_index /\ q = R.ratio_index
    OBVIOUS
  <2>7. OfRatio(first, p) /\ OfRatio(second, q)
    BY <1>14, <2>6
  <2>8. WellDrawn(S \cup T, scales, box)
    BY <1>7, <1>13, <1>14, <2>2, <2>3, <2>4, <2>5, <2>7, PartsDrawn
  <2> QED BY <2>1, <2>8
<1> QED BY <1>9, <1>16, <1>17, <1>21

\* Every node's tree is drawn right, in any box of its ratio.
LEMMA TreesAreDrawn ==
  ASSUME NodesAreTyped, NodesAreTrees
  PROVE  \A n \in DOMAIN nodes : Drawn(n)
<1> DEFINE Wrong == {n \in DOMAIN nodes : ~Drawn(n)}
<1> SUFFICES ASSUME Wrong # {}
             PROVE  FALSE
  OBVIOUS
<1>1. Len(nodes) \in Nat /\ DOMAIN nodes = 1 .. Len(nodes)
  BY TreesAreEarlier
<1>2. PICK n \in Wrong : \A m \in Wrong : n =< m
  <2>1. Wrong \in SUBSET Nat
    BY <1>1
  <2> HIDE DEF Wrong
  <2> QED BY <2>1, Smallest
<1>3. n \in DOMAIN nodes /\ n \in Nat /\ ~Drawn(n)
  BY <1>1, <1>2
<1>4. ASSUME NEW m \in 1 .. n - 1
      PROVE  Drawn(m)
  <2>1. ~(n =< m) /\ m \in DOMAIN nodes
    BY <1>1, <1>3
  <2>2. m \notin Wrong
    <3> HIDE DEF Wrong
    <3> QED BY <1>2, <2>1
  <2> QED BY <2>1, <2>2
<1>5. MadeLeaf(n) \/ MadeJoin(n)
  BY <1>3 DEF NodesAreTrees
<1> HIDE DEF Wrong
<1> QED BY <1>3, <1>4, <1>5, LeafIsDrawn, JoinIsDrawn

-----------------------------------------------------------------------------
(* Scales stay in order *)

LEMMA AfterElements ==
  ASSUME NEW s, IsSequence(s), NEW n \in 0 .. Len(s)
  PROVE  /\ Len(After(s, n)) = Len(s) - n
         /\ \A m \in 1 .. Len(s) - n : After(s, n)[m] = s[n + m]
<1>1. PICK S : s \in Seq(S)
  BY DEF IsSequence
<1>2. Len(s) \in Nat /\ Len(After(s, n)) = Len(s) - n
  BY AfterIs
<1>3. ASSUME NEW m \in 1 .. Len(s) - n
      PROVE  After(s, n)[m] = s[n + m]
  <2>1. m \in 1 .. Len(s) - (n + 1) + 1 /\ n + 1 + m - 1 = n + m
    BY <1>2
  <2> QED BY <1>1, <1>2, <2>1 DEF After
<1> QED BY <1>2, <1>3

LEMMA Preceded ==
  ASSUME NEW s, IsSequence(s), NEW x
  PROVE  /\ IsSequence(<<x>> \o s) /\ Len(s) \in Nat /\ Len(<<x>> \o s) = Len(s) + 1
         /\ (<<x>> \o s)[1] = x
         /\ \A m \in 1 .. Len(s) : (<<x>> \o s)[m + 1] = s[m]
<1>1. PICK S : s \in Seq(S)
  BY DEF IsSequence
<1>2. PICK f : f = <<x>> /\ IsSequence(f) /\ Len(f) = 1 /\ f[1] = x
  <2>1. <<x>> \in Seq({x}) /\ Len(<<x>>) = 1 /\ <<x>>[1] = x
    OBVIOUS
  <2>2. IsSequence(<<x>>)
    BY <2>1, SequenceIs
  <2> QED BY <2>1, <2>2
<1>3. IsSequence(<<x>> \o s) /\ Len(s) \in Nat /\ Len(<<x>> \o s) = Len(s) + 1
  BY <1>2, CopiesJoined, AfterIs
<1>4. f \in Seq(S \cup {x}) /\ s \in Seq(S \cup {x})
  <2>1. <<x>> \in Seq(S \cup {x})
    OBVIOUS
  <2>2. s \in Seq(S \cup {x})
    BY <1>1
  <2> QED BY <1>2, <2>1, <2>2
<1>5. (f \o s)[1] = x
  BY <1>2, <1>3, <1>4
<1>6. ASSUME NEW m \in 1 .. Len(s)
      PROVE  (f \o s)[m + 1] = s[m]
  <2>1. m + 1 \in 1 .. Len(f) + Len(s) /\ m + 1 > Len(f) /\ m + 1 - Len(f) = m
    BY <1>2, <1>3
  <2> QED BY <1>4, <2>1
<1> QED BY <1>2, <1>3, <1>5, <1>6

\* A number put before an ascending sequence that starts no lower.
LEMMA AscendingPreceded ==
  ASSUME NEW s, IsSequence(s), Ascending(s), NEW x, Len(s) # 0 => AtMost(x, s[1])
  PROVE  Ascending(<<x>> \o s)
<1>1. PICK t : /\ t = <<x>> \o s /\ Len(s) \in Nat /\ Len(t) = Len(s) + 1 /\ t[1] = x
               /\ \A m \in 1 .. Len(s) : t[m + 1] = s[m]
  <2>1. PICK t : t = <<x>> \o s
    OBVIOUS
  <2>2. /\ Len(s) \in Nat /\ Len(<<x>> \o s) = Len(s) + 1 /\ (<<x>> \o s)[1] = x
        /\ \A m \in 1 .. Len(s) : (<<x>> \o s)[m + 1] = s[m]
    BY Preceded
  <2> QED BY <2>1, <2>2
<1>2. ASSUME NEW m \in 1 .. Len(t) - 1
      PROVE  AtMost(t[m], t[m + 1])
  <2>1. m \in 1 .. Len(s) /\ t[m + 1] = s[m]
    BY <1>1
  <2>2. CASE m = 1
    BY <1>1, <2>1, <2>2
  <2>3. CASE m # 1
    <3>1. PICK l \in 1 .. Len(s) - 1 : m = l + 1
      BY <1>1, <2>1, <2>3
    <3>2. t[l + 1] = s[l] /\ t[l + 1 + 1] = s[l + 1] /\ AtMost(s[l], s[l + 1])
      BY <1>1, <3>1 DEF Ascending
    <3> QED BY <3>1, <3>2
  <2> QED BY <2>2, <2>3
<1> QED BY <1>1, <1>2 DEF Ascending

LEMMA AscendingAfter ==
  ASSUME NEW s, IsSequence(s), Ascending(s), NEW n \in 0 .. Len(s)
  PROVE  Ascending(After(s, n))
<1>1. PICK t : /\ t = After(s, n) /\ Len(t) = Len(s) - n
               /\ \A m \in 1 .. Len(s) - n : t[m] = s[n + m]
  BY AfterElements
<1>2. Len(s) \in Nat
  BY AfterIs
<1>3. ASSUME NEW m \in 1 .. Len(t) - 1
      PROVE  AtMost(t[m], t[m + 1])
  <2>1. m \in 1 .. Len(s) - n /\ m + 1 \in 1 .. Len(s) - n /\ n + m \in 1 .. Len(s) - 1
    BY <1>1, <1>2
  <2>2. t[m] = s[n + m] /\ t[m + 1] = s[n + (m + 1)] /\ n + (m + 1) = n + m + 1
    BY <1>1, <2>1
  <2>3. AtMost(s[n + m], s[n + m + 1])
    BY <2>1 DEF Ascending
  <2> QED BY <2>2, <2>3
<1> QED BY <1>1, <1>3 DEF Ascending

\* f is in order, and starts as x or y does from p on.
InOrderFrom(x, y, p, f) ==
  /\ Ascending(f)
  /\ Len(f) # 0 => \/ p[1] < Len(x) /\ f[1] = x[p[1] + 1]
                   \/ p[2] < Len(y) /\ f[1] = y[p[2] + 1]

LEMMA MergesInOrder ==
  ASSUME NEW x, IsScales(x), Ascending(x), NEW y, IsScales(y), Ascending(y),
         NEW N \in Nat, NEW rest, Merges(x, y, N, rest)
  PROVE  \A p \in MergesFrom(x, y, N) : InOrderFrom(x, y, p, rest[p])
<1> DEFINE D == MergesFrom(x, y, N)
           Bad == {n \in Nat : \E p \in D : ToMerge(x, y, p) = n /\ ~InOrderFrom(x, y, p, rest[p])}
<1>0. IsSequence(x) /\ IsSequence(y)
  BY DEF IsScales
<1>1. PICK X \in Nat, Y \in Nat : X = Len(x) /\ Y = Len(y)
  BY <1>0 DEF IsSequence
<1>2. D = {p \in (0 .. X) \X (0 .. Y) : (X - p[1]) + (Y - p[2]) =< N}
  BY <1>1 DEF MergesFrom, ToMerge
<1>3. \A p \in D : ToMerge(x, y, p) \in Nat
  BY <1>1, <1>2 DEF ToMerge
<1> SUFFICES ASSUME Bad # {}
             PROVE  FALSE
  BY <1>3
<1>4. PICK n \in Bad : \A m \in Bad : n =< m
  <2>1. Bad \in SUBSET Nat
    OBVIOUS
  <2> HIDE DEF Bad
  <2> QED BY <2>1, Smallest
<1>5. PICK p \in D : ToMerge(x, y, p) = n /\ ~InOrderFrom(x, y, p, rest[p])
  BY <1>4
<1>6. PICK a \in 0 .. X, b \in 0 .. Y : p = <<a, b>> /\ n = (X - a) + (Y - b) /\ n =< N
  <2>1. PICK a \in 0 .. X, b \in 0 .. Y : p = <<a, b>>
    BY <1>2
  <2>2. p[1] = a /\ p[2] = b /\ (X - p[1]) + (Y - p[2]) =< N
    BY <1>2, <2>1
  <2>3. n = (X - p[1]) + (Y - p[2])
    BY <1>1, <1>5 DEF ToMerge
  <2> QED BY <2>1, <2>2, <2>3
<1>7. ASSUME NEW q \in D, ToMerge(x, y, q) = n - 1, n # 0
      PROVE  InOrderFrom(x, y, q, rest[q]) /\ IsSequence(rest[q])
  <2>1. n - 1 \in Nat /\ ~(n =< n - 1)
    BY <1>4, <1>7
  <2>2. n - 1 \notin Bad
    <3> HIDE DEF Bad
    <3> QED BY <1>4, <2>1
  <2>3. Merging(x, y, q, rest[q])
    BY <1>0, MergesRight
  <2> QED BY <1>7, <2>1, <2>2, <2>3 DEF Merging
<1> HIDE DEF Bad
<1>8. PICK f : f = rest[p] /\ f = MergeRest(x, y, rest, p) /\ ~InOrderFrom(x, y, p, f)
  <2>1. rest[p] = MergeRest(x, y, rest, p)
    BY DEF Merges
  <2> QED BY <1>5, <2>1
<1>9. p[1] = a /\ p[2] = b /\ a \in Nat /\ b \in Nat
  BY <1>6
<1>10. a # X /\ b # Y
  <2>1. CASE a = X
    <3>1. f = After(y, b) \/ (f = After(x, a) /\ b = Y)
      <4>1. p[1] + 1 > Len(x)
        BY <1>1, <1>9, <2>1
      <4>2. CASE b = Y
        BY <1>1, <1>8, <1>9, <4>1, <4>2 DEF MergeRest, After
      <4>3. CASE b # Y
        <5>1. ~(p[2] + 1 > Len(y))
          BY <1>1, <1>6, <1>9, <4>3
        <5> QED BY <1>1, <1>8, <1>9, <4>1, <5>1 DEF MergeRest, After
      <4> QED BY <4>2, <4>3
    <3>2. CASE f = After(y, b)
      <4>1. /\ Len(f) = Y - b /\ \A m \in 1 .. Y - b : f[m] = y[b + m]
        BY <1>0, <1>1, <3>2, AfterElements
      <4>2. Ascending(f)
        BY <1>0, <1>1, <3>2, AscendingAfter
      <4>3. Len(f) # 0 => b < Y /\ f[1] = y[b + 1]
        BY <1>9, <4>1
      <4> QED BY <1>1, <1>8, <1>9, <4>2, <4>3 DEF InOrderFrom
    <3>3. CASE f = After(x, a)
      <4>1. /\ Len(f) = X - a /\ \A m \in 1 .. X - a : f[m] = x[a + m]
        BY <1>0, <1>1, <3>3, AfterElements
      <4>2. Ascending(f)
        BY <1>0, <1>1, <3>3, AscendingAfter
      <4>3. Len(f) # 0 => a < X /\ f[1] = x[a + 1]
        BY <1>9, <4>1
      <4> QED BY <1>1, <1>8, <1>9, <4>2, <4>3 DEF InOrderFrom
    <3> QED BY <3>1, <3>2, <3>3
  <2>2. CASE a # X /\ b = Y
    <3>1. ~(a + 1 > X) /\ b + 1 > Y
      BY <1>6, <2>2
    <3>2. f = After(x, a)
      BY <1>1, <1>8, <1>9, <3>1 DEF MergeRest, After
    <3>3. /\ Len(f) = X - a /\ \A m \in 1 .. X - a : f[m] = x[a + m]
      BY <1>0, <1>1, <3>2, AfterElements
    <3>4. Ascending(f)
      BY <1>0, <1>1, <3>2, AscendingAfter
    <3>5. Len(f) # 0 => a < X /\ f[1] = x[a + 1]
      BY <1>9, <3>3
    <3> QED BY <1>1, <1>8, <1>9, <3>4, <3>5 DEF InOrderFrom
  <2> QED BY <2>1, <2>2
<1>11. /\ ~(a + 1 > X) /\ ~(b + 1 > Y) /\ a \in 0 .. X - 1 /\ b \in 0 .. Y - 1 /\ n # 0
       /\ a < X /\ b < Y
  BY <1>6, <1>10
<1>12. x[a + 1] \in Numbers /\ y[b + 1] \in Numbers
  <2>1. a + 1 \in DOMAIN x /\ b + 1 \in DOMAIN y
    BY <1>0, <1>1, <1>11 DEF IsSequence
  <2> QED BY <2>1, ReducedIsNumber DEF IsScales
<1>13. CASE Less(x[a + 1], y[b + 1])
  <2> DEFINE q == <<a + 1, b>>
  <2>1. q \in D /\ q[1] = a + 1 /\ q[2] = b /\ ToMerge(x, y, q) = n - 1
    <3>1. q \in (0 .. X) \X (0 .. Y) /\ q[1] = a + 1 /\ q[2] = b
      BY <1>6, <1>11
    <3>2. (X - q[1]) + (Y - q[2]) = n - 1
      BY <1>6, <3>1
    <3>3. n - 1 =< N
      BY <1>6
    <3>4. ToMerge(x, y, q) = n - 1
      BY <1>1, <3>2 DEF ToMerge
    <3> QED BY <1>2, <3>1, <3>2, <3>3, <3>4
  <2>2. f = <<x[a + 1]>> \o rest[q]
    BY <1>1, <1>8, <1>9, <1>11, <1>13 DEF MergeRest
  <2> HIDE DEF q
  <2>3. PICK g : g = rest[q] /\ InOrderFrom(x, y, q, g) /\ IsSequence(g)
    BY <1>7, <1>11, <2>1
  <2>4. Len(g) # 0 => AtMost(x[a + 1], g[1])
    <3>1. Len(g) # 0 => \/ a + 1 < X /\ g[1] = x[a + 1 + 1]
                        \/ g[1] = y[b + 1]
      BY <1>1, <2>1, <2>3 DEF InOrderFrom
    <3>2. a + 1 < X => AtMost(x[a + 1], x[a + 1 + 1])
      BY <1>1, <1>9 DEF Ascending
    <3>3. AtMost(x[a + 1], y[b + 1])
      BY <1>12, <1>13, AtMostTotal DEF AtMost
    <3> QED BY <3>1, <3>2, <3>3
  <2>5. Ascending(f)
    BY <2>2, <2>3, <2>4, AscendingPreceded DEF InOrderFrom
  <2>6. f[1] = x[a + 1]
    BY <2>2, <2>3, Preceded
  <2> QED BY <1>1, <1>8, <1>9, <1>11, <2>5, <2>6 DEF InOrderFrom
<1>14. CASE ~Less(x[a + 1], y[b + 1])
  <2> DEFINE q == <<a, b + 1>>
  <2>1. q \in D /\ q[1] = a /\ q[2] = b + 1 /\ ToMerge(x, y, q) = n - 1
    <3>1. q \in (0 .. X) \X (0 .. Y) /\ q[1] = a /\ q[2] = b + 1
      BY <1>6, <1>11
    <3>2. (X - q[1]) + (Y - q[2]) = n - 1
      BY <1>6, <3>1
    <3>3. n - 1 =< N
      BY <1>6
    <3>4. ToMerge(x, y, q) = n - 1
      BY <1>1, <3>2 DEF ToMerge
    <3> QED BY <1>2, <3>1, <3>2, <3>3, <3>4
  <2>2. f = <<y[b + 1]>> \o rest[q]
    BY <1>1, <1>8, <1>9, <1>11, <1>14 DEF MergeRest
  <2> HIDE DEF q
  <2>3. PICK g : g = rest[q] /\ InOrderFrom(x, y, q, g) /\ IsSequence(g)
    BY <1>7, <1>11, <2>1
  <2>4. Len(g) # 0 => AtMost(y[b + 1], g[1])
    <3>1. Len(g) # 0 => \/ g[1] = x[a + 1]
                        \/ b + 1 < Y /\ g[1] = y[b + 1 + 1]
      BY <1>1, <2>1, <2>3 DEF InOrderFrom
    <3>2. b + 1 < Y => AtMost(y[b + 1], y[b + 1 + 1])
      BY <1>1, <1>9 DEF Ascending
    <3>3. AtMost(y[b + 1], x[a + 1])
      BY <1>14 DEF AtMost
    <3> QED BY <3>1, <3>2, <3>3
  <2>5. Ascending(f)
    BY <2>2, <2>3, <2>4, AscendingPreceded DEF InOrderFrom
  <2>6. f[1] = y[b + 1]
    BY <2>2, <2>3, Preceded
  <2> QED BY <1>1, <1>8, <1>9, <1>11, <2>5, <2>6 DEF InOrderFrom
<1> QED BY <1>13, <1>14

\* Ascending sequences are merged to one.
LEMMA MergedAscends ==
  ASSUME NEW x, IsScales(x), Ascending(x), NEW y, IsScales(y), Ascending(y)
  PROVE  Ascending(Merged(x, y))
<1> DEFINE own == CHOOSE rest : rest = [p \in (0 .. Len(x)) \X (0 .. Len(y)) |->
                                          MergeRest(x, y, rest, p)]
<1>1. PICK X \in Nat, Y \in Nat : X = Len(x) /\ Y = Len(y) /\ IsSequence(x) /\ IsSequence(y)
  <2>1. IsSequence(x) /\ IsSequence(y)
    BY DEF IsScales
  <2>2. Len(x) \in Nat /\ Len(y) \in Nat
    BY <2>1, AfterIs
  <2> QED BY <2>1, <2>2
<1>2. Merged(x, y) = own[<<0, 0>>]
  BY DEF Merged, MergeRest
<1>3. MergesFrom(x, y, X + Y) = (0 .. Len(x)) \X (0 .. Len(y))
  BY <1>1 DEF MergesFrom, ToMerge
<1>4. Merges(x, y, X + Y, own)
  <2>1. \E rest : Merges(x, y, X + Y, rest)
    BY <1>1, MergesExist
  <2> QED BY <1>3, <2>1 DEF Merges
<1> HIDE DEF own
<1>5. InOrderFrom(x, y, <<0, 0>>, own[<<0, 0>>])
  <2>1. <<0, 0>> \in MergesFrom(x, y, X + Y) /\ X + Y \in Nat
    BY <1>1, <1>3
  <2> QED BY <1>4, <2>1, MergesInOrder
<1> QED BY <1>2, <1>5 DEF InOrderFrom

\* A positive factor keeps the order.
LEMMA ScaledAscends ==
  ASSUME NEW s, IsScales(s), Ascending(s), NEW factor \in NonZero, Positive(factor)
  PROVE  Ascending(Scaled(s, factor))
<1>1. factor \in Numbers /\ Whole(0) \in Numbers
  BY WholeIsNumber DEF NonZero
<1>2. AtMost(Whole(0), factor)
  <2>1. Less(Whole(0), factor)
    BY <1>1, AboveZero
  <2> QED BY <1>1, <2>1, AtMostTotal DEF AtMost
<1>3. Len(s) \in Nat /\ DOMAIN s = 1 .. Len(s) /\ Len(Scaled(s, factor)) = Len(s)
  <2>1. Len(Scaled(s, factor)) = Len(s)
    BY ScaledIs
  <2> QED BY <2>1 DEF IsScales, IsSequence
<1>4. \A m \in DOMAIN s : s[m] \in Numbers /\ Scaled(s, factor)[m] = Times(s[m], factor)
  BY ReducedIsNumber DEF IsScales, Scaled
<1>5. ASSUME NEW m \in 1 .. Len(s) - 1
      PROVE  AtMost(Scaled(s, factor)[m], Scaled(s, factor)[m + 1])
  <2>1. m \in DOMAIN s /\ m + 1 \in DOMAIN s
    BY <1>3
  <2>2. AtMost(s[m], s[m + 1])
    BY DEF Ascending
  <2>3. AtMost(Times(s[m], factor), Times(s[m + 1], factor))
    BY <1>1, <1>2, <1>4, <2>1, <2>2, AtMostScaled
  <2> QED BY <1>4, <2>1, <2>3
<1> QED BY <1>3, <1>5 DEF Ascending

LEMMA ShrinksByPositive ==
  ASSUME NEW index \in RatioIndex, NEW type, NEW node, node.ratio_index \in RatioIndex
  PROVE  Positive(ShrinksBy(index, type, node))
<1>1. PICK r, s : /\ r = ratios[index] /\ s = ratios[node.ratio_index]
                  /\ r \in Numbers /\ s \in Numbers /\ Positive(r) /\ Positive(s)
  BY RatioIsReduced
<1>2. s \in NonZero /\ Positive(Reciprocal(s)) /\ Reciprocal(s) \in Numbers
  BY <1>1, PositiveReciprocal, ReciprocalIs, ReducedIsNumber
<1>3. Positive(Over(r, s))
  BY <1>1, <1>2, PositiveProduct DEF Over
<1>4. Positive(Whole(1))
  BY DEF Positive, Whole
<1> QED BY <1>1, <1>3, <1>4 DEF ShrinksBy

-----------------------------------------------------------------------------
(* The nodes stay trees *)

\* The complete trees are those of nodes that hold the whole group.
TreesListed ==
  /\ IsSequence(complete_trees)
  /\ \A tree \in Range(complete_trees) : \E n \in DOMAIN nodes :
       nodes[n].all_labels_count = Len(indexes) /\ tree = LabelTree(nodes, n)

\* The inductive invariant for what is drawn, given SaturationInv, TypeInv and
\* InArray.
DrawInv == NodesAreTrees /\ TreesListed

LEMMA TypedNodes ==
  ASSUME SaturationInv, TypeInv, pc # "construct"
  PROVE  NodesAreTyped
BY DEF SaturationInv, Shape, TypeInv, TreesInv, LabelsInv, NodesAreTyped

LEMMA NoTreesYet ==
  ASSUME DrawInv, nodes = <<>>
  PROVE  Range(complete_trees) = {} /\ IsSequence(complete_trees)
BY DEF DrawInv, TreesListed

LEMMA InitTrees ==
  ASSUME Init
  PROVE  DrawInv
<1>1. nodes = <<>> /\ complete_trees = <<>>
  BY DEF Init
<1>2. IsSequence(<<>>) /\ Range(<<>>) = {}
  BY DEF IsSequence, Range
<1> QED BY <1>1, <1>2 DEF DrawInv, NodesAreTrees, TreesListed

LEMMA ConstructTrees ==
  ASSUME SaturationInv, DrawInv, BuildMap \/ LabelIndexes
  PROVE  DrawInv'
<1>1. nodes = <<>> /\ UNCHANGED <<nodes, complete_trees>>
  BY DEF BuildMap, LabelIndexes, SaturationInv, Fresh, group_vars
<1>2. Range(complete_trees') = {} /\ IsSequence(complete_trees')
  BY <1>1, NoTreesYet
<1> QED BY <1>1, <1>2 DEF DrawInv, NodesAreTrees, TreesListed

LEMMA TreesStayAsTheyAre ==
  ASSUME DrawInv, UNCHANGED <<nodes, labels, indexes, complete_trees>>
  PROVE  DrawInv'
<1>1. ASSUME NEW n \in DOMAIN nodes
      PROVE  (MadeLeaf(n) \/ MadeJoin(n))' /\ FitsGroup(nodes[n])'
  <2>1. (MadeLeaf(n) \/ MadeJoin(n)) /\ FitsGroup(nodes[n])
    BY DEF DrawInv, NodesAreTrees
  <2>2. FitsGroup(nodes[n])'
    BY <2>1 DEF FitsGroup
  <2>3. MadeLeaf(n) => MadeLeaf(n)'
    BY DEF MadeLeaf
  <2>4. MadeJoin(n) => MadeJoin(n)'
    <3>1. \A index, type, left, right :
            Join(index, type, left, right)' = Join(index, type, left, right)
      BY DEF Join
    <3> QED BY <3>1 DEF MadeJoin
  <2> QED BY <2>1, <2>2, <2>3, <2>4
<1>2. \A n : LabelTree(nodes, n)' = LabelTree(nodes, n)
  BY DEF LabelTree
<1>3. NodesAreTrees'
  BY <1>1 DEF NodesAreTrees
<1>4. TreesListed'
  BY <1>2 DEF DrawInv, TreesListed
<1> QED BY <1>3, <1>4 DEF DrawInv

LEMMA BuildLeavesTrees ==
  ASSUME SaturationInv, TypeInv, DrawInv, BuildLeaves
  PROVE  DrawInv'
<1>1. PICK size \in Nat : size = Len(labels) /\ DOMAIN labels = 1 .. size
  BY DEF SaturationInv, Shape, IsSequence
<1>2. /\ pc = "call" /\ nodes' = [l \in 1 .. size |-> Leaf(size, labels[l].ratio_index, l)]
      /\ UNCHANGED <<labels, indexes, complete_trees>>
  BY <1>1 DEF BuildLeaves
<1>3. nodes = <<>> /\ LabelsShare
  BY <1>2 DEF SaturationInv, Fresh, TypeInv, LabelsInv
<1>4. Range(complete_trees') = {} /\ IsSequence(complete_trees')
  BY <1>2, <1>3, NoTreesYet
<1>5. ASSUME NEW n \in 1 .. size
      PROVE  MadeLeaf(n)' /\ FitsGroup(nodes[n])'
  <2>1. PICK x : x = nodes'[n] /\ x = Leaf(size, labels[n].ratio_index, n)
    BY <1>2
  <2>2. MadeLeaf(n)'
    BY <1>1, <1>2, <2>1 DEF MadeLeaf
  <2>3. PICK total \in Nat : total = Len(indexes) /\ DOMAIN indexes = 1 .. total
    BY <1>3 DEF LabelsShare
  <2>4. PICK at \in DOMAIN indexes : indexes[at] = labels[n].ratio_index
    BY <1>1, <1>3 DEF LabelsShare, Range
  <2>5. Len(labels[n].indexes) \in Nat /\ Len(labels[n].indexes) >= 1
    <3>1. PICK mine : mine = {m \in DOMAIN indexes : indexes[m] = labels[n].ratio_index}
      OBVIOUS
    <3>2. at \in mine /\ mine \subseteq 1 .. total /\ IsFiniteSet(1 .. total)
      BY <2>3, <2>4, <3>1, FS_Interval
    <3>3. IsFiniteSet(mine) /\ mine # {}
      BY <3>2, FS_Subset
    <3>4. Cardinality(mine) \in Nat /\ Cardinality(mine) # 0
      BY <3>3, FS_CardinalityType, FS_EmptySet
    <3>5. Len(labels[n].indexes) = Cardinality(mine)
      BY <1>1, <1>3, <3>1 DEF LabelsShare
    <3> QED BY <3>4, <3>5
  <2>6. ASSUME NEW l \in 1 .. size
        PROVE  x.label_counts[l] =< Len(labels[l].indexes) /\ Ascending(x.label_scales[l])
    <3>1. /\ x.label_counts[l] = IF l = n THEN 1 ELSE 0
          /\ x.label_scales[l] = IF l = n THEN <<Whole(1)>> ELSE <<>>
      BY <2>1 DEF Leaf
    <3>2. Len(labels[l].indexes) \in Nat
      <4>1. PICK mine : mine = {m \in DOMAIN indexes : indexes[m] = labels[l].ratio_index}
        OBVIOUS
      <4>2. mine \subseteq 1 .. total /\ IsFiniteSet(1 .. total)
        BY <2>3, <4>1, FS_Interval
      <4>3. Cardinality(mine) \in Nat
        BY <4>2, FS_Subset, FS_CardinalityType
      <4> QED BY <1>1, <1>3, <4>1, <4>3 DEF LabelsShare
    <3>3. Ascending(x.label_scales[l])
      <4>1. Len(x.label_scales[l]) = IF l = n THEN 1 ELSE 0
        BY <3>1
      <4>2. 1 .. Len(x.label_scales[l]) - 1 = {}
        BY <4>1
      <4> QED BY <4>2 DEF Ascending
    <3> QED BY <2>5, <3>1, <3>2, <3>3
  <2>7. x.all_labels_count = 1 /\ 1 \in 1 .. total
    BY <2>1, <2>3, <2>4 DEF Leaf
  <2>8. FitsGroup(x)
    BY <1>1, <2>3, <2>6, <2>7 DEF FitsGroup
  <2>9. FitsGroup(x)'
    BY <1>2, <2>8 DEF FitsGroup
  <2> QED BY <2>1, <2>2, <2>9
<1>6. DOMAIN nodes' = 1 .. size
  BY <1>2
<1>7. NodesAreTrees'
  BY <1>5, <1>6 DEF NodesAreTrees
<1>8. TreesListed'
  BY <1>4 DEF TreesListed
<1> QED BY <1>7, <1>8 DEF DrawInv

\* A join of two trees that fit together fits the group.
LEMMA JoinFits ==
  ASSUME LabelsShare, NEW index \in RatioIndex, NEW type, NEW base, NEW other,
         NodeOK(nodes[base]), NodeOK(nodes[other]), FitsGroup(nodes[base]), FitsGroup(nodes[other]),
         Joinable(nodes[base], nodes[other]),
         NEW node, node = Join(index, type, base, other)
  PROVE  FitsGroup(node)
<1>1. PICK L, R : L = nodes[base] /\ R = nodes[other]
  OBVIOUS
<1>2. NodeOK(L) /\ NodeOK(R) /\ FitsGroup(L) /\ FitsGroup(R) /\ Joinable(L, R)
  BY <1>1
<1>3. PICK u, v : u = ShrinksBy(index, type, L) /\ v = ShrinksBy(index, type, R)
  OBVIOUS
<1>4. L.ratio_index \in RatioIndex /\ R.ratio_index \in RatioIndex
  BY <1>2 DEF NodeOK
<1>5. u \in NonZero /\ v \in NonZero /\ Positive(u) /\ Positive(v)
  BY <1>3, <1>4, ShrinksByIs, ShrinksByPositive
<1>6. /\ node.all_labels_count = L.all_labels_count + R.all_labels_count
      /\ \A l \in DOMAIN labels :
           /\ node.label_counts[l] = L.label_counts[l] + R.label_counts[l]
           /\ node.label_scales[l] = Merged(Scaled(L.label_scales[l], u), Scaled(R.label_scales[l], v))
  BY <1>1, <1>3 DEF Join, ShrinksBy
<1>7. node.all_labels_count \in 1 .. Len(indexes)
  <2>1. L.all_labels_count + R.all_labels_count =< Len(indexes)
    BY <1>2 DEF Joinable
  <2>2. L.all_labels_count \in 1 .. Len(indexes) /\ R.all_labels_count \in 1 .. Len(indexes)
    BY <1>2 DEF FitsGroup
  <2> QED BY <1>6, <2>1, <2>2
<1>8. ASSUME NEW l \in DOMAIN labels
      PROVE  node.label_counts[l] =< Len(labels[l].indexes) /\ Ascending(node.label_scales[l])
  <2>1. node.label_counts[l] =< Len(labels[l].indexes)
    BY <1>2, <1>6 DEF Joinable, IsDisjoint
  <2>2. PICK s, t : s = L.label_scales[l] /\ t = R.label_scales[l]
    OBVIOUS
  <2>3. IsScales(s) /\ IsScales(t) /\ Ascending(s) /\ Ascending(t)
    BY <1>2, <2>2 DEF NodeOK, FitsGroup
  <2>4. /\ IsScales(Scaled(s, u)) /\ Ascending(Scaled(s, u))
        /\ IsScales(Scaled(t, v)) /\ Ascending(Scaled(t, v))
    BY <1>5, <2>3, ScaledIs, ScaledAscends
  <2>5. Ascending(Merged(Scaled(s, u), Scaled(t, v)))
    BY <2>4, MergedAscends
  <2> QED BY <1>6, <2>1, <2>2, <2>5
<1> QED BY <1>7, <1>8 DEF FitsGroup

LEMMA KeepJoinTrees ==
  ASSUME SaturationInv, TypeInv, InArray, DrawInv, KeepJoin
  PROVE  DrawInv'
<1>1. /\ InRound /\ Pairable /\ UNCHANGED <<labels, indexes>> /\ pc # "construct"
  BY DEF KeepJoin, InRound
<1>2. PICK base, other : base = BaseId /\ other = OtherId
  OBVIOUS
<1>3. /\ base \in DOMAIN nodes /\ other \in DOMAIN nodes /\ LabelsShare
      /\ NodeOK(nodes[base]) /\ NodeOK(nodes[other])
  <2>1. PICK word : word = PairWord(nodes[base], nodes[other])
    OBVIOUS
  <2> QED BY <1>1, <1>2, <2>1, AtJoins
<1>4. PICK index \in RatioIndex, type \in SplitTypes :
        /\ NewNode = Join(index, type, base, other)
        /\ Complement(index, type) \in Joins(nodes[base].ratio_index, nodes[other].ratio_index)
  BY <1>1, <1>2, NewNodeIs
<1>5. PICK node : node = NewNode
  OBVIOUS
<1>6. PICK size \in Nat : size = Len(nodes)
  BY KeptNode DEF SaturationInv
<1>7. /\ DOMAIN nodes = 1 .. size /\ DOMAIN nodes' = 1 .. size + 1
      /\ nodes'[size + 1] = node /\ \A n \in 1 .. size : nodes'[n] = nodes[n]
      /\ OnlyAdds
  BY <1>5, <1>6, KeptNode DEF SaturationInv, OnlyAdds
<1>8. NodesAreTyped /\ NodesAreTrees
  BY <1>1, TypedNodes DEF DrawInv
<1>9. FitsGroup(node)
  <2>1. FitsGroup(nodes[base]) /\ FitsGroup(nodes[other])
    BY <1>3, <1>8 DEF NodesAreTrees
  <2>2. Joinable(nodes[base], nodes[other])
    BY <1>1, <1>2 DEF Pairable
  <2> QED BY <1>3, <1>4, <1>5, <2>1, <2>2, JoinFits
<1>10. ASSUME NEW n \in 1 .. size + 1
       PROVE  (MadeLeaf(n) \/ MadeJoin(n))' /\ FitsGroup(nodes[n])'
  <2>1. CASE n = size + 1
    <3>1. FitsGroup(nodes[n])'
      BY <1>1, <1>7, <1>9, <2>1 DEF FitsGroup
    <3>2. Join(index, type, base, other)' = Join(index, type, base, other)
      BY <1>3, <1>7, SameJoin
    <3>3. base \in 1 .. n - 1 /\ other \in 1 .. n - 1
      BY <1>3, <1>7, <2>1
    <3>4. nodes'[n] = Join(index, type, base, other)'
      BY <1>4, <1>5, <1>7, <2>1, <3>2
    <3>5. Complement(index, type) \in Joins(nodes'[base].ratio_index, nodes'[other].ratio_index)
      BY <1>3, <1>4, <1>7
    <3>6. MadeJoin(n)'
      BY <3>3, <3>4, <3>5 DEF MadeJoin
    <3> QED BY <3>1, <3>6
  <2>2. CASE n \in 1 .. size
    <3>1. (MadeLeaf(n) \/ MadeJoin(n)) /\ FitsGroup(nodes[n]) /\ nodes'[n] = nodes[n]
      BY <1>7, <1>8, <2>2 DEF NodesAreTrees
    <3>2. FitsGroup(nodes[n])'
      BY <1>1, <3>1 DEF FitsGroup
    <3>3. MadeLeaf(n) => MadeLeaf(n)'
      BY <1>1, <3>1 DEF MadeLeaf
    <3>4. ASSUME MadeJoin(n)
          PROVE  MadeJoin(n)'
      <4>1. PICK m \in RatioIndex, t \in SplitTypes, left, right \in 1 .. n - 1 :
              /\ nodes[n] = Join(m, t, left, right)
              /\ Complement(m, t) \in Joins(nodes[left].ratio_index, nodes[right].ratio_index)
        BY <3>4 DEF MadeJoin
      <4>2. left \in 1 .. size /\ right \in 1 .. size
        BY <2>2
      <4>3. Join(m, t, left, right)' = Join(m, t, left, right)
        BY <1>7, <4>2, SameJoin
      <4>4. nodes'[n] = Join(m, t, left, right)'
        BY <3>1, <4>1, <4>3
      <4>5. Complement(m, t) \in Joins(nodes'[left].ratio_index, nodes'[right].ratio_index)
        BY <1>7, <4>1, <4>2
      <4>6. left \in 1 .. n - 1 /\ right \in 1 .. n - 1
        BY <4>1
      <4> QED BY <4>4, <4>5, <4>6 DEF MadeJoin
    <3> QED BY <3>1, <3>2, <3>3, <3>4
  <2> QED BY <2>1, <2>2
<1>11. NodesAreTrees'
  BY <1>7, <1>10 DEF NodesAreTrees
<1>12. \A n \in 1 .. size : LabelTree(nodes', n) = LabelTree(nodes, n)
  <2>1. PICK more : more = nodes'
    OBVIOUS
  <2>2. MadeOfEarlier(nodes, size)
    BY <1>6, <1>8, TreesAreEarlier
  <2>3. MadeOfEarlier(more, size + 1)
    <3>1. ASSUME NEW n \in 1 .. size + 1, more[n].split_type # kSplitTypeNone
          PROVE  more[n].left \in 1 .. n - 1 /\ more[n].right \in 1 .. n - 1
      <4>1. CASE n = size + 1
        <5>1. more[n].left = base /\ more[n].right = other
          BY <1>4, <1>5, <1>7, <2>1, <4>1 DEF Join
        <5> QED BY <1>3, <1>7, <4>1, <5>1
      <4>2. CASE n \in 1 .. size
        BY <1>7, <2>1, <2>2, <3>1, <4>2 DEF MadeOfEarlier
      <4> QED BY <4>1, <4>2
    <3> QED BY <3>1 DEF MadeOfEarlier
  <2>4. DOMAIN more = 1 .. size + 1 /\ \A n \in 1 .. size : more[n] = nodes[n]
    BY <1>7, <2>1
  <2>5. size + 1 \in Nat /\ size =< size + 1
    OBVIOUS
  <2>6. \A n \in 1 .. size : LabelTree(more, n) = LabelTree(nodes, n)
    BY <1>7, <2>2, <2>3, <2>4, <2>5, LabelTreeStays
  <2> QED BY <2>1, <2>6
<1>13. \A n : LabelTree(nodes, n)' = LabelTree(nodes', n)
  BY <1>1 DEF LabelTree
<1>14. TreesListed'
  <2>1. PICK old, new : old = complete_trees /\ new = complete_trees'
    OBVIOUS
  <2>2. /\ IsSequence(old)
        /\ \A tree \in Range(old) : \E n \in 1 .. size :
             nodes[n].all_labels_count = Len(indexes) /\ tree = LabelTree(nodes, n)
    BY <1>7, <2>1 DEF DrawInv, TreesListed
  <2>3. \A tree \in Range(old) : \E n \in 1 .. size + 1 :
          nodes'[n].all_labels_count = Len(indexes) /\ tree = LabelTree(nodes', n)
    BY <1>7, <1>12, <2>2
  <2>4. /\ IsSequence(new)
        /\ \A tree \in Range(new) : \E n \in 1 .. size + 1 :
             nodes'[n].all_labels_count = Len(indexes) /\ tree = LabelTree(nodes', n)
    <3>1. CASE node.all_labels_count = Len(indexes)
      <4>1. PICK tree : tree = LabelTree(nodes', size + 1)
        OBVIOUS
      <4>2. new = Append(old, tree)
        BY <1>5, <1>6, <2>1, <3>1, <4>1 DEF KeepJoin
      <4>3. IsSequence(new) /\ Range(new) = Range(old) \cup {tree}
        BY <2>2, <4>2, Appended, RangeAppended DEF IsSequence
      <4>4. size + 1 \in 1 .. size + 1 /\ nodes'[size + 1].all_labels_count = Len(indexes)
        BY <1>7, <3>1
      <4> QED BY <2>3, <4>1, <4>3, <4>4
    <3>2. CASE node.all_labels_count # Len(indexes)
      <4>1. new = old
        BY <1>5, <2>1, <3>2 DEF KeepJoin
      <4> QED BY <2>2, <2>3, <4>1
    <3> QED BY <3>1, <3>2
  <2> QED BY <1>1, <1>7, <1>13, <2>1, <2>4 DEF TreesListed
<1> QED BY <1>11, <1>14 DEF DrawInv

\* DrawInv holds of the search, as long as it reads the array only.
THEOREM DrawInvariant == Spec /\ []InArray => []DrawInv
<1>1. Init => DrawInv
  BY InitTrees
<1>2. SaturationInv /\ InArray /\ TypeInv /\ DrawInv /\ [Next \/ Returned]_vars => DrawInv'
  <2> SUFFICES ASSUME SaturationInv, InArray, TypeInv, DrawInv, [Next \/ Returned]_vars
               PROVE  DrawInv'
    OBVIOUS
  <2>1. CASE BuildMap \/ LabelIndexes
    BY <2>1, ConstructTrees
  <2>2. CASE BuildLeaves
    BY <2>2, BuildLeavesTrees
  <2>3. CASE KeepJoin
    BY <2>3, KeepJoinTrees
  <2>4. CASE SkipPair \/ DropJoin \/ EndRound \/ DeleteTrees \/ UNCHANGED vars
    <3>1. UNCHANGED <<nodes, labels, indexes, complete_trees>>
      BY <2>4 DEF SkipPair, DropJoin, EndRound, DeleteTrees, vars, group_vars
    <3> QED BY <3>1, TreesStayAsTheyAre
  <2> QED BY <2>1, <2>2, <2>3, <2>4 DEF Next, Group, Returned
<1> QED BY <1>1, <1>2, SaturationInvariant, TypeInvariant, PTL DEF Spec

-----------------------------------------------------------------------------
(* What the trees mean *)

\* The whole that a tree is drawn in.
LEMMA RootIs ==
  ASSUME NEW index \in RatioIndex, NEW tree, tree.ratio_index = index
  PROVE  OfRatio(RootBox(tree), index) /\ Height(RootBox(tree)) = Whole(1)
<1>1. PICK r : r = ratios[index] /\ r \in Reduced /\ r \in Numbers /\ Positive(r)
  BY RatioIsReduced
<1>2. Whole(0) \in Reduced /\ Whole(1) \in Reduced /\ Whole(1) \in Numbers
  BY WholeIsReduced, WholeIsNumber
<1>3. PICK box : box = RootBox(tree)
  OBVIOUS
<1>4. /\ box.left = Whole(0) /\ box.top = Whole(0) /\ box.right = r /\ box.bottom = Whole(1)
  BY <1>1, <1>3 DEF RootBox, Box
<1>5. Height(box) = Whole(1) /\ Width(box) = r
  BY <1>1, <1>2, <1>4, WithZero DEF Height, Width
<1>6. Times(Whole(1), r) = r
  BY <1>1, Neutral
<1>7. Positive(Whole(1))
  BY DEF Positive, Whole
<1> QED BY <1>1, <1>2, <1>3, <1>4, <1>5, <1>6, <1>7 DEF OfRatio

\* The leaves of a node as the iteration draws them.
LEMMA LeavesAre ==
  ASSUME SaturationInv, TypeInv, DrawInv, pc # "construct", NEW n \in DOMAIN nodes,
         NEW tree, tree = LabelTree(nodes, n)
  PROVE  /\ WellDrawn(Leaves(tree), nodes[n].label_scales, RootBox(tree))
         /\ Height(RootBox(tree)) = Whole(1) /\ NodeOK(nodes[n]) /\ FitsGroup(nodes[n])
<1>1. NodesAreTyped /\ NodesAreTrees
  BY TypedNodes DEF DrawInv
<1>2. NodeOK(nodes[n]) /\ FitsGroup(nodes[n]) /\ nodes[n].ratio_index \in RatioIndex
  BY <1>1 DEF NodesAreTyped, NodesAreTrees, NodeOK
<1>3. tree.ratio_index = nodes[n].ratio_index
  <2>1. PICK amount \in Nat : amount = Len(nodes) /\ DOMAIN nodes = 1 .. amount
                              /\ MadeOfEarlier(nodes, amount)
    BY <1>1, TreesAreEarlier
  <2>2. LabelTree(nodes, n).ratio_index = nodes[n].ratio_index
    BY <2>1, LabelTreeIs
  <2> QED BY <2>2
<1>4. PICK box : box = RootBox(tree) /\ OfRatio(box, nodes[n].ratio_index) /\ Height(box) = Whole(1)
  BY <1>2, <1>3, RootIs
<1>5. PICK total \in Nat : total = Len(indexes) /\ nodes[n].all_labels_count =< total + 1
  BY <1>1, <1>2 DEF NodesAreTyped, LabelsShare, FitsGroup
<1>6. WellDrawn(OpenedTimes({[node |-> LabelTree(nodes, n), box |-> box]}, total),
                nodes[n].label_scales, box)
  BY <1>1, <1>4, <1>5, TreesAreDrawn DEF Drawn
<1>7. Leaves(tree) = OpenedTimes({[node |-> LabelTree(nodes, n), box |-> box]}, total)
  BY <1>4, <1>5 DEF Leaves
<1> QED BY <1>2, <1>4, <1>6, <1>7

\* The scales of a label and the leaves of its ratio.
AreHeightsOf(scales, index, leaves) ==
  LET drawn == {leaf \in leaves : leaf.node.ratio_index = index}
  IN  /\ \A m \in 1 .. Len(scales) - 1 : AtMost(scales[m], scales[m + 1])
      /\ Len(scales) = Cardinality(drawn)
      /\ \A h \in Range(scales) :
           Cardinality({m \in DOMAIN scales : scales[m] = h}) =
             Cardinality({leaf \in drawn : Height(leaf.box) = h})

LEMMA ScalesAreHeights ==
  ASSUME SaturationInv, TypeInv, DrawInv
  PROVE  ScalesAreLeafHeights
<1> SUFFICES ASSUME SearchOver, NEW n \in DOMAIN nodes, NEW l \in DOMAIN labels
             PROVE  AreHeightsOf(nodes[n].label_scales[l], labels[l].ratio_index,
                                 Leaves(LabelTree(nodes, n)))
  BY DEF ScalesAreLeafHeights, AreHeightsOf
<1>1. PICK tree, box, leaves, scales, drawn :
        /\ tree = LabelTree(nodes, n) /\ box = RootBox(tree) /\ leaves = Leaves(tree)
        /\ scales = nodes[n].label_scales[l]
        /\ drawn = {leaf \in leaves : leaf.node.ratio_index = labels[l].ratio_index}
  OBVIOUS
<1>2. pc # "construct"
  BY DEF SearchOver
<1>3. /\ WellDrawn(leaves, nodes[n].label_scales, box)
      /\ Height(box) = Whole(1) /\ NodeOK(nodes[n]) /\ FitsGroup(nodes[n])
  BY <1>1, <1>2, LeavesAre
<1>4. IsScales(scales) /\ Ascending(scales)
  BY <1>1, <1>3 DEF NodeOK, FitsGroup
<1>5. drawn = OfLabel(leaves, l)
  BY <1>1 DEF OfLabel
<1>6. Len(scales) = Cardinality(drawn)
  BY <1>1, <1>3, <1>5 DEF WellDrawn
<1>7. ASSUME NEW h \in Range(scales)
      PROVE  Cardinality({m \in DOMAIN scales : scales[m] = h}) =
               Cardinality({leaf \in drawn : Height(leaf.box) = h})
  <2>1. h \in Reduced
    BY <1>4 DEF IsScales, Range
  <2>2. Times(h, Height(box)) = h
    BY <1>3, <2>1, Neutral
  <2>3. Cardinality(AsHigh(leaves, l, Times(h, Height(box)))) = Copies(scales, h)
    BY <1>1, <1>3, <2>1 DEF WellDrawn
  <2>4. AsHigh(leaves, l, h) = {leaf \in drawn : Height(leaf.box) = h}
    BY <1>5 DEF AsHigh
  <2> QED BY <2>2, <2>3, <2>4 DEF Copies
<1> QED BY <1>1, <1>4, <1>6, <1>7 DEF Ascending, AreHeightsOf

\* A node that holds the whole group has as many of each label as there are.
LEMMA WholeGroupHeld ==
  ASSUME LabelsShare, NEW node, NodeOK(node), FitsGroup(node), node.all_labels_count = Len(indexes)
  PROVE  \A l \in DOMAIN labels : /\ node.label_counts[l] = Len(labels[l].indexes)
                                  /\ node.label_counts[l] = Len(node.label_scales[l])
<1>1. PICK K, p, v : K = DOMAIN labels /\ p = node.label_counts
                     /\ v = [l \in DOMAIN labels |-> Len(labels[l].indexes)]
  OBVIOUS
<1>2. /\ \A l \in K : v[l] \in Int /\ v[l] = Len(labels[l].indexes)
      /\ SumFunctionOnSet(v, K) = Len(indexes) /\ IsFiniteSet(K)
  BY <1>1, LabelsSumUp DEF LabelsShare
<1>3. \A l \in K : p[l] \in Int /\ p[l] = Len(node.label_scales[l])
  <2> SUFFICES ASSUME NEW l \in K
               PROVE  p[l] \in Int /\ p[l] = Len(node.label_scales[l])
    OBVIOUS
  <2>1. PICK s : s = node.label_scales[l]
    OBVIOUS
  <2>2. IsScales(s) /\ p[l] = Len(s)
    BY <1>1, <2>1 DEF NodeOK
  <2> QED BY <2>1, <2>2 DEF IsScales, IsSequence
<1>4. \A l \in K : p[l] =< v[l]
  BY <1>1, <1>2 DEF FitsGroup
<1>5. SumFunctionOnSet(p, K) = SumFunctionOnSet(v, K)
  BY <1>1, <1>2 DEF NodeOK
<1>6. ASSUME NEW l \in K
      PROVE  p[l] = v[l]
  <2>1. PICK T : T = K \ {l} /\ IsFiniteSet(T)
    BY <1>2, FS_Subset
  <2>2. SumFunctionOnSet(p, K) = p[l] + SumFunctionOnSet(p, T)
    BY <1>2, <1>3, <2>1, SumFirst
  <2>3. SumFunctionOnSet(v, K) = v[l] + SumFunctionOnSet(v, T)
    BY <1>2, <2>1, SumFirst
  <2>4. \A m \in T : p[m] \in Int /\ v[m] \in Int /\ p[m] =< v[m]
    BY <1>2, <1>3, <1>4, <2>1
  <2>5. SumFunctionOnSet(p, T) =< SumFunctionOnSet(v, T)
    BY <2>1, <2>4, SumAtMost
  <2>6. SumFunctionOnSet(p, T) \in Int /\ SumFunctionOnSet(v, T) \in Int
    BY <2>1, <2>4, SumIsInt
  <2>7. p[l] \in Int /\ v[l] \in Int /\ p[l] =< v[l]
    BY <1>2, <1>3, <1>4
  <2>8. PICK a \in Int, b \in Int, c \in Int, d \in Int :
          /\ a = p[l] /\ b = v[l]
          /\ c = SumFunctionOnSet(p, T) /\ d = SumFunctionOnSet(v, T)
    BY <2>6, <2>7
  <2>9. a + c = b + d
    BY <1>5, <2>2, <2>3, <2>8
  <2>10. a =< b /\ c =< d
    BY <2>5, <2>7, <2>8
  <2>11. a = b
    BY <2>9, <2>10
  <2> QED BY <2>8, <2>11
<1> QED BY <1>1, <1>2, <1>3, <1>6

LEMMA CompleteTreesAre ==
  ASSUME SaturationInv, TypeInv, DrawInv
  PROVE  CompleteTreesAreLayouts
<1> SUFFICES ASSUME SearchOver, NEW tree \in Range(complete_trees),
                    NEW root, root = RootBox(tree), NEW leaves, leaves = Leaves(tree)
             PROVE  /\ \A leaf \in leaves :
                         /\ Over(Width(leaf.box), Height(leaf.box)) = ratios[leaf.node.ratio_index]
                         /\ AtMost(root.left, leaf.box.left) /\ AtMost(leaf.box.right, root.right)
                         /\ AtMost(root.top, leaf.box.top) /\ AtMost(leaf.box.bottom, root.bottom)
                    /\ \A a, b \in leaves : a # b => Apart(a.box, b.box)
                    /\ \A l \in DOMAIN labels :
                         LET mine == {leaf \in leaves : leaf.node.ratio_index = labels[l].ratio_index}
                         IN  /\ Cardinality(mine) = Len(labels[l].indexes)
                             /\ \A leaf \in mine : leaf.node.leaf_labels = labels[l].indexes
                    /\ Cardinality(leaves) = Len(indexes)
  BY DEF CompleteTreesAreLayouts
<1>1. pc # "construct"
  BY DEF SearchOver
<1>2. LabelsShare
  BY <1>1 DEF TypeInv, LabelsInv
<1>3. PICK n \in DOMAIN nodes : nodes[n].all_labels_count = Len(indexes) /\ tree = LabelTree(nodes, n)
  BY DEF DrawInv, TreesListed
<1>4. PICK node : node = nodes[n]
  OBVIOUS
<1>5. WellDrawn(leaves, node.label_scales, root) /\ NodeOK(node) /\ FitsGroup(node)
  BY <1>1, <1>3, <1>4, LeavesAre
<1>6. \A l \in DOMAIN labels : /\ node.label_counts[l] = Len(labels[l].indexes)
                               /\ node.label_counts[l] = Len(node.label_scales[l])
  BY <1>2, <1>3, <1>4, <1>5, WholeGroupHeld
<1>7. \A x \in leaves : DrawnIn(x, root)
  BY <1>5 DEF WellDrawn
<1>8. ASSUME NEW leaf \in leaves
      PROVE  /\ Over(Width(leaf.box), Height(leaf.box)) = ratios[leaf.node.ratio_index]
             /\ AtMost(root.left, leaf.box.left) /\ AtMost(leaf.box.right, root.right)
             /\ AtMost(root.top, leaf.box.top) /\ AtMost(leaf.box.bottom, root.bottom)
  <2>1. PICK box, index : box = leaf.box /\ index = leaf.node.ratio_index
    OBVIOUS
  <2>2. OfRatio(box, index) /\ Inside(box, root) /\ index \in RatioIndex
    BY <1>2, <1>7, <2>1 DEF DrawnIn, LabelsShare
  <2>3. PICK h, r : h = Height(box) /\ r = ratios[index] /\ h \in NonZero /\ h \in Numbers
                    /\ r \in Reduced /\ r \in Numbers
    BY <2>2, SidesAre, RatioIsReduced
  <2>4. Width(box) = Times(r, h)
    BY <2>2, <2>3, Commutes DEF OfRatio
  <2>5. Over(Width(box), Height(box)) = r
    BY <2>3, <2>4, OverTimes
  <2> QED BY <2>1, <2>2, <2>3, <2>5 DEF Inside
<1>9. \A a, b \in leaves : a # b => Apart(a.box, b.box)
  BY <1>5 DEF WellDrawn
<1>10. ASSUME NEW l \in DOMAIN labels,
              NEW mine, mine = {leaf \in leaves : leaf.node.ratio_index = labels[l].ratio_index}
       PROVE  /\ Cardinality(mine) = Len(labels[l].indexes)
              /\ \A leaf \in mine : leaf.node.leaf_labels = labels[l].indexes
  <2>1. Cardinality(OfLabel(leaves, l)) = Len(node.label_scales[l]) /\ mine = OfLabel(leaves, l)
    BY <1>5, <1>10 DEF WellDrawn, OfLabel
  <2>2. \A leaf \in mine : leaf.node.leaf_labels = labels[l].indexes
    BY <1>2, <1>7, <1>10 DEF DrawnIn, LabelsShare, LabelsApart
  <2> QED BY <1>6, <2>1, <2>2
<1>11. Cardinality(leaves) = Len(indexes)
  <2>1. PICK K, f, key, size : /\ K = DOMAIN labels /\ size = node.label_counts
                               /\ f = [x \in leaves |-> x.node.ratio_index]
                               /\ key = [l \in DOMAIN labels |-> labels[l].ratio_index]
    OBVIOUS
  <2>2. \A l, m \in K : key[l] = key[m] => l = m
    BY <1>2, <2>1 DEF LabelsShare, LabelsApart
  <2>3. ASSUME NEW l \in K
        PROVE  size[l] = Cardinality({x \in leaves : f[x] = key[l]})
    <3>1. {x \in leaves : f[x] = key[l]} = OfLabel(leaves, l)
      BY <2>1 DEF OfLabel
    <3>2. Cardinality(OfLabel(leaves, l)) = Len(node.label_scales[l])
      BY <1>5, <2>1 DEF WellDrawn
    <3> QED BY <1>6, <2>1, <3>1, <3>2
  <2>4. ASSUME NEW x \in leaves
        PROVE  \E l \in K : f[x] = key[l]
    BY <1>7, <2>1 DEF DrawnIn
  <2>5. Counts(leaves, f, K, key, size)
    BY <2>2, <2>3, <2>4 DEF Counts
  <2>6. IsFiniteSet(K) /\ IsFiniteSet(leaves)
    BY <1>2, <1>5, <2>1 DEF LabelsShare, WellDrawn
  <2>7. SumFunctionOnSet(size, K) = Cardinality(leaves)
    BY <2>5, <2>6, SumOfCounts
  <2> QED BY <1>3, <1>4, <1>5, <2>1, <2>7 DEF NodeOK
<1> QED BY <1>8, <1>9, <1>10, <1>11

\* The scales a node is given by merging and scaling those of its parts are the
\* heights of its leaves as DimensionIterator draws them, in ascending order.
THEOREM ScalesAreLeafHeightsCorrect == Spec /\ []InArray => []ScalesAreLeafHeights
BY SaturationInvariant, TypeInvariant, DrawInvariant, ScalesAreHeights, PTL

\* Drawn, a tree that Group() returns has every rectangle of the group once, in
\* its own ratio, inside the whole, and no two of them overlap.
THEOREM CompleteTreesAreLayoutsCorrect == Spec /\ []InArray => []CompleteTreesAreLayouts
BY SaturationInvariant, TypeInvariant, DrawInvariant, CompleteTreesAre, PTL
==============================================================================
