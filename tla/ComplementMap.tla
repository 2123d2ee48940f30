--------------------------- MODULE ComplementMap ---------------------------
(***************************************************************************)
(* Grouper::BuildComplementsReverseMap (include/golden/grouper.h): inverts *)
(* Ratios::complements() so that Group() can look up, from the ratios of   *)
(* two trees, the ratios that joining them gives.  The program keeps the   *)
(* result twice: in a map of vectors, and packed in an array of 32-bit     *)
(* words indexed by the two ratio indices.  Group() reads the array only.  *)
(*                                                                         *)
(* A word is the set of its one bits: OR is union, a shift subtracts.      *)
(* The array is stored sparsely: an absent element is 0.  What lies just   *)
(* past its end is memory of the heap, a word that may hold anything.      *)
(***************************************************************************)
EXTENDS Ratios

CONSTANT HeapWords   \* the values the word after the array may have

ASSUME HeapWordsAssumption == HeapWords # {} /\ HeapWords \subseteq SUBSET (0 .. 31)

\* A table that the map is made for: an index fits a byte, no ratio is there
\* twice, and each has its inverse (BuildComplements asserts that one is found).
ASSUME TableAssumption ==
  /\ RatioCount =< 2^8
  /\ \A m, n \in RatioIndex : ratios[m] = ratios[n] => m = n
  /\ \A n \in RatioIndex : FindInverseRatioIndex(n) # kRatioIndexInvalid

VARIABLES
  complements,             \* of the Ratios object: the splits of each ratio
  complements_rmap_flat,   \* the packed array: index -> word
  complements_rmap,        \* the map: hash -> sequence of complements
  row, col                 \* the loop variables over complements[row][col]

map_vars == <<complements, complements_rmap_flat, complements_rmap, row, col>>

Lesser(left, right)  == IF left < right THEN left ELSE right
Greater(left, right) == IF left < right THEN right ELSE left

HashRatioIndexes(left, right) ==
  (Lesser(left, right) % 2^16) * 2^16 + (Greater(left, right) % 2^16)
HashRatioIndexesCompact(left, right) ==
  (Lesser(left, right) % 2^8) * 2^8 + (Greater(left, right) % 2^8)

\* The number of elements the array is allocated with.
ArraySize == (RatioCount - 1) * 2^8 + RatioCount - 1

Bits(n) == {b \in 0 .. 13 : (n \div 2^b) % 2 = 1}

FlatWord(index) ==
  IF index \in DOMAIN complements_rmap_flat THEN complements_rmap_flat[index] ELSE {}

\* How Group() reads a word: the number of complements in its two top bits,
\* the k-th of them in the 15 bits at its position.
SplitCount(word) == (IF 30 \in word THEN 1 ELSE 0) + (IF 31 \in word THEN 2 ELSE 0)
ComplementFlat(word, k) == {b - 15 * k : b \in {c \in word : c >= 15 * k}}
SplitTypeFlat(flat) == IF 14 \in flat THEN kSplitTypeHorizontal ELSE kSplitTypeVertical
IndexFlat(flat) == SumFunctionOnSet([b \in 0 .. 13 |-> 2^b], flat \cap 0 .. 13)

Complements(word) ==
  [n \in 1 .. SplitCount(word) |->
     Complement(IndexFlat(ComplementFlat(word, n - 1)),
                SplitTypeFlat(ComplementFlat(word, n - 1)))]
-----------------------------------------------------------------------------
MapInit ==
  /\ \E w \in HeapWords : complements_rmap_flat = [index \in {ArraySize} |-> w]
  /\ complements = <<>>
  /\ complements_rmap = << >>
  /\ row = 0 /\ col = 0

\* The constructor of Ratios, which comes first.
BuildComplements ==
  /\ Len(complements) < RatioCount
  /\ complements' = Append(complements, ComplementsOf(Len(complements)))
  /\ UNCHANGED <<complements_rmap_flat, complements_rmap, row, col>>

Filling == Len(complements) = RatioCount /\ row < RatioCount
Built   == row = RatioCount

\* Mutant: the count of the first complement stays set when a second is added.
PackedKeepingCount(word, i, type) ==
  IF word = {}
  THEN {30} \cup (IF type = kSplitTypeHorizontal THEN {14} ELSE {}) \cup Bits(i)
  ELSE word \cup {31}
       \cup (IF type = kSplitTypeHorizontal THEN {29} ELSE {})
       \cup {b + 15 : b \in Bits(i)}

\* The word after a complement of ratio i is added to it.
Packed(word, i, type) ==
  IF word = {}
  THEN {30} \cup (IF type = kSplitTypeHorizontal THEN {14} ELSE {}) \cup Bits(i)
  ELSE (word \ {30}) \cup {31}
       \cup (IF type = kSplitTypeHorizontal THEN {29} ELSE {})
       \cup {b + 15 : b \in Bits(i)}

Put(map, key, value) ==
  [x \in DOMAIN map \cup {key} |-> IF x = key THEN value ELSE map[x]]

\* The vector of the map, which creates an empty one for a new hash.
Made(hash) == IF hash \in DOMAIN complements_rmap THEN complements_rmap[hash] ELSE <<>>

\* The body of the inner loop.
AddComplement ==
  /\ Filling
  /\ col < Len(complements[row + 1])
  /\ LET split == complements[row + 1][col + 1]
         index == HashRatioIndexesCompact(split.left_index, split.right_index)
         hash  == HashRatioIndexes(split.left_index, split.right_index)
     IN  /\ complements_rmap_flat' =
              Put(complements_rmap_flat, index, Packed(FlatWord(index), row, split.type))
         /\ complements_rmap' =
              Put(complements_rmap, hash, Append(Made(hash), Complement(row, split.type)))
  /\ col' = col + 1
  /\ UNCHANGED <<complements, row>>

NextRow ==
  /\ Filling
  /\ col = Len(complements[row + 1])
  /\ row' = row + 1
  /\ col' = 0
  /\ UNCHANGED <<complements, complements_rmap_flat, complements_rmap>>

BuildComplementsReverseMap == AddComplement \/ NextRow

MapNext == BuildComplements \/ BuildComplementsReverseMap

MapSpec == MapInit /\ [][MapNext]_map_vars
-----------------------------------------------------------------------------
(* Properties *)

InBounds(i, j) == HashRatioIndexesCompact(i, j) < ArraySize

\* "We use the hash lookup as the index" (grouper.h:706-712): the element
\* that AddComplement is about to write is one of the array's.
CompactIndexInBounds ==
  (Filling /\ col < Len(complements[row + 1])) =>
     InBounds(complements[row + 1][col + 1].left_index,
              complements[row + 1][col + 1].right_index)

\* What the asserts commented out in Group() say (grouper.h:380-394): for any
\* two ratios the word of the array unpacks to the vector of the map, with
\* as many complements, in the same order, although a word has room for two.
FlatAgreesWithMap ==
  \A i, j \in RatioIndex :
    (i =< j /\ InBounds(i, j)) =>
       Complements(FlatWord(HashRatioIndexesCompact(i, j))) = Made(HashRatioIndexes(i, j))

\* When the constructor is done the array holds, for any two ratios in either
\* order, every join of them and no other, once: the pairs (j, k) that
\* BuildComplements leaves out (k < j) and its detour through the inverse
\* indices lose and double nothing.
FlatIsEveryJoin ==
  Built => \A i, j \in RatioIndex :
    InBounds(i, j) =>
       LET found == Complements(FlatWord(HashRatioIndexesCompact(i, j)))
       IN  IsInjective(found) /\ Range(found) = Joins(i, j)
=============================================================================
