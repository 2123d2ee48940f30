------------------------- MODULE LayoutSearchProofs -------------------------
(***************************************************************************)
(* Proofs about LayoutSearch, for any groups, costs and accumulator values:*)
(* its variables have their types, the LayoutBuilder follows the stack,    *)
(* every layout found has each rectangle exactly once, the cheapest come   *)
(* first, and the search finds the first affordable layout of each seed.   *)
(***************************************************************************)
EXTENDS LayoutSearch, DataTheorems

LayoutsSequence == layouts \in Seq({layouts[n] : n \in DOMAIN layouts})

Types ==
  /\ groups \in GroupLists
  /\ pc \in {"try", "advance", "done"}
  /\ it_stack \in Seq(Position)
  /\ layout_groups \in Seq(Position)
  /\ LayoutsSequence

\* Only a stack that is not empty is tried.
StackToTry == pc = "try" => it_stack # <<>>

\* The groups of the builder are disjoint: this makes the labels that Pop takes
\* away those that Push added.
BuilderDisjoint == PairwiseDisjoint(layout_groups)

IsLayout(chosen) ==
  chosen \in Seq(Position) /\ PairwiseDisjoint(chosen) /\ AllLabels(chosen) = Label

LayoutsComplete == \A n \in DOMAIN layouts : IsLayout(layouts[n].groups)

\* The inductive invariant.
IInv == Types /\ StackToTry /\ BuilderMatchesStack /\ BuilderDisjoint /\ LayoutsComplete
-----------------------------------------------------------------------------
\* What the assumption says of the groups at hand: there is one, each has a
\* rectangle, and all are of the page.
LEMMA GroupsFacts ==
  ASSUME groups \in GroupLists
  PROVE  /\ Len(groups) \in Nat \ {0}
         /\ Position = 1 .. Len(groups)
         /\ \A p \in Position : LabelsAt(p) \subseteq Label /\ LabelsAt(p) # {}
<1> DEFINE Leaves == SUBSET [label : Label, width : Nat, height : Nat]
           Groups == [labels : SUBSET Label, height : Nat \ {0}, leaves : Leaves]
<1>1. groups \in Seq(Groups) /\ groups # <<>>
      /\ \A p \in DOMAIN groups : groups[p].labels # {}
  BY GroupListsAssumption
<1> HIDE DEF Groups
<1>2. Len(groups) \in Nat \ {0} /\ DOMAIN groups = 1 .. Len(groups)
  BY <1>1
<1>3. \A p \in DOMAIN groups : groups[p] \in Groups
  BY <1>1
<1>4. \A p \in DOMAIN groups : groups[p].labels \subseteq Label
  BY <1>3 DEF Groups
<1> QED
  BY <1>1, <1>2, <1>4 DEF Position, LabelsAt

\* Sets of labels are finite and no larger than the page; one as large is all of it.
LEMMA LabelSets ==
  ASSUME NEW S \in SUBSET Label
  PROVE  /\ Cardinality(S) \in 0 .. final_size
         /\ Cardinality(S) = final_size => S = Label
         /\ Cardinality(S) = 0 <=> S = {}
<1>1. IsFiniteSet(S) /\ Cardinality(S) =< Cardinality(Label)
      /\ (Cardinality(S) = Cardinality(Label) => S = Label)
  BY LabelAssumption, FS_Subset
<1>2. Cardinality(S) \in Nat /\ (Cardinality(S) = 0 <=> S = {})
  BY <1>1, FS_CardinalityType, FS_EmptySet
<1>3. Cardinality(Label) \in Nat
  BY LabelAssumption, FS_CardinalityType
<1> QED
  BY <1>1, <1>2, <1>3 DEF final_size

\* A sequence over some set is one over its own elements.
LEMMA OwnElements ==
  ASSUME NEW S, NEW s \in Seq(S)
  PROVE  s \in Seq({s[n] : n \in DOMAIN s})
OBVIOUS

\* Inserting r after position n gives a sequence over the elements and r.
LEMMA Insertion ==
  ASSUME NEW S, NEW s \in Seq(S), NEW r, NEW n \in 0 .. Len(s)
  PROVE  SubSeq(s, 1, n) \o <<r>> \o SubSeq(s, n + 1, Len(s)) \in Seq(S \cup {r})
<1> DEFINE T == S \cup {r}
<1>1. SubSeq(s, 1, n) \in Seq(T)
  OBVIOUS
<1>2. SubSeq(s, n + 1, Len(s)) \in Seq(T)
  OBVIOUS
<1>3. <<r>> \in Seq(T)
  OBVIOUS
<1> HIDE DEF T
<1>4. SubSeq(s, 1, n) \o <<r>> \in Seq(T)
  BY <1>1, <1>3
<1>5. SubSeq(s, 1, n) \o <<r>> \o SubSeq(s, n + 1, Len(s)) \in Seq(T)
  BY <1>2, <1>4
<1> QED BY <1>5 DEF T

\* The labels of the chosen groups and one more.
LEMMA LabelsOfAppend ==
  ASSUME NEW chosen \in Seq(Position), NEW p \in Position
  PROVE  /\ Append(chosen, p) \in Seq(Position)
         /\ AllLabels(Append(chosen, p)) = AllLabels(chosen) \cup LabelsAt(p)
         /\ (PairwiseDisjoint(chosen)
             /\ \A n \in DOMAIN chosen : LabelsAt(chosen[n]) \cap LabelsAt(p) = {})
            => PairwiseDisjoint(Append(chosen, p))
<1> DEFINE t == Append(chosen, p)
<1>1. /\ t \in Seq(Position)
      /\ DOMAIN t = DOMAIN chosen \cup {Len(chosen) + 1}
      /\ t[Len(chosen) + 1] = p
      /\ \A n \in DOMAIN chosen : t[n] = chosen[n]
  OBVIOUS
<1> HIDE DEF t
<1>2. AllLabels(t) = AllLabels(chosen) \cup LabelsAt(p)
  BY <1>1 DEF AllLabels
<1>3. (PairwiseDisjoint(chosen)
        /\ \A n \in DOMAIN chosen : LabelsAt(chosen[n]) \cap LabelsAt(p) = {})
       => PairwiseDisjoint(t)
  BY <1>1 DEF PairwiseDisjoint
<1> QED BY <1>1, <1>2, <1>3 DEF t

\* The labels of the chosen groups but the last one.
LEMMA LabelsOfFront ==
  ASSUME NEW chosen \in Seq(Position), chosen # <<>>, PairwiseDisjoint(chosen)
  PROVE  /\ Front(chosen) \in Seq(Position)
         /\ Len(Front(chosen)) = Len(chosen) - 1
         /\ \A n \in 1 .. Len(chosen) - 1 : Front(chosen)[n] = chosen[n]
         /\ AllLabels(Front(chosen)) = AllLabels(chosen) \ LabelsAt(chosen[Len(chosen)])
         /\ PairwiseDisjoint(Front(chosen))
<1> DEFINE t == Front(chosen)
           last == Len(chosen)
<1>0. last \in Nat \ {0} /\ DOMAIN chosen = 1 .. last
  OBVIOUS
<1>1. /\ t \in Seq(Position)
      /\ Len(t) = last - 1
      /\ \A n \in 1 .. last - 1 : t[n] = chosen[n]
  BY <1>0 DEF Front
<1>2. DOMAIN t = 1 .. last - 1 /\ DOMAIN chosen = DOMAIN t \cup {last} /\ last \notin DOMAIN t
  BY <1>0, <1>1
<1>3. \A n \in DOMAIN t : t[n] = chosen[n]
  BY <1>1, <1>2
<1> HIDE DEF t, last
<1>4. PairwiseDisjoint(t)
  BY <1>2, <1>3 DEF PairwiseDisjoint
<1>5. ASSUME NEW n \in DOMAIN t
      PROVE  LabelsAt(t[n]) \cap LabelsAt(chosen[last]) = {}
  <2>1. n \in DOMAIN chosen /\ last \in DOMAIN chosen /\ n # last /\ t[n] = chosen[n]
    BY <1>2, <1>3
  <2>2. LabelsAt(chosen[n]) \cap LabelsAt(chosen[last]) = {}
    BY <2>1 DEF PairwiseDisjoint
  <2> QED BY <2>1, <2>2
<1>6. AllLabels(t) = AllLabels(chosen) \ LabelsAt(chosen[last])
  BY <1>2, <1>3, <1>5 DEF AllLabels
<1> QED BY <1>1, <1>4, <1>6 DEF t, last
-----------------------------------------------------------------------------
(* The inductive invariant *)

LEMMA InitIInv == Init => IInv
<1> SUFFICES ASSUME Init PROVE IInv
  OBVIOUS
<1> USE DEF Init
<1>1. 1 \in Position
  BY GroupsFacts
<1>2. Types
  BY <1>1 DEF Types, LayoutsSequence
<1>3. AllLabels(<<>>) = {} /\ Cardinality({}) = 0
  BY FS_EmptySet DEF AllLabels
<1>4. BuilderMatchesStack
  BY <1>3 DEF BuilderMatchesStack
<1>5. StackToTry /\ BuilderDisjoint /\ LayoutsComplete
  BY DEF StackToTry, BuilderDisjoint, LayoutsComplete, PairwiseDisjoint
<1> QED BY <1>2, <1>4, <1>5 DEF IInv

\* What holds when a group is about to be tried.
LEMMA Trying ==
  ASSUME IInv, pc = "try"
  PROVE  /\ Len(it_stack) \in Nat \ {0}
         /\ Len(layout_groups) = Len(it_stack) - 1
         /\ DOMAIN it_stack = 1 .. Len(it_stack)
         /\ DOMAIN layout_groups = 1 .. Len(it_stack) - 1
         /\ Top \in Position
         /\ layout_labels = AllLabels(layout_groups)
         /\ layout_labels \subseteq Label
<1>1. it_stack \in Seq(Position) /\ it_stack # <<>> /\ layout_groups \in Seq(Position)
  BY DEF IInv, Types, StackToTry
<1>2. Len(it_stack) \in Nat \ {0} /\ DOMAIN it_stack = 1 .. Len(it_stack)
  BY <1>1
<1>3. Top \in Position
  BY <1>1, <1>2 DEF Top
<1>4. Len(it_stack) = Len(layout_groups) + 1 /\ layout_labels = AllLabels(layout_groups)
  BY <1>1 DEF IInv, BuilderMatchesStack
<1>5. DOMAIN layout_groups = 1 .. Len(it_stack) - 1 /\ Len(layout_groups) = Len(it_stack) - 1
  BY <1>1, <1>2, <1>4
<1>6. \A n \in DOMAIN layout_groups : LabelsAt(layout_groups[n]) \subseteq Label
  BY <1>1, GroupsFacts DEF IInv, Types
<1>7. AllLabels(layout_groups) \subseteq Label
  BY <1>6 DEF AllLabels
<1> QED BY <1>2, <1>3, <1>4, <1>5, <1>7

\* Pop after Push gives the labels back.
LEMMA PushPop ==
  ASSUME IInv, CanPush
  PROVE  PushedAndPopped = layout_labels
<1>1. layout_labels = AllLabels(layout_groups)
  BY Trying DEF CanPush
<1>2. layout_labels \cap LabelsAt(Top) = {}
  BY <1>1 DEF CanPush, IsDisjoint, AllLabels
<1> QED BY <1>2 DEF PushedAndPopped
\* The invariant in the next state, in terms of the groups of this one.
LEMMA Assemble ==
  ASSUME groups \in GroupLists, groups' = groups,
         pc' \in {"try", "advance", "done"},
         it_stack' \in Seq(Position), layout_groups' \in Seq(Position),
         StackToTry', LayoutsSequence', LayoutsComplete',
         Len(it_stack') = IF it_stack' = <<>> THEN Len(layout_groups')
                                              ELSE Len(layout_groups') + 1,
         \A n \in DOMAIN layout_groups' : layout_groups'[n] = it_stack'[n],
         \A m, n \in DOMAIN it_stack' : m < n => it_stack'[m] < it_stack'[n],
         layout_labels' = AllLabels(layout_groups'),
         layout_size' = Cardinality(layout_labels'),
         PairwiseDisjoint(layout_groups')
  PROVE  IInv'
<1>1. Position' = Position
  BY DEF Position
<1>2. Types'
  BY <1>1 DEF Types
<1>3. AllLabels(layout_groups)' = AllLabels(layout_groups')
  BY DEF AllLabels, LabelsAt
<1>4. BuilderMatchesStack'
  BY <1>3 DEF BuilderMatchesStack
<1>5. BuilderDisjoint'
  BY DEF BuilderDisjoint, PairwiseDisjoint, LabelsAt
<1> QED BY <1>2, <1>4, <1>5 DEF IInv

\* The layouts found stay layouts.
LEMMA SameLayouts ==
  ASSUME IInv, groups' = groups, layouts' = layouts
  PROVE  LayoutsSequence' /\ LayoutsComplete'
BY DEF IInv, Types, LayoutsSequence, LayoutsComplete, IsLayout, PairwiseDisjoint,
       AllLabels, LabelsAt, Position

\* A step that leaves the stack and the builder alone.
LEMMA Unmoved ==
  ASSUME IInv, groups' = groups, layouts' = layouts,
         it_stack' = it_stack, layout_groups' = layout_groups,
         layout_labels' = layout_labels, layout_size' = Cardinality(layout_labels'),
         pc' \in {"try", "advance", "done"}, StackToTry'
  PROVE  IInv'
<1>1. LayoutsSequence' /\ LayoutsComplete'
  BY SameLayouts
<1> QED BY <1>1, Assemble DEF IInv, Types, BuilderMatchesStack, BuilderDisjoint

LEMMA DescendIInv ==
  ASSUME IInv, Descend, groups' = groups
  PROVE  IInv'
<1> USE DEF Descend, Acceptable, CanPush
<1>1. /\ it_stack \in Seq(Position) /\ layout_groups \in Seq(Position)
      /\ groups \in GroupLists /\ PairwiseDisjoint(layout_groups)
  BY DEF IInv, Types, BuilderDisjoint
<1>2. Top + 1 \in Position
  BY Trying, GroupsFacts, <1>1
<1>3. /\ layout_groups' \in Seq(Position)
      /\ layout_labels' = AllLabels(layout_groups')
      /\ PairwiseDisjoint(layout_groups')
  BY <1>1, Trying, LabelsOfAppend DEF IsDisjoint
<1>4. /\ it_stack' \in Seq(Position) /\ it_stack' # <<>>
      /\ Len(it_stack') = Len(layout_groups') + 1
  BY <1>1, <1>2, Trying
<1>5. \A n \in DOMAIN layout_groups' : layout_groups'[n] = it_stack'[n]
  BY <1>1, <1>2, Trying DEF IInv, BuilderMatchesStack, Top
<1>6. \A m, n \in DOMAIN it_stack' : m < n => it_stack'[m] < it_stack'[n]
  <2> SUFFICES ASSUME NEW m \in DOMAIN it_stack', NEW n \in DOMAIN it_stack', m < n
               PROVE  it_stack'[m] < it_stack'[n]
    OBVIOUS
  <2>1. m \in DOMAIN it_stack /\ it_stack'[m] = it_stack[m] /\ it_stack[m] \in Int
    BY <1>1, <1>2, Trying, GroupsFacts
  <2>2. CASE n \in DOMAIN it_stack
    BY <1>1, <1>2, <2>1, <2>2 DEF IInv, BuilderMatchesStack
  <2>3. CASE n \notin DOMAIN it_stack
    <3>1. it_stack'[n] = Top + 1
      BY <1>1, <1>2, <2>3, Trying
    <3>2. it_stack[m] < Top \/ it_stack[m] = Top
      BY <1>1, <2>1, Trying DEF IInv, BuilderMatchesStack, Top
    <3>3. Top \in Int
      BY <1>1, Trying, GroupsFacts
    <3> QED BY <2>1, <3>1, <3>2, <3>3
  <2> QED BY <2>2, <2>3
<1>7. LayoutsSequence' /\ LayoutsComplete'
  BY SameLayouts
<1>8. StackToTry' /\ pc' \in {"try", "advance", "done"}
  BY <1>4 DEF StackToTry
<1> QED BY <1>1, <1>3, <1>4, <1>5, <1>6, <1>7, <1>8, Assemble

LEMMA NextGroupIInv ==
  ASSUME IInv, NextGroup, groups' = groups
  PROVE  IInv'
<1> USE DEF NextGroup
<1>1. /\ it_stack \in Seq(Position) /\ layout_groups \in Seq(Position)
      /\ groups \in GroupLists /\ PairwiseDisjoint(layout_groups)
  BY DEF IInv, Types, BuilderDisjoint
<1>2. /\ Len(it_stack) \in Nat \ {0} /\ DOMAIN it_stack = 1 .. Len(it_stack)
      /\ Len(it_stack) = Len(layout_groups) + 1
      /\ DOMAIN layout_groups = 1 .. Len(it_stack) - 1
  BY <1>1 DEF IInv, BuilderMatchesStack
<1>3. Top \in Position /\ Top + 1 \in Position
  BY <1>1, <1>2, GroupsFacts DEF Top
<1>4. /\ it_stack' \in Seq(Position) /\ Len(it_stack') = Len(it_stack)
      /\ it_stack' # <<>> /\ DOMAIN it_stack' = DOMAIN it_stack
      /\ it_stack'[Len(it_stack)] = it_stack[Len(it_stack)] + 1
      /\ \A n \in 1 .. Len(it_stack) - 1 : it_stack'[n] = it_stack[n]
  BY <1>1, <1>2, <1>3 DEF Top
<1>5. \A n \in DOMAIN layout_groups' : layout_groups'[n] = it_stack'[n]
  BY <1>2, <1>4 DEF IInv, BuilderMatchesStack
<1>6. \A m, n \in DOMAIN it_stack' : m < n => it_stack'[m] < it_stack'[n]
  <2> SUFFICES ASSUME NEW m \in DOMAIN it_stack', NEW n \in DOMAIN it_stack', m < n
               PROVE  it_stack'[m] < it_stack'[n]
    OBVIOUS
  <2>1. /\ it_stack[m] < it_stack[n] /\ it_stack[m] \in Int /\ it_stack[n] \in Int
        /\ it_stack'[m] = it_stack[m]
    BY <1>1, <1>2, <1>4, GroupsFacts DEF IInv, BuilderMatchesStack
  <2>2. it_stack'[n] = it_stack[n] \/ it_stack'[n] = it_stack[n] + 1
    BY <1>2, <1>4
  <2> QED BY <2>1, <2>2
<1>7. LayoutsSequence' /\ LayoutsComplete'
  BY SameLayouts
<1>8. StackToTry' /\ pc' \in {"try", "advance", "done"}
  BY <1>4 DEF StackToTry
<1>9. layout_labels' = AllLabels(layout_groups') /\ layout_size' = Cardinality(layout_labels')
  BY DEF IInv, BuilderMatchesStack
<1> QED BY <1>1, <1>2, <1>4, <1>5, <1>6, <1>7, <1>8, <1>9, Assemble

\* A pop of the stack finds the group it belongs to on top of the builder,
\* and an empty builder only at the lowest level.
LEMMA PopLevelIInv ==
  ASSUME IInv, PopLevel, groups' = groups
  PROVE  IInv'
<1> USE DEF PopLevel
<1>1. /\ it_stack \in Seq(Position) /\ layout_groups \in Seq(Position)
      /\ groups \in GroupLists /\ PairwiseDisjoint(layout_groups)
      /\ layout_labels = AllLabels(layout_groups)
      /\ layout_size = Cardinality(layout_labels)
  BY DEF IInv, Types, BuilderDisjoint, BuilderMatchesStack
<1>2. /\ Len(it_stack) \in Nat \ {0} /\ DOMAIN it_stack = 1 .. Len(it_stack)
      /\ Len(it_stack) = Len(layout_groups) + 1
      /\ DOMAIN layout_groups = 1 .. Len(it_stack) - 1
  BY <1>1 DEF IInv, BuilderMatchesStack
<1>3. /\ it_stack' \in Seq(Position) /\ Len(it_stack') = Len(it_stack) - 1
      /\ DOMAIN it_stack' = 1 .. Len(it_stack) - 1
      /\ \A n \in DOMAIN it_stack' : it_stack'[n] = it_stack[n]
  BY <1>1, <1>2 DEF Front
<1>4. \A m, n \in DOMAIN it_stack' : m < n => it_stack'[m] < it_stack'[n]
  BY <1>2, <1>3 DEF IInv, BuilderMatchesStack
<1>5. layout_size > 0 <=> layout_groups # <<>>
  <2>1. \A n \in DOMAIN layout_groups :
          LabelsAt(layout_groups[n]) \subseteq Label /\ LabelsAt(layout_groups[n]) # {}
    <3>1. \A n \in DOMAIN layout_groups : layout_groups[n] \in Position
      BY <1>1
    <3>2. \A p \in Position : LabelsAt(p) \subseteq Label /\ LabelsAt(p) # {}
      BY <1>1, GroupsFacts
    <3> QED BY <3>1, <3>2
  <2>2. layout_labels \in SUBSET Label
    BY <1>1, <2>1 DEF AllLabels
  <2>3. layout_size > 0 <=> layout_labels # {}
    BY <1>1, <2>2, LabelSets DEF final_size
  <2>4. layout_labels # {} <=> DOMAIN layout_groups # {}
    BY <1>1, <2>1 DEF AllLabels
  <2>5. layout_groups # <<>> <=> DOMAIN layout_groups # {}
    <3> HIDE DEF PopLevel
    <3>1. Len(layout_groups) \in Nat /\ DOMAIN layout_groups = 1 .. Len(layout_groups)
      BY <1>1
    <3>2. Len(layout_groups) = 0 <=> layout_groups = <<>>
      BY <1>1
    <3> QED BY <3>1, <3>2
  <2> QED BY <2>3, <2>4, <2>5
<1>6. LayoutsSequence' /\ LayoutsComplete'
  BY SameLayouts
<1>7. StackToTry' /\ pc' \in {"try", "advance", "done"}
  BY DEF StackToTry
<1>8. CASE layout_groups # <<>>
  <2>1. /\ layout_groups' = Front(layout_groups)
        /\ layout_labels' = layout_labels \ LabelsAt(layout_groups[Len(layout_groups)])
        /\ layout_size' = Cardinality(layout_labels')
    BY <1>5, <1>8
  <2>2. /\ layout_groups' \in Seq(Position)
        /\ Len(layout_groups') = Len(layout_groups) - 1
        /\ \A n \in 1 .. Len(layout_groups) - 1 : layout_groups'[n] = layout_groups[n]
        /\ layout_labels' = AllLabels(layout_groups')
        /\ PairwiseDisjoint(layout_groups')
    BY <1>1, <1>8, <2>1, LabelsOfFront
  <2>3. DOMAIN layout_groups' = 1 .. Len(layout_groups) - 1
    BY <2>2
  <2>4. it_stack' # <<>> /\ Len(it_stack') = Len(layout_groups') + 1
    BY <1>1, <1>2, <1>3, <1>8, <2>2
  <2>5. \A n \in DOMAIN layout_groups' : layout_groups'[n] = it_stack'[n]
    BY <1>2, <1>3, <2>2, <2>3 DEF IInv, BuilderMatchesStack
  <2> QED BY <1>1, <1>3, <1>4, <1>6, <1>7, <2>1, <2>2, <2>4, <2>5, Assemble
<1>9. CASE layout_groups = <<>>
  <2>1. UNCHANGED <<layout_groups, layout_labels, layout_size>>
    BY <1>5, <1>9
  <2>2. it_stack' = <<>>
    BY <1>2, <1>3, <1>9
  <2> QED BY <1>1, <1>3, <1>4, <1>6, <1>7, <1>9, <2>1, <2>2, Assemble
<1> QED BY <1>8, <1>9

\* With the group that completes it the builder holds a layout.
LEMMA CompletedLayout ==
  ASSUME IInv, Complete
  PROVE  IsLayout(Append(layout_groups, Top))
<1> DEFINE chosen == Append(layout_groups, Top)
<1>1. /\ layout_groups \in Seq(Position) /\ groups \in GroupLists
      /\ PairwiseDisjoint(layout_groups)
  BY DEF IInv, Types, BuilderDisjoint
<1>2. /\ pc = "try" /\ IsDisjoint(Top)
      /\ Cardinality(layout_labels \cup LabelsAt(Top)) = final_size
  BY DEF Complete, CanPush
<1>3. Top \in Position /\ layout_labels = AllLabels(layout_groups) /\ layout_labels \subseteq Label
  BY <1>2, Trying
<1>4. /\ chosen \in Seq(Position) /\ PairwiseDisjoint(chosen)
      /\ AllLabels(chosen) = layout_labels \cup LabelsAt(Top)
  BY <1>1, <1>2, <1>3, LabelsOfAppend DEF IsDisjoint
<1>5. layout_labels \cup LabelsAt(Top) \in SUBSET Label
  BY <1>1, <1>3, GroupsFacts
<1>6. layout_labels \cup LabelsAt(Top) = Label
  BY <1>2, <1>5, LabelSets
<1> QED BY <1>4, <1>6 DEF IsLayout

\* The layout recorded is one, wherever it is inserted, and the search goes on
\* with an empty builder from the seed it had.
LEMMA CompleteIInv ==
  ASSUME IInv, Complete, groups' = groups
  PROVE  IInv'
<1> DEFINE chosen == Append(layout_groups, Top)
           Recorded == {layouts[n] : n \in DOMAIN layouts}
<1>1. /\ it_stack \in Seq(Position) /\ layout_groups \in Seq(Position)
      /\ groups \in GroupLists /\ PairwiseDisjoint(layout_groups)
      /\ layouts \in Seq(Recorded)
  BY DEF IInv, Types, BuilderDisjoint, LayoutsSequence
<1>2. pc = "try" /\ IsDisjoint(Top)
      /\ Cardinality(layout_labels \cup LabelsAt(Top)) = final_size
  BY DEF Complete, CanPush
<1>3. Top \in Position /\ Len(it_stack) \in Nat \ {0}
      /\ layout_labels = AllLabels(layout_groups) /\ layout_labels \subseteq Label
  BY <1>2, Trying
<1>4. IsLayout(chosen)
  BY CompletedLayout
<1>5. PICK start \in Uninitialized, n \in 0 .. Len(layouts) :
        layouts' = SubSeq(layouts, 1, n)
                     \o <<[groups |-> chosen, cost |-> CostOf(chosen, start)]>>
                     \o SubSeq(layouts, n + 1, Len(layouts))
  BY Zenon DEF Complete
<1> DEFINE new == [groups |-> chosen, cost |-> CostOf(chosen, start)]
<1>6. new.groups = chosen
  OBVIOUS
<1>7. /\ n \in 0 .. Len(layouts)
      /\ layouts' = SubSeq(layouts, 1, n) \o <<new>> \o SubSeq(layouts, n + 1, Len(layouts))
  BY <1>5
<1> HIDE DEF chosen, new, Recorded
<1>8. layouts' \in Seq(Recorded \cup {new})
  <2>1. layouts \in Seq(Recorded)
    BY <1>1
  <2>2. n \in 0 .. Len(layouts)
    BY <1>7
  <2>3. SubSeq(layouts, 1, n) \o <<new>> \o SubSeq(layouts, n + 1, Len(layouts))
          \in Seq(Recorded \cup {new})
    BY <2>1, <2>2, Insertion, Zenon
  <2> QED BY <1>7, <2>3
<1>9. LayoutsSequence'
  <2>1. layouts' \in Seq({layouts'[m] : m \in DOMAIN layouts'})
    BY <1>8, OwnElements
  <2> QED BY <2>1 DEF LayoutsSequence
<1>10. \A m \in DOMAIN layouts' : IsLayout(layouts'[m].groups)
  <2> SUFFICES ASSUME NEW m \in DOMAIN layouts'
               PROVE  IsLayout(layouts'[m].groups)
    OBVIOUS
  <2>1. layouts'[m] \in Recorded \cup {new}
    <3>1. \A T : layouts' \in Seq(T) => layouts'[m] \in T
      OBVIOUS
    <3> QED BY <1>8, <3>1
  <2>2. CASE layouts'[m] = new
    BY <1>4, <1>6, <2>2
  <2>3. CASE layouts'[m] \in Recorded
    BY <2>3 DEF Recorded, IInv, LayoutsComplete
  <2> QED BY <2>1, <2>2, <2>3
<1>11. LayoutsComplete'
  BY <1>10 DEF LayoutsComplete, IsLayout, PairwiseDisjoint, AllLabels, LabelsAt, Position
<1>12. /\ layout_groups' = <<>> /\ layout_labels' = {} /\ layout_size' = 0
       /\ it_stack' = <<it_stack[1]>> /\ pc' = "advance"
  BY DEF Complete
<1>13. it_stack[1] \in Position
  BY <1>1, <1>3
<1>14. AllLabels(<<>>) = {} /\ Cardinality({}) = 0 /\ PairwiseDisjoint(<<>>)
  BY FS_EmptySet DEF AllLabels, PairwiseDisjoint
<1> QED BY <1>1, <1>9, <1>11, <1>12, <1>13, <1>14, Assemble DEF StackToTry

\* The layouts returned are among those found.
LEMMA ReturnIInv ==
  ASSUME IInv, Return, groups' = groups
  PROVE  IInv'
<1> DEFINE Recorded == {layouts[n] : n \in DOMAIN layouts}
           kept == IF Len(layouts) > MaxLayouts THEN MaxLayouts ELSE Len(layouts)
<1>1. layouts \in Seq(Recorded)
  BY DEF IInv, Types, LayoutsSequence
<1>2. kept \in 0 .. Len(layouts)
  BY <1>1, MaxLayoutsAssumption
<1>3. layouts' = SubSeq(layouts, 1, kept)
  BY DEF Return
<1> HIDE DEF kept, Recorded
<1>4. layouts' \in Seq(Recorded) /\ DOMAIN layouts' = 1 .. kept
      /\ \A n \in 1 .. kept : layouts'[n] = layouts[n] /\ n \in DOMAIN layouts
  BY <1>1, <1>2, <1>3
<1>5. LayoutsSequence'
  <2>1. layouts' \in Seq(Recorded)
    BY <1>4
  <2>2. layouts' \in Seq({layouts'[m] : m \in DOMAIN layouts'})
    BY <2>1, OwnElements
  <2> QED BY <2>2 DEF LayoutsSequence
<1>6. \A n \in DOMAIN layouts' : IsLayout(layouts'[n].groups)
  BY <1>4 DEF IInv, LayoutsComplete
<1>7. LayoutsComplete'
  BY <1>6 DEF LayoutsComplete, IsLayout, PairwiseDisjoint, AllLabels, LabelsAt, Position
<1>8. StackToTry' /\ pc' \in {"try", "advance", "done"}
  BY DEF Return, StackToTry
<1> QED
  BY <1>5, <1>7, <1>8, Assemble
  DEF Return, IInv, Types, BuilderMatchesStack, BuilderDisjoint

LEMMA NextIInv == IInv /\ [Next]_vars => IInv'
<1> SUFFICES ASSUME IInv, [Next]_vars PROVE IInv'
  OBVIOUS
<1>1. CASE UNCHANGED vars
  <2>1. groups' = groups /\ layouts' = layouts
    BY <1>1 DEF vars
  <2> QED
    BY <1>1, <2>1, Unmoved DEF vars, IInv, Types, StackToTry, BuilderMatchesStack
<1>2. CASE Next
  <2>1. groups' = groups
    BY <1>2 DEF Next
  <2>2. CASE Refuse
    BY <2>1, <2>2, Unmoved DEF Refuse, StackToTry, IInv, BuilderMatchesStack
  <2>3. CASE TooCostly
    BY <2>1, <2>3, Unmoved, PushPop
    DEF TooCostly, StackToTry, IInv, BuilderMatchesStack
  <2>4. CASE Complete
    BY <2>1, <2>4, CompleteIInv
  <2>5. CASE Descend
    BY <2>1, <2>5, DescendIInv
  <2>6. CASE LastGroup
    BY <2>1, <2>6, Unmoved, PushPop DEF LastGroup, Acceptable, StackToTry
  <2>7. CASE NextGroup
    BY <2>1, <2>7, NextGroupIInv
  <2>8. CASE PopLevel
    BY <2>1, <2>8, PopLevelIInv
  <2>9. CASE Return
    BY <2>1, <2>9, ReturnIInv
  <2> QED
    BY <1>2, <2>2, <2>3, <2>4, <2>5, <2>6, <2>7, <2>8, <2>9 DEF Next, Step
<1> QED BY <1>1, <1>2

LEMMA InvariantIInv == Spec => []IInv
BY InitIInv, NextIInv, PTL DEF Spec
-----------------------------------------------------------------------------
(* The costs are fractions, and the layouts are in the order of theirs *)

\* A fraction; 0/0 is what a division of zero by zero gives, and exceeds nothing.
Fraction(cost) == /\ cost[1] \in Int /\ cost[2] \in Nat
                  /\ cost[2] = 0 => cost[1] = 0

LEMMA TimesKeepsOrder ==
  ASSUME NEW a \in Int, NEW b \in Int, NEW k \in Nat \ {0}
  PROVE  /\ a * k \in Int /\ b * k \in Int
         /\ a < b <=> a * k < b * k
         /\ a =< b <=> a * k =< b * k
OBVIOUS

\* What costs less than y costs no more than what costs no less than y.
LEMMA ExceedsOrder ==
  ASSUME NEW x, NEW y, NEW z, Fraction(x), Fraction(y), Fraction(z),
         Exceeds(y, x), ~Exceeds(y, z)
  PROVE  ~Exceeds(x, z)
<1> DEFINE a == x[1] b == x[2] c == y[1] d == y[2] e == z[1] f == z[2]
<1>1. /\ a \in Int /\ b \in Nat /\ c \in Int /\ d \in Nat /\ e \in Int /\ f \in Nat
      /\ b = 0 => a = 0
      /\ d = 0 => c = 0
      /\ f = 0 => e = 0
  BY DEF Fraction
<1>2. c * b > a * d /\ c * f =< e * d
  <2>1. c * f \in Int /\ e * d \in Int
    BY <1>1
  <2> QED BY <2>1 DEF Exceeds
<1>3. a * f =< e * b => ~Exceeds(x, z)
  <2>1. a * f \in Int /\ e * b \in Int
    BY <1>1
  <2> QED BY <2>1 DEF Exceeds
<1> HIDE DEF a, b, c, d, e, f
<1>4. b # 0 /\ d # 0
  BY <1>1, <1>2
<1>5. CASE f = 0
  BY <1>1, <1>3, <1>5
<1>6. CASE f # 0
  <2>1. b \in Nat \ {0} /\ d \in Nat \ {0} /\ f \in Nat \ {0}
    BY <1>1, <1>4, <1>6
  <2>2. /\ c * b \in Int /\ a * d \in Int /\ c * f \in Int /\ e * d \in Int
        /\ a * f \in Int /\ e * b \in Int
    BY <1>1
  <2>3. (a * d) * f < (c * b) * f
    BY <1>2, <2>1, <2>2, TimesKeepsOrder
  <2>4. (c * f) * b =< (e * d) * b
    BY <1>2, <2>1, <2>2, TimesKeepsOrder
  <2>5. /\ (a * d) * f = (a * f) * d /\ (c * b) * f = (c * f) * b
        /\ (e * d) * b = (e * b) * d
    BY <1>1
  <2>6. (a * f) * d =< (e * b) * d
    <3>1. /\ (a * f) * d \in Int /\ (c * f) * b \in Int /\ (e * b) * d \in Int
      BY <2>2, <1>1
    <3> QED BY <2>3, <2>4, <2>5, <3>1
  <2>7. a * f =< e * b
    BY <2>1, <2>2, <2>6, TimesKeepsOrder
  <2> QED BY <1>3, <2>7
<1> QED BY <1>5, <1>6

\* The rectangles of a layout.
LeavesOf(layout) == UNION {layout[n].leaves : n \in DOMAIN layout}

\* What the assumptions say of a layout: it has a height, and finitely many
\* rectangles, each with an importance.
LEMMA LayoutFacts ==
  ASSUME groups \in GroupLists, NEW chosen \in Seq(Position), chosen # <<>>,
         NEW layout, layout = [n \in DOMAIN chosen |-> groups[chosen[n]]]
  PROVE  /\ IsFiniteSet(DOMAIN layout) /\ DOMAIN layout # {}
         /\ \A n \in DOMAIN layout : layout[n].height \in Nat \ {0}
         /\ IsFiniteSet(LeavesOf(layout))
         /\ \A leaf \in LeavesOf(layout) :
              /\ leaf.width \in Nat /\ leaf.height \in Nat
              /\ Importance[leaf.label] \in Nat
<1> DEFINE Leaf == [label : Label, width : Nat, height : Nat]
           Group == [labels : SUBSET Label, height : Nat \ {0}, leaves : SUBSET Leaf]
<1>1. /\ groups \in Seq(Group)
      /\ \A p \in DOMAIN groups : IsFiniteSet(groups[p].leaves)
  BY GroupListsAssumption
<1>2. Len(chosen) \in Nat \ {0} /\ DOMAIN chosen = 1 .. Len(chosen) /\ DOMAIN layout = DOMAIN chosen
  OBVIOUS
<1>3. ASSUME NEW n \in DOMAIN layout
      PROVE  layout[n] \in Group /\ IsFiniteSet(layout[n].leaves)
  <2>1. chosen[n] \in DOMAIN groups /\ layout[n] = groups[chosen[n]]
    BY <1>2 DEF Position
  <2>2. \A p \in DOMAIN groups : groups[p] \in Group
    <3> HIDE DEF Group
    <3> QED BY <1>1
  <2> HIDE DEF Group
  <2> QED BY <1>1, <2>1, <2>2
<1>4. IsFiniteSet(DOMAIN layout) /\ DOMAIN layout # {}
  <2>1. IsFiniteSet(1 .. Len(chosen)) /\ 1 \in 1 .. Len(chosen)
    BY <1>2, FS_Interval
  <2> QED BY <1>2, <2>1
<1>5. \A n \in DOMAIN layout : layout[n].height \in Nat \ {0} /\ layout[n].leaves \subseteq Leaf
  BY <1>3
<1>6. IsFiniteSet(LeavesOf(layout))
  <2> DEFINE leavesOf == [n \in DOMAIN layout |-> layout[n].leaves]
             Parts == {layout[n].leaves : n \in DOMAIN layout}
  <2>1. leavesOf \in Surjection(DOMAIN layout, Parts)
    BY DEF Surjection
  <2>2. IsFiniteSet(Parts)
    <3> HIDE DEF leavesOf, Parts
    <3> QED BY <1>4, <2>1, FS_Surjection
  <2>3. \A part \in Parts : IsFiniteSet(part)
    BY <1>3
  <2> HIDE DEF Parts
  <2>4. IsFiniteSet(UNION Parts)
    BY <2>2, <2>3, FS_UNION
  <2> QED BY <2>4 DEF Parts, LeavesOf
<1>7. ASSUME NEW n \in DOMAIN layout, NEW leaf \in layout[n].leaves
      PROVE  /\ leaf.width \in Nat /\ leaf.height \in Nat
             /\ Importance[leaf.label] \in Nat
  <2>1. leaf \in Leaf
    BY <1>5
  <2> QED BY <2>1, ImportanceAssumption DEF Label
<1> QED BY <1>4, <1>5, <1>6, <1>7 DEF LeavesOf

\* What CalculateLayoutCost returns for a layout of at least one group.
LEMMA CostIsFraction ==
  ASSUME groups \in GroupLists, NEW chosen \in Seq(Position), chosen # <<>>,
         NEW start \in Int
  PROVE  Fraction(CostOf(chosen, start))
<1>1. PICK layout : layout = [n \in DOMAIN chosen |-> groups[chosen[n]]]
  OBVIOUS
<1>2. PICK leaves : leaves = LeavesOf(layout)
  OBVIOUS
<1>3. PICK heights, weights : /\ heights = [n \in DOMAIN layout |-> layout[n].height]
                             /\ weights = [leaf \in leaves |-> Importance[leaf.label]]
  OBVIOUS
<1>4. PICK area, weight : /\ area = LayoutWidth * SumFunction(heights)
                          /\ weight = SumFunction(weights)
  OBVIOUS
<1>5. PICK off : off = [leaf \in leaves |-> Distance(leaf.width * leaf.height * weight,
                                                   Importance[leaf.label] * area)]
  OBVIOUS
<1>6. \/ CostOf(chosen, start) = <<1, 1>>
      \/ CostOf(chosen, start) = <<start * area * weight + SumFunction(off),
                                   area * weight * Cardinality(leaves)>>
  BY <1>1, <1>2, <1>3, <1>4, <1>5 DEF CostOf, CalculateLayoutCost, LeavesOf
<1>7. /\ IsFiniteSet(leaves) /\ Cardinality(leaves) \in Nat
      /\ \A leaf \in leaves : /\ leaf.width \in Nat /\ leaf.height \in Nat
                              /\ Importance[leaf.label] \in Nat
  BY <1>1, <1>2, LayoutFacts, FS_CardinalityType
<1>8. area \in Nat \ {0}
  <2>1. /\ DOMAIN heights = DOMAIN layout /\ IsFiniteSet(DOMAIN heights) /\ DOMAIN heights # {}
        /\ \A n \in DOMAIN heights : heights[n] \in Nat \ {0}
    BY <1>1, <1>3, LayoutFacts
  <2>2. /\ SumFunctionOnSet(heights, DOMAIN heights) \in Nat
        /\ \A n \in DOMAIN heights : heights[n] =< SumFunctionOnSet(heights, DOMAIN heights)
    BY <2>1, SumNotNegative
  <2>3. SumFunction(heights) \in Nat \ {0}
    BY <2>1, <2>2 DEF SumFunction
  <2> QED BY <1>4, <2>3, LayoutWidthAssumption
<1>9. /\ weight \in Nat
      /\ \A leaf \in leaves : Importance[leaf.label] =< weight
  <2>1. DOMAIN weights = leaves /\ \A leaf \in leaves : /\ weights[leaf] \in Nat
                                                       /\ weights[leaf] = Importance[leaf.label]
    BY <1>3, <1>7
  <2>2. /\ SumFunctionOnSet(weights, leaves) \in Nat
        /\ \A leaf \in leaves : weights[leaf] =< SumFunctionOnSet(weights, leaves)
    BY <1>7, <2>1, SumNotNegative
  <2> QED BY <1>4, <2>1, <2>2 DEF SumFunction
<1>10. \A leaf \in leaves : /\ off[leaf] \in Int
                            /\ weight = 0 => off[leaf] = 0
  <2> SUFFICES ASSUME NEW leaf \in leaves
               PROVE  off[leaf] \in Int /\ (weight = 0 => off[leaf] = 0)
    OBVIOUS
  <2>1. PICK size, share : /\ size = leaf.width * leaf.height
                           /\ share = Importance[leaf.label]
    OBVIOUS
  <2>2. size \in Nat /\ share \in Nat /\ share =< weight
    BY <1>7, <1>9, <2>1
  <2>3. off[leaf] = Distance(size * weight, share * area)
    BY <1>5, <2>1
  <2>4. size * weight \in Int /\ share * area \in Int
    BY <1>8, <1>9, <2>2
  <2>5. weight = 0 => size * weight = 0 /\ share * area = 0
    BY <1>8, <1>9, <2>2
  <2> QED BY <2>3, <2>4, <2>5 DEF Distance
<1>11. /\ SumFunction(off) \in Int
       /\ weight = 0 => SumFunction(off) = 0
  <2>1. DOMAIN off = leaves
    BY <1>5
  <2>2. \A leaf \in leaves : off[leaf] \in Int
    BY <1>10
  <2>3. SumFunctionOnSet(off, leaves) \in Int
    BY <1>7, <2>2, SumIsInt
  <2>4. weight = 0 => SumFunctionOnSet(off, leaves) = 0
    <3> SUFFICES ASSUME weight = 0 PROVE SumFunctionOnSet(off, leaves) = 0
      OBVIOUS
    <3>1. {} \in SUBSET leaves
      OBVIOUS
    <3>2. \A leaf \in leaves \ {} : off[leaf] = 0
      BY <1>10
    <3> QED BY ZenonT(40), <1>7, <2>2, <3>1, <3>2, SumZeros, SumEmpty
  <2> QED BY <2>1, <2>3, <2>4 DEF SumFunction
<1>12. leaves = {} => weight = 0
  <2>1. DOMAIN weights = leaves
    BY <1>3
  <2> QED BY <1>4, <2>1, SumEmpty DEF SumFunction
<1>13. PICK number, sum : number = Cardinality(leaves) /\ sum = SumFunction(off)
  OBVIOUS
<1>14. /\ number \in Nat /\ sum \in Int
       /\ number = 0 => weight = 0
       /\ weight = 0 => sum = 0
  BY <1>7, <1>11, <1>12, <1>13, FS_EmptySet
<1>15. start * area * weight + sum \in Int /\ area * weight * number \in Nat
  BY <1>8, <1>9, <1>14
<1>16. area * weight * number = 0 => weight = 0
  BY <1>8, <1>9, <1>14
<1>17. weight = 0 => start * area * weight + sum = 0
  BY <1>8, <1>14
<1> QED BY <1>6, <1>13, <1>15, <1>16, <1>17 DEF Fraction

\* The costs kept are fractions, in ascending order.
OrderInv == (\A n \in DOMAIN layouts : Fraction(layouts[n].cost)) /\ CheapestFirst

\* The new layout is behind those that cost no more, and before one that
\* exceeds it, and so before all that follow that one.
LEMMA CompleteOrder ==
  ASSUME IInv, OrderInv, Complete
  PROVE  OrderInv'
<1>1. /\ layout_groups \in Seq(Position) /\ groups \in GroupLists /\ Top \in Position
      /\ layouts \in Seq({layouts[n] : n \in DOMAIN layouts})
  BY Trying DEF IInv, Types, LayoutsSequence, Complete, CanPush
<1>2. PICK chosen : chosen = Append(layout_groups, Top)
  OBVIOUS
<1>3. PICK start \in Uninitialized, n \in 0 .. Len(layouts) :
        /\ InsertsAfter(n, CostOf(chosen, start))
        /\ layouts' = SubSeq(layouts, 1, n)
                         \o <<[groups |-> chosen, cost |-> CostOf(chosen, start)]>>
                         \o SubSeq(layouts, n + 1, Len(layouts))
  BY <1>2, Zenon DEF Complete
<1>4. PICK new, cost : /\ cost = CostOf(chosen, start) /\ new.cost = cost
                       /\ new = [groups |-> chosen, cost |-> CostOf(chosen, start)]
  <2>1. [groups |-> chosen, cost |-> CostOf(chosen, start)].cost = CostOf(chosen, start)
    OBVIOUS
  <2> QED BY <2>1
<1>5. Fraction(cost)
  <2>1. chosen \in Seq(Position) /\ chosen # <<>>
    BY <1>1, <1>2
  <2>2. start \in Int
    BY UninitializedAssumption
  <2> QED BY <1>1, <1>4, <2>1, <2>2, CostIsFraction
<1>6. /\ DOMAIN layouts' = 1 .. Len(layouts) + 1
      /\ \A m \in 1 .. n : layouts'[m] = layouts[m]
      /\ layouts'[n + 1] = new
      /\ \A m \in n + 2 .. Len(layouts) + 1 : layouts'[m] = layouts[m - 1]
  <2>1. layouts' = InsertedAt(layouts, n, new)
    BY <1>3, <1>4, Zenon DEF InsertedAt
  <2>2. IsSequence(layouts)
    BY <1>1 DEF IsSequence
  <2>3. n \in Nat /\ n =< Len(layouts)
    BY <1>1, <1>3
  <2> QED BY <2>1, <2>2, <2>3, InsertedElements
<1>7. Len(layouts) \in Nat /\ DOMAIN layouts = 1 .. Len(layouts) /\ n \in 0 .. Len(layouts)
  BY <1>1, <1>3
<1>8. \A m \in 1 .. n : ~Exceeds(layouts[m].cost, cost)
  BY <1>3, <1>4 DEF InsertsAfter
<1>9. ASSUME NEW m \in n + 1 .. Len(layouts)
      PROVE  ~Exceeds(cost, layouts[m].cost)
  <2>1. n + 1 \in DOMAIN layouts /\ m \in DOMAIN layouts
    BY <1>7
  <2>2. Exceeds(layouts[n + 1].cost, cost)
    BY <1>3, <1>4, <1>7 DEF InsertsAfter
  <2>3. Fraction(layouts[n + 1].cost) /\ Fraction(layouts[m].cost)
    BY <2>1 DEF OrderInv
  <2>4. CASE m = n + 1
    <3>1. Fraction(layouts[m].cost) /\ Exceeds(layouts[m].cost, cost)
      BY <2>2, <2>3, <2>4
    <3>2. \A x, y : Fraction(x) /\ Fraction(y) /\ Exceeds(x, y) => ~Exceeds(y, x)
      <4> SUFFICES ASSUME NEW x, NEW y, Fraction(x), Fraction(y), Exceeds(x, y)
                   PROVE  ~Exceeds(y, x)
        OBVIOUS
      <4>1. x[1] * y[2] \in Int /\ y[1] * x[2] \in Int
        BY DEF Fraction
      <4> QED BY <4>1 DEF Exceeds
    <3> QED BY <1>5, <3>1, <3>2
  <2>5. CASE m # n + 1
    <3>1. ~Exceeds(layouts[n + 1].cost, layouts[m].cost)
      BY <1>7, <2>1, <2>5 DEF OrderInv, CheapestFirst
    <3> QED BY <1>5, <2>2, <2>3, <3>1, ExceedsOrder
  <2> QED BY <2>4, <2>5
<1>10. ASSUME NEW m \in DOMAIN layouts'
       PROVE  \/ m \in 1 .. n /\ m \in DOMAIN layouts /\ layouts'[m] = layouts[m]
              \/ m = n + 1 /\ layouts'[m].cost = cost
              \/ /\ m \in n + 2 .. Len(layouts) + 1 /\ m - 1 \in n + 1 .. Len(layouts)
                 /\ m - 1 \in DOMAIN layouts /\ layouts'[m] = layouts[m - 1]
  BY <1>4, <1>6, <1>7
<1>11. ASSUME NEW m \in DOMAIN layouts'
       PROVE  Fraction(layouts'[m].cost)
  BY <1>5, <1>10 DEF OrderInv
<1>12. ASSUME NEW l \in DOMAIN layouts', NEW m \in DOMAIN layouts', l < m
       PROVE  ~Exceeds(layouts'[l].cost, layouts'[m].cost)
  <2>1. l \in Int /\ m \in Int
    BY <1>6, <1>7
  <2>2. CASE m = n + 1
    <3>1. l \in 1 .. n /\ layouts'[l] = layouts[l] /\ layouts'[m].cost = cost
      BY <1>4, <1>6, <1>12, <2>1, <2>2, <1>10
    <3> QED BY <1>8, <3>1
  <2>3. CASE l = n + 1
    <3>1. layouts'[l].cost = cost /\ layouts'[m] = layouts[m - 1] /\ m - 1 \in n + 1 .. Len(layouts)
      BY <1>4, <1>6, <1>10, <1>12, <2>1, <2>3
    <3> QED BY <1>9, <3>1
  <2>4. CASE l # n + 1 /\ m # n + 1
    <3> DEFINE Old(x) == IF x \in 1 .. n THEN x ELSE x - 1
    <3>1. /\ Old(l) \in DOMAIN layouts /\ Old(m) \in DOMAIN layouts /\ Old(l) < Old(m)
          /\ layouts'[l] = layouts[Old(l)] /\ layouts'[m] = layouts[Old(m)]
      BY <1>7, <1>10, <1>12, <2>1, <2>4
    <3> HIDE DEF Old
    <3> QED BY <3>1 DEF OrderInv, CheapestFirst
  <2> QED BY <2>2, <2>3, <2>4
<1> QED BY <1>11, <1>12 DEF OrderInv, CheapestFirst

LEMMA ReturnOrder ==
  ASSUME IInv, OrderInv, Return
  PROVE  OrderInv'
<1>1. PICK kept : kept = IF Len(layouts) > MaxLayouts THEN MaxLayouts ELSE Len(layouts)
  OBVIOUS
<1>2. layouts \in Seq({layouts[n] : n \in DOMAIN layouts}) /\ kept \in 0 .. Len(layouts)
  BY <1>1, MaxLayoutsAssumption DEF IInv, Types, LayoutsSequence
<1>3. layouts' = SubSeq(layouts, 1, kept)
  BY <1>1 DEF Return
<1>4. /\ DOMAIN layouts' \subseteq DOMAIN layouts
      /\ \A n \in DOMAIN layouts' : layouts'[n] = layouts[n]
  BY <1>2, <1>3
<1> QED BY <1>4 DEF OrderInv, CheapestFirst

LEMMA OrderInvariant == Spec => []OrderInv
<1>1. Init => OrderInv
  BY DEF Init, OrderInv, CheapestFirst
<1>2. IInv /\ OrderInv /\ [Next]_vars => OrderInv'
  <2> SUFFICES ASSUME IInv, OrderInv, [Next]_vars PROVE OrderInv'
    OBVIOUS
  <2>1. CASE Complete
    BY <2>1, CompleteOrder
  <2>2. CASE Return
    BY <2>2, ReturnOrder
  <2>3. CASE layouts' = layouts
    BY <2>3 DEF OrderInv, CheapestFirst
  <2>4. Complete \/ Return \/ layouts' = layouts
    BY DEF Next, Step, Refuse, TooCostly, Descend, LastGroup, NextGroup, PopLevel, vars
  <2> QED BY <2>1, <2>2, <2>3, <2>4
<1> QED BY <1>1, <1>2, InvariantIInv, PTL DEF Spec
-----------------------------------------------------------------------------
(* Choices of groups, and the order in which the search meets them *)

\* Groups in ascending order that make up the page.
IsChoice(c) ==
  /\ c \in Seq(Position) /\ c # <<>> /\ PairwiseDisjoint(c) /\ AllLabels(c) = Label
  /\ \A m \in 1 .. Len(c) - 1 : c[m] < c[m + 1]

StartsWith(c, s) == Len(s) =< Len(c) /\ \A n \in DOMAIN s : c[n] = s[n]

\* What a layout has is what the search looks for.
LEMMA LayoutsAreChoices ==
  ASSUME groups \in GroupLists, NEW c
  PROVE  c \in AllLayouts <=> IsChoice(c)
<1>1. ASSUME NEW n \in 1 .. final_size, c \in [1 .. n -> Position],
             \A m \in 1 .. n - 1 : c[m] < c[m + 1]
      PROVE  c \in Seq(Position) /\ Len(c) = n /\ c # <<>>
  <2>1. n \in Nat /\ n # 0
    BY LabelAssumption, FS_CardinalityType DEF final_size
  <2>2. c \in Seq(Position) /\ Len(c) = n
    BY <1>1, <2>1
  <2> QED BY <2>1, <2>2
<1>2. c \in AllLayouts => IsChoice(c)
  <2> SUFFICES ASSUME c \in AllLayouts PROVE IsChoice(c)
    OBVIOUS
  <2>1. PICK n \in 1 .. final_size : /\ c \in [1 .. n -> Position]
                                     /\ \A m \in 1 .. n - 1 : c[m] < c[m + 1]
    BY DEF AllLayouts
  <2>2. PairwiseDisjoint(c) /\ AllLabels(c) = Label
    BY DEF AllLayouts
  <2> QED BY <1>1, <2>1, <2>2 DEF IsChoice
<1>3. ASSUME IsChoice(c) PROVE Len(c) \in 1 .. final_size
  <2>1. c \in Seq(Position) /\ Len(c) \in Nat \ {0} /\ DOMAIN c = 1 .. Len(c)
    BY <1>3 DEF IsChoice
  <2>2. \A m \in 1 .. Len(c) : LabelsAt(c[m]) \subseteq Label /\ LabelsAt(c[m]) # {}
    BY SMTT(30), <2>1, GroupsFacts
  <2>3. PICK own : own = [m \in 1 .. Len(c) |-> CHOOSE l \in LabelsAt(c[m]) : TRUE]
    OBVIOUS
  <2>4. \A m \in 1 .. Len(c) : own[m] \in LabelsAt(c[m])
    BY <2>2, <2>3
  <2>5. \A m, n \in 1 .. Len(c) : own[m] = own[n] => m = n
    BY <1>3, <2>1, <2>4 DEF IsChoice, PairwiseDisjoint
  <2>6. own \in [1 .. Len(c) -> Label]
    BY <2>2, <2>3, <2>4
  <2>7. own \in Injection(1 .. Len(c), Label)
    BY <2>5, <2>6 DEF Injection, IsInjective
  <2>8. Cardinality(1 .. Len(c)) =< Cardinality(Label)
    BY <2>7, LabelAssumption, FS_Injection
  <2>9. Cardinality(1 .. Len(c)) = Len(c)
    BY <2>1, FS_Interval
  <2> QED BY <2>1, <2>8, <2>9, LabelAssumption, FS_CardinalityType DEF final_size
<1>4. ASSUME IsChoice(c) PROVE c \in AllLayouts
  <2>1. c \in [1 .. Len(c) -> Position] /\ \A m \in 1 .. Len(c) - 1 : c[m] < c[m + 1]
    BY <1>4 DEF IsChoice
  <2>2. PairwiseDisjoint(c) /\ AllLabels(c) = Label
    BY <1>4 DEF IsChoice
  <2> QED BY <1>3, <1>4, <2>1, <2>2 DEF AllLayouts
<1> QED BY <1>2, <1>4

\* The parts of a choice that are used again and again.
LEMMA ChoiceFacts ==
  ASSUME groups \in GroupLists, NEW c, IsChoice(c)
  PROVE  /\ Len(c) \in Nat \ {0} /\ DOMAIN c = 1 .. Len(c)
         /\ \A m \in 1 .. Len(c) : /\ c[m] \in Position /\ c[m] \in 1 .. Len(groups)
                                   /\ LabelsAt(c[m]) \subseteq Label /\ LabelsAt(c[m]) # {}
BY GroupsFacts DEF IsChoice

\* No choice goes on where another one ends.
LEMMA NoLongerChoice ==
  ASSUME groups \in GroupLists, NEW c, NEW d, IsChoice(c), IsChoice(d), StartsWith(c, d)
  PROVE  c = d
<1>1. /\ Len(c) \in Nat \ {0} /\ DOMAIN c = 1 .. Len(c)
      /\ Len(d) \in Nat \ {0} /\ DOMAIN d = 1 .. Len(d)
      /\ \A m \in 1 .. Len(c) : LabelsAt(c[m]) \subseteq Label /\ LabelsAt(c[m]) # {}
  BY ChoiceFacts
<1>2. Len(d) =< Len(c) /\ \A n \in 1 .. Len(d) : c[n] = d[n]
  BY <1>1 DEF StartsWith
<1>3. CASE Len(d) < Len(c)
  <2>1. Len(d) + 1 \in DOMAIN c
    BY <1>1, <1>3
  <2>2. PICK l : l \in LabelsAt(c[Len(d) + 1]) /\ l \in Label
    BY <1>1, <2>1
  <2>3. PICK n \in DOMAIN d : l \in LabelsAt(d[n])
    BY <2>2 DEF IsChoice, AllLabels
  <2>4. n \in DOMAIN c /\ n # Len(d) + 1 /\ c[n] = d[n]
    BY <1>1, <1>2
  <2> QED BY <2>1, <2>2, <2>3, <2>4 DEF IsChoice, PairwiseDisjoint
<1>4. CASE Len(d) = Len(c)
  BY <1>1, <1>2, <1>4 DEF IsChoice
<1>5. Len(d) < Len(c) \/ Len(d) = Len(c)
  <2>1. PICK m, n : m = Len(d) /\ n = Len(c)
    OBVIOUS
  <2>2. m \in Nat /\ n \in Nat /\ m =< n
    BY <1>1, <1>2, <2>1
  <2>3. m < n \/ m = n
    BY <2>2
  <2> QED BY <2>1, <2>3
<1> QED BY <1>3, <1>4, <1>5

\* Of two sequences one precedes the other, or starts with it.
LEMMA Comparable ==
  ASSUME groups \in GroupLists, NEW c \in Seq(Position), NEW d \in Seq(Position)
  PROVE  Precedes(c, d) \/ Precedes(d, c) \/ StartsWith(c, d) \/ StartsWith(d, c)
<1> DEFINE Differ == {n \in Nat : n \in DOMAIN c /\ n \in DOMAIN d /\ c[n] # d[n]}
<1>1. /\ Len(c) \in Nat /\ DOMAIN c = 1 .. Len(c) /\ Len(d) \in Nat /\ DOMAIN d = 1 .. Len(d)
      /\ \A n \in 1 .. Len(c) : c[n] \in Int
      /\ \A n \in 1 .. Len(d) : d[n] \in Int
  BY GroupsFacts
<1>2. CASE Differ = {}
  <2>1. \A n \in Nat : n \in DOMAIN c /\ n \in DOMAIN d => c[n] = d[n]
    BY <1>2
  <2>2. CASE Len(d) =< Len(c)
    BY <1>1, <2>1, <2>2 DEF StartsWith
  <2>3. CASE Len(c) =< Len(d)
    BY <1>1, <2>1, <2>3 DEF StartsWith
  <2> QED BY <1>1, <2>2, <2>3
<1>3. CASE Differ # {}
  <2>1. Differ \subseteq Nat
    OBVIOUS
  <2>2. PICK n \in Differ : \A m \in Differ : n =< m
    <3> HIDE DEF Differ
    <3> QED BY <1>3, <2>1, Smallest
  <2>3. n \in DOMAIN c /\ n \in DOMAIN d /\ c[n] # d[n]
    OBVIOUS
  <2>4. \A m \in 1 .. n - 1 : c[m] = d[m]
    <3> SUFFICES ASSUME NEW m \in 1 .. n - 1 PROVE c[m] = d[m]
      OBVIOUS
    <3>1. m \in Nat /\ ~(n =< m) /\ m \in DOMAIN c /\ m \in DOMAIN d
      BY <1>1, <2>3
    <3> QED BY <2>2, <3>1
  <2>5. c[n] < d[n] \/ d[n] < c[n]
    BY <1>1, <2>3
  <2> QED BY <2>3, <2>4, <2>5 DEF Precedes
<1> QED BY <1>2, <1>3
-----------------------------------------------------------------------------
(* The search passes no choice that it could keep *)

\* A choice whose costs are accepted whatever the accumulator starts from.
Certain(c) == IsChoice(c) /\ \A start \in Uninitialized : Affordable(c, start)

LedBy(n) == layouts[n].groups[1]
HasLayout(seed) == \E n \in DOMAIN layouts : LedBy(n) = seed

\* The search has still to meet c.
Ahead(c) == /\ it_stack # <<>> /\ ~Precedes(c, it_stack)
            /\ pc = "advance" => ~StartsWith(c, it_stack)

\* The groups below the top of the stack do not make up the page.
RoomLeft == layout_groups # <<>> => layout_labels # Label

\* The layouts found are of the seeds that the search is done with.
SeedsPassed ==
  it_stack # <<>> =>
    \A n \in DOMAIN layouts :
      \/ LedBy(n) < it_stack[1]
      \/ LedBy(n) = it_stack[1] /\ pc = "advance" /\ Len(it_stack) = 1

OneEach == \A m, n \in DOMAIN layouts : LedBy(m) = LedBy(n) => m = n

FirstOfAll ==
  \A n \in DOMAIN layouts :
    /\ IsChoice(layouts[n].groups)
    /\ \A c : Certain(c) /\ c[1] = LedBy(n) =>
                layouts[n].groups = c \/ Precedes(layouts[n].groups, c)

NonePassed == pc # "done" => \A c : Certain(c) => HasLayout(c[1]) \/ Ahead(c)

\* Given IInv this is inductive.
SearchInv == RoomLeft /\ SeedsPassed /\ OneEach /\ FirstOfAll /\ NonePassed

\* What is a choice, and what it costs, depends on nothing but the groups.
LEMMA SameChoices ==
  ASSUME groups' = groups, NEW c
  PROVE  IsChoice(c)' = IsChoice(c) /\ Certain(c)' = Certain(c)
<1>1. Position' = Position
  BY DEF Position
<1>2. PairwiseDisjoint(c)' = PairwiseDisjoint(c)
  BY DEF PairwiseDisjoint, LabelsAt
<1>3. AllLabels(c)' = AllLabels(c)
  BY DEF AllLabels, LabelsAt
<1>4. \A start : Affordable(c, start)' = Affordable(c, start)
  BY DEF Affordable, CostOf
<1>5. IsChoice(c)' = IsChoice(c)
  BY <1>1, <1>2, <1>3 DEF IsChoice
<1> QED BY <1>4, <1>5 DEF Certain

\* The stack as the choices see it.
LEMMA StackFacts ==
  ASSUME IInv, it_stack # <<>>
  PROVE  /\ groups \in GroupLists
         /\ Len(it_stack) \in Nat \ {0} /\ DOMAIN it_stack = 1 .. Len(it_stack)
         /\ Top = it_stack[Len(it_stack)]
         /\ \A n \in 1 .. Len(it_stack) : it_stack[n] \in 1 .. Len(groups)
         /\ DOMAIN layout_groups = 1 .. Len(it_stack) - 1
         /\ \A n \in 1 .. Len(it_stack) - 1 : layout_groups[n] = it_stack[n]
         /\ layout_labels = AllLabels(layout_groups)
         /\ layout_size = Cardinality(layout_labels)
<1>1. /\ it_stack \in Seq(Position) /\ layout_groups \in Seq(Position) /\ groups \in GroupLists
      /\ Len(it_stack) = Len(layout_groups) + 1
  BY DEF IInv, Types, BuilderMatchesStack
<1>2. Len(it_stack) \in Nat \ {0} /\ DOMAIN it_stack = 1 .. Len(it_stack)
      /\ DOMAIN layout_groups = 1 .. Len(it_stack) - 1
  BY <1>1
<1>3. \A n \in 1 .. Len(it_stack) : it_stack[n] \in 1 .. Len(groups)
  BY <1>1, <1>2, GroupsFacts
<1> QED BY <1>1, <1>2, <1>3 DEF IInv, BuilderMatchesStack, Top

\* A choice that starts with the stack: its groups are those of the builder,
\* the one on top, and those that follow.
LEMMA ChoiceOnStack ==
  ASSUME IInv, it_stack # <<>>, NEW c, IsChoice(c), StartsWith(c, it_stack)
  PROVE  /\ Len(c) \in Nat /\ DOMAIN c = 1 .. Len(c) /\ Len(it_stack) =< Len(c)
         /\ \A n \in 1 .. Len(it_stack) : c[n] = it_stack[n]
         /\ \A n \in 1 .. Len(it_stack) - 1 : layout_groups[n] = c[n]
         /\ c[Len(it_stack)] = Top
         /\ Len(c) = Len(it_stack) => layout_labels \cup LabelsAt(Top) = Label
<1>1. /\ Len(it_stack) \in Nat \ {0} /\ DOMAIN it_stack = 1 .. Len(it_stack)
      /\ Top = it_stack[Len(it_stack)]
      /\ DOMAIN layout_groups = 1 .. Len(it_stack) - 1
      /\ \A n \in 1 .. Len(it_stack) - 1 : layout_groups[n] = it_stack[n]
      /\ layout_labels = AllLabels(layout_groups) /\ groups \in GroupLists
  BY StackFacts
<1>2. Len(c) \in Nat /\ DOMAIN c = 1 .. Len(c)
  BY <1>1, ChoiceFacts
<1>3. Len(it_stack) =< Len(c) /\ \A n \in 1 .. Len(it_stack) : c[n] = it_stack[n]
  BY <1>1 DEF StartsWith
<1>4. c[Len(it_stack)] = Top /\ \A n \in 1 .. Len(it_stack) - 1 : layout_groups[n] = c[n]
  BY <1>1, <1>3
<1>5. ASSUME Len(c) = Len(it_stack)
      PROVE  layout_labels \cup LabelsAt(Top) = Label
  <2>1. DOMAIN c = DOMAIN layout_groups \cup {Len(it_stack)}
    BY <1>1, <1>2, <1>5
  <2>2. \A n \in DOMAIN layout_groups : layout_groups[n] = c[n]
    BY <1>1, <1>4
  <2>3. AllLabels(c) = AllLabels(layout_groups) \cup LabelsAt(Top)
    BY <1>4, <2>1, <2>2 DEF AllLabels
  <2> QED BY <1>1, <2>3 DEF IsChoice
<1> QED BY <1>2, <1>3, <1>4, <1>5

\* The smallest group is no larger than any.
LEMMA SmallestGroup ==
  ASSUME groups \in GroupLists, NEW p \in Position
  PROVE  min_group_size \in Nat /\ min_group_size =< Cardinality(LabelsAt(p))
<1> DEFINE Sizes == {Cardinality(LabelsAt(q)) : q \in Position}
<1>1. \A q \in Position : Cardinality(LabelsAt(q)) \in Nat
  BY GroupsFacts, LabelSets, LabelAssumption, FS_CardinalityType DEF final_size
<1>2. PICK n \in Sizes : \A m \in Sizes : n =< m
  <2>1. Sizes \in SUBSET Nat /\ Sizes # {}
    BY <1>1
  <2> HIDE DEF Sizes
  <2> QED BY <2>1, Smallest
<1>3. n \in Sizes /\ \A q \in Position : n =< Cardinality(LabelsAt(q))
  BY <1>2
<1>4. min_group_size \in Sizes /\ \A q \in Position : min_group_size =< Cardinality(LabelsAt(q))
  BY <1>3 DEF min_group_size
<1> QED BY <1>1, <1>4

LEMMA DisjointUnion ==
  ASSUME NEW S, NEW T, IsFiniteSet(S), IsFiniteSet(T), S \cap T = {},
         NEW both, both = S \cup T
  PROVE  /\ IsFiniteSet(both) /\ Cardinality(both) = Cardinality(S) + Cardinality(T)
         /\ Cardinality(S) \in Nat /\ Cardinality(T) \in Nat
<1>1. /\ IsFiniteSet(S \cup T)
      /\ Cardinality(S \cup T) = Cardinality(S) + Cardinality(T) - Cardinality(S \cap T)
  BY FS_Union
<1>2. Cardinality(S \cap T) = 0 /\ Cardinality(S) \in Nat /\ Cardinality(T) \in Nat
  BY FS_EmptySet, FS_CardinalityType
<1> QED BY <1>1, <1>2

\* A choice that starts with the stack is not refused: it leaves room.
LEMMA NotRefused ==
  ASSUME IInv, it_stack # <<>>, NEW c, IsChoice(c), StartsWith(c, it_stack)
  PROVE  Fits(Top) /\ IsDisjoint(Top)
<1>1. /\ Len(it_stack) \in Nat \ {0} /\ groups \in GroupLists
      /\ DOMAIN layout_groups = 1 .. Len(it_stack) - 1
      /\ layout_labels = AllLabels(layout_groups)
      /\ layout_size = Cardinality(layout_labels)
  BY StackFacts
<1>2. /\ Len(c) \in Nat /\ DOMAIN c = 1 .. Len(c) /\ Len(it_stack) =< Len(c)
      /\ \A n \in 1 .. Len(it_stack) - 1 : layout_groups[n] = c[n]
      /\ c[Len(it_stack)] = Top
      /\ Len(c) = Len(it_stack) => layout_labels \cup LabelsAt(Top) = Label
  BY ChoiceOnStack
<1>3. \A m, n \in 1 .. Len(c) : m # n => LabelsAt(c[m]) \cap LabelsAt(c[n]) = {}
  BY <1>2 DEF IsChoice, PairwiseDisjoint
<1>4. \A m \in 1 .. Len(c) : /\ c[m] \in Position
                             /\ LabelsAt(c[m]) \subseteq Label /\ LabelsAt(c[m]) # {}
  BY <1>1, ChoiceFacts
<1>5. \A n \in DOMAIN layout_groups : n \in 1 .. Len(c) /\ n < Len(it_stack)
  BY <1>1, <1>2
<1>6. Len(it_stack) \in 1 .. Len(c)
  BY <1>1, <1>2
<1>7. \A m \in Len(it_stack) .. Len(c) : layout_labels \cap LabelsAt(c[m]) = {}
  <2> SUFFICES ASSUME NEW m \in Len(it_stack) .. Len(c), NEW n \in DOMAIN layout_groups
               PROVE  LabelsAt(layout_groups[n]) \cap LabelsAt(c[m]) = {}
    BY <1>1 DEF AllLabels
  <2>1. m \in 1 .. Len(c) /\ n # m
    BY <1>1, <1>5
  <2> QED BY <1>1, <1>2, <1>3, <1>5, <2>1
<1>8. IsDisjoint(Top)
  BY <1>1, <1>2, <1>3, <1>5, <1>6 DEF IsDisjoint
<1>9. layout_labels \subseteq Label
  BY <1>1, <1>2, <1>4, <1>5 DEF AllLabels
<1>10. /\ IsFiniteSet(layout_labels) /\ IsFiniteSet(LabelsAt(Top)) /\ LabelsAt(Top) \subseteq Label
       /\ layout_labels \cap LabelsAt(Top) = {}
  BY <1>1, <1>2, <1>4, <1>6, <1>7, <1>9, LabelAssumption, FS_Subset
<1>11. PICK both : both = layout_labels \cup LabelsAt(Top)
  OBVIOUS
<1>12. /\ Cardinality(layout_labels) \in Nat /\ Cardinality(LabelsAt(Top)) \in Nat
       /\ Cardinality(both) = Cardinality(layout_labels) + Cardinality(LabelsAt(Top))
       /\ both \subseteq Label /\ IsFiniteSet(both)
  <2>1. /\ Cardinality(layout_labels) \in Nat /\ Cardinality(LabelsAt(Top)) \in Nat
        /\ Cardinality(both) = Cardinality(layout_labels) + Cardinality(LabelsAt(Top))
        /\ IsFiniteSet(both)
    BY <1>10, <1>11, DisjointUnion
  <2> QED BY <1>9, <1>10, <1>11, <2>1
<1>13. CASE Len(c) = Len(it_stack)
  BY <1>1, <1>2, <1>8, <1>11, <1>12, <1>13 DEF Fits, final_size
<1>14. CASE Len(c) # Len(it_stack)
  <2>1. /\ Len(it_stack) + 1 \in Len(it_stack) .. Len(c) /\ Len(it_stack) + 1 \in 1 .. Len(c)
        /\ Len(it_stack) + 1 # Len(it_stack)
    BY <1>1, <1>2, <1>14
  <2>2. PICK p : p = c[Len(it_stack) + 1]
    OBVIOUS
  <2>3. p \in Position /\ LabelsAt(p) \subseteq Label /\ both \cap LabelsAt(p) = {}
    BY <1>2, <1>3, <1>4, <1>6, <1>7, <1>11, <2>1, <2>2
  <2>4. IsFiniteSet(LabelsAt(p)) /\ Cardinality(LabelsAt(p)) \in Nat
    BY <2>3, LabelAssumption, FS_Subset, FS_CardinalityType
  <2>5. PICK all : all = both \cup LabelsAt(p)
    OBVIOUS
  <2>6. Cardinality(all) = Cardinality(both) + Cardinality(LabelsAt(p))
    BY <1>12, <2>3, <2>4, <2>5, DisjointUnion
  <2>7. Cardinality(all) =< final_size
    <3>1. all \in SUBSET Label
      BY <1>12, <2>3, <2>5
    <3> QED BY <3>1, LabelAssumption, FS_Subset DEF final_size
  <2>8. min_group_size \in Nat /\ min_group_size =< Cardinality(LabelsAt(p))
    BY <1>1, <2>3, SmallestGroup
  <2>9. final_size \in Nat
    BY LabelAssumption, FS_CardinalityType DEF final_size
  <2>10. layout_size + Cardinality(LabelsAt(Top)) =< final_size - min_group_size
    BY <1>1, <1>12, <2>4, <2>6, <2>7, <2>8, <2>9
  <2> QED BY <1>8, <2>10 DEF Fits
<1> QED BY <1>13, <1>14

\* A choice of affordable groups is not too costly when it starts with the stack.
LEMMA NotTooCostly ==
  ASSUME IInv, it_stack # <<>>, NEW c, Certain(c), StartsWith(c, it_stack),
         NEW start \in Uninitialized
  PROVE  ~Exceeds(CostOf(Append(layout_groups, Top), start), MinCost)
<1>1. /\ Len(it_stack) \in Nat \ {0} /\ DOMAIN layout_groups = 1 .. Len(it_stack) - 1
      /\ layout_groups \in Seq(Position) /\ Top \in Position /\ groups \in GroupLists
  BY StackFacts, GroupsFacts DEF IInv, Types
<1>2. /\ c \in Seq(Position) /\ Len(it_stack) =< Len(c)
      /\ \A n \in 1 .. Len(it_stack) - 1 : layout_groups[n] = c[n]
      /\ c[Len(it_stack)] = Top
  BY ChoiceOnStack DEF Certain, IsChoice
<1>3. PICK k : k = Len(it_stack)
  OBVIOUS
<1>4. PICK d, e : d = Append(layout_groups, Top) /\ e = SubSeq(c, 1, k)
  OBVIOUS
<1>5. Len(layout_groups) = k - 1 /\ k \in Nat \ {0}
  BY <1>1, <1>3
<1>6. /\ d \in Seq(Position) /\ Len(d) = k /\ d[k] = Top
      /\ \A n \in 1 .. k - 1 : d[n] = layout_groups[n]
  BY <1>1, <1>4, <1>5
<1>7. e \in Seq(Position) /\ Len(e) = k /\ \A n \in 1 .. k : e[n] = c[n]
  BY <1>2, <1>3, <1>4, <1>5
<1>8. \A n \in 1 .. k : d[n] = e[n]
  BY <1>2, <1>3, <1>5, <1>6, <1>7
<1>9. d = e
  BY <1>5, <1>6, <1>7, <1>8
<1>10. ~Exceeds(CostOf(e, start), MinCost)
  BY <1>1, <1>2, <1>3, <1>4 DEF Certain, Affordable
<1> QED BY <1>4, <1>9, <1>10

\* After an attempt that keeps nothing, no choice starts with the stack.
LEMMA AttemptPassesNone ==
  ASSUME IInv, Refuse \/ TooCostly \/ LastGroup, NEW c, Certain(c), Ahead(c)
  PROVE  Ahead(c)'
<1>1. /\ pc = "try" /\ it_stack' = it_stack /\ it_stack # <<>>
      /\ ~Precedes(c, it_stack) /\ IsChoice(c)
  BY DEF Refuse, TooCostly, LastGroup, CanPush, Acceptable, Ahead, Certain
<1>2. ASSUME StartsWith(c, it_stack), Refuse PROVE FALSE
  BY <1>1, <1>2, NotRefused DEF Refuse
<1>3. ASSUME StartsWith(c, it_stack), TooCostly PROVE FALSE
  BY <1>1, <1>3, NotTooCostly DEF TooCostly
<1>4. ASSUME StartsWith(c, it_stack), LastGroup PROVE FALSE
  <2>1. Top = Len(groups) /\ Cardinality(layout_labels \cup LabelsAt(Top)) # final_size
    BY <1>4 DEF LastGroup, Acceptable
  <2>2. /\ Len(c) \in Nat /\ Len(it_stack) =< Len(c) /\ c[Len(it_stack)] = Top
        /\ Len(c) = Len(it_stack) => layout_labels \cup LabelsAt(Top) = Label
    BY <1>1, <1>4, ChoiceOnStack
  <2>3. Len(it_stack) \in Nat \ {0} /\ groups \in GroupLists
    BY <1>1, StackFacts
  <2>4. Len(it_stack) # Len(c)
    BY <2>1, <2>2 DEF final_size
  <2>5. Len(it_stack) \in 1 .. Len(c) - 1 /\ Len(it_stack) + 1 \in 1 .. Len(c)
    BY <2>2, <2>3, <2>4
  <2>6. c[Len(it_stack)] < c[Len(it_stack) + 1]
    BY <1>1, <2>5 DEF IsChoice
  <2>7. c[Len(it_stack) + 1] \in 1 .. Len(groups) /\ Len(groups) \in Nat
    BY <1>1, <2>3, <2>5, ChoiceFacts, GroupsFacts
  <2> QED BY <2>1, <2>2, <2>6, <2>7
<1> QED BY <1>1, <1>2, <1>3, <1>4 DEF Ahead

LEMMA DescendPassesNone ==
  ASSUME IInv, Descend, NEW c, Certain(c), Ahead(c)
  PROVE  Ahead(c)'
<1>1. /\ pc' = "try" /\ it_stack' = Append(it_stack, Top + 1) /\ it_stack # <<>>
      /\ ~Precedes(c, it_stack) /\ IsChoice(c)
  BY DEF Descend, Acceptable, CanPush, Ahead, Certain
<1>2. /\ Len(it_stack) \in Nat \ {0} /\ DOMAIN it_stack = 1 .. Len(it_stack)
      /\ Top = it_stack[Len(it_stack)] /\ Top \in Nat /\ groups \in GroupLists
  BY <1>1, StackFacts
<1>a. it_stack \in Seq(Position) /\ Top + 1 \in Position
  BY <1>2, GroupsFacts DEF IInv, Types, Descend
<1>3. PICK k : k = Len(it_stack) /\ k \in Nat \ {0}
  BY <1>2
<1>4. /\ DOMAIN it_stack' = 1 .. k + 1 /\ it_stack'[k + 1] = Top + 1
      /\ \A n \in 1 .. k : it_stack'[n] = it_stack[n]
      /\ it_stack' # <<>>
  BY <1>1, <1>2, <1>3, <1>a
<1>5. ASSUME NEW n \in DOMAIN c, n \in DOMAIN it_stack', c[n] < it_stack'[n],
             \A m \in 1 .. n - 1 : c[m] = it_stack'[m]
      PROVE  FALSE
  <2>1. CASE n \in 1 .. k
    <3>1. \A m \in 1 .. n - 1 : c[m] = it_stack[m]
      BY <1>3, <1>4, <1>5, <2>1
    <3>2. c[n] < it_stack[n] /\ n \in DOMAIN it_stack
      BY <1>2, <1>3, <1>4, <1>5, <2>1
    <3> QED BY <1>1, <1>5, <3>1, <3>2 DEF Precedes
  <2>2. CASE n = k + 1
    <3>1. c[k] = Top /\ c[k + 1] < Top + 1
      BY <1>2, <1>3, <1>4, <1>5, <2>2
    <3>2. Len(c) \in Nat /\ DOMAIN c = 1 .. Len(c) /\ c[k + 1] \in Nat
      BY <1>1, <1>2, <1>5, <2>2, ChoiceFacts
    <3>3. k \in 1 .. Len(c) - 1
      BY <1>3, <1>5, <2>2, <3>2
    <3>4. c[k] < c[k + 1]
      BY <1>1, <3>3 DEF IsChoice
    <3> QED BY <1>2, <3>1, <3>2, <3>4
  <2>3. n \in 1 .. k \/ n = k + 1
    BY <1>3, <1>4, <1>5
  <2> QED BY <2>1, <2>2, <2>3
<1>6. ~Precedes(c, it_stack')
  BY <1>5 DEF Precedes
<1> QED BY <1>1, <1>4, <1>6 DEF Ahead

LEMMA NextGroupPassesNone ==
  ASSUME IInv, NextGroup, NEW c, Certain(c), Ahead(c)
  PROVE  Ahead(c)'
<1>1. /\ pc' = "try" /\ it_stack # <<>> /\ ~Precedes(c, it_stack) /\ ~StartsWith(c, it_stack)
      /\ it_stack' = [it_stack EXCEPT ![Len(it_stack)] = Top + 1] /\ IsChoice(c)
  BY DEF NextGroup, Ahead, Certain
<1>2. /\ Len(it_stack) \in Nat \ {0} /\ DOMAIN it_stack = 1 .. Len(it_stack)
      /\ Top = it_stack[Len(it_stack)] /\ Top \in Nat /\ groups \in GroupLists
  BY <1>1, StackFacts
<1>3. PICK k : k = Len(it_stack) /\ k \in Nat \ {0}
  BY <1>2
<1>4. /\ DOMAIN it_stack' = 1 .. k /\ it_stack'[k] = Top + 1
      /\ \A n \in 1 .. k - 1 : it_stack'[n] = it_stack[n]
  <2>1. it_stack \in Seq(Position) /\ Top + 1 \in Position
    BY <1>2, GroupsFacts DEF IInv, Types, NextGroup
  <2>2. DOMAIN it_stack' = DOMAIN it_stack
    BY <1>1, <2>1
  <2>3. it_stack'[Len(it_stack)] = Top + 1
    BY <1>1, <1>2, <2>1
  <2>4. ASSUME NEW n \in 1 .. k - 1
        PROVE  it_stack'[n] = it_stack[n]
    <3>1. n \in 1 .. k /\ n # k
      BY <1>3
    <3>2. n \in DOMAIN it_stack /\ n # Len(it_stack)
      BY <1>2, <1>3, <3>1
    <3> QED BY <1>1, <2>1, <3>2
  <2> QED BY <1>2, <1>3, <2>2, <2>3, <2>4
<1>5. Len(c) \in Nat /\ DOMAIN c = 1 .. Len(c) /\ \A n \in 1 .. Len(c) : c[n] \in Nat
  BY <1>1, <1>2, ChoiceFacts
<1>6. ASSUME NEW n \in DOMAIN c, n \in DOMAIN it_stack', c[n] < it_stack'[n],
             \A m \in 1 .. n - 1 : c[m] = it_stack'[m]
      PROVE  FALSE
  <2>1. n \in 1 .. k /\ n \in DOMAIN it_stack
    BY <1>2, <1>3, <1>4, <1>6
  <2>2. \A m \in 1 .. n - 1 : c[m] = it_stack[m]
    BY <1>3, <1>4, <1>6, <2>1
  <2>3. ~(c[n] < it_stack[n])
    BY <1>1, <1>6, <2>1, <2>2 DEF Precedes
  <2>4. n = k /\ c[k] < Top + 1
    <3>1. n # k => it_stack'[n] = it_stack[n]
      BY <1>3, <1>4, <2>1
    <3> QED BY <1>4, <1>6, <2>3, <3>1
  <2>5. c[k] = Top
    BY <1>2, <1>3, <1>5, <2>3, <2>4
  <2>6. StartsWith(c, it_stack)
    <3>1. k =< Len(c)
      BY <1>5, <2>4
    <3>2. \A m \in 1 .. k : c[m] = it_stack[m]
      BY <1>2, <1>3, <2>2, <2>4, <2>5
    <3> QED BY <1>2, <1>3, <3>1, <3>2 DEF StartsWith
  <2> QED BY <1>1, <2>6
<1>7. ~Precedes(c, it_stack') /\ it_stack' # <<>>
  <2>1. ~Precedes(c, it_stack')
    BY <1>6 DEF Precedes
  <2>2. k \in DOMAIN it_stack' /\ DOMAIN <<>> = {}
    BY <1>3, <1>4
  <2> QED BY <2>1, <2>2
<1> QED BY <1>1, <1>7 DEF Ahead

\* A level is left when every group has been tried on it.
LEMMA PopLevelPassesNone ==
  ASSUME IInv, RoomLeft, PopLevel, NEW c, Certain(c), Ahead(c)
  PROVE  Ahead(c)'
<1>1. /\ pc' = "advance" /\ it_stack # <<>> /\ ~Precedes(c, it_stack) /\ ~StartsWith(c, it_stack)
      /\ it_stack' = Front(it_stack) /\ Top = Len(groups) /\ IsChoice(c)
  BY DEF PopLevel, Ahead, Certain
<1>2. /\ Len(it_stack) \in Nat \ {0} /\ DOMAIN it_stack = 1 .. Len(it_stack)
      /\ Top = it_stack[Len(it_stack)] /\ groups \in GroupLists
      /\ DOMAIN layout_groups = 1 .. Len(it_stack) - 1
      /\ \A n \in 1 .. Len(it_stack) - 1 : layout_groups[n] = it_stack[n]
      /\ layout_labels = AllLabels(layout_groups)
  BY <1>1, StackFacts
<1>3. PICK k : k = Len(it_stack) /\ k \in Nat \ {0}
  BY <1>2
<1>4. /\ Len(it_stack') = k - 1 /\ DOMAIN it_stack' = 1 .. k - 1
      /\ \A n \in 1 .. k - 1 : it_stack'[n] = it_stack[n]
  <2>1. it_stack \in Seq(Position)
    BY DEF IInv, Types
  <2> QED BY <1>1, <1>3, <2>1 DEF Front
<1>5. /\ Len(c) \in Nat \ {0} /\ DOMAIN c = 1 .. Len(c)
      /\ \A n \in 1 .. Len(c) : c[n] \in 1 .. Len(groups)
      /\ Len(groups) \in Nat
  BY <1>1, <1>2, ChoiceFacts, GroupsFacts
<1>6. ~Precedes(c, it_stack')
  <2>1. ASSUME NEW n \in DOMAIN c, n \in DOMAIN it_stack', c[n] < it_stack'[n],
               \A m \in 1 .. n - 1 : c[m] = it_stack'[m]
        PROVE  FALSE
    <3>1. n \in DOMAIN it_stack /\ c[n] < it_stack[n] /\ \A m \in 1 .. n - 1 : c[m] = it_stack[m]
      BY <1>2, <1>3, <1>4, <2>1
    <3> QED BY <1>1, <2>1, <3>1 DEF Precedes
  <2> QED BY <2>1 DEF Precedes
<1>7. ASSUME k - 1 =< Len(c), \A n \in 1 .. k - 1 : c[n] = it_stack[n]
      PROVE  k # 1 /\ FALSE
  <2>1. CASE Len(c) = k - 1
    <3>1. DOMAIN c = DOMAIN layout_groups /\ \A n \in DOMAIN c : c[n] = layout_groups[n]
      BY <1>2, <1>3, <1>5, <1>7, <2>1
    <3>2. AllLabels(c) = AllLabels(layout_groups)
      BY <3>1 DEF AllLabels
    <3>3. layout_groups # <<>>
      <4>1. 1 \in DOMAIN layout_groups /\ DOMAIN <<>> = {}
        BY <1>5, <3>1
      <4> QED BY <4>1
    <3> QED BY <1>1, <1>2, <3>2, <3>3 DEF RoomLeft, IsChoice
  <2>2. CASE Len(c) # k - 1
    <3>1. k \in 1 .. Len(c)
      BY <1>3, <1>5, <1>7, <2>2
    <3>2. c[k] =< it_stack[k] /\ c[k] \in Int /\ it_stack[k] \in Int
      BY <1>1, <1>2, <1>3, <1>5, <3>1
    <3>3. CASE c[k] = it_stack[k]
      <4>1. \A n \in 1 .. k : c[n] = it_stack[n]
        BY <1>3, <1>7, <3>3
      <4> QED BY <1>1, <1>2, <1>3, <1>5, <3>1, <4>1 DEF StartsWith
    <3>4. CASE c[k] < it_stack[k]
      BY SMTT(30), <1>1, <1>2, <1>3, <1>5, <1>7, <3>1, <3>4 DEF Precedes
    <3> QED BY <3>2, <3>3, <3>4
  <2> QED BY <2>1, <2>2
<1>8. k # 1
  BY <1>5, <1>7
<1>9. ~StartsWith(c, it_stack')
  <2>1. StartsWith(c, it_stack') => k - 1 =< Len(c) /\ \A n \in 1 .. k - 1 : c[n] = it_stack[n]
    BY <1>4 DEF StartsWith
  <2> QED BY <1>7, <2>1
<1>10. it_stack' # <<>>
  <2>1. 1 \in DOMAIN it_stack' /\ DOMAIN <<>> = {}
    BY <1>3, <1>4, <1>8
  <2> QED BY <2>1
<1> QED BY <1>1, <1>6, <1>9, <1>10 DEF Ahead

\* The completed layout is what the stack has, and a choice.
LEMMA CompletedChoice ==
  ASSUME IInv, Complete
  PROVE  Append(layout_groups, Top) = it_stack /\ IsChoice(it_stack) /\ it_stack # <<>>
<1>1. pc = "try" /\ it_stack # <<>>
  BY DEF Complete, CanPush, IInv, StackToTry
<1>2. /\ Len(it_stack) \in Nat \ {0} /\ DOMAIN it_stack = 1 .. Len(it_stack)
      /\ Top = it_stack[Len(it_stack)]
      /\ DOMAIN layout_groups = 1 .. Len(it_stack) - 1
      /\ \A n \in 1 .. Len(it_stack) - 1 : layout_groups[n] = it_stack[n]
  BY <1>1, StackFacts
<1>3. it_stack \in Seq(Position) /\ layout_groups \in Seq(Position) /\ Top \in Position
  BY <1>1, Trying DEF IInv, Types
<1>4. PICK k, d : k = Len(it_stack) /\ d = Append(layout_groups, Top)
  OBVIOUS
<1>5. Len(layout_groups) = k - 1 /\ k \in Nat \ {0}
  BY <1>1, <1>4, Trying
<1>6. d \in Seq(Position) /\ Len(d) = k /\ d[k] = Top
      /\ \A n \in 1 .. k - 1 : d[n] = layout_groups[n]
  BY <1>3, <1>4, <1>5
<1>7. \A n \in 1 .. k : d[n] = it_stack[n]
  BY <1>2, <1>4, <1>5, <1>6
<1>8. d = it_stack
  BY <1>3, <1>4, <1>5, <1>6, <1>7
<1>9. PairwiseDisjoint(it_stack) /\ AllLabels(it_stack) = Label
  BY <1>4, <1>8, CompletedLayout DEF IsLayout
<1>10. \A m \in 1 .. Len(it_stack) - 1 : it_stack[m] < it_stack[m + 1]
  <2> SUFFICES ASSUME NEW m \in 1 .. k - 1 PROVE it_stack[m] < it_stack[m + 1]
    BY <1>4
  <2>1. m \in 1 .. k /\ m + 1 \in 1 .. k /\ m < m + 1
    BY <1>5
  <2> QED BY <1>2, <1>4, <2>1 DEF IInv, BuilderMatchesStack
<1> QED BY <1>1, <1>3, <1>4, <1>8, <1>9, <1>10 DEF IsChoice

\* The layout that is recorded is the first of its seed; the search goes on
\* with the next one.
LEMMA CompleteSearch ==
  ASSUME IInv, SearchInv, Complete, groups' = groups
  PROVE  SearchInv'
<1>1. /\ groups \in GroupLists /\ Append(layout_groups, Top) = it_stack
      /\ IsChoice(it_stack) /\ it_stack # <<>> /\ IsSequence(layouts)
      /\ pc = "try" /\ pc' = "advance" /\ layout_groups' = <<>> /\ it_stack' = <<it_stack[1]>>
  BY CompletedChoice DEF IInv, Types, LayoutsSequence, IsSequence, Complete, CanPush
<1>2. PICK start \in Uninitialized, n \in 0 .. Len(layouts) :
        layouts' = SubSeq(layouts, 1, n)
                     \o <<[groups |-> it_stack, cost |-> CostOf(it_stack, start)]>>
                     \o SubSeq(layouts, n + 1, Len(layouts))
  BY <1>1, Zenon DEF Complete
<1>3. PICK new : /\ new = [groups |-> it_stack, cost |-> CostOf(it_stack, start)]
                 /\ new.groups = it_stack
  <2>1. [groups |-> it_stack, cost |-> CostOf(it_stack, start)].groups = it_stack
    OBVIOUS
  <2> QED BY <2>1
<1>4. Len(layouts) \in Nat /\ DOMAIN layouts = 1 .. Len(layouts) /\ n \in Nat /\ n =< Len(layouts)
  BY <1>1, <1>2 DEF IsSequence
<1>5. /\ DOMAIN layouts' = 1 .. Len(layouts) + 1
      /\ \A m \in 1 .. n : layouts'[m] = layouts[m]
      /\ layouts'[n + 1] = new
      /\ \A m \in n + 2 .. Len(layouts) + 1 : layouts'[m] = layouts[m - 1]
  <2>1. layouts' = InsertedAt(layouts, n, new)
    BY <1>2, <1>3, Zenon DEF InsertedAt
  <2> QED BY <1>1, <1>4, <2>1, InsertedElements
<1> DEFINE Old(m) == IF m \in 1 .. n THEN m ELSE m - 1
<1>6. ASSUME NEW m \in DOMAIN layouts', m # n + 1
      PROVE  Old(m) \in DOMAIN layouts /\ layouts'[m] = layouts[Old(m)]
  BY <1>4, <1>5, <1>6
<1>7. \A l, m \in DOMAIN layouts' : l # n + 1 /\ m # n + 1 /\ Old(l) = Old(m) => l = m
  BY <1>4, <1>5
<1> HIDE DEF Old
<1>8. \A m \in DOMAIN layouts : \E l \in DOMAIN layouts' : layouts'[l] = layouts[m]
  <2> SUFFICES ASSUME NEW m \in DOMAIN layouts
               PROVE  \E l \in DOMAIN layouts' : layouts'[l] = layouts[m]
    OBVIOUS
  <2>1. CASE m =< n
    BY <1>4, <1>5, <2>1
  <2>2. CASE m > n
    <3>1. m + 1 \in n + 2 .. Len(layouts) + 1 /\ m + 1 \in DOMAIN layouts' /\ (m + 1) - 1 = m
      BY <1>4, <1>5, <2>2
    <3> QED BY <1>5, <3>1
  <2> QED BY <1>4, <2>1, <2>2
<1>9. n + 1 \in DOMAIN layouts' /\ layouts'[n + 1].groups = it_stack
  BY <1>3, <1>4, <1>5
<1>10. PICK seed : seed = it_stack[1]
  OBVIOUS
<1>11. \A m \in DOMAIN layouts : LedBy(m) < seed
  BY <1>1, <1>10 DEF SearchInv, SeedsPassed
<1>12. seed \in Int
  <2>1. Len(it_stack) \in Nat \ {0} /\ \A m \in 1 .. Len(it_stack) : it_stack[m] \in 1 .. Len(groups)
    BY <1>1, StackFacts
  <2>2. 1 \in 1 .. Len(it_stack)
    BY <2>1
  <2> QED BY <1>10, <2>1, <2>2
<1>13. \A m \in DOMAIN layouts : LedBy(m) # seed
  <2>1. \A m \in DOMAIN layouts : IsChoice(layouts[m].groups)
    BY DEF SearchInv, FirstOfAll
  <2>2. \A m \in DOMAIN layouts : LedBy(m) \in Int
    <3> SUFFICES ASSUME NEW m \in DOMAIN layouts PROVE LedBy(m) \in Int
      OBVIOUS
    <3>1. PICK c : c = layouts[m].groups
      OBVIOUS
    <3>2. Len(c) \in Nat \ {0} /\ \A l \in 1 .. Len(c) : c[l] \in 1 .. Len(groups)
      BY <1>1, <2>1, <3>1, ChoiceFacts
    <3>3. 1 \in 1 .. Len(c)
      BY <3>2
    <3> QED BY <3>1, <3>2, <3>3 DEF LedBy
  <2> QED BY <1>11, <1>12, <2>2
<1>14. \A m \in DOMAIN layouts' : \/ m = n + 1 /\ LedBy(m)' = seed
                                  \/ m # n + 1 /\ LedBy(m)' = LedBy(Old(m)) /\ Old(m) \in DOMAIN layouts
  BY <1>6, <1>9, <1>10 DEF LedBy
<1>15. RoomLeft'
  BY <1>1 DEF RoomLeft
<1>16. SeedsPassed'
  <2>1. it_stack'[1] = seed /\ Len(it_stack') = 1
    BY <1>1, <1>10
  <2> QED BY <1>1, <1>11, <1>14, <2>1 DEF SeedsPassed
<1>17. OneEach'
  <2> SUFFICES ASSUME NEW l \in DOMAIN layouts', NEW m \in DOMAIN layouts', LedBy(l)' = LedBy(m)'
               PROVE  l = m
    BY DEF OneEach
  <2> QED BY <1>7, <1>13, <1>14 DEF SearchInv, OneEach
<1>18. FirstOfAll'
  <2>1. ASSUME NEW m \in DOMAIN layouts', m # n + 1
        PROVE  /\ IsChoice(layouts'[m].groups)
               /\ \A c : Certain(c) /\ c[1] = layouts'[m].groups[1] =>
                           layouts'[m].groups = c \/ Precedes(layouts'[m].groups, c)
    BY <1>6, <2>1 DEF SearchInv, FirstOfAll, LedBy
  <2>2. ASSUME NEW c, Certain(c), c[1] = seed
        PROVE  it_stack = c \/ Precedes(it_stack, c)
    <3>1. Ahead(c)
      BY <1>1, <1>13, <2>2 DEF SearchInv, NonePassed, HasLayout
    <3>2. IsChoice(c) /\ c \in Seq(Position) /\ it_stack \in Seq(Position)
      BY <1>1, <2>2 DEF Certain, IsChoice
    <3>3. Precedes(it_stack, c) \/ StartsWith(c, it_stack) \/ StartsWith(it_stack, c)
      BY <1>1, <3>1, <3>2, Comparable DEF Ahead
    <3> QED BY <1>1, <3>2, <3>3, NoLongerChoice
  <2>3. ASSUME NEW m \in DOMAIN layouts'
        PROVE  /\ IsChoice(layouts'[m].groups)
               /\ \A c : Certain(c) /\ c[1] = layouts'[m].groups[1] =>
                           layouts'[m].groups = c \/ Precedes(layouts'[m].groups, c)
    <3>1. CASE m = n + 1
      BY <1>1, <1>9, <1>10, <2>2, <3>1
    <3> QED BY <2>1, <3>1
  <2>4. \A c : (IsChoice(c)' <=> IsChoice(c)) /\ (Certain(c)' <=> Certain(c))
    BY SameChoices
  <2>5. ASSUME NEW m \in DOMAIN layouts'
        PROVE  /\ IsChoice(layouts[m].groups)'
               /\ \A c : Certain(c)' /\ c[1] = LedBy(m)' =>
                           layouts'[m].groups = c \/ Precedes(layouts'[m].groups, c)
    <3>1. PICK d : d = layouts'[m].groups
      OBVIOUS
    <3>2. IsChoice(d)' => IsChoice(layouts[m].groups)'
      BY <3>1 DEF IsChoice, PairwiseDisjoint, AllLabels
    <3> QED BY <2>3, <2>4, <3>1, <3>2 DEF LedBy
  <2> QED BY <2>5 DEF FirstOfAll
<1>19. NonePassed'
  <2>1. ASSUME NEW c, Certain(c)
        PROVE  HasLayout(c[1])' \/ Ahead(c)'
    <3>1. CASE c[1] = seed
      BY <1>9, <1>10, <1>14, <3>1 DEF HasLayout
    <3>2. CASE HasLayout(c[1])
      <4>1. PICK m \in DOMAIN layouts : LedBy(m) = c[1]
        BY <3>2 DEF HasLayout
      <4>2. PICK l \in DOMAIN layouts' : layouts'[l] = layouts[m]
        BY <1>8
      <4> QED BY <4>1, <4>2 DEF HasLayout, LedBy
    <3>3. CASE c[1] # seed /\ Ahead(c)
      <4>1. /\ Len(c) \in Nat \ {0} /\ DOMAIN c = 1 .. Len(c)
            /\ \A m \in 1 .. Len(c) : c[m] \in 1 .. Len(groups)
        BY <1>1, <2>1, ChoiceFacts DEF Certain
      <4>2. 1 \in DOMAIN c /\ c[1] \in Int /\ 1 \in DOMAIN it_stack
        <5>1. Len(it_stack) \in Nat \ {0} /\ DOMAIN it_stack = 1 .. Len(it_stack)
          BY <1>1, StackFacts
        <5> QED BY <4>1, <5>1
      <4>3. ~(c[1] < seed)
        BY <1>10, <3>3, <4>2 DEF Ahead, Precedes
      <4>4. PICK s : s = it_stack' /\ s = <<seed>>
        BY <1>1, <1>10
      <4>5. DOMAIN s = {1} /\ s[1] = seed /\ s # <<>>
        BY <4>4
      <4>6. ~Precedes(c, s) /\ ~StartsWith(c, s)
        BY <3>3, <4>3, <4>5 DEF Precedes, StartsWith
      <4> QED BY <4>4, <4>5, <4>6 DEF Ahead
    <3> QED BY <1>1, <2>1, <3>1, <3>2, <3>3 DEF SearchInv, NonePassed
  <2>2. \A c : Certain(c)' <=> Certain(c)
    BY SameChoices
  <2> QED BY <2>1, <2>2 DEF NonePassed
<1> QED BY <1>15, <1>16, <1>17, <1>18, <1>19 DEF SearchInv
\* A step that finds no layout.
LEMMA SameFirst ==
  ASSUME FirstOfAll, groups' = groups, layouts' = layouts
  PROVE  FirstOfAll'
<1>1. \A c : (IsChoice(c)' <=> IsChoice(c)) /\ (Certain(c)' <=> Certain(c))
  BY SameChoices
<1>2. ASSUME NEW m \in DOMAIN layouts
      PROVE  IsChoice(layouts[m].groups)' <=> IsChoice(layouts[m].groups)
  <2>1. PICK d : d = layouts[m].groups
    OBVIOUS
  <2>2. IsChoice(d)' <=> IsChoice(layouts[m].groups)'
    BY <2>1 DEF IsChoice, PairwiseDisjoint, AllLabels
  <2> QED BY <1>1, <2>1, <2>2
<1>3. \A m : LedBy(m)' = LedBy(m)
  BY DEF LedBy
<1> QED BY <1>1, <1>2, <1>3 DEF FirstOfAll

LEMMA SameFound ==
  ASSUME SearchInv, groups' = groups, layouts' = layouts, pc # "done",
         \A c : Certain(c) /\ Ahead(c) => Ahead(c)'
  PROVE  OneEach' /\ FirstOfAll' /\ NonePassed'
<1>1. \A c : Certain(c)' <=> Certain(c)
  BY SameChoices
<1>2. OneEach' = OneEach /\ \A x : HasLayout(x)' = HasLayout(x)
  BY DEF OneEach, LedBy, HasLayout
<1>3. NonePassed'
  BY <1>1, <1>2 DEF SearchInv, NonePassed
<1> QED BY <1>2, <1>3, SameFirst DEF SearchInv

LEMMA AttemptSearch ==
  ASSUME IInv, SearchInv, Refuse \/ TooCostly \/ LastGroup, groups' = groups
  PROVE  SearchInv'
<1>1. /\ pc = "try" /\ it_stack' = it_stack /\ layouts' = layouts /\ layout_groups' = layout_groups
      /\ layout_labels' = layout_labels
  BY PushPop DEF Refuse, TooCostly, LastGroup, CanPush, Acceptable
<1>2. OneEach' /\ FirstOfAll' /\ NonePassed'
  BY <1>1, AttemptPassesNone, SameFound
<1>3. RoomLeft' /\ SeedsPassed'
  BY <1>1 DEF SearchInv, RoomLeft, SeedsPassed, LedBy
<1> QED BY <1>2, <1>3 DEF SearchInv

LEMMA DescendSearch ==
  ASSUME IInv, SearchInv, Descend, groups' = groups
  PROVE  SearchInv'
<1>1. /\ pc = "try" /\ pc' = "try" /\ layouts' = layouts /\ it_stack # <<>>
      /\ it_stack' = Append(it_stack, Top + 1)
      /\ layout_labels' = layout_labels \cup LabelsAt(Top)
      /\ Cardinality(layout_labels \cup LabelsAt(Top)) # final_size
  BY DEF Descend, Acceptable, CanPush, IInv, StackToTry
<1>2. OneEach' /\ FirstOfAll' /\ NonePassed'
  BY <1>1, DescendPassesNone, SameFound
<1>3. RoomLeft'
  BY <1>1 DEF RoomLeft, final_size
<1>4. it_stack'[1] = it_stack[1]
  <2>1. it_stack \in Seq(Position) /\ Len(it_stack) \in Nat \ {0} /\ Top \in Position
    BY <1>1, Trying DEF IInv, Types
  <2>2. 1 \in 1 .. Len(it_stack)
    BY <2>1
  <2>3. \A x : \A n \in 1 .. Len(it_stack) : Append(it_stack, x)[n] = it_stack[n]
    BY <2>1
  <2> QED BY <1>1, <2>2, <2>3
<1>5. SeedsPassed'
  BY <1>1, <1>4 DEF SearchInv, SeedsPassed, LedBy
<1> QED BY <1>2, <1>3, <1>5 DEF SearchInv

LEMMA NextGroupSearch ==
  ASSUME IInv, SearchInv, NextGroup, groups' = groups
  PROVE  SearchInv'
<1>1. /\ pc = "advance" /\ pc' = "try" /\ layouts' = layouts /\ it_stack # <<>>
      /\ it_stack' = [it_stack EXCEPT ![Len(it_stack)] = Top + 1]
      /\ layout_groups' = layout_groups /\ layout_labels' = layout_labels
  BY DEF NextGroup
<1>2. OneEach' /\ FirstOfAll' /\ NonePassed'
  BY <1>1, NextGroupPassesNone, SameFound
<1>3. RoomLeft'
  BY <1>1 DEF SearchInv, RoomLeft
<1>4. PICK k : k = Len(it_stack)
  OBVIOUS
<1>5. /\ k \in Nat \ {0} /\ DOMAIN it_stack = 1 .. k /\ Top = it_stack[k]
      /\ \A n \in 1 .. k : it_stack[n] \in 1 .. Len(groups)
  BY <1>1, <1>4, StackFacts
<1>6. 1 \in 1 .. k /\ it_stack[1] \in Int
  BY <1>5
<1>7. it_stack'[1] = IF k = 1 THEN it_stack[1] + 1 ELSE it_stack[1]
  BY <1>1, <1>4, <1>5, <1>6
<1>8. ASSUME NEW m \in DOMAIN layouts
      PROVE  LedBy(m) < it_stack'[1]
  <2>1. LedBy(m) < it_stack[1] \/ (LedBy(m) = it_stack[1] /\ k = 1)
    BY <1>1, <1>4 DEF SearchInv, SeedsPassed
  <2>2. LedBy(m) \in Int
    <3>1. PICK c : c = layouts[m].groups
      OBVIOUS
    <3>2. IsChoice(c) /\ groups \in GroupLists
      BY <3>1 DEF SearchInv, FirstOfAll, IInv, Types
    <3>3. Len(c) \in Nat \ {0} /\ \A l \in 1 .. Len(c) : c[l] \in 1 .. Len(groups)
      BY <3>2, ChoiceFacts
    <3>4. 1 \in 1 .. Len(c)
      BY <3>3
    <3> QED BY <3>1, <3>3, <3>4 DEF LedBy
  <2> QED BY <1>6, <1>7, <2>1, <2>2
<1>9. SeedsPassed'
  BY <1>1, <1>8 DEF SeedsPassed, LedBy
<1> QED BY <1>2, <1>3, <1>9 DEF SearchInv

LEMMA TypesOfAll == IInv => TypeOK
<1> SUFFICES ASSUME IInv PROVE TypeOK
  OBVIOUS
<1>1. /\ layout_groups \in Seq(Position) /\ groups \in GroupLists
      /\ layout_labels = AllLabels(layout_groups)
      /\ layout_size = Cardinality(layout_labels)
  BY DEF IInv, Types, BuilderMatchesStack
<1>2. \A n \in DOMAIN layout_groups : LabelsAt(layout_groups[n]) \subseteq Label
  <2>1. \A n \in DOMAIN layout_groups : layout_groups[n] \in Position
    BY <1>1
  <2> QED BY <1>1, <2>1, GroupsFacts
<1>3. layout_labels \in SUBSET Label
  BY <1>1, <1>2 DEF AllLabels
<1>4. layout_size \in 0 .. final_size
  BY <1>1, <1>3, LabelSets
<1> QED BY <1>3, <1>4 DEF TypeOK, IInv, Types, LayoutsComplete, IsLayout

LEMMA PopLevelSearch ==
  ASSUME IInv, SearchInv, PopLevel, groups' = groups
  PROVE  SearchInv'
<1>1. /\ pc = "advance" /\ pc' = "advance" /\ layouts' = layouts /\ it_stack # <<>>
      /\ it_stack' = Front(it_stack) /\ layout_labels' \subseteq layout_labels
      /\ layout_groups' = layout_groups \/ layout_groups' = Front(layout_groups)
  BY DEF PopLevel
<1>2. OneEach' /\ FirstOfAll' /\ NonePassed'
  BY <1>1, PopLevelPassesNone, SameFound DEF SearchInv
<1>3. RoomLeft'
  <2>1. layout_groups' # <<>> => layout_groups # <<>>
    <3>1. Front(<<>>) = <<>>
      BY DEF Front
    <3> QED BY <1>1, <3>1
  <2>2. layout_labels \subseteq Label
    <3>1. IInv => TypeOK
      BY TypesOfAll
    <3> QED BY <3>1 DEF TypeOK
  <2> QED BY <1>1, <2>1, <2>2 DEF SearchInv, RoomLeft
<1>4. PICK k : k = Len(it_stack)
  OBVIOUS
<1>5. k \in Nat \ {0} /\ it_stack \in Seq(Position)
  BY <1>1, <1>4, StackFacts DEF IInv, Types
<1>6. Len(it_stack') = k - 1 /\ (k # 1 => it_stack'[1] = it_stack[1]) /\ (k = 1 => it_stack' = <<>>)
  BY <1>1, <1>4, <1>5 DEF Front
<1>7. SeedsPassed'
  BY <1>1, <1>4, <1>6 DEF SearchInv, SeedsPassed, LedBy
<1> QED BY <1>2, <1>3, <1>7 DEF SearchInv

LEMMA ReturnSearch ==
  ASSUME IInv, SearchInv, Return, groups' = groups
  PROVE  SearchInv'
<1>1. /\ it_stack' = <<>> /\ pc' = "done"
      /\ layout_groups' = layout_groups /\ layout_labels' = layout_labels
  BY DEF Return
<1>2. PICK kept : kept = IF Len(layouts) > MaxLayouts THEN MaxLayouts ELSE Len(layouts)
  OBVIOUS
<1>3. layouts \in Seq({layouts[n] : n \in DOMAIN layouts}) /\ kept \in 0 .. Len(layouts)
  BY <1>2, MaxLayoutsAssumption DEF IInv, Types, LayoutsSequence
<1>4. /\ DOMAIN layouts' \subseteq DOMAIN layouts
      /\ \A n \in DOMAIN layouts' : layouts'[n] = layouts[n]
  BY <1>2, <1>3 DEF Return
<1>5. RoomLeft' /\ SeedsPassed' /\ NonePassed'
  BY <1>1 DEF SearchInv, RoomLeft, SeedsPassed, NonePassed
<1>6. OneEach'
  BY <1>4 DEF SearchInv, OneEach, LedBy
<1>7. FirstOfAll'
  <2>1. \A c : (IsChoice(c)' <=> IsChoice(c)) /\ (Certain(c)' <=> Certain(c))
    BY SameChoices
  <2>2. ASSUME NEW m \in DOMAIN layouts'
        PROVE  IsChoice(layouts[m].groups)'
    <3>1. PICK d : d = layouts[m].groups /\ d = layouts'[m].groups
      BY <1>4, <2>2
    <3>2. IsChoice(d)'
      BY <1>4, <2>1, <2>2, <3>1 DEF SearchInv, FirstOfAll
    <3> QED BY <3>1, <3>2 DEF IsChoice, PairwiseDisjoint, AllLabels
  <2> QED BY <1>4, <2>1, <2>2 DEF SearchInv, FirstOfAll, LedBy
<1> QED BY <1>5, <1>6, <1>7 DEF SearchInv

LEMMA InitSearch == Init => SearchInv
<1> SUFFICES ASSUME Init PROVE SearchInv
  OBVIOUS
<1>1. RoomLeft /\ SeedsPassed /\ OneEach /\ FirstOfAll
  BY DEF Init, RoomLeft, SeedsPassed, OneEach, FirstOfAll
<1>2. ASSUME NEW c, Certain(c) PROVE Ahead(c)
  <2>1. groups \in GroupLists /\ it_stack = <<1>> /\ pc = "try"
    BY DEF Init
  <2>2. /\ Len(c) \in Nat \ {0} /\ DOMAIN c = 1 .. Len(c)
        /\ \A m \in 1 .. Len(c) : c[m] \in 1 .. Len(groups)
    BY <1>2, <2>1, ChoiceFacts DEF Certain
  <2>3. ~Precedes(c, <<1>>)
    BY <2>2 DEF Precedes
  <2> QED BY <2>1, <2>3 DEF Ahead
<1> QED BY <1>1, <1>2 DEF SearchInv, NonePassed

LEMMA NextSearch == IInv /\ SearchInv /\ [Next]_vars => SearchInv'
<1> SUFFICES ASSUME IInv, SearchInv, [Next]_vars PROVE SearchInv'
  OBVIOUS
<1>1. CASE UNCHANGED vars
  <2>1. /\ groups' = groups /\ layouts' = layouts /\ pc' = pc /\ it_stack' = it_stack
        /\ layout_groups' = layout_groups /\ layout_labels' = layout_labels
    BY <1>1 DEF vars
  <2>2. RoomLeft' /\ SeedsPassed'
    BY <2>1 DEF SearchInv, RoomLeft, SeedsPassed, LedBy
  <2>3. \A c : Ahead(c) => Ahead(c)'
    BY <2>1 DEF Ahead
  <2>4. CASE pc # "done"
    BY <2>1, <2>2, <2>3, <2>4, SameFound DEF SearchInv
  <2>5. CASE pc = "done"
    <3>1. OneEach' /\ NonePassed'
      BY <2>1, <2>5 DEF SearchInv, OneEach, NonePassed, LedBy
    <3>2. FirstOfAll'
      BY <2>1, SameFirst DEF SearchInv
    <3> QED BY <2>2, <3>1, <3>2 DEF SearchInv
  <2> QED BY <2>4, <2>5
<1>2. CASE Next
  <2>1. groups' = groups
    BY <1>2 DEF Next
  <2> QED
    BY <1>2, <2>1, AttemptSearch, CompleteSearch, DescendSearch, NextGroupSearch,
       PopLevelSearch, ReturnSearch DEF Next, Step
<1> QED BY <1>1, <1>2

LEMMA SearchInvariant == Spec => []SearchInv
BY InitSearch, NextSearch, InvariantIInv, PTL DEF Spec
-----------------------------------------------------------------------------
\* Whatever the groups and their costs, the builder follows the stack: Pop never
\* meets an empty builder, and labels and size are those of the groups in it.
THEOREM BuilderCorrect == Spec => []BuilderMatchesStack
<1>1. IInv => BuilderMatchesStack
  BY DEF IInv
<1> QED BY <1>1, InvariantIInv, PTL

\* The variables have their types.
THEOREM TypeCorrect == Spec => []TypeOK
BY TypesOfAll, InvariantIInv, PTL

\* Every layout that BuildLayout records and returns has every rectangle of the
\* page in exactly one of its groups, whatever CalculateLayoutCost accumulates.
THEOREM LayoutsCorrect == Spec => []LayoutsArePartitions
<1>1. IInv => LayoutsArePartitions
  BY DEF IInv, LayoutsComplete, IsLayout, LayoutsArePartitions
<1> QED BY <1>1, InvariantIInv, PTL

\* The layouts kept are in the order of their costs, whatever the accumulator
\* started from: of those cut off at the end none is cheaper than one returned.
THEOREM CheapestFirstCorrect == Spec => []CheapestFirst
<1>1. OrderInv => CheapestFirst
  BY DEF OrderInv
<1> QED BY <1>1, OrderInvariant, PTL

\* The depth-first search, with its explicit stack and its early way out of a
\* seed, finds for every group the first layout it leads that can be reached
\* within the cost, and one if there is one: nothing is lost by refusing the
\* groups that leave less room than the smallest one takes.
THEOREM FirstOfEachSeedCorrect == Spec => []FirstOfEachSeed
<1>1. IInv /\ SearchInv => FirstOfEachSeed
  <2> SUFFICES ASSUME IInv, SearchInv, SearchOver, NEW seed \in Position
               PROVE  LET found   == {n \in DOMAIN layouts : layouts[n].groups[1] = seed}
                          led     == {c \in AllLayouts : c[1] = seed}
                          certain == {c \in led : \A start \in Uninitialized : Affordable(c, start)}
                      IN  /\ \A m, n \in found : m = n
                          /\ certain # {} => found # {}
                          /\ \A n \in found :
                               /\ layouts[n].groups \in led
                               /\ \A c \in certain :
                                    layouts[n].groups = c \/ Precedes(layouts[n].groups, c)
    BY DEF FirstOfEachSeed
  <2>1. groups \in GroupLists /\ it_stack = <<>> /\ pc # "done"
    BY DEF IInv, Types, SearchOver
  <2>2. \A c : c \in AllLayouts <=> IsChoice(c)
    BY <2>1, LayoutsAreChoices
  <2>3. \A c : IsChoice(c) /\ (\A start \in Uninitialized : Affordable(c, start)) <=> Certain(c)
    BY DEF Certain
  <2>4. \A c : Certain(c) => HasLayout(c[1])
    BY <2>1 DEF SearchInv, NonePassed, Ahead
  <2>5. \A m, n \in DOMAIN layouts : LedBy(m) = seed /\ LedBy(n) = seed => m = n
    BY DEF SearchInv, OneEach
  <2>6. \A n \in DOMAIN layouts :
          /\ IsChoice(layouts[n].groups)
          /\ \A c : Certain(c) /\ c[1] = LedBy(n) =>
                      layouts[n].groups = c \/ Precedes(layouts[n].groups, c)
    BY DEF SearchInv, FirstOfAll
  <2> QED BY <2>2, <2>3, <2>4, <2>5, <2>6 DEF HasLayout, LedBy
<1> QED BY <1>1, InvariantIInv, SearchInvariant, PTL
=============================================================================
