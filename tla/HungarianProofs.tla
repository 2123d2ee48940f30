--------------------------- MODULE HungarianProofs ---------------------------
(***************************************************************************)
(* hungarian_solve never fails its own doublecheck, and what it returns is *)
(* a cheapest assignment: proofs for matrices of any size with any costs.  *)
(* One lemma for each part of HungarianInv says that every step keeps it;  *)
(* RestStays and RestAfterNewZero say what the steps do to the potentials, *)
(* which all of them rest on.                                              *)
(***************************************************************************)
EXTENDS Hungarian, DataTheorems

\* The matrix is square and not empty.
LEMMA Size == ASSUME Types PROVE /\ m \in Nat \ {0} /\ Row = Col /\ IsFiniteSet(Row) /\ Cardinality(Row) = m
BY FS_Interval DEF Types, Row, Col

\* It keeps its size.
LEMMA SameSize == ASSUME UNCHANGED problem PROVE m' = m /\ Row' = Row /\ Col' = Col
BY DEF m, Row, Col

\* HungarianInv holds when the function is called.
LEMMA InitInv == Init => HungarianInv
<1> SUFFICES ASSUME Init PROVE HungarianInv
  OBVIOUS
<1>1. m \in Nat \ {0}
  BY ProblemsAssumption DEF Init, m, hungarian_imax
<1>2. Expanded(problem) \in [Row -> [Col -> Int]]
  <2>1. problem \in Problems
    BY DEF Init
  <2>2. \A i \in Row, j \in Col : i < problem.rows /\ j < problem.cols => problem.cost[i][j] \in Int
    BY SMTT(30), <1>1, <2>1, ProblemsAssumption DEF Row, Col
  <2>3. Expanded(problem) = [i \in Row |-> [j \in Col |->
          IF i < problem.rows /\ j < problem.cols THEN problem.cost[i][j] ELSE 0]]
    BY DEF Expanded, m, Row, Col
  <2> QED BY <2>2, <2>3
<1>3. cost \in [Row -> [Col -> Int]]
  <2>1. PICK max_cost \in {0} \cup {Expanded(problem)[r][c] : r \in Row, c \in Col} :
          cost = hungarian_init(problem, max_cost)
    BY DEF Init
  <2>2. max_cost \in Int
    BY <1>2
  <2>3. cost = IF problem.mode = Maximize
               THEN [i \in Row |-> [j \in Col |-> max_cost - Expanded(problem)[i][j]]]
               ELSE Expanded(problem)
    BY <2>1 DEF hungarian_init, Row, Col, m
  <2> QED BY <1>2, <2>2, <2>3
<1>4. Types
  BY <1>1, <1>3 DEF Init, Types, PC, Row, Col, INF
<1>5. Feasible /\ Tight /\ Mates /\ Counted
  BY <1>1 DEF Init, Feasible, Tight, Mates, Counted, Solving
<1>6. Forest
  BY <1>1 DEF Init, Forest, Injective, Roots
<1> QED BY <1>4, <1>5, <1>6 DEF HungarianInv


\* What the types say of the indices.
LEMMA Ranges ==
  ASSUME Types
  PROVE  /\ m \in Nat /\ m >= 1 /\ q \in Nat /\ k \in Nat /\ l \in Nat /\ s \in Int
         /\ q =< Len(unchosen_row) /\ k =< m /\ l =< m
         /\ Len(unchosen_row) \in Nat /\ DOMAIN unchosen_row = 1 .. Len(unchosen_row)
         /\ \A h \in DOMAIN unchosen_row : unchosen_row[h] \in Row
         /\ \A r \in Row : r \in Nat /\ r < m
         /\ \A c \in Col : c \in Nat /\ c < m
         /\ \A r \in Row, c \in Col : Del(r, c) \in Int
<1>1. /\ m \in Nat /\ m >= 1 /\ q \in Nat /\ k \in Nat /\ l \in Nat /\ s \in Int
      /\ q =< Len(unchosen_row) /\ k =< m /\ l =< m
      /\ Len(unchosen_row) \in Nat
  BY DEF Types
<1>2. \A r \in Row, c \in Col : Del(r, c) \in Int
  BY DEF Types, Del
<1>3. unchosen_row \in Seq(Row)
  BY DEF Types
<1>4. /\ \A r \in Row : r \in Nat /\ r < m
      /\ \A c \in Col : c \in Nat /\ c < m
  BY <1>1 DEF Row, Col
<1> QED BY <1>1, <1>2, <1>3, <1>4

\* There are at most as many rows without a column as rows.
LEMMA UnmatchedSize ==
  ASSUME Types
  PROVE  /\ Unmatched \subseteq Row /\ IsFiniteSet(Unmatched)
         /\ Cardinality(Unmatched) \in 0 .. m
<1>1. Unmatched \subseteq Row
  BY DEF Unmatched
<1> QED BY <1>1, Size, FS_Subset, FS_CardinalityType

\* No step leaves a type.
LEMMA TypesStay ==
  ASSUME HungarianInv, Next
  PROVE  Types'
<1>1. Types /\ UNCHANGED problem
  BY DEF HungarianInv, Next, SubtractMinimum, MinimaSubtracted, MatchRow, RowsMatched, SkipColumn,
         Tighten, Grow, BreakThrough, NextNode, NewZero, RaiseColumn, NearColumn, ReachNew,
         BreakThroughNew, ZeroIntroduced, RematchOn, RematchLast, CollectRow, NextStage, Return
<1>2. m' = m /\ Row' = Row /\ Col' = Col
  BY <1>1, SameSize
<1>3. CASE SubtractMinimum
  <2>1. PICK least \in {cost[r][l] : r \in Row} :
          cost' = [r \in Row |-> [cost[r] EXCEPT ![l] = @ - least]]
    BY <1>3 DEF SubtractMinimum
  <2>2. /\ UNCHANGED <<pc, problem, matching, row_dec, col_inc, forest, q, k, s>>
        /\ l' = l + 1 /\ l < m
    BY <1>3 DEF SubtractMinimum
  <2>3. l \in Col
    BY <1>1, <2>2, Ranges DEF Col
  <2>4. least \in Int
    BY <1>1, <2>3 DEF Types
  <2>5. cost' \in [Row -> [Col -> Int]]
    BY <1>1, <2>1, <2>3, <2>4 DEF Types
  <2>6. l' \in 0 .. m
    BY <1>1, <2>2, Ranges
  <2> QED BY <1>1, <1>2, <2>2, <2>5, <2>6 DEF Types, forest, matching
<1>4. CASE MinimaSubtracted \/ SkipColumn \/ BreakThrough \/ NextNode \/ ZeroIntroduced \/ NextStage
  <2>1. /\ UNCHANGED <<matching, potentials, forest, s>>
        /\ pc' \in PC /\ k' \in 0 .. m /\ l' \in 0 .. m /\ q' \in 0 .. Len(unchosen_row)
    <3>1. CASE MinimaSubtracted
      BY <1>1, <3>1 DEF MinimaSubtracted, Types, PC
    <3>2. CASE SkipColumn
      BY <1>1, <3>2, Ranges DEF SkipColumn, Scanning, Types
    <3>3. CASE BreakThrough
      <4>1. q + 1 \in DOMAIN unchosen_row
        BY <1>1, <3>3, Ranges DEF BreakThrough, Scanning
      <4>2. k' \in 0 .. m
        BY <1>1, <3>3, <4>1, Ranges DEF BreakThrough, Node
      <4> QED BY <1>1, <3>3, <4>2 DEF BreakThrough, Types, PC
    <3>4. CASE NextNode
      BY <1>1, <3>4, Ranges DEF NextNode, Types
    <3>5. CASE ZeroIntroduced
      BY <1>1, <3>5, Ranges DEF ZeroIntroduced, Types, PC
    <3>6. CASE NextStage
      BY <1>1, <3>6 DEF NextStage, Types, PC
    <3> QED BY <1>4, <3>1, <3>2, <3>3, <3>4, <3>5, <3>6
  <2> QED BY <1>1, <1>2, <2>1 DEF Types, matching, potentials, forest
<1>5. CASE MatchRow
  <2>1. k \in Row /\ k' \in 0 .. m
    BY <1>1, <1>5, Ranges DEF MatchRow, Row
  <2>2. PICK least \in {cost[k][c] : c \in Col} :
          LET free == {c \in Col : cost[k][c] = least /\ row_mate[c] < 0}
          IN  /\ row_dec' = [row_dec EXCEPT ![k] = least]
              /\ \/ \E c \in free : /\ col_mate' = [col_mate EXCEPT ![k] = c]
                                    /\ row_mate' = [row_mate EXCEPT ![c] = k]
                                    /\ UNCHANGED unchosen_row
                 \/ /\ col_mate' = [col_mate EXCEPT ![k] = -1]
                    /\ unchosen_row' = Append(unchosen_row, k)
                    /\ UNCHANGED row_mate
    BY <1>5 DEF MatchRow
  <2>3. least \in Int
    BY <1>1, <2>1 DEF Types
  <2>4. row_dec' \in [Row -> Int]
    BY <1>1, <2>2, <2>3 DEF Types
  <2>5. /\ col_mate' \in [Row -> Col \cup {-1}] /\ row_mate' \in [Col -> Row \cup {-1}]
        /\ unchosen_row' \in Seq(Row) /\ Len(unchosen_row') \in Nat
        /\ Len(unchosen_row') >= Len(unchosen_row)
    <3>1. unchosen_row \in Seq(Row) /\ Len(unchosen_row) \in Nat
      BY <1>1 DEF Types
    <3>2. CASE \E c \in Col : /\ col_mate' = [col_mate EXCEPT ![k] = c]
                              /\ row_mate' = [row_mate EXCEPT ![c] = k]
                              /\ UNCHANGED unchosen_row
      BY SMTT(30), <1>1, <2>1, <3>1, <3>2 DEF Types
    <3>3. CASE /\ col_mate' = [col_mate EXCEPT ![k] = -1]
               /\ unchosen_row' = Append(unchosen_row, k)
               /\ UNCHANGED row_mate
      BY <1>1, <2>1, <3>1, <3>3 DEF Types
    <3> QED BY <2>2, <3>2, <3>3
  <2>6. q' \in 0 .. Len(unchosen_row')
    BY <1>1, <1>5, <2>5, Ranges DEF MatchRow
  <2> QED BY <1>1, <1>2, <1>5, <2>1, <2>4, <2>5, <2>6 DEF MatchRow, Types
<1>6. CASE RowsMatched
  <2>1. unmatched' \in 0 .. m
    BY <1>1, <1>6, UnmatchedSize DEF RowsMatched, HungarianInv, Counted
  <2>2. q' \in 0 .. Len(unchosen_row) /\ l' \in 0 .. m /\ pc' \in PC
    BY <1>1, <1>6, Ranges DEF RowsMatched, PC
  <2> QED BY <1>1, <1>2, <1>6, <2>1, <2>2 DEF RowsMatched, Types, potentials, forest
<1>7. CASE Tighten
  <2>1. q + 1 \in DOMAIN unchosen_row /\ l \in Col
    BY <1>1, <1>7, Ranges DEF Tighten, Scanning, Col
  <2>2. Node \in Row
    BY <1>1, <2>1, Ranges DEF Node
  <2>3. Rest(Node, l) >= 0 /\ Rest(Node, l) = Del(Node, l) + 0
    BY <1>7, <2>1, <2>2 DEF Tighten, Scanning, HungarianInv, Feasible, Solving, Rest, Behind
  <2>4. Del(Node, l) \in Nat
    BY <1>1, <2>1, <2>2, <2>3, Ranges
  <2>5. l' \in 0 .. m
    BY <1>1, <1>7, Ranges DEF Tighten, Scanning
  <2> QED BY <1>1, <1>2, <1>7, <2>1, <2>2, <2>4, <2>5 DEF Tighten, Types, matching, potentials
<1>8. CASE Grow \/ ReachNew
  <2>1. l \in Col /\ l' \in 0 .. m
    BY <1>1, <1>8, Ranges DEF Grow, ReachNew, Scanning, Covering, Col
  <2>2. row_mate[l] \in Row
    BY <1>1, <1>8, <2>1 DEF Grow, ReachNew, Types
  <2>3. PICK row \in Row : Reach(row)
    <3>1. CASE Grow
      <4>1. q + 1 \in DOMAIN unchosen_row
        BY <1>1, <3>1, Ranges DEF Grow, Scanning
      <4> QED BY <1>1, <3>1, <4>1, Ranges DEF Grow, Node
    <3>2. CASE ReachNew
      BY <1>1, <2>1, <3>2 DEF ReachNew, Types
    <3> QED BY <1>8, <3>1, <3>2
  <2>4. /\ slack' \in [Col -> Nat \cup {INF}] /\ parent_row' \in [Col -> Row \cup {-1}]
        /\ unchosen_row' \in Seq(Row) /\ Len(unchosen_row') = Len(unchosen_row) + 1
    <3>1. unchosen_row \in Seq(Row)
      BY <1>1 DEF Types
    <3>2. slack' = [slack EXCEPT ![l] = 0] /\ slack' \in [Col -> Nat \cup {INF}]
      BY <1>1, <2>3 DEF Reach, Types
    <3>3. parent_row' \in [Col -> Row \cup {-1}]
      BY <1>1, <2>3 DEF Reach, Types
    <3> QED BY <2>2, <2>3, <3>1, <3>2, <3>3 DEF Reach
  <2>5. UNCHANGED <<pc, matching, potentials, slack_row, q, k, s>>
    BY <1>8 DEF Grow, ReachNew
  <2>6. q \in 0 .. Len(unchosen_row')
    BY <1>1, <2>4, Ranges
  <2> QED BY <1>1, <1>2, <2>1, <2>4, <2>5, <2>6 DEF Types, matching, potentials
<1>9. CASE NewZero
  <2>1. s' \in Int
    BY <1>1, <1>9 DEF NewZero, Types, INF
  <2>2. row_dec' \in [Row -> Int]
    BY <1>1, <1>9, <2>1 DEF NewZero, Types
  <2>3. l' \in 0 .. m /\ pc' \in PC
    BY <1>1, <1>9, Ranges DEF NewZero, PC
  <2> QED BY <1>1, <1>2, <1>9, <2>1, <2>2, <2>3 DEF NewZero, Types, matching, forest
<1>10. CASE RaiseColumn \/ NearColumn
  <2>1. l \in Col /\ l' \in 0 .. m
    BY <1>1, <1>10, Ranges DEF RaiseColumn, NearColumn, Covering, Col
  <2>2. CASE RaiseColumn
    <3>1. col_inc' \in [Col -> Int]
      BY <1>1, <2>1, <2>2 DEF RaiseColumn, Types
    <3> QED BY <1>1, <1>2, <2>1, <2>2, <3>1 DEF RaiseColumn, Types, matching, forest
  <2>3. CASE NearColumn
    <3>1. Behind(l) /\ SlackIsNearest(l)
      BY <1>1, <2>1, <2>3, Ranges DEF NearColumn, Covering, Behind, HungarianInv, Forest, Growing
    <3>2. slack[l] \in Nat /\ slack[l] >= s
      BY <1>1, <2>1, <2>3, <3>1 DEF NearColumn, SlackIsNearest, Types
    <3>3. slack' \in [Col -> Nat \cup {INF}]
      <4>1. slack[l] - s \in Nat
        BY <1>1, <3>2, Ranges
      <4> QED BY <1>1, <2>1, <2>3, <4>1 DEF NearColumn, Types
    <3> QED BY <1>1, <1>2, <2>1, <2>3, <3>3 DEF NearColumn, Types, matching, potentials
  <2> QED BY <1>10, <2>2, <2>3
<1>11. CASE BreakThroughNew
  <2>1. l \in Col
    BY <1>1, <1>11, Ranges DEF BreakThroughNew, Covering, Col
  <2>2. /\ slack' \in [Col -> Nat \cup {INF}] /\ col_inc' \in [Col -> Int]
        /\ k' \in 0 .. m /\ pc' \in PC
    <3>1. slack_row[l] \in Row
      BY <1>1, <2>1 DEF Types
    <3>2. k' \in 0 .. m
      BY <1>1, <1>11, <3>1, Ranges DEF BreakThroughNew
    <3>3. col_inc' \in [Col -> Int]
      BY <1>1, <1>11 DEF BreakThroughNew, RaisedBehind, Types
    <3>4. slack' \in [Col -> Nat \cup {INF}]
      BY <1>1, <1>11 DEF BreakThroughNew, Types
    <3> QED BY <1>11, <3>2, <3>3, <3>4 DEF BreakThroughNew, PC
  <2> QED BY <1>1, <1>2, <1>11, <2>2 DEF BreakThroughNew, Types, matching
<1>12. CASE RematchOn
  <2>1. k \in Row /\ l \in Col /\ col_mate[k] \in Col
    BY <1>1, <1>12 DEF RematchOn, HungarianInv, Forest, Path, Types
  <2>2. parent_row[col_mate[k]] \in Row
    <3>1. PICK i \in DOMAIN unchosen_row : unchosen_row[i] = k /\ \A h \in 1 .. i : Rooted(h)
      BY <1>12 DEF RematchOn, HungarianInv, Forest, Path
    <3>2. Rooted(i) /\ col_mate[k] # -1
      BY <1>1, <1>12, <2>1, <3>1, Ranges DEF RematchOn
    <3>3. PICK g \in 1 .. i - 1 : unchosen_row[g] = parent_row[col_mate[k]]
      BY <3>1, <3>2 DEF Rooted
    <3> QED BY <1>1, <3>1, <3>3, Ranges
  <2>3. /\ col_mate' \in [Row -> Col \cup {-1}] /\ row_mate' \in [Col -> Row \cup {-1}]
    BY <1>1, <1>12, <2>1 DEF RematchOn, Rematched, Types
  <2>4. k' \in 0 .. m /\ l' \in 0 .. m
    BY SMTT(30), <1>1, <1>12, <2>1, <2>2, Ranges DEF RematchOn
  <2> QED BY <1>1, <1>2, <1>12, <2>3, <2>4 DEF RematchOn, Types, potentials, forest
<1>13. CASE RematchLast
  <2>1. k \in Row /\ l \in Col
    BY <1>1, <1>13 DEF RematchLast, HungarianInv, Forest, Path, Types
  <2>2. /\ col_mate' \in [Row -> Col \cup {-1}] /\ row_mate' \in [Col -> Row \cup {-1}]
    BY <1>1, <1>13, <2>1 DEF RematchLast, Rematched, Types
  <2>3. unmatched' \in 0 .. m
    <3>1. k \in Unmatched /\ unmatched = Cardinality(Unmatched)
      <4>1. col_mate[k] = -1
        <5>1. col_mate[k] \in Col \cup {-1}
          BY <1>1, <2>1 DEF Types
        <5>2. col_mate[k] < 0
          BY <1>13 DEF RematchLast
        <5> QED BY <1>1, <5>1, <5>2, Ranges
      <4> QED BY <1>13, <2>1, <4>1 DEF RematchLast, Unmatched, HungarianInv, Counted, Solving
    <3>2. unmatched # 0
      BY <1>1, <3>1, UnmatchedSize, FS_EmptySet
    <3> QED BY <1>1, <1>13, <3>2 DEF RematchLast, Types
  <2>4. /\ unchosen_row' \in Seq(Row) /\ Len(unchosen_row') = 0 /\ q' = 0
        /\ k' \in 0 .. m /\ l' \in 0 .. m /\ pc' \in PC
    BY <1>1, <1>13, Ranges DEF RematchLast, PC
  <2>5. slack' \in [Col -> Nat \cup {INF}] /\ parent_row' \in [Col -> Row \cup {-1}]
    BY <1>13 DEF RematchLast
  <2> QED BY <1>1, <1>2, <1>13, <2>2, <2>3, <2>4, <2>5 DEF RematchLast, Types, potentials
<1>14. CASE CollectRow
  <2>1. k \in Row /\ k' \in 0 .. m
    BY <1>1, <1>14, Ranges DEF CollectRow, Row
  <2>2. /\ unchosen_row' \in Seq(Row) /\ Len(unchosen_row') \in Nat
        /\ Len(unchosen_row') >= Len(unchosen_row)
    BY <1>1, <1>14, <2>1 DEF CollectRow, Types
  <2>3. q' \in 0 .. Len(unchosen_row')
    BY <1>1, <1>14, <2>2, Ranges DEF CollectRow
  <2> QED BY <1>1, <1>2, <1>14, <2>1, <2>2, <2>3 DEF CollectRow, Types, matching, potentials
<1>15. CASE Return
  <2>1. cost' \in [Row -> [Col -> Int]]
    BY <1>1, <1>15, Ranges DEF Return
  <2>2. pc' \in PC
    BY <1>15 DEF Return, PC
  <2> QED BY <1>1, <1>2, <1>15, <2>1, <2>2 DEF Return, Types, matching, forest
<1> QED
  BY <1>3, <1>4, <1>5, <1>6, <1>7, <1>8, <1>9, <1>10, <1>11, <1>12, <1>13, <1>14, <1>15 DEF Next

-----------------------------------------------------------------------------
(* Potentials *)

Steps == SkipColumn \/ Tighten \/ Grow \/ BreakThrough \/ NextNode
Covers == RaiseColumn \/ NearColumn \/ ReachNew \/ ZeroIntroduced \/ BreakThroughNew
Rematches == RematchOn \/ RematchLast \/ CollectRow \/ NextStage

\* But for a new zero no step changes what the cells will cost.
LEMMA RestStays ==
  ASSUME HungarianInv, Steps \/ Covers \/ Rematches, NEW r \in Row, NEW c \in Col
  PROVE  Rest(r, c)' = Rest(r, c)
<1>1. /\ Types /\ Del(r, c) \in Int /\ c \in Nat /\ c < m /\ l \in Nat /\ s \in Int
  BY Ranges DEF HungarianInv
<1>2. CASE Steps \/ Rematches
  BY <1>2 DEF Steps, Rematches, Rest, Del, Behind, SkipColumn, Tighten, Grow, BreakThrough, NextNode,
     Scanning, RematchOn, RematchLast, CollectRow, NextStage, potentials
<1>3. CASE ZeroIntroduced
  BY <1>1, <1>3 DEF ZeroIntroduced, Rest, Del, Behind, potentials
<1>4. CASE RaiseColumn
  <2>1. cost' = cost /\ row_dec' = row_dec /\ slack' = slack /\ s' = s /\ pc' = pc /\ pc = "cover"
        /\ slack[l] = 0 /\ l' = l + 1 /\ col_inc' = [col_inc EXCEPT ![l] = @ + s]
    BY <1>4 DEF RaiseColumn, Covering, forest
  <2>2. cost[r][c] \in Int /\ row_dec[r] \in Int /\ col_inc[c] \in Int
    BY <1>1 DEF Types
  <2>3. CASE c = l
    <3>1. Del(r, c)' = Del(r, c) + s
      BY <1>1, <2>1, <2>2, <2>3 DEF Del, Types
    <3> QED BY <1>1, <2>1, <2>3, <3>1 DEF Rest, Behind
  <2>4. CASE c # l
    <3>1. Del(r, c)' = Del(r, c)
      BY <1>1, <2>1, <2>4 DEF Del, Types
    <3> QED BY <1>1, <2>1, <2>4, <3>1 DEF Rest, Behind
  <2> QED BY <2>3, <2>4
<1>5. CASE NearColumn \/ ReachNew
  <2>1. cost' = cost /\ row_dec' = row_dec /\ col_inc' = col_inc /\ s' = s /\ pc' = pc /\ pc = "cover"
        /\ slack[l] # 0 /\ l' = l + 1 /\ \A d \in Col : d # l => slack'[d] = slack[d]
    BY <1>1, <1>5 DEF NearColumn, ReachNew, Reach, Covering, potentials, Types
  <2> QED BY <1>1, <2>1 DEF Rest, Del, Behind
<1>6. CASE BreakThroughNew
  <2>1. cost' = cost /\ row_dec' = row_dec /\ pc' = "rematch" /\ pc = "cover" /\ slack[l] # 0
        /\ col_inc'[c] = IF c > l /\ slack[c] = 0 THEN col_inc[c] + s ELSE col_inc[c]
    BY <1>6 DEF BreakThroughNew, Covering, RaisedBehind
  <2>2. cost[r][c] \in Int /\ row_dec[r] \in Int /\ col_inc[c] \in Int
    BY <1>1 DEF Types
  <2> QED BY <1>1, <2>1, <2>2 DEF Rest, Del, Behind
<1> QED BY <1>2, <1>3, <1>4, <1>5, <1>6 DEF Covers

\* What a new zero does: the rows of the forest come nearer to the columns
\* outside it.
LEMMA RestAfterNewZero ==
  ASSUME HungarianInv, NewZero, NEW r \in Row, NEW c \in Col
  PROVE  /\ slack[c] = 0 /\ r \in Range(unchosen_row) => Rest(r, c)' = Rest(r, c)
         /\ slack[c] = 0 /\ r \notin Range(unchosen_row) => Rest(r, c)' = Rest(r, c) + s'
         /\ slack[c] # 0 /\ r \in Range(unchosen_row) => Rest(r, c)' = Rest(r, c) - s'
         /\ slack[c] # 0 /\ r \notin Range(unchosen_row) => Rest(r, c)' = Rest(r, c)
<1>1. /\ Types /\ c \in Nat /\ s' \in Int
      /\ cost[r][c] \in Int /\ row_dec[r] \in Int /\ col_inc[c] \in Int
  <2>1. Types /\ c \in Nat
    BY Ranges DEF HungarianInv
  <2>2. s' \in Int
    BY <2>1 DEF NewZero, Types, INF
  <2> QED BY <2>1, <2>2 DEF Types
<1>2. /\ pc = "explore" /\ pc' = "cover" /\ l' = 0 /\ slack' = slack /\ cost' = cost
      /\ col_inc' = col_inc
      /\ row_dec'[r] = IF r \in Range(unchosen_row) THEN row_dec[r] + s' ELSE row_dec[r]
  BY DEF NewZero, forest
<1>3. Rest(r, c) = cost[r][c] - row_dec[r] + col_inc[c]
  BY <1>1, <1>2 DEF Rest, Del, Behind
<1>4. Rest(r, c)' = cost[r][c] - row_dec'[r] + col_inc[c] + (IF slack[c] = 0 THEN s' ELSE 0)
  BY <1>1, <1>2 DEF Rest, Del, Behind
<1> QED BY <1>1, <1>2, <1>3, <1>4

\* Before a new zero the forest is explored: a column outside it is as far from
\* every row of the forest as its slack says at least.
LEMMA BeforeNewZero ==
  ASSUME HungarianInv, NewZero
  PROVE  /\ s' \in Nat /\ s' >= 1
         /\ \A c \in Col : slack[c] # 0 =>
              /\ slack[c] \in Nat /\ slack[c] >= s'
              /\ \A r \in Range(unchosen_row) : Rest(r, c) >= slack[c]
         /\ \A c \in Col : slack[c] = 0 => row_mate[c] \in Range(unchosen_row)
<1>1. /\ Types /\ Growing /\ pc = "explore" /\ q = Len(unchosen_row) /\ Len(unchosen_row) >= 1
  BY DEF NewZero, HungarianInv, Forest, Growing, Types
<1>2. ASSUME NEW c \in Col, slack[c] # 0
      PROVE  /\ slack[c] \in Nat /\ \A r \in Range(unchosen_row) : Rest(r, c) >= slack[c]
  <2>1. SlackIsNearest(c) /\ DOMAIN unchosen_row = 1 .. q /\ q \in Nat /\ q >= 1
    BY <1>1, Ranges DEF Growing
  <2>2. \A i \in 1 .. q : slack[c] # INF /\ Rest(unchosen_row[i], c) >= Near(c)
    <3> TAKE i \in 1 .. q
    <3>1. unchosen_row[i] \in Row /\ i \in DOMAIN unchosen_row
      BY <1>1, <2>1, Ranges
    <3>2. Seen(i, c)
      BY DEF Seen
    <3> QED BY <1>2, <2>1, <3>1, <3>2 DEF SlackIsNearest
  <2>3. slack[c] \in Nat /\ Near(c) = slack[c]
    BY <1>1, <2>1, <2>2 DEF Types, Near, Behind
  <2> QED BY <2>1, <2>2, <2>3 DEF Range
<1>3. s' \in {slack[c] : c \in Col} \ {0, INF} /\ IsLeast(s', {slack[c] : c \in Col} \ {0, INF})
  BY DEF NewZero
<1>4. s' \in Nat /\ s' >= 1
  BY <1>1, <1>3 DEF Types
<1>5. \A c \in Col : slack[c] # 0 => slack[c] >= s'
  BY <1>2, <1>3 DEF IsLeast, INF
<1>6. \A c \in Col : slack[c] = 0 => row_mate[c] \in Range(unchosen_row)
  BY <1>1 DEF Growing, SlackIsNearest, Range
<1> QED BY <1>2, <1>4, <1>5, <1>6

\* No step makes a cell cost less than the potentials say, or a matched one more.
LEMMA FeasibleStays ==
  ASSUME HungarianInv, Next
  PROVE  Feasible' /\ Tight'
<1>1. Types /\ UNCHANGED problem
  BY DEF HungarianInv, Next, SubtractMinimum, MinimaSubtracted, MatchRow, RowsMatched, SkipColumn,
         Tighten, Grow, BreakThrough, NextNode, NewZero, RaiseColumn, NearColumn, ReachNew,
         BreakThroughNew, ZeroIntroduced, RematchOn, RematchLast, CollectRow, NextStage, Return
<1>2. m' = m /\ Row' = Row /\ Col' = Col
  BY <1>1, SameSize
<1>3. CASE SubtractMinimum \/ MinimaSubtracted
  <2>1. pc = "minima" /\ k = 0
    BY <1>3 DEF SubtractMinimum, MinimaSubtracted, HungarianInv, Forest
  <2>2. \A c \in Col : row_mate[c] = -1 /\ col_inc[c] = 0
    BY <2>1 DEF HungarianInv, Feasible
  <2>3. /\ pc' \in {"minima", "match"} /\ UNCHANGED <<row_mate, col_inc, k>>
    BY <1>3, <2>1 DEF SubtractMinimum, MinimaSubtracted, matching, potentials
  <2>4. Feasible'
    BY <1>2, <2>1, <2>2, <2>3 DEF Feasible, Solving
  <2>5. Tight'
    BY <1>1, <1>2, <2>2, <2>3, Ranges DEF Tight, Solving
  <2> QED BY <2>4, <2>5
<1>4. CASE MatchRow
  <2>1. /\ k \in Row /\ k \in Nat /\ pc = "match" /\ pc' = "match" /\ k' = k + 1
        /\ UNCHANGED <<cost, col_inc, slack, l, s>>
    BY <1>1, <1>4, Ranges DEF MatchRow, Row
  <2>2. PICK n \in Row : n = k
    BY <2>1
  <2>3. PICK least \in {cost[n][c] : c \in Col} :
          /\ \A c \in Col : least =< cost[n][c]
          /\ row_dec' = [row_dec EXCEPT ![n] = least]
          /\ \/ \E c \in Col : cost[n][c] = least /\ row_mate' = [row_mate EXCEPT ![c] = n]
             \/ UNCHANGED row_mate
    <3>1. PICK least \in {cost[k][c] : c \in Col} :
            /\ IsLeast(least, {cost[k][c] : c \in Col})
            /\ row_dec' = [row_dec EXCEPT ![k] = least]
            /\ \/ \E c \in Col : cost[k][c] = least /\ row_mate' = [row_mate EXCEPT ![c] = k]
               \/ UNCHANGED row_mate
      BY <1>4 DEF MatchRow
    <3>2. \A c \in Col : least =< cost[k][c]
      BY <3>1 DEF IsLeast
    <3> QED BY <2>2, <3>1, <3>2
  <2>4. /\ \A c \in Col : col_inc[c] = 0 /\ row_mate[c] < n
        /\ \A r \in 0 .. n - 1, c \in Col : Del(r, c) >= 0
    BY <2>1, <2>2 DEF HungarianInv, Feasible
  <2>5. \A c \in Col, r \in Row : row_mate[c] = r => Del(r, c) = 0
    <3>1. \A c \in Col, r \in Row : Rest(r, c) = Del(r, c)
      BY <1>1, <2>1, Ranges DEF Rest, Behind
    <3> QED BY <2>1, <3>1 DEF HungarianInv, Tight
  <2>6. \A r \in Row, c \in Col : r # n => Del(r, c)' = Del(r, c)
    BY <1>1, <2>1, <2>3 DEF Del, Types
  <2>7. \A c \in Col : cost[n][c] \in Int /\ Del(n, c)' = cost[n][c] - least
    BY <1>1, <2>1, <2>3, <2>4 DEF Del, Types
  <2>8. least \in Int
    BY <2>3, <2>7
  <2>9. \A c \in Col : row_mate'[c] < n + 1
    <3> TAKE c \in Col
    <3>1. row_mate'[c] = row_mate[c] \/ row_mate'[c] = n
      BY <1>1, <2>3 DEF Types
    <3>2. row_mate[c] < n /\ n \in Nat /\ row_mate[c] \in Row \cup {-1}
      BY <1>1, <2>1, <2>2, <2>4 DEF Types
    <3>3. row_mate[c] \in Int
      <4>1. \A r \in Row : r \in Int
        BY <1>1, Ranges
      <4>2. CASE row_mate[c] \in Row
        BY <4>1, <4>2
      <4>3. CASE row_mate[c] = -1
        BY <4>3
      <4> QED BY <3>2, <4>2, <4>3
    <3> QED BY <3>1, <3>2, <3>3
  <2>10. ASSUME NEW c \in Col, NEW r \in Row, row_mate'[c] = r
         PROVE  Del(r, c)' = 0
    <3>1. CASE row_mate'[c] = row_mate[c]
      <4>1. r # n
        BY <2>1, <2>2, <2>4, <2>10, <3>1
      <4> QED BY <2>5, <2>6, <2>10, <3>1, <4>1
    <3>2. CASE row_mate'[c] = n /\ cost[n][c] = least
      BY <2>7, <2>8, <2>10, <3>2
    <3> QED BY <1>1, <2>3, <3>1, <3>2 DEF Types
  <2>11. Tight'
    <3>1. \A c \in Col, r \in Row : Rest(r, c)' = Del(r, c)' + 0
      BY <2>1 DEF Rest, Behind
    <3> QED BY <1>2, <2>10, <3>1 DEF Tight
  <2>12. ASSUME NEW r \in 0 .. n, NEW c \in Col
         PROVE  Del(r, c)' >= 0
    <3>1. r \in Row
      BY <1>1, <2>1, <2>2, Ranges DEF Row
    <3>2. CASE r = n
      BY <2>3, <2>7, <2>8, <3>2
    <3>3. CASE r # n
      <4>1. r \in 0 .. n - 1
        BY <2>1, <2>2, <3>3
      <4>2. Del(r, c) >= 0
        BY <2>4, <4>1
      <4> QED BY <2>6, <3>1, <3>3, <4>2
    <3> QED BY <3>2, <3>3
  <2>13. Feasible'
    <3>1. \A r \in 0 .. k' - 1, c \in Col : Del(r, c)' >= 0
      BY <2>1, <2>2, <2>12
    <3> QED BY <1>2, <2>1, <2>2, <2>4, <2>9, <3>1 DEF Feasible, Solving
  <2> QED BY <2>11, <2>13
<1>5. CASE RowsMatched
  <2>1. /\ pc = "match" /\ k = m /\ pc' \in {"explore", "check"}
        /\ UNCHANGED <<cost, row_dec, col_inc, row_mate, slack, s>>
    BY <1>5 DEF RowsMatched, potentials, forest
  <2>2. \A r \in Row, c \in Col : Del(r, c) >= 0 /\ Del(r, c) \in Int
    BY <1>1, <2>1, Ranges DEF HungarianInv, Feasible, Row
  <2>3. \A c \in Col, r \in Row : Rest(r, c)' = Rest(r, c) /\ Rest(r, c) = Del(r, c)
    BY <1>1, <2>1, <2>2 DEF Rest, Behind, Del
  <2>4. Feasible'
    BY <1>2, <2>1, <2>2, <2>3 DEF Feasible
  <2>5. Tight'
    BY <1>2, <2>1, <2>3 DEF Tight, HungarianInv
  <2> QED BY <2>4, <2>5
<1>6. CASE Steps \/ Covers \/ Rematches
  <2>1. Solving /\ Solving' /\ pc' # "minima" /\ pc' # "match"
    BY <1>6 DEF Solving, Steps, Covers, Rematches, SkipColumn, Tighten, Grow, BreakThrough, NextNode,
       Scanning, RaiseColumn, NearColumn, ReachNew, ZeroIntroduced, BreakThroughNew, Covering,
       RematchOn, RematchLast, CollectRow, NextStage
  <2>2. Feasible'
    BY <1>2, <1>6, <2>1, RestStays DEF HungarianInv, Feasible
  <2>3. ASSUME NEW c \in Col, NEW r \in Row, row_mate'[c] = r
        PROVE  Rest(r, c) = 0
    <3>1. CASE RematchOn \/ RematchLast
      <4>1. pc = "rematch" /\ k \in Row /\ l \in Col /\ Del(k, l) = 0
            /\ row_mate' = [row_mate EXCEPT ![l] = k]
        BY <3>1 DEF RematchOn, RematchLast, Rematched, HungarianInv, Forest, Path
      <4>2. CASE c = l
        <5>1. r = k
          BY <1>1, <2>3, <4>1, <4>2 DEF Types
        <5> QED BY <4>1, <4>2, <5>1 DEF Rest, Behind
      <4>3. CASE c # l
        <5>1. row_mate[c] = r
          BY <1>1, <2>3, <4>1, <4>3 DEF Types
        <5> QED BY <2>1, <5>1 DEF HungarianInv, Tight
      <4> QED BY <4>2, <4>3
    <3>2. CASE ~(RematchOn \/ RematchLast)
      <4>1. row_mate' = row_mate
        BY <1>6, <3>2 DEF Steps, Covers, Rematches, SkipColumn, Tighten, Grow, BreakThrough, NextNode,
           RaiseColumn, NearColumn, ReachNew, ZeroIntroduced, BreakThroughNew, CollectRow, NextStage,
           matching
      <4> QED BY <2>1, <2>3, <4>1 DEF HungarianInv, Tight
    <3> QED BY <3>1, <3>2
  <2>4. Tight'
    BY <1>2, <1>6, <2>3, RestStays DEF Tight
  <2> QED BY <2>2, <2>4
<1>7. CASE NewZero
  <2>1. pc = "explore" /\ pc' = "cover" /\ row_mate' = row_mate
    BY <1>7 DEF NewZero, matching
  <2>2. /\ \A r \in Row, c \in Col : Rest(r, c) >= 0 /\ Rest(r, c) \in Int
        /\ \A c \in Col, r \in Row : row_mate[c] = r => Rest(r, c) = 0
    BY <1>1, <2>1, Ranges DEF HungarianInv, Feasible, Tight, Solving, Rest, Behind
  <2>3. /\ s' \in Nat
        /\ \A r \in Row, c \in Col : slack[c] # 0 =>
             /\ slack[c] \in Nat /\ slack[c] >= s'
             /\ r \in Range(unchosen_row) => Rest(r, c) >= slack[c]
        /\ \A c \in Col : slack[c] = 0 => row_mate[c] \in Range(unchosen_row)
    BY <1>7, BeforeNewZero
  <2>4. ASSUME NEW r \in Row, NEW c \in Col
        PROVE  Rest(r, c)' >= 0
    BY <1>7, <2>2, <2>3, RestAfterNewZero
  <2>5. ASSUME NEW c \in Col, NEW r \in Row, row_mate[c] = r
        PROVE  Rest(r, c)' = 0
    <3>1. Rest(r, c) = 0
      BY <2>2, <2>5
    <3>2. CASE slack[c] = 0
      <4>1. r \in Range(unchosen_row)
        BY <2>3, <2>5, <3>2
      <4> QED BY <1>7, <3>1, <3>2, <4>1, RestAfterNewZero
    <3>3. CASE slack[c] # 0
      <4>1. r \notin Range(unchosen_row)
        <5> SUFFICES ASSUME r \in Range(unchosen_row) PROVE FALSE
          OBVIOUS
        <5>1. PICK h \in DOMAIN unchosen_row : unchosen_row[h] = r
          BY DEF Range
        <5>2. col_mate[r] = c
          BY <1>1, <2>1, <2>5, Ranges DEF HungarianInv, Mates
        <5>3. Rooted(h)
          BY <2>1 DEF HungarianInv, Forest, Growing
        <5>4. c # -1
          BY <1>1, Ranges
        <5> QED BY <3>3, <5>1, <5>2, <5>3, <5>4 DEF Rooted
      <4> QED BY <1>7, <3>1, <3>3, <4>1, RestAfterNewZero
    <3> QED BY <3>2, <3>3
  <2>6. Feasible'
    BY <1>2, <2>1, <2>4 DEF Feasible
  <2>7. Tight'
    BY <1>2, <2>1, <2>5 DEF Tight
  <2> QED BY <2>6, <2>7
<1>8. CASE Return
  BY <1>8 DEF Return, Feasible, Tight, Solving
<1> QED BY <1>3, <1>4, <1>5, <1>6, <1>7, <1>8 DEF Next, Steps, Covers, Rematches
-----------------------------------------------------------------------------
(* The matching *)

\* Steps that match and give up nothing.
LEMMA MatchingStays ==
  ASSUME HungarianInv, Solving, pc # "rematch", UNCHANGED <<problem, matching>>,
         pc' = "rematch" => row_mate[l'] = -1 /\ l' \in Col,
         pc' # "minima", pc' # "match"
  PROVE  Mates' /\ Counted'
<1>1. /\ Types /\ row_mate' = row_mate /\ col_mate' = col_mate /\ unmatched' = unmatched
      /\ Row' = Row /\ Col' = Col
  BY SameSize DEF HungarianInv, matching
<1>2. /\ \A r \in Row : col_mate[r] >= 0 => row_mate[col_mate[r]] = r
      /\ \A c \in Col : row_mate[c] >= 0 => col_mate[row_mate[c]] = c
  BY DEF HungarianInv, Mates, Solving
<1>3. ASSUME pc' = "rematch", NEW r \in Row
      PROVE  col_mate[r] # l'
  <2>1. l' >= 0 /\ r # -1
    BY <1>1, <1>3, Ranges
  <2> QED BY <1>2, <1>3, <2>1
<1>4. Mates'
  BY <1>1, <1>2, <1>3 DEF Mates
<1>5. Unmatched' = Unmatched
  BY <1>1 DEF Unmatched, Solving
<1> QED BY <1>1, <1>4, <1>5 DEF Counted, HungarianInv

\* Every step keeps the two maps of the matching inverse and the count right.
LEMMA MatesStay ==
  ASSUME HungarianInv, Next
  PROVE  Mates' /\ Counted'
<1>1. Types /\ UNCHANGED problem
  BY DEF HungarianInv, Next, SubtractMinimum, MinimaSubtracted, MatchRow, RowsMatched, SkipColumn,
         Tighten, Grow, BreakThrough, NextNode, NewZero, RaiseColumn, NearColumn, ReachNew,
         BreakThroughNew, ZeroIntroduced, RematchOn, RematchLast, CollectRow, NextStage, Return
<1>2. m' = m /\ Row' = Row /\ Col' = Col
  BY <1>1, SameSize
<1>3. CASE SubtractMinimum
  BY <1>3 DEF SubtractMinimum, Mates, Counted, Solving
<1>4. CASE MinimaSubtracted
  <2>1. /\ k = 0 /\ k' = 0 /\ pc = "minima" /\ pc' = "match" /\ row_mate' = row_mate
        /\ unchosen_row' = <<>>
    BY <1>4 DEF MinimaSubtracted, HungarianInv, Forest, forest, matching
  <2>2. \A c \in Col : row_mate[c] = -1
    BY <2>1 DEF HungarianInv, Feasible
  <2>3. \A r \in Row : ~(r < 0)
    BY <1>1, Ranges
  <2>4. Mates'
    BY <1>2, <2>1, <2>2, <2>3 DEF Mates
  <2>5. Unmatched' = {}
    BY <1>2, <2>1, <2>3 DEF Unmatched
  <2> QED BY <2>1, <2>4, <2>5, FS_EmptySet DEF Counted, Solving
<1>5. CASE MatchRow
  <2>1. PICK n \in Row : n = k
    BY <1>1, <1>5, Ranges DEF MatchRow, Row
  <2>2. /\ pc = "match" /\ pc' = "match" /\ k' = n + 1 /\ n \in Nat
        /\ \A c \in Col : row_mate[c] < n
        /\ Len(unchosen_row) = Cardinality(Unmatched)
    BY <1>1, <1>5, <2>1, Ranges DEF MatchRow, HungarianInv, Feasible, Counted
  <2>3. /\ \A r \in Row : r < n /\ col_mate[r] >= 0 => row_mate[col_mate[r]] = r
        /\ \A c \in Col : row_mate[c] >= 0 => col_mate[row_mate[c]] = c
    BY <2>1, <2>2 DEF HungarianInv, Mates
  <2>4. \A r \in Row : r < n + 1 <=> r < n \/ r = n
    BY <1>1, <2>2, Ranges
  <2>5. ASSUME NEW c \in Col, row_mate[c] < 0,
               col_mate' = [col_mate EXCEPT ![n] = c],
               row_mate' = [row_mate EXCEPT ![c] = n], UNCHANGED unchosen_row
        PROVE  Mates' /\ Counted'
    <3>1. c # -1
      BY <1>1, Ranges
    <3>2. \A r \in Row : r < n /\ col_mate[r] >= 0 => col_mate[r] # c
      BY <1>1, <2>3, <2>5, Ranges
    <3>3. Mates'
      <4>1. \A r \in Row : r < n + 1 /\ col_mate'[r] >= 0 => row_mate'[col_mate'[r]] = r
        BY <1>1, <2>1, <2>3, <2>4, <2>5, <3>2, Ranges DEF Types
      <4>2. \A d \in Col : row_mate'[d] >= 0 => col_mate'[row_mate'[d]] = d
        <5> TAKE d \in Col
        <5> HAVE row_mate'[d] >= 0
        <5>1. CASE d = c
          BY <1>1, <2>1, <2>5, <5>1 DEF Types
        <5>2. CASE d # c
          <6>1. row_mate'[d] = row_mate[d] /\ row_mate[d] \in Row
            BY <1>1, <2>5, <5>2 DEF Types
          <6>2. row_mate[d] # n
            BY <2>2, <6>1
          <6> QED BY <1>1, <2>3, <2>5, <6>1, <6>2 DEF Types
        <5> QED BY <5>1, <5>2
      <4> QED BY <1>2, <2>2, <4>1, <4>2 DEF Mates
    <3>4. Unmatched' = Unmatched
      <4>1. /\ Unmatched = {r \in Row : r < n /\ col_mate[r] = -1}
            /\ Unmatched' = {r \in Row : r < n + 1 /\ col_mate'[r] = -1}
        BY <1>2, <2>1, <2>2 DEF Unmatched
      <4>2. \A r \in Row : col_mate'[r] = IF r = n THEN c ELSE col_mate[r]
        BY <1>1, <2>5 DEF Types
      <4>3. ~(n < n)
        BY <2>2
      <4> QED BY <2>1, <2>4, <3>1, <4>1, <4>2, <4>3
    <3> QED BY <2>2, <2>5, <3>3, <3>4 DEF Counted, Solving
  <2>6. ASSUME col_mate' = [col_mate EXCEPT ![n] = -1], UNCHANGED row_mate,
               unchosen_row' = Append(unchosen_row, n)
        PROVE  Mates' /\ Counted'
    <3>1. \A c \in Col : row_mate[c] # n
      BY <1>1, <2>2, Ranges
    <3>2. Mates'
      <4>1. \A r \in Row : r < n + 1 /\ col_mate'[r] >= 0 => row_mate'[col_mate'[r]] = r
        BY <1>1, <2>1, <2>3, <2>4, <2>6 DEF Types
      <4>2. \A d \in Col : row_mate'[d] >= 0 => col_mate'[row_mate'[d]] = d
        <5> TAKE d \in Col
        <5> HAVE row_mate'[d] >= 0
        <5>1. row_mate[d] \in Row /\ row_mate[d] # n
          BY <1>1, <2>6, <3>1 DEF Types
        <5> QED BY <1>1, <2>3, <2>6, <5>1 DEF Types
      <4> QED BY <1>2, <2>2, <4>1, <4>2 DEF Mates
    <3>3. n \notin Unmatched /\ Unmatched' = Unmatched \cup {n}
      <4>1. /\ Unmatched = {r \in Row : r < n /\ col_mate[r] = -1}
            /\ Unmatched' = {r \in Row : r < n + 1 /\ col_mate'[r] = -1}
        BY <1>2, <2>1, <2>2 DEF Unmatched
      <4>2. \A r \in Row : col_mate'[r] = IF r = n THEN -1 ELSE col_mate[r]
        BY <1>1, <2>6 DEF Types
      <4>3. ~(n < n)
        BY <2>2
      <4> QED BY <2>1, <2>4, <4>1, <4>2, <4>3
    <3>4. Cardinality(Unmatched') = Cardinality(Unmatched) + 1
      BY <1>1, <3>3, UnmatchedSize, FS_AddElement
    <3>5. Len(unchosen_row') = Len(unchosen_row) + 1
      BY <1>1, <2>6 DEF Types
    <3> QED BY <2>2, <3>2, <3>4, <3>5 DEF Counted, Solving
  <2> QED BY <1>5, <2>1, <2>5, <2>6 DEF MatchRow
<1>6. CASE RowsMatched
  <2>1. /\ pc = "match" /\ pc' \in {"explore", "check"} /\ k = m
        /\ unmatched' = Len(unchosen_row) /\ UNCHANGED <<col_mate, row_mate>>
    BY <1>6 DEF RowsMatched
  <2>2. \A r \in Row : r < k
    BY <1>1, <2>1, Ranges
  <2>3. Mates'
    BY <1>2, <2>1, <2>2 DEF Mates, HungarianInv
  <2>4. Unmatched' = Unmatched
    BY <1>2, <2>1, <2>2 DEF Unmatched
  <2> QED BY <2>1, <2>3, <2>4 DEF Counted, HungarianInv
<1>7. CASE Steps \/ Covers \/ CollectRow \/ NextStage \/ NewZero \/ Return
  <2>1. UNCHANGED matching
    BY <1>7 DEF Steps, Covers, SkipColumn, Tighten, Grow, BreakThrough, NextNode, NewZero, Return,
       RaiseColumn, NearColumn, ReachNew, ZeroIntroduced, BreakThroughNew, CollectRow, NextStage
  <2>2. /\ Solving /\ pc # "rematch" /\ pc' # "minima" /\ pc' # "match"
        /\ pc' = "rematch" => l' = l /\ row_mate[l] < 0 /\ l < m
    BY <1>7 DEF Steps, Covers, SkipColumn, Tighten, Grow, BreakThrough, NextNode, NewZero, Return,
       RaiseColumn, NearColumn, ReachNew, ZeroIntroduced, BreakThroughNew, CollectRow, NextStage,
       Scanning, Covering, Solving
  <2>3. pc' = "rematch" => l' \in Col /\ row_mate[l'] = -1
    <3> SUFFICES ASSUME pc' = "rematch" PROVE l' \in Col /\ row_mate[l'] = -1
      OBVIOUS
    <3>1. l \in Col
      BY <1>1, <2>2, Ranges DEF Col
    <3> QED BY SMTT(30), <1>1, <2>2, <3>1, Ranges DEF Types
  <2> QED BY <1>1, <2>1, <2>2, <2>3, MatchingStays
<1>8. CASE RematchOn \/ RematchLast
  <2>1. PICK n \in Row, e \in Col : n = k /\ e = l
    BY <1>8 DEF RematchOn, RematchLast, HungarianInv, Forest, Path
  <2>2. /\ pc = "rematch" /\ pc' \in {"rematch", "check", "restart"}
        /\ col_mate' = [col_mate EXCEPT ![n] = e] /\ row_mate' = [row_mate EXCEPT ![e] = n]
        /\ pc' = "rematch" => l' = col_mate[n] /\ col_mate[n] >= 0 /\ unmatched' = unmatched
        /\ pc' # "rematch" => col_mate[n] < 0 /\ unmatched' = unmatched - 1
    BY <1>8, <2>1 DEF RematchOn, RematchLast, Rematched
  <2>3. /\ \A r \in Row : col_mate[r] >= 0 => row_mate[col_mate[r]] = r
        /\ \A c \in Col : row_mate[c] >= 0 /\ c # e => col_mate[row_mate[c]] = c
        /\ \A r \in Row : col_mate[r] # e
        /\ unmatched = Cardinality(Unmatched)
    BY <2>1, <2>2 DEF HungarianInv, Mates, Counted, Solving
  <2>4. col_mate[n] \in Col \cup {-1} /\ (col_mate[n] \in Col <=> col_mate[n] >= 0) /\ e # -1
    <3>1. col_mate[n] \in Col \cup {-1}
      BY <1>1 DEF Types
    <3>2. \A c \in Col : c >= 0 /\ c # -1
      BY <1>1, Ranges
    <3> QED BY <3>1, <3>2
  <2>5. Mates'
    <3>1. \A r \in Row : col_mate'[r] >= 0 => row_mate'[col_mate'[r]] = r
      BY <1>1, <2>1, <2>2, <2>3, Ranges DEF Types
    <3>2. ASSUME NEW c \in Col, row_mate'[c] >= 0, pc' = "rematch" => c # l'
          PROVE  col_mate'[row_mate'[c]] = c
      <4>1. CASE c = e
        BY <1>1, <2>1, <2>2, <4>1 DEF Types
      <4>2. CASE c # e
        <5>1. row_mate'[c] = row_mate[c] /\ row_mate[c] \in Row /\ col_mate[row_mate[c]] = c
          BY <1>1, <2>1, <2>2, <2>3, <3>2, <4>2, Ranges DEF Types
        <5>2. row_mate[c] # n
          BY <1>1, <2>2, <2>4, <3>2, <5>1, Ranges
        <5> QED BY <1>1, <2>1, <2>2, <5>1, <5>2 DEF Types
      <4> QED BY <4>1, <4>2
    <3>3. ASSUME pc' = "rematch", NEW r \in Row
          PROVE  col_mate'[r] # l'
      BY <1>1, <2>1, <2>2, <2>3, <3>3 DEF Types
    <3> QED BY <1>2, <2>2, <3>1, <3>2, <3>3 DEF Mates
  <2>6. CASE pc' = "rematch"
    <3>1. Unmatched' = Unmatched
      BY <1>1, <1>2, <2>1, <2>2, <2>4, <2>6 DEF Unmatched, Types
    <3> QED BY <2>2, <2>3, <2>5, <2>6, <3>1 DEF Counted
  <2>7. CASE pc' # "rematch"
    <3>1. n \in Unmatched /\ Unmatched' = Unmatched \ {n}
      <4>1. /\ Unmatched = {r \in Row : col_mate[r] = -1}
            /\ Unmatched' = {r \in Row : col_mate'[r] = -1}
        BY <1>2, <2>2 DEF Unmatched
      <4>2. \A r \in Row : col_mate'[r] = IF r = n THEN e ELSE col_mate[r]
        BY <1>1, <2>2 DEF Types
      <4>3. col_mate[n] = -1
        <5>1. \A c \in Col : ~(c < 0)
          BY <1>1, Ranges
        <5> QED BY <2>2, <2>4, <2>7, <5>1
      <4> QED BY <2>1, <2>4, <4>1, <4>2, <4>3
    <3>2. Cardinality(Unmatched') = Cardinality(Unmatched) - 1
      BY <1>1, <3>1, UnmatchedSize, FS_RemoveElement
    <3> QED BY <2>2, <2>3, <2>5, <2>7, <3>2 DEF Counted
  <2> QED BY <2>6, <2>7
<1> QED BY <1>3, <1>4, <1>5, <1>6, <1>7, <1>8 DEF Next, Steps, Covers
-----------------------------------------------------------------------------
(* The forest *)

\* What Append returns, element by element.
LEMMA Appended ==
  ASSUME NEW S, NEW u \in Seq(S), NEW x \in S, NEW v, v = Append(u, x)
  PROVE  /\ Len(u) \in Nat /\ DOMAIN u = 1 .. Len(u)
         /\ Len(v) = Len(u) + 1 /\ DOMAIN v = 1 .. Len(u) + 1
         /\ \A i \in DOMAIN u : i \in DOMAIN v /\ v[i] = u[i]
         /\ v[Len(u) + 1] = x
         /\ \A i \in DOMAIN v : i \in DOMAIN u \/ i = Len(u) + 1
<1>1. /\ Len(u) \in Nat /\ DOMAIN u = 1 .. Len(u)
      /\ Len(v) = Len(u) + 1 /\ DOMAIN v = 1 .. Len(u) + 1
      /\ \A i \in 1 .. Len(u) : v[i] = u[i]
      /\ v[Len(u) + 1] = x
  OBVIOUS
<1>2. /\ \A i \in DOMAIN u : i \in DOMAIN v /\ v[i] = u[i]
      /\ \A i \in DOMAIN v : i \in DOMAIN u \/ i = Len(u) + 1
      /\ Len(u) + 1 \in DOMAIN v
  BY <1>1
<1> QED BY <1>1, <1>2

\* A row that was not in the forest goes to its end.
LEMMA StaysInjective ==
  ASSUME Types, Injective, NEW x \in Row, x \notin Range(unchosen_row),
         unchosen_row' = Append(unchosen_row, x)
  PROVE  Injective'
<1>1. unchosen_row \in Seq(Row)
  BY DEF Types
<1>2. \A i \in DOMAIN unchosen_row : unchosen_row[i] # x
  BY DEF Range
<1> QED BY <1>1, <1>2, Appended DEF Injective

\* A stage starts with its roots only.
LEMMA StageStarts ==
  ASSUME Types, UNCHANGED <<problem, col_mate, forest>>, pc' = "explore", q' = 0, l' = 0,
         unchosen_row # <<>>, \A c \in Col : slack[c] = INF,
         \A h \in DOMAIN unchosen_row : col_mate[unchosen_row[h]] = -1
  PROVE  Growing'
<1>1. /\ Row' = Row /\ Col' = Col /\ slack' = slack /\ unchosen_row' = unchosen_row
      /\ col_mate' = col_mate
  BY SameSize DEF forest
<1>2. \A h \in DOMAIN unchosen_row : Rooted(h)'
  BY <1>1 DEF Rooted
<1>3. \A i \in DOMAIN unchosen_row, c \in Col : ~Seen(i, c)' /\ ~Behind(c)'
  BY Ranges DEF Seen, Behind
<1>4. \A c \in Col : SlackIsNearest(c)'
  <2> TAKE c \in Col
  <2>1. slack'[c] = INF /\ INF # 0
    BY <1>1 DEF INF
  <2> QED BY <1>1, <1>3, <2>1 DEF SlackIsNearest
<1> QED BY <1>1, <1>2, <1>4 DEF Growing

\* What holds a row of the forest in it stays.
LEMMA RootedStays ==
  ASSUME HungarianInv, Steps \/ Covers, NEW h \in DOMAIN unchosen_row, Rooted(h),
         UNCHANGED <<problem, col_mate>>,
         \A c \in Col : slack[c] = 0 => slack'[c] = 0 /\ parent_row'[c] = parent_row[c],
         \A i \in DOMAIN unchosen_row : unchosen_row'[i] = unchosen_row[i]
  PROVE  Rooted(h)'
<1>1. Row' = Row /\ Col' = Col
  BY SameSize
<1>2. CASE col_mate[unchosen_row[h]] = -1
  BY <1>2 DEF Rooted
<1>3. CASE col_mate[unchosen_row[h]] # -1
  <2>1. PICK c \in Col, g \in 1 .. h - 1, r \in Row :
          /\ col_mate[unchosen_row[h]] = c /\ slack[c] = 0
          /\ parent_row[c] = r /\ unchosen_row[g] = r /\ Rest(r, c) = 0
    BY <1>3 DEF Rooted
  <2>2. g \in DOMAIN unchosen_row
    BY Ranges DEF HungarianInv
  <2>3. Rest(r, c)' = 0
    BY <2>1, RestStays
  <2> QED BY <1>1, <2>1, <2>2, <2>3 DEF Rooted
<1> QED BY <1>2, <1>3

\* A column that is as near as before, to rows seen before.
LEMMA NearestStays ==
  ASSUME HungarianInv, Steps \/ Covers, NEW c \in Col, SlackIsNearest(c),
         UNCHANGED <<problem, row_mate, s>>, slack'[c] = slack[c], slack_row'[c] = slack_row[c],
         \A i \in DOMAIN unchosen_row :
           i \in DOMAIN unchosen_row' /\ unchosen_row'[i] = unchosen_row[i],
         slack[c] # 0 =>
           \A i \in DOMAIN unchosen_row' : Seen(i, c)' => i \in DOMAIN unchosen_row /\ Seen(i, c),
         slack[c] # 0 => (Behind(c)' <=> Behind(c))
  PROVE  SlackIsNearest(c)'
<1>1. Row' = Row /\ Col' = Col
  BY SameSize
<1>2. \A r \in Row : Rest(r, c)' = Rest(r, c)
  BY RestStays
<1>3. CASE slack[c] = 0
  BY <1>1, <1>3 DEF SlackIsNearest
<1>4. CASE slack[c] # 0
  <2>1. Near(c)' = Near(c)
    BY <1>4 DEF Near
  <2>2. slack[c] \notin {0, INF} =>
          \E i \in DOMAIN unchosen_row', r \in Row :
            slack_row'[c] = r /\ unchosen_row'[i] = r /\ Rest(r, c)' = Near(c)'
    BY <1>2, <2>1 DEF SlackIsNearest
  <2>3. \A i \in DOMAIN unchosen_row', r \in Row :
          Seen(i, c)' /\ unchosen_row'[i] = r => slack[c] # INF /\ Rest(r, c)' >= Near(c)'
    BY <1>2, <1>4, <2>1 DEF SlackIsNearest
  <2>4. Behind(c)' => slack[c] # INF /\ slack[c] >= s
    BY <1>4 DEF SlackIsNearest
  <2> QED BY <1>1, <1>4, <2>2, <2>3, <2>4 DEF SlackIsNearest
<1> QED BY <1>3, <1>4

\* A row and its column are not in the forest, or both.
LEMMA NotInForest ==
  ASSUME HungarianInv, Growing, pc # "rematch", Solving,
         NEW c \in Col, NEW x \in Row, row_mate[c] = x, slack[c] # 0
  PROVE  x \notin Range(unchosen_row) /\ col_mate[x] = c
<1>1. Types
  BY DEF HungarianInv
<1>2. col_mate[x] = c
  BY <1>1, Ranges DEF HungarianInv, Mates, Solving
<1>3. ASSUME x \in Range(unchosen_row) PROVE FALSE
  <2>1. PICK h \in DOMAIN unchosen_row : unchosen_row[h] = x
    BY <1>3 DEF Range
  <2>2. Rooted(h) /\ c # -1
    BY <1>1, Ranges DEF Growing
  <2> QED BY <1>2, <2>1, <2>2 DEF Rooted
<1> QED BY <1>2, <1>3

\* Column l joins the forest behind a row of it, and so does the row that has it.
LEMMA Joins ==
  ASSUME HungarianInv, Grow \/ ReachNew, NEW n \in DOMAIN unchosen_row, NEW r \in Row,
         unchosen_row[n] = r, Rest(r, l) = 0, Reach(r)
  PROVE  Growing' /\ Injective'
<1>1. /\ Types /\ Growing /\ Injective /\ Solving /\ pc \in {"explore", "cover"} /\ pc' = pc
      /\ q' = q /\ s' = s /\ l' = l + 1 /\ l < m /\ q =< Len(unchosen_row)
      /\ pc = "explore" => q < Len(unchosen_row)
      /\ UNCHANGED <<problem, row_mate, col_mate, slack_row>>
  BY Ranges DEF HungarianInv, Forest, Grow, ReachNew, Scanning, Covering, Solving, matching
<1>2. l \in Col /\ slack[l] # 0 /\ row_mate[l] >= 0 /\ Row' = Row /\ Col' = Col
  BY <1>1, Ranges, SameSize DEF Grow, ReachNew, Closer, Col
<1>2e. PICK e \in Col : e = l
  BY <1>2
<1>3. PICK x \in Row : x = row_mate[l]
  BY <1>1, <1>2, Ranges DEF Types
<1>4. x \notin Range(unchosen_row) /\ col_mate[x] = l
  BY <1>1, <1>2, <1>3, NotInForest
<1>5. /\ slack' = [slack EXCEPT ![l] = 0] /\ parent_row' = [parent_row EXCEPT ![l] = r]
      /\ unchosen_row' = Append(unchosen_row, x)
  BY <1>3 DEF Reach
<1>6. unchosen_row \in Seq(Row)
  BY <1>1 DEF Types
<1> DEFINE N == Len(unchosen_row)
<1>7. /\ N \in Nat /\ DOMAIN unchosen_row = 1 .. N /\ DOMAIN unchosen_row' = 1 .. N + 1
      /\ \A i \in DOMAIN unchosen_row :
           i \in DOMAIN unchosen_row' /\ unchosen_row'[i] = unchosen_row[i]
      /\ unchosen_row'[N + 1] = x
      /\ \A i \in DOMAIN unchosen_row' : i \in DOMAIN unchosen_row \/ i = N + 1
  BY <1>5, <1>6, Appended
<1>8. Steps \/ Covers
  BY DEF Steps, Covers
<1>9. slack'[e] = 0 /\ parent_row'[e] = r /\ \A c \in Col : c # e =>
        slack'[c] = slack[c] /\ parent_row'[c] = parent_row[c]
  BY <1>1, <1>5, <1>2e DEF Types
<1>10. \A h \in DOMAIN unchosen_row' : Rooted(h)'
  <2> TAKE h \in DOMAIN unchosen_row'
  <2>1. CASE h \in DOMAIN unchosen_row
    <3>1. Rooted(h)
      BY <1>1, <2>1 DEF Growing
    <3>2. \A c \in Col : slack[c] = 0 => slack'[c] = 0 /\ parent_row'[c] = parent_row[c]
      BY <1>2, <1>9, <1>2e
    <3> QED BY <1>1, <1>7, <1>8, <2>1, <3>1, <3>2, RootedStays
  <2>2. CASE h = N + 1
    <3>1. n \in 1 .. h - 1 /\ unchosen_row'[n] = r
      BY <1>7, <2>2
    <3>2. Rest(r, e)' = 0
      BY <1>8, <1>2e, RestStays
    <3>3. col_mate'[unchosen_row'[h]] = e
      BY <1>1, <1>4, <1>7, <1>2e, <2>2
    <3> QED BY <1>2, <1>9, <3>1, <3>2, <3>3 DEF Rooted
  <2> QED BY <1>7, <2>1, <2>2
<1>11. \A c \in Col : SlackIsNearest(c)'
  <2> TAKE c \in Col
  <2>1. CASE c = e
    <3>1. N + 1 \in DOMAIN unchosen_row' /\ row_mate'[e] = unchosen_row'[N + 1]
      BY <1>1, <1>3, <1>7, <1>2e
    <3> QED BY <1>9, <2>1, <3>1 DEF SlackIsNearest
  <2>2. CASE c # e
    <3>1. SlackIsNearest(c) /\ slack'[c] = slack[c]
      BY <1>1, <1>9, <2>2 DEF Growing
    <3>2. \A i \in DOMAIN unchosen_row' : Seen(i, c)' => i \in DOMAIN unchosen_row /\ Seen(i, c)
      <4> TAKE i \in DOMAIN unchosen_row'
      <4> HAVE Seen(i, c)'
      <4>1. q \in Nat /\ l \in Nat /\ c \in Nat /\ i \in Nat
        BY <1>1, <1>7, Ranges
      <4>2. Seen(i, c)
        BY <1>1, <1>2e, <2>2, <4>1 DEF Seen
      <4>3. i # N + 1
        BY <1>1, <1>7, <4>1, <4>2 DEF Seen
      <4> QED BY <1>7, <4>2, <4>3
    <3>3. Behind(c)' <=> Behind(c)
      BY SMTT(30), <1>1, <1>2e, <2>2, Ranges DEF Behind
    <3> QED BY <1>1, <1>7, <1>8, <3>1, <3>2, <3>3, NearestStays
  <2> QED BY <2>1, <2>2
<1>12. unchosen_row' # <<>> /\ Injective'
  BY <1>1, <1>4, <1>5, <1>7, StaysInjective
<1> QED BY <1>1, <1>2, <1>10, <1>11, <1>12 DEF Growing

\* Exploring keeps the forest and the slacks, or finds a path.
LEMMA StepsGrow ==
  ASSUME HungarianInv, Steps
  PROVE  Forest'
<1>1. /\ Types /\ Growing /\ Injective /\ Solving /\ pc = "explore" /\ q =< Len(unchosen_row)
      /\ UNCHANGED <<problem, row_mate, col_mate, s, potentials>>
  BY Ranges DEF HungarianInv, Forest, Steps, SkipColumn, Tighten, Grow, BreakThrough, NextNode,
     Scanning, Solving, matching
<1>2. Row' = Row /\ Col' = Col /\ \A i, c : ~Behind(c)
  BY <1>1, SameSize DEF Behind
<1>3. DOMAIN unchosen_row = 1 .. Len(unchosen_row) /\ Len(unchosen_row) \in Nat
  BY <1>1, Ranges
<1>4. \A h \in DOMAIN unchosen_row : Rooted(h)
  BY <1>1 DEF Growing
<1>5. CASE SkipColumn \/ Tighten
  <2>1. /\ pc' = "explore" /\ q < Len(unchosen_row) /\ l < m /\ l' = l + 1 /\ q' = q
        /\ unchosen_row' = unchosen_row /\ parent_row' = parent_row
    BY <1>1, <1>5 DEF SkipColumn, Tighten, Scanning, forest
  <2>2. PICK e \in Col : e = l
    BY <1>1, <2>1, Ranges DEF Col
  <2>3. PICK n \in DOMAIN unchosen_row : n = q + 1
    BY <1>1, <2>1, Ranges
  <2>4. PICK r \in Row : r = unchosen_row[n]
    BY <1>1, Ranges
  <2>5. /\ \A c \in Col : c # e => slack'[c] = slack[c] /\ slack_row'[c] = slack_row[c]
        /\ slack[e] = 0 => slack'[e] = 0
        /\ \/ slack'[e] = slack[e] /\ slack_row'[e] = slack_row[e]
              /\ (slack[e] = 0 \/ (slack[e] # INF /\ Del(r, e) >= slack[e]))
           \/ slack'[e] = Del(r, e) /\ slack_row'[e] = r /\ Del(r, e) # 0
              /\ (slack[e] = INF \/ Del(r, e) < slack[e])
    <3>1. CASE SkipColumn
      <4>1. slack'[e] = slack[e] /\ slack_row' = slack_row /\ slack' = slack
        BY <3>1 DEF SkipColumn, forest
      <4>2. ~(slack[e] # 0 /\ (slack[e] = INF \/ Del(r, e) < slack[e]))
        BY <2>2, <2>3, <2>4, <3>1 DEF SkipColumn, Closer, Node
      <4>3. slack[e] \in Nat \cup {INF} /\ Del(r, e) \in Int
        BY <1>1, Ranges DEF Types
      <4> QED BY <4>1, <4>2, <4>3
    <3>2. CASE Tighten
      BY <1>1, <2>2, <2>3, <2>4, <3>2 DEF Tighten, Closer, Node, Types
    <3> QED BY <1>5, <3>1, <3>2
  <2>6. \A h \in DOMAIN unchosen_row : Rooted(h)'
    <3>1. \A c \in Col : slack[c] = 0 => slack'[c] = 0 /\ parent_row'[c] = parent_row[c]
      BY <2>1, <2>5
    <3> QED BY <1>1, <1>4, <2>1, <3>1, RootedStays
  <2>7. ASSUME NEW c \in Col, c # e \/ slack[e] = 0
        PROVE  SlackIsNearest(c)'
    <3>1. SlackIsNearest(c)
      BY <1>1 DEF Growing
    <3>2. CASE c # e
      <4>1. \A i \in DOMAIN unchosen_row : Seen(i, c)' => Seen(i, c)
        BY <1>1, <1>3, <2>1, <2>2, <3>2, Ranges DEF Seen
      <4>2. Behind(c)' <=> Behind(c)
        BY <1>1, <2>1 DEF Behind
      <4> QED BY <1>1, <2>1, <2>5, <3>1, <3>2, <4>1, <4>2, NearestStays
    <3>3. CASE c = e
      BY <1>1, <2>1, <2>5, <2>7, <3>1, <3>3 DEF SlackIsNearest, Behind
    <3> QED BY <3>2, <3>3
  <2>8. ASSUME slack[e] # 0
        PROVE  SlackIsNearest(e)'
    <3>1. /\ SlackIsNearest(e) /\ slack[e] \in Nat \cup {INF} /\ INF \notin Nat
          /\ \A x \in Row : Del(x, e) \in Int /\ Rest(x, e) = Del(x, e) /\ Rest(x, e)' = Del(x, e)
      <4>1. SlackIsNearest(e) /\ slack[e] \in Nat \cup {INF} /\ INF \notin Nat
        BY <1>1 DEF Growing, Types, INF
      <4>2. \A x \in Row : Del(x, e) \in Int
        BY <1>1, Ranges
      <4>3. \A x \in Row : Rest(x, e) = Del(x, e) + 0 /\ Rest(x, e)' = Del(x, e) + 0
        BY <1>1, <2>1 DEF Rest, Behind, Del, potentials
      <4> QED BY <4>1, <4>2, <4>3
    <3>2. Del(r, e) >= 0
      BY <1>1, <3>1 DEF HungarianInv, Feasible
    <3>3. slack'[e] # INF /\ slack'[e] # 0 /\ slack'[e] \in Nat /\ Near(e) = slack[e] - 0
          /\ Near(e)' = slack'[e] - 0
      BY <1>1, <2>1, <2>5, <2>8, <3>1, <3>2 DEF Near, Behind
    <3>4. \E i \in DOMAIN unchosen_row, x \in Row :
            slack_row'[e] = x /\ unchosen_row[i] = x /\ Del(x, e) = slack'[e]
      BY <2>4, <2>5, <2>8, <3>1, <3>3 DEF SlackIsNearest
    <3>5. ASSUME NEW i \in DOMAIN unchosen_row, NEW x \in Row, Seen(i, e)', unchosen_row[i] = x
          PROVE  Del(x, e) >= slack'[e]
      <4>1. Seen(i, e) \/ i = n
        BY <1>1, <1>3, <2>1, <2>2, <2>3, <3>5, Ranges DEF Seen
      <4>2. CASE i = n
        BY <2>4, <2>5, <2>8, <3>1, <3>3, <3>5, <4>2
      <4>3. CASE Seen(i, e)
        <5>1. slack[e] # INF /\ Del(x, e) >= slack[e]
          BY <2>8, <3>1, <3>3, <3>5, <4>3 DEF SlackIsNearest
        <5>2. slack[e] \in Nat /\ slack'[e] =< slack[e]
          BY <2>5, <3>1, <3>2, <5>1
        <5> QED BY <3>1, <3>3, <5>1, <5>2
      <4> QED BY <4>1, <4>2, <4>3
    <3> QED BY <1>2, <2>1, <3>1, <3>3, <3>4, <3>5 DEF SlackIsNearest, Behind
  <2> QED BY <1>1, <1>2, <2>1, <2>6, <2>7, <2>8 DEF Forest, Growing, Injective
<1>6. CASE Grow
  <2>1. /\ pc' = "explore" /\ q < Len(unchosen_row) /\ l < m /\ Reach(Node) /\ Del(Node, l) = 0
    BY <1>1, <1>6 DEF Grow, Scanning
  <2>2. PICK n \in DOMAIN unchosen_row, r \in Row : n = q + 1 /\ r = Node /\ r = unchosen_row[n]
    BY <1>1, <2>1, Ranges DEF Node
  <2>3. Rest(r, l) = 0
    BY <1>1, <2>1, <2>2 DEF Rest, Behind
  <2> QED BY <1>6, <2>1, <2>2, <2>3, Joins DEF Forest
<1>7. CASE BreakThrough
  <2>1. /\ pc' = "rematch" /\ q < Len(unchosen_row) /\ l < m /\ Del(Node, l) = 0 /\ k' = Node
        /\ UNCHANGED <<l, forest>>
    BY <1>1, <1>7 DEF BreakThrough, Scanning
  <2>2. PICK n \in DOMAIN unchosen_row, r \in Row : n = q + 1 /\ r = Node /\ r = unchosen_row[n]
    BY <1>1, <2>1, Ranges DEF Node
  <2>3. l \in Col
    BY <1>1, <2>1, Ranges DEF Col
  <2>4. \A h \in DOMAIN unchosen_row : Rooted(h)'
    BY <1>1, <1>4, <2>1, RootedStays DEF forest
  <2>5. \A h \in 1 .. n : Rooted(h)'
    BY <1>3, <2>2, <2>4
  <2>6. Path'
    BY <1>1, <1>2, <2>1, <2>2, <2>3, <2>5 DEF Path, Del, potentials, forest
  <2> QED BY <1>1, <2>1, <2>6 DEF Forest, Injective, forest
<1>8. CASE NextNode
  <2>1. pc' = "explore" /\ l = m /\ l' = 0 /\ q' = q + 1 /\ UNCHANGED forest
    BY <1>1, <1>8 DEF NextNode
  <2>2. \A h \in DOMAIN unchosen_row : Rooted(h)'
    BY <1>1, <1>4, <2>1, RootedStays DEF forest
  <2>3. \A c \in Col : SlackIsNearest(c)'
    <3> TAKE c \in Col
    <3>1. \A i \in DOMAIN unchosen_row : Seen(i, c)' => Seen(i, c)
      BY <1>1, <1>3, <2>1, Ranges DEF Seen
    <3>2. SlackIsNearest(c) /\ (Behind(c)' <=> Behind(c))
      BY <1>1, <2>1 DEF Growing, Behind
    <3> QED BY <1>1, <2>1, <3>1, <3>2, NearestStays DEF forest
  <2> QED BY <1>1, <1>2, <2>1, <2>2, <2>3 DEF Forest, Growing, Injective, forest
<1> QED BY <1>5, <1>6, <1>7, <1>8 DEF Steps

\* A new zero keeps them, as they will be when the columns have followed.
LEMMA NewZeroGrows ==
  ASSUME HungarianInv, NewZero
  PROVE  Forest'
<1>1. /\ Types /\ Growing /\ Injective /\ pc = "explore" /\ q = Len(unchosen_row) /\ pc' = "cover"
      /\ l' = 0 /\ q' = q /\ UNCHANGED <<problem, row_mate, col_mate, forest>>
  BY DEF HungarianInv, Forest, NewZero, matching
<1>2. Row' = Row /\ Col' = Col /\ DOMAIN unchosen_row = 1 .. q /\ q \in Nat
  BY <1>1, Ranges, SameSize
<1>3. /\ s' \in Nat /\ s' >= 1
      /\ \A c \in Col : slack[c] # 0 => slack[c] \in Nat /\ slack[c] >= s'
  BY BeforeNewZero
<1>4. \A r \in Range(unchosen_row), c \in Col :
        /\ r \in Row
        /\ slack[c] = 0 => Rest(r, c)' = Rest(r, c)
        /\ slack[c] # 0 => Rest(r, c)' = Rest(r, c) - s'
  <2> TAKE r \in Range(unchosen_row), c \in Col
  <2>1. r \in Row
    BY <1>1, Ranges DEF Range
  <2> QED BY <2>1, RestAfterNewZero
<1>5. \A h \in DOMAIN unchosen_row : Rooted(h)'
  <2> TAKE h \in DOMAIN unchosen_row
  <2>1. Rooted(h)
    BY <1>1 DEF Growing
  <2>2. CASE col_mate[unchosen_row[h]] = -1
    BY <1>1, <2>2 DEF Rooted, forest
  <2>3. CASE col_mate[unchosen_row[h]] # -1
    <3>1. PICK c \in Col, g \in 1 .. h - 1, r \in Row :
            /\ col_mate[unchosen_row[h]] = c /\ slack[c] = 0
            /\ parent_row[c] = r /\ unchosen_row[g] = r /\ Rest(r, c) = 0
      BY <2>1, <2>3 DEF Rooted
    <3>2. g \in DOMAIN unchosen_row
      BY <1>2
    <3>3. Rest(r, c)' = 0
      BY <1>4, <3>1, <3>2 DEF Range
    <3> QED BY <1>1, <1>2, <3>1, <3>3 DEF Rooted, forest
  <2> QED BY <2>2, <2>3
<1>6. \A c \in Col : SlackIsNearest(c)'
  <2> TAKE c \in Col
  <2>1. SlackIsNearest(c)
    BY <1>1 DEF Growing
  <2>2. CASE slack[c] = 0
    BY <1>1, <2>1, <2>2 DEF SlackIsNearest, forest
  <2>3. CASE slack[c] # 0
    <3>1. /\ slack[c] \in Nat /\ slack[c] >= s' /\ slack[c] # INF
          /\ Near(c) = slack[c] - 0 /\ Near(c)' = slack[c] - s'
      <4>1. slack[c] \in Nat /\ slack[c] >= s' /\ c \in Nat
        BY <1>1, <1>3, <2>3, Ranges
      <4>2. Behind(c)' /\ ~Behind(c)
        BY <1>1, <4>1 DEF Behind
      <4> QED BY <1>1, <4>1, <4>2 DEF Near, forest, INF
    <3>2. \E i \in DOMAIN unchosen_row, r \in Row :
            slack_row[c] = r /\ unchosen_row[i] = r /\ Rest(r, c)' = Near(c)'
      <4>1. PICK i \in DOMAIN unchosen_row, r \in Row :
              slack_row[c] = r /\ unchosen_row[i] = r /\ Rest(r, c) = Near(c)
        BY <2>1, <2>3, <3>1 DEF SlackIsNearest
      <4>2. Rest(r, c)' = Rest(r, c) - s'
        BY <1>4, <2>3, <4>1 DEF Range
      <4> QED BY <1>3, <3>1, <4>1, <4>2
    <3>3. \A i \in DOMAIN unchosen_row, r \in Row :
            Seen(i, c)' /\ unchosen_row[i] = r => Rest(r, c)' >= Near(c)'
      <4> TAKE i \in DOMAIN unchosen_row, r \in Row
      <4> HAVE Seen(i, c)' /\ unchosen_row[i] = r
      <4>1. Rest(r, c) >= slack[c] /\ Rest(r, c) \in Int
        <5>1. r \in Range(unchosen_row)
          BY DEF Range
        <5>2. Rest(r, c) = Del(r, c) + 0
          BY <1>1 DEF Rest, Behind
        <5> QED BY <1>1, <2>3, <5>1, <5>2, Ranges, BeforeNewZero
      <4>2. Rest(r, c)' = Rest(r, c) - s'
        BY <1>4, <2>3 DEF Range
      <4> QED BY <1>3, <3>1, <4>1, <4>2
    <3> QED BY <1>1, <1>2, <2>3, <3>1, <3>2, <3>3 DEF SlackIsNearest, forest
  <2> QED BY <2>2, <2>3
<1> QED BY <1>1, <1>2, <1>3, <1>5, <1>6 DEF Forest, Growing, Injective, forest

\* The columns follow one by one, or one of them ends a path.
LEMMA CoversGrow ==
  ASSUME HungarianInv, Covers
  PROVE  Forest'
<1>1. /\ Types /\ Growing /\ Injective /\ Solving /\ pc = "cover" /\ q =< Len(unchosen_row)
      /\ UNCHANGED <<problem, row_mate, col_mate, s>>
  BY Ranges DEF HungarianInv, Forest, Covers, RaiseColumn, NearColumn, ReachNew, ZeroIntroduced,
     BreakThroughNew, Covering, Solving, matching
<1>2. Row' = Row /\ Col' = Col
  BY <1>1, SameSize
<1>3. DOMAIN unchosen_row = 1 .. Len(unchosen_row) /\ Len(unchosen_row) \in Nat
  BY <1>1, Ranges
<1>4. s >= 1 /\ \A h \in DOMAIN unchosen_row : Rooted(h)
  BY <1>1 DEF Growing
<1>5. CASE RaiseColumn \/ NearColumn
  <2>1. /\ pc' = "cover" /\ l < m /\ l' = l + 1 /\ q' = q
        /\ unchosen_row' = unchosen_row /\ parent_row' = parent_row /\ slack_row' = slack_row
    BY <1>1, <1>5 DEF RaiseColumn, NearColumn, Covering, forest
  <2>2. PICK e \in Col : e = l
    BY <1>1, <2>1, Ranges DEF Col
  <2>3. /\ \A c \in Col : c # e => slack'[c] = slack[c]
        /\ \/ slack[e] = 0 /\ slack'[e] = 0
           \/ slack[e] # 0 /\ slack[e] # s /\ slack'[e] = slack[e] - s
    BY <1>1, <1>5, <2>2 DEF RaiseColumn, NearColumn, forest, Types
  <2>4. \A h \in DOMAIN unchosen_row : Rooted(h)'
    <3>1. \A c \in Col : slack[c] = 0 => slack'[c] = 0 /\ parent_row'[c] = parent_row[c]
      BY <2>1, <2>3
    <3> QED BY <1>1, <1>4, <2>1, <3>1, RootedStays
  <2>5. ASSUME NEW c \in Col, c # e \/ slack[e] = 0
        PROVE  SlackIsNearest(c)'
    <3>1. SlackIsNearest(c) /\ slack'[c] = slack[c]
      BY <1>1, <2>3, <2>5 DEF Growing
    <3>2. \A i \in DOMAIN unchosen_row : Seen(i, c)' => Seen(i, c)
      BY <1>1, <2>1 DEF Seen
    <3>3. slack[c] # 0 => (Behind(c)' <=> Behind(c))
      BY <1>1, <2>1, <2>2, <2>5, Ranges DEF Behind
    <3> QED BY <1>1, <2>1, <3>1, <3>2, <3>3, NearestStays
  <2>6. ASSUME slack[e] # 0
        PROVE  SlackIsNearest(e)'
    <3>1. /\ SlackIsNearest(e) /\ Behind(e) /\ ~Behind(e)' /\ slack[e] \in Nat /\ slack[e] >= s
          /\ s \in Int
      <4>1. SlackIsNearest(e) /\ Behind(e) /\ ~Behind(e)' /\ s \in Int
        BY <1>1, <2>1, <2>2, Ranges DEF Growing, Behind
      <4> QED BY <1>1, <2>6, <4>1 DEF SlackIsNearest, Types
    <3>2. /\ slack'[e] # 0 /\ slack'[e] # INF /\ slack[e] # INF
          /\ Near(e) = slack[e] - s /\ Near(e)' = slack[e] - s
      BY <2>3, <2>6, <3>1 DEF Near, INF
    <3>3. \A x \in Row : Rest(x, e)' = Rest(x, e)
      BY RestStays
    <3>4. \A i \in DOMAIN unchosen_row : Seen(i, e)' => Seen(i, e)
      BY <1>1, <2>1 DEF Seen
    <3>5. \E i \in DOMAIN unchosen_row, x \in Row :
            slack_row[e] = x /\ unchosen_row[i] = x /\ Rest(x, e)' = Near(e)'
      BY <2>6, <3>1, <3>2, <3>3 DEF SlackIsNearest
    <3>6. \A i \in DOMAIN unchosen_row, x \in Row :
            Seen(i, e)' /\ unchosen_row[i] = x => Rest(x, e)' >= Near(e)'
      BY <2>6, <3>1, <3>2, <3>3, <3>4 DEF SlackIsNearest
    <3> QED BY <1>2, <2>1, <3>1, <3>2, <3>5, <3>6 DEF SlackIsNearest
  <2> QED BY <1>1, <1>2, <1>4, <2>1, <2>4, <2>5, <2>6 DEF Forest, Growing, Injective
<1>6. CASE ReachNew \/ BreakThroughNew
  <2>1. l < m /\ slack[l] # 0 /\ slack[l] = s
    BY <1>6 DEF ReachNew, BreakThroughNew, Covering
  <2>2. PICK e \in Col : e = l
    BY <1>1, <2>1, Ranges DEF Col
  <2>3. /\ SlackIsNearest(e) /\ Behind(e) /\ slack[e] # INF
    BY <1>1, <2>1, <2>2, Ranges DEF Growing, Behind, SlackIsNearest
  <2>4. Near(e) = 0
    BY <1>1, <2>1, <2>2, <2>3, Ranges DEF Near
  <2>5. PICK n \in DOMAIN unchosen_row, r \in Row :
          slack_row[e] = r /\ unchosen_row[n] = r /\ Rest(r, e) = 0
    BY <2>1, <2>2, <2>3, <2>4 DEF SlackIsNearest
  <2>6. CASE ReachNew
    BY <2>2, <2>5, <2>6, Joins DEF Forest, ReachNew, Covering
  <2>7. CASE BreakThroughNew
    <3>1. /\ pc' = "rematch" /\ slack' = [slack EXCEPT ![e] = 0] /\ k' = r /\ l' = e
          /\ UNCHANGED <<unchosen_row, parent_row>>
      BY <2>2, <2>5, <2>7 DEF BreakThroughNew
    <3>2. \A c \in Col : slack[c] = 0 => slack'[c] = 0
      BY <1>1, <3>1 DEF Types
    <3>3. \A h \in DOMAIN unchosen_row : Rooted(h)'
      BY <1>1, <1>4, <3>1, <3>2, RootedStays
    <3>4. \A h \in 1 .. n : Rooted(h)'
      BY <1>3, <3>3
    <3>5. Rest(r, e)' = 0
      BY <2>5, RestStays
    <3>6. Del(r, e)' + 0 = 0 /\ Del(r, e)' \in Int
      <4>1. Types'
        BY <2>7, TypesStay DEF Next
      <4>2. Del(r, e)' \in Int
        BY <1>2, <4>1 DEF Types, Del
      <4> QED BY <3>1, <3>5, <4>2 DEF Rest, Behind
    <3>7. Path'
      BY <1>2, <2>5, <3>1, <3>4, <3>6 DEF Path, Del
    <3> QED BY <1>1, <3>1, <3>7 DEF Forest, Injective
  <2> QED BY <1>6, <2>6, <2>7
<1>7. CASE ZeroIntroduced
  <2>1. pc' = "explore" /\ l = m /\ l' = 0 /\ q' = q /\ UNCHANGED forest
    BY <1>1, <1>7 DEF ZeroIntroduced
  <2>2. \A h \in DOMAIN unchosen_row : Rooted(h)'
    BY <1>1, <1>4, <2>1, RootedStays DEF forest
  <2>3. \A c \in Col : SlackIsNearest(c)'
    <3> TAKE c \in Col
    <3>1. c \in Nat /\ c < m /\ m \in Nat /\ SlackIsNearest(c)
      BY <1>1, Ranges DEF Growing
    <3>2. \A i \in DOMAIN unchosen_row : Seen(i, c)' => Seen(i, c)
      BY <1>1, <2>1, <3>1 DEF Seen
    <3>3. Behind(c)' <=> Behind(c)
      BY <1>1, <2>1, <3>1 DEF Behind
    <3> QED BY <1>1, <2>1, <3>1, <3>2, <3>3, NearestStays DEF forest
  <2> QED BY <1>1, <1>2, <2>1, <2>2, <2>3 DEF Forest, Growing, Injective, forest
<1> QED BY <1>5, <1>6, <1>7 DEF Covers

\* One more row is looked at before a stage.
LEMMA RootsGrow ==
  ASSUME Types, Roots, Injective, k < m, k' = k + 1, UNCHANGED <<problem, slack, q>>,
         \A r \in Row : r # k => col_mate'[r] = col_mate[r],
         \/ col_mate'[k] # -1 /\ UNCHANGED unchosen_row
         \/ col_mate'[k] = -1 /\ unchosen_row' = Append(unchosen_row, k)
  PROVE  Roots' /\ Injective'
<1>1. Row' = Row /\ Col' = Col /\ unchosen_row \in Seq(Row)
  BY SameSize DEF Types
<1>2. PICK n \in Row : n = k
  BY Ranges DEF Row
<1>3. /\ \A h \in DOMAIN unchosen_row :
           unchosen_row[h] \in Row /\ col_mate[unchosen_row[h]] = -1 /\ unchosen_row[h] < n
      /\ \A r \in 0 .. n - 1 : col_mate[r] = -1 => r \in Range(unchosen_row)
      /\ \A c \in Col : slack[c] = INF
      /\ q = 0 /\ n \in Nat
  BY <1>2, Ranges DEF Roots
<1>4. \A r \in 0 .. n : r \in Row /\ (r = n \/ (r \in 0 .. n - 1 /\ r # n))
  BY <1>2, <1>3, Ranges DEF Row
<1>5. \A h \in DOMAIN unchosen_row : unchosen_row[h] # n /\ unchosen_row[h] < n + 1
  <2> TAKE h \in DOMAIN unchosen_row
  <2>1. unchosen_row[h] \in Nat /\ unchosen_row[h] < n
    BY <1>3, Ranges
  <2> QED BY <1>3, <2>1
<1>6. CASE col_mate'[n] # -1 /\ UNCHANGED unchosen_row
  BY <1>1, <1>2, <1>3, <1>4, <1>5, <1>6 DEF Roots, Injective
<1>7. CASE col_mate'[n] = -1 /\ unchosen_row' = Append(unchosen_row, n)
  <2> DEFINE N == Len(unchosen_row)
  <2>1. /\ DOMAIN unchosen_row' = 1 .. N + 1 /\ N \in Nat /\ unchosen_row'[N + 1] = n
        /\ \A i \in DOMAIN unchosen_row' : i \in DOMAIN unchosen_row \/ i = N + 1
        /\ \A i \in DOMAIN unchosen_row : unchosen_row'[i] = unchosen_row[i]
        /\ Range(unchosen_row') = Range(unchosen_row) \cup {n}
    <3>1. n \in Row /\ unchosen_row \in Seq(Row) /\ unchosen_row' = Append(unchosen_row, n)
      BY <1>1, <1>7
    <3>2. /\ DOMAIN unchosen_row = 1 .. N /\ DOMAIN unchosen_row' = 1 .. N + 1 /\ N \in Nat
          /\ unchosen_row'[N + 1] = n
          /\ \A i \in DOMAIN unchosen_row' : i \in DOMAIN unchosen_row \/ i = N + 1
          /\ \A i \in DOMAIN unchosen_row :
               i \in DOMAIN unchosen_row' /\ unchosen_row'[i] = unchosen_row[i]
      BY <3>1, Appended
    <3>3. Range(unchosen_row') = Range(unchosen_row) \cup {n}
      <4>1. N + 1 \in DOMAIN unchosen_row'
        BY <3>2
      <4> QED BY <3>2, <4>1 DEF Range
    <3> QED BY <3>2, <3>3
  <2>2. n \notin Range(unchosen_row)
    BY <1>5 DEF Range
  <2>3. Injective'
    BY <1>7, <2>2, StaysInjective
  <2>4. \A h \in DOMAIN unchosen_row' :
          col_mate'[unchosen_row'[h]] = -1 /\ unchosen_row'[h] < n + 1
    <3> TAKE h \in DOMAIN unchosen_row'
    <3>1. CASE h = N + 1
      BY <1>3, <1>7, <2>1, <3>1
    <3>2. CASE h \in DOMAIN unchosen_row
      <4>1. unchosen_row'[h] = unchosen_row[h] /\ unchosen_row[h] \in Row
        BY <1>3, <2>1, <3>2
      <4>2. col_mate[unchosen_row[h]] = -1 /\ unchosen_row[h] # n /\ unchosen_row[h] < n + 1
        BY <1>3, <1>5, <3>2
      <4> QED BY <1>2, <4>1, <4>2
    <3> QED BY <2>1, <3>1, <3>2
  <2>5. \A r \in 0 .. n : col_mate'[r] = -1 => r \in Range(unchosen_row')
    BY <1>2, <1>3, <1>4, <2>1
  <2> QED BY <1>1, <1>2, <1>3, <2>3, <2>4, <2>5 DEF Roots
<1> QED BY <1>2, <1>6, <1>7

\* The roots of the first stage and of the next ones.
LEMMA StartsGrow ==
  ASSUME HungarianInv,
         SubtractMinimum \/ MinimaSubtracted \/ MatchRow \/ RowsMatched \/ CollectRow \/ NextStage
  PROVE  Forest'
<1>1. /\ Types /\ Roots /\ Injective /\ UNCHANGED <<problem, slack, s>>
  BY DEF HungarianInv, Forest, SubtractMinimum, MinimaSubtracted, MatchRow, RowsMatched, CollectRow,
     NextStage, forest
<1>2. Row' = Row /\ Col' = Col
  BY <1>1, SameSize
<1>3. CASE SubtractMinimum \/ MinimaSubtracted
  <2>1. /\ unchosen_row = <<>> /\ k = 0 /\ pc' \in {"minima", "match"}
        /\ UNCHANGED <<col_mate, forest, q, k>>
    BY <1>3 DEF SubtractMinimum, MinimaSubtracted, HungarianInv, Forest, matching
  <2> QED BY <1>1, <1>2, <2>1 DEF Forest, Roots, Injective, forest
<1>4. CASE MatchRow
  <2>1. PICK n \in Row : n = k
    BY <1>1, <1>4, Ranges DEF MatchRow, Row
  <2>2. \A c \in Col : c # -1
    BY <1>1, Ranges
  <2>3. \/ \E c \in Col : col_mate' = [col_mate EXCEPT ![n] = c] /\ UNCHANGED unchosen_row
        \/ col_mate' = [col_mate EXCEPT ![n] = -1] /\ unchosen_row' = Append(unchosen_row, n)
    BY <1>4, <2>1 DEF MatchRow
  <2>4. /\ \A r \in Row : r # n => col_mate'[r] = col_mate[r]
        /\ \/ col_mate'[n] # -1 /\ UNCHANGED unchosen_row
           \/ col_mate'[n] = -1 /\ unchosen_row' = Append(unchosen_row, n)
    BY <1>1, <2>2, <2>3 DEF Types
  <2>5. pc' = "match" /\ k < m /\ k' = k + 1 /\ q' = q
    BY <1>4 DEF MatchRow
  <2> QED BY <1>1, <2>1, <2>4, <2>5, RootsGrow DEF Forest
<1>5. CASE RowsMatched
  <2>1. /\ pc = "match" /\ k = m /\ unmatched' = Len(unchosen_row) /\ q' = 0 /\ l' = 0
        /\ UNCHANGED <<col_mate, forest>>
        /\ pc' = IF unchosen_row = <<>> THEN "check" ELSE "explore"
    BY <1>5 DEF RowsMatched
  <2>2. CASE unchosen_row = <<>>
    <3>1. Len(<<>>) = 0
      OBVIOUS
    <3> QED BY <1>1, <2>1, <2>2, <3>1 DEF Forest, Injective, forest
  <2>3. CASE unchosen_row # <<>>
    <3>1. Growing'
      BY <1>1, <2>1, <2>3, StageStarts DEF Roots
    <3> QED BY <1>1, <2>1, <2>3, <3>1 DEF Forest, Injective, forest
  <2> QED BY <2>2, <2>3
<1>6. CASE CollectRow
  <2>1. PICK n \in Row : n = k
    BY <1>1, <1>6, Ranges DEF CollectRow, Row
  <2>2. /\ pc = "restart" /\ pc' = "restart" /\ k < m /\ k' = k + 1 /\ q' = q /\ l' = l
        /\ col_mate' = col_mate /\ unmatched' = unmatched
        /\ unchosen_row' = IF col_mate[n] < 0 THEN Append(unchosen_row, n) ELSE unchosen_row
    BY <1>6, <2>1 DEF CollectRow, matching
  <2>3. col_mate[n] < 0 <=> col_mate[n] = -1
    <3>1. \A c \in Col : ~(c < 0) /\ c # -1
      BY <1>1, Ranges
    <3> QED BY <1>1, <3>1 DEF Types
  <2>4. Roots' /\ Injective'
    BY <1>1, <2>1, <2>2, <2>3, RootsGrow
  <2> QED BY <2>2, <2>4 DEF Forest, HungarianInv
<1>7. CASE NextStage
  <2>1. /\ pc = "restart" /\ pc' = "explore" /\ k = m /\ UNCHANGED <<matching, forest, q, l>>
    BY <1>7 DEF NextStage
  <2>2. unmatched >= 1 /\ l = 0 /\ q = 0 /\ unmatched = Cardinality(Unmatched)
    BY <1>1, <2>1 DEF HungarianInv, Forest, Counted, Solving, Roots
  <2>3. unchosen_row # <<>>
    <3>1. PICK r \in Row : col_mate[r] = -1
      BY <1>1, <2>2, FS_EmptySet DEF Unmatched
    <3>2. r \in 0 .. k - 1
      BY <1>1, <2>1 DEF Row
    <3> QED BY <1>1, <3>1, <3>2 DEF Roots, Range
  <2>4. Growing'
    BY <1>1, <2>1, <2>2, <2>3, StageStarts DEF Roots, matching
  <2> QED BY <1>1, <2>1, <2>4 DEF Forest, Injective, forest
<1> QED BY <1>3, <1>4, <1>5, <1>6, <1>7

\* Row k took column l; the path goes on at a row before it in the forest.
LEMMA RematchesFollow ==
  ASSUME HungarianInv, RematchOn \/ RematchLast
  PROVE  Forest'
<1>1. /\ Types /\ Injective /\ pc = "rematch" /\ UNCHANGED <<problem, potentials, s>>
      /\ col_mate' = [col_mate EXCEPT ![k] = l]
  BY DEF HungarianInv, Forest, RematchOn, RematchLast, Rematched
<1>2. PICK n \in Row, e \in Col : n = k /\ e = l
  BY <1>1 DEF HungarianInv, Forest, Path
<1>3. PICK i \in DOMAIN unchosen_row : unchosen_row[i] = n /\ \A h \in 1 .. i : Rooted(h)
  BY <1>1, <1>2 DEF HungarianInv, Forest, Path
<1>4. Row' = Row /\ Col' = Col /\ DOMAIN unchosen_row = 1 .. Len(unchosen_row)
      /\ Len(unchosen_row) \in Nat
  BY <1>1, Ranges, SameSize
<1>5. CASE RematchOn
  <2>1. /\ pc' = "rematch" /\ k' = parent_row[col_mate[n]] /\ l' = col_mate[n] /\ col_mate[n] >= 0
        /\ UNCHANGED forest
    BY <1>2, <1>5 DEF RematchOn
  <2>2. col_mate[unchosen_row[i]] # -1 /\ Rooted(i)
    BY <1>3, <1>4, <2>1
  <2>3. PICK c \in Col, g \in 1 .. i - 1, r \in Row :
          /\ col_mate[n] = c /\ slack[c] = 0
          /\ parent_row[c] = r /\ unchosen_row[g] = r /\ Rest(r, c) = 0
    BY <1>3, <2>2 DEF Rooted
  <2>4. \A x \in Row, d \in Col : Rest(x, d)' = Rest(x, d)
    BY <1>5, RestStays DEF Rematches
  <2>5. ASSUME NEW h \in 1 .. g
        PROVE  Rooted(h)'
    <3>1. Rooted(h) /\ h \in DOMAIN unchosen_row /\ h # i
      BY <1>3, <1>4
    <3>2. unchosen_row[h] # n /\ unchosen_row[h] \in Row
      BY <1>1, <1>3, <3>1, Ranges DEF Injective
    <3>3. col_mate'[unchosen_row[h]] = col_mate[unchosen_row[h]]
      BY <1>1, <1>2, <3>2 DEF Types
    <3> QED BY <1>4, <2>1, <2>4, <3>1, <3>3 DEF Rooted, forest
  <2>6. Del(r, c)' = 0
    <3>1. Rest(r, c)' = 0 /\ Rest(r, c)' = Del(r, c)' + 0 /\ Del(r, c)' = Del(r, c)
      BY <1>1, <2>1, <2>3, <2>4 DEF Rest, Behind, Del, potentials
    <3>2. Del(r, c) \in Int
      BY <1>1, Ranges
    <3> QED BY <3>1, <3>2
  <2>7. Path'
    <3>1. g \in DOMAIN unchosen_row
      BY <1>4
    <3> QED BY <1>4, <2>1, <2>3, <2>5, <2>6, <3>1 DEF Path, Del, forest
  <2> QED BY <1>1, <2>1, <2>7 DEF Forest, Injective, forest
<1>6. CASE RematchLast
  <2>1. /\ unchosen_row' = <<>> /\ q' = 0 /\ k' = 0 /\ l' = 0 /\ slack' = [c \in Col |-> INF]
        /\ unmatched' = unmatched - 1
        /\ pc' = IF unmatched = 1 THEN "check" ELSE "restart"
    BY <1>6 DEF RematchLast
  <2>2. unmatched' \in Nat
    BY <1>6, TypesStay DEF Next, Types
  <2>3. unmatched \in Nat
    BY <1>1 DEF Types
  <2>4. Roots' /\ Injective'
    BY <1>4, <2>1 DEF Roots, Injective
  <2> QED BY <2>1, <2>2, <2>3, <2>4 DEF Forest
<1> QED BY <1>5, <1>6
-----------------------------------------------------------------------------
(* The theorems *)

\* The potentials, the matching and the forest agree in every pass.
THEOREM HungarianInvariant == Spec => []HungarianInv
<1>1. HungarianInv /\ [Next \/ Returned]_vars => HungarianInv'
  <2> SUFFICES ASSUME HungarianInv, [Next \/ Returned]_vars
               PROVE  HungarianInv'
    OBVIOUS
  <2>1. CASE Next
    <3>1. Types' /\ Feasible' /\ Tight' /\ Mates' /\ Counted'
      BY <2>1, TypesStay, FeasibleStays, MatesStay
    <3>2. Forest'
      <4>1. CASE Return
        BY <4>1 DEF Return, Forest, Injective, forest, HungarianInv
      <4>2. CASE ~Return
        BY <2>1, <4>2, StartsGrow, StepsGrow, NewZeroGrows, CoversGrow, RematchesFollow
        DEF Next, Steps, Covers
      <4> QED BY <4>1, <4>2
    <3> QED BY <3>1, <3>2 DEF HungarianInv
  <2>2. CASE UNCHANGED vars
    <3>1. /\ Types' = Types /\ Feasible' = Feasible /\ Tight' = Tight
          /\ Mates' = Mates /\ Counted' = Counted
      BY <2>2 DEF vars, matching, potentials, forest, Types, Feasible, Tight, Mates, Counted,
         Unmatched, Rest, Behind, Del, Solving, m, Row, Col
    <3>2. Forest' = Forest
      BY <2>2 DEF vars, matching, potentials, forest, Forest, Growing, Roots, Path, Rooted,
         SlackIsNearest, Seen, Injective, Rest, Near, Behind, Del, m, Row, Col
    <3> QED BY <3>1, <3>2 DEF HungarianInv
  <2> QED BY <2>1, <2>2 DEF Returned
<1> QED BY <1>1, InitInv, PTL DEF Spec

\* A cell that is tight costs what the potentials say.
LEMMA TightCell ==
  ASSUME NEW x \in Int, NEW y \in Int, NEW z \in Int, x - y + z + 0 = 0
  PROVE  x = y - z
OBVIOUS

\* When every row has a column the doublecheck succeeds, for any problem: the
\* function returns instead of ending the process.
THEOREM NeverExitsCorrect == Spec => []NeverExits
<1>1. HungarianInv /\ pc = "check" => Verified
  <2> SUFFICES ASSUME HungarianInv, pc = "check"
               PROVE  Verified
    OBVIOUS
  <2>1. Types /\ unmatched = 0 /\ unmatched = Cardinality(Unmatched)
    BY DEF HungarianInv, Forest, Counted, Solving
  <2>2. Unmatched = {}
    BY <2>1, UnmatchedSize, FS_EmptySet
  <2>3. \A r \in Row, c \in Col :
          /\ cost[r][c] \in Int /\ row_dec[r] \in Int /\ col_inc[c] \in Int
          /\ Rest(r, c) = cost[r][c] - row_dec[r] + col_inc[c] + 0
    BY <2>1 DEF Types, Rest, Behind, Del
  <2>4. \A r \in Row, c \in Col : cost[r][c] >= row_dec[r] - col_inc[c]
    BY <2>3 DEF HungarianInv, Feasible, Solving
  <2>5. ASSUME NEW r \in Row
        PROVE  col_mate[r] >= 0 /\ cost[r][col_mate[r]] = row_dec[r] - col_inc[col_mate[r]]
    <3>1. PICK c \in Col : c = col_mate[r]
      BY <2>1, <2>2 DEF Unmatched, Types
    <3>2. c >= 0
      BY <2>1, Ranges
    <3>3. row_mate[c] = r
      BY <3>1, <3>2 DEF HungarianInv, Mates
    <3>4. Rest(r, c) = 0
      BY <3>3 DEF HungarianInv, Tight, Solving
    <3>5. cost[r][c] = row_dec[r] - col_inc[c]
      <4>1. /\ cost[r][c] \in Int /\ row_dec[r] \in Int /\ col_inc[c] \in Int
            /\ cost[r][c] - row_dec[r] + col_inc[c] + 0 = 0
        BY <2>3, <3>4
      <4> QED BY <4>1, TightCell
    <3> QED BY <3>1, <3>2, <3>5
  <2>6. Cardinality({c \in Col : col_inc[c] # 0}) =< m
    BY <2>1, Size, FS_Subset
  <2> QED BY <2>4, <2>5, <2>6 DEF Verified
<1> DEFINE Alive == pc # "exit"
<1>2. Init => Alive
  BY DEF Init
<1>3. HungarianInv /\ Alive /\ [Next \/ Returned]_vars => Alive'
  <2> SUFFICES ASSUME HungarianInv, Alive, [Next \/ Returned]_vars
               PROVE  Alive'
    OBVIOUS
  <2>1. CASE Return
    BY <1>1, <2>1 DEF Return
  <2>2. CASE Next /\ ~Return
    BY <2>2 DEF Next, SubtractMinimum, MinimaSubtracted, MatchRow, RowsMatched, SkipColumn,
         Tighten, Grow, BreakThrough, NextNode, NewZero, RaiseColumn, NearColumn, ReachNew,
         BreakThroughNew, ZeroIntroduced, RematchOn, RematchLast, CollectRow, NextStage,
         Scanning, Covering
  <2>3. CASE UNCHANGED vars
    BY <2>3 DEF vars
  <2> QED BY <2>1, <2>2, <2>3 DEF Returned
<1>4. HungarianInv /\ Alive => NeverExits
  BY <1>1 DEF NeverExits
<1> HIDE DEF Alive
<1> QED BY <1>2, <1>3, <1>4, HungarianInvariant, PTL DEF Spec
-----------------------------------------------------------------------------
(* No assignment costs less: the potentials are a lower bound for all *)

\* What a bijection of rows to columns costs in a matrix.
CostIn(matrix, f) == SumFunctionOnSet([r \in Row |-> matrix[r][f[r]]], Row)

\* Weak duality: it costs no less than the potentials together, and just as
\* much if its cells are tight.
LEMMA Duality ==
  ASSUME NEW S, IsFiniteSet(S), NEW f \in Bijection(S, S), NEW cell,
         NEW a \in [S -> Int], NEW b \in [S -> Int],
         \A r \in S : cell[r] \in Int, \A r \in S : cell[r] >= a[r] + b[f[r]]
  PROVE  /\ SumFunctionOnSet(cell, S) >= SumFunctionOnSet(a, S) + SumFunctionOnSet(b, S)
         /\ (\A r \in S : cell[r] = a[r] + b[f[r]]) =>
              SumFunctionOnSet(cell, S) = SumFunctionOnSet(a, S) + SumFunctionOnSet(b, S)
<1> DEFINE there == [r \in S |-> b[f[r]]]
           both == [r \in S |-> a[r] + b[f[r]]]
<1>1. /\ f \in [S -> S] /\ \A x, y \in S : f[x] = f[y] => x = y
      /\ \A t \in S : \E r \in S : f[r] = t
  BY Fun_BijectionProperties
<1>2. \A r \in S : f[r] \in S
  BY <1>1
<1>3. \A r \in S : /\ cell[r] \in Int /\ a[r] \in Int /\ there[r] \in Int /\ both[r] \in Int
                   /\ there[r] = b[f[r]] /\ b[f[r]] \in Int /\ both[r] = a[r] + there[r]
                   /\ both[r] =< cell[r]
  BY <1>1
<1>4. SumFunctionOnSet(there, S) = SumFunctionOnSet(b, S)
  BY SumOfBijection
<1>5. SumFunctionOnSet(both, S) = SumFunctionOnSet(a, S) + SumFunctionOnSet(there, S)
  <2>1. \A r \in S : a[r] \in Int /\ there[r] \in Int /\ both[r] = a[r] + there[r]
    BY <1>3
  <2> HIDE DEF both, there
  <2> QED BY <2>1, SumOfSums
<1>6. SumFunctionOnSet(both, S) =< SumFunctionOnSet(cell, S)
  <2> HIDE DEF both
  <2> QED BY <1>3, SumAtMost
<1>7. (\A r \in S : cell[r] = a[r] + b[f[r]]) =>
        SumFunctionOnSet(cell, S) = SumFunctionOnSet(both, S)
  <2> SUFFICES ASSUME \A r \in S : cell[r] = a[r] + b[f[r]]
               PROVE  SumFunctionOnSet(cell, S) = SumFunctionOnSet(both, S)
    OBVIOUS
  <2>1. \A r \in S : cell[r] \in Int /\ cell[r] = both[r]
    BY <1>3
  <2> HIDE DEF both
  <2> QED BY <2>1, SumSame
<1>8. SumFunctionOnSet(both, S) \in Int /\ SumFunctionOnSet(cell, S) \in Int
  <2> HIDE DEF both
  <2> QED BY <1>3, SumElement
<1> HIDE DEF both, there
<1> QED BY <1>4, <1>5, <1>6, <1>7, <1>8

\* What the function was called with, as it is after hungarian_init.
Given(max_cost) == hungarian_init(problem, max_cost)

\* Of each column something has been subtracted, and counted in total.
ReducedBy(max_cost, less) ==
  /\ max_cost \in Int /\ less \in [Col -> Int]
  /\ \A r \in Row, c \in Col : cost[r][c] = Given(max_cost)[r][c] - less[c]
  /\ total = SumFunctionOnSet(less, Col)

ReducedInv ==
  /\ problem \in Problems
  /\ pc \notin {"done", "exit"} => \E max_cost, less : ReducedBy(max_cost, less)

\* The matrix at the start, as the function was called with it.
LEMMA GivenMatrix ==
  ASSUME problem \in Problems, NEW max_cost \in Int
  PROVE  /\ Expanded(problem) \in [Row -> [Col -> Int]]
         /\ Given(max_cost) \in [Row -> [Col -> Int]]
         /\ problem.mode = Minimize => Given(max_cost) = Expanded(problem)
         /\ problem.mode = Maximize =>
              \A r \in Row, c \in Col :
                Given(max_cost)[r][c] = max_cost - Expanded(problem)[r][c]
<1>1. m \in Nat \ {0}
  BY ProblemsAssumption DEF m, hungarian_imax
<1>2. Expanded(problem) \in [Row -> [Col -> Int]]
  <2>1. \A i \in Row, j \in Col : i < problem.rows /\ j < problem.cols => problem.cost[i][j] \in Int
    BY SMTT(30), <1>1, ProblemsAssumption DEF Row, Col
  <2>2. Expanded(problem) = [i \in Row |-> [j \in Col |->
          IF i < problem.rows /\ j < problem.cols THEN problem.cost[i][j] ELSE 0]]
    BY DEF Expanded, m, Row, Col
  <2> QED BY <2>1, <2>2
<1>3. Given(max_cost) = IF problem.mode = Maximize
                        THEN [i \in Row |-> [j \in Col |-> max_cost - Expanded(problem)[i][j]]]
                        ELSE Expanded(problem)
  BY DEF Given, hungarian_init, Row, Col, m
<1>4. Minimize # Maximize
  BY DEF Minimize, Maximize
<1> QED BY <1>2, <1>3, <1>4

\* It is there from the call on: each pass over a column subtracts its least
\* cost and counts it, no other step changes the matrix or the total.
LEMMA ReducedStays ==
  ASSUME HungarianInv, ReducedInv, Next, ~Return
  PROVE  ReducedInv'
<1>1. /\ Types /\ UNCHANGED problem /\ problem \in Problems
      /\ pc \notin {"done", "exit"}
  BY DEF ReducedInv, HungarianInv, Next, SubtractMinimum, MinimaSubtracted, MatchRow, RowsMatched, SkipColumn,
         Tighten, Grow, BreakThrough, NextNode, NewZero, RaiseColumn, NearColumn, ReachNew,
         BreakThroughNew, ZeroIntroduced, RematchOn, RematchLast, CollectRow, NextStage, Return,
         Scanning, Covering
<1>2. PICK max_cost, less : ReducedBy(max_cost, less)
  BY <1>1 DEF ReducedInv
<1>3. Row' = Row /\ Col' = Col /\ Given(max_cost)' = Given(max_cost)
  BY <1>1, SameSize DEF Given
<1>4. CASE SubtractMinimum
  <2>1. l \in Col /\ l \in Nat
    BY <1>1, <1>4, Ranges DEF SubtractMinimum, Col
  <2>2. PICK least \in {cost[r][l] : r \in Row} :
          /\ cost' = [r \in Row |-> [cost[r] EXCEPT ![l] = @ - least]]
          /\ total' = total + least
    BY <1>4 DEF SubtractMinimum
  <2>3. least \in Int
    BY <1>1, <2>1 DEF Types
  <2> PICK more : more = [less EXCEPT ![l] = @ + least]
    OBVIOUS
  <2>4. /\ less \in [Col -> Int] /\ more \in [Col -> Int] /\ \A c \in Col : more[c] \in Int
        /\ more[l] = less[l] + least
        /\ \A c \in Col \ {l} : more[c] = less[c]
    BY <1>2, <2>1, <2>3 DEF ReducedBy
  <2>5. IsFiniteSet(Col)
    BY <1>1, Size
  <2>6. SumFunctionOnSet(more, Col) = SumFunctionOnSet(less, Col) + least
    <3>1. SumFunctionOnSet(more, Col) = more[l] + SumFunctionOnSet(more, Col \ {l})
      BY <2>1, <2>4, <2>5, SumFirst
    <3>2. SumFunctionOnSet(less, Col) = less[l] + SumFunctionOnSet(less, Col \ {l})
      <4>1. \A c \in Col : less[c] \in Int
        BY <2>4
      <4> QED BY <2>1, <2>5, <4>1, SumFirst
    <3>3. IsFiniteSet(Col \ {l}) /\ \A c \in Col \ {l} : less[c] \in Int /\ less[c] = more[c]
      BY <2>4, <2>5, FS_RemoveElement
    <3>4. SumFunctionOnSet(less, Col \ {l}) = SumFunctionOnSet(more, Col \ {l})
      BY <3>3, SumSame
    <3>5. SumFunctionOnSet(less, Col \ {l}) \in Int /\ less[l] \in Int
      BY <2>1, <2>4, <3>3, SumIsInt
    <3> QED BY <2>3, <2>4, <3>1, <3>2, <3>4, <3>5
  <2>7. ASSUME NEW r \in Row, NEW c \in Col
        PROVE  cost'[r][c] = Given(max_cost)[r][c] - more[c]
    <3>1. cost[r][c] = Given(max_cost)[r][c] - less[c]
      BY <1>2 DEF ReducedBy
    <3>2. cost[r][c] \in Int /\ less[c] \in Int /\ Given(max_cost)[r][c] \in Int
      <4>1. problem \in Problems /\ max_cost \in Int
        BY <1>1, <1>2 DEF ReducedBy
      <4> QED BY SMTT(30), <1>1, <2>4, <4>1, GivenMatrix DEF Types
    <3>3. CASE c = l
      <4>1. cost'[r][c] = cost[r][c] - least
        BY <1>1, <2>1, <2>2, <3>3 DEF Types
      <4> QED BY <2>3, <2>4, <3>1, <3>2, <3>3, <4>1
    <3>4. CASE c # l
      <4>1. cost'[r][c] = cost[r][c]
        BY <1>1, <2>1, <2>2, <3>4 DEF Types
      <4> QED BY <2>4, <3>1, <3>4, <4>1
    <3> QED BY <3>3, <3>4
  <2>8. ReducedBy(max_cost, more)'
    BY <1>2, <1>3, <2>2, <2>4, <2>6, <2>7 DEF ReducedBy
  <2> QED BY <1>1, <2>8 DEF ReducedInv
<1>5. CASE ~SubtractMinimum
  <2>1. UNCHANGED <<cost, total>>
    BY <1>5 DEF Next, MinimaSubtracted, MatchRow, RowsMatched, SkipColumn,
         Tighten, Grow, BreakThrough, NextNode, NewZero, RaiseColumn, NearColumn, ReachNew,
         BreakThroughNew, ZeroIntroduced, RematchOn, RematchLast, CollectRow, NextStage,
         potentials
  <2>2. ReducedBy(max_cost, less)'
    BY <1>2, <1>3, <2>1 DEF ReducedBy
  <2> QED BY <1>1, <2>2 DEF ReducedInv
<1> QED BY <1>4, <1>5

LEMMA InitReduced == Init => ReducedInv
<1> SUFFICES ASSUME Init PROVE ReducedInv
  OBVIOUS
<1>1. Types /\ problem \in Problems /\ total = 0
  <2>1. HungarianInv
    BY InitInv
  <2>2. Types
    BY <2>1 DEF HungarianInv
  <2>3. problem \in Problems /\ total = 0
    BY DEF Init
  <2> QED BY <2>2, <2>3
<1>2. PICK max_cost : /\ max_cost \in {0} \cup {Expanded(problem)[r][c] : r \in Row, c \in Col}
                      /\ cost = Given(max_cost)
  BY DEF Init, Given
<1>3. max_cost \in Int
  <2>1. Expanded(problem) \in [Row -> [Col -> Int]]
    BY <1>1, GivenMatrix
  <2> QED BY <1>2, <2>1
<1>4. PICK less : less = [c \in Col |-> 0]
  OBVIOUS
<1>5. less \in [Col -> Int] /\ \A c \in Col : less[c] \in Int /\ less[c] = 0
  BY <1>4
<1>6. SumFunctionOnSet(less, Col) = 0
  <2>1. IsFiniteSet(Col) /\ {} \in SUBSET Col
    BY <1>1, Size
  <2>2. SumFunctionOnSet(less, Col) = SumFunctionOnSet(less, {})
    <3>1. \A c \in Col : less[c] \in Int
      BY <1>5
    <3>2. \A c \in Col \ {} : less[c] = 0
      BY <1>5
    <3> QED BY <2>1, <3>1, <3>2, SumZeros
  <2> QED BY <2>2, SumEmpty
<1>7. \A r \in Row, c \in Col : cost[r][c] = Given(max_cost)[r][c] - less[c]
  <2>1. \A r \in Row, c \in Col : cost[r][c] \in Int
    BY <1>1 DEF Types
  <2> QED BY <1>2, <1>5, <2>1
<1>8. ReducedBy(max_cost, less)
  BY <1>1, <1>3, <1>5, <1>6, <1>7 DEF ReducedBy
<1> QED BY <1>1, <1>8 DEF ReducedInv

\* What is gained is the cost in the expanded square: its other cells are 0.
LEMMA GainIsCost ==
  ASSUME problem \in Problems, Types, NEW f \in [Row -> Col]
  PROVE  Gain(problem, f) = CostIn(Expanded(problem), f)
<1> DEFINE Inner == 0 .. problem.rows - 1
           gained == [r \in Inner |-> IF f[r] < problem.cols THEN problem.cost[r][f[r]] ELSE 0]
           cells == [r \in Row |-> Expanded(problem)[r][f[r]]]
<1>1. Gain(problem, f) = SumFunctionOnSet(gained, Inner)
  BY DEF Gain, SumFunction
<1>2. /\ problem.rows \in Nat \ {0} /\ problem.cols \in Nat \ {0} /\ m \in Nat
      /\ problem.rows =< m
  BY ProblemsAssumption DEF m, hungarian_imax
<1>3. IsFiniteSet(Row) /\ Inner \in SUBSET Row /\ Row = Col
  <2>1. Inner \in SUBSET Row
    BY <1>2 DEF Row
  <2> HIDE DEF Inner
  <2> QED BY <2>1, Size
<1>4. \A r \in Row : /\ f[r] \in Col /\ cells[r] \in Int
                     /\ cells[r] = IF r < problem.rows /\ f[r] < problem.cols
                                   THEN problem.cost[r][f[r]] ELSE 0
  <2>1. Expanded(problem) \in [Row -> [Col -> Int]]
    BY GivenMatrix, 0 \in Int
  <2>2. Expanded(problem) = [i \in Row |-> [j \in Col |->
          IF i < problem.rows /\ j < problem.cols THEN problem.cost[i][j] ELSE 0]]
    BY DEF Expanded, m, Row, Col
  <2> QED BY <2>1, <2>2
<1>5. \A r \in Row \ Inner : cells[r] = 0
  <2>1. \A r \in Row \ Inner : ~(r < problem.rows)
    BY <1>2 DEF Row
  <2> HIDE DEF Inner, cells
  <2> QED BY <1>4, <2>1
<1>6. \A r \in Inner : cells[r] \in Int /\ cells[r] = gained[r]
  <2>1. \A r \in Inner : r < problem.rows /\ r \in Row
    BY <1>2, <1>3
  <2>2. \A r \in Inner : gained[r] = IF f[r] < problem.cols THEN problem.cost[r][f[r]] ELSE 0
    OBVIOUS
  <2> HIDE DEF Inner, cells, gained
  <2> QED BY <1>4, <2>1, <2>2
<1> HIDE DEF Inner, gained, cells
<1>7. SumFunctionOnSet(cells, Row) = SumFunctionOnSet(cells, Inner)
  <2>1. \A r \in Row : cells[r] \in Int
    BY <1>4
  <2> QED BY <1>3, <1>5, <2>1, SumZeros
<1>8. SumFunctionOnSet(cells, Inner) = SumFunctionOnSet(gained, Inner)
  <2>1. IsFiniteSet(Inner)
    BY <1>3, FS_Subset
  <2> QED BY <1>6, <2>1, SumSame
<1> QED BY <1>1, <1>7, <1>8 DEF CostIn, cells

\* All rows have a column, so that all columns have a row.
LEMMA MatchingIsBijection ==
  ASSUME HungarianInv, pc = "check", Verified
  PROVE  /\ col_mate \in Bijection(Row, Row) /\ col_mate \in [Row -> Col]
         /\ IsInjective(col_mate) /\ Range(col_mate) = Col
<1>1. Types /\ Mates
  BY DEF HungarianInv
<1>2. \A r \in Row : col_mate[r] \in Col \cup {-1} /\ col_mate[r] >= 0
  BY <1>1 DEF Types, Verified
<1>3. col_mate \in [Row -> Col] /\ Row = Col /\ IsFiniteSet(Row)
  BY <1>1, <1>2, Size DEF Types
<1>4. \A r \in Row : row_mate[col_mate[r]] = r
  BY <1>1, <1>2 DEF Mates
<1>5. \A x, y \in Row : col_mate[x] = col_mate[y] => x = y
  BY <1>4
<1>6. col_mate \in Injection(Row, Row)
  BY <1>3, <1>5 DEF Injection, IsInjective
<1>7. col_mate \in Surjection(Row, Row)
  BY <1>3, <1>6, FS_Injection
<1> QED BY <1>3, <1>5, <1>6, <1>7 DEF Bijection, Surjection, IsInjective, Range

\* At the doublecheck no bijection costs less than the total that is returned,
\* and the matching costs just that.
LEMMA MatchingIsCheapest ==
  ASSUME HungarianInv, ReducedInv, pc = "check", Verified
  PROVE  \E max_cost \in Int :
           LET bound == total + SumFunction(row_dec) - SumFunction(col_inc)
           IN  /\ CostIn(Given(max_cost), col_mate) = bound
               /\ \A f \in Bijection(Row, Col) : CostIn(Given(max_cost), f) >= bound
<1>1. PICK max_cost, less : ReducedBy(max_cost, less)
  BY DEF ReducedInv
<1>2. PICK matrix : matrix = Given(max_cost)
  OBVIOUS
<1>3. /\ max_cost \in Int /\ Row = Col /\ IsFiniteSet(Row)
      /\ matrix \in [Row -> [Row -> Int]] /\ less \in [Row -> Int]
      /\ row_dec \in [Row -> Int] /\ col_inc \in [Row -> Int]
      /\ \A r \in Row : \A c \in Row : cost[r][c] \in Int
  <2>1. Types /\ problem \in Problems /\ Row = Col /\ max_cost \in Int
    BY <1>1, Size DEF HungarianInv, ReducedInv, ReducedBy
  <2>2. matrix \in [Row -> [Col -> Int]]
    BY <1>2, <2>1, GivenMatrix
  <2>3. /\ less \in [Col -> Int] /\ row_dec \in [Row -> Int] /\ col_inc \in [Col -> Int]
        /\ \A r \in Row : \A c \in Col : cost[r][c] \in Int
    BY <1>1, <2>1 DEF Types, ReducedBy
  <2>4. IsFiniteSet(Row)
    BY <2>1, Size
  <2> QED BY <2>1, <2>2, <2>3, <2>4
<1>4. PICK b : b = [c \in Row |-> less[c] - col_inc[c]]
  OBVIOUS
<1>5. b \in [Row -> Int]
  BY <1>3, <1>4
<1>6. ASSUME NEW r \in Row, NEW c \in Row
      PROVE  /\ matrix[r][c] >= row_dec[r] + b[c]
             /\ cost[r][c] = row_dec[r] - col_inc[c] => matrix[r][c] = row_dec[r] + b[c]
  <2>1. cost[r][c] >= row_dec[r] - col_inc[c]
    BY <1>3 DEF Verified
  <2>2. cost[r][c] = matrix[r][c] - less[c]
    BY <1>1, <1>2, <1>3 DEF ReducedBy
  <2>3. /\ cost[r][c] \in Int /\ row_dec[r] \in Int /\ col_inc[c] \in Int
        /\ matrix[r][c] \in Int /\ less[c] \in Int /\ b[c] = less[c] - col_inc[c]
    BY <1>3, <1>4
  <2> QED BY <2>1, <2>2, <2>3
<1>7. total + SumFunction(row_dec) - SumFunction(col_inc)
        = SumFunctionOnSet(row_dec, Row) + SumFunctionOnSet(b, Row)
  <2>1. \A c \in Row : /\ b[c] \in Int /\ col_inc[c] \in Int /\ less[c] = b[c] + col_inc[c]
                       /\ row_dec[c] \in Int
    BY <1>3, <1>4
  <2>2. SumFunctionOnSet(less, Row) = SumFunctionOnSet(b, Row) + SumFunctionOnSet(col_inc, Row)
    BY <1>3, <2>1, SumOfSums
  <2>3. /\ SumFunctionOnSet(b, Row) \in Int /\ SumFunctionOnSet(col_inc, Row) \in Int
        /\ SumFunctionOnSet(row_dec, Row) \in Int
    BY <1>3, <2>1, SumIsInt
  <2>4. total = SumFunctionOnSet(less, Row)
    BY <1>1, <1>3 DEF ReducedBy
  <2>5. /\ SumFunction(row_dec) = SumFunctionOnSet(row_dec, Row)
        /\ SumFunction(col_inc) = SumFunctionOnSet(col_inc, Row)
    BY <1>3 DEF SumFunction
  <2> QED BY <2>2, <2>3, <2>4, <2>5
<1>8. ASSUME NEW f \in Bijection(Row, Row)
      PROVE  /\ CostIn(matrix, f) >= SumFunctionOnSet(row_dec, Row) + SumFunctionOnSet(b, Row)
             /\ (\A r \in Row : matrix[r][f[r]] = row_dec[r] + b[f[r]]) =>
                  CostIn(matrix, f) = SumFunctionOnSet(row_dec, Row) + SumFunctionOnSet(b, Row)
  <2>1. f \in [Row -> Row]
    BY Fun_BijectionProperties
  <2>2. \A r \in Row : matrix[r][f[r]] >= row_dec[r] + b[f[r]]
    BY <1>6, <2>1
  <2>3. PICK cell : /\ cell = [r \in Row |-> matrix[r][f[r]]]
                    /\ CostIn(matrix, f) = SumFunctionOnSet(cell, Row)
    BY DEF CostIn
  <2>4. IsFiniteSet(Row) /\ row_dec \in [Row -> Int] /\ b \in [Row -> Int]
    BY <1>3, <1>5
  <2>5. \A r \in Row : cell[r] \in Int
    BY <1>3, <2>1, <2>3
  <2>6. \A r \in Row : cell[r] >= row_dec[r] + b[f[r]]
    BY <2>2, <2>3
  <2>7. /\ SumFunctionOnSet(cell, Row) >= SumFunctionOnSet(row_dec, Row) + SumFunctionOnSet(b, Row)
        /\ (\A r \in Row : cell[r] = row_dec[r] + b[f[r]]) =>
             SumFunctionOnSet(cell, Row)
               = SumFunctionOnSet(row_dec, Row) + SumFunctionOnSet(b, Row)
    BY <1>8, <2>4, <2>5, <2>6, Duality
  <2> QED BY <2>3, <2>7
<1>9. CostIn(matrix, col_mate) = SumFunctionOnSet(row_dec, Row) + SumFunctionOnSet(b, Row)
  <2>1. col_mate \in Bijection(Row, Row) /\ col_mate \in [Row -> Row]
    BY <1>3, MatchingIsBijection
  <2>2. \A r \in Row : cost[r][col_mate[r]] = row_dec[r] - col_inc[col_mate[r]]
    BY DEF Verified
  <2>3. \A r \in Row : matrix[r][col_mate[r]] = row_dec[r] + b[col_mate[r]]
    BY <1>6, <2>1, <2>2
  <2> QED BY <1>8, <2>1, <2>3
<1> QED BY <1>2, <1>3, <1>7, <1>8, <1>9

\* A utility is what its cost is less than the greatest one: the cheapest
\* bijection is that of most use.
LEMMA UseIsMissingCost ==
  ASSUME problem \in Problems, Types, problem.mode = Maximize, NEW max_cost \in Int
  PROVE  \E all \in Int : \A f \in [Row -> Col] :
           /\ CostIn(Expanded(problem), f) \in Int
           /\ CostIn(Given(max_cost), f) = all - CostIn(Expanded(problem), f)
<1>1. IsFiniteSet(Row) /\ Row = Col
  BY Size
<1>2. PICK same : same = [r \in Row |-> max_cost]
  OBVIOUS
<1>3. PICK E, G : E = Expanded(problem) /\ G = Given(max_cost)
  OBVIOUS
<1>4. /\ E \in [Row -> [Col -> Int]] /\ G \in [Row -> [Col -> Int]]
      /\ \A r \in Row, c \in Col : G[r][c] = max_cost - E[r][c]
  BY <1>3, GivenMatrix
<1>5. ASSUME NEW f \in [Row -> Col]
      PROVE  /\ CostIn(E, f) \in Int
             /\ CostIn(G, f) = SumFunctionOnSet(same, Row) - CostIn(E, f)
  <2>1. PICK cells, missing : /\ cells = [r \in Row |-> E[r][f[r]]]
                              /\ missing = [r \in Row |-> G[r][f[r]]]
    OBVIOUS
  <2>2. \A r \in Row : /\ cells[r] \in Int /\ missing[r] \in Int
                       /\ same[r] = cells[r] + missing[r]
    BY <1>2, <1>4, <2>1
  <2>3. SumFunctionOnSet(same, Row) = SumFunctionOnSet(cells, Row) + SumFunctionOnSet(missing, Row)
    BY <1>1, <2>2, SumOfSums
  <2>4. SumFunctionOnSet(cells, Row) \in Int /\ SumFunctionOnSet(missing, Row) \in Int
    BY <1>1, <2>2, SumIsInt
  <2> QED BY <2>1, <2>3, <2>4 DEF CostIn
<1>6. SumFunctionOnSet(same, Row) \in Int
  <2>1. \A r \in Row : same[r] \in Int
    BY <1>2
  <2> QED BY <1>1, <2>1, SumIsInt
<1> QED BY <1>3, <1>5, <1>6

LEMMA ReturnsCheapest ==
  ASSUME HungarianInv, ReducedInv, Return
  PROVE  CheapestAssignment'
<1>1. /\ pc = "check" /\ UNCHANGED <<problem, col_mate>> /\ problem \in Problems /\ Types
      /\ total' = total + SumFunction(row_dec) - SumFunction(col_inc)
      /\ pc' = "done" => Verified
  BY DEF Return, matching, ReducedInv, HungarianInv
<1>2. SUFFICES ASSUME Verified
               PROVE  CheapestAssignment'
  BY <1>1 DEF CheapestAssignment
<1>3. PICK max_cost \in Int :
        /\ CostIn(Given(max_cost), col_mate) = total'
        /\ \A f \in Bijection(Row, Col) : CostIn(Given(max_cost), f) >= total'
  BY <1>1, <1>2, MatchingIsCheapest
<1>4. /\ col_mate \in [Row -> Col] /\ IsInjective(col_mate) /\ Range(col_mate) = Col
      /\ col_mate \in Bijection(Row, Col) /\ \A f \in Bijection(Row, Col) : f \in [Row -> Col]
  BY <1>1, <1>2, MatchingIsBijection, Size, Fun_BijectionProperties
<1>5. \A f \in [Row -> Col] : Gain(problem, f) = CostIn(Expanded(problem), f)
  BY <1>1, GainIsCost
<1>6. ASSUME problem.mode = Minimize
      PROVE  /\ Gain(problem, col_mate) = total'
             /\ \A f \in Bijection(Row, Col) : Gain(problem, col_mate) =< Gain(problem, f)
  <2>1. Given(max_cost) = Expanded(problem)
    BY <1>1, <1>6, GivenMatrix
  <2>2. Gain(problem, col_mate) = total'
    BY <1>3, <1>4, <1>5, <2>1
  <2>3. \A f \in Bijection(Row, Col) : Gain(problem, f) >= total'
    BY <1>3, <1>4, <1>5, <2>1
  <2> QED BY <2>2, <2>3
<1>7. ASSUME problem.mode = Maximize, NEW f \in Bijection(Row, Col)
      PROVE  Gain(problem, col_mate) >= Gain(problem, f)
  <2>1. PICK all \in Int : \A g \in [Row -> Col] :
          /\ CostIn(Expanded(problem), g) \in Int
          /\ CostIn(Given(max_cost), g) = all - CostIn(Expanded(problem), g)
    BY <1>1, <1>7, UseIsMissingCost
  <2>2. CostIn(Given(max_cost), f) >= CostIn(Given(max_cost), col_mate)
    BY <1>3
  <2>3. /\ CostIn(Expanded(problem), f) \in Int /\ CostIn(Expanded(problem), col_mate) \in Int
        /\ all - CostIn(Expanded(problem), f) >= all - CostIn(Expanded(problem), col_mate)
    BY <1>4, <2>1, <2>2
  <2>4. CostIn(Expanded(problem), col_mate) >= CostIn(Expanded(problem), f)
    BY <2>3
  <2> QED BY <1>4, <1>5, <2>4
<1>8. problem.mode \in {Minimize, Maximize} /\ Minimize # Maximize
  BY <1>1, ProblemsAssumption DEF Minimize, Maximize
<1>9. Row' = Row /\ Col' = Col
  BY <1>1, SameSize
<1> QED BY <1>1, <1>4, <1>6, <1>7, <1>8, <1>9 DEF CheapestAssignment

\* The assignment that is returned is a cheapest one, or one of most use, and
\* the total is its cost: for any matrix of any size, square or not.
THEOREM CheapestAssignmentCorrect == Spec => []CheapestAssignment
<1> DEFINE Inv == ReducedInv /\ CheapestAssignment
<1>1. Init => Inv
  BY InitReduced DEF Init, CheapestAssignment
<1>2. HungarianInv /\ Inv /\ [Next \/ Returned]_vars => Inv'
  <2> SUFFICES ASSUME HungarianInv, Inv, [Next \/ Returned]_vars
               PROVE  Inv'
    OBVIOUS
  <2>1. CASE Return
    BY <2>1, ReturnsCheapest DEF Return, ReducedInv
  <2>2. CASE Next /\ ~Return
    <3>1. pc' # "done"
      BY <2>2 DEF Next, SubtractMinimum, MinimaSubtracted, MatchRow, RowsMatched, SkipColumn,
           Tighten, Grow, BreakThrough, NextNode, NewZero, RaiseColumn, NearColumn, ReachNew,
           BreakThroughNew, ZeroIntroduced, RematchOn, RematchLast, CollectRow, NextStage,
           Scanning, Covering
    <3> QED BY <2>2, <3>1, ReducedStays DEF CheapestAssignment
  <2>3. CASE UNCHANGED vars
    <3>1. UNCHANGED <<pc, problem, cost, total, col_mate>>
      BY <2>3 DEF vars, matching, potentials
    <3>2. Row' = Row /\ Col' = Col
      BY <3>1, SameSize
    <3>3. ReducedInv'
      BY <3>1, <3>2 DEF ReducedInv, ReducedBy, Given
    <3>4. CheapestAssignment'
      BY <3>1, <3>2 DEF CheapestAssignment
    <3> QED BY <3>3, <3>4
  <2> QED BY <2>1, <2>2, <2>3 DEF Returned
<1>3. Inv => CheapestAssignment
  OBVIOUS
<1> HIDE DEF Inv
<1> QED BY <1>1, <1>2, <1>3, HungarianInvariant, PTL DEF Spec
=============================================================================
