--------------------------- MODULE SitePageProofs ---------------------------
(***************************************************************************)
(* The program, for tables of any length, any targets that get wider and   *)
(* any layouts BuildLayouts may give.  The media queries of its style      *)
(* sheets are right on any screen (SheetsInv).  A page without gaps, in    *)
(* which Contiguous holds, is read, drawn and exported past no end, unless *)
(* BuildLayouts finds nothing to start with; every sheet shows every       *)
(* section that has a layout in the place it has in that, and no picture   *)
(* is written smaller than a screen shows it (SitePageInv).                *)
(*                                                                         *)
(* SitePageInv rests on what is read and laid out (PageInv): a section has *)
(* its place for its row, and the leaves of a group are labelled with the  *)
(* rows of its sections and of no others.                                  *)
(***************************************************************************)
EXTENDS SitePage, DataTheorems

Widest == Len(TargetWidths) - 1

\* What a media query asks for, of a sheet that is not the default.
IsFor(t, width) ==
  /\ t = 0 \/ Width(t) =< width
  /\ t = Widest \/ width < Width(t + 1)

\* The inductive invariant: the sheets have their queries, those in front of the
\* one that is drawn are there, and all are once the drawing is over.
SheetsInv ==
  /\ p \in Nat /\ drawing \in [at : Nat, group : Nat]
  /\ DOMAIN sheets \subseteq Target
  /\ \A t \in DOMAIN sheets : sheets[t].query = MediaQuery(t)
  /\ pc = "draw" =>
       /\ drawing.at \in 1 .. Len(TargetWidths) + 1
       /\ \A n \in 1 .. drawing.at - 1 : target_order[n] \in DOMAIN sheets
  /\ pc = "images" \/ p > 0 => DOMAIN sheets = Target
-----------------------------------------------------------------------------
(* Targets *)

\* A set of numbers that has a bound has a greatest one.
LEMMA GreatestOf ==
  ASSUME NEW n \in Nat, NEW T, T \subseteq 0 .. n, T # {}
  PROVE  \E x \in T : \A y \in T : x >= y
<1> DEFINE D == {n - t : t \in T}
<1>1. D \subseteq Nat /\ D # {}
  <2>1. \A t \in T : t \in 0 .. n
    OBVIOUS
  <2>2. \A t \in 0 .. n : n - t \in Nat
    OBVIOUS
  <2> QED BY <2>1, <2>2
<1>2. PICK d \in D : \A e \in D : ~ (<<e, d>> \in OpToRel(<, Nat))
  BY <1>1, WFMin, NatLessThanWellFounded
<1>3. \A e \in D : ~(e < d)
  BY <1>1, <1>2 DEF OpToRel
<1>4. PICK x \in T : d = n - x
  OBVIOUS
<1>5. \A y \in T : ~(n - y < n - x)
  BY <1>3, <1>4
<1>6. \A y \in T : y \in Int
  <2>1. \A y \in T : y \in 0 .. n
    OBVIOUS
  <2> QED BY <2>1
<1> QED BY <1>5, <1>6

LEMMA TargetsAre ==
  /\ Len(TargetWidths) \in Nat /\ Widest \in Nat \ {0} /\ Target = 0 .. Widest
  /\ DefaultTarget \in Target
  /\ \A t \in Target : t \in Nat /\ Width(t) \in Nat /\ Width(t) > 0
  /\ \A s, t \in Target : s < t => Width(s) < Width(t)
<1>1. /\ TargetWidths \in Seq(Nat \ {0}) /\ Len(TargetWidths) > 1 /\ DefaultTarget \in Target
      /\ \A s, t \in Target : s < t => Width(s) < Width(t)
  BY TargetsAssumption
<1>2. Len(TargetWidths) \in Nat
  BY <1>1
<1>3. \A t \in Target : t \in Nat /\ t + 1 \in 1 .. Len(TargetWidths)
  BY <1>2 DEF Target
<1>4. \A t \in Target : Width(t) \in Nat /\ Width(t) > 0
  BY <1>1, <1>3 DEF Width
<1>5. Target = 0 .. Widest
  BY DEF Target, Widest
<1>6. Widest \in Nat \ {0}
  <2>1. PICK N : N = Len(TargetWidths)
    OBVIOUS
  <2>2. N - 1 \in Nat \ {0}
    BY <1>1, <1>2, <2>1
  <2> QED BY <2>1, <2>2 DEF Widest
<1> QED BY <1>1, <1>2, <1>3, <1>4, <1>5, <1>6

\* The next one is wider.
LEMMA NextIsWider ==
  ASSUME NEW t \in Target, t # Widest
  PROVE  t + 1 \in Target /\ Width(t + 1) \in Nat /\ Width(t + 1) > 0
<1>1. t + 1 \in Target
  BY TargetsAre
<1>2. PICK next : next = t + 1
  OBVIOUS
<1>3. next \in Target /\ t < next
  BY <1>1, <1>2, TargetsAre
<1>4. Width(t) \in Nat /\ Width(next) \in Nat /\ Width(t) < Width(next)
  BY <1>3, TargetsAre
<1> QED BY <1>1, <1>2, <1>4

\* Every target has its turn.
LEMMA OrderIsOfAll ==
  /\ Len(target_order) = Len(TargetWidths)
  /\ \A n \in 1 .. Len(TargetWidths) : target_order[n] \in Target
  /\ \A t \in Target : \E n \in 1 .. Len(TargetWidths) : target_order[n] = t
<1>1. PICK N, D : N = Len(TargetWidths) /\ D = DefaultTarget
  OBVIOUS
<1>2. /\ N \in Nat /\ N > 1 /\ D \in 0 .. N - 1 /\ Target = 0 .. N - 1
  BY <1>1, TargetsAre DEF Widest
<1>3. target_order =
        [n \in 1 .. N |-> IF n = 1 THEN D ELSE IF n - 2 < D THEN n - 2 ELSE n - 1]
  BY <1>1 DEF target_order
<1>4. Len(target_order) = N
  <2>1. target_order \in [1 .. N -> Int]
    BY <1>2, <1>3
  <2> QED BY <1>2, <2>1
<1>5. \A n \in 1 .. N : target_order[n] \in Target
  BY <1>2, <1>3
<1>6. ASSUME NEW t \in Target
      PROVE  \E n \in 1 .. N : target_order[n] = t
  <2>1. CASE t = D
    <3>1. 1 \in 1 .. N /\ target_order[1] = t
      BY <1>2, <1>3, <2>1
    <3> QED BY <3>1
  <2>2. CASE t < D
    <3>1. t + 2 \in 1 .. N /\ target_order[t + 2] = t
      BY <1>2, <1>3, <2>2
    <3> QED BY <3>1
  <2>3. CASE t > D
    <3>1. t + 1 \in 1 .. N /\ target_order[t + 1] = t
      BY <1>2, <1>3, <2>3
    <3> QED BY <3>1
  <2> QED BY <1>2, <2>1, <2>2, <2>3
<1> QED BY <1>1, <1>4, <1>5, <1>6
-----------------------------------------------------------------------------
(* Media queries *)

LEMMA QueryIsFor ==
  ASSUME NEW t \in Target, NEW width \in Nat
  PROVE  Matches(MediaQuery(t), width) <=> t = DefaultTarget \/ IsFor(t, width)
<1>1. Widest \in Nat \ {0} /\ t \in Nat /\ Width(t) \in Nat /\ Widest = Len(TargetWidths) - 1
  BY TargetsAre DEF Widest
<1>2. CASE t = DefaultTarget
  BY <1>2 DEF MediaQuery, Matches
<1>3. CASE t # DefaultTarget /\ t = 0
  <2>1. PICK upper : upper = Width(t + 1)
    OBVIOUS
  <2>2. upper \in Nat /\ upper > 0 /\ t # Widest
    BY <1>1, <1>3, <2>1, NextIsWider
  <2>3. MediaQuery(t) = <<none, upper - 1>>
    BY <1>3, <2>1 DEF MediaQuery, UpperLimit
  <2>4. Matches(MediaQuery(t), width) <=> width =< upper - 1
    BY <2>2, <2>3 DEF Matches, none
  <2> QED BY <1>3, <2>1, <2>2, <2>4 DEF IsFor
<1>4. CASE t # DefaultTarget /\ t # 0 /\ t = Widest
  <2>1. MediaQuery(t) = <<Width(t), none>>
    BY <1>1, <1>4 DEF MediaQuery
  <2>2. Matches(MediaQuery(t), width) <=> Width(t) =< width
    BY <1>1, <2>1 DEF Matches, none
  <2> QED BY <1>4, <2>2 DEF IsFor
<1>5. CASE t # DefaultTarget /\ t # 0 /\ t # Widest
  <2>1. PICK upper : upper = Width(t + 1)
    OBVIOUS
  <2>2. upper \in Nat /\ upper > 0
    BY <1>5, <2>1, NextIsWider
  <2>3. MediaQuery(t) = <<Width(t), upper - 1>>
    BY <1>1, <1>5, <2>1 DEF MediaQuery, UpperLimit
  <2>4. Matches(MediaQuery(t), width) <=> Width(t) =< width /\ width =< upper - 1
    BY <1>1, <2>2, <2>3 DEF Matches, none
  <2> QED BY <1>5, <2>1, <2>2, <2>4 DEF IsFor
<1> QED BY <1>2, <1>3, <1>4, <1>5

\* The targets of a screen are cut off by their widths: just one is for it.
LEMMA OneIsFor ==
  ASSUME NEW width \in Nat
  PROVE  /\ SheetFor(width) \in Target
         /\ \A t \in Target : IsFor(t, width) <=> t = SheetFor(width)
<1> DEFINE fit == {t \in Target : Width(t) =< width}
<1>1. PICK f : f = SheetFor(width)
  OBVIOUS
<1>2. IF fit = {} THEN f = 0 ELSE f \in fit /\ \A t \in fit : f >= t
  <2>1. CASE fit = {}
    BY <1>1, <2>1 DEF SheetFor
  <2>2. CASE fit # {}
    <3>1. \E x \in fit : \A y \in fit : x >= y
      BY <2>2, TargetsAre, GreatestOf
    <3>2. Max(fit) \in fit /\ \A t \in fit : Max(fit) >= t
      BY <3>1 DEF Max
    <3>3. f = Max(fit)
      BY <1>1, <2>2 DEF SheetFor
    <3> QED BY <2>2, <3>2, <3>3
  <2> QED BY <2>1, <2>2
<1>3. /\ f \in Target
      /\ f = 0 \/ Width(f) =< width
      /\ \A t \in Target : Width(t) =< width => t =< f
  BY <1>2, TargetsAre
<1>4. /\ Widest \in Nat /\ Target = 0 .. Widest
      /\ \A t \in Target : t \in Nat /\ Width(t) \in Nat
      /\ \A s, t \in Target : s < t => Width(s) < Width(t)
  BY TargetsAre
<1>5. IsFor(f, width)
  <2>1. CASE f = Widest
    BY <1>3, <2>1 DEF IsFor
  <2>2. CASE f # Widest
    <3>1. PICK next : next = f + 1
      OBVIOUS
    <3>2. next \in Target /\ ~(next =< f)
      BY <1>3, <1>4, <2>2, <3>1
    <3>3. Width(next) \in Nat /\ ~(Width(next) =< width)
      BY <1>3, <1>4, <3>2
    <3> QED BY <1>3, <3>1, <3>3 DEF IsFor
  <2> QED BY <2>1, <2>2
<1>6. ASSUME NEW t \in Target, IsFor(t, width), t # f
      PROVE  FALSE
  <2>1. CASE t < f
    <3>1. PICK next : next = t + 1
      OBVIOUS
    <3>2. next \in Target /\ next =< f /\ t # Widest /\ f # 0
      BY <1>3, <1>4, <2>1, <3>1
    <3>3. width < Width(next) /\ Width(f) =< width
      BY <1>3, <1>6, <3>1, <3>2 DEF IsFor
    <3>4. Width(next) \in Nat /\ Width(f) \in Nat /\ (next = f \/ Width(next) < Width(f))
      BY <1>3, <1>4, <3>2
    <3> QED BY <3>3, <3>4
  <2>2. CASE t > f
    <3>1. t # 0
      BY <1>3, <1>4, <2>2
    <3>2. Width(t) =< width
      BY <1>6, <3>1 DEF IsFor
    <3> QED BY <1>3, <1>4, <2>2, <3>2
  <2> QED BY <1>3, <1>4, <1>6, <2>1, <2>2
<1> QED BY <1>1, <1>3, <1>5, <1>6
-----------------------------------------------------------------------------
(* Style sheets *)

\* A sheet more.
LEMMA SheetDrawnKeeps ==
  ASSUME SheetsInv, SheetDrawn
  PROVE  SheetsInv'
<1>1. PICK N, at, t : N = Len(TargetWidths) /\ at = drawing.at /\ t = CurrentTarget
  OBVIOUS
<1>2. /\ pc = "draw" /\ pc' = "draw" /\ at \in 1 .. N /\ t = target_order[at] /\ N \in Nat
      /\ drawing' = [at |-> at + 1, group |-> 1] /\ p' = p
  BY <1>1, OrderIsOfAll, TargetsAre DEF SheetsInv, SheetDrawn, InSheet, CurrentTarget
<1>3. t \in Target
  BY <1>1, <1>2, OrderIsOfAll
<1>4. /\ DOMAIN sheets' = DOMAIN sheets \cup {t}
      /\ sheets'[t].query = MediaQuery(t)
      /\ \A s \in DOMAIN sheets : s # t => sheets'[s] = sheets[s]
  BY <1>1 DEF SheetDrawn
<1>5. DOMAIN sheets' \subseteq Target /\ \A s \in DOMAIN sheets' : sheets'[s].query = MediaQuery(s)
  BY <1>3, <1>4 DEF SheetsInv
<1>6. \A n \in 1 .. at : target_order[n] \in DOMAIN sheets'
  <2>1. \A n \in 1 .. at - 1 : target_order[n] \in DOMAIN sheets
    BY <1>1, <1>2 DEF SheetsInv
  <2>2. \A n \in 1 .. at : n \in 1 .. at - 1 \/ n = at
    BY <1>2
  <2> QED BY <1>2, <1>4, <2>1, <2>2
<1>7. drawing'.at = at + 1 /\ drawing'.at \in 1 .. N + 1 /\ drawing'.at - 1 = at
      /\ drawing' \in [at : Nat, group : Nat]
  BY <1>2
<1>8. p' \in Nat /\ (p' > 0 => DOMAIN sheets' = Target)
  <2>1. p > 0 => DOMAIN sheets = Target
    BY DEF SheetsInv
  <2> QED BY <1>2, <1>3, <1>4, <2>1 DEF SheetsInv
<1> QED BY <1>1, <1>2, <1>5, <1>6, <1>7, <1>8 DEF SheetsInv, target_order, MediaQuery, UpperLimit

\* The last sheet is drawn.
LEMMA SheetsDrawnKeeps ==
  ASSUME SheetsInv, SheetsDrawn
  PROVE  SheetsInv'
<1>1. PICK N : N = Len(TargetWidths)
  OBVIOUS
<1>2. /\ pc = "draw" /\ pc' = "images" /\ N \in Nat /\ drawing.at \in 1 .. N + 1 /\ ~(drawing.at =< N)
      /\ UNCHANGED <<p, drawing, sheets>>
  BY <1>1, OrderIsOfAll, TargetsAre DEF SheetsInv, SheetsDrawn, InSheet
<1>3. drawing.at - 1 = N
  BY <1>2
<1>4. \A n \in 1 .. N : target_order[n] \in DOMAIN sheets
  BY <1>2, <1>3 DEF SheetsInv
<1>5. DOMAIN sheets = Target
  BY <1>1, <1>4, OrderIsOfAll DEF SheetsInv
<1> QED BY <1>2, <1>5 DEF SheetsInv

\* The first sheet, of this permutation or the next.
LEMMA StartBuildKeeps ==
  ASSUME SheetsInv, StartBuild
  PROVE  SheetsInv'
<1>1. /\ pc' = "draw" /\ drawing' = [at |-> 1, group |-> 1] /\ UNCHANGED <<p, sheets>>
  BY DEF StartBuild
<1>2. drawing'.at = 1 /\ drawing' \in [at : Nat, group : Nat] /\ 1 \in 1 .. Len(TargetWidths) + 1
  BY <1>1, TargetsAre
<1>3. \A n \in 1 .. 1 - 1 : FALSE
  OBVIOUS
<1> QED BY <1>1, <1>2, <1>3 DEF SheetsInv

\* A step that goes on with the same sheet.
LEMMA SameSheetKeeps ==
  ASSUME SheetsInv, UNCHANGED <<p, sheets>>, drawing' \in [at : Nat, group : Nat],
         drawing'.at = drawing.at, pc' = "draw" => pc = "draw", pc' = "images" => pc = "images"
  PROVE  SheetsInv'
BY DEF SheetsInv
-----------------------------------------------------------------------------
\* Sheets have their queries, in every state of main.
THEOREM SheetsInvariant == Spec => []SheetsInv
<1>1. Init => SheetsInv
  <2> SUFFICES ASSUME Init
               PROVE  SheetsInv
    OBVIOUS
  <2>1. /\ pc = "read" /\ p = 0 /\ sheets = << >> /\ drawing = [at |-> 0, group |-> 0]
    BY DEF Init
  <2>2. DOMAIN sheets = {}
    BY <2>1
  <2>3. drawing \in [at : Nat, group : Nat]
    BY <2>1
  <2> QED BY <2>1, <2>2, <2>3 DEF SheetsInv
<1>2. SheetsInv /\ [Next \/ Returned]_vars => SheetsInv'
  <2> SUFFICES ASSUME SheetsInv, [Next \/ Returned]_vars
               PROVE  SheetsInv'
    OBVIOUS
  <2>1. drawing \in [at : Nat, group : Nat]
    BY DEF SheetsInv
  <2>2. CASE ReadRow \/ SiteRead \/ BuildGroup \/ NoBaseGroups \/ GroupsBuilt
    BY <2>1, <2>2, SameSheetKeeps
       DEF ReadRow, SiteRead, BuildGroup, NoBaseGroups, MoreGroups, GroupsBuilt
  <2>3. CASE StartBuild
    BY <2>3, StartBuildKeeps
  <2>4. CASE DrawLeaf
    BY <2>1, <2>4, SameSheetKeeps DEF DrawLeaf, InGroup, InSheet
  <2>5. CASE GroupDrawn
    <3>1. drawing' \in [at : Nat, group : Nat] /\ drawing'.at = drawing.at
      BY <2>1, <2>5 DEF GroupDrawn
    <3> QED BY <2>5, <3>1, SameSheetKeeps DEF GroupDrawn
  <2>6. CASE SheetDrawn
    BY <2>6, SheetDrawnKeeps
  <2>7. CASE SheetsDrawn
    BY <2>7, SheetsDrawnKeeps
  <2>8. CASE ExportImages
    <3>1. pc = "images" /\ UNCHANGED <<drawing, sheets>> /\ pc' \in {"undefined", "build"}
          /\ (p' = p \/ p' = p + 1)
      BY <2>8 DEF ExportImages
    <3>2. DOMAIN sheets = Target /\ p' \in Nat
      BY <3>1 DEF SheetsInv
    <3> QED BY <3>1, <3>2 DEF SheetsInv
  <2>9. CASE Return
    BY <2>1, <2>9, SameSheetKeeps DEF Return
  <2>10. CASE UNCHANGED vars
    BY <2>1, <2>10, SameSheetKeeps DEF vars
  <2> QED BY <2>2, <2>3, <2>4, <2>5, <2>6, <2>7, <2>8, <2>9, <2>10 DEF Next, Returned
<1> QED BY <1>1, <1>2, PTL DEF Spec

\* On every screen the default sheet shows and the one for the widest target
\* that fits, and no other, for any targets that get wider.
THEOREM OneSheetPerWidthCorrect == Spec => []OneSheetPerWidth
<1>1. SheetsInv => OneSheetPerWidth
  <2> SUFFICES ASSUME SheetsInv, p > 0, NEW width \in Devices
               PROVE  {t \in DOMAIN sheets : Matches(sheets[t].query, width)} =
                        {DefaultTarget, SheetFor(width)}
    BY DEF OneSheetPerWidth
  <2>1. DOMAIN sheets = Target /\ \A t \in Target : sheets[t].query = MediaQuery(t)
    BY DEF SheetsInv
  <2>2. width \in Nat
    BY TargetsAssumption
  <2>3. \A t \in Target : Matches(MediaQuery(t), width) <=> t = DefaultTarget \/ t = SheetFor(width)
    BY <2>2, QueryIsFor, OneIsFor
  <2>4. DefaultTarget \in Target /\ SheetFor(width) \in Target
    BY <2>2, TargetsAre, OneIsFor
  <2> QED BY <2>1, <2>3, <2>4
<1> QED BY <1>1, SheetsInvariant, PTL
-----------------------------------------------------------------------------
(* Sections *)

\* The numbers of a finite set are in their places, one in each.
LEMMA NthIs ==
  ASSUME NEW S \in SUBSET Int, IsFiniteSet(S)
  PROVE  /\ Cardinality(S) \in Nat
         /\ \A m \in 1 .. Cardinality(S) : Nth(S, m) \in S
         /\ \A m, n \in 1 .. Cardinality(S) : Nth(S, m) = Nth(S, n) => m = n
         /\ \A x \in S : \E m \in 1 .. Cardinality(S) : Nth(S, m) = x
<1> DEFINE below(x) == {y \in S : y < x}
           N == Cardinality(S)
           rank == [x \in S |-> Cardinality(below(x)) + 1]
<1>1. /\ N \in Nat
      /\ \A x \in S : IsFiniteSet(below(x)) /\ Cardinality(below(x)) \in Nat
  BY FS_CardinalityType, FS_Subset
<1>2. ASSUME NEW x \in S
      PROVE  rank[x] \in 1 .. N
  <2>1. below(x) \in SUBSET S /\ x \notin below(x)
    OBVIOUS
  <2>2. Cardinality(below(x)) =< N /\ Cardinality(below(x)) # N
    BY <2>1, FS_Subset
  <2> QED BY <1>1, <2>2
<1>3. ASSUME NEW x \in S, NEW y \in S, x < y
      PROVE  rank[x] # rank[y]
  <2>1. below(x) \in SUBSET below(y) /\ x \in below(y) /\ x \notin below(x)
    <3>1. \A z \in S : z < x => z < y
      BY <1>3
    <3>2. ~(x < x)
      OBVIOUS
    <3> QED BY <1>3, <3>1, <3>2
  <2>2. Cardinality(below(x)) =< Cardinality(below(y)) /\ Cardinality(below(x)) # Cardinality(below(y))
    BY <1>1, <2>1, FS_Subset
  <2> QED BY <1>1, <2>2
<1> HIDE DEF rank
<1>4. rank \in Injection(S, 1 .. N)
  <2>1. rank \in [S -> 1 .. N]
    BY <1>2 DEF rank
  <2>2. \A x, y \in S : rank[x] = rank[y] => x = y
    <3> SUFFICES ASSUME NEW x \in S, NEW y \in S, x # y
                 PROVE  rank[x] # rank[y]
      OBVIOUS
    <3>1. x < y \/ y < x
      OBVIOUS
    <3> QED BY <1>3, <3>1
  <2> QED BY <2>1, <2>2 DEF Injection, IsInjective
<1>5. rank \in Surjection(S, 1 .. N)
  <2>1. IsFiniteSet(1 .. N) /\ Cardinality(1 .. N) = N
    <3>1. IsFiniteSet(1 .. N) /\ Cardinality(1 .. N) = IF 1 > N THEN 0 ELSE N - 1 + 1
      BY <1>1, FS_Interval
    <3> QED BY <1>1, <3>1
  <2> QED BY <1>4, <2>1, FS_Injection
<1>6. \A m \in 1 .. N : Nth(S, m) \in S /\ Cardinality(below(Nth(S, m))) = m - 1
  <2> SUFFICES ASSUME NEW m \in 1 .. N
               PROVE  Nth(S, m) \in S /\ Cardinality(below(Nth(S, m))) = m - 1
    OBVIOUS
  <2>1. PICK x \in S : rank[x] = m
    BY <1>5 DEF Surjection
  <2>2. Cardinality(below(x)) = m - 1
    BY <1>1, <2>1 DEF rank
  <2> QED BY <2>1, <2>2 DEF Nth
<1>7. ASSUME NEW m \in 1 .. N, NEW n \in 1 .. N, Nth(S, m) = Nth(S, n)
      PROVE  m = n
  <2>1. m - 1 = n - 1
    BY <1>6, <1>7, Zenon
  <2> QED BY <1>1, <2>1
<1>8. ASSUME NEW x \in S
      PROVE  \E m \in 1 .. N : Nth(S, m) = x
  <2>1. PICK m : m = rank[x]
    OBVIOUS
  <2>2. m \in 1 .. N /\ Cardinality(below(x)) = m - 1
    BY <1>1, <1>2, <2>1 DEF rank
  <2>3. Nth(S, m) \in S /\ rank[Nth(S, m)] = m
    BY <1>1, <1>6, <2>2 DEF rank
  <2>4. Nth(S, m) = x
    BY <1>4, <2>1, <2>3 DEF Injection, IsInjective
  <2> QED BY <2>2, <2>4
<1> QED BY <1>1, <1>6, <1>7, <1>8

IsSection(section) ==
  /\ section \in [row : Nat, layout : Int, jpeg : BOOLEAN, width : Int, height : Int]
  /\ \/ section.width > 0 /\ section.height > 0
     \/ section.width = none /\ section.height = none

\* The sections are those of the rows read; when none was disabled, the row of
\* each is its place.
ReadInv ==
  /\ table \in Tables
  /\ read \in 0 .. Len(table.rows) /\ row \in 0 .. read
  /\ IsSequence(sections) /\ \A n \in DOMAIN sections : IsSection(sections[n])
  /\ Len(sections) =< row
  /\ row = Len(sections) => \A n \in DOMAIN sections : sections[n].row = n - 1

\* The table is one that CsvParser gives.
LEMMA TableFacts ==
  ASSUME ReadInv
  PROVE  /\ Len(table.rows) \in Nat /\ Len(table.header) \in Nat
         /\ DOMAIN table.header = 1 .. Len(table.header)
         /\ \A m \in 1 .. Len(table.rows) :
              /\ Len(table.rows[m]) \in Nat
              /\ \A n \in DOMAIN table.header :
                   n =< Len(table.rows[m]) /\ table.rows[m][n] # <<>> =>
                     Holds(table.header[n], table.rows[m][n][1])
         /\ read \in Nat /\ row \in Nat
<1>1. IsTable(table)
  BY TablesAssumption DEF ReadInv
<1>2. table.header \in Seq(Field)
  BY <1>1 DEF IsTable
<1> QED BY <1>1, <1>2 DEF IsTable, ReadInv

\* A record at which the loop over the columns does not stop has a field for all
\* of them.
LEMMA RecordIsWhole ==
  ASSUME ReadInv, MoreRows, Stops = {}
  PROVE  /\ Len(Record) \in Nat /\ Len(Record) >= Len(table.header)
         /\ \A n \in DOMAIN table.header :
              /\ n \in Nat /\ n =< Len(table.header) /\ n =< Len(Record)
              /\ ~Unreadable(Record, n)
<1>1. read + 1 \in 1 .. Len(table.rows)
  BY TableFacts DEF MoreRows, ReadInv
<1>2. PICK N \in Nat, M \in Nat : N = Len(table.header) /\ M = Len(Record)
  BY <1>1, TableFacts DEF Record
<1>3. DOMAIN table.header = 1 .. N
  BY <1>2, TableFacts
<1>4. \A n \in 1 .. N : ~(n > M) /\ ~Unreadable(Record, n)
  BY <1>2, <1>3 DEF Stops, NoField
<1>5. M >= N
  <2>1. CASE N = 0
    BY <2>1
  <2>2. CASE N # 0
    <3>1. N \in 1 .. N
      BY <2>2
    <3> QED BY <1>4, <3>1
  <2> QED BY <2>1, <2>2
<1> QED BY <1>2, <1>3, <1>4, <1>5

\* What is read of a column is what it is for.
LEMMA RecordHolds ==
  ASSUME ReadInv, MoreRows, Stops = {}, NEW n \in DOMAIN table.header, Record[n] # <<>>
  PROVE  Holds(table.header[n], Record[n][1])
<1>1. read + 1 \in 1 .. Len(table.rows)
  BY TableFacts DEF MoreRows, ReadInv
<1>2. n =< Len(Record)
  BY RecordIsWhole
<1> QED BY <1>1, <1>2, TableFacts DEF Record

\* Some columns have a last one.
LEMMA LastColumn ==
  ASSUME ReadInv, NEW S, S \subseteq DOMAIN table.header, S # {}
  PROVE  Max(S) \in S
<1>1. PICK N \in Nat : N = Len(table.header) /\ DOMAIN table.header = 1 .. N
  BY TableFacts
<1>2. S \subseteq 0 .. N
  BY <1>1
<1>3. \E x \in S : \A y \in S : x >= y
  BY <1>1, <1>2, GreatestOf
<1> QED BY <1>3 DEF Max

LEMMA CellHolds ==
  ASSUME ReadInv, MoreRows, Stops = {}, NEW field, NEW default,
         Cell(field, default) # default
  PROVE  Holds(field, Cell(field, default))
<1>1. PICK filled : filled = Filled(field)
  OBVIOUS
<1>2. filled # {} /\ Cell(field, default) = Record[Max(filled)][1]
  BY <1>1 DEF Cell
<1>3. Max(filled) \in filled
  BY <1>1, <1>2, LastColumn DEF Filled
<1>4. PICK n \in DOMAIN table.header :
        n = Max(filled) /\ table.header[n] = field /\ Record[n] # <<>>
  BY <1>1, <1>3 DEF Filled
<1> QED BY <1>2, <1>4, RecordHolds

\* A column that tells a size tells one of a width and a height.
LEMMA SizeIs ==
  ASSUME ReadInv, MoreRows, Stops = {}, NEW n \in Sized
  PROVE  /\ SizeIn(n)[1] \in Int /\ SizeIn(n)[2] \in Int
         /\ SizeIn(n)[1] > 0 /\ SizeIn(n)[2] > 0
<1>1. n \in DOMAIN table.header /\ Record[n] # <<>> /\ Holds(table.header[n], Record[n][1])
  BY RecordHolds DEF Sized, Filled
<1>2. CASE table.header[n] = "dimensions"
  <2>1. Record[n][1] \in (Nat \ {0}) \X (Nat \ {0})
    BY <1>1, <1>2 DEF Holds
  <2> QED BY <1>2, <2>1 DEF SizeIn
<1>3. CASE table.header[n] # "dimensions"
  <2>1. table.header[n] = "poster" /\ Record[n][1].jpeg
    BY <1>3 DEF Sized, Filled
  <2>2. PICK poster : poster = Record[n][1]
    OBVIOUS
  <2>3. /\ poster.width \in Int /\ poster.height \in Int
        /\ \/ poster.width > 0 /\ poster.height > 0
           \/ poster.width = none /\ poster.height = none
    BY <1>1, <2>1, <2>2 DEF Holds
  <2>4. poster.width # none
    <3>1. ~NoField(Record, n) /\ ~Unreadable(Record, n)
      BY <1>1, RecordIsWhole DEF NoField
    <3> QED BY <1>1, <2>1, <2>2, <3>1 DEF Unreadable, HasPoster
  <2> QED BY <1>3, <2>2, <2>3, <2>4 DEF SizeIn
<1> QED BY <1>2, <1>3

\* A row at which the loop over the columns does not stop is read as a section.
LEMMA SectionIs ==
  ASSUME ReadInv, MoreRows, Stops = {}
  PROVE  IsSection(Section) /\ Section.row = row
<1> DEFINE unread == [dot |-> FALSE, jpeg |-> FALSE, width |-> none, height |-> none]
<1>1. PICK poster : poster = Cell("poster", unread)
  OBVIOUS
<1>2. PICK size : size = IF Sized = {} THEN <<none, none>> ELSE SizeIn(Max(Sized))
  OBVIOUS
<1>3. PICK layout : layout = Cell("layout", none)
  OBVIOUS
<1>4. poster.dot \in BOOLEAN /\ poster.jpeg \in BOOLEAN
  <2>1. CASE poster # unread
    <3>1. Holds("poster", poster)
      BY <1>1, <2>1, CellHolds
    <3> QED BY <3>1 DEF Holds
  <2>2. CASE poster = unread
    BY <2>2
  <2> QED BY <2>1, <2>2
<1>5. /\ size[1] \in Int /\ size[2] \in Int
      /\ \/ size[1] > 0 /\ size[2] > 0
         \/ size[1] = none /\ size[2] = none
  <2>1. CASE Sized = {}
    BY <1>2, <2>1 DEF none
  <2>2. CASE Sized # {}
    <3>1. Sized \subseteq DOMAIN table.header
      BY DEF Sized, Filled
    <3>2. PICK n \in Sized : n = Max(Sized)
      BY <2>2, <3>1, LastColumn
    <3> QED BY <1>2, <2>2, <3>2, SizeIs
  <2> QED BY <2>1, <2>2
<1>6. layout \in Int
  <2>1. CASE layout # none
    <3>1. Holds("layout", layout)
      BY <1>3, <2>1, CellHolds
    <3> QED BY <3>1 DEF Holds
  <2> QED BY <2>1 DEF none
<1>7. Section = [row |-> row, layout |-> layout, jpeg |-> poster.dot /\ poster.jpeg,
                 width |-> size[1], height |-> size[2]]
  BY <1>1, <1>2, <1>3 DEF Section
<1>8. row \in Nat
  BY TableFacts
<1>9. (poster.dot /\ poster.jpeg) \in BOOLEAN
  BY <1>4
<1> QED BY <1>5, <1>6, <1>7, <1>8, <1>9 DEF IsSection

\* A row more, enabled or disabled.
LEMMA ReadRowReads ==
  ASSUME ReadInv, ReadRow
  PROVE  ReadInv'
<1>1. /\ MoreRows /\ read' = read + 1 /\ table' = table /\ read + 1 \in 1 .. Len(table.rows)
      /\ read \in Nat /\ row \in Nat /\ row \in 0 .. read /\ Len(sections) =< row
  BY TableFacts DEF ReadInv, ReadRow, MoreRows
<1>2. IsSequence(sections) /\ Len(sections) \in Nat /\ DOMAIN sections = 1 .. Len(sections)
  <2>1. IsSequence(sections)
    BY DEF ReadInv
  <2> QED BY <2>1 DEF IsSequence
<1>3. PICK N \in Nat, r \in Nat : N = Len(sections) /\ r = row /\ N =< r
  BY <1>1, <1>2
<1>4. CASE UNCHANGED <<row, sections>>
  BY <1>1, <1>4, TableFacts DEF ReadInv, IsSequence
<1>5. CASE row' = row + 1 /\ sections' = sections
  <2>1. row' # Len(sections') /\ Len(sections') =< row'
    <3>1. Len(sections') = N /\ row' = r + 1
      BY <1>5, <1>3
    <3> QED BY <1>3, <3>1
  <2>2. IsSequence(sections') /\ \A n \in DOMAIN sections' : IsSection(sections'[n])
    BY <1>5 DEF ReadInv, IsSequence
  <2>3. table' \in Tables /\ read' \in 0 .. Len(table'.rows) /\ row' \in 0 .. read'
    BY <1>1, <1>5, TableFacts DEF ReadInv
  <2> QED BY <2>1, <2>2, <2>3 DEF ReadInv
<1>6. CASE Stops = {} /\ row' = row + 1 /\ sections' = Append(sections, Section)
  <2>1. PICK s : s = Section
    OBVIOUS
  <2>2. IsSection(s) /\ s.row = row
    BY <1>1, <1>6, <2>1, SectionIs
  <2>3. /\ IsSequence(sections') /\ Len(sections') = Len(sections) + 1
        /\ DOMAIN sections' = 1 .. Len(sections) + 1
        /\ \A n \in 1 .. Len(sections) : sections'[n] = sections[n]
        /\ sections'[Len(sections) + 1] = s
    <3> DEFINE T == {sections[n] : n \in DOMAIN sections} \cup {s}
    <3>1. sections \in Seq(T) /\ s \in T
      BY <1>2 DEF IsSequence
    <3> HIDE DEF T
    <3>2. IsSequence(Append(sections, s))
      BY <1>2, AppendedElements
    <3> QED BY <1>6, <2>1, <3>1, <3>2
  <2>4. \A n \in DOMAIN sections' : n \in DOMAIN sections \/ n = Len(sections) + 1
    BY <1>2, <2>3
  <2>5. ASSUME NEW n \in DOMAIN sections'
        PROVE  IsSection(sections'[n])
    <3>1. CASE n \in DOMAIN sections
      BY <1>2, <2>3, <3>1 DEF ReadInv
    <3>2. CASE n = Len(sections) + 1
      <4>1. sections'[n] = s
        BY <2>3, <3>2, Zenon
      <4> QED BY <2>2, <4>1
    <3> QED BY <2>4, <3>1, <3>2
  <2>6. row' = Len(sections') => \A n \in DOMAIN sections' : sections'[n].row = n - 1
    <3> SUFFICES ASSUME row' = Len(sections'), NEW n \in DOMAIN sections'
                 PROVE  sections'[n].row = n - 1
      OBVIOUS
    <3>1. row = Len(sections)
      <4>1. row' = r + 1 /\ Len(sections') = N + 1
        BY <1>6, <1>3, <2>3
      <4>2. r + 1 = N + 1
        BY <4>1
      <4>3. r = N
        BY <1>3, <4>2
      <4> QED BY <1>3, <4>3
    <3>2. CASE n \in DOMAIN sections
      BY <1>2, <2>3, <3>1, <3>2 DEF ReadInv
    <3>3. CASE n = Len(sections) + 1
      <4>1. sections'[n] = s /\ n = N + 1 /\ row = N
        BY <1>3, <2>3, <3>1, <3>3, Zenon
      <4> QED BY <1>3, <2>2, <4>1
    <3> QED BY <2>4, <3>2, <3>3
  <2>7. row' \in 0 .. read' /\ Len(sections') =< row' /\ read' \in 0 .. Len(table'.rows)
    BY <1>1, <1>2, <1>6, <2>3
  <2> QED BY <1>1, <2>3, <2>5, <2>6, <2>7 DEF ReadInv
<1> QED BY <1>4, <1>5, <1>6 DEF ReadRow
-----------------------------------------------------------------------------
(* Layout groups *)

Row(n) == GroupOf(LayoutIds[n])[1].row
Size(n) == Cardinality(Places(LayoutIds[n]))

\* The leaves are those of a layout of the n-th group.
IsDrawable(from, n) ==
  /\ Row(n) \in Nat /\ Size(n) \in Nat
  /\ from \in Seq([label : Row(n) .. Row(n) + Size(n) - 1,
                   left : Int, top : Nat, right : Int, bottom : Nat])
  /\ \A l \in Row(n) .. Row(n) + Size(n) - 1 : \E k \in DOMAIN from : from[k].label = l
  /\ \A k \in DOMAIN from : from[k].left < from[k].right /\ from[k].top < from[k].bottom
  /\ \A j, k \in DOMAIN from : j # k => from[j].label # from[k].label /\ Apart(from[j], from[k])

From(n, t) == all_layouts[n][t][1]

\* Groups have one layout at least for every target, as long as main goes on.
LayoutsInv ==
  /\ IsSequence(all_layouts)
  /\ layout_permutations \in Nat
  /\ pc = "read" => all_layouts = <<>>
  /\ pc = "layouts" => Len(all_layouts) =< Len(LayoutIds)
  /\ pc \in {"build", "draw", "images", "done"} => Len(all_layouts) = Len(LayoutIds)
  /\ pc \in {"layouts", "build", "draw", "images", "done"} =>
       \A n \in DOMAIN all_layouts, t \in Target : IsDrawable(From(n, t), n)

\* How many groups there are, and sections in each.
LEMMA PlacesAre ==
  ASSUME ReadInv
  PROVE  /\ Len(sections) \in Nat /\ DOMAIN sections = 1 .. Len(sections)
         /\ IsFiniteSet(Ids) /\ Ids \in SUBSET Int /\ Cardinality(Ids) \in Nat
         /\ Len(LayoutIds) = Cardinality(Ids) /\ DOMAIN LayoutIds = 1 .. Cardinality(Ids)
         /\ \A id : /\ Places(id) \in SUBSET Int /\ IsFiniteSet(Places(id))
                    /\ Cardinality(Places(id)) \in Nat /\ Cardinality(Places(id)) =< Len(sections)
                    /\ Len(GroupOf(id)) = Cardinality(Places(id))
                    /\ DOMAIN GroupOf(id) = 1 .. Cardinality(Places(id))
<1>1. PICK N \in Nat : N = Len(sections) /\ DOMAIN sections = 1 .. N
  <2>1. IsSequence(sections)
    BY DEF ReadInv
  <2> QED BY <2>1 DEF IsSequence
<1>2. IsFiniteSet(1 .. N) /\ Cardinality(1 .. N) = N
  <2>1. IsFiniteSet(1 .. N) /\ Cardinality(1 .. N) = IF 1 > N THEN 0 ELSE N - 1 + 1
    BY FS_Interval
  <2> QED BY <2>1
<1>3. ASSUME NEW id
      PROVE  /\ Places(id) \in SUBSET Int /\ IsFiniteSet(Places(id))
             /\ Cardinality(Places(id)) \in Nat /\ Cardinality(Places(id)) =< N
  <2>1. Places(id) \in SUBSET (1 .. N)
    BY <1>1 DEF Places
  <2>2. IsFiniteSet(Places(id)) /\ Cardinality(Places(id)) =< N
    BY <1>2, <2>1, FS_Subset
  <2>3. Cardinality(Places(id)) \in Nat
    BY <2>2, FS_CardinalityType
  <2>4. 1 .. N \subseteq Int
    OBVIOUS
  <2> QED BY <2>1, <2>2, <2>3, <2>4
<1>4. ASSUME NEW id
      PROVE  /\ Len(GroupOf(id)) = Cardinality(Places(id))
             /\ DOMAIN GroupOf(id) = 1 .. Cardinality(Places(id))
  <2>1. PICK m \in Nat : m = Cardinality(Places(id))
    BY <1>3
  <2>2. PICK group : group = GroupOf(id)
    OBVIOUS
  <2>3. group = [n \in 1 .. m |-> sections[Nth(Places(id), n)]]
    BY <2>1, <2>2 DEF GroupOf
  <2>4. DOMAIN group = 1 .. m
    BY <2>3
  <2>5. group \in Seq({group[n] : n \in 1 .. m})
    BY <2>3
  <2>6. Len(group) = m
    BY <2>4, <2>5
  <2> QED BY <2>1, <2>2, <2>4, <2>6
<1>5. IsFiniteSet(Ids) /\ Ids \in SUBSET Int
  <2> DEFINE some == {m \in DOMAIN sections : sections[m].layout > none}
             idOf(n) == sections[n].layout
  <2>1. some \in SUBSET (1 .. N)
    BY <1>1
  <2>2. IsFiniteSet(some)
    BY <1>2, <2>1, FS_Subset
  <2>3. IsFiniteSet({idOf(n) : n \in some})
    <3> DEFINE ids == {idOf(n) : n \in some}
               f == [n \in some |-> idOf(n)]
    <3>1. f \in Surjection(some, ids)
      <4> HIDE DEF some
      <4> QED BY DEF Surjection
    <3> HIDE DEF f, ids, some
    <3>2. IsFiniteSet(ids)
      BY <2>2, <3>1, FS_Surjection
    <3> QED BY <3>2 DEF ids
  <2>4. \A n \in some : idOf(n) \in Int
    BY DEF ReadInv, IsSection
  <2> QED BY <2>3, <2>4 DEF Ids
<1>6. Cardinality(Ids) \in Nat
  BY <1>5, FS_CardinalityType
<1>7. Len(LayoutIds) = Cardinality(Ids) /\ DOMAIN LayoutIds = 1 .. Cardinality(Ids)
  <2>1. PICK m \in Nat : m = Cardinality(Ids)
    BY <1>6
  <2>2. PICK ids : ids = LayoutIds
    OBVIOUS
  <2>3. ids = [n \in 1 .. m |-> Nth(Ids, n)]
    BY <2>1, <2>2 DEF LayoutIds
  <2>4. DOMAIN ids = 1 .. m
    BY <2>3
  <2>5. ids \in Seq({ids[n] : n \in 1 .. m})
    BY <2>3
  <2>6. Len(ids) = m
    BY <2>4, <2>5
  <2> QED BY <2>1, <2>2, <2>4, <2>6
<1> QED BY <1>1, <1>3, <1>4, <1>5, <1>6, <1>7

\* Groups have their own ids.
LEMMA IdsAre ==
  ASSUME ReadInv
  PROVE  /\ \A n \in DOMAIN LayoutIds : LayoutIds[n] \in Ids
         /\ \A m, n \in DOMAIN LayoutIds : LayoutIds[m] = LayoutIds[n] => m = n
         /\ \A id \in Ids : \E n \in DOMAIN LayoutIds : LayoutIds[n] = id
<1>1. DOMAIN LayoutIds = 1 .. Cardinality(Ids) /\ \A n \in 1 .. Cardinality(Ids) : LayoutIds[n] = Nth(Ids, n)
  BY PlacesAre DEF LayoutIds
<1>2. IsFiniteSet(Ids) /\ Ids \in SUBSET Int
  BY PlacesAre
<1> QED BY <1>1, <1>2, NthIs

\* A section of a group is in its place in the page.
LEMMA GroupsAre ==
  ASSUME ReadInv, NEW id
  PROVE  /\ \A m \in DOMAIN GroupOf(id) : \E n \in Places(id) : GroupOf(id)[m] = sections[n]
         /\ \A n \in Places(id) : \E m \in DOMAIN GroupOf(id) : GroupOf(id)[m] = sections[n]
<1>1. /\ DOMAIN GroupOf(id) = 1 .. Cardinality(Places(id))
      /\ \A m \in 1 .. Cardinality(Places(id)) : GroupOf(id)[m] = sections[Nth(Places(id), m)]
  BY PlacesAre DEF GroupOf
<1>2. IsFiniteSet(Places(id)) /\ Places(id) \in SUBSET Int
  BY PlacesAre
<1>3. /\ \A m \in 1 .. Cardinality(Places(id)) : Nth(Places(id), m) \in Places(id)
      /\ \A x \in Places(id) : \E m \in 1 .. Cardinality(Places(id)) : Nth(Places(id), m) = x
  BY <1>2, NthIs
<1> QED BY <1>1, <1>3

\* Drawn as it was laid out, a group has the rows from its first on.
LEMMA RowsAre ==
  ASSUME ReadInv, Contiguous, NEW n \in DOMAIN LayoutIds
  PROVE  /\ Row(n) \in Nat /\ Size(n) \in Nat /\ Size(n) >= 3
         /\ \A m \in 1 .. Size(n) : GroupOf(LayoutIds[n])[m].row = Row(n) + m - 1
         /\ \A l \in Row(n) .. Row(n) + Size(n) - 1 :
              /\ l + 1 \in DOMAIN sections /\ l \in Nat
              /\ sections[l + 1].row = l /\ sections[l + 1].layout = LayoutIds[n]
              /\ sections[l + 1].width # none
<1>1. PICK id, group : id = LayoutIds[n] /\ group = GroupOf(id)
  OBVIOUS
<1>2. PICK size \in Nat : size = Size(n) /\ DOMAIN group = 1 .. size /\ Len(group) = size
  BY <1>1, PlacesAre DEF Size
<1>3. size >= 3 /\ \A m \in 1 .. size : group[m].row = group[1].row + m - 1
  BY <1>1, <1>2 DEF Contiguous
<1>4. /\ DOMAIN sections = 1 .. Len(sections) /\ Len(sections) \in Nat
      /\ \A q \in DOMAIN sections : sections[q].row = q - 1 /\ sections[q].width # none
  BY PlacesAre DEF ReadInv, Contiguous
<1>5. PICK row_n : row_n = Row(n) /\ row_n = group[1].row
  BY <1>1 DEF Row
<1>6. ASSUME NEW m \in 1 .. size
      PROVE  \E q \in DOMAIN sections : /\ group[m].row = q - 1 /\ sections[q].row = q - 1
                                        /\ sections[q].layout = id /\ sections[q].width # none
  <2>1. PICK q \in Places(id) : group[m] = sections[q]
    <3>1. \A k \in DOMAIN GroupOf(id) : \E q \in Places(id) : GroupOf(id)[k] = sections[q]
      BY GroupsAre
    <3>2. m \in DOMAIN GroupOf(id)
      BY <1>1, <1>2
    <3> QED BY <1>1, <3>1, <3>2, Zenon
  <2>2. q \in DOMAIN sections /\ sections[q].layout = id
    BY <2>1 DEF Places
  <2> QED BY <1>4, <2>1, <2>2
<1>7. row_n \in Nat
  <2>1. 1 \in 1 .. size
    BY <1>2, <1>3
  <2>2. PICK q \in DOMAIN sections : group[1].row = q - 1
    BY <1>6, <2>1
  <2>3. q \in 1 .. Len(sections)
    BY <1>4
  <2> QED BY <1>5, <2>2, <2>3
<1>8. ASSUME NEW l \in row_n .. row_n + size - 1
      PROVE  /\ l + 1 \in DOMAIN sections /\ l \in Nat
             /\ sections[l + 1].row = l /\ sections[l + 1].layout = id
             /\ sections[l + 1].width # none
  <2>1. PICK m \in 1 .. size : l = row_n + m - 1
    <3>1. l - row_n + 1 \in 1 .. size /\ l = row_n + (l - row_n + 1) - 1
      BY <1>7
    <3> QED BY <3>1
  <2>2. group[m].row = l
    BY <1>3, <1>5, <2>1
  <2>3. PICK q \in DOMAIN sections : /\ l = q - 1 /\ sections[q].row = q - 1
                                     /\ sections[q].layout = id /\ sections[q].width # none
    BY <1>6, <2>2
  <2>4. q = l + 1 /\ l \in Nat
    <3>1. q \in 1 .. Len(sections)
      BY <1>4
    <3> QED BY <1>4, <2>3, <3>1
  <2> QED BY <2>3, <2>4
<1> QED BY <1>1, <1>2, <1>3, <1>5, <1>7, <1>8

\* No row is in two groups.
LEMMA RowsDiffer ==
  ASSUME ReadInv, Contiguous, NEW m \in DOMAIN LayoutIds, NEW n \in DOMAIN LayoutIds,
         NEW l, l \in Row(m) .. Row(m) + Size(m) - 1, l \in Row(n) .. Row(n) + Size(n) - 1
  PROVE  m = n
<1>1. sections[l + 1].layout = LayoutIds[m] /\ sections[l + 1].layout = LayoutIds[n]
  BY RowsAre
<1> QED BY <1>1, IdsAre

\* A section with a layout is in a group.
LEMMA EveryRowHasAGroup ==
  ASSUME ReadInv, Contiguous, NEW q \in DOMAIN sections, sections[q].layout > none
  PROVE  \E n \in DOMAIN LayoutIds : q - 1 \in Row(n) .. Row(n) + Size(n) - 1
<1>1. sections[q].layout \in Ids
  BY DEF Ids
<1>2. PICK n \in DOMAIN LayoutIds : LayoutIds[n] = sections[q].layout
  BY <1>1, IdsAre
<1>3. q \in Places(LayoutIds[n])
  BY <1>2 DEF Places
<1>4. PICK m \in DOMAIN GroupOf(LayoutIds[n]) : GroupOf(LayoutIds[n])[m] = sections[q]
  BY <1>3, GroupsAre
<1>5. m \in 1 .. Size(n) /\ sections[q].row = q - 1
  BY <1>4, PlacesAre DEF Size, ReadInv, Contiguous
<1>6. q - 1 = Row(n) + m - 1
  BY <1>4, <1>5, RowsAre
<1>7. Row(n) \in Nat /\ Size(n) \in Nat
  BY RowsAre
<1> QED BY <1>5, <1>6, <1>7
-----------------------------------------------------------------------------
(* Laying groups out *)

\* A layout with its labels moved to the rows of its group.
LEMMA OffsetIsDrawable ==
  ASSUME NEW n, NEW layout, Row(n) \in Nat, Size(n) \in Nat, IsLayout(layout, Size(n))
  PROVE  IsDrawable(OffsetLabels(layout, Row(n)), n)
<1>1. PICK r \in Nat, size \in Nat : r = Row(n) /\ size = Size(n)
  OBVIOUS
<1> DEFINE from == OffsetLabels(layout, r)
           old == [label : 0 .. size - 1, left : Int, top : Nat, right : Int, bottom : Nat]
           new == [label : r .. r + size - 1, left : Int, top : Nat, right : Int, bottom : Nat]
<1>2. /\ layout \in Seq(old)
      /\ \A l \in 0 .. size - 1 : \E k \in DOMAIN layout : layout[k].label = l
      /\ \A k \in DOMAIN layout :
           layout[k].left < layout[k].right /\ layout[k].top < layout[k].bottom
      /\ \A j, k \in DOMAIN layout :
           j # k => layout[j].label # layout[k].label /\ Apart(layout[j], layout[k])
  BY <1>1 DEF IsLayout
<1>3. PICK N \in Nat : N = Len(layout) /\ DOMAIN layout = 1 .. N
  <2> HIDE DEF old
  <2> QED BY <1>2
<1>4. \A k \in 1 .. N : layout[k] \in old
  <2> HIDE DEF old
  <2> QED BY <1>2, <1>3
<1>5. from = [k \in 1 .. N |-> [layout[k] EXCEPT !.label = @ + r]]
  BY <1>3 DEF OffsetLabels
<1>6. ASSUME NEW k \in 1 .. N
      PROVE  /\ from[k] \in new
             /\ from[k].label = layout[k].label + r
             /\ from[k].left = layout[k].left /\ from[k].right = layout[k].right
             /\ from[k].top = layout[k].top /\ from[k].bottom = layout[k].bottom
  <2>1. from[k] = [layout[k] EXCEPT !.label = @ + r]
    BY <1>5
  <2>2. PICK leaf \in old : leaf = layout[k]
    BY <1>4
  <2>3. leaf.label + r \in r .. r + size - 1
    <3>1. leaf.label \in 0 .. size - 1
      OBVIOUS
    <3> QED BY <3>1
  <2> HIDE DEF from
  <2> QED BY <2>1, <2>2, <2>3
<1>7. DOMAIN from = 1 .. N
  BY <1>5
<1>8. from \in Seq(new)
  <2>1. from \in [1 .. N -> new]
    <3>1. from = [k \in 1 .. N |-> from[k]]
      BY <1>5
    <3> HIDE DEF from, new
    <3> QED BY <1>6, <3>1
  <2> HIDE DEF from, new
  <2> QED BY <2>1
<1> HIDE DEF from
<1>9. ASSUME NEW l \in r .. r + size - 1
      PROVE  \E k \in DOMAIN from : from[k].label = l
  <2>1. l - r \in 0 .. size - 1
    OBVIOUS
  <2>2. PICK k \in 1 .. N : layout[k].label = l - r
    BY <1>2, <1>3, <2>1
  <2>3. from[k].label = l
    BY <1>6, <2>2
  <2> QED BY <1>7, <2>3
<1>10. \A k \in DOMAIN from : from[k].left < from[k].right /\ from[k].top < from[k].bottom
  BY <1>2, <1>3, <1>6, <1>7
<1>11. ASSUME NEW j \in DOMAIN from, NEW k \in DOMAIN from, j # k
       PROVE  from[j].label # from[k].label /\ Apart(from[j], from[k])
  <2>1. j \in 1 .. N /\ k \in 1 .. N
    BY <1>7
  <2>2. layout[j].label # layout[k].label /\ Apart(layout[j], layout[k])
    BY <1>2, <1>3, <1>11, <2>1
  <2>3. layout[j].label \in Int /\ layout[k].label \in Int
    BY <1>4, <2>1
  <2>4. from[j].label # from[k].label
    BY <1>6, <2>1, <2>2, <2>3
  <2>5. Apart(from[j], from[k])
    BY <1>6, <2>1, <2>2 DEF Apart
  <2> QED BY <2>4, <2>5
<1>12. IsDrawable(from, n)
  BY <1>1, <1>8, <1>9, <1>10, <1>11 DEF IsDrawable
<1> QED BY <1>1, <1>12 DEF from

\* The same sections are in the same groups.
LEMMA SameGroups ==
  ASSUME sections' = sections
  PROVE  /\ LayoutIds' = LayoutIds
         /\ \A from, n : IsDrawable(from, n)' <=> IsDrawable(from, n)
         /\ \A n : Row(n)' = Row(n) /\ Size(n)' = Size(n)
<1>1. Ids' = Ids /\ \A id : Places(id)' = Places(id)
  BY DEF Ids, Places
<1>2. LayoutIds' = LayoutIds
  BY <1>1 DEF LayoutIds
<1>3. \A id : GroupOf(id)' = GroupOf(id)
  BY <1>1 DEF GroupOf
<1>4. \A n : Row(n)' = Row(n) /\ Size(n)' = Size(n)
  BY <1>1, <1>2, <1>3 DEF Row, Size
<1> QED BY <1>2, <1>4 DEF IsDrawable

\* The least of two and more lengths.
LEMMA LeastOf ==
  ASSUME NEW S, S \in SUBSET Nat, S # {}
  PROVE  Min(S) \in S /\ \A x \in S : Min(S) =< x
<1>1. \E x \in S : \A y \in S : x =< y
  BY Smallest
<1> QED BY <1>1 DEF Min

\* A group more has a layout for every target, or main stops.
LEMMA BuildGroupKeeps ==
  ASSUME ReadInv, LayoutsInv, BuildGroup
  PROVE  LayoutsInv'
<1>1. PICK built \in Nat : built = Len(all_layouts) /\ DOMAIN all_layouts = 1 .. built
  <2>1. IsSequence(all_layouts)
    BY DEF LayoutsInv
  <2> QED BY <2>1 DEF IsSequence
<1>2. PICK n \in Nat : n = built + 1
  BY <1>1
<1>3. pc = "layouts" /\ n \in DOMAIN LayoutIds /\ sections' = sections
  <2>1. pc = "layouts" /\ built < Len(LayoutIds) /\ sections' = sections
    BY <1>1 DEF BuildGroup, MoreGroups
  <2>2. Len(LayoutIds) \in Nat /\ DOMAIN LayoutIds = 1 .. Len(LayoutIds)
    BY PlacesAre
  <2> QED BY <1>2, <2>1, <2>2
<1>4. PICK group : group = GroupOf(LayoutIds[n])
  OBVIOUS
<1>5. Len(group) = Size(n) /\ Size(n) \in Nat /\ DOMAIN group = 1 .. Size(n)
      /\ Size(n) =< Len(table.rows)
  <2>1. /\ Len(group) = Size(n) /\ Size(n) \in Nat /\ DOMAIN group = 1 .. Size(n)
        /\ Size(n) =< Len(sections) /\ Len(sections) \in Nat
    BY <1>4, PlacesAre DEF Size
  <2>2. Len(sections) =< row /\ row \in 0 .. read /\ read \in 0 .. Len(table.rows)
        /\ read \in Nat /\ row \in Nat /\ Len(table.rows) \in Nat
    BY TableFacts DEF ReadInv
  <2> QED BY <2>1, <2>2
<1>6. ASSUME Len(group) >= 3, NEW layouts \in LayoutsOf[Len(group)],
             layout_permutations' = Min({layout_permutations} \cup {Len(layouts[t]) : t \in Target}),
             pc' = IF layout_permutations' = 0 THEN "aborted" ELSE pc,
             all_layouts' = Append(all_layouts, [t \in Target |->
               [k \in DOMAIN layouts[t] |-> OffsetLabels(layouts[t][k], group[1].row)]])
      PROVE  LayoutsInv'
  <2>1. Len(group) \in DOMAIN LayoutsOf
    <3>1. 3 .. Len(table.rows) \subseteq DOMAIN LayoutsOf
      BY TablesAssumption DEF ReadInv
    <3>2. Size(n) \in 3 .. Len(table.rows)
      <4>1. Len(table.rows) \in Nat
        BY TableFacts
      <4> QED BY <1>5, <1>6, <4>1
    <3> QED BY <1>5, <3>1, <3>2
  <2>2. \A t \in Target : /\ layouts[t] \in Seq(Range(layouts[t]))
                          /\ \A layout \in Range(layouts[t]) : IsLayout(layout, Len(group))
    BY <1>6, <2>1, LayoutsAssumption
  <2>3. \A t \in Target : Len(layouts[t]) \in Nat /\ DOMAIN layouts[t] = 1 .. Len(layouts[t])
    BY <2>2
  <2> DEFINE S == {layout_permutations} \cup {Len(layouts[t]) : t \in Target}
             added == [t \in Target |->
               [k \in DOMAIN layouts[t] |-> OffsetLabels(layouts[t][k], group[1].row)]]
  <2>4. Min(S) \in S /\ (\A x \in S : Min(S) =< x) /\ S \in SUBSET Nat
    <3>1. S \in SUBSET Nat /\ S # {}
      BY <2>3 DEF LayoutsInv
    <3> HIDE DEF S
    <3> QED BY <3>1, LeastOf
  <2>5. layout_permutations' \in Nat
        /\ (layout_permutations' # 0 => \A t \in Target : Len(layouts[t]) >= 1)
    <3>1. layout_permutations' = Min(S)
      BY <1>6
    <3>2. \A t \in Target : Len(layouts[t]) \in S
      OBVIOUS
    <3> HIDE DEF S
    <3>3. Min(S) \in Nat
      BY <2>4
    <3>4. ASSUME Min(S) # 0, NEW t \in Target
          PROVE  Len(layouts[t]) >= 1
      <4>1. Min(S) =< Len(layouts[t]) /\ Len(layouts[t]) \in Nat
        BY <2>3, <2>4, <3>2
      <4> QED BY <3>3, <3>4, <4>1
    <3> QED BY <3>1, <3>3, <3>4
  <2>6. Row(n) = group[1].row /\ Row(n) \in Nat
    <3>1. Row(n) = group[1].row
      BY <1>4 DEF Row
    <3>2. 1 \in DOMAIN group
      BY <1>5, <1>6
    <3>3. PICK q \in Places(LayoutIds[n]) : group[1] = sections[q]
      <4>1. \A m \in DOMAIN GroupOf(LayoutIds[n]) :
              \E q \in Places(LayoutIds[n]) : GroupOf(LayoutIds[n])[m] = sections[q]
        BY GroupsAre
      <4> QED BY <1>4, <3>2, <4>1, Zenon
    <3>4. q \in DOMAIN sections
      BY <3>3 DEF Places
    <3> QED BY <3>1, <3>3, <3>4 DEF ReadInv, IsSection
  <2> HIDE DEF added, S
  <2>7. /\ IsSequence(all_layouts') /\ Len(all_layouts') = n /\ DOMAIN all_layouts' = 1 .. n
        /\ \A m \in 1 .. built : all_layouts'[m] = all_layouts[m]
        /\ all_layouts'[n] = added
    <3> DEFINE T == {all_layouts[m] : m \in DOMAIN all_layouts} \cup {added}
    <3>1. all_layouts \in Seq(T) /\ added \in T
      BY DEF IsSequence, LayoutsInv
    <3>2. all_layouts' = Append(all_layouts, added)
      BY <1>6 DEF added
    <3> HIDE DEF T
    <3>3. IsSequence(Append(all_layouts, added))
      BY AppendedElements DEF LayoutsInv
    <3> QED BY <1>1, <1>2, <3>1, <3>2, <3>3
  <2>8. ASSUME layout_permutations' # 0, NEW t \in Target
        PROVE  IsDrawable(added[t][1], n)
    <3>1. 1 \in DOMAIN layouts[t] /\ layouts[t][1] \in Range(layouts[t])
      <4>1. 1 \in 1 .. Len(layouts[t])
        BY <2>3, <2>5, <2>8
      <4> QED BY <2>3, <4>1 DEF Range
    <3>2. IsLayout(layouts[t][1], Size(n))
      BY <1>5, <2>2, <3>1
    <3>3. added[t][1] = OffsetLabels(layouts[t][1], Row(n))
      BY <2>6, <3>1 DEF added
    <3> QED BY <1>5, <2>6, <3>2, <3>3, OffsetIsDrawable
  <2>9. LayoutIds' = LayoutIds /\ \A from, m : IsDrawable(from, m)' <=> IsDrawable(from, m)
    BY <1>3, SameGroups
  <2>10. pc' \in {"aborted", "layouts"} /\ (pc' = "layouts" => layout_permutations' # 0)
    BY <1>3, <1>6
  <2>11. Len(all_layouts') =< Len(LayoutIds')
    <3>1. n \in 1 .. Len(LayoutIds) /\ Len(LayoutIds) \in Nat
      BY <1>3, PlacesAre
    <3> QED BY <2>7, <2>9, <3>1
  <2>12. ASSUME pc' = "layouts", NEW m \in DOMAIN all_layouts', NEW t \in Target
         PROVE  IsDrawable(all_layouts'[m][t][1], m)
    <3>1. CASE m = n
      BY <2>7, <2>8, <2>10, <2>12, <3>1
    <3>2. CASE m # n
      <4>1. m \in 1 .. built
        BY <1>2, <2>7, <3>2
      <4>2. IsDrawable(all_layouts[m][t][1], m)
        BY <1>1, <1>3, <4>1 DEF LayoutsInv, From
      <4> QED BY <2>7, <4>1, <4>2
    <3> QED BY <3>1, <3>2
  <2>13. pc' = "layouts" => \A m \in DOMAIN all_layouts', t \in Target : IsDrawable(From(m, t), m)'
    <3> SUFFICES ASSUME pc' = "layouts", NEW m \in DOMAIN all_layouts', NEW t \in Target
                 PROVE  IsDrawable(From(m, t), m)'
      OBVIOUS
    <3>1. PICK from : from = all_layouts'[m][t][1]
      OBVIOUS
    <3>2. IsDrawable(from, m) /\ Row(m)' = Row(m) /\ Size(m)' = Size(m)
      BY <1>3, <2>12, <3>1, SameGroups
    <3> QED BY <3>1, <3>2 DEF IsDrawable, From
  <2> QED BY <2>5, <2>7, <2>10, <2>11, <2>13 DEF LayoutsInv
<1>7. /\ Len(group) >= 3
      /\ \E layouts \in LayoutsOf[Len(group)] :
           /\ layout_permutations' = Min({layout_permutations} \cup {Len(layouts[t]) : t \in Target})
           /\ pc' = IF layout_permutations' = 0 THEN "aborted" ELSE pc
           /\ all_layouts' = Append(all_layouts, [t \in Target |->
                [k \in DOMAIN layouts[t] |-> OffsetLabels(layouts[t][k], group[1].row)]])
  BY <1>1, <1>2, <1>4 DEF BuildGroup, NextGroup
<1> QED BY <1>6, <1>7

\* A step with the same sections and layouts.
LEMMA SameLayoutsKeep ==
  ASSUME LayoutsInv, UNCHANGED <<sections, all_layouts, layout_permutations>>,
         \/ pc' \in {pc, "undefined"}
         \/ /\ pc \in {"layouts", "build", "draw", "images"} /\ Len(all_layouts) = Len(LayoutIds)
            /\ pc' \in {"build", "draw", "images", "done"}
  PROVE  LayoutsInv'
<1>1. LayoutIds' = LayoutIds /\ \A m : Row(m)' = Row(m) /\ Size(m)' = Size(m)
  BY SameGroups
<1>2. ASSUME pc' \in {"layouts", "build", "draw", "images", "done"},
             NEW n \in DOMAIN all_layouts, NEW t \in Target
      PROVE  IsDrawable(From(n, t), n)'
  <2>1. IsDrawable(From(n, t), n)
    BY <1>2 DEF LayoutsInv
  <2>2. PICK from, low, size : from = From(n, t) /\ low = Row(n) /\ size = Size(n)
    OBVIOUS
  <2>3. from = From(n, t)' /\ low = Row(n)' /\ size = Size(n)'
    BY <1>1, <2>2 DEF From
  <2>4. IsDrawable(From(n, t), n)' <=> IsDrawable(From(n, t), n)
    BY <2>2, <2>3, Zenon DEF IsDrawable, Apart
  <2> QED BY <2>1, <2>4
<1>3. /\ IsSequence(all_layouts') /\ layout_permutations' \in Nat
      /\ pc' = "read" => all_layouts' = <<>>
      /\ pc' = "layouts" => Len(all_layouts') =< Len(LayoutIds')
      /\ pc' \in {"build", "draw", "images", "done"} => Len(all_layouts') = Len(LayoutIds')
  BY <1>1 DEF LayoutsInv
<1> QED BY <1>2, <1>3 DEF LayoutsInv

PageInv == ReadInv /\ LayoutsInv

\* Nothing has been read.
LEMMA PageAtFirst ==
  ASSUME Init
  PROVE  PageInv
<1>1. /\ table \in Tables /\ read = 0 /\ row = 0 /\ sections = <<>> /\ pc = "read"
      /\ all_layouts = <<>> /\ layout_permutations = 1000000
  BY DEF Init, INT_MAX
<1>2. IsTable(table)
  BY <1>1, TablesAssumption
<1>3. Len(table.rows) \in Nat
  BY <1>2 DEF IsTable
<1>4. ReadInv
  BY <1>1, <1>3 DEF ReadInv, IsSequence
<1>5. LayoutsInv
  BY <1>1 DEF LayoutsInv, IsSequence
<1> QED BY <1>4, <1>5 DEF PageInv

\* Rows are read and groups laid out, the rest leaves both alone.
LEMMA PageKeeps ==
  ASSUME PageInv, [Next \/ Returned]_vars
  PROVE  PageInv'
<1>1. ReadInv /\ LayoutsInv
  BY DEF PageInv
<1>2. ASSUME UNCHANGED <<table, read, row, sections>>
      PROVE  ReadInv'
  BY <1>1, <1>2 DEF ReadInv, IsSequence
<1>3. CASE ReadRow
  <2>1. ReadInv'
    BY <1>1, <1>3, ReadRowReads
  <2>2. /\ pc = "read" /\ pc' \in {"read", "aborted", "undefined"}
        /\ UNCHANGED <<all_layouts, layout_permutations>>
    BY <1>3 DEF ReadRow
  <2>3. LayoutsInv'
    BY <1>1, <2>2 DEF LayoutsInv, IsSequence
  <2> QED BY <2>1, <2>3 DEF PageInv
<1>4. CASE SiteRead
  <2>1. /\ pc = "read" /\ pc' = "layouts"
        /\ UNCHANGED <<table, read, row, sections, all_layouts, layout_permutations>>
    BY <1>4 DEF SiteRead, page
  <2>2. ReadInv'
    BY <1>2, <2>1
  <2>3. all_layouts' = <<>> /\ IsSequence(all_layouts') /\ layout_permutations' \in Nat
    BY <1>1, <2>1 DEF LayoutsInv
  <2>4. Len(all_layouts') =< Len(LayoutIds')
    <3>1. LayoutIds' = LayoutIds /\ Len(LayoutIds) \in Nat
      BY <1>1, <2>1, SameGroups, PlacesAre
    <3> QED BY <2>3, <3>1
  <2>5. LayoutsInv'
    BY <2>1, <2>3, <2>4 DEF LayoutsInv
  <2> QED BY <2>2, <2>5 DEF PageInv
<1>5. CASE BuildGroup
  <2>1. LayoutsInv'
    BY <1>1, <1>5, BuildGroupKeeps
  <2> QED BY <1>2, <1>5, <2>1 DEF PageInv, BuildGroup
<1>6. CASE NoBaseGroups \/ GroupsBuilt \/ StartBuild \/ DrawLeaf \/ GroupDrawn \/ SheetDrawn
           \/ SheetsDrawn \/ ExportImages \/ Return
  <2>1. UNCHANGED <<table, read, row, sections, all_layouts, layout_permutations>>
    BY <1>6 DEF NoBaseGroups, GroupsBuilt, StartBuild, DrawLeaf, GroupDrawn, SheetDrawn, SheetsDrawn,
                ExportImages, Return, page
  <2>2. \/ pc' \in {pc, "undefined"}
        \/ pc = "layouts" /\ Len(all_layouts) = Len(LayoutIds) /\ pc' = "build"
        \/ pc \in {"build", "draw", "images"} /\ pc' \in {"build", "draw", "images", "done"}
    BY <1>6 DEF NoBaseGroups, GroupsBuilt, StartBuild, DrawLeaf, GroupDrawn, SheetDrawn, SheetsDrawn,
                ExportImages, Return, InGroup, InSheet
  <2>3. pc \in {"build", "draw", "images"} => Len(all_layouts) = Len(LayoutIds)
    BY <1>1 DEF LayoutsInv
  <2>4. LayoutsInv'
    BY <1>1, <2>1, <2>2, <2>3, SameLayoutsKeep
  <2> QED BY <1>2, <2>1, <2>4 DEF PageInv
<1>7. CASE UNCHANGED vars
  <2>1. LayoutsInv'
    BY <1>1, <1>7, SameLayoutsKeep DEF vars
  <2> QED BY <1>2, <1>7, <2>1 DEF PageInv, vars
<1> QED BY <1>3, <1>4, <1>5, <1>6, <1>7 DEF Next, Returned
-----------------------------------------------------------------------------
(* Drawing *)

\* The leaf is from the layout, wherever it is put.
IsCopy(leaf, from) ==
  /\ leaf.label = from.label /\ leaf.left = from.left /\ leaf.right = from.right
  /\ leaf.top \in Int /\ leaf.bottom \in Int
  /\ leaf.bottom - leaf.top = from.bottom - from.top

\* The k-th leaf of a group is drawn once the first d leaves of group g are.
IsDrawn(n, k, t, g, d) ==
  /\ n \in DOMAIN all_layouts /\ k \in DOMAIN From(n, t)
  /\ n < g \/ (n = g /\ k =< d)

\* The leaves are those drawn, and none covers another.
Shows(leaves, t, g, d) ==
  /\ IsSequence(leaves)
  /\ \A a \in DOMAIN leaves : \E n, k \in Nat :
       IsDrawn(n, k, t, g, d) /\ IsCopy(leaves[a], From(n, t)[k])
  /\ \A n, k \in Nat : IsDrawn(n, k, t, g, d) =>
       \E a \in DOMAIN leaves : IsCopy(leaves[a], From(n, t)[k])
  /\ \A a, b \in DOMAIN leaves :
       a # b => leaves[a].label # leaves[b].label /\ Apart(leaves[a], leaves[b])

\* The scales are those of the pictures that are drawn.
ScalesAre(t, g, d) ==
  \A n, k \in Nat : IsDrawn(n, k, t, g, d) =>
    LET label == From(n, t)[k].label
    IN  max_thumb_scale[t][label] = Scale(From(n, t)[k], sections[label + 1])

\* What is drawn is above the next group, or in the place it has in this one.
DrawingInv ==
  /\ drawing.group \in 1 .. Len(all_layouts) + 1
  /\ drawn \in Nat /\ (drawing.group > Len(all_layouts) => drawn = 0)
  /\ offset_y \in Nat /\ max_height \in Nat /\ offset_y =< max_height
  /\ drawing.at =< Len(target_order) =>
       /\ drawing.group =< Len(all_layouts) => drawn =< Len(CurrentLayout)
       /\ Shows(ordered_dimensions, CurrentTarget, drawing.group, drawn)
       /\ ScalesAre(CurrentTarget, drawing.group, drawn)
       /\ \A leaf \in Range(ordered_dimensions) :
            /\ leaf.bottom =< max_height
            /\ \/ leaf.bottom =< offset_y
               \/ /\ drawing.group =< Len(all_layouts)
                  /\ \E k \in 1 .. drawn : leaf = Moved(CurrentLayout[k])

ScaleNumbers == {x \in Reduced : AtMost(Whole(0), x)}

\* The scale on a screen that is as wide as that of a phone may be.
Widened(t, scale) == IF Width(t) < 480 THEN Times(scale, Rational(480, Width(t))) ELSE scale

\* Every picture is as large as a sheet shows it.
ImagesInv ==
  \A t \in Target, n, k \in Nat : IsDrawn(n, k, t, Len(all_layouts) + 1, 0) =>
    LET label == From(n, t)[k].label
        scale == Scale(From(n, t)[k], sections[label + 1])
    IN  sections[label + 1].jpeg =>
          /\ images[label].desktop \in ScaleNumbers /\ images[label].mobile \in ScaleNumbers
          /\ AtMost(Stretched(t, scale), images[label].desktop)
          /\ Width(t) =< 480 => AtMost(Widened(t, scale), images[label].mobile)

Building == pc \in {"build", "draw", "images", "done"}

\* The inductive invariant: the page is read and laid out, and what is drawn of
\* one without gaps is where and as large as it should be.
BuildingInv ==
  /\ \A t \in DOMAIN sheets :
       /\ Shows(sheets[t].leaves, t, Len(all_layouts) + 1, 0)
       /\ ScalesAre(t, Len(all_layouts) + 1, 0)
  /\ pc = "draw" => DrawingInv
  /\ p > 0 => ImagesInv

ScalesType == max_thumb_scale \in [Target -> [0 .. Len(sections) - 1 -> ScaleNumbers]]

SitePageInv ==
  /\ pc \in {"read", "layouts"} => p = 0 /\ sheets = << >>
  /\ (pc = "layouts" \/ Building) /\ Contiguous => ScalesType
  /\ Building /\ Contiguous => BuildingInv
-----------------------------------------------------------------------------
(* Sequences with one more *)

\* t is s with an element more, x.
IsWith(t, s, x) ==
  \E i \in DOMAIN t, f \in [DOMAIN t -> Int] :
    /\ t[i] = x
    /\ \A a \in DOMAIN t : a # i => f[a] \in DOMAIN s /\ t[a] = s[f[a]]
    /\ \A a, b \in DOMAIN t : a # i /\ b # i /\ a # b => f[a] # f[b]
    /\ \A c \in DOMAIN s : \E a \in DOMAIN t : t[a] = s[c]

\* Inserted, an element is in and the others stay.
LEMMA InsertedIsWith ==
  ASSUME NEW s, IsSequence(s), NEW x, NEW n \in Nat, n =< Len(s)
  PROVE  IsSequence(InsertedAt(s, n, x)) /\ IsWith(InsertedAt(s, n, x), s, x)
<1>1. PICK N \in Nat : N = Len(s) /\ DOMAIN s = 1 .. N
  BY DEF IsSequence
<1>2. PICK t : t = InsertedAt(s, n, x)
  OBVIOUS
<1>3. /\ IsSequence(t) /\ DOMAIN t = 1 .. N + 1
      /\ \A m \in 1 .. n : t[m] = s[m]
      /\ t[n + 1] = x
      /\ \A m \in n + 2 .. N + 1 : t[m] = s[m - 1]
  BY <1>1, <1>2, InsertedElements
<1> DEFINE f == [a \in 1 .. N + 1 |-> IF a =< n THEN a ELSE a - 1]
<1>4. n =< N /\ n + 1 \in 1 .. N + 1 /\ f \in [1 .. N + 1 -> Int]
  BY <1>1
<1>5. ASSUME NEW a \in 1 .. N + 1, a # n + 1
      PROVE  f[a] \in 1 .. N /\ t[a] = s[f[a]]
  <2>1. CASE a =< n
    BY <1>3, <1>4, <2>1
  <2>2. CASE a > n
    <3>1. a \in n + 2 .. N + 1 /\ a - 1 \in 1 .. N /\ f[a] = a - 1
      BY <1>4, <1>5, <2>2
    <3> QED BY <1>3, <3>1
  <2> QED BY <2>1, <2>2
<1>6. \A a, b \in 1 .. N + 1 : a # n + 1 /\ b # n + 1 /\ a # b => f[a] # f[b]
  BY <1>4
<1>7. ASSUME NEW c \in 1 .. N
      PROVE  \E a \in 1 .. N + 1 : t[a] = s[c]
  <2>1. CASE c =< n
    <3>1. c \in 1 .. n /\ c \in 1 .. N + 1
      BY <1>4, <2>1
    <3> QED BY <1>3, <3>1
  <2>2. CASE c > n
    <3>1. c + 1 \in n + 2 .. N + 1 /\ c + 1 \in 1 .. N + 1 /\ (c + 1) - 1 = c
      BY <1>4, <2>2
    <3>2. t[c + 1] = s[(c + 1) - 1]
      BY <1>3, <3>1
    <3> QED BY <3>1, <3>2
  <2> QED BY <2>1, <2>2
<1> HIDE DEF f
<1>8. /\ n + 1 \in DOMAIN t /\ f \in [DOMAIN t -> Int] /\ t[n + 1] = x
      /\ \A a \in DOMAIN t : a # n + 1 => f[a] \in DOMAIN s /\ t[a] = s[f[a]]
      /\ \A a, b \in DOMAIN t : a # n + 1 /\ b # n + 1 /\ a # b => f[a] # f[b]
      /\ \A c \in DOMAIN s : \E a \in DOMAIN t : t[a] = s[c]
  BY <1>1, <1>3, <1>4, <1>5, <1>6, <1>7
<1>9. IsWith(t, s, x)
  BY <1>8, Zenon DEF IsWith
<1> QED BY <1>2, <1>3, <1>9

\* So it is appended.
LEMMA AppendIsWith ==
  ASSUME NEW s, IsSequence(s), NEW x
  PROVE  IsSequence(Append(s, x)) /\ IsWith(Append(s, x), s, x)
<1>1. PICK N \in Nat : N = Len(s) /\ DOMAIN s = 1 .. N
  BY DEF IsSequence
<1>2. PICK t : t = Append(s, x)
  OBVIOUS
<1>3. /\ IsSequence(t) /\ DOMAIN t = 1 .. N + 1
      /\ \A m \in 1 .. N : t[m] = s[m]
      /\ t[N + 1] = x
  <2> DEFINE T == {s[m] : m \in DOMAIN s} \cup {x}
  <2>1. s \in Seq(T) /\ x \in T
    BY DEF IsSequence
  <2> HIDE DEF T
  <2>2. IsSequence(t)
    BY <1>2, AppendedElements
  <2> QED BY <1>1, <1>2, <2>1, <2>2
<1> DEFINE f == [a \in 1 .. N + 1 |-> a]
<1>4. N + 1 \in 1 .. N + 1 /\ f \in [1 .. N + 1 -> Int]
  OBVIOUS
<1>5. \A a \in 1 .. N + 1 : a # N + 1 => f[a] \in 1 .. N /\ t[a] = s[f[a]]
  BY <1>3
<1>6. \A a, b \in 1 .. N + 1 : a # N + 1 /\ b # N + 1 /\ a # b => f[a] # f[b]
  OBVIOUS
<1>7. \A c \in 1 .. N : c \in 1 .. N + 1 /\ t[c] = s[c]
  BY <1>3
<1> HIDE DEF f
<1>8. /\ N + 1 \in DOMAIN t /\ f \in [DOMAIN t -> Int] /\ t[N + 1] = x
      /\ \A a \in DOMAIN t : a # N + 1 => f[a] \in DOMAIN s /\ t[a] = s[f[a]]
      /\ \A a, b \in DOMAIN t : a # N + 1 /\ b # N + 1 /\ a # b => f[a] # f[b]
      /\ \A c \in DOMAIN s : \E a \in DOMAIN t : t[a] = s[c]
  BY <1>1, <1>3, <1>4, <1>5, <1>6, <1>7
<1>9. IsWith(t, s, x)
  BY <1>8, Zenon DEF IsWith
<1> QED BY <1>2, <1>3, <1>9

\* Wherever it is put, a leaf is one more in ordered_dimensions.
LEMMA OrderedIsWith ==
  ASSUME IsSequence(ordered_dimensions), NEW leaf
  PROVE  IsSequence(Ordered(leaf)) /\ IsWith(Ordered(leaf), ordered_dimensions, leaf)
<1> DEFINE Before(n) == LET it == ordered_dimensions[n]
                        IN  \/ leaf.bottom =< it.top
                            \/ leaf.top < it.bottom /\ leaf.left < it.left
           places == {n \in DOMAIN ordered_dimensions : Before(n)}
<1>1. Ordered(leaf) = IF places = {} THEN Append(ordered_dimensions, leaf)
                      ELSE InsertAt(ordered_dimensions, Min(places), leaf)
  BY DEF Ordered
<1>2. PICK N \in Nat : N = Len(ordered_dimensions) /\ DOMAIN ordered_dimensions = 1 .. N
  BY DEF IsSequence
<1>3. places \in SUBSET (1 .. N)
  BY <1>2
<1> HIDE DEF places
<1>4. CASE places = {}
  BY <1>1, <1>4, AppendIsWith
<1>5. CASE places # {}
  <2>1. PICK at : at = Min(places)
    OBVIOUS
  <2>2. at \in places
    <3>1. places \in SUBSET Nat
      BY <1>3
    <3> QED BY <1>5, <2>1, <3>1, LeastOf
  <2>3. at - 1 \in Nat /\ at - 1 =< Len(ordered_dimensions) /\ (at - 1) + 1 = at
    BY <1>2, <1>3, <2>2
  <2>4. Ordered(leaf) = InsertedAt(ordered_dimensions, at - 1, leaf)
    BY <1>1, <1>5, <2>1, <2>3 DEF InsertAt, InsertedAt
  <2> QED BY <2>3, <2>4, InsertedIsWith
<1> QED BY <1>4, <1>5

\* What is in a sequence with one more.
LEMMA WithIs ==
  ASSUME NEW t, NEW s, NEW x, IsWith(t, s, x)
  PROVE  /\ \A a \in DOMAIN t : t[a] = x \/ \E c \in DOMAIN s : t[a] = s[c]
         /\ \A c \in DOMAIN s : \E a \in DOMAIN t : t[a] = s[c]
         /\ \E a \in DOMAIN t : t[a] = x
         /\ \A a, b \in DOMAIN t : a # b =>
              \/ \E c \in DOMAIN s : t[a] = x /\ t[b] = s[c]
              \/ \E c \in DOMAIN s : t[b] = x /\ t[a] = s[c]
              \/ \E c, d \in DOMAIN s : c # d /\ t[a] = s[c] /\ t[b] = s[d]
<1>1. PICK i \in DOMAIN t, f \in [DOMAIN t -> Int] :
        /\ t[i] = x
        /\ \A a \in DOMAIN t : a # i => f[a] \in DOMAIN s /\ t[a] = s[f[a]]
        /\ \A a, b \in DOMAIN t : a # i /\ b # i /\ a # b => f[a] # f[b]
        /\ \A c \in DOMAIN s : \E a \in DOMAIN t : t[a] = s[c]
  BY DEF IsWith
<1>2. ASSUME NEW a \in DOMAIN t, NEW b \in DOMAIN t, a # b
      PROVE  \/ \E c \in DOMAIN s : t[a] = x /\ t[b] = s[c]
             \/ \E c \in DOMAIN s : t[b] = x /\ t[a] = s[c]
             \/ \E c, d \in DOMAIN s : c # d /\ t[a] = s[c] /\ t[b] = s[d]
  <2>1. CASE a = i
    BY <1>1, <1>2, <2>1
  <2>2. CASE b = i
    BY <1>1, <1>2, <2>2
  <2>3. CASE a # i /\ b # i
    <3>1. f[a] \in DOMAIN s /\ f[b] \in DOMAIN s /\ f[a] # f[b] /\ t[a] = s[f[a]] /\ t[b] = s[f[b]]
      BY <1>1, <1>2, <2>3
    <3> QED BY <3>1
  <2> QED BY <2>1, <2>2, <2>3
<1> QED BY <1>1, <1>2
-----------------------------------------------------------------------------
(* Leaves *)

\* What a leaf of a group is, and the section it is for.
LEMMA LeavesAre ==
  ASSUME PageInv, Building, Contiguous, NEW t \in Target, NEW n \in DOMAIN all_layouts
  PROVE  /\ n \in DOMAIN LayoutIds /\ n \in Nat
         /\ Len(From(n, t)) \in Nat /\ DOMAIN From(n, t) = 1 .. Len(From(n, t))
         /\ \A k \in DOMAIN From(n, t) :
              LET leaf == From(n, t)[k]
              IN  /\ leaf \in [label : Nat, left : Int, top : Nat, right : Int, bottom : Nat]
                  /\ leaf.left < leaf.right /\ leaf.top < leaf.bottom
                  /\ leaf.label \in Row(n) .. Row(n) + Size(n) - 1
                  /\ leaf.label \in 0 .. Len(sections) - 1 /\ leaf.label + 1 \in DOMAIN sections
                  /\ IsSection(sections[leaf.label + 1])
                  /\ sections[leaf.label + 1].row = leaf.label
                  /\ sections[leaf.label + 1].width # none
                  /\ sections[leaf.label + 1].layout = LayoutIds[n]
<1>1. ReadInv /\ LayoutsInv
  BY DEF PageInv
<1>2. n \in DOMAIN LayoutIds /\ n \in Nat
  <2>1. IsSequence(all_layouts) /\ Len(all_layouts) = Len(LayoutIds)
    BY <1>1 DEF LayoutsInv, Building
  <2>2. DOMAIN all_layouts = 1 .. Len(all_layouts)
    BY <2>1 DEF IsSequence
  <2>3. DOMAIN LayoutIds = 1 .. Len(LayoutIds)
    BY <1>1, PlacesAre
  <2> QED BY <2>1, <2>2, <2>3
<1>3. IsDrawable(From(n, t), n)
  BY <1>1 DEF LayoutsInv, Building
<1>9. PICK from : from = From(n, t)
  OBVIOUS
<1>10. PICK r \in Nat, size \in Nat : r = Row(n) /\ size = Size(n)
  BY <1>1, <1>2, RowsAre
<1>4. from = From(n, t) /\ r = Row(n) /\ size = Size(n)
  BY <1>9, <1>10
<1> DEFINE Leaf == [label : r .. r + size - 1, left : Int, top : Nat, right : Int, bottom : Nat]
<1>5. from \in Seq(Leaf) /\ \A k \in DOMAIN from : from[k].left < from[k].right /\ from[k].top < from[k].bottom
  BY <1>3, <1>4 DEF IsDrawable
<1>6. Len(from) \in Nat /\ DOMAIN from = 1 .. Len(from) /\ \A k \in DOMAIN from : from[k] \in Leaf
  <2> HIDE DEF Leaf
  <2> QED BY <1>5
<1>7. ASSUME NEW l \in r .. r + size - 1
      PROVE  /\ l \in Nat /\ l \in 0 .. Len(sections) - 1 /\ l + 1 \in DOMAIN sections
             /\ IsSection(sections[l + 1]) /\ sections[l + 1].row = l
             /\ sections[l + 1].width # none /\ sections[l + 1].layout = LayoutIds[n]
  <2>1. /\ l \in Nat /\ l + 1 \in DOMAIN sections /\ sections[l + 1].row = l
        /\ sections[l + 1].width # none /\ sections[l + 1].layout = LayoutIds[n]
    BY <1>1, <1>2, <1>4, RowsAre
  <2>2. IsSection(sections[l + 1])
    BY <1>1, <2>1 DEF ReadInv
  <2>3. l \in 0 .. Len(sections) - 1
    <3>1. DOMAIN sections = 1 .. Len(sections) /\ Len(sections) \in Nat
      BY <1>1, PlacesAre
    <3> QED BY <2>1, <3>1
  <2> QED BY <2>1, <2>2, <2>3
<1>8. ASSUME NEW k \in DOMAIN from
      PROVE  /\ from[k].label \in r .. r + size - 1
             /\ from[k] \in [label : Nat, left : Int, top : Nat, right : Int, bottom : Nat]
  <2>1. PICK leaf \in Leaf : leaf = from[k]
    BY <1>6
  <2>2. leaf.label \in r .. r + size - 1 /\ leaf.label \in Nat
    OBVIOUS
  <2> QED BY <2>1, <2>2
<1> HIDE DEF Leaf
<1> QED BY <1>2, <1>4, <1>5, <1>6, <1>7, <1>8

\* Labels tell the leaves of all groups apart.
LEMMA LabelsDiffer ==
  ASSUME PageInv, Building, Contiguous, NEW t \in Target,
         NEW m \in DOMAIN all_layouts, NEW j \in DOMAIN From(m, t),
         NEW n \in DOMAIN all_layouts, NEW k \in DOMAIN From(n, t), m # n \/ j # k
  PROVE  From(m, t)[j].label # From(n, t)[k].label
<1>1. ReadInv /\ LayoutsInv
  BY DEF PageInv
<1>2. CASE m # n
  <2>1. /\ m \in DOMAIN LayoutIds /\ From(m, t)[j].label \in Row(m) .. Row(m) + Size(m) - 1
        /\ n \in DOMAIN LayoutIds /\ From(n, t)[k].label \in Row(n) .. Row(n) + Size(n) - 1
    BY LeavesAre
  <2> QED BY <1>1, <1>2, <2>1, RowsDiffer
<1>3. CASE m = n
  <2>1. IsDrawable(From(n, t), n)
    BY <1>1 DEF LayoutsInv, Building
  <2> QED BY <1>3, <2>1 DEF IsDrawable
<1> QED BY <1>2, <1>3

\* A leaf more is shown.
LEMMA ShowsOneMore ==
  ASSUME PageInv, Building, Contiguous, NEW t \in Target, NEW g \in DOMAIN all_layouts,
         NEW d \in Nat, d + 1 \in DOMAIN From(g, t), NEW leaves, Shows(leaves, t, g, d),
         NEW leaf, IsCopy(leaf, From(g, t)[d + 1]), \A a \in DOMAIN leaves : Apart(leaf, leaves[a]),
         NEW more, IsSequence(more), IsWith(more, leaves, leaf)
  PROVE  Shows(more, t, g, d + 1)
<1>1. \A n \in DOMAIN all_layouts : n \in Nat
  BY LeavesAre
<1>2. \A n, k \in Nat : IsDrawn(n, k, t, g, d) => IsDrawn(n, k, t, g, d + 1)
  BY DEF IsDrawn
<1>3. IsDrawn(g, d + 1, t, g, d + 1) /\ g \in Nat /\ d + 1 \in Nat
  BY <1>1 DEF IsDrawn
<1>4. ASSUME NEW n \in Nat, NEW k \in Nat, IsDrawn(n, k, t, g, d + 1), n # g \/ k # d + 1
      PROVE  IsDrawn(n, k, t, g, d)
  BY <1>3, <1>4 DEF IsDrawn
<1>5. ASSUME NEW a \in DOMAIN leaves
      PROVE  leaves[a].label # leaf.label
  <2>1. PICK n \in Nat, k \in Nat : IsDrawn(n, k, t, g, d) /\ IsCopy(leaves[a], From(n, t)[k])
    BY DEF Shows
  <2>2. n \in DOMAIN all_layouts /\ k \in DOMAIN From(n, t) /\ (n # g \/ k # d + 1)
    BY <1>3, <2>1 DEF IsDrawn
  <2>3. From(n, t)[k].label # From(g, t)[d + 1].label
    BY <2>2, LabelsDiffer
  <2> QED BY <2>1, <2>3 DEF IsCopy
<1>6. ASSUME NEW a \in DOMAIN more
      PROVE  \E n, k \in Nat : IsDrawn(n, k, t, g, d + 1) /\ IsCopy(more[a], From(n, t)[k])
  <2>1. CASE more[a] = leaf
    BY <1>3, <2>1
  <2>2. CASE \E c \in DOMAIN leaves : more[a] = leaves[c]
    <3>1. PICK c \in DOMAIN leaves : more[a] = leaves[c]
      BY <2>2
    <3>2. PICK n \in Nat, k \in Nat : IsDrawn(n, k, t, g, d) /\ IsCopy(leaves[c], From(n, t)[k])
      BY DEF Shows
    <3> QED BY <1>2, <3>1, <3>2
  <2> QED BY <2>1, <2>2, WithIs
<1>7. ASSUME NEW n \in Nat, NEW k \in Nat, IsDrawn(n, k, t, g, d + 1)
      PROVE  \E a \in DOMAIN more : IsCopy(more[a], From(n, t)[k])
  <2>1. CASE n = g /\ k = d + 1
    <3>1. PICK a \in DOMAIN more : more[a] = leaf
      BY WithIs
    <3> QED BY <2>1, <3>1
  <2>2. CASE n # g \/ k # d + 1
    <3>1. IsDrawn(n, k, t, g, d)
      BY <1>4, <1>7, <2>2
    <3>2. PICK c \in DOMAIN leaves : IsCopy(leaves[c], From(n, t)[k])
      BY <3>1 DEF Shows
    <3>3. PICK a \in DOMAIN more : more[a] = leaves[c]
      BY WithIs
    <3> QED BY <3>2, <3>3
  <2> QED BY <2>1, <2>2
<1>8. ASSUME NEW a \in DOMAIN more, NEW b \in DOMAIN more, a # b
      PROVE  more[a].label # more[b].label /\ Apart(more[a], more[b])
  <2>1. CASE \E c \in DOMAIN leaves : more[a] = leaf /\ more[b] = leaves[c]
    BY <1>5, <2>1
  <2>2. CASE \E c \in DOMAIN leaves : more[b] = leaf /\ more[a] = leaves[c]
    <3>1. PICK c \in DOMAIN leaves : more[b] = leaf /\ more[a] = leaves[c]
      BY <2>2
    <3>2. leaves[c].label # leaf.label /\ Apart(leaf, leaves[c])
      BY <1>5
    <3>3. Apart(leaves[c], leaf)
      BY <3>2 DEF Apart
    <3> QED BY <3>1, <3>2, <3>3
  <2>3. CASE \E c, e \in DOMAIN leaves : c # e /\ more[a] = leaves[c] /\ more[b] = leaves[e]
    BY <2>3 DEF Shows
  <2> QED BY <1>8, <2>1, <2>2, <2>3, WithIs
<1> QED BY <1>6, <1>7, <1>8 DEF Shows
-----------------------------------------------------------------------------
(* Scales *)

\* Scales are numbers from 0 on.
LEMMA ScaleIsNumber ==
  ASSUME NEW x \in ScaleNumbers
  PROVE  x \in Reduced /\ x \in Numbers /\ AtMost(Whole(0), x) /\ AtMost(x, x)
<1>1. x \in Reduced /\ x \in Numbers /\ AtMost(Whole(0), x)
  BY ReducedIsNumber DEF ScaleNumbers
<1> QED BY <1>1, AtMostTotal

\* Whole numbers are in their order.
LEMMA WholeOrder ==
  ASSUME NEW a \in Int, NEW b \in Int, a =< b
  PROVE  AtMost(Whole(a), Whole(b))
<1>1. Whole(a) \in Numbers /\ Whole(b) \in Numbers
  BY WholeIsNumber
<1>2. Less(Whole(b), Whole(a)) <=> Pos(a * 1 - b * 1, 0 * 1 - 0 * 1)
  <2>1. /\ Whole(a)[1] = a /\ Whole(a)[2] = 0 /\ Whole(a)[3] = 1
        /\ Whole(b)[1] = b /\ Whole(b)[2] = 0 /\ Whole(b)[3] = 1
    BY DEF Whole
  <2> QED BY <1>1, <2>1, LessIs
<1>3. ~Pos(a - b, 0)
  BY PosIs
<1>4. a * 1 - b * 1 = a - b /\ 0 * 1 - 0 * 1 = 0
  OBVIOUS
<1> QED BY <1>2, <1>3, <1>4 DEF AtMost

\* A fraction is so many of the unit's.
LEMMA RationalTimes ==
  ASSUME NEW b \in Int, NEW d \in Nat \ {0}
  PROVE  /\ Times(Whole(b), Rational(1, d)) = Rational(b, d)
         /\ Rational(1, d) \in ScaleNumbers /\ Rational(b, d) \in Reduced
<1>1. /\ Rational(1, d) \in Reduced /\ Rational(b, d) \in Reduced
      /\ Rational(1, d) \in Numbers /\ <<1, 0, d>> \in Numbers
      /\ Same(Rational(1, d), <<1, 0, d>>)
  BY NumberIsReduced, NumberSame, ReducedIsNumber DEF Rational
<1>2. Times(Rational(1, d), Whole(b)) = Times(<<1, 0, d>>, Whole(b))
  BY <1>1, WholeIsNumber, SameSum
<1>3. Times(<<1, 0, d>>, Whole(b)) = Number(1 * b + 5 * 0 * 0, 1 * 0 + 0 * b, d * 1)
  BY DEF Times, Whole
<1>4. 1 * b + 5 * 0 * 0 = b /\ 1 * 0 + 0 * b = 0 /\ d * 1 = d
  OBVIOUS
<1>5. Times(Rational(1, d), Whole(b)) = Rational(b, d)
  BY <1>2, <1>3, <1>4 DEF Rational
<1>6. Times(Whole(b), Rational(1, d)) = Rational(b, d)
  BY <1>1, <1>5, WholeIsNumber, Commutes
<1>7. AtMost(Whole(0), Rational(1, d))
  <2>1. PICK x \in Numbers : x = Rational(1, d)
    BY <1>1
  <2>2. Positive(x)
    BY <2>1, NumberPositive, PosIs DEF Rational
  <2>3. Pos(x[1], x[2]) /\ (Positive(Negative(x)) <=> Pos(-x[1], -x[2]))
    BY <2>2, AboveZero
  <2>4. ~Pos(-x[1], -x[2])
    <3>1. x[1] \in Int /\ x[2] \in Int
      BY NumberParts
    <3> QED BY <2>3, <3>1, PosOrNot
  <2>5. ~Less(x, Whole(0))
    BY <2>3, <2>4, AboveZero
  <2> QED BY <2>1, <2>5 DEF AtMost
<1> QED BY <1>1, <1>6, <1>7 DEF ScaleNumbers

\* All of them are one.
LEMMA WholeRational ==
  ASSUME NEW size \in Nat \ {0}
  PROVE  Rational(size, size) = Whole(1)
<1>1. Rational(size, size) = Rational(1, 1)
  <2>1. size * 1 = 1 * size /\ 0 * 1 = 0 * size
    OBVIOUS
  <2>2. size \in Int /\ size \in Nat \ {0}
    OBVIOUS
  <2> QED BY <2>1, <2>2, NumbersEqual DEF Rational
<1>2. Rational(1, 1) = Whole(1)
  <2>1. Times(Whole(1), Rational(1, 1)) = Rational(1, 1) /\ Rational(1, 1) \in Reduced
    BY RationalTimes
  <2>2. Rational(1, 1) \in Reduced /\ Whole(1) \in Reduced
    BY <2>1, WholeIsReduced
  <2>3. Same(Rational(1, 1), Whole(1))
    BY NumberSame DEF Rational, Whole
  <2> QED BY <2>2, <2>3, SameIsEqual
<1> QED BY <1>1, <1>2

\* Fractions of one denominator are in the order of their numerators.
LEMMA RationalOrder ==
  ASSUME NEW a \in Int, NEW b \in Int, a =< b, NEW d \in Nat \ {0}
  PROVE  AtMost(Rational(a, d), Rational(b, d))
<1>1. AtMost(Whole(a), Whole(b)) /\ Whole(a) \in Numbers /\ Whole(b) \in Numbers
  BY WholeOrder, WholeIsNumber
<1>2. Rational(1, d) \in Numbers /\ AtMost(Whole(0), Rational(1, d))
  BY RationalTimes, ScaleIsNumber
<1>3. AtMost(Times(Whole(a), Rational(1, d)), Times(Whole(b), Rational(1, d)))
  BY <1>1, <1>2, AtMostScaled
<1> QED BY <1>3, RationalTimes

\* A fraction of no negative is a scale.
LEMMA RationalIsScale ==
  ASSUME NEW a \in Nat, NEW d \in Nat \ {0}
  PROVE  Rational(a, d) \in ScaleNumbers
<1>1. Rational(1, d) \in Numbers /\ AtMost(Whole(0), Rational(1, d))
  BY RationalTimes, ScaleIsNumber
<1>2. AtMost(Whole(0), Whole(a)) /\ Whole(0) \in Numbers /\ Whole(a) \in Numbers
  BY WholeOrder, WholeIsNumber
<1>3. AtMost(Times(Whole(0), Rational(1, d)), Times(Whole(a), Rational(1, d)))
  BY <1>1, <1>2, AtMostScaled
<1>4. Times(Whole(0), Rational(1, d)) = Whole(0)
  BY <1>1, WithZero
<1>5. Times(Whole(a), Rational(1, d)) = Rational(a, d) /\ Rational(a, d) \in Reduced
  BY RationalTimes
<1> QED BY <1>3, <1>4, <1>5 DEF ScaleNumbers

\* A scale times a greater one is greater, and times one of 1 at most is not.
LEMMA ScaledUp ==
  ASSUME NEW x \in ScaleNumbers, NEW y \in ScaleNumbers
  PROVE  /\ Times(x, y) \in ScaleNumbers
         /\ \A z \in Numbers : AtMost(y, z) => AtMost(Times(x, y), Times(x, z))
         /\ AtMost(y, Whole(1)) => AtMost(Times(x, y), x)
<1>1. /\ x \in Numbers /\ y \in Numbers /\ AtMost(Whole(0), x) /\ AtMost(Whole(0), y)
      /\ x \in Reduced /\ Whole(0) \in Numbers /\ Whole(1) \in Numbers
  BY ScaleIsNumber, WholeIsNumber
<1>2. Times(x, y) \in ScaleNumbers
  <2>1. Times(x, y) \in Reduced
    BY <1>1, RawAre
  <2>2. AtMost(Times(Whole(0), y), Times(x, y))
    BY <1>1, AtMostScaled
  <2>3. Times(Whole(0), y) = Whole(0)
    BY <1>1, WithZero
  <2> QED BY <2>1, <2>2, <2>3 DEF ScaleNumbers
<1>3. ASSUME NEW z \in Numbers, AtMost(y, z)
      PROVE  AtMost(Times(x, y), Times(x, z))
  <2>1. AtMost(Times(y, x), Times(z, x))
    BY <1>1, <1>3, AtMostScaled
  <2>2. Times(y, x) = Times(x, y) /\ Times(z, x) = Times(x, z)
    BY <1>1, Commutes
  <2> QED BY <2>1, <2>2
<1>4. Times(x, Whole(1)) = x
  BY <1>1, Neutral
<1> QED BY <1>1, <1>2, <1>3, <1>4

\* A finite set has finitely many images.
LEMMA FiniteImage ==
  ASSUME NEW S, IsFiniteSet(S), NEW f
  PROVE  IsFiniteSet({f[x] : x \in S})
<1> DEFINE T == {f[x] : x \in S}
           g == [x \in S |-> f[x]]
<1>1. g \in Surjection(S, T)
  BY DEF Surjection
<1> HIDE DEF g, T
<1>2. IsFiniteSet(T)
  BY <1>1, FS_Surjection
<1> QED BY <1>2 DEF T

\* There is a greatest scale of finitely many.
LEMMA GreatestIs ==
  ASSUME NEW S \in SUBSET ScaleNumbers, IsFiniteSet(S), S # {}
  PROVE  Greatest(S) \in S /\ \A x \in S : AtMost(x, Greatest(S))
<1> DEFINE f == [x \in S |-> Negative(x)]
<1>1. \A x \in S : x \in Numbers /\ f[x] = Negative(x) /\ f[x] \in Numbers
  <2>1. \A x \in S : x \in Numbers
    BY ScaleIsNumber
  <2> QED BY <2>1, NegativeIs
<1> HIDE DEF f
<1>2. PICK x \in S : \A y \in S : AtMost(f[x], f[y])
  BY <1>1, LeastNumber
<1>3. ASSUME NEW y \in S
      PROVE  AtMost(y, x)
  <2>1. AtMost(Negative(x), Negative(y)) /\ x \in Numbers /\ y \in Numbers
    BY <1>1, <1>2
  <2>2. Minus(Negative(x), Negative(y)) = Plus(Negative(x), y)
    BY <2>1, MinusIs, NegativeIs
  <2>3. Plus(Negative(x), y) = Plus(y, Negative(x))
    BY <2>1, NegativeIs, Commutes
  <2>4. Minus(Negative(x), Negative(y)) = Minus(y, x)
    BY <2>2, <2>3, MinusIs
  <2> QED BY <2>1, <2>4 DEF AtMost, Less
<1> QED BY <1>3 DEF Greatest

\* No picture is written smaller than asked for.
LEMMA ExportIsLarge ==
  ASSUME NEW section, section.width \in Nat \ {0}, section.height \in Nat \ {0},
         NEW scale \in ScaleNumbers, NEW min_dim \in Nat
  PROVE  /\ ExportScale(section, scale, min_dim) \in ScaleNumbers
         /\ AtMost(scale, ExportScale(section, scale, min_dim))
<1>1. PICK size : size = Max({section.width, section.height})
  OBVIOUS
<1>2. size \in Nat \ {0}
  <2> DEFINE sizes == {section.width, section.height}
  <2>1. \E x \in sizes : \A y \in sizes : x >= y
    <3>1. section.width >= section.height \/ section.height >= section.width
      OBVIOUS
    <3> QED BY <3>1
  <2>2. Max(sizes) \in sizes
    <3> HIDE DEF sizes
    <3> QED BY <2>1 DEF Max
  <2> QED BY <1>1, <2>2
<1>3. PICK small : small = Less(Times(Whole(size), scale), Whole(min_dim))
  OBVIOUS
<1>4. ExportScale(section, scale, min_dim) = IF small THEN Rational(min_dim, size) ELSE scale
  BY <1>1, <1>3 DEF ExportScale
<1>5. scale \in Reduced /\ scale \in Numbers /\ AtMost(scale, scale)
  BY ScaleIsNumber
<1>6. CASE ~small
  BY <1>4, <1>5, <1>6
<1>7. CASE small
  <2>1. /\ Whole(size) \in Numbers /\ Whole(min_dim) \in Numbers
        /\ Times(Whole(size), scale) \in Numbers
    BY <1>2, <1>5, WholeIsNumber, RawAre, ReducedIsNumber
  <2>2. AtMost(Times(Whole(size), scale), Whole(min_dim))
    <3>1. PICK x \in Numbers, y \in Numbers : x = Times(Whole(size), scale) /\ y = Whole(min_dim)
      BY <2>1
    <3>2. Less(x, y)
      BY <1>3, <1>7, <3>1
    <3>3. ~AtMost(y, x)
      BY <3>2 DEF AtMost
    <3> QED BY <3>1, <3>3, AtMostTotal
  <2>3. PICK unit \in ScaleNumbers : unit = Rational(1, size)
    BY <1>2, RationalTimes
  <2>4. unit \in Numbers /\ AtMost(Whole(0), unit)
    BY ScaleIsNumber
  <2>5. AtMost(Times(Times(Whole(size), scale), unit), Times(Whole(min_dim), unit))
    BY <2>1, <2>2, <2>4, AtMostScaled
  <2>6. Times(Whole(min_dim), unit) = Rational(min_dim, size)
    BY <1>2, <2>3, RationalTimes
  <2>7. Times(Times(Whole(size), scale), unit) = scale
    <3>1. Times(Times(Whole(size), scale), unit) = Times(Times(scale, Whole(size)), unit)
      BY <1>5, <2>1, Commutes
    <3>2. Times(Times(scale, Whole(size)), unit) = Times(scale, Times(Whole(size), unit))
      BY <1>5, <2>1, <2>4, TimesAssociative
    <3>3. Times(Whole(size), unit) = Whole(1)
      <4>1. Times(Whole(size), unit) = Rational(size, size)
        BY <1>2, <2>3, RationalTimes
      <4> QED BY <1>2, <4>1, WholeRational
    <3> QED BY <1>5, <3>1, <3>2, <3>3, Neutral
  <2>8. Rational(min_dim, size) \in ScaleNumbers
    BY <1>2, RationalIsScale
  <2> QED BY <1>4, <1>7, <2>5, <2>6, <2>7, <2>8
<1>8. small \/ ~small
  OBVIOUS
<1> QED BY <1>6, <1>7, <1>8
-----------------------------------------------------------------------------
(* Steps *)

\* A page that is read has gaps or none.
LEMMA SamePage ==
  ASSUME UNCHANGED <<table, read, row, sections>>
  PROVE  Contiguous' <=> Contiguous
<1>1. LayoutIds' = LayoutIds
  BY SameGroups
<1>2. \A id : GroupOf(id)' = GroupOf(id)
  BY DEF GroupOf, Places
<1>3. \A record, n : /\ NoField(record, n)' <=> NoField(record, n)
                     /\ NoDot(record, n)' <=> NoDot(record, n)
  BY DEF NoField, NoDot, HasPoster
<1> QED BY <1>1, <1>2, <1>3 DEF Contiguous

\* Nothing of this changes once the layouts are there.
LEMMA SameBuild ==
  ASSUME UNCHANGED <<table, read, row, sections, all_layouts>>
  PROVE  /\ Contiguous' <=> Contiguous
         /\ \A n, t : From(n, t)' = From(n, t)
         /\ \A n, k, t, g, d : IsDrawn(n, k, t, g, d)' <=> IsDrawn(n, k, t, g, d)
         /\ \A leaves, t, g, d : Shows(leaves, t, g, d)' <=> Shows(leaves, t, g, d)
         /\ max_thumb_scale' = max_thumb_scale =>
              /\ ScalesType' <=> ScalesType
              /\ \A t, g, d : ScalesAre(t, g, d)' <=> ScalesAre(t, g, d)
         /\ images' = images => (ImagesInv' <=> ImagesInv)
<1>1. Contiguous' <=> Contiguous
  BY SamePage
<1>2. \A n, t : From(n, t)' = From(n, t)
  BY DEF From
<1>3. \A n, k, t, g, d : IsDrawn(n, k, t, g, d)' <=> IsDrawn(n, k, t, g, d)
  BY <1>2 DEF IsDrawn
<1>4. \A leaves, t, g, d : Shows(leaves, t, g, d)' <=> Shows(leaves, t, g, d)
  BY <1>2, <1>3 DEF Shows
<1>5. max_thumb_scale' = max_thumb_scale =>
        /\ ScalesType' <=> ScalesType
        /\ \A t, g, d : ScalesAre(t, g, d)' <=> ScalesAre(t, g, d)
  BY <1>2, <1>3 DEF ScalesType, ScalesAre
<1>6. images' = images => (ImagesInv' <=> ImagesInv)
  BY SMTT(40), <1>2, <1>3 DEF ImagesInv
<1> QED BY <1>1, <1>2, <1>3, <1>4, <1>5, <1>6

\* A leaf has a scale, wherever it is put.
LEMMA ScaleIs ==
  ASSUME PageInv, Building, Contiguous, NEW t \in Target, NEW n \in DOMAIN all_layouts,
         NEW k \in DOMAIN From(n, t)
  PROVE  LET from == From(n, t)[k]
             section == sections[from.label + 1]
         IN  /\ Scale(from, section) \in ScaleNumbers
             /\ \A leaf : IsCopy(leaf, from) => Scale(leaf, section) = Scale(from, section)
<1> DEFINE from == From(n, t)[k]
           section == sections[from.label + 1]
<1>1. /\ from.left \in Int /\ from.right \in Int /\ from.top \in Nat /\ from.bottom \in Nat
      /\ from.left < from.right /\ from.top < from.bottom
      /\ IsSection(section) /\ section.width # none
  <2>1. from \in [label : Nat, left : Int, top : Nat, right : Int, bottom : Nat]
        /\ from.left < from.right /\ from.top < from.bottom
        /\ IsSection(section) /\ section.width # none
    BY LeavesAre
  <2> QED BY <2>1
<1>2. section.width \in Nat \ {0} /\ section.height \in Nat \ {0}
  <2>1. section.width \in Int /\ section.height \in Int /\ section.width > 0 /\ section.height > 0
    BY <1>1 DEF IsSection
  <2> QED BY <2>1
<1>3. PICK w \in Nat, h \in Nat : w = from.right - from.left /\ h = from.bottom - from.top
  <2>1. from.right - from.left \in Nat /\ from.bottom - from.top \in Nat
    BY <1>1
  <2> QED BY <2>1
<1> HIDE DEF from, section
<1>4. Scale(from, section) =
        IF Less(Rational(w, section.width), Rational(h, section.height))
        THEN Rational(h, section.height) ELSE Rational(w, section.width)
  BY <1>3 DEF Scale
<1>5. Rational(w, section.width) \in ScaleNumbers /\ Rational(h, section.height) \in ScaleNumbers
  BY <1>2, RationalIsScale
<1>6. ASSUME NEW leaf, IsCopy(leaf, from)
      PROVE  Scale(leaf, section) = Scale(from, section)
  <2>1. leaf.right - leaf.left = w /\ leaf.bottom - leaf.top = h
    BY <1>3, <1>6 DEF IsCopy
  <2> QED BY <1>4, <2>1 DEF Scale
<1> QED BY <1>4, <1>5, <1>6 DEF from, section

\* Nothing is drawn at first.
LEMMA NothingDrawn ==
  ASSUME PageInv, Building, Contiguous, NEW t \in Target
  PROVE  \A n, k \in Nat : ~IsDrawn(n, k, t, 1, 0)
<1> SUFFICES ASSUME NEW n \in Nat, NEW k \in Nat, IsDrawn(n, k, t, 1, 0)
             PROVE  FALSE
  OBVIOUS
<1>1. n \in DOMAIN all_layouts /\ k \in DOMAIN From(n, t) /\ (n < 1 \/ (n = 1 /\ k =< 0))
  BY DEF IsDrawn
<1>2. n >= 1
  <2>1. IsSequence(all_layouts)
    BY DEF PageInv, LayoutsInv
  <2>2. DOMAIN all_layouts = 1 .. Len(all_layouts)
    BY <2>1 DEF IsSequence
  <2> QED BY <1>1, <2>2
<1>3. k >= 1
  <2>1. DOMAIN From(n, t) = 1 .. Len(From(n, t))
    BY <1>1, LeavesAre
  <2> QED BY <1>1, <2>1
<1> QED BY <1>1, <1>2, <1>3

\* A sheet starts with none of the leaves.
LEMMA ShowsNothing ==
  ASSUME PageInv, Building, Contiguous, NEW t \in Target
  PROVE  Shows(<<>>, t, 1, 0) /\ ScalesAre(t, 1, 0)
<1>1. \A n, k \in Nat : ~IsDrawn(n, k, t, 1, 0)
  BY NothingDrawn
<1>2. IsSequence(<<>>) /\ DOMAIN <<>> = {}
  BY DEF IsSequence
<1> QED BY <1>1, <1>2 DEF Shows, ScalesAre

\* A group is drawn with its last leaf.
LEMMA DrawnIs ==
  ASSUME PageInv, Building, Contiguous, NEW t \in Target, NEW g \in DOMAIN all_layouts
  PROVE  \A n, k \in Nat : IsDrawn(n, k, t, g + 1, 0) <=> IsDrawn(n, k, t, g, Len(From(g, t)))
<1> SUFFICES ASSUME NEW n \in Nat, NEW k \in Nat
             PROVE  IsDrawn(n, k, t, g + 1, 0) <=> IsDrawn(n, k, t, g, Len(From(g, t)))
  OBVIOUS
<1>1. g \in Nat /\ Len(From(g, t)) \in Nat /\ DOMAIN From(g, t) = 1 .. Len(From(g, t))
  BY LeavesAre
<1>2. CASE n \in DOMAIN all_layouts /\ k \in DOMAIN From(n, t)
  <2>1. k >= 1
    <3>1. DOMAIN From(n, t) = 1 .. Len(From(n, t))
      BY <1>2, LeavesAre
    <3> QED BY <1>2, <3>1
  <2>2. n = g => k =< Len(From(g, t))
    BY <1>1, <1>2
  <2>3. (n < g + 1 \/ (n = g + 1 /\ k =< 0)) <=> (n < g \/ (n = g /\ k =< Len(From(g, t))))
    BY <1>1, <2>1, <2>2
  <2> QED BY <1>2, <2>3 DEF IsDrawn
<1>3. CASE ~(n \in DOMAIN all_layouts /\ k \in DOMAIN From(n, t))
  BY <1>3 DEF IsDrawn
<1> QED BY <1>2, <1>3

\* While a sheet is drawn, it is for a target, and it is the turn of a group.
LEMMA SheetIsFor ==
  ASSUME PageInv, SheetsInv, InSheet
  PROVE  /\ pc = "draw" /\ Building /\ CurrentTarget \in Target
         /\ drawing.at =< Len(target_order) /\ drawing.at \in Nat
<1>1. pc = "draw" /\ drawing.at =< Len(target_order)
  BY DEF InSheet
<1>2. drawing.at \in 1 .. Len(TargetWidths) /\ drawing.at \in Nat
  BY <1>1, OrderIsOfAll, TargetsAre DEF SheetsInv
<1> QED BY <1>1, <1>2, OrderIsOfAll DEF CurrentTarget, Building

\* The group that is drawn.
LEMMA GroupIs ==
  ASSUME PageInv, SheetsInv, DrawingInv, InGroup
  PROVE  /\ drawing.group \in DOMAIN all_layouts /\ drawing.group \in Nat
         /\ CurrentLayout = From(drawing.group, CurrentTarget) /\ InSheet
<1>1. IsSequence(all_layouts)
  BY DEF PageInv, LayoutsInv
<1>2. DOMAIN all_layouts = 1 .. Len(all_layouts) /\ Len(all_layouts) \in Nat
  BY <1>1 DEF IsSequence
<1>3. drawing.group \in 1 .. Len(all_layouts) + 1 /\ drawing.group =< Len(all_layouts) /\ InSheet
  BY DEF DrawingInv, InGroup
<1> QED BY <1>2, <1>3 DEF CurrentLayout, From

\* The groups that are laid out are counted from 1.
LEMMA BuiltAre ==
  ASSUME PageInv
  PROVE  Len(all_layouts) \in Nat /\ DOMAIN all_layouts = 1 .. Len(all_layouts)
<1>1. IsSequence(all_layouts)
  BY DEF PageInv, LayoutsInv
<1> QED BY <1>1 DEF IsSequence

\* A sheet starts with nothing.
LEMMA FreshSheetDraws ==
  ASSUME PageInv, Building, Contiguous,
         UNCHANGED <<table, read, row, sections, all_layouts>>,
         NEW at \in Nat \ {0}, drawing' = [at |-> at, group |-> 1], drawn' = 0,
         offset_y' = 0, max_height' = 0, ordered_dimensions' = <<>>
  PROVE  DrawingInv'
<1>1. drawing'.group = 1 /\ drawing'.at = at /\ target_order' = target_order
      /\ Len(target_order) = Len(TargetWidths) /\ Len(TargetWidths) \in Nat
  BY OrderIsOfAll, TargetsAre DEF target_order
<1>2. drawing'.group \in 1 .. Len(all_layouts') + 1
  BY <1>1, BuiltAre
<1>3. ASSUME at =< Len(target_order)
      PROVE  /\ drawing'.group =< Len(all_layouts') => drawn' =< Len(CurrentLayout')
             /\ Shows(ordered_dimensions, CurrentTarget, drawing.group, drawn)'
             /\ ScalesAre(CurrentTarget, drawing.group, drawn)'
  <2>1. PICK t \in Target : t = CurrentTarget'
    <3>1. at \in 1 .. Len(TargetWidths) /\ CurrentTarget' = target_order[at]
      BY <1>1, <1>3 DEF CurrentTarget
    <3> QED BY <3>1, OrderIsOfAll
  <2>2. Shows(<<>>, t, 1, 0) /\ ScalesAre(t, 1, 0)
    BY ShowsNothing
  <2>3. Shows(ordered_dimensions, CurrentTarget, drawing.group, drawn)'
    BY <1>1, <2>1, <2>2, SameBuild
  <2>4. ScalesAre(t, 1, 0)'
    <3>1. \A n, k \in Nat : ~IsDrawn(n, k, t, 1, 0)
      BY NothingDrawn
    <3>2. \A n, k \in Nat : ~IsDrawn(n, k, t, 1, 0)'
      BY <3>1, SameBuild
    <3> QED BY <3>2 DEF ScalesAre
  <2>5. ScalesAre(CurrentTarget, drawing.group, drawn)'
    BY <1>1, <2>1, <2>4
  <2>6. ASSUME 1 =< Len(all_layouts)
        PROVE  0 =< Len(CurrentLayout')
    <3>1. 1 \in DOMAIN all_layouts
      BY <2>6, BuiltAre
    <3>2. CurrentLayout' = From(1, t)
      BY <1>1, <2>1 DEF CurrentLayout, From
    <3>3. Len(From(1, t)) \in Nat
      BY <3>1, LeavesAre
    <3> QED BY <3>2, <3>3
  <2> QED BY <1>1, <2>3, <2>5, <2>6
<1>4. Range(ordered_dimensions') = {}
  BY DEF Range
<1> QED BY <1>1, <1>2, <1>3, <1>4 DEF DrawingInv

\* A permutation starts with an empty sheet.
LEMMA StartBuildDraws ==
  ASSUME PageInv, PageInv', SheetsInv, SheetsInv', SitePageInv, StartBuild
  PROVE  SitePageInv'
<1>1. /\ pc = "build" /\ pc' = "draw" /\ drawing' = [at |-> 1, group |-> 1] /\ drawn' = 0
      /\ offset_y' = 0 /\ max_height' = 0 /\ ordered_dimensions' = <<>>
      /\ UNCHANGED <<table, read, row, sections, all_layouts, p, sheets, max_thumb_scale, images>>
  BY DEF StartBuild, page
<1>2. Contiguous' => Contiguous /\ ScalesType' /\ BuildingInv
  BY <1>1, SameBuild DEF SitePageInv, Building
<1>3. ASSUME Contiguous'
      PROVE  BuildingInv'
  <2>1. Contiguous /\ BuildingInv /\ Building
    BY <1>1, <1>2, <1>3 DEF Building
  <2>2. \A t \in DOMAIN sheets' :
          /\ Shows(sheets[t].leaves, t, Len(all_layouts) + 1, 0)'
          /\ ScalesAre(t, Len(all_layouts) + 1, 0)'
    BY <1>1, <2>1, SameBuild DEF BuildingInv
  <2>3. p' > 0 => ImagesInv'
    BY <1>1, <2>1, SameBuild DEF BuildingInv
  <2>4. DrawingInv'
    BY <1>1, <2>1, FreshSheetDraws
  <2> QED BY <2>2, <2>3, <2>4 DEF BuildingInv
<1> QED BY <1>1, <1>2, <1>3 DEF SitePageInv
-----------------------------------------------------------------------------
(* DrawLeaf *)

\* What DrawLeaf does with a page without gaps.
LEMMA LeafIsShown ==
  ASSUME PageInv, SheetsInv, Building, Contiguous, BuildingInv, DrawLeaf
  PROVE  LET t == CurrentTarget
             g == drawing.group
             from == From(g, t)[drawn + 1]
             section == sections[from.label + 1]
         IN  /\ pc = "draw" /\ pc' = pc /\ t \in Target /\ g \in DOMAIN all_layouts /\ g \in Nat
             /\ drawing.at =< Len(target_order) /\ CurrentLayout = From(g, t)
             /\ drawn \in Nat /\ drawn + 1 \in DOMAIN From(g, t) /\ drawn' = drawn + 1
             /\ max_thumb_scale' = [max_thumb_scale EXCEPT ![t][section.row] = Scale(Moved(from), section)]
             /\ max_height' = Max({max_height, Moved(from).bottom})
             /\ ordered_dimensions' = Ordered(Moved(from))
             /\ UNCHANGED <<table, read, row, sections, all_layouts, p, drawing, offset_y, sheets, images>>
<1>1. DrawingInv /\ InGroup /\ drawn < Len(CurrentLayout)
      /\ UNCHANGED <<table, read, row, sections, all_layouts, p, drawing, offset_y, sheets, images>>
  BY DEF DrawLeaf, BuildingInv, InGroup, InSheet, page
<1>2. PICK t, g, d, from : /\ t = CurrentTarget /\ g = drawing.group /\ d = drawn
                           /\ from = From(g, t)[d + 1]
  OBVIOUS
<1>3. /\ pc = "draw" /\ t \in Target /\ drawing.at =< Len(target_order)
      /\ g \in DOMAIN all_layouts /\ g \in Nat /\ CurrentLayout = From(g, t) /\ d \in Nat
  <2>1. g \in DOMAIN all_layouts /\ g \in Nat /\ CurrentLayout = From(g, t) /\ InSheet
    BY <1>1, <1>2, GroupIs
  <2> QED BY <1>1, <1>2, <2>1, SheetIsFor DEF DrawingInv
<1>4. d + 1 \in DOMAIN From(g, t)
  <2>1. Len(From(g, t)) \in Nat /\ DOMAIN From(g, t) = 1 .. Len(From(g, t))
    BY <1>3, LeavesAre
  <2> QED BY <1>1, <1>2, <1>3, <2>1
<1>5. /\ from.label \in Nat /\ from.label \in 0 .. Len(sections) - 1
      /\ sections[from.label + 1].row = from.label /\ sections[from.label + 1].width # none
  <2>1. from \in [label : Nat, left : Int, top : Nat, right : Int, bottom : Nat]
        /\ from.label \in 0 .. Len(sections) - 1
        /\ sections[from.label + 1].row = from.label /\ sections[from.label + 1].width # none
    BY <1>2, <1>3, <1>4, LeavesAre
  <2> QED BY <2>1
<1>6. Moved(from).label = from.label
  <2>1. from \in [label : Nat, left : Int, top : Nat, right : Int, bottom : Nat]
    BY <1>2, <1>3, <1>4, LeavesAre
  <2> QED BY <2>1 DEF Moved
<1>7. Len(sections) \in Nat /\ ~(from.label >= Len(sections)) /\ Shown(sections[from.label + 1])
  <2>1. Len(sections) \in Nat
    BY PlacesAre DEF PageInv
  <2> QED BY <1>5, <2>1 DEF Shown
<1>8. CurrentLayout[drawn + 1] = from
  BY <1>2, <1>3
<1> QED BY <1>1, <1>2, <1>3, <1>4, <1>6, <1>7, <1>8 DEF DrawLeaf

\* A leaf below the groups drawn before is apart from those, and from the others
\* of its group that are below them as well.
LEMMA MovedIsApart ==
  ASSUME NEW from, from \in [label : Nat, left : Int, top : Nat, right : Int, bottom : Nat],
         NEW other, other \in [label : Nat, left : Int, top : Nat, right : Int, bottom : Nat],
         offset_y \in Nat
  PROVE  /\ Moved(from) \in [label : Nat, left : Int, top : Nat, right : Int, bottom : Nat]
         /\ IsCopy(Moved(from), from)
         /\ Apart(from, other) => Apart(Moved(from), Moved(other))
         /\ \A leaf : leaf.bottom \in Int /\ leaf.bottom =< offset_y => Apart(Moved(from), leaf)
<1>1. /\ Moved(from) = [from EXCEPT !.top = @ + offset_y, !.bottom = @ + offset_y]
      /\ Moved(other) = [other EXCEPT !.top = @ + offset_y, !.bottom = @ + offset_y]
  BY DEF Moved
<1>2. /\ from.top \in Nat /\ from.bottom \in Nat /\ other.top \in Nat /\ other.bottom \in Nat
  OBVIOUS
<1>3. /\ Moved(from).label = from.label
      /\ Moved(from).left = from.left /\ Moved(from).right = from.right
      /\ Moved(from).top = from.top + offset_y /\ Moved(from).bottom = from.bottom + offset_y
      /\ Moved(other).left = other.left /\ Moved(other).right = other.right
      /\ Moved(other).top = other.top + offset_y /\ Moved(other).bottom = other.bottom + offset_y
  BY <1>1
<1>4. Moved(from) \in [label : Nat, left : Int, top : Nat, right : Int, bottom : Nat]
  <2>1. PICK top \in Nat, bottom \in Nat : top = from.top + offset_y /\ bottom = from.bottom + offset_y
    <3>1. from.top + offset_y \in Nat /\ from.bottom + offset_y \in Nat
      BY <1>2
    <3> QED BY <3>1
  <2>2. Moved(from) = [from EXCEPT !.top = top, !.bottom = bottom]
    BY <1>1, <2>1
  <2> QED BY <2>2
<1>5. IsCopy(Moved(from), from)
  BY <1>2, <1>3 DEF IsCopy
<1>6. Apart(from, other) => Apart(Moved(from), Moved(other))
  BY <1>2, <1>3 DEF Apart
<1>7. \A leaf : leaf.bottom \in Int /\ leaf.bottom =< offset_y => Apart(Moved(from), leaf)
  BY <1>2, <1>3 DEF Apart
<1> QED BY <1>4, <1>5, <1>6, <1>7

\* All leaves that were drawn have the scales they had, and the new one its own.
LEMMA ScalesAfterLeaf ==
  ASSUME PageInv, Building, Contiguous, ScalesType, NEW t \in Target, NEW g \in DOMAIN all_layouts,
         NEW j \in DOMAIN From(g, t), NEW leaf, IsCopy(leaf, From(g, t)[j]),
         max_thumb_scale' = [max_thumb_scale EXCEPT ![t][sections[From(g, t)[j].label + 1].row] =
                               Scale(leaf, sections[From(g, t)[j].label + 1])],
         sections' = sections
  PROVE  /\ ScalesType'
         /\ \A s \in Target : \A n \in DOMAIN all_layouts : \A k \in DOMAIN From(n, s) :
              LET label == From(n, s)[k].label
                  scale == Scale(From(n, s)[k], sections[label + 1])
              IN  max_thumb_scale[s][label] = scale \/ (s = t /\ n = g /\ k = j) =>
                    max_thumb_scale'[s][label] = scale
<1> DEFINE new == From(g, t)[j].label
           scale == Scale(From(g, t)[j], sections[new + 1])
<1>1. /\ new \in 0 .. Len(sections) - 1 /\ sections[new + 1].row = new
      /\ scale \in ScaleNumbers /\ Scale(leaf, sections[new + 1]) = scale
  BY LeavesAre, ScaleIs
<1>2. max_thumb_scale' = [max_thumb_scale EXCEPT ![t][new] = scale]
  BY <1>1
<1> HIDE DEF new, scale
<1>3. max_thumb_scale \in [Target -> [0 .. Len(sections) - 1 -> ScaleNumbers]]
  BY DEF ScalesType
<1>4. max_thumb_scale' \in [Target -> [0 .. Len(sections) - 1 -> ScaleNumbers]]
      /\ max_thumb_scale'[t][new] = scale
      /\ \A s \in Target : \A l \in 0 .. Len(sections) - 1 :
           s # t \/ l # new => max_thumb_scale'[s][l] = max_thumb_scale[s][l]
  <2>1. PICK L : L = 0 .. Len(sections) - 1
    OBVIOUS
  <2>2. /\ new \in L /\ scale \in ScaleNumbers /\ max_thumb_scale \in [Target -> [L -> ScaleNumbers]]
    BY <1>1, <1>3, <2>1
  <2>3. PICK one : one = [max_thumb_scale[t] EXCEPT ![new] = scale]
    OBVIOUS
  <2>4. max_thumb_scale[t] \in [L -> ScaleNumbers]
    BY <2>2
  <2>5. /\ one \in [L -> ScaleNumbers] /\ one[new] = scale
        /\ \A l \in L : l # new => one[l] = max_thumb_scale[t][l]
    BY <2>2, <2>3, <2>4
  <2>6. max_thumb_scale' = [max_thumb_scale EXCEPT ![t] = one]
    BY <1>2, <2>3
  <2>7. /\ max_thumb_scale' \in [Target -> [L -> ScaleNumbers]]
        /\ max_thumb_scale'[t] = one
        /\ \A s \in Target : s # t => max_thumb_scale'[s] = max_thumb_scale[s]
    BY <2>2, <2>5, <2>6
  <2> QED BY <2>1, <2>5, <2>7
<1>5. ASSUME NEW s \in Target, NEW n \in DOMAIN all_layouts, NEW k \in DOMAIN From(n, s),
             \/ max_thumb_scale[s][From(n, s)[k].label] =
                  Scale(From(n, s)[k], sections[From(n, s)[k].label + 1])
             \/ s = t /\ n = g /\ k = j
      PROVE  max_thumb_scale'[s][From(n, s)[k].label] =
               Scale(From(n, s)[k], sections[From(n, s)[k].label + 1])
  <2>1. CASE s = t /\ n = g /\ k = j
    BY <1>4, <2>1 DEF new, scale
  <2>2. CASE ~(s = t /\ n = g /\ k = j)
    <3>1. From(n, s)[k].label \in 0 .. Len(sections) - 1
      BY LeavesAre
    <3>2. s # t \/ From(n, s)[k].label # new
      BY <2>2, LabelsDiffer DEF new
    <3> QED BY <1>4, <1>5, <2>2, <3>1, <3>2
  <2> QED BY <2>1, <2>2
<1>6. ScalesType'
  BY <1>4 DEF ScalesType
<1> QED BY <1>5, <1>6

\* The greater of two numbers.
LEMMA MaxOfTwo ==
  ASSUME NEW a \in Nat, NEW b \in Nat
  PROVE  Max({a, b}) \in Nat /\ a =< Max({a, b}) /\ b =< Max({a, b})
<1> DEFINE S == {a, b}
<1>1. \E x \in S : \A y \in S : x >= y
  <2>1. a >= b \/ b >= a
    OBVIOUS
  <2> QED BY <2>1
<1>2. Max(S) \in S /\ \A y \in S : Max(S) >= y
  <2> HIDE DEF S
  <2> QED BY <1>1 DEF Max
<1>3. PICK m : m = Max(S)
  OBVIOUS
<1>4. m \in {a, b} /\ m >= a /\ m >= b
  BY <1>2, <1>3
<1> QED BY <1>3, <1>4

\* A leaf that is drawn is in its place, below what was there before.
LEMMA DrawLeafDraws ==
  ASSUME PageInv, PageInv', SheetsInv, SheetsInv', SitePageInv, DrawLeaf
  PROVE  SitePageInv'
<1>1. /\ pc = "draw" /\ pc' \in {"draw", "undefined"} /\ Building
      /\ UNCHANGED <<table, read, row, sections, all_layouts, p, sheets, images>>
  BY DEF DrawLeaf, InGroup, InSheet, page, Building
<1>2. Contiguous' <=> Contiguous
  BY <1>1, SameBuild
<1>3. CASE ~Contiguous
  BY <1>1, <1>2, <1>3 DEF SitePageInv, Building
<1>4. CASE Contiguous
  <2>0. BuildingInv /\ ScalesType /\ DrawingInv
    BY <1>1, <1>4 DEF SitePageInv, BuildingInv
  <2>1. PICK t, g, d, from, leaf :
          t = CurrentTarget /\ g = drawing.group /\ d = drawn /\ from = From(g, t)[d + 1]
          /\ leaf = Moved(from)
    OBVIOUS
  <2>2. /\ pc' = "draw" /\ t \in Target /\ g \in DOMAIN all_layouts /\ g \in Nat
        /\ drawing.at =< Len(target_order) /\ CurrentLayout = From(g, t)
        /\ d \in Nat /\ d + 1 \in DOMAIN From(g, t) /\ drawn' = d + 1
        /\ max_thumb_scale' =
             [max_thumb_scale EXCEPT ![t][sections[from.label + 1].row] =
                Scale(leaf, sections[from.label + 1])]
        /\ max_height' = Max({max_height, leaf.bottom})
        /\ ordered_dimensions' = Ordered(leaf)
        /\ drawing' = drawing /\ offset_y' = offset_y
    BY <1>1, <1>4, <2>0, <2>1, LeafIsShown
  <2>3. /\ offset_y \in Nat /\ max_height \in Nat /\ offset_y =< max_height
        /\ Shows(ordered_dimensions, t, g, d) /\ ScalesAre(t, g, d)
        /\ \A old \in Range(ordered_dimensions) :
             /\ old.bottom =< max_height
             /\ old.bottom =< offset_y \/ \E k \in 1 .. d : old = Moved(From(g, t)[k])
    BY <2>0, <2>1, <2>2 DEF DrawingInv
  <2>4. Len(From(g, t)) \in Nat /\ DOMAIN From(g, t) = 1 .. Len(From(g, t))
    BY <1>1, <1>4, <2>2, LeavesAre
  <2> DEFINE Leaf == [label : Nat, left : Int, top : Nat, right : Int, bottom : Nat]
  <2>5. \A k \in DOMAIN From(g, t) : From(g, t)[k] \in Leaf
    BY <1>1, <1>4, <2>2, LeavesAre
  <2>6. from \in Leaf /\ leaf \in Leaf /\ IsCopy(leaf, from)
    BY <2>1, <2>2, <2>3, <2>5, MovedIsApart
  <2>7. ASSUME NEW a \in DOMAIN ordered_dimensions
        PROVE  Apart(leaf, ordered_dimensions[a])
    <3>1. PICK old : old = ordered_dimensions[a]
      OBVIOUS
    <3>2. old \in Range(ordered_dimensions)
      BY <3>1 DEF Range
    <3>3. CASE old.bottom =< offset_y
      <4>1. PICK n \in Nat, k \in Nat : IsCopy(old, From(n, t)[k])
        BY <2>3, <3>1 DEF Shows
      <4>2. old.bottom \in Int
        BY <4>1 DEF IsCopy
      <4> QED BY <2>1, <2>3, <2>6, <3>1, <3>3, <4>2, MovedIsApart
    <3>4. CASE \E k \in 1 .. d : old = Moved(From(g, t)[k])
      <4>1. PICK k \in 1 .. d : old = Moved(From(g, t)[k])
        BY <3>4
      <4>2. k \in DOMAIN From(g, t) /\ k # d + 1
        BY <2>2, <2>4
      <4>3. Apart(from, From(g, t)[k])
        <5>1. IsDrawable(From(g, t), g)
          BY <1>1, <2>2 DEF PageInv, LayoutsInv
        <5>2. \A i, j \in DOMAIN From(g, t) : i # j => Apart(From(g, t)[i], From(g, t)[j])
          BY <5>1 DEF IsDrawable
        <5> QED BY <2>1, <2>2, <4>2, <5>2
      <4> QED BY <2>1, <2>3, <2>5, <2>6, <3>1, <4>1, <4>2, <4>3, MovedIsApart
    <3> QED BY <2>3, <3>2, <3>3, <3>4
  <2>8. /\ IsSequence(ordered_dimensions') /\ IsWith(ordered_dimensions', ordered_dimensions, leaf)
    <3>1. IsSequence(ordered_dimensions)
      BY <2>3 DEF Shows
    <3> QED BY <2>2, <3>1, OrderedIsWith
  <2>9. Shows(ordered_dimensions', t, g, d + 1)
    BY <1>1, <1>4, <2>1, <2>2, <2>3, <2>6, <2>7, <2>8, ShowsOneMore
  <2>10. /\ ScalesType'
         /\ \A s \in Target : \A n \in DOMAIN all_layouts : \A k \in DOMAIN From(n, s) :
              LET label == From(n, s)[k].label
                  scale == Scale(From(n, s)[k], sections[label + 1])
              IN  max_thumb_scale[s][label] = scale \/ (s = t /\ n = g /\ k = d + 1) =>
                    max_thumb_scale'[s][label] = scale
    <3>1. PICK j \in DOMAIN From(g, t) : j = d + 1
      BY <2>2
    <3>2. /\ IsCopy(leaf, From(g, t)[j]) /\ sections' = sections
          /\ max_thumb_scale' =
               [max_thumb_scale EXCEPT ![t][sections[From(g, t)[j].label + 1].row] =
                  Scale(leaf, sections[From(g, t)[j].label + 1])]
      BY <1>1, <2>1, <2>2, <2>6, <3>1
    <3>3. t \in Target /\ g \in DOMAIN all_layouts
      BY <2>2
    <3>4. /\ ScalesType'
          /\ \A s \in Target : \A n \in DOMAIN all_layouts : \A k \in DOMAIN From(n, s) :
               LET label == From(n, s)[k].label
                   scale == Scale(From(n, s)[k], sections[label + 1])
               IN  max_thumb_scale[s][label] = scale \/ (s = t /\ n = g /\ k = j) =>
                     max_thumb_scale'[s][label] = scale
      BY <1>1, <1>4, <2>0, <3>2, <3>3, ScalesAfterLeaf
    <3> QED BY <3>1, <3>4
  <2>11. ASSUME NEW n \in Nat, NEW k \in Nat, IsDrawn(n, k, t, g, d + 1)
         PROVE  max_thumb_scale'[t][From(n, t)[k].label] =
                  Scale(From(n, t)[k], sections[From(n, t)[k].label + 1])
    <3>1. n \in DOMAIN all_layouts /\ k \in DOMAIN From(n, t)
      BY <2>11 DEF IsDrawn
    <3>2. IsDrawn(n, k, t, g, d) \/ (n = g /\ k = d + 1)
      BY <2>2, <2>11 DEF IsDrawn
    <3>3. \/ max_thumb_scale[t][From(n, t)[k].label] =
               Scale(From(n, t)[k], sections[From(n, t)[k].label + 1])
          \/ n = g /\ k = d + 1
      BY <2>3, <3>2 DEF ScalesAre
    <3> QED BY <2>2, <2>10, <3>1, <3>3
  <2>12. ASSUME NEW s \in DOMAIN sheets, NEW n \in Nat, NEW k \in Nat,
                IsDrawn(n, k, s, Len(all_layouts) + 1, 0)
         PROVE  max_thumb_scale'[s][From(n, s)[k].label] =
                  Scale(From(n, s)[k], sections[From(n, s)[k].label + 1])
    <3>1. n \in DOMAIN all_layouts /\ k \in DOMAIN From(n, s) /\ s \in Target
      BY <2>12 DEF IsDrawn, SheetsInv
    <3>2. max_thumb_scale[s][From(n, s)[k].label] =
            Scale(From(n, s)[k], sections[From(n, s)[k].label + 1])
      BY <2>0, <2>12 DEF BuildingInv, ScalesAre
    <3> QED BY <2>10, <3>1, <3>2
  <2> HIDE DEF Leaf
  <2>13. \A n, s : From(n, s)' = From(n, s)
    BY <1>1, SameBuild
  <2>14. \A n, k, s, h, e : IsDrawn(n, k, s, h, e)' <=> IsDrawn(n, k, s, h, e)
    BY <1>1, SameBuild
  <2>15. CurrentTarget' = t /\ drawing'.group = g /\ drawn' = d + 1
         /\ Len(target_order') = Len(target_order)
    BY <2>1, <2>2 DEF CurrentTarget, target_order
  <2>16. ScalesAre(CurrentTarget, drawing.group, drawn)'
    <3>1. ScalesAre(t, g, d + 1)'
      BY <1>1, <2>11, <2>13, <2>14 DEF ScalesAre
    <3> QED BY <2>15, <3>1
  <2>17. Shows(ordered_dimensions, CurrentTarget, drawing.group, drawn)'
    BY <1>1, <2>9, <2>15, SameBuild
  <2>18. /\ max_height' \in Nat /\ max_height =< max_height' /\ leaf.bottom =< max_height'
    <3>1. leaf.bottom \in Nat
      BY <2>6 DEF Leaf
    <3> QED BY <2>2, <2>3, <3>1, MaxOfTwo
  <2>19. ASSUME NEW new \in Range(ordered_dimensions')
         PROVE  /\ new.bottom =< max_height'
                /\ new.bottom =< offset_y \/ \E k \in 1 .. d + 1 : new = Moved(From(g, t)[k])
    <3>1. PICK a \in DOMAIN ordered_dimensions' : new = ordered_dimensions'[a]
      BY DEF Range
    <3>2. CASE new = leaf
      <4>1. d + 1 \in 1 .. d + 1
        BY <2>2
      <4> QED BY <2>1, <2>18, <3>2, <4>1
    <3>3. CASE \E c \in DOMAIN ordered_dimensions : new = ordered_dimensions[c]
      <4>1. PICK c \in DOMAIN ordered_dimensions : new = ordered_dimensions[c]
        BY <3>3
      <4>2. new \in Range(ordered_dimensions)
        BY <4>1 DEF Range
      <4>3. new.bottom =< max_height
            /\ (new.bottom =< offset_y \/ \E k \in 1 .. d : new = Moved(From(g, t)[k]))
        BY <2>3, <4>2
      <4>4. new.bottom \in Int
        <5>1. PICK n \in Nat, k \in Nat : IsCopy(new, From(n, t)[k])
          BY <2>3, <4>1 DEF Shows
        <5> QED BY <5>1 DEF IsCopy
      <4>5. new.bottom =< max_height'
        BY <2>3, <2>18, <4>3, <4>4
      <4>6. \A k \in 1 .. d : k \in 1 .. d + 1
        BY <2>2
      <4> QED BY <4>3, <4>5, <4>6
    <3> QED BY <2>8, <3>1, <3>2, <3>3, WithIs
  <2>20. drawing'.group =< Len(all_layouts') /\ drawn' =< Len(CurrentLayout')
         /\ CurrentLayout' = From(g, t)
    <3>1. CurrentLayout' = From(g, t)
      BY <1>1, <2>15 DEF CurrentLayout, From
    <3>2. g =< Len(all_layouts) /\ d + 1 =< Len(From(g, t))
      <4>1. IsSequence(all_layouts)
        BY DEF PageInv, LayoutsInv
      <4>2. Len(all_layouts) \in Nat /\ DOMAIN all_layouts = 1 .. Len(all_layouts)
        BY <4>1 DEF IsSequence
      <4> QED BY <2>2, <2>4, <4>2
    <3> QED BY <1>1, <2>15, <3>1, <3>2
  <2>21. \A leaf_k : Moved(leaf_k)' = Moved(leaf_k)
    BY <2>2 DEF Moved
  <2>22. DrawingInv'
    <3>1. /\ drawing'.group \in 1 .. Len(all_layouts') + 1 /\ drawn' \in Nat
          /\ ~(drawing'.group > Len(all_layouts'))
          /\ offset_y' \in Nat /\ max_height' \in Nat /\ offset_y' =< max_height'
      <4>1. IsSequence(all_layouts)
        BY DEF PageInv, LayoutsInv
      <4>2. Len(all_layouts) \in Nat
        BY <4>1 DEF IsSequence
      <4> QED BY <1>1, <2>0, <2>2, <2>3, <2>15, <2>18, <2>20, <4>2 DEF DrawingInv
    <3>2. \A new \in Range(ordered_dimensions') :
            /\ new.bottom =< max_height'
            /\ \/ new.bottom =< offset_y'
               \/ /\ drawing'.group =< Len(all_layouts')
                  /\ \E k \in 1 .. drawn' : new = Moved(CurrentLayout[k])'
      <4> SUFFICES ASSUME NEW new \in Range(ordered_dimensions')
                   PROVE  /\ new.bottom =< max_height'
                          /\ \/ new.bottom =< offset_y'
                             \/ \E k \in 1 .. drawn' : new = Moved(CurrentLayout[k])'
        BY <2>20
      <4>1. /\ new.bottom =< max_height'
            /\ new.bottom =< offset_y \/ \E k \in 1 .. d + 1 : new = Moved(From(g, t)[k])
        BY <2>19
      <4>2. \A k : Moved(CurrentLayout[k])' = Moved(From(g, t)[k])
        BY <2>2, <2>20 DEF Moved
      <4> QED BY <2>2, <4>1, <4>2
    <3> QED BY <2>16, <2>17, <2>20, <3>1, <3>2 DEF DrawingInv
  <2>23. \A s \in DOMAIN sheets' :
           /\ Shows(sheets[s].leaves, s, Len(all_layouts) + 1, 0)'
           /\ ScalesAre(s, Len(all_layouts) + 1, 0)'
    <3> SUFFICES ASSUME NEW s \in DOMAIN sheets
                 PROVE  /\ Shows(sheets[s].leaves, s, Len(all_layouts) + 1, 0)'
                        /\ ScalesAre(s, Len(all_layouts) + 1, 0)'
      BY <1>1
    <3>1. Shows(sheets[s].leaves, s, Len(all_layouts) + 1, 0)
      BY <2>0 DEF BuildingInv
    <3>2. Shows(sheets[s].leaves, s, Len(all_layouts) + 1, 0)'
      BY <1>1, <3>1, SameBuild
    <3>3. ScalesAre(s, Len(all_layouts) + 1, 0)'
      BY <1>1, <2>12, <2>13, <2>14 DEF ScalesAre
    <3> QED BY <3>2, <3>3
  <2>24. p' > 0 => ImagesInv'
    BY <1>1, <2>0, SameBuild DEF BuildingInv
  <2> QED BY <2>2, <2>10, <2>22, <2>23, <2>24, <1>2, <1>4 DEF SitePageInv, BuildingInv
<1> QED BY <1>3, <1>4
-----------------------------------------------------------------------------
(* The end of a group and of a sheet *)

\* The sheets that are there stay as they are.
LEMMA SheetsStay ==
  ASSUME BuildingInv, UNCHANGED <<table, read, row, sections, all_layouts, max_thumb_scale>>,
         NEW t \in DOMAIN sheets, sheets'[t] = sheets[t]
  PROVE  /\ Shows(sheets[t].leaves, t, Len(all_layouts) + 1, 0)'
         /\ ScalesAre(t, Len(all_layouts) + 1, 0)'
<1>1. Shows(sheets[t].leaves, t, Len(all_layouts) + 1, 0) /\ ScalesAre(t, Len(all_layouts) + 1, 0)
  BY DEF BuildingInv
<1>2. sheets'[t].leaves = sheets[t].leaves /\ all_layouts' = all_layouts
  OBVIOUS
<1> QED BY <1>1, <1>2, SameBuild

\* The next group starts below all that is drawn.
LEMMA GroupDrawnDraws ==
  ASSUME PageInv, PageInv', SheetsInv, SheetsInv', SitePageInv, GroupDrawn
  PROVE  SitePageInv'
<1>1. /\ pc = "draw" /\ pc' = "draw" /\ Building /\ InGroup /\ drawn = Len(CurrentLayout)
      /\ UNCHANGED <<table, read, row, sections, all_layouts, p, sheets, max_thumb_scale, images>>
      /\ offset_y' = max_height /\ max_height' = max_height /\ drawn' = 0
      /\ ordered_dimensions' = ordered_dimensions
      /\ drawing' = [drawing EXCEPT !.group = @ + 1]
  BY DEF GroupDrawn, InGroup, InSheet, page, Building, BelowThis
<1>2. (Contiguous' <=> Contiguous) /\ (Contiguous => ScalesType' /\ BuildingInv)
  BY <1>1, SameBuild DEF SitePageInv
<1>3. ASSUME Contiguous
      PROVE  BuildingInv'
  <2>1. BuildingInv /\ DrawingInv
    BY <1>1, <1>2, <1>3 DEF BuildingInv
  <2>2. PICK t, g : t = CurrentTarget /\ g = drawing.group
    OBVIOUS
  <2>3. /\ g \in DOMAIN all_layouts /\ g \in Nat /\ CurrentLayout = From(g, t) /\ t \in Target
        /\ drawing.at =< Len(target_order) /\ drawing.at \in Nat
    BY <1>1, <2>1, <2>2, GroupIs, SheetIsFor
  <2>4. drawing'.at = drawing.at /\ drawing'.group = g + 1 /\ target_order' = target_order
        /\ CurrentTarget' = t
    <3>1. drawing \in [at : Nat, group : Nat]
      BY DEF SheetsInv
    <3> QED BY <1>1, <2>2, <3>1 DEF CurrentTarget, target_order
  <2>5. /\ Shows(ordered_dimensions, t, g, Len(From(g, t))) /\ ScalesAre(t, g, Len(From(g, t)))
        /\ max_height \in Nat
        /\ \A leaf \in Range(ordered_dimensions) : leaf.bottom =< max_height
    BY <1>1, <2>1, <2>2, <2>3 DEF DrawingInv
  <2>6. \A n, k \in Nat : IsDrawn(n, k, t, g + 1, 0) <=> IsDrawn(n, k, t, g, Len(From(g, t)))
    BY <1>1, <1>3, <2>3, DrawnIs
  <2>7. Shows(ordered_dimensions, t, g + 1, 0)
    BY <2>5, <2>6 DEF Shows
  <2>8. ScalesAre(t, g + 1, 0)
    BY <2>5, <2>6 DEF ScalesAre
  <2>9. /\ Shows(ordered_dimensions, CurrentTarget, drawing.group, drawn)'
        /\ ScalesAre(CurrentTarget, drawing.group, drawn)'
    BY <1>1, <2>4, <2>7, <2>8, SameBuild
  <2>10. g + 1 \in 1 .. Len(all_layouts) + 1
    BY <2>3, BuiltAre
  <2>11. g + 1 =< Len(all_layouts) => 0 =< Len(CurrentLayout')
    <3> SUFFICES ASSUME g + 1 =< Len(all_layouts)
                 PROVE  0 =< Len(CurrentLayout')
      OBVIOUS
    <3>1. g + 1 \in DOMAIN all_layouts
      BY <2>3, BuiltAre
    <3>2. CurrentLayout' = From(g + 1, t)
      BY <1>1, <2>4 DEF CurrentLayout, From
    <3>3. Len(From(g + 1, t)) \in Nat
      BY <1>1, <1>3, <2>3, <3>1, LeavesAre
    <3> QED BY <3>2, <3>3
  <2>12. DrawingInv'
    BY <1>1, <2>4, <2>5, <2>9, <2>10, <2>11 DEF DrawingInv
  <2>13. \A s \in DOMAIN sheets' : /\ Shows(sheets[s].leaves, s, Len(all_layouts) + 1, 0)'
                                   /\ ScalesAre(s, Len(all_layouts) + 1, 0)'
    BY <1>1, <2>1, SheetsStay
  <2>14. p' > 0 => ImagesInv'
    BY <1>1, <2>1, SameBuild DEF BuildingInv
  <2> QED BY <2>12, <2>13, <2>14 DEF BuildingInv
<1> QED BY <1>1, <1>2, <1>3 DEF SitePageInv

\* A sheet is kept with what it shows, and the next one starts.
LEMMA SheetDrawnDraws ==
  ASSUME PageInv, PageInv', SheetsInv, SheetsInv', SitePageInv, SheetDrawn
  PROVE  SitePageInv'
<1>1. /\ pc = "draw" /\ pc' = "draw" /\ Building /\ InSheet /\ ~InGroup
      /\ UNCHANGED <<table, read, row, sections, all_layouts, p, max_thumb_scale, images>>
      /\ drawing' = [at |-> drawing.at + 1, group |-> 1] /\ drawn' = 0
      /\ offset_y' = 0 /\ max_height' = 0 /\ ordered_dimensions' = <<>>
  BY DEF SheetDrawn, InSheet, page, Building
<1>2. (Contiguous' <=> Contiguous) /\ (Contiguous => ScalesType' /\ BuildingInv)
  BY <1>1, SameBuild DEF SitePageInv
<1>3. ASSUME Contiguous
      PROVE  BuildingInv'
  <2>1. BuildingInv /\ DrawingInv
    BY <1>1, <1>2, <1>3 DEF BuildingInv
  <2>2. PICK t \in Target : t = CurrentTarget
    BY <1>1, SheetIsFor
  <2>3. drawing.at =< Len(target_order) /\ drawing.at \in Nat /\ drawing.at + 1 \in Nat \ {0}
    <3>1. drawing.at =< Len(target_order) /\ drawing.at \in Nat
      BY <1>1, SheetIsFor
    <3> QED BY <3>1
  <2>4. drawing.group = Len(all_layouts) + 1 /\ drawn = 0
    <3>1. ~(drawing.group =< Len(all_layouts)) /\ drawing.group \in 1 .. Len(all_layouts) + 1
      BY <1>1, <2>1 DEF InGroup, DrawingInv
    <3>2. drawing.group = Len(all_layouts) + 1 /\ drawing.group > Len(all_layouts)
      BY <3>1, BuiltAre
    <3> QED BY <2>1, <3>2 DEF DrawingInv
  <2>5. /\ Shows(ordered_dimensions, t, Len(all_layouts) + 1, 0)
        /\ ScalesAre(t, Len(all_layouts) + 1, 0)
    BY <2>1, <2>2, <2>3, <2>4 DEF DrawingInv
  <2>6. /\ sheets'[t].leaves = ordered_dimensions /\ DOMAIN sheets' = DOMAIN sheets \cup {t}
        /\ \A s \in DOMAIN sheets : s # t => sheets'[s] = sheets[s]
    BY <2>2 DEF SheetDrawn
  <2>7. /\ Shows(sheets[t].leaves, t, Len(all_layouts) + 1, 0)'
        /\ ScalesAre(t, Len(all_layouts) + 1, 0)'
    BY <1>1, <2>5, <2>6, SameBuild
  <2>8. ASSUME NEW s \in DOMAIN sheets'
        PROVE  /\ Shows(sheets[s].leaves, s, Len(all_layouts) + 1, 0)'
               /\ ScalesAre(s, Len(all_layouts) + 1, 0)'
    <3>1. CASE s = t
      BY <2>7, <3>1
    <3>2. CASE s # t
      <4>1. s \in DOMAIN sheets /\ sheets'[s] = sheets[s]
        BY <2>6, <3>2
      <4> QED BY <1>1, <2>1, <4>1, SheetsStay
    <3> QED BY <3>1, <3>2
  <2>9. p' > 0 => ImagesInv'
    BY <1>1, <2>1, SameBuild DEF BuildingInv
  <2>10. DrawingInv'
    BY <1>1, <1>3, <2>3, FreshSheetDraws
  <2> QED BY <2>8, <2>9, <2>10 DEF BuildingInv
<1> QED BY <1>1, <1>2, <1>3 DEF SitePageInv

\* A step that draws and writes nothing, while main builds.
LEMMA IdleBuildKeeps ==
  ASSUME PageInv, PageInv', SitePageInv, Building, pc' \in {"build", "images", "done"},
         UNCHANGED <<table, read, row, sections, all_layouts, p, sheets, max_thumb_scale, images>>
  PROVE  SitePageInv'
<1>1. (Contiguous' <=> Contiguous) /\ (Contiguous => ScalesType' /\ BuildingInv)
  BY SameBuild DEF SitePageInv
<1>2. ASSUME Contiguous
      PROVE  BuildingInv'
  <2>1. BuildingInv
    BY <1>1, <1>2
  <2>2. \A s \in DOMAIN sheets' : /\ Shows(sheets[s].leaves, s, Len(all_layouts) + 1, 0)'
                                  /\ ScalesAre(s, Len(all_layouts) + 1, 0)'
    BY <2>1, SheetsStay
  <2>3. p' > 0 => ImagesInv'
    BY <2>1, SameBuild DEF BuildingInv
  <2> QED BY <2>2, <2>3 DEF BuildingInv
<1> QED BY <1>1, <1>2 DEF SitePageInv
-----------------------------------------------------------------------------
(* ExportImages *)

\* A scale that is stretched is a scale.
LEMMA StretchedIs ==
  ASSUME NEW t \in Target, NEW scale \in ScaleNumbers
  PROVE  Stretched(t, scale) \in ScaleNumbers /\ Widened(t, scale) \in ScaleNumbers
<1>1. Width(t) \in Nat \ {0} /\ t \in Nat /\ Widest = Len(TargetWidths) - 1 /\ Widest \in Nat
      /\ Target = 0 .. Widest
  BY TargetsAre DEF Widest
<1>2. Stretched(t, scale) \in ScaleNumbers
  <2>1. CASE t < Len(TargetWidths) - 1
    <3>1. Width(t + 1) \in Nat
      BY <1>1, <2>1, NextIsWider
    <3>2. Rational(Width(t + 1), Width(t)) \in ScaleNumbers
      BY <1>1, <3>1, RationalIsScale
    <3> QED BY <2>1, <3>2, ScaledUp DEF Stretched
  <2>2. CASE ~(t < Len(TargetWidths) - 1)
    BY <2>2 DEF Stretched
  <2> QED BY <2>1, <2>2
<1>3. Widened(t, scale) \in ScaleNumbers
  <2>1. Rational(480, Width(t)) \in ScaleNumbers
    BY <1>1, RationalIsScale
  <2> QED BY <2>1, ScaledUp DEF Widened
<1> QED BY <1>2, <1>3

\* The scales of a picture that are written are the greatest of those it is shown at.
LEMMA MaxScaleIs ==
  ASSUME ScalesType, NEW section, section.row \in 0 .. Len(sections) - 1
  PROVE  /\ MaxScale(section) \in ScaleNumbers
         /\ \A t \in Target :
              /\ max_thumb_scale[t][section.row] \in ScaleNumbers
              /\ AtMost(Stretched(t, max_thumb_scale[t][section.row]), MaxScale(section))
         /\ MaxScale480(section) \in ScaleNumbers
         /\ \A t \in Target : Width(t) =< 480 =>
              AtMost(Widened(t, max_thumb_scale[t][section.row]), MaxScale480(section))
<1> DEFINE scale(t) == max_thumb_scale[t][section.row]
           S == {Stretched(t, scale(t)) : t \in Target}
           phones == {u \in Target : Width(u) =< 480}
           W == {Widened(t, scale(t)) : t \in phones}
<1>1. \A t \in Target : scale(t) \in ScaleNumbers
  <2>1. PICK L : L = 0 .. Len(sections) - 1
    OBVIOUS
  <2>2. max_thumb_scale \in [Target -> [L -> ScaleNumbers]] /\ section.row \in L
    BY <2>1 DEF ScalesType
  <2> QED BY <2>2
<1> HIDE DEF scale
<1>2. Whole(0) \in ScaleNumbers
  <2>1. 0 =< 0
    OBVIOUS
  <2> QED BY <2>1, WholeIsReduced, WholeOrder DEF ScaleNumbers
<1>3. IsFiniteSet(Target)
  BY TargetsAre, FS_Interval
<1>4. S \in SUBSET ScaleNumbers /\ W \in SUBSET ScaleNumbers
  BY <1>1, StretchedIs
<1>5. IsFiniteSet(S)
  <2> DEFINE f == [t \in Target |-> Stretched(t, scale(t))]
  <2>1. IsFiniteSet({f[t] : t \in Target})
    <3> HIDE DEF f
    <3> QED BY <1>3, FiniteImage
  <2> QED BY <2>1
<1>6. IsFiniteSet(W)
  <2> DEFINE f == [t \in phones |-> Widened(t, scale(t))]
  <2>1. phones \in SUBSET Target
    OBVIOUS
  <2>2. IsFiniteSet(phones)
    BY <1>3, <2>1, FS_Subset
  <2>3. IsFiniteSet({f[t] : t \in phones})
    <3> HIDE DEF f, phones
    <3> QED BY <2>2, FiniteImage
  <2> QED BY <2>3
<1>7. MaxScale(section) = Greatest({Whole(0)} \cup S)
  BY DEF MaxScale, scale
<1>8. MaxScale480(section) = Greatest({Whole(0)} \cup W)
  BY DEF MaxScale480, scale, Widened
<1>9. ASSUME NEW T \in SUBSET ScaleNumbers, IsFiniteSet(T)
      PROVE  /\ Greatest({Whole(0)} \cup T) \in ScaleNumbers
             /\ \A x \in T : AtMost(x, Greatest({Whole(0)} \cup T))
  <2> DEFINE U == {Whole(0)} \cup T
  <2>1. U \in SUBSET ScaleNumbers /\ U # {} /\ T \in SUBSET U
    BY <1>2
  <2>2. IsFiniteSet(U)
    <3>1. IsFiniteSet(T \cup {Whole(0)})
      BY <1>9, FS_AddElement
    <3>2. U = T \cup {Whole(0)}
      OBVIOUS
    <3> QED BY <3>1, <3>2
  <2> HIDE DEF U
  <2>3. Greatest(U) \in U /\ \A x \in U : AtMost(x, Greatest(U))
    BY <2>1, <2>2, GreatestIs
  <2>4. Greatest(U) \in ScaleNumbers /\ \A x \in T : AtMost(x, Greatest(U))
    BY <2>1, <2>3
  <2> QED BY <2>4 DEF U
<1>10. \A t \in Target : Stretched(t, scale(t)) \in S
  OBVIOUS
<1>11. \A t \in Target : Width(t) =< 480 => Widened(t, scale(t)) \in W
  OBVIOUS
<1> HIDE DEF S, W
<1>12. /\ MaxScale(section) \in ScaleNumbers
       /\ \A t \in Target : AtMost(Stretched(t, scale(t)), MaxScale(section))
  BY <1>4, <1>5, <1>7, <1>9, <1>10
<1>13. /\ MaxScale480(section) \in ScaleNumbers
       /\ \A t \in Target : Width(t) =< 480 => AtMost(Widened(t, scale(t)), MaxScale480(section))
  BY <1>4, <1>6, <1>8, <1>9, <1>11
<1> QED BY <1>1, <1>12, <1>13 DEF scale

\* The pictures that are written are as large as any sheet shows them.
LEMMA ExportWritesAll ==
  ASSUME PageInv, SheetsInv, BuildingInv, ScalesType, Contiguous, ExportImages
  PROVE  /\ pc' = "build" /\ ImagesInv'
         /\ UNCHANGED <<table, read, row, sections, all_layouts, sheets, max_thumb_scale>>
<1> DEFINE jpegs == {n \in DOMAIN sections : sections[n].jpeg}
           rows == {sections[n].row : n \in jpegs}
           of(r) == CHOOSE section \in Range(sections) : section.row = r
<1>1. /\ pc = "images" /\ Building
      /\ UNCHANGED <<table, read, row, sections, all_layouts, sheets, max_thumb_scale>>
  BY DEF ExportImages, page, Building
<1>2. /\ DOMAIN sections = 1 .. Len(sections) /\ Len(sections) \in Nat
      /\ \A n \in DOMAIN sections : sections[n].row = n - 1 /\ sections[n].width # none
                                    /\ IsSection(sections[n])
  BY PlacesAre DEF PageInv, ReadInv, Contiguous
<1>3. \A n \in DOMAIN sections : Shown(sections[n])
  BY <1>2 DEF Shown
<1>4. /\ pc' = "build"
      /\ images' = [r \in rows |->
           [desktop    |-> ExportScale(of(r), MaxScale(of(r)), 768),
            desktop_2x |-> ExportScale(of(r), Times(MaxScale(of(r)), Half3), 1152),
            mobile     |-> ExportScale(of(r), MaxScale480(of(r)), 480),
            mobile_2x  |-> ExportScale(of(r), Times(MaxScale480(of(r)), Half3), 720)]]
  BY <1>3 DEF ExportImages
<1>5. ASSUME NEW n \in DOMAIN sections
      PROVE  of(sections[n].row) = sections[n]
  <2>1. sections[n] \in Range(sections)
    BY DEF Range
  <2>2. \A section \in Range(sections) : section.row = sections[n].row => section = sections[n]
    <3> SUFFICES ASSUME NEW section \in Range(sections), section.row = sections[n].row
                 PROVE  section = sections[n]
      OBVIOUS
    <3>1. PICK m \in DOMAIN sections : section = sections[m]
      BY DEF Range
    <3>2. m - 1 = n - 1 /\ m \in Nat /\ n \in Nat
      BY <1>2, <3>1
    <3> QED BY <3>1, <3>2
  <2> QED BY <2>1, <2>2
<1> HIDE DEF of
<1>6. ASSUME NEW n \in DOMAIN sections, sections[n].jpeg
      PROVE  /\ images'[sections[n].row].desktop = ExportScale(sections[n], MaxScale(sections[n]), 768)
             /\ images'[sections[n].row].mobile = ExportScale(sections[n], MaxScale480(sections[n]), 480)
  <2>1. sections[n].row \in rows
    BY <1>6
  <2> HIDE DEF rows
  <2> QED BY <1>4, <1>5, <2>1
<1>7. ASSUME NEW t \in Target, NEW n \in Nat, NEW k \in Nat,
             IsDrawn(n, k, t, Len(all_layouts) + 1, 0),
             NEW label, label = From(n, t)[k].label,
             NEW scale, scale = Scale(From(n, t)[k], sections[label + 1]),
             sections[label + 1].jpeg
      PROVE  /\ images'[label].desktop \in ScaleNumbers /\ images'[label].mobile \in ScaleNumbers
             /\ AtMost(Stretched(t, scale), images'[label].desktop)
             /\ Width(t) =< 480 => AtMost(Widened(t, scale), images'[label].mobile)
  <2>1. n \in DOMAIN all_layouts /\ k \in DOMAIN From(n, t)
    BY <1>7 DEF IsDrawn
  <2>2. PICK section : section = sections[label + 1]
    OBVIOUS
  <2>3. /\ label + 1 \in DOMAIN sections /\ label \in 0 .. Len(sections) - 1 /\ section.row = label
        /\ section.width # none /\ IsSection(section)
    BY <1>1, <1>7, <2>1, <2>2, LeavesAre
  <2>4. max_thumb_scale[t][label] = scale
    <3>1. t \in DOMAIN sheets
      BY <1>1 DEF SheetsInv
    <3>2. ScalesAre(t, Len(all_layouts) + 1, 0)
      BY <3>1 DEF BuildingInv
    <3> QED BY <1>7, <3>2 DEF ScalesAre
  <2>5. section.width \in Nat \ {0} /\ section.height \in Nat \ {0}
    <3>1. section.width \in Int /\ section.height \in Int /\ section.width > 0 /\ section.height > 0
      BY <2>3 DEF IsSection
    <3> QED BY <3>1
  <2>6. /\ MaxScale(section) \in ScaleNumbers /\ MaxScale480(section) \in ScaleNumbers
        /\ scale \in ScaleNumbers
        /\ AtMost(Stretched(t, scale), MaxScale(section))
        /\ Width(t) =< 480 => AtMost(Widened(t, scale), MaxScale480(section))
    BY <2>3, <2>4, MaxScaleIs
  <2>7. /\ images'[label].desktop = ExportScale(section, MaxScale(section), 768)
        /\ images'[label].mobile = ExportScale(section, MaxScale480(section), 480)
    BY <1>6, <1>7, <2>2, <2>3
  <2>8. /\ images'[label].desktop \in ScaleNumbers /\ AtMost(MaxScale(section), images'[label].desktop)
        /\ images'[label].mobile \in ScaleNumbers /\ AtMost(MaxScale480(section), images'[label].mobile)
    BY <2>5, <2>6, <2>7, ExportIsLarge
  <2>9. \A x, y, z \in ScaleNumbers : AtMost(x, y) /\ AtMost(y, z) => AtMost(x, z)
    BY ScaleIsNumber, AtMostTransitive
  <2>10. Stretched(t, scale) \in ScaleNumbers /\ Widened(t, scale) \in ScaleNumbers
    BY <2>6, StretchedIs
  <2> QED BY <2>6, <2>8, <2>9, <2>10
<1>8. \A n, t : From(n, t)' = From(n, t)
  BY <1>1, SameBuild
<1>9. \A n, k, t, g, d : IsDrawn(n, k, t, g, d)' <=> IsDrawn(n, k, t, g, d)
  BY <1>1, SameBuild
<1>10. ImagesInv'
  BY <1>1, <1>7, <1>8, <1>9 DEF ImagesInv
<1> QED BY <1>1, <1>4, <1>10
-----------------------------------------------------------------------------
(* The invariants *)

\* Before the sheets: all sections get a place for their scales.
LEMMA ReadingKeeps ==
  ASSUME PageInv, PageInv', SitePageInv,
         ReadRow \/ SiteRead \/ BuildGroup \/ NoBaseGroups \/ GroupsBuilt
  PROVE  SitePageInv'
<1>1. CASE ReadRow
  <2>1. pc = "read" /\ pc' \in {"read", "aborted", "undefined"} /\ UNCHANGED <<p, sheets>>
    BY <1>1 DEF ReadRow
  <2> QED BY <2>1 DEF SitePageInv, Building
<1>2. CASE SiteRead
  <2>1. /\ pc = "read" /\ pc' = "layouts" /\ sections' = sections /\ UNCHANGED <<p, sheets>>
        /\ max_thumb_scale' = [t \in Target |-> [r \in 0 .. Len(sections) - 1 |-> Whole(0)]]
    BY <1>2 DEF SiteRead, page
  <2>2. Whole(0) \in ScaleNumbers
    <3>1. 0 =< 0
      OBVIOUS
    <3> QED BY <3>1, WholeIsReduced, WholeOrder DEF ScaleNumbers
  <2>3. ScalesType'
    BY <2>1, <2>2 DEF ScalesType
  <2> QED BY <2>1, <2>3 DEF SitePageInv, Building
<1>3. CASE BuildGroup \/ NoBaseGroups
  <2>1. /\ pc = "layouts" /\ pc' \in {"layouts", "aborted", "undefined"}
        /\ UNCHANGED <<table, read, row, sections, p, sheets, max_thumb_scale>>
    BY <1>3 DEF BuildGroup, NoBaseGroups, MoreGroups, page
  <2>2. (Contiguous' <=> Contiguous) /\ (ScalesType' <=> ScalesType)
    <3>1. Contiguous' <=> Contiguous
      BY <2>1, SamePage
    <3> QED BY <2>1, <3>1 DEF ScalesType
  <2> QED BY <2>1, <2>2 DEF SitePageInv, Building
<1>4. CASE GroupsBuilt
  <2>1. /\ pc = "layouts" /\ pc' = "build"
        /\ UNCHANGED <<table, read, row, sections, all_layouts, p, sheets, max_thumb_scale>>
    BY <1>4 DEF GroupsBuilt, page
  <2>2. (Contiguous' <=> Contiguous) /\ (ScalesType' <=> ScalesType)
    BY <2>1, SameBuild
  <2>3. p' = 0 /\ sheets' = << >>
    BY <2>1 DEF SitePageInv
  <2>4. BuildingInv'
    BY <2>1, <2>3 DEF BuildingInv
  <2> QED BY <2>1, <2>2, <2>4 DEF SitePageInv, Building
<1> QED BY <1>1, <1>2, <1>3, <1>4

\* The pictures that are written leave the sheets alone.
LEMMA ExportKeeps ==
  ASSUME PageInv, PageInv', SheetsInv, SitePageInv, ExportImages
  PROVE  SitePageInv'
<1>1. /\ pc = "images" /\ Building /\ pc' \in {"undefined", "build"}
      /\ UNCHANGED <<table, read, row, sections, all_layouts, sheets, max_thumb_scale>>
  BY DEF ExportImages, page, Building
<1>2. Contiguous' <=> Contiguous
  BY <1>1, SameBuild
<1>3. CASE ~Contiguous
  BY <1>1, <1>2, <1>3 DEF SitePageInv
<1>4. CASE Contiguous
  <2>1. BuildingInv /\ ScalesType
    BY <1>1, <1>4 DEF SitePageInv
  <2>2. pc' = "build" /\ ImagesInv'
    BY <1>4, <2>1, ExportWritesAll
  <2>3. ScalesType'
    BY <1>1, <2>1, SameBuild
  <2>4. \A s \in DOMAIN sheets' : /\ Shows(sheets[s].leaves, s, Len(all_layouts) + 1, 0)'
                                  /\ ScalesAre(s, Len(all_layouts) + 1, 0)'
    BY <1>1, <2>1, SheetsStay
  <2>5. BuildingInv'
    BY <2>2, <2>4 DEF BuildingInv
  <2> QED BY <2>2, <2>3, <2>5 DEF SitePageInv
<1> QED BY <1>3, <1>4

\* A step of none of the variables.
LEMMA StutterKeeps ==
  ASSUME SitePageInv, UNCHANGED vars
  PROVE  SitePageInv'
<1>1. /\ pc' = pc
      /\ UNCHANGED <<table, read, row, sections, all_layouts, p, drawing, drawn, offset_y, max_height,
                     ordered_dimensions, sheets, max_thumb_scale, images>>
  BY DEF vars
<1>2. (Contiguous' <=> Contiguous) /\ (ScalesType' <=> ScalesType) /\ (Building' <=> Building)
  BY <1>1, SameBuild DEF Building
<1>3. ASSUME BuildingInv
      PROVE  BuildingInv'
  <2>1. \A s \in DOMAIN sheets' : /\ Shows(sheets[s].leaves, s, Len(all_layouts) + 1, 0)'
                                  /\ ScalesAre(s, Len(all_layouts) + 1, 0)'
    BY <1>1, <1>3, SheetsStay
  <2>2. p' > 0 => ImagesInv'
    BY <1>1, <1>3, SameBuild DEF BuildingInv
  <2>3. ASSUME DrawingInv
        PROVE  DrawingInv'
    <3>1. /\ CurrentTarget' = CurrentTarget /\ CurrentLayout' = CurrentLayout
          /\ target_order' = target_order /\ \A leaf : Moved(leaf)' = Moved(leaf)
      BY <1>1 DEF CurrentTarget, CurrentLayout, target_order, Moved
    <3>2. /\ Shows(ordered_dimensions, CurrentTarget, drawing.group, drawn) =>
               Shows(ordered_dimensions, CurrentTarget, drawing.group, drawn)'
          /\ ScalesAre(CurrentTarget, drawing.group, drawn) =>
               ScalesAre(CurrentTarget, drawing.group, drawn)'
      BY <1>1, <3>1, SameBuild
    <3>3. \A k : Moved(CurrentLayout[k])' = Moved(CurrentLayout[k])
      BY <1>1, <3>1 DEF Moved
    <3> QED BY <1>1, <2>3, <3>1, <3>2, <3>3 DEF DrawingInv
  <2> QED BY <1>1, <1>3, <2>1, <2>2, <2>3 DEF BuildingInv
<1> QED BY <1>1, <1>2, <1>3 DEF SitePageInv

\* What is read and laid out is as main and ReadSite leave it, at every step.
THEOREM PageInvariant == Spec => []PageInv
<1>1. PageInv /\ [Next \/ Returned]_vars => PageInv'
  BY PageKeeps
<1> QED BY <1>1, PageAtFirst, PTL DEF Spec

\* The inductive invariant of main, of pages without gaps and with them.
THEOREM SitePageInvariant == Spec => []SitePageInv
<1>1. Init => SitePageInv
  BY DEF Init, SitePageInv, Building
<1>2. PageInv /\ PageInv' /\ SheetsInv /\ SheetsInv' /\ SitePageInv /\ [Next \/ Returned]_vars
      => SitePageInv'
  <2> SUFFICES ASSUME PageInv, PageInv', SheetsInv, SheetsInv', SitePageInv, [Next \/ Returned]_vars
               PROVE  SitePageInv'
    OBVIOUS
  <2>1. CASE ReadRow \/ SiteRead \/ BuildGroup \/ NoBaseGroups \/ GroupsBuilt
    BY <2>1, ReadingKeeps
  <2>2. CASE StartBuild
    BY <2>2, StartBuildDraws
  <2>3. CASE DrawLeaf
    BY <2>3, DrawLeafDraws
  <2>4. CASE GroupDrawn
    BY <2>4, GroupDrawnDraws
  <2>5. CASE SheetDrawn
    BY <2>5, SheetDrawnDraws
  <2>6. CASE SheetsDrawn \/ Return
    <3>1. /\ Building /\ pc' \in {"build", "images", "done"}
          /\ UNCHANGED <<table, read, row, sections, all_layouts, p, sheets, max_thumb_scale, images>>
      BY <2>6 DEF SheetsDrawn, Return, page, Building
    <3> QED BY <3>1, IdleBuildKeeps
  <2>7. CASE ExportImages
    BY <2>7, ExportKeeps
  <2>8. CASE UNCHANGED vars
    BY <2>8, StutterKeeps
  <2> QED BY <2>1, <2>2, <2>3, <2>4, <2>5, <2>6, <2>7, <2>8 DEF Next, Returned
<1> QED BY <1>1, <1>2, PageInvariant, SheetsInvariant, PTL DEF Spec

\* A row at which the loop over the columns stops, but not at a picture that can
\* not be read, leaves a gap.
LEMMA StopIsGap ==
  ASSUME ReadInv, ReadRow, pc' = "undefined"
  PROVE  ~Contiguous'
<1>1. /\ Stops # {} /\ ~Unreadable(Record, Min(Stops))
      /\ table' = table /\ read' = read + 1 /\ MoreRows
  BY DEF ReadRow
<1>2. Min(Stops) \in Stops
  <2>1. Stops \in SUBSET Nat
    BY TableFacts DEF Stops
  <2> QED BY <1>1, <2>1, LeastOf
<1>3. PICK n \in DOMAIN table.header : n = Min(Stops) /\ (NoField(Record, n) \/ NoDot(Record, n))
  BY <1>1, <1>2 DEF Stops
<1>4. read' \in 1 .. read' /\ Record = table'.rows[read']
  BY <1>1, TableFacts DEF Record
<1>5. PICK record : record = Record
  OBVIOUS
<1>6. /\ NoField(record, n)' <=> NoField(record, n)
      /\ NoDot(record, n)' <=> NoDot(record, n)
  BY <1>1 DEF NoField, NoDot, HasPoster
<1> QED BY <1>1, <1>3, <1>4, <1>5, <1>6 DEF Contiguous

\* A page without gaps is read, drawn and exported past no end, of any length, for
\* any targets and any layouts that BuildLayouts gives: only BuildLayouts may find
\* nothing to start with.
THEOREM UndefinedOnlyInBuildLayoutsCorrect == Spec => UndefinedOnlyInBuildLayouts
<1>1. PageInv /\ SheetsInv /\ SitePageInv /\ [Next \/ Returned]_vars
      => [pc' = "undefined" /\ Contiguous' => pc = "layouts"]_vars
  <2> SUFFICES ASSUME PageInv, SheetsInv, SitePageInv, Next,
                      pc' = "undefined", Contiguous'
               PROVE  pc = "layouts"
    BY DEF Returned
  <2>1. CASE ReadRow
    BY <2>1, StopIsGap DEF PageInv
  <2>2. CASE BuildGroup \/ NoBaseGroups
    BY <2>2 DEF BuildGroup, NoBaseGroups, MoreGroups
  <2>3. CASE DrawLeaf
    <3>1. /\ pc = "draw" /\ Building
          /\ UNCHANGED <<table, read, row, sections, all_layouts>>
      BY <2>3 DEF DrawLeaf, InGroup, InSheet, page, Building
    <3>2. Contiguous /\ BuildingInv
      BY <3>1, SameBuild DEF SitePageInv
    <3>3. pc' = "draw"
      BY <2>3, <3>1, <3>2, LeafIsShown
    <3> QED BY <3>3
  <2>4. CASE ExportImages
    <3>1. pc = "images" /\ Building /\ UNCHANGED <<table, read, row, sections, all_layouts>>
      BY <2>4 DEF ExportImages, page, Building
    <3>2. Contiguous /\ BuildingInv /\ ScalesType
      BY <3>1, SameBuild DEF SitePageInv
    <3> QED BY <2>4, <3>2, ExportWritesAll
  <2>5. CASE SiteRead \/ GroupsBuilt \/ StartBuild \/ GroupDrawn \/ SheetDrawn \/ SheetsDrawn
             \/ Return
    BY <2>5 DEF SiteRead, GroupsBuilt, StartBuild, GroupDrawn, InGroup, InSheet, SheetDrawn,
                SheetsDrawn, Return
  <2> QED BY <2>1, <2>2, <2>3, <2>4, <2>5 DEF Next
<1> QED BY <1>1, PageInvariant, SheetsInvariant, SitePageInvariant, PTL
        DEF Spec, UndefinedOnlyInBuildLayouts
-----------------------------------------------------------------------------
(* What the sheets show *)

\* Every group has been laid out.
LEMMA AllAreBuilt ==
  ASSUME PageInv, Building
  PROVE  DOMAIN all_layouts = DOMAIN LayoutIds
<1>1. ReadInv /\ Len(all_layouts) = Len(LayoutIds)
  BY DEF PageInv, LayoutsInv, Building
<1>2. DOMAIN LayoutIds = 1 .. Len(LayoutIds)
  BY <1>1, PlacesAre
<1> QED BY <1>1, <1>2, BuiltAre

\* A sheet shows every leaf of every group, and nothing else.
LEMMA AllAreShown ==
  ASSUME PageInv, Building, Contiguous, NEW t \in Target,
         NEW leaves, Shows(leaves, t, Len(all_layouts) + 1, 0)
  PROVE  /\ Len(leaves) \in Nat /\ DOMAIN leaves = 1 .. Len(leaves)
         /\ \A a \in DOMAIN leaves : \E n \in DOMAIN all_layouts : \E k \in DOMAIN From(n, t) :
              IsCopy(leaves[a], From(n, t)[k])
         /\ \A n \in DOMAIN all_layouts : \A k \in DOMAIN From(n, t) :
              /\ n \in Nat /\ k \in Nat /\ IsDrawn(n, k, t, Len(all_layouts) + 1, 0)
              /\ \E a \in DOMAIN leaves : IsCopy(leaves[a], From(n, t)[k])
<1>1. IsSequence(leaves) /\ IsSequence(all_layouts)
  BY DEF Shows, PageInv, LayoutsInv
<1>2. /\ Len(leaves) \in Nat /\ DOMAIN leaves = 1 .. Len(leaves)
      /\ Len(all_layouts) \in Nat /\ DOMAIN all_layouts = 1 .. Len(all_layouts)
  BY <1>1 DEF IsSequence
<1>3. ASSUME NEW a \in DOMAIN leaves
      PROVE  \E n \in DOMAIN all_layouts : \E k \in DOMAIN From(n, t) :
               IsCopy(leaves[a], From(n, t)[k])
  <2>1. PICK n \in Nat, k \in Nat :
          IsDrawn(n, k, t, Len(all_layouts) + 1, 0) /\ IsCopy(leaves[a], From(n, t)[k])
    BY DEF Shows
  <2> QED BY <2>1 DEF IsDrawn
<1>4. ASSUME NEW n \in DOMAIN all_layouts, NEW k \in DOMAIN From(n, t)
      PROVE  /\ n \in Nat /\ k \in Nat /\ IsDrawn(n, k, t, Len(all_layouts) + 1, 0)
             /\ \E a \in DOMAIN leaves : IsCopy(leaves[a], From(n, t)[k])
  <2>1. n \in Nat /\ n < Len(all_layouts) + 1
    BY <1>2
  <2>2. k \in Nat
    <3>1. DOMAIN From(n, t) = 1 .. Len(From(n, t)) /\ Len(From(n, t)) \in Nat
      BY LeavesAre
    <3> QED BY <3>1
  <2>3. IsDrawn(n, k, t, Len(all_layouts) + 1, 0)
    BY <2>1 DEF IsDrawn
  <2> QED BY <2>1, <2>2, <2>3 DEF Shows
<1> QED BY <1>2, <1>3, <1>4

\* As many leaves as sections that have a layout.
LEMMA OneLeafEach ==
  ASSUME PageInv, Building, Contiguous, NEW t \in Target,
         NEW leaves, Shows(leaves, t, Len(all_layouts) + 1, 0)
  PROVE  Len(leaves) = Cardinality({n \in DOMAIN sections : sections[n].layout > none})
<1> DEFINE some == {n \in DOMAIN sections : sections[n].layout > none}
           f == [a \in DOMAIN leaves |-> leaves[a].label + 1]
<1>1. ReadInv /\ LayoutsInv
  BY DEF PageInv
<1>2. ASSUME NEW a \in DOMAIN leaves
      PROVE  leaves[a].label \in Nat /\ leaves[a].label + 1 \in some
  <2>1. PICK n \in DOMAIN all_layouts : \E k \in DOMAIN From(n, t) : IsCopy(leaves[a], From(n, t)[k])
    BY AllAreShown
  <2>2. PICK k \in DOMAIN From(n, t) : IsCopy(leaves[a], From(n, t)[k])
    BY <2>1
  <2>3. /\ From(n, t)[k] \in [label : Nat, left : Int, top : Nat, right : Int, bottom : Nat]
        /\ From(n, t)[k].label + 1 \in DOMAIN sections /\ n \in DOMAIN LayoutIds
        /\ sections[From(n, t)[k].label + 1].layout = LayoutIds[n]
    BY LeavesAre
  <2>4. leaves[a].label = From(n, t)[k].label
    BY <2>2 DEF IsCopy
  <2>5. LayoutIds[n] > none
    <3>1. LayoutIds[n] \in Ids
      BY <1>1, <2>3, IdsAre
    <3> QED BY <3>1 DEF Ids
  <2>6. From(n, t)[k].label \in Nat
    BY <2>3
  <2> QED BY <2>3, <2>4, <2>5, <2>6
<1>3. ASSUME NEW q \in some
      PROVE  \E a \in DOMAIN leaves : leaves[a].label + 1 = q
  <2>1. PICK n \in DOMAIN LayoutIds : q - 1 \in Row(n) .. Row(n) + Size(n) - 1
    BY <1>1, EveryRowHasAGroup
  <2>2. n \in DOMAIN all_layouts
    BY AllAreBuilt
  <2>3. IsDrawable(From(n, t), n)
    BY <1>1, <2>2 DEF LayoutsInv, Building
  <2>4. PICK k \in DOMAIN From(n, t) : From(n, t)[k].label = q - 1
    BY <2>1, <2>3 DEF IsDrawable
  <2>5. PICK a \in DOMAIN leaves : IsCopy(leaves[a], From(n, t)[k])
    BY <2>2, AllAreShown
  <2>6. leaves[a].label = q - 1 /\ q \in Int
    <3>1. DOMAIN sections = 1 .. Len(sections)
      BY <1>1, PlacesAre
    <3> QED BY <2>4, <2>5, <3>1 DEF IsCopy
  <2> QED BY <2>6
<1>4. \A a, b \in DOMAIN leaves : a # b => leaves[a].label # leaves[b].label
  BY DEF Shows
<1> HIDE DEF some
<1>5. f \in Bijection(DOMAIN leaves, some)
  <2>1. f \in [DOMAIN leaves -> some]
    BY <1>2
  <2>2. \A a, b \in DOMAIN leaves : f[a] = f[b] => a = b
    BY <1>2, <1>4
  <2>3. \A q \in some : \E a \in DOMAIN leaves : f[a] = q
    BY <1>3
  <2> HIDE DEF f
  <2> QED BY <2>1, <2>2, <2>3 DEF Bijection, Injection, IsInjective, Surjection
<1> HIDE DEF f
<1>6. PICK N \in Nat : N = Len(leaves) /\ DOMAIN leaves = 1 .. N
  BY AllAreShown
<1>7. IsFiniteSet(1 .. N) /\ Cardinality(1 .. N) = N
  <2>1. IsFiniteSet(1 .. N) /\ Cardinality(1 .. N) = IF 1 > N THEN 0 ELSE N - 1 + 1
    BY FS_Interval
  <2> QED BY <2>1
<1>8. Cardinality(some) = N
  <2>1. ExistsBijection(1 .. N, some)
    BY <1>5, <1>6 DEF ExistsBijection
  <2> QED BY <1>7, <2>1, FS_Bijection
<1> QED BY <1>6, <1>8 DEF some

\* Every section of a group has its leaf, in its place.
LEMMA EachHasItsPlace ==
  ASSUME PageInv, Building, Contiguous, NEW t \in Target,
         NEW leaves, Shows(leaves, t, Len(all_layouts) + 1, 0),
         NEW n \in DOMAIN LayoutIds, NEW m \in DOMAIN GroupOf(LayoutIds[n])
  PROVE  \E leaf \in Range(leaves) :
           /\ leaf.label = GroupOf(LayoutIds[n])[m].row
           /\ \E k \in {k \in DOMAIN From(n, t) :
                          From(n, t)[k].label = m - 1 + GroupOf(LayoutIds[n])[1].row} :
                /\ leaf.left = From(n, t)[k].left /\ leaf.right = From(n, t)[k].right
                /\ leaf.bottom - leaf.top = From(n, t)[k].bottom - From(n, t)[k].top
<1>1. ReadInv /\ LayoutsInv
  BY DEF PageInv
<1>2. n \in DOMAIN all_layouts
  BY AllAreBuilt
<1>3. Row(n) \in Nat /\ Size(n) \in Nat /\ m \in 1 .. Size(n) /\ Row(n) = GroupOf(LayoutIds[n])[1].row
      /\ GroupOf(LayoutIds[n])[m].row = Row(n) + m - 1
  <2>1. m \in 1 .. Size(n)
    BY <1>1, PlacesAre DEF Size
  <2> QED BY <1>1, <2>1, RowsAre DEF Row
<1>4. PICK l : l = Row(n) + m - 1
  OBVIOUS
<1>5. l \in Row(n) .. Row(n) + Size(n) - 1 /\ l = m - 1 + Row(n)
  BY <1>3, <1>4
<1>6. IsDrawable(From(n, t), n)
  BY <1>1, <1>2 DEF LayoutsInv, Building
<1>7. PICK k \in DOMAIN From(n, t) : From(n, t)[k].label = l
  BY <1>5, <1>6 DEF IsDrawable
<1>8. PICK a \in DOMAIN leaves : IsCopy(leaves[a], From(n, t)[k])
  BY <1>2, AllAreShown
<1>9. leaves[a] \in Range(leaves)
  BY DEF Range
<1> QED BY <1>3, <1>4, <1>5, <1>7, <1>8, <1>9 DEF IsCopy

\* A page without gaps is drawn as it was laid out, on every sheet.
THEOREM SheetsShowTheLayoutsCorrect == Spec => []SheetsShowTheLayouts
<1>1. PageInv /\ SheetsInv /\ SitePageInv => SheetsShowTheLayouts
  <2> SUFFICES ASSUME PageInv, SheetsInv, SitePageInv, pc \in {"images", "done"}, Contiguous,
                      NEW t \in DOMAIN sheets
               PROVE  LET leaves == sheets[t].leaves
                          Placed(leaf, n, m) ==
                            LET from == all_layouts[n][t][1]
                                at == {k \in DOMAIN from :
                                         from[k].label = m - 1 + GroupOf(LayoutIds[n])[1].row}
                            IN  \E k \in at :
                                  /\ leaf.left = from[k].left /\ leaf.right = from[k].right
                                  /\ leaf.bottom - leaf.top = from[k].bottom - from[k].top
                      IN  /\ Len(leaves) = Cardinality({n \in DOMAIN sections : sections[n].layout > none})
                          /\ \A a, b \in DOMAIN leaves : a # b =>
                               leaves[a].label # leaves[b].label /\ Apart(leaves[a], leaves[b])
                          /\ \A n \in DOMAIN LayoutIds : \A m \in DOMAIN GroupOf(LayoutIds[n]) :
                               \E leaf \in Range(leaves) :
                                 leaf.label = GroupOf(LayoutIds[n])[m].row /\ Placed(leaf, n, m)
    BY DEF SheetsShowTheLayouts
  <2>1. PICK leaves : leaves = sheets[t].leaves
    OBVIOUS
  <2>2. t \in Target /\ Building /\ Shows(leaves, t, Len(all_layouts) + 1, 0)
    BY <2>1 DEF SheetsInv, SitePageInv, Building, BuildingInv
  <2>3. Len(leaves) = Cardinality({n \in DOMAIN sections : sections[n].layout > none})
    BY <2>2, OneLeafEach
  <2>4. \A a, b \in DOMAIN leaves : a # b =>
          leaves[a].label # leaves[b].label /\ Apart(leaves[a], leaves[b])
    BY <2>2 DEF Shows
  <2>5. \A n \in DOMAIN LayoutIds : \A m \in DOMAIN GroupOf(LayoutIds[n]) :
          \E leaf \in Range(leaves) :
            /\ leaf.label = GroupOf(LayoutIds[n])[m].row
            /\ \E k \in {k \in DOMAIN From(n, t) :
                           From(n, t)[k].label = m - 1 + GroupOf(LayoutIds[n])[1].row} :
                 /\ leaf.left = From(n, t)[k].left /\ leaf.right = From(n, t)[k].right
                 /\ leaf.bottom - leaf.top = From(n, t)[k].bottom - From(n, t)[k].top
    BY <2>2, EachHasItsPlace
  <2> QED BY <2>1, <2>3, <2>4, <2>5 DEF From
<1> QED BY <1>1, PageInvariant, SheetsInvariant, SitePageInvariant, PTL
-----------------------------------------------------------------------------
(* What is asked of the pictures *)

\* The sheet for a screen is not stretched beyond the next target, or its own if
\* that is the widest, and not beyond 480 on a screen that is not wider.
LEMMA NeededIsAtMost ==
  ASSUME NEW width \in Nat, NEW scale \in ScaleNumbers
  PROVE  LET t == SheetFor(width)
             needed == Times(scale, Rational(Min({width, Width(Widest)}), Width(t)))
         IN  /\ needed \in ScaleNumbers
             /\ AtMost(needed, Stretched(t, scale))
             /\ width =< 480 => Width(t) =< 480 /\ AtMost(needed, Widened(t, scale))
<1>1. PICK t : t = SheetFor(width)
  OBVIOUS
<1>2. t \in Target /\ IsFor(t, width)
  BY <1>1, OneIsFor
<1>3. /\ Widest \in Nat /\ Target = 0 .. Widest /\ t \in Nat /\ Widest \in Target
      /\ \A u \in Target : Width(u) \in Nat \ {0}
      /\ \A u, v \in Target : u < v => Width(u) < Width(v)
      /\ Widest = Len(TargetWidths) - 1
  <2>1. /\ Widest \in Nat /\ Target = 0 .. Widest
        /\ \A u \in Target : u \in Nat /\ Width(u) \in Nat /\ Width(u) > 0
        /\ \A u, v \in Target : u < v => Width(u) < Width(v)
    BY TargetsAre
  <2>2. Widest \in 0 .. Widest
    BY <2>1
  <2> QED BY <1>2, <2>1, <2>2 DEF Widest
<1>4. PICK w \in Nat \ {0}, last \in Nat \ {0} : w = Width(t) /\ last = Width(Widest)
  BY <1>2, <1>3
<1>5. PICK most : most = Min({width, last})
  OBVIOUS
<1>6. most \in Nat /\ most =< width /\ most =< last
  <2> DEFINE widths == {width, last}
  <2>1. \E x \in widths : \A y \in widths : x =< y
    <3>1. width =< last \/ last =< width
      OBVIOUS
    <3> QED BY <3>1
  <2>2. Min(widths) \in widths /\ \A y \in widths : Min(widths) =< y
    <3> HIDE DEF widths
    <3> QED BY <2>1 DEF Min
  <2> QED BY <1>5, <2>2
<1>7. PICK shown \in ScaleNumbers : shown = Rational(most, w)
  BY <1>6, RationalIsScale
<1>8. Times(scale, shown) \in ScaleNumbers
  BY ScaledUp
<1>9. ASSUME NEW b \in Nat, most =< b
      PROVE  AtMost(Times(scale, shown), Times(scale, Rational(b, w)))
  <2>1. Rational(b, w) \in ScaleNumbers /\ AtMost(shown, Rational(b, w))
    BY <1>6, <1>7, <1>9, RationalIsScale, RationalOrder
  <2>2. Rational(b, w) \in Numbers
    BY <2>1, ScaleIsNumber
  <2> QED BY <2>1, <2>2, ScaledUp
<1>10. most =< w => AtMost(Times(scale, shown), scale)
  <2>1. most =< w => AtMost(shown, Whole(1))
    BY <1>6, <1>7, RationalOrder, WholeRational
  <2> QED BY <2>1, ScaledUp
<1>11. AtMost(Times(scale, shown), Stretched(t, scale))
  <2>1. CASE t = Widest
    <3>1. Stretched(t, scale) = scale /\ most =< w
      BY <1>3, <1>4, <1>6, <2>1 DEF Stretched
    <3> QED BY <1>10, <3>1
  <2>2. CASE t # Widest
    <3>1. Width(t + 1) \in Nat /\ width < Width(t + 1)
      BY <1>2, <2>2, NextIsWider DEF IsFor
    <3>2. t < Len(TargetWidths) - 1
      BY <1>2, <1>3, <2>2
    <3>3. Stretched(t, scale) = Times(scale, Rational(Width(t + 1), w))
      BY <1>4, <3>2 DEF Stretched
    <3>4. most =< Width(t + 1)
      BY <1>6, <3>1
    <3> QED BY <1>9, <3>1, <3>3, <3>4
  <2> QED BY <2>1, <2>2
<1>12. ASSUME width =< 480
       PROVE  Width(t) =< 480 /\ AtMost(Times(scale, shown), Widened(t, scale))
  <2>1. w =< 480
    <3>1. Width(0) =< 480
      BY TargetsAssumption
    <3>2. t = 0 \/ w =< width
      BY <1>2, <1>4 DEF IsFor
    <3> QED BY <1>4, <1>12, <3>1, <3>2
  <2>2. CASE w < 480
    <3>1. Widened(t, scale) = Times(scale, Rational(480, w))
      BY <1>4, <2>2 DEF Widened
    <3>2. most =< 480
      BY <1>6, <1>12
    <3> QED BY <1>4, <1>9, <2>1, <3>1, <3>2
  <2>3. CASE w = 480
    <3>1. Widened(t, scale) = scale /\ most =< w
      BY <1>4, <1>6, <1>12, <2>3 DEF Widened
    <3> QED BY <1>4, <1>10, <2>1, <3>1
  <2> QED BY <2>1, <2>2, <2>3
<1> QED BY <1>1, <1>4, <1>5, <1>7, <1>8, <1>11, <1>12

\* A leaf of a sheet that is for a picture needs what the picture has.
LEMMA ImageIsLarge ==
  ASSUME PageInv, Building, Contiguous, ImagesInv, NEW t \in Target,
         NEW leaves, Shows(leaves, t, Len(all_layouts) + 1, 0),
         NEW leaf \in Range(leaves), NEW n \in DOMAIN sections, sections[n].jpeg,
         leaf.label = sections[n].row
  PROVE  LET scale == Scale(leaf, sections[n])
             image == images[sections[n].row]
         IN  /\ scale \in ScaleNumbers
             /\ image.desktop \in ScaleNumbers /\ image.mobile \in ScaleNumbers
             /\ AtMost(Stretched(t, scale), image.desktop)
             /\ Width(t) =< 480 => AtMost(Widened(t, scale), image.mobile)
<1>1. PICK a \in DOMAIN leaves : leaf = leaves[a]
  BY DEF Range
<1>2. PICK g \in DOMAIN all_layouts : \E k \in DOMAIN From(g, t) : IsCopy(leaf, From(g, t)[k])
  BY <1>1, AllAreShown
<1>3. PICK k \in DOMAIN From(g, t) : IsCopy(leaf, From(g, t)[k])
  BY <1>2
<1>4. g \in Nat /\ k \in Nat /\ IsDrawn(g, k, t, Len(all_layouts) + 1, 0)
  BY AllAreShown
<1>5. PICK from : from = From(g, t)[k]
  OBVIOUS
<1>6. from.label = n - 1 /\ sections[n].row = n - 1 /\ n \in Int
  <2>1. sections[n].row = n - 1
    BY DEF PageInv, ReadInv, Contiguous
  <2>2. DOMAIN sections = 1 .. Len(sections)
    BY PlacesAre DEF PageInv
  <2>3. leaf.label = from.label
    BY <1>3, <1>5 DEF IsCopy
  <2> QED BY <2>1, <2>2, <2>3
<1>7. from.label + 1 = n
  BY <1>6
<1>8. PICK scale : scale = Scale(from, sections[n])
  OBVIOUS
<1>9. scale \in ScaleNumbers /\ Scale(leaf, sections[n]) = scale
  BY <1>3, <1>5, <1>7, <1>8, ScaleIs
<1>10. /\ images[from.label].desktop \in ScaleNumbers /\ images[from.label].mobile \in ScaleNumbers
       /\ AtMost(Stretched(t, scale), images[from.label].desktop)
       /\ Width(t) =< 480 => AtMost(Widened(t, scale), images[from.label].mobile)
  BY <1>4, <1>5, <1>7, <1>8 DEF ImagesInv
<1> QED BY <1>6, <1>9, <1>10

\* Whatever the widths of the targets and the screen, no picture of a page without
\* gaps is shown larger than it is.
THEOREM PicturesAreLargeEnoughCorrect == Spec => []PicturesAreLargeEnough
<1>1. PageInv /\ SheetsInv /\ SitePageInv => PicturesAreLargeEnough
  <2> SUFFICES ASSUME PageInv, SheetsInv, SitePageInv, pc = "done", p > 0, Contiguous,
                      NEW n \in DOMAIN sections, sections[n].jpeg, NEW width \in Devices,
                      NEW leaf \in Range(sheets[SheetFor(width)].leaves),
                      leaf.label = sections[n].row
               PROVE  LET t == SheetFor(width)
                          last == Width(Len(TargetWidths) - 1)
                          shown == Rational(Min({width, last}), Width(t))
                          image == images[sections[n].row]
                          needed == Times(Scale(leaf, sections[n]), shown)
                      IN  /\ AtMost(needed, image.desktop)
                          /\ width =< 480 => AtMost(needed, image.mobile)
    BY DEF PicturesAreLargeEnough
  <2>1. PICK t : t = SheetFor(width)
    OBVIOUS
  <2>2. width \in Nat /\ t \in Target
    <3>1. width \in Nat
      BY TargetsAssumption
    <3> QED BY <2>1, <3>1, OneIsFor
  <2>3. /\ Building /\ ImagesInv /\ t \in DOMAIN sheets
        /\ Shows(sheets[t].leaves, t, Len(all_layouts) + 1, 0)
    BY <2>2 DEF SheetsInv, SitePageInv, Building, BuildingInv
  <2>4. PICK leaves : leaves = sheets[t].leaves /\ leaf \in Range(leaves)
    BY <2>1
  <2>5. PICK scale, desktop, mobile :
          /\ scale = Scale(leaf, sections[n])
          /\ desktop = images[sections[n].row].desktop /\ mobile = images[sections[n].row].mobile
    OBVIOUS
  <2>6. /\ scale \in ScaleNumbers /\ desktop \in ScaleNumbers /\ mobile \in ScaleNumbers
        /\ AtMost(Stretched(t, scale), desktop)
        /\ Width(t) =< 480 => AtMost(Widened(t, scale), mobile)
    BY <2>2, <2>3, <2>4, <2>5, ImageIsLarge
  <2>7. PICK needed : needed = Times(scale, Rational(Min({width, Width(Widest)}), Width(t)))
    OBVIOUS
  <2>8. /\ needed \in ScaleNumbers /\ AtMost(needed, Stretched(t, scale))
        /\ width =< 480 => Width(t) =< 480 /\ AtMost(needed, Widened(t, scale))
    BY <2>1, <2>2, <2>6, <2>7, NeededIsAtMost
  <2>9. \A x, y, z \in ScaleNumbers : AtMost(x, y) /\ AtMost(y, z) => AtMost(x, z)
    BY ScaleIsNumber, AtMostTransitive
  <2>10. Stretched(t, scale) \in ScaleNumbers /\ Widened(t, scale) \in ScaleNumbers
    BY <2>2, <2>6, StretchedIs
  <2>11. AtMost(needed, desktop) /\ (width =< 480 => AtMost(needed, mobile))
    BY <2>6, <2>8, <2>9, <2>10
  <2> QED BY <2>1, <2>5, <2>7, <2>11 DEF Widest
<1> QED BY <1>1, PageInvariant, SheetsInvariant, SitePageInvariant, PTL
=============================================================================
