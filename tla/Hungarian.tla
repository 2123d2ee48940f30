------------------------------ MODULE Hungarian ------------------------------
(***************************************************************************)
(* hungarian_init and hungarian_solve (GoldenSite/hungarian.c): a cheapest *)
(* assignment of the rows of a matrix to its columns.                      *)
(*                                                                         *)
(* row_dec and col_inc are potentials: no cell costs less than             *)
(* row_dec[row] - col_inc[column].  A cell that costs just that much is    *)
(* tight, and only tight cells are matched.  A stage grows a forest from   *)
(* the unmatched rows, over tight cells, until it reaches a column without *)
(* a row; then the path to that column is matched the other way round, and *)
(* one more row has a column.  Loops over columns and rows are one pass to *)
(* an action; the variables are those of the C function, t is the length   *)
(* of unchosen_row.                                                        *)
(***************************************************************************)
EXTENDS Integers, Sequences, FiniteSets, FiniteSetsExt, Functions

CONSTANT Problems   \* the calls: rows, cols, the matrix of costs, the mode

Minimize == "HUNGARIAN_MODE_MINIMIZE_COST"
Maximize == "HUNGARIAN_MODE_MAXIMIZE_UTIL"

ASSUME ProblemsAssumption ==
  \A p \in Problems :
    /\ p.rows \in Nat \ {0} /\ p.cols \in Nat \ {0}
    /\ p.cost \in [0 .. p.rows - 1 -> [0 .. p.cols - 1 -> Int]]
    /\ p.mode \in {Minimize, Maximize}

VARIABLES
  pc,            \* where in the function
  problem,       \* what it was called with
  cost,          \* the square matrix, which the function changes
  total,         \* the cost it returns
  col_mate,      \* row -> its column, -1 without one
  row_mate,      \* column -> its row
  row_dec, col_inc,
  slack,         \* column -> how far it is from the forest, 0 in it
  slack_row,     \* column -> the row it is that far from
  parent_row,    \* column of the forest -> the row it was reached from
  unchosen_row,  \* the rows of the forest in the order they were reached
  q,             \* how many of them have been explored
  k, l,          \* the row and the column at hand
  s,             \* by how much the potentials change
  unmatched      \* how many rows have no column

matching == <<col_mate, row_mate, unmatched>>
potentials == <<cost, total, row_dec, col_inc>>
forest == <<slack, slack_row, parent_row, unchosen_row>>
vars == <<pc, problem, matching, potentials, forest, q, k, l, s>>

\* 0x7FFFFFFF: above every slack.  No slack is negative.
INF == -1

hungarian_imax(a, b) == IF a < b THEN b ELSE a

m == hungarian_imax(problem.cols, problem.rows)
Row == 0 .. m - 1
Col == 0 .. m - 1

\* The matrix with rows or columns of 0 up to a square.
Expanded(p) ==
  LET n == hungarian_imax(p.cols, p.rows)
  IN  [i \in 0 .. n - 1 |-> [j \in 0 .. n - 1 |->
         IF i < p.rows /\ j < p.cols THEN p.cost[i][j] ELSE 0]]

\* Mutant: the cells are costs in both modes.
ModeIgnored(p, max_cost) == Expanded(p)

\* hungarian_init: a utility becomes what is missing to the greatest one.
hungarian_init(p, max_cost) ==
  LET n == hungarian_imax(p.cols, p.rows)
  IN  IF p.mode = Maximize
      THEN [i \in 0 .. n - 1 |-> [j \in 0 .. n - 1 |-> max_cost - Expanded(p)[i][j]]]
      ELSE Expanded(p)

Init ==
  /\ problem \in Problems
  /\ pc = "minima"
  /\ LET values == {0} \cup {Expanded(problem)[r][c] : r \in Row, c \in Col}
     IN  \E max_cost \in values : /\ \A x \in values : x =< max_cost
                                 /\ cost = hungarian_init(problem, max_cost)
  /\ total = 0
  /\ col_mate = [r \in Row |-> 0] /\ row_mate = [c \in Col |-> -1]
  /\ row_dec = [r \in Row |-> 0] /\ col_inc = [c \in Col |-> 0]
  /\ slack = [c \in Col |-> INF] /\ slack_row = [c \in Col |-> 0]
  /\ parent_row = [c \in Col |-> -1]
  /\ unchosen_row = <<>>
  /\ q = 0 /\ k = 0 /\ l = 0 /\ s = 0 /\ unmatched = 0

\* How far a cell is from tight.
Del(row, col) == cost[row][col] - row_dec[row] + col_inc[col]

IsLeast(x, S) == x \in S /\ \A y \in S : x =< y

\* The heuristic at the start: column l loses its least cost.
SubtractMinimum ==
  /\ pc = "minima" /\ l < m
  /\ \E least \in {cost[r][l] : r \in Row} :
       /\ IsLeast(least, {cost[r][l] : r \in Row})
       /\ cost' = [r \in Row |-> [cost[r] EXCEPT ![l] = @ - least]]
       /\ total' = total + least
  /\ l' = l + 1
  /\ UNCHANGED <<pc, problem, matching, row_dec, col_inc, forest, q, k, s>>

MinimaSubtracted ==
  /\ pc = "minima" /\ l = m
  /\ pc' = "match"
  /\ UNCHANGED <<problem, matching, potentials, forest, q, k, l, s>>

\* Row k takes the first tight column that has no row, or waits.
MatchRow ==
  /\ pc = "match" /\ k < m
  /\ \E least \in {cost[k][c] : c \in Col} :
       LET free == {c \in Col : cost[k][c] = least /\ row_mate[c] < 0}
       IN  /\ IsLeast(least, {cost[k][c] : c \in Col})
           /\ row_dec' = [row_dec EXCEPT ![k] = least]
           /\ \/ \E c \in free :
                   /\ IsLeast(c, free)
                   /\ col_mate' = [col_mate EXCEPT ![k] = c]
                   /\ row_mate' = [row_mate EXCEPT ![c] = k]
                   /\ UNCHANGED unchosen_row
              \/ /\ free = {}
                 /\ col_mate' = [col_mate EXCEPT ![k] = -1]
                 /\ unchosen_row' = Append(unchosen_row, k)
                 /\ UNCHANGED row_mate
  /\ k' = k + 1
  /\ UNCHANGED <<pc, problem, unmatched, cost, total, col_inc, slack, slack_row,
                 parent_row, q, l, s>>

RowsMatched ==
  /\ pc = "match" /\ k = m
  /\ unmatched' = Len(unchosen_row)
  /\ pc' = IF unchosen_row = <<>> THEN "check" ELSE "explore"
  /\ q' = 0 /\ l' = 0
  /\ UNCHANGED <<problem, col_mate, row_mate, potentials, forest, k, s>>
-----------------------------------------------------------------------------
(* A stage *)

Node == unchosen_row[q + 1]
Scanning == pc = "explore" /\ q < Len(unchosen_row) /\ l < m

\* Column l is not in the forest and nearer to this row than to those before.
Closer ==
  /\ slack[l] # 0
  /\ slack[l] = INF \/ Del(Node, l) < slack[l]

SkipColumn ==
  /\ Scanning /\ ~Closer
  /\ l' = l + 1
  /\ UNCHANGED <<pc, problem, matching, potentials, forest, q, k, s>>

Tighten ==
  /\ Scanning /\ Closer /\ Del(Node, l) # 0
  /\ slack' = [slack EXCEPT ![l] = Del(Node, l)]
  /\ slack_row' = [slack_row EXCEPT ![l] = Node]
  /\ l' = l + 1
  /\ UNCHANGED <<pc, problem, matching, potentials, parent_row, unchosen_row, q, k, s>>

\* Mutant: the row it was reached from is not noted.
ReachWithoutParent(row) ==
  /\ slack' = [slack EXCEPT ![l] = 0]
  /\ UNCHANGED parent_row
  /\ unchosen_row' = Append(unchosen_row, row_mate[l])

\* Column l joins the forest, and the row that has it.
Reach(row) ==
  /\ slack' = [slack EXCEPT ![l] = 0]
  /\ parent_row' = [parent_row EXCEPT ![l] = row]
  /\ unchosen_row' = Append(unchosen_row, row_mate[l])

Grow ==
  /\ Scanning /\ Closer /\ Del(Node, l) = 0 /\ row_mate[l] >= 0
  /\ Reach(Node)
  /\ l' = l + 1
  /\ UNCHANGED <<pc, problem, matching, potentials, slack_row, q, k, s>>

BreakThrough ==
  /\ Scanning /\ Closer /\ Del(Node, l) = 0 /\ row_mate[l] < 0
  /\ k' = Node
  /\ pc' = "rematch"
  /\ UNCHANGED <<problem, matching, potentials, forest, q, l, s>>

\* Mutant: q stays, and the node is explored again.
SameNode ==
  /\ pc = "explore" /\ q < Len(unchosen_row) /\ l = m
  /\ l' = 0
  /\ UNCHANGED <<pc, problem, matching, potentials, forest, q, k, s>>

NextNode ==
  /\ pc = "explore" /\ q < Len(unchosen_row) /\ l = m
  /\ q' = q + 1 /\ l' = 0
  /\ UNCHANGED <<pc, problem, matching, potentials, forest, k, s>>

\* The forest is explored: its rows come nearer to the nearest column.
NewZero ==
  LET outside == {slack[c] : c \in Col} \ {0, INF}
  IN  /\ pc = "explore" /\ q = Len(unchosen_row)
      /\ s' \in outside /\ IsLeast(s', outside)
      /\ row_dec' = [r \in Row |-> IF r \in Range(unchosen_row) THEN row_dec[r] + s'
                                   ELSE row_dec[r]]
      /\ pc' = "cover" /\ l' = 0
      /\ UNCHANGED <<problem, matching, cost, total, col_inc, forest, q, k>>

Covering == pc = "cover" /\ l < m

\* Columns of the forest move along with its rows.
RaiseColumn ==
  /\ Covering /\ slack[l] = 0
  /\ col_inc' = [col_inc EXCEPT ![l] = @ + s]
  /\ l' = l + 1
  /\ UNCHANGED <<pc, problem, matching, cost, total, row_dec, forest, q, k, s>>

NearColumn ==
  /\ Covering /\ slack[l] # 0 /\ slack[l] # s
  /\ slack' = [slack EXCEPT ![l] = @ - s]
  /\ l' = l + 1
  /\ UNCHANGED <<pc, problem, matching, potentials, slack_row, parent_row,
                 unchosen_row, q, k, s>>

ReachNew ==
  /\ Covering /\ slack[l] # 0 /\ slack[l] = s /\ row_mate[l] >= 0
  /\ Reach(slack_row[l])
  /\ l' = l + 1
  /\ UNCHANGED <<pc, problem, matching, potentials, slack_row, q, k, s>>

\* Mutant: the columns behind are left as they are.
RaisedOnlyBefore == col_inc

\* The columns of the forest behind the one that ends the stage are raised too.
RaisedBehind == [c \in Col |-> IF c > l /\ slack[c] = 0 THEN col_inc[c] + s ELSE col_inc[c]]

BreakThroughNew ==
  /\ Covering /\ slack[l] # 0 /\ slack[l] = s /\ row_mate[l] < 0
  /\ slack' = [slack EXCEPT ![l] = 0]
  /\ col_inc' = RaisedBehind
  /\ k' = slack_row[l]
  /\ pc' = "rematch"
  /\ UNCHANGED <<problem, matching, cost, total, row_dec, slack_row, parent_row,
                 unchosen_row, q, l, s>>

ZeroIntroduced ==
  /\ pc = "cover" /\ l = m
  /\ pc' = "explore" /\ l' = 0
  /\ UNCHANGED <<problem, matching, potentials, forest, q, k, s>>

Rematched ==
  /\ col_mate' = [col_mate EXCEPT ![k] = l]
  /\ row_mate' = [row_mate EXCEPT ![l] = k]

\* Row k gives up its column for l, and the next row of the path gets it.
RematchOn ==
  /\ pc = "rematch" /\ col_mate[k] >= 0
  /\ Rematched
  /\ k' = parent_row[col_mate[k]] /\ l' = col_mate[k]
  /\ UNCHANGED <<pc, problem, unmatched, potentials, forest, q, s>>

\* Row k had none: the stage is over.
RematchLast ==
  /\ pc = "rematch" /\ col_mate[k] < 0
  /\ Rematched
  /\ unmatched' = unmatched - 1
  /\ parent_row' = [c \in Col |-> -1] /\ slack' = [c \in Col |-> INF]
  /\ unchosen_row' = <<>>
  /\ q' = 0 /\ k' = 0 /\ l' = 0
  /\ pc' = IF unmatched = 1 THEN "check" ELSE "restart"
  /\ UNCHANGED <<problem, potentials, slack_row, s>>

CollectRow ==
  /\ pc = "restart" /\ k < m
  /\ unchosen_row' = IF col_mate[k] < 0 THEN Append(unchosen_row, k) ELSE unchosen_row
  /\ k' = k + 1
  /\ UNCHANGED <<pc, problem, matching, potentials, slack, slack_row, parent_row, q, l, s>>

NextStage ==
  /\ pc = "restart" /\ k = m
  /\ pc' = "explore"
  /\ UNCHANGED <<problem, matching, potentials, forest, q, k, l, s>>
-----------------------------------------------------------------------------

\* The doublecheck at the end; the process exits when it fails.
Verified ==
  /\ \A r \in Row, c \in Col : cost[r][c] >= row_dec[r] - col_inc[c]
  /\ \A r \in Row : /\ col_mate[r] >= 0
                    /\ cost[r][col_mate[r]] = row_dec[r] - col_inc[col_mate[r]]
  /\ Cardinality({c \in Col : col_inc[c] # 0}) =< m

\* What is left of the costs goes back to the caller, if there is one still.
Return ==
  /\ pc = "check"
  /\ pc' = IF Verified THEN "done" ELSE "exit"
  /\ cost' = [r \in Row |-> [c \in Col |-> Del(r, c)]]
  /\ total' = total + SumFunction(row_dec) - SumFunction(col_inc)
  /\ UNCHANGED <<problem, matching, row_dec, col_inc, forest, q, k, l, s>>

Next ==
  \/ SubtractMinimum \/ MinimaSubtracted \/ MatchRow \/ RowsMatched
  \/ SkipColumn \/ Tighten \/ Grow \/ BreakThrough \/ NextNode
  \/ NewZero \/ RaiseColumn \/ NearColumn \/ ReachNew \/ BreakThroughNew \/ ZeroIntroduced
  \/ RematchOn \/ RematchLast \/ CollectRow \/ NextStage
  \/ Return

Returned == pc \in {"done", "exit"} /\ UNCHANGED vars

\* Nothing but its own loops can hold up the function.  Next is enabled until
\* it ends (the run looks for deadlocks), so this is WF_vars(Next).
Fairness == []<>(pc \in {"done", "exit"}) \/ []<><<Next>>_vars

Spec == Init /\ [][Next \/ Returned]_vars /\ Fairness
-----------------------------------------------------------------------------
(* Properties *)

PC == {"minima", "match", "explore", "cover", "rematch", "restart", "check", "done", "exit"}

Types ==
  /\ pc \in PC /\ m \in Nat \ {0}
  /\ cost \in [Row -> [Col -> Int]]
  /\ col_mate \in [Row -> Col \cup {-1}] /\ row_mate \in [Col -> Row \cup {-1}]
  /\ row_dec \in [Row -> Int] /\ col_inc \in [Col -> Int]
  /\ slack \in [Col -> Nat \cup {INF}] /\ slack_row \in [Col -> Row]
  /\ parent_row \in [Col -> Row \cup {-1}] /\ unchosen_row \in Seq(Row)
  /\ q \in 0 .. Len(unchosen_row) /\ k \in 0 .. m /\ l \in 0 .. m /\ s \in Int
  /\ unmatched \in 0 .. m

\* The columns this new zero has still to be brought to.
Behind(col) == pc = "cover" /\ col >= l

\* Del and slack as they will be after that.
Rest(row, col) == Del(row, col) + (IF Behind(col) /\ slack[col] = 0 THEN s ELSE 0)
Near(col) == slack[col] - (IF Behind(col) THEN s ELSE 0)

\* The potentials are set.
Solving == pc \in {"explore", "cover", "rematch", "restart", "check"}

\* No cell costs less than the potentials say, and matched ones just that.
Feasible ==
  /\ pc = "minima" => \A c \in Col : row_mate[c] = -1 /\ col_inc[c] = 0
  /\ pc = "match" => /\ \A c \in Col : col_inc[c] = 0 /\ row_mate[c] < k
                     /\ \A r \in 0 .. k - 1, c \in Col : Del(r, c) >= 0
  /\ Solving => \A r \in Row, c \in Col : Rest(r, c) >= 0

Tight ==
  Solving \/ pc = "match" =>
    \A c \in Col, r \in Row : row_mate[c] = r => Rest(r, c) = 0

\* col_mate and row_mate are inverse, but for the column a row just gave up.
Mates ==
  pc # "minima" =>
    /\ \A r \in Row : (pc = "match" => r < k) /\ col_mate[r] >= 0 => row_mate[col_mate[r]] = r
    /\ \A c \in Col : row_mate[c] >= 0 /\ (pc = "rematch" => c # l) => col_mate[row_mate[c]] = c
    /\ pc = "rematch" => \A r \in Row : col_mate[r] # l

Unmatched == {r \in Row : (pc = "match" => r < k) /\ col_mate[r] = -1}

Counted ==
  /\ pc = "match" => Len(unchosen_row) = Cardinality(Unmatched)
  /\ Solving => unmatched = Cardinality(Unmatched)

\* The h-th row of the forest has no column, or was reached over its column
\* and a tight cell from a row before it.
Rooted(h) ==
  \/ col_mate[unchosen_row[h]] = -1
  \/ \E c \in Col, g \in 1 .. h - 1, r \in Row :
       /\ col_mate[unchosen_row[h]] = c /\ slack[c] = 0
       /\ parent_row[c] = r /\ unchosen_row[g] = r /\ Rest(r, c) = 0

\* The i-th row of the forest has been compared with the column.
Seen(i, col) == i =< q \/ (pc = "explore" /\ i = q + 1 /\ col < l)

\* A column's slack is how far it is from the rows of the forest seen so far.
SlackIsNearest(col) ==
  /\ slack[col] = 0 =>
       \E i \in DOMAIN unchosen_row : row_mate[col] = unchosen_row[i]
  /\ slack[col] \notin {0, INF} =>
       \E i \in DOMAIN unchosen_row, r \in Row :
         slack_row[col] = r /\ unchosen_row[i] = r /\ Rest(r, col) = Near(col)
  /\ slack[col] # 0 =>
       \A i \in DOMAIN unchosen_row, r \in Row :
         Seen(i, col) /\ unchosen_row[i] = r => slack[col] # INF /\ Rest(r, col) >= Near(col)
  /\ Behind(col) /\ slack[col] # 0 => slack[col] # INF /\ slack[col] >= s

Injective == \A g, h \in DOMAIN unchosen_row : unchosen_row[g] = unchosen_row[h] => g = h

\* Before a stage its roots are collected.
Roots ==
  /\ \A c \in Col : slack[c] = INF
  /\ q = 0
  /\ \A h \in DOMAIN unchosen_row :
       col_mate[unchosen_row[h]] = -1 /\ unchosen_row[h] < k
  /\ \A r \in 0 .. k - 1 : col_mate[r] = -1 => r \in Range(unchosen_row)

\* In it the forest is built.
Growing ==
  /\ unchosen_row # <<>>
  /\ pc = "cover" => s >= 1
  /\ \A h \in DOMAIN unchosen_row : Rooted(h)
  /\ \A c \in Col : SlackIsNearest(c)

\* After it a path of tight cells leads from row k to a root.
Path ==
  /\ k \in Row /\ l \in Col /\ Del(k, l) = 0
  /\ \E i \in DOMAIN unchosen_row : /\ unchosen_row[i] = k
                                    /\ \A h \in 1 .. i : Rooted(h)

Forest ==
  /\ Injective
  /\ pc = "minima" => unchosen_row = <<>> /\ k = 0
  /\ pc \in {"minima", "match", "restart"} => Roots
  /\ pc \in {"explore", "cover"} => Growing
  /\ pc = "rematch" => Path
  /\ pc = "restart" => unmatched >= 1 /\ l = 0
  /\ pc = "check" => unmatched = 0

\* In every pass: the potentials bound the costs, what is matched is tight, and
\* the forest and the slacks are what the next change of potentials and the
\* rematching of a path rely on.
HungarianInv == Types /\ Feasible /\ Tight /\ Mates /\ Counted /\ Forest

\* The solution passes the doublecheck: the process never ends in exit(0).
NeverExits == pc # "exit" /\ (pc = "check" => Verified)

\* What a bijection of the square gets of the cells it was called with.
Gain(p, f) ==
  SumFunction([r \in 0 .. p.rows - 1 |-> IF f[r] < p.cols THEN p.cost[r][f[r]] ELSE 0])

\* No bijection of rows to columns costs less, or is of more use, than the one
\* returned, and in the first mode its cost is what the function returns.
CheapestAssignment ==
  pc = "done" =>
    LET gain == Gain(problem, col_mate)
    IN  /\ IsInjective(col_mate) /\ Range(col_mate) = Col
        /\ \A f \in Bijection(Row, Col) :
             IF problem.mode = Minimize THEN gain =< Gain(problem, f)
             ELSE gain >= Gain(problem, f)
        /\ problem.mode = Minimize => total = gain

\* Stages, passes and paths all end.
Termination == <>(pc = "done")
=============================================================================
