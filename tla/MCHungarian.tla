----------------------------- MODULE MCHungarian -----------------------------
(***************************************************************************)
(* hungarian_solve for matrices of two and three rows with small costs, in *)
(* both modes, with missing rows or columns, and for some of four and five *)
(* rows whose paths are long.                                              *)
(***************************************************************************)
EXTENDS Hungarian

Matrices(rows, cols, values) == [0 .. rows - 1 -> [0 .. cols - 1 -> values]]

Calls(rows, cols, matrices, modes) ==
  {[rows |-> rows, cols |-> cols, cost |-> c, mode |-> mode] : c \in matrices, mode \in modes}

Square(n, Cell(_, _)) == [i \in 0 .. n - 1 |-> [j \in 0 .. n - 1 |-> Cell(i, j)]]

Both == {Minimize, Maximize}

\* Every row of the product wants the column the next one needs more.
Hard ==
  {Square(n, LAMBDA i, j : (i + 1) * (j + 1)) : n \in {4, 5}}
  \cup {Square(4, LAMBDA i, j : IF i = j \/ j = i + 1 THEN i ELSE a + j) : a \in 1 .. 3}

MCProblems ==
  Calls(2, 2, Matrices(2, 2, -1 .. 2), Both)
  \cup Calls(1, 3, Matrices(1, 3, 0 .. 2), Both)
  \cup Calls(3, 2, Matrices(3, 2, 0 .. 2), {Maximize})
  \cup Calls(2, 3, Matrices(2, 3, 0 .. 2), {Minimize})
  \cup Calls(3, 3, {c \in Matrices(3, 3, 0 .. 2) : c[0] = [j \in 0 .. 2 |-> j] \/ c[0][2] = 0},
           {Minimize})
  \cup UNION {Calls(Cardinality(DOMAIN c), Cardinality(DOMAIN c), {c}, Both) : c \in Hard}
=============================================================================
