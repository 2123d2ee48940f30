-------------------------- MODULE MCComplementMap --------------------------
(***************************************************************************)
(* The reverse map of the program's own table of 75 ratios.                *)
(***************************************************************************)
EXTENDS ComplementMap, GoldenRatios, TLC

\* The word past the array: zero, a small number such as the size field of a
\* heap block, and one with a packed complement in it.
SomeHeapWords == {{}, {0, 4, 5}, {30, 3}}
=============================================================================
