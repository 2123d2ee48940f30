---------------------------- MODULE GoldenRatios ----------------------------
(***************************************************************************)
(* GoldenRatios::ratios() (include/golden/ratios.h): the table the program *)
(* runs with, in the order of the source.  <<a, b, d>> is the number       *)
(* (a + b * sqrt(5)) / d of GoldenNumbers; 2 / (sqrt(5) + 1), the inverse  *)
(* of the golden ratio, is <<-1, 1, 2>>.                                   *)
(***************************************************************************)
EXTENDS Integers

GoldenRatioTable ==
  <<
    <<1, 0, 8>>, <<5, -1, 20>>, <<7, -3, 2>>, <<-1, 1, 8>>, <<5, -1, 16>>,
    <<9, -1, 38>>, <<5, 1, 40>>, <<3, -1, 4>>, <<1, 1, 16>>, <<10, -1, 38>>,
    <<7, -1, 22>>, <<0, 1, 10>>, <<1, 0, 4>>, <<1, 1, 12>>, <<5, -1, 10>>,
    <<7, -3, 1>>, <<-1, 1, 4>>, <<5, -1, 8>>, <<9, -1, 19>>, <<5, 1, 20>>,
    <<3, -1, 2>>, <<1, 1, 8>>, <<10, -1, 19>>, <<7, -1, 11>>, <<0, 1, 5>>,
    <<1, 0, 2>>, <<1, 1, 6>>, <<5, -1, 5>>, <<7, -1, 8>>, <<-1, 1, 2>>,
    <<5, -1, 4>>, <<5, 1, 10>>, <<3, -1, 1>>, <<1, 1, 4>>, <<7, 1, 11>>,
    <<14, -2, 11>>, <<0, 2, 5>>, <<1, 0, 1>>, <<0, 1, 2>>, <<7, 1, 8>>,
    <<7, -1, 4>>, <<-1, 1, 1>>, <<3, 1, 4>>, <<5, -1, 2>>, <<5, 1, 5>>,
    <<1, 1, 2>>, <<14, 2, 11>>, <<5, 1, 4>>, <<-3, 3, 2>>, <<2, 0, 1>>,
    <<0, 1, 1>>, <<7, 1, 4>>, <<10, 1, 5>>, <<-2, 2, 1>>, <<3, 1, 2>>,
    <<5, -1, 1>>, <<9, 1, 4>>, <<10, 2, 5>>, <<1, 1, 1>>, <<7, 3, 4>>,
    <<5, 1, 2>>, <<-3, 3, 1>>, <<4, 0, 1>>, <<0, 2, 1>>, <<7, 1, 2>>,
    <<20, 2, 5>>, <<-4, 4, 1>>, <<3, 1, 1>>, <<10, -2, 1>>, <<9, 1, 2>>,
    <<20, 4, 5>>, <<2, 2, 1>>, <<7, 3, 2>>, <<5, 1, 1>>, <<8, 0, 1>>
  >>
=============================================================================
