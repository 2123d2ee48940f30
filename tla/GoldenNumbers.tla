--------------------------- MODULE GoldenNumbers ---------------------------
(***************************************************************************)
(* Exact arithmetic on the numbers (a + b * sqrt(5)) / d, written          *)
(* <<a, b, d>> in lowest terms with d > 0.  Every entry of the program's   *)
(* ratio table is such a number, and so is everything it computes from     *)
(* them by +, *, / : the double arithmetic of the program is abstracted to *)
(* this field, and its comparisons "within kRatioEpsilon" or "within 1e-6" *)
(* to equality.                                                            *)
(***************************************************************************)
EXTENDS Integers

Magnitude(i) == IF i < 0 THEN -i ELSE i

gcd[p \in Nat \X Nat] ==
  IF p[2] = 0 THEN p[1] ELSE gcd[<<p[2], p[1] % p[2]>>]

\* (a + b * sqrt(5)) / d in lowest terms, for d # 0.
Number(a, b, d) ==
  LET g == gcd[<<gcd[<<Magnitude(a), Magnitude(b)>>], Magnitude(d)>>]
      s == IF d < 0 THEN -1 ELSE 1
  IN  <<s * (a \div g), s * (b \div g), s * (d \div g)>>

Numbers == Int \X Int \X (Nat \ {0})

Whole(n) == <<n, 0, 1>>
Rational(n, d) == Number(n, 0, d)

Plus(x, y)  == Number(x[1] * y[3] + y[1] * x[3], x[2] * y[3] + y[2] * x[3],
                      x[3] * y[3])
Minus(x, y) == Plus(x, <<-y[1], -y[2], y[3]>>)
Times(x, y) == Number(x[1] * y[1] + 5 * x[2] * y[2], x[1] * y[2] + x[2] * y[1],
                      x[3] * y[3])
\* d / (a + b sqrt(5)) = d (a - b sqrt(5)) / (a^2 - 5 b^2)
Reciprocal(x) == Number(x[3] * x[1], - (x[3] * x[2]),
                        x[1] * x[1] - 5 * x[2] * x[2])
Over(x, y) == Times(x, Reciprocal(y))

\* a + b sqrt(5) > 0: the term of greater magnitude decides.
Positive(x) ==
  \/ x[1] >= 0 /\ x[2] >= 0 /\ (x[1] > 0 \/ x[2] > 0)
  \/ x[1] > 0 /\ x[2] < 0 /\ x[1] * x[1] > 5 * x[2] * x[2]
  \/ x[1] < 0 /\ x[2] > 0 /\ x[1] * x[1] < 5 * x[2] * x[2]

Less(x, y)   == Positive(Minus(y, x))
AtMost(x, y) == ~Less(y, x)
=============================================================================
