---------------------------- MODULE DataTheorems ----------------------------
(***************************************************************************)
(* Facts that the proofs about several components rest on: the numbers of  *)
(* GoldenNumbers are closed under its operators, ordered by AtMost, and in *)
(* lowest terms obey the laws of a field, so that equal numbers are the    *)
(* same triple; what SumFunctionOnSet and FoldFunction give for finite     *)
(* sets; where the elements of a changed sequence are.  Induction is over  *)
(* the sets or numbers themselves: those that a fact does not hold for are *)
(* named, and there is no least one.                                       *)
(***************************************************************************)
EXTENDS GoldenNumbers, Sequences, FiniteSets, Functions, FiniteSetTheorems, FunctionTheorems,
        WellFoundedInduction, TLAPS

-----------------------------------------------------------------------------
(* The greatest common divisor *)

\* d divides n.
Divides(d, n) == \E q \in Int : n = d * q

CommonDivisors(a, b) == {d \in Nat \ {0} : Divides(d, a) /\ Divides(d, b)}

LEMMA Division ==
  ASSUME NEW a \in Nat, NEW b \in Nat \ {0}
  PROVE  /\ a % b \in Nat /\ a % b < b /\ a \div b \in Nat
         /\ a = b * (a \div b) + (a % b)
OBVIOUS

\* Euclid's step keeps the common divisors.
LEMMA SameDivisors ==
  ASSUME NEW a \in Nat, NEW b \in Nat \ {0}
  PROVE  CommonDivisors(b, a % b) = CommonDivisors(a, b)
<1> DEFINE r == a % b
           k == a \div b
<1>1. r \in Nat /\ k \in Nat /\ a = b * k + r
  BY Division
<1> HIDE DEF r, k
<1>2. ASSUME NEW d \in Nat \ {0}, Divides(d, b)
      PROVE  Divides(d, r) <=> Divides(d, a)
  <2>1. PICK q \in Int : b = d * q
    BY <1>2 DEF Divides
  <2>2. ASSUME Divides(d, r)
        PROVE  Divides(d, a)
    <3>1. PICK p \in Int : r = d * p
      BY <2>2 DEF Divides
    <3>2. a = d * (q * k + p) /\ q * k + p \in Int
      BY <1>1, <2>1, <3>1
    <3> QED BY <3>2 DEF Divides
  <2>3. ASSUME Divides(d, a)
        PROVE  Divides(d, r)
    <3>1. PICK p \in Int : a = d * p
      BY <2>3 DEF Divides
    <3>2. r = d * (p - q * k) /\ p - q * k \in Int
      BY <1>1, <2>1, <3>1
    <3> QED BY <3>2 DEF Divides
  <2> QED BY <2>2, <2>3
<1> QED BY <1>2 DEF CommonDivisors, r

\* The recursion of gcd has a solution.
GreatestDivisor(a, b) ==
  CHOOSE d \in CommonDivisors(a, b) : \A e \in CommonDivisors(a, b) : e =< d

LEMMA DivisorsWithZero ==
  ASSUME NEW a \in Nat \ {0}
  PROVE  GreatestDivisor(a, 0) = a
<1>1. a = a * 1 /\ 0 = a * 0
  OBVIOUS
<1>2. a \in CommonDivisors(a, 0)
  BY <1>1 DEF CommonDivisors, Divides
<1>3. \A e \in CommonDivisors(a, 0) : e \in Nat \ {0} /\ e =< a
  <2> SUFFICES ASSUME NEW e \in CommonDivisors(a, 0)
               PROVE  e \in Nat \ {0} /\ e =< a
    OBVIOUS
  <2>1. e \in Nat \ {0} /\ Divides(e, a)
    BY DEF CommonDivisors
  <2>2. PICK q \in Int : a = e * q
    BY <2>1 DEF Divides
  <2> QED BY <2>1, <2>2
<1>4. ASSUME NEW d \in CommonDivisors(a, 0), \A e \in CommonDivisors(a, 0) : e =< d
      PROVE  d = a
  BY <1>2, <1>3, <1>4
<1> QED BY <1>2, <1>3, <1>4 DEF GreatestDivisor

LEMMA Euclid ==
  gcd = [p \in Nat \X Nat |-> IF p[2] = 0 THEN p[1] ELSE gcd[<<p[2], p[1] % p[2]>>]]
<1> DEFINE G == [p \in Nat \X Nat |->
                   IF p = <<0, 0>> THEN 0 ELSE GreatestDivisor(p[1], p[2])]
           H == [p \in Nat \X Nat |-> IF p[2] = 0 THEN p[1] ELSE G[<<p[2], p[1] % p[2]>>]]
<1>1. ASSUME NEW p \in Nat \X Nat
      PROVE  G[p] = H[p]
  <2>1. PICK a \in Nat, b \in Nat : p = <<a, b>>
    OBVIOUS
  <2>2. p[1] = a /\ p[2] = b /\ (p = <<0, 0>> <=> a = 0 /\ b = 0)
    BY <2>1
  <2>3. CASE b = 0
    <3>1. H[p] = a
      BY <2>2, <2>3
    <3>2. CASE a = 0
      BY <2>1, <2>2, <2>3, <3>1, <3>2
    <3>3. CASE a # 0
      <4>1. G[p] = GreatestDivisor(a, 0)
        BY <2>2, <2>3, <3>3
      <4> QED BY <3>1, <3>3, <4>1, DivisorsWithZero
    <3> QED BY <3>2, <3>3
  <2>4. CASE b # 0
    <3>1. a % b \in Nat
      BY <2>4, Division
    <3>2. H[p] = G[<<b, a % b>>]
      BY <2>2, <2>4
    <3>3. <<b, a % b>> \in Nat \X Nat /\ <<b, a % b>> # <<0, 0>>
      BY <2>4, <3>1
    <3>4. G[<<b, a % b>>] = GreatestDivisor(b, a % b)
      BY <3>3
    <3>5. G[p] = GreatestDivisor(a, b)
      BY <2>2, <2>4
    <3>6. GreatestDivisor(b, a % b) = GreatestDivisor(a, b)
      BY <2>4, SameDivisors DEF GreatestDivisor
    <3> QED BY <3>2, <3>4, <3>5, <3>6
  <2> QED BY <2>3, <2>4
<1>2. G = H
  <2>1. DOMAIN G = Nat \X Nat /\ DOMAIN H = Nat \X Nat
    OBVIOUS
  <2>2. G = [p \in Nat \X Nat |-> G[p]] /\ H = [p \in Nat \X Nat |-> H[p]]
    OBVIOUS
  <2> HIDE DEF G, H
  <2> QED BY <1>1, <2>2
<1>3. G = [p \in Nat \X Nat |-> IF p[2] = 0 THEN p[1] ELSE G[<<p[2], p[1] % p[2]>>]]
  BY <1>2
<1> HIDE DEF G, H
<1> QED BY <1>3 DEF gcd

LEMMA GcdStep ==
  ASSUME NEW a \in Nat, NEW b \in Nat
  PROVE  gcd[<<a, b>>] = IF b = 0 THEN a ELSE gcd[<<b, a % b>>]
<1>1. <<a, b>> \in Nat \X Nat /\ <<a, b>>[1] = a /\ <<a, b>>[2] = b
  OBVIOUS
<1> QED BY <1>1, Euclid

\* What gcd gives is a common divisor.
LEMMA GcdDivides ==
  ASSUME NEW a \in Nat, NEW b \in Nat, a # 0 \/ b # 0
  PROVE  gcd[<<a, b>>] \in CommonDivisors(a, b)
<1> DEFINE Wrong == {n \in Nat : \E m \in Nat : /\ m # 0 \/ n # 0
                                                /\ gcd[<<m, n>>] \notin CommonDivisors(m, n)}
<1>1. Wrong = {}
  <2> SUFFICES ASSUME Wrong # {}
               PROVE  FALSE
    OBVIOUS
  <2>1. PICK n \in Wrong : \A x \in Wrong : ~(<<x, n>> \in OpToRel(<, Nat))
    BY WFMin, NatLessThanWellFounded
  <2>2. \A x \in Wrong : ~(x < n)
    <3>1. Wrong \subseteq Nat
      OBVIOUS
    <3> HIDE DEF Wrong
    <3> QED BY <2>1, <3>1 DEF OpToRel
  <2>3. PICK m \in Nat : (m # 0 \/ n # 0) /\ gcd[<<m, n>>] \notin CommonDivisors(m, n)
    OBVIOUS
  <2>4. CASE n = 0
    <3>1. gcd[<<m, n>>] = m /\ m # 0
      BY <2>3, <2>4, GcdStep
    <3>2. m = m * 1 /\ 0 = m * 0
      OBVIOUS
    <3>3. m \in CommonDivisors(m, 0)
      BY <3>1, <3>2 DEF CommonDivisors, Divides
    <3> QED BY <2>3, <2>4, <3>1, <3>3
  <2>5. CASE n # 0
    <3>1. n \in Nat /\ m % n \in Nat /\ m % n < n
      BY <2>5, Division
    <3>2. gcd[<<m, n>>] = gcd[<<n, m % n>>]
      BY <2>5, <3>1, GcdStep
    <3>3. gcd[<<n, m % n>>] \in CommonDivisors(n, m % n)
      BY <2>2, <2>5, <3>1
    <3> QED BY <2>3, <2>5, <3>1, <3>2, <3>3, SameDivisors
  <2> QED BY <2>4, <2>5
<1> QED BY <1>1

-----------------------------------------------------------------------------
\* What Number divides by, and what is left.
Common(a, b, d) == gcd[<<gcd[<<Magnitude(a), Magnitude(b)>>], Magnitude(d)>>]
Quotient(g, a, q) == a = g * q /\ a \div g = q

LEMMA CommonDivides ==
  ASSUME NEW a \in Int, NEW b \in Int, NEW d \in Int \ {0}
  PROVE  /\ gcd[<<Magnitude(a), Magnitude(b)>>] \in Nat
         /\ Common(a, b, d) \in Nat \ {0}
         /\ \E p, q, r \in Int : /\ Quotient(Common(a, b, d), a, p)
                                /\ Quotient(Common(a, b, d), b, q)
                                /\ Quotient(Common(a, b, d), d, r)
<1> DEFINE h == gcd[<<Magnitude(a), Magnitude(b)>>]
           g == Common(a, b, d)
<1>1. Magnitude(a) \in Nat /\ Magnitude(b) \in Nat /\ Magnitude(d) \in Nat \ {0}
  BY DEF Magnitude
<1>2. h \in Nat /\ (h # 0 => Divides(h, Magnitude(a)) /\ Divides(h, Magnitude(b)))
                /\ (h = 0 => a = 0 /\ b = 0)
  <2>1. CASE a = 0 /\ b = 0
    <3>1. Magnitude(a) = 0 /\ Magnitude(b) = 0
      BY <2>1 DEF Magnitude
    <3>2. h = 0
      BY <3>1, GcdStep
    <3> QED BY <2>1, <3>2
  <2>2. CASE ~(a = 0 /\ b = 0)
    <3>1. Magnitude(a) # 0 \/ Magnitude(b) # 0
      BY <2>2 DEF Magnitude
    <3>2. h \in CommonDivisors(Magnitude(a), Magnitude(b))
      BY <1>1, <3>1, GcdDivides
    <3> QED BY <3>2 DEF CommonDivisors
  <2> QED BY <2>1, <2>2
<1> HIDE DEF h
<1>3. g \in Nat \ {0} /\ Divides(g, h) /\ Divides(g, Magnitude(d))
  <2>1. g \in CommonDivisors(h, Magnitude(d))
    BY <1>1, <1>2, GcdDivides DEF Common, h
  <2> QED BY <2>1 DEF CommonDivisors
<1> HIDE DEF g
<1>5. ASSUME NEW x \in Int, Divides(g, Magnitude(x))
      PROVE  \E q \in Int : x = g * q /\ x \div g = q
  <2>1. PICK q \in Int : Magnitude(x) = g * q
    BY <1>5 DEF Divides
  <2>2. CASE x >= 0
    <3>1. x = g * q
      BY <2>1, <2>2 DEF Magnitude
    <3>2. x \div g = q
      BY <1>3, <3>1
    <3> QED BY <3>1, <3>2
  <2>3. CASE x < 0
    <3>1. x = g * (-q)
      BY <1>3, <2>1, <2>3 DEF Magnitude
    <3>2. x \div g = -q
      BY <1>3, <3>1
    <3> QED BY <3>1, <3>2
  <2> QED BY <2>2, <2>3
<1>6. Divides(g, Magnitude(a)) /\ Divides(g, Magnitude(b))
  <2>1. CASE h = 0
    <3>1. Magnitude(a) = g * 0 /\ Magnitude(b) = g * 0
      BY <1>2, <1>3, <2>1 DEF Magnitude
    <3> QED BY <3>1 DEF Divides
  <2>2. CASE h # 0
    <3>1. PICK q \in Int : h = g * q
      BY <1>3 DEF Divides
    <3>2. PICK p \in Int, r \in Int : Magnitude(a) = h * p /\ Magnitude(b) = h * r
      BY <1>2, <2>2 DEF Divides
    <3>3. Magnitude(a) = g * (q * p) /\ Magnitude(b) = g * (q * r) /\ q * p \in Int /\ q * r \in Int
      BY <1>3, <3>1, <3>2
    <3> QED BY <3>3 DEF Divides
  <2> QED BY <2>1, <2>2
<1>7. PICK p \in Int : a = g * p /\ a \div g = p
  BY <1>5, <1>6
<1>8. PICK q \in Int : b = g * q /\ b \div g = q
  BY <1>5, <1>6
<1>9. PICK r \in Int : d = g * r /\ d \div g = r
  BY <1>3, <1>5
<1>10. Quotient(g, a, p) /\ Quotient(g, b, q) /\ Quotient(g, d, r)
  BY <1>7, <1>8, <1>9 DEF Quotient
<1> QED BY <1>2, <1>3, <1>10 DEF h, g

\* Number is the fraction in lower terms, with the sign in front.
LEMMA NumberIs ==
  ASSUME NEW a \in Int, NEW b \in Int, NEW d \in Int \ {0}
  PROVE  /\ Number(a, b, d) \in Numbers
         /\ \E g \in Int \ {0} : /\ a = g * Number(a, b, d)[1] /\ b = g * Number(a, b, d)[2]
                                 /\ d = g * Number(a, b, d)[3]
                                 /\ g > 0 <=> d > 0
<1> DEFINE g == Common(a, b, d)
           s == IF d < 0 THEN -1 ELSE 1
<1>1. g \in Nat \ {0}
  BY CommonDivides
<1>2. Number(a, b, d) = <<s * (a \div g), s * (b \div g), s * (d \div g)>>
  BY DEF Number, Common
<1>4. PICK p \in Int, q \in Int, r \in Int : Quotient(g, a, p) /\ Quotient(g, b, q) /\ Quotient(g, d, r)
  BY CommonDivides, Zenon
<1>3. /\ a = g * p /\ a \div g = p
      /\ b = g * q /\ b \div g = q
      /\ d = g * r /\ d \div g = r
  BY <1>4 DEF Quotient
<1> HIDE DEF g
<1>5. CASE d < 0
  <2>1. Number(a, b, d) = <<-p, -q, -r>>
    BY <1>2, <1>3, <1>5
  <2>2. -r \in Nat \ {0}
    BY <1>1, <1>3, <1>5
  <2>3. /\ a = (-g) * (-p) /\ b = (-g) * (-q) /\ d = (-g) * (-r)
        /\ -g \in Int \ {0} /\ -g < 0
    BY <1>1, <1>3
  <2>4. Number(a, b, d)[1] = -p /\ Number(a, b, d)[2] = -q /\ Number(a, b, d)[3] = -r
    BY <2>1
  <2>5. Number(a, b, d) \in Numbers
    BY <2>1, <2>2 DEF Numbers
  <2>6. -g > 0 <=> d > 0
    BY <1>5, <2>3
  <2> QED BY <2>3, <2>4, <2>5, <2>6
<1>6. CASE d > 0
  <2>1. Number(a, b, d) = <<p, q, r>>
    BY <1>2, <1>3, <1>6
  <2>2. r \in Nat \ {0}
    BY <1>1, <1>3, <1>6
  <2>4. Number(a, b, d)[1] = p /\ Number(a, b, d)[2] = q /\ Number(a, b, d)[3] = r
    BY <2>1
  <2>5. Number(a, b, d) \in Numbers
    BY <2>1, <2>2 DEF Numbers
  <2>6. g > 0 <=> d > 0
    BY <1>1, <1>6
  <2>7. /\ a = g * Number(a, b, d)[1] /\ b = g * Number(a, b, d)[2]
        /\ d = g * Number(a, b, d)[3] /\ g \in Int \ {0}
    BY <1>1, <1>3, <2>4
  <2> QED BY <2>5, <2>6, <2>7
<1> QED BY <1>5, <1>6

LEMMA NumberParts ==
  ASSUME NEW x \in Numbers
  PROVE  x[1] \in Int /\ x[2] \in Int /\ x[3] \in Nat \ {0} /\ x = <<x[1], x[2], x[3]>>
BY DEF Numbers
-----------------------------------------------------------------------------
(* The order *)

Pos(a, b) == Positive(<<a, b, 1>>)

LEMMA PosIs ==
  ASSUME NEW a, NEW b
  PROVE  Pos(a, b) <=> \/ a >= 0 /\ b >= 0 /\ (a > 0 \/ b > 0)
                       \/ a > 0 /\ b < 0 /\ a * a > 5 * b * b
                       \/ a < 0 /\ b > 0 /\ a * a < 5 * b * b
BY DEF Pos, Positive

LEMMA SquareScaled ==
  ASSUME NEW a \in Int, NEW b \in Int, NEW g \in Int, g > 0
  PROVE  /\ g * a > 0 <=> a > 0
         /\ g * a < 0 <=> a < 0
         /\ (g * a) * (g * a) > 5 * (g * b) * (g * b) <=> a * a > 5 * b * b
         /\ (g * a) * (g * a) < 5 * (g * b) * (g * b) <=> a * a < 5 * b * b
<1>1. g * a > 0 <=> a > 0
  OBVIOUS
<1>2. g * a < 0 <=> a < 0
  OBVIOUS
<1> DEFINE G == g * g
           D == a * a - 5 * b * b
<1>3. G \in Int /\ G > 0 /\ D \in Int
  OBVIOUS
<1>4. (g * a) * (g * a) - 5 * (g * b) * (g * b) = G * D
  OBVIOUS
<1>5. (G * D > 0 <=> D > 0) /\ (G * D < 0 <=> D < 0)
  <2> HIDE DEF G, D
  <2> QED BY <1>3
<1>6. (g * a) * (g * a) \in Int /\ 5 * (g * b) * (g * b) \in Int
  OBVIOUS
<1>7. (D > 0 <=> a * a > 5 * b * b) /\ (D < 0 <=> a * a < 5 * b * b)
  OBVIOUS
<1> HIDE DEF G, D
<1>8. PICK u \in Int, v \in Int : u = (g * a) * (g * a) /\ v = 5 * (g * b) * (g * b)
  BY <1>6
<1>9. (u > v <=> D > 0) /\ (u < v <=> D < 0)
  <2>1. u - v = G * D
    BY <1>4, <1>8
  <2> QED BY <1>5, <1>3, <2>1
<1> QED BY <1>1, <1>2, <1>7, <1>8, <1>9

\* A positive factor does not matter.
LEMMA PosScaled ==
  ASSUME NEW a \in Int, NEW b \in Int, NEW g \in Int, g > 0
  PROVE  Pos(g * a, g * b) <=> Pos(a, b)
<1>1. /\ g * a > 0 <=> a > 0
      /\ g * a < 0 <=> a < 0
      /\ g * b > 0 <=> b > 0
      /\ g * b < 0 <=> b < 0
      /\ (g * a) * (g * a) > 5 * (g * b) * (g * b) <=> a * a > 5 * b * b
      /\ (g * a) * (g * a) < 5 * (g * b) * (g * b) <=> a * a < 5 * b * b
  BY SquareScaled
<1>2. g * a \in Int /\ g * b \in Int
  OBVIOUS
<1>3. (g * a >= 0 <=> a >= 0) /\ (g * b >= 0 <=> b >= 0)
  BY <1>1, <1>2
<1>4. Pos(g * a, g * b) <=> \/ g * a >= 0 /\ g * b >= 0 /\ (g * a > 0 \/ g * b > 0)
                            \/ g * a > 0 /\ g * b < 0 /\ (g * a) * (g * a) > 5 * (g * b) * (g * b)
                            \/ g * a < 0 /\ g * b > 0 /\ (g * a) * (g * a) < 5 * (g * b) * (g * b)
  BY PosIs
<1> QED BY <1>1, <1>3, <1>4, PosIs

LEMMA NumberPositive ==
  ASSUME NEW a \in Int, NEW b \in Int, NEW d \in Nat \ {0}
  PROVE  Positive(Number(a, b, d)) <=> Pos(a, b)
<1> DEFINE x == Number(a, b, d)
<1>1. x \in Numbers
  BY NumberIs
<1>2. PICK g \in Int \ {0} : a = g * x[1] /\ b = g * x[2] /\ (g > 0 <=> d > 0)
  <2>1. \E g \in Int \ {0} : /\ a = g * x[1] /\ b = g * x[2]
                             /\ d = g * x[3]
                             /\ g > 0 <=> d > 0
    <3>1. d \in Int \ {0}
      OBVIOUS
    <3> QED BY <3>1, NumberIs, ZenonT(40)
  <2> HIDE DEF x
  <2> QED BY <2>1
<1> HIDE DEF x
<1>3. g > 0 /\ x[1] \in Int /\ x[2] \in Int
  BY <1>1, <1>2, NumberParts
<1>4. Pos(a, b) <=> Pos(x[1], x[2])
  BY <1>2, <1>3, PosScaled
<1>5. Positive(x) <=> Pos(x[1], x[2])
  BY DEF Pos, Positive
<1> QED BY <1>4, <1>5 DEF x

LEMMA LessIs ==
  ASSUME NEW x \in Numbers, NEW y \in Numbers
  PROVE  Less(x, y) <=> Pos(y[1] * x[3] - x[1] * y[3], y[2] * x[3] - x[2] * y[3])
<1>1. /\ x[1] \in Int /\ x[2] \in Int /\ x[3] \in Nat \ {0}
      /\ y[1] \in Int /\ y[2] \in Int /\ y[3] \in Nat \ {0}
  BY NumberParts
<1>2. Minus(y, x) = Number(y[1] * x[3] + (-x[1]) * y[3], y[2] * x[3] + (-x[2]) * y[3], y[3] * x[3])
  BY DEF Minus, Plus
<1>3. y[1] * x[3] + (-x[1]) * y[3] = y[1] * x[3] - x[1] * y[3] /\ y[2] * x[3] + (-x[2]) * y[3] = y[2] * x[3] - x[2] * y[3]
  BY <1>1
<1>4. y[3] * x[3] \in Nat \ {0} /\ y[1] * x[3] - x[1] * y[3] \in Int /\ y[2] * x[3] - x[2] * y[3] \in Int
  BY <1>1
<1>5. Minus(y, x) = Number(y[1] * x[3] - x[1] * y[3], y[2] * x[3] - x[2] * y[3], y[3] * x[3])
  BY <1>2, <1>3
<1> QED BY <1>4, <1>5, NumberPositive DEF Less

LEMMA SquareGrows ==
  ASSUME NEW p \in Nat, NEW q \in Nat, p =< q
  PROVE  p * p =< q * q
<1>1. PICK t \in Nat : q = p + t
  <2>1. q = p + (q - p) /\ q - p \in Nat
    OBVIOUS
  <2> QED BY <2>1
<1>2. q * q = p * p + t * (p + p + t) /\ t * (p + p + t) \in Nat
  BY <1>1
<1>3. p * p \in Nat
  OBVIOUS
<1> QED BY <1>2, <1>3

\* The product of two numbers whose squares are not above five times others.
LEMMA ProductBelow ==
  ASSUME NEW p \in Nat, NEW q \in Nat, NEW r \in Nat, NEW s \in Nat,
         p * p =< 5 * q * q, r * r =< 5 * s * s
  PROVE  p * r =< 5 * q * s
<1> DEFINE A == p * p
           B == q * q
           C == r * r
           D == s * s
           u == p * r
           v == q * s
<1>1. A \in Nat /\ B \in Nat /\ C \in Nat /\ D \in Nat /\ u \in Nat /\ v \in Nat
  OBVIOUS
<1>2. A =< 5 * B /\ C =< 5 * D
  OBVIOUS
<1>3. u * u = A * C /\ v * v = B * D
  OBVIOUS
<1> HIDE DEF A, B, C, D, u, v
<1>4. A * C =< (5 * B) * (5 * D)
  <2>1. PICK e \in Nat, f \in Nat : 5 * B = A + e /\ 5 * D = C + f
    <3>1. 5 * B - A \in Nat /\ 5 * D - C \in Nat
      BY <1>1, <1>2
    <3>2. 5 * B = A + (5 * B - A) /\ 5 * D = C + (5 * D - C)
      BY <1>1
    <3> QED BY <3>1, <3>2
  <2>2. (A + e) * (C + f) = A * C + (A * f + e * C + e * f)
    BY <1>1
  <2>3. A * f + e * C + e * f \in Nat /\ A * C \in Nat
    BY <1>1
  <2> QED BY <2>1, <2>2, <2>3
<1>5. u * u =< 25 * (v * v)
  <2>1. (5 * B) * (5 * D) = 25 * (B * D)
    BY <1>1
  <2> QED BY <1>3, <1>4, <2>1
<1>6. u =< 5 * v
  <2> SUFFICES ASSUME u > 5 * v
               PROVE  FALSE
    BY <1>1
  <2>1. 5 * v + 1 \in Nat /\ 5 * v + 1 =< u
    BY <1>1
  <2>2. (5 * v + 1) * (5 * v + 1) =< u * u
    BY <1>1, <2>1, SquareGrows
  <2>3. (5 * v + 1) * (5 * v + 1) = 25 * (v * v) + 10 * v + 1
    BY <1>1
  <2>4. u * u \in Nat /\ v * v \in Nat
    BY <1>1
  <2> QED BY <1>1, <1>5, <2>2, <2>3, <2>4
<1>7. 5 * q * s = 5 * v
  BY DEF v
<1> QED BY <1>6, <1>7 DEF u

LEMMA ProductAbove ==
  ASSUME NEW p \in Nat, NEW q \in Nat, NEW r \in Nat, NEW s \in Nat,
         5 * q * q =< p * p, 5 * s * s =< r * r
  PROVE  5 * q * s =< p * r
<1> DEFINE A == p * p
           B == q * q
           C == r * r
           D == s * s
           u == p * r
           v == q * s
<1>1. A \in Nat /\ B \in Nat /\ C \in Nat /\ D \in Nat /\ u \in Nat /\ v \in Nat
  OBVIOUS
<1>2. 5 * B =< A /\ 5 * D =< C
  OBVIOUS
<1>3. u * u = A * C /\ v * v = B * D
  OBVIOUS
<1> HIDE DEF A, B, C, D, u, v
<1>4. (5 * B) * (5 * D) =< A * C
  <2>1. PICK e \in Nat, f \in Nat : A = 5 * B + e /\ C = 5 * D + f
    <3>1. A - 5 * B \in Nat /\ C - 5 * D \in Nat
      BY <1>1, <1>2
    <3>2. A = 5 * B + (A - 5 * B) /\ C = 5 * D + (C - 5 * D)
      BY <1>1
    <3> QED BY <3>1, <3>2
  <2>2. A * C = (5 * B) * (5 * D) + ((5 * B) * f + e * (5 * D) + e * f)
    BY <1>1, <2>1
  <2>3. (5 * B) * f + e * (5 * D) + e * f \in Nat /\ (5 * B) * (5 * D) \in Nat
    BY <1>1
  <2> QED BY <2>2, <2>3
<1>5. 25 * (v * v) =< u * u
  <2>1. (5 * B) * (5 * D) = 25 * (B * D)
    BY <1>1
  <2> QED BY <1>3, <1>4, <2>1
<1>6. 5 * v =< u
  <2> SUFFICES ASSUME 5 * v > u
               PROVE  FALSE
    BY <1>1
  <2>1. 5 * v \in Nat /\ u + 1 \in Nat /\ u + 1 =< 5 * v
    BY <1>1
  <2>2. (u + 1) * (u + 1) =< (5 * v) * (5 * v)
    BY <2>1, SquareGrows
  <2>3. (u + 1) * (u + 1) = u * u + 2 * u + 1 /\ (5 * v) * (5 * v) = 25 * (v * v)
    BY <1>1
  <2>4. u * u \in Nat /\ v * v \in Nat
    BY <1>1
  <2> QED BY <1>1, <1>5, <2>2, <2>3, <2>4
<1>7. 5 * q * s = 5 * v
  BY DEF v
<1> QED BY <1>6, <1>7 DEF u

\* Two such numbers added.
LEMMA SumBelow ==
  ASSUME NEW p \in Nat, NEW q \in Nat, NEW r \in Nat, NEW s \in Nat,
         p * p =< 5 * q * q, r * r =< 5 * s * s
  PROVE  /\ (p + r) * (p + r) =< 5 * (q + s) * (q + s)
         /\ p * p < 5 * q * q => (p + r) * (p + r) < 5 * (q + s) * (q + s)
<1>1. p * r =< 5 * q * s
  BY ProductBelow
<1>2. PICK A \in Int, B \in Int, C \in Int, D \in Int, u \in Int, v \in Int :
        A = p * p /\ B = 5 * q * q /\ C = r * r /\ D = 5 * s * s /\ u = p * r /\ v = 5 * q * s
  <2>1. /\ p * p \in Int /\ 5 * q * q \in Int /\ r * r \in Int /\ 5 * s * s \in Int
        /\ p * r \in Int /\ 5 * q * s \in Int
    OBVIOUS
  <2> QED BY <2>1
<1>3. (p + r) * (p + r) = A + 2 * u + C /\ 5 * (q + s) * (q + s) = B + 2 * v + D
  BY <1>2
<1> QED BY <1>1, <1>2, <1>3

LEMMA SumAbove ==
  ASSUME NEW p \in Nat, NEW q \in Nat, NEW r \in Nat, NEW s \in Nat,
         5 * q * q =< p * p, 5 * s * s =< r * r
  PROVE  /\ 5 * (q + s) * (q + s) =< (p + r) * (p + r)
         /\ 5 * q * q < p * p => 5 * (q + s) * (q + s) < (p + r) * (p + r)
<1>1. 5 * q * s =< p * r
  BY ProductAbove
<1>2. PICK A \in Int, B \in Int, C \in Int, D \in Int, u \in Int, v \in Int :
        A = p * p /\ B = 5 * q * q /\ C = r * r /\ D = 5 * s * s /\ u = p * r /\ v = 5 * q * s
  <2>1. /\ p * p \in Int /\ 5 * q * q \in Int /\ r * r \in Int /\ 5 * s * s \in Int
        /\ p * r \in Int /\ 5 * q * s \in Int
    OBVIOUS
  <2> QED BY <2>1
<1>3. (p + r) * (p + r) = A + 2 * u + C /\ 5 * (q + s) * (q + s) = B + 2 * v + D
  BY <1>2
<1> QED BY <1>1, <1>2, <1>3

\* What is not positive: both terms are not, or the greater one is not.
BothFall(a, b) == a =< 0 /\ b =< 0
FallsBySecond(a, b) == a >= 0 /\ b =< 0 /\ a * a =< 5 * b * b
FallsByFirst(a, b) == a =< 0 /\ b >= 0 /\ a * a >= 5 * b * b

LEMMA NotPos ==
  ASSUME NEW a \in Int, NEW b \in Int
  PROVE  ~Pos(a, b) <=> BothFall(a, b) \/ FallsBySecond(a, b) \/ FallsByFirst(a, b)
<1>1. PICK A \in Int, B \in Int : A = a * a /\ B = 5 * b * b
  <2>1. a * a \in Int /\ 5 * b * b \in Int
    OBVIOUS
  <2> QED BY <2>1
<1>2. (a = 0 <=> A = 0) /\ (b = 0 <=> B = 0) /\ A >= 0 /\ B >= 0
  BY <1>1
<1>3. Pos(a, b) <=> \/ a >= 0 /\ b >= 0 /\ (a > 0 \/ b > 0)
                    \/ a > 0 /\ b < 0 /\ A > B
                    \/ a < 0 /\ b > 0 /\ A < B
  BY <1>1, PosIs
<1>4. (FallsBySecond(a, b) <=> a >= 0 /\ b =< 0 /\ A =< B) /\ (FallsByFirst(a, b) <=> a =< 0 /\ b >= 0 /\ A >= B)
  BY <1>1 DEF FallsBySecond, FallsByFirst
<1> QED BY <1>2, <1>3, <1>4 DEF BothFall

LEMMA NaturalMinus ==
  ASSUME NEW a \in Int, a =< 0
  PROVE  -a \in Nat /\ (-a) * (-a) = a * a /\ 5 * (-a) * (-a) = 5 * a * a
OBVIOUS

LEMMA FallsWithSecond ==
  ASSUME NEW a \in Int, NEW b \in Int, NEW c \in Int, NEW d \in Int,
         BothFall(a, b), FallsBySecond(c, d)
  PROVE  ~Pos(a + c, b + d)
<1>1. a =< 0 /\ b =< 0 /\ c >= 0 /\ d =< 0 /\ c * c =< 5 * d * d
  BY DEF BothFall, FallsBySecond
<1>2. a + c \in Int /\ b + d \in Int /\ b + d =< 0
  BY <1>1
<1>3. CASE a + c =< 0
  BY <1>2, <1>3, NotPos DEF BothFall
<1>4. CASE a + c > 0
  <2>1. a + c \in Nat /\ c \in Nat /\ a + c =< c
    BY <1>1, <1>2, <1>4
  <2>2. (a + c) * (a + c) =< c * c
    BY <2>1, SquareGrows
  <2>3. -d \in Nat /\ -(b + d) \in Nat /\ -d =< -(b + d)
    BY <1>1
  <2>4. (-d) * (-d) =< (-(b + d)) * (-(b + d))
    BY <2>3, SquareGrows
  <2>5. (-d) * (-d) = d * d /\ (-(b + d)) * (-(b + d)) = (b + d) * (b + d)
    BY <1>2
  <2>6. PICK A \in Int, C \in Int, D \in Int, E \in Int :
          A = (a + c) * (a + c) /\ C = c * c /\ D = d * d /\ E = (b + d) * (b + d)
    OBVIOUS
  <2>7. 5 * d * d = 5 * D /\ 5 * (b + d) * (b + d) = 5 * E
    BY <2>6
  <2>8. A =< 5 * E
    BY <1>1, <2>2, <2>4, <2>5, <2>6, <2>7
  <2>9. FallsBySecond(a + c, b + d)
    BY <1>2, <1>4, <2>6, <2>7, <2>8 DEF FallsBySecond
  <2> QED BY <1>2, <2>9, NotPos
<1> QED BY <1>2, <1>3, <1>4

LEMMA FallsWithFirst ==
  ASSUME NEW a \in Int, NEW b \in Int, NEW c \in Int, NEW d \in Int,
         BothFall(a, b), FallsByFirst(c, d)
  PROVE  ~Pos(a + c, b + d)
<1>1. a =< 0 /\ b =< 0 /\ c =< 0 /\ d >= 0 /\ c * c >= 5 * d * d
  BY DEF BothFall, FallsByFirst
<1>2. a + c \in Int /\ b + d \in Int /\ a + c =< 0
  BY <1>1
<1>3. CASE b + d =< 0
  BY <1>2, <1>3, NotPos DEF BothFall
<1>4. CASE b + d > 0
  <2>1. b + d \in Nat /\ d \in Nat /\ b + d =< d
    BY <1>1, <1>2, <1>4
  <2>2. (b + d) * (b + d) =< d * d
    BY <2>1, SquareGrows
  <2>3. -c \in Nat /\ -(a + c) \in Nat /\ -c =< -(a + c)
    BY <1>1
  <2>4. (-c) * (-c) =< (-(a + c)) * (-(a + c))
    BY <2>3, SquareGrows
  <2>5. (-c) * (-c) = c * c /\ (-(a + c)) * (-(a + c)) = (a + c) * (a + c)
    BY <1>2
  <2>6. PICK A \in Int, C \in Int, D \in Int, E \in Int :
          A = (a + c) * (a + c) /\ C = c * c /\ D = d * d /\ E = (b + d) * (b + d)
    OBVIOUS
  <2>7. 5 * d * d = 5 * D /\ 5 * (b + d) * (b + d) = 5 * E
    BY <2>6
  <2>8. A >= 5 * E
    BY <1>1, <2>2, <2>4, <2>5, <2>6, <2>7
  <2>9. FallsByFirst(a + c, b + d)
    BY <1>2, <1>4, <2>6, <2>7, <2>8 DEF FallsByFirst
  <2> QED BY <1>2, <2>9, NotPos
<1> QED BY <1>2, <1>3, <1>4

LEMMA BothBySecond ==
  ASSUME NEW a \in Int, NEW b \in Int, NEW c \in Int, NEW d \in Int,
         FallsBySecond(a, b), FallsBySecond(c, d)
  PROVE  ~Pos(a + c, b + d)
<1>1. a \in Nat /\ b =< 0 /\ c \in Nat /\ d =< 0 /\ a * a =< 5 * b * b /\ c * c =< 5 * d * d
  BY DEF FallsBySecond
<1>2. PICK p \in Nat, q \in Nat : p = -b /\ q = -d
  BY <1>1
<1>3. 5 * p * p = 5 * b * b /\ 5 * q * q = 5 * d * d
  BY <1>2
<1>4. (a + c) * (a + c) =< 5 * (p + q) * (p + q)
  BY <1>1, <1>3, SumBelow
<1>5. 5 * (p + q) * (p + q) = 5 * (b + d) * (b + d)
  BY <1>2
<1>6. a + c \in Int /\ b + d \in Int /\ a + c >= 0 /\ b + d =< 0
  BY <1>1
<1> QED BY <1>4, <1>5, <1>6, NotPos DEF FallsBySecond

LEMMA BothByFirst ==
  ASSUME NEW a \in Int, NEW b \in Int, NEW c \in Int, NEW d \in Int,
         FallsByFirst(a, b), FallsByFirst(c, d)
  PROVE  ~Pos(a + c, b + d)
<1>1. a =< 0 /\ b \in Nat /\ c =< 0 /\ d \in Nat /\ a * a >= 5 * b * b /\ c * c >= 5 * d * d
  BY DEF FallsByFirst
<1>2. PICK p \in Nat, q \in Nat : p = -a /\ q = -c
  BY <1>1
<1>3. p * p = a * a /\ q * q = c * c
  BY <1>2
<1>a. 5 * b * b =< p * p /\ 5 * d * d =< q * q
  BY <1>1, <1>3
<1>4. 5 * (b + d) * (b + d) =< (p + q) * (p + q)
  BY <1>1, <1>a, SumAbove
<1>5. (p + q) * (p + q) = (a + c) * (a + c)
  BY <1>2
<1>6. a + c \in Int /\ b + d \in Int /\ a + c =< 0 /\ b + d >= 0
  BY <1>1
<1>7. (a + c) * (a + c) \in Int /\ 5 * (b + d) * (b + d) \in Int
  OBVIOUS
<1> QED BY <1>4, <1>5, <1>6, <1>7, NotPos DEF FallsByFirst

LEMMA SecondWithFirst ==
  ASSUME NEW a \in Int, NEW b \in Int, NEW c \in Int, NEW d \in Int,
         FallsBySecond(a, b), FallsByFirst(c, d)
  PROVE  ~Pos(a + c, b + d)
<1>1. a \in Nat /\ b =< 0 /\ c =< 0 /\ d \in Nat /\ a * a =< 5 * b * b /\ c * c >= 5 * d * d
  BY DEF FallsBySecond, FallsByFirst
<1>2. PICK B \in Nat, C \in Nat : B = -b /\ C = -c
  BY <1>1
<1>3. 5 * B * B = 5 * b * b /\ C * C = c * c
  BY <1>2
<1>4. a * a =< 5 * B * B /\ 5 * d * d =< C * C
  BY <1>1, <1>3
<1>5. a + c = a - C /\ b + d = d - B /\ a - C \in Int /\ d - B \in Int
  BY <1>1, <1>2
<1>6. CASE a - C =< 0 /\ d - B =< 0
  BY <1>5, <1>6, NotPos DEF BothFall
<1>7. CASE a - C > 0 /\ d - B >= 0
  <2>1. C + 1 =< a /\ B =< d
    BY <1>1, <1>2, <1>7
  <2>2. (C + 1) * (C + 1) =< a * a /\ B * B =< d * d
    BY <1>1, <2>1, SquareGrows
  <2>3. (C + 1) * (C + 1) = C * C + 2 * C + 1
    BY <1>2
  <2>4. PICK u \in Int, v \in Int, w \in Int, x \in Int :
          u = C * C /\ v = a * a /\ w = B * B /\ x = d * d
    OBVIOUS
  <2>5. 5 * B * B = 5 * w /\ 5 * d * d = 5 * x
    BY <2>4
  <2> QED BY <1>4, <2>2, <2>3, <2>4, <2>5
<1>8. CASE a - C > 0 /\ d - B < 0
  <2>1. PICK m \in Nat, n \in Nat : m = a - C /\ n = B - d
    BY <1>1, <1>8
  <2>2. m * m =< 5 * n * n
    <3> SUFFICES ASSUME 5 * n * n < m * m
                 PROVE  FALSE
      <4>1. m * m \in Int /\ 5 * n * n \in Int
        OBVIOUS
      <4> QED BY <4>1
    <3>1. 5 * (n + d) * (n + d) < (m + C) * (m + C)
      <4>1. 5 * n * n =< m * m
        <5>1. m * m \in Int /\ 5 * n * n \in Int
          OBVIOUS
        <5> QED BY <5>1
      <4> QED BY <1>1, <1>4, <4>1, SumAbove
    <3>2. n + d = B /\ m + C = a
      BY <1>1, <2>1
    <3>3. 5 * B * B \in Int /\ a * a \in Int
      BY <1>1
    <3> QED BY <1>4, <3>1, <3>2, <3>3
  <2>3. m * m = (a - C) * (a - C) /\ 5 * n * n = 5 * (d - B) * (d - B)
    BY <1>1, <2>1
  <2>4. FallsBySecond(a - C, d - B)
    BY <1>5, <1>8, <2>2, <2>3 DEF FallsBySecond
  <2> QED BY <1>5, <2>4, NotPos
<1>9. CASE a - C =< 0 /\ d - B > 0
  <2>1. PICK m \in Nat, n \in Nat : m = C - a /\ n = d - B
    BY <1>1, <1>9
  <2>2. 5 * n * n =< m * m
    <3> SUFFICES ASSUME m * m < 5 * n * n
                 PROVE  FALSE
      <4>1. m * m \in Int /\ 5 * n * n \in Int
        OBVIOUS
      <4> QED BY <4>1
    <3>1. (m + a) * (m + a) < 5 * (n + B) * (n + B)
      <4>1. m * m =< 5 * n * n
        <5>1. m * m \in Int /\ 5 * n * n \in Int
          OBVIOUS
        <5> QED BY <5>1
      <4> QED BY <1>1, <1>4, <4>1, SumBelow
    <3>2. n + B = d /\ m + a = C
      BY <1>1, <2>1
    <3>3. 5 * d * d \in Int /\ C * C \in Int
      BY <1>1
    <3> QED BY <1>4, <3>1, <3>2, <3>3
  <2>3. m * m = (a - C) * (a - C) /\ 5 * n * n = 5 * (d - B) * (d - B)
    BY <1>1, <2>1
  <2>4. FallsByFirst(a - C, d - B)
    <3>1. (a - C) * (a - C) \in Int /\ 5 * (d - B) * (d - B) \in Int
      BY <1>5
    <3> QED BY <1>5, <1>9, <2>2, <2>3, <3>1 DEF FallsByFirst
  <2> QED BY <1>5, <2>4, NotPos
<1> QED BY <1>5, <1>6, <1>7, <1>8, <1>9

\* Of two numbers that are not positive the sum is not either.
LEMMA SumNotPos ==
  ASSUME NEW a \in Int, NEW b \in Int, NEW c \in Int, NEW d \in Int,
         ~Pos(a, b), ~Pos(c, d)
  PROVE  ~Pos(a + c, b + d)
<1>1. BothFall(a, b) \/ FallsBySecond(a, b) \/ FallsByFirst(a, b)
  BY NotPos
<1>2. BothFall(c, d) \/ FallsBySecond(c, d) \/ FallsByFirst(c, d)
  BY NotPos
<1>3. a + c = c + a /\ b + d = d + b
  OBVIOUS
<1>4. CASE BothFall(a, b) /\ BothFall(c, d)
  <2>1. BothFall(a + c, b + d) /\ a + c \in Int /\ b + d \in Int
    BY <1>4 DEF BothFall
  <2> QED BY <2>1, NotPos
<1>5. CASE BothFall(a, b) /\ ~BothFall(c, d)
  BY <1>2, <1>5, FallsWithSecond, FallsWithFirst
<1>6. CASE BothFall(c, d) /\ ~BothFall(a, b)
  BY <1>1, <1>3, <1>6, FallsWithSecond, FallsWithFirst
<1>7. CASE ~BothFall(a, b) /\ ~BothFall(c, d)
  BY <1>1, <1>2, <1>3, <1>7, BothBySecond, BothByFirst, SecondWithFirst
<1> QED BY <1>4, <1>5, <1>6, <1>7

\* Of any two numbers one is at most the other.
LEMMA AtMostTotal ==
  ASSUME NEW x \in Numbers, NEW y \in Numbers
  PROVE  AtMost(x, y) \/ AtMost(y, x)
<1>1. /\ x[1] \in Int /\ x[2] \in Int /\ x[3] \in Nat \ {0}
      /\ y[1] \in Int /\ y[2] \in Int /\ y[3] \in Nat \ {0}
  BY NumberParts
<1>2. PICK a \in Int, b \in Int : a = y[1] * x[3] - x[1] * y[3] /\ b = y[2] * x[3] - x[2] * y[3]
  BY <1>1
<1>3. x[1] * y[3] - y[1] * x[3] = -a /\ x[2] * y[3] - y[2] * x[3] = -b
  BY <1>1, <1>2
<1>4. (Less(x, y) <=> Pos(a, b)) /\ (Less(y, x) <=> Pos(-a, -b))
  BY <1>2, <1>3, LessIs
<1>5. (-a) * (-a) = a * a /\ 5 * (-b) * (-b) = 5 * b * b
  OBVIOUS
<1>6. PICK A \in Int, B \in Int : A = a * a /\ B = 5 * b * b
  OBVIOUS
<1>7. Pos(a, b) <=> \/ a >= 0 /\ b >= 0 /\ (a > 0 \/ b > 0)
                    \/ a > 0 /\ b < 0 /\ A > B
                    \/ a < 0 /\ b > 0 /\ A < B
  BY <1>6, PosIs
<1>8. Pos(-a, -b) <=> \/ -a >= 0 /\ -b >= 0 /\ (-a > 0 \/ -b > 0)
                      \/ -a > 0 /\ -b < 0 /\ A > B
                      \/ -a < 0 /\ -b > 0 /\ A < B
  BY <1>5, <1>6, PosIs
<1>9. ~(Pos(a, b) /\ Pos(-a, -b))
  BY <1>7, <1>8
<1> QED BY <1>4, <1>9 DEF AtMost

LEMMA AtMostTransitive ==
  ASSUME NEW x \in Numbers, NEW y \in Numbers, NEW z \in Numbers,
         AtMost(x, y), AtMost(y, z)
  PROVE  AtMost(x, z)
<1>1. PICK x1 \in Int, x2 \in Int, x3 \in Nat \ {0} : x1 = x[1] /\ x2 = x[2] /\ x3 = x[3]
  BY NumberParts
<1>2. PICK y1 \in Int, y2 \in Int, y3 \in Nat \ {0} : y1 = y[1] /\ y2 = y[2] /\ y3 = y[3]
  BY NumberParts
<1>3. PICK z1 \in Int, z2 \in Int, z3 \in Nat \ {0} : z1 = z[1] /\ z2 = z[2] /\ z3 = z[3]
  BY NumberParts
<1>4. ~Pos(x1 * y3 - y1 * x3, x2 * y3 - y2 * x3) /\ ~Pos(y1 * z3 - z1 * y3, y2 * z3 - z2 * y3)
  BY <1>1, <1>2, <1>3, LessIs DEF AtMost
<1>5. PICK a \in Int, b \in Int : a = x1 * y3 - y1 * x3 /\ b = x2 * y3 - y2 * x3
  OBVIOUS
<1>6. PICK c \in Int, d \in Int : c = y1 * z3 - z1 * y3 /\ d = y2 * z3 - z2 * y3
  OBVIOUS
<1>13. ~Pos(a, b) /\ ~Pos(c, d) /\ x3 > 0 /\ y3 > 0 /\ z3 > 0
  BY <1>4, <1>5, <1>6
<1>7. ~Pos(z3 * a, z3 * b)
  BY <1>13, PosScaled
<1>8. ~Pos(x3 * c, x3 * d)
  BY <1>13, PosScaled
<1>9. ~Pos(z3 * a + x3 * c, z3 * b + x3 * d)
  <2>1. z3 * a \in Int /\ z3 * b \in Int /\ x3 * c \in Int /\ x3 * d \in Int
    OBVIOUS
  <2> QED BY <1>7, <1>8, <2>1, SumNotPos
<1>10. PICK e \in Int, f \in Int : e = x1 * z3 - z1 * x3 /\ f = x2 * z3 - z2 * x3
  OBVIOUS
<1>11. z3 * a + x3 * c = y3 * e /\ z3 * b + x3 * d = y3 * f
  BY <1>5, <1>6, <1>10
<1>12. ~Pos(e, f)
  <2>1. ~Pos(y3 * e, y3 * f)
    BY <1>9, <1>11
  <2>2. y3 \in Int /\ y3 > 0
    BY <1>13
  <2>3. Pos(y3 * e, y3 * f) <=> Pos(e, f)
    BY <2>2, PosScaled
  <2> QED BY <2>1, <2>3
<1> QED BY <1>1, <1>3, <1>10, <1>12, LessIs DEF AtMost
-----------------------------------------------------------------------------
(* The field *)

\* Five is no square of a fraction.
LEMMA RootOfFive ==
  ASSUME NEW a \in Int, NEW b \in Int, a * a = 5 * b * b
  PROVE  a = 0 /\ b = 0
<1> DEFINE Roots == {n \in Nat : n # 0 /\ \E m \in Nat : n * n = 5 * m * m}
<1>1. Roots = {}
  <2> SUFFICES ASSUME Roots # {}
               PROVE  FALSE
    OBVIOUS
  <2>1. PICK n \in Roots : \A x \in Roots : ~(<<x, n>> \in OpToRel(<, Nat))
    BY WFMin, NatLessThanWellFounded
  <2>2. \A x \in Roots : ~(x < n)
    <3>1. Roots \subseteq Nat
      OBVIOUS
    <3> HIDE DEF Roots
    <3> QED BY <2>1, <3>1 DEF OpToRel
  <2>3. PICK m \in Nat : n * n = 5 * m * m
    OBVIOUS
  <2>4. n \in Nat /\ n # 0
    OBVIOUS
  <2>5. ASSUME NEW p \in Nat, NEW t \in Int, p * p = 5 * t
        PROVE  \E q \in Nat : p = 5 * q
    <3>1. PICK q \in Nat, r \in 0 .. 4 : p = 5 * q + r
      <4>1. p = 5 * (p \div 5) + (p % 5) /\ p \div 5 \in Nat /\ p % 5 \in 0 .. 4
        OBVIOUS
      <4> QED BY <4>1
    <3>2. p * p = 25 * q * q + 10 * q * r + r * r
      BY <3>1
    <3>3. r * r = 5 * (t - 5 * q * q - 2 * q * r) /\ t - 5 * q * q - 2 * q * r \in Int
      BY <2>5, <3>2
    <3>4. r * r \in {0, 1, 4, 9, 16} /\ (r * r = 0 => r = 0)
      OBVIOUS
    <3>5. r = 0
      <4>1. PICK s \in Int : r * r = 5 * s
        BY <3>3
      <4> QED BY <3>4, <4>1
    <3>6. p = 5 * q
      BY <3>1, <3>5
    <3> QED BY <3>6
  <2>6. PICK q \in Nat : n = 5 * q
    <3>1. n * n = 5 * (m * m) /\ m * m \in Int
      BY <2>3
    <3> QED BY <2>4, <2>5, <3>1
  <2>7. m * m = 5 * (q * q) /\ q * q \in Int
    <3>1. n * n = 25 * (q * q)
      BY <2>6
    <3>2. m * m \in Int /\ q * q \in Int /\ 5 * m * m = 5 * (m * m)
      OBVIOUS
    <3> QED BY <2>3, <3>1, <3>2
  <2>8. PICK t \in Nat : m = 5 * t
    BY <2>5, <2>7
  <2>9. q * q = 5 * t * t
    <3>1. m * m = 25 * (t * t) /\ t * t \in Int /\ 5 * t * t = 5 * (t * t)
      BY <2>8
    <3> QED BY <2>7, <3>1
  <2>10. q # 0 /\ q < n
    BY <2>4, <2>6
  <2> QED BY <2>2, <2>9, <2>10
<1>2. PICK p \in Nat, q \in Nat : p = Magnitude(a) /\ q = Magnitude(b)
  BY DEF Magnitude
<1>7. p * p = a * a /\ (p = 0 <=> a = 0)
  BY <1>2 DEF Magnitude
<1>8. 5 * q * q = 5 * b * b /\ (q = 0 <=> b = 0)
  BY <1>2 DEF Magnitude
<1>3. p \notin Roots
  BY <1>1
<1>4. p = 0
  BY <1>3, <1>7, <1>8
<1>5. 5 * b * b = 0
  BY <1>4, <1>7
<1>6. b = 0
  BY <1>5
<1> QED BY <1>4, <1>6, <1>7

\* Numbers that are not zero.
NonZero == {x \in Numbers : x[1] # 0 \/ x[2] # 0}

LEMMA NumberIsNonZero ==
  ASSUME NEW a \in Int, NEW b \in Int, NEW d \in Int \ {0}, a # 0 \/ b # 0
  PROVE  Number(a, b, d) \in NonZero
<1> DEFINE x == Number(a, b, d)
<1>1. x \in Numbers
  BY NumberIs
<1>2. PICK g \in Int \ {0} : a = g * x[1] /\ b = g * x[2]
  <2>1. \E g \in Int \ {0} : /\ a = g * x[1] /\ b = g * x[2]
                             /\ d = g * x[3]
                             /\ g > 0 <=> d > 0
    BY NumberIs, ZenonT(40)
  <2> HIDE DEF x
  <2> QED BY <2>1
<1> HIDE DEF x
<1>3. x[1] \in Int /\ x[2] \in Int
  BY <1>1, NumberParts
<1>4. x[1] # 0 \/ x[2] # 0
  BY <1>2, <1>3
<1> QED BY <1>1, <1>4 DEF NonZero, x

LEMMA PlusIsNumber ==
  ASSUME NEW x \in Numbers, NEW y \in Numbers
  PROVE  Plus(x, y) \in Numbers /\ Minus(x, y) \in Numbers
<1>1. PICK x1 \in Int, x2 \in Int, x3 \in Nat \ {0} : x1 = x[1] /\ x2 = x[2] /\ x3 = x[3]
  BY NumberParts
<1>2. PICK y1 \in Int, y2 \in Int, y3 \in Nat \ {0} : y1 = y[1] /\ y2 = y[2] /\ y3 = y[3]
  BY NumberParts
<1>3. /\ x1 * y3 + y1 * x3 \in Int /\ x2 * y3 + y2 * x3 \in Int /\ x3 * y3 \in Int \ {0}
      /\ x1 * y3 + (-y1) * x3 \in Int /\ x2 * y3 + (-y2) * x3 \in Int
  OBVIOUS
<1>4. Plus(x, y) \in Numbers
  BY <1>1, <1>2, <1>3, NumberIs DEF Plus
<1>5. Minus(x, y) = Number(x1 * y3 + (-y1) * x3, x2 * y3 + (-y2) * x3, x3 * y3)
  BY <1>1, <1>2 DEF Minus, Plus
<1> QED BY <1>3, <1>4, <1>5, NumberIs

LEMMA TimesIsNumber ==
  ASSUME NEW x \in Numbers, NEW y \in Numbers
  PROVE  /\ Times(x, y) \in Numbers
         /\ x \in NonZero /\ y \in NonZero => Times(x, y) \in NonZero
<1>1. PICK x1 \in Int, x2 \in Int, x3 \in Nat \ {0} : x1 = x[1] /\ x2 = x[2] /\ x3 = x[3]
  BY NumberParts
<1>2. PICK y1 \in Int, y2 \in Int, y3 \in Nat \ {0} : y1 = y[1] /\ y2 = y[2] /\ y3 = y[3]
  BY NumberParts
<1>3. PICK a \in Int, b \in Int, d \in Int \ {0} :
        a = x1 * y1 + 5 * x2 * y2 /\ b = x1 * y2 + x2 * y1 /\ d = x3 * y3
  <2>1. x1 * y1 + 5 * x2 * y2 \in Int /\ x1 * y2 + x2 * y1 \in Int /\ x3 * y3 \in Int \ {0}
    OBVIOUS
  <2> QED BY <2>1
<1>4. Times(x, y) = Number(a, b, d)
  BY <1>1, <1>2, <1>3 DEF Times
<1>5. ASSUME x \in NonZero, y \in NonZero
      PROVE  a # 0 \/ b # 0
  <2> SUFFICES ASSUME a = 0, b = 0
               PROVE  FALSE
    OBVIOUS
  <2>1. PICK m \in Int, n \in Int : m = x1 * x1 - 5 * x2 * x2 /\ n = y1 * y1 - 5 * y2 * y2
    OBVIOUS
  <2>2. m * n = a * a - 5 * b * b
    BY <1>3, <2>1
  <2>3. m * n = 0
    BY <2>2
  <2>4. m = 0 \/ n = 0
    BY <2>3
  <2>5. m # 0
    <3> SUFFICES ASSUME m = 0
                 PROVE  FALSE
      OBVIOUS
    <3>1. x1 * x1 \in Int /\ 5 * x2 * x2 \in Int
      OBVIOUS
    <3>2. x1 * x1 = 5 * x2 * x2
      BY <2>1, <3>1
    <3>3. x1 = 0 /\ x2 = 0
      BY <3>2, RootOfFive
    <3> QED BY <1>1, <1>5, <3>3 DEF NonZero
  <2>6. n # 0
    <3> SUFFICES ASSUME n = 0
                 PROVE  FALSE
      OBVIOUS
    <3>1. y1 * y1 \in Int /\ 5 * y2 * y2 \in Int
      OBVIOUS
    <3>2. y1 * y1 = 5 * y2 * y2
      BY <2>1, <3>1
    <3>3. y1 = 0 /\ y2 = 0
      BY <3>2, RootOfFive
    <3> QED BY <1>2, <1>5, <3>3 DEF NonZero
  <2> QED BY <2>4, <2>5, <2>6
<1> QED BY <1>4, <1>5, NumberIs, NumberIsNonZero

LEMMA ReciprocalIsNumber ==
  ASSUME NEW x \in NonZero
  PROVE  Reciprocal(x) \in NonZero
<1>1. x \in Numbers /\ (x[1] # 0 \/ x[2] # 0)
  BY DEF NonZero
<1>2. PICK x1 \in Int, x2 \in Int, x3 \in Nat \ {0} : x1 = x[1] /\ x2 = x[2] /\ x3 = x[3]
  BY <1>1, NumberParts
<1>3. PICK a \in Int, b \in Int, d \in Int : a = x3 * x1 /\ b = -(x3 * x2) /\ d = x1 * x1 - 5 * x2 * x2
  OBVIOUS
<1>4. Reciprocal(x) = Number(a, b, d)
  BY <1>2, <1>3 DEF Reciprocal
<1>5. d # 0
  <2> SUFFICES ASSUME d = 0
               PROVE  FALSE
    OBVIOUS
  <2>1. x1 * x1 \in Int /\ 5 * x2 * x2 \in Int
    OBVIOUS
  <2>2. x1 * x1 = 5 * x2 * x2
    BY <1>3, <2>1
  <2> QED BY <1>1, <1>2, <2>2, RootOfFive
<1>6. a # 0 \/ b # 0
  <2>1. x1 # 0 \/ x2 # 0
    BY <1>1, <1>2
  <2>2. x1 # 0 => a # 0
    BY <1>3
  <2>3. x2 # 0 => b # 0
    BY <1>3
  <2> QED BY <2>1, <2>2, <2>3
<1> QED BY <1>4, <1>5, <1>6, NumberIsNonZero

LEMMA OverIsNumber ==
  ASSUME NEW x \in Numbers, NEW y \in NonZero
  PROVE  /\ Over(x, y) \in Numbers
         /\ x \in NonZero => Over(x, y) \in NonZero
<1>1. Reciprocal(y) \in NonZero
  BY ReciprocalIsNumber
<1>2. Reciprocal(y) \in Numbers
  BY <1>1 DEF NonZero
<1> QED BY <1>1, <1>2, TimesIsNumber DEF Over

LEMMA WholeIsNumber ==
  ASSUME NEW n \in Int
  PROVE  Whole(n) \in Numbers
BY DEF Whole, Numbers
-----------------------------------------------------------------------------
(* Numbers and finite sets *)

\* A set of natural numbers has a smallest one.
LEMMA Smallest ==
  ASSUME NEW S \in SUBSET Nat, S # {}
  PROVE  \E n \in S : \A m \in S : n =< m
<1>1. PICK n \in S : \A m \in S : ~(<<m, n>> \in OpToRel(<, Nat))
  BY WFMin, NatLessThanWellFounded
<1>2. \A m \in S : ~(m < n)
  BY <1>1 DEF OpToRel
<1> QED BY <1>2

\* Sets of which each is empty or one of them and an element more: all there are.
LEMMA FiniteSetInduction ==
  ASSUME NEW S, IsFiniteSet(S), NEW Good, {} \in Good,
         \A T \in SUBSET S : \A x \in S \ T : T \in Good => T \cup {x} \in Good
  PROVE  S \in Good
<1> DEFINE Sizes == {Cardinality(T) : T \in (SUBSET S) \ Good}
<1>1. \A T \in SUBSET S : IsFiniteSet(T) /\ Cardinality(T) \in Nat
  BY FS_Subset, FS_CardinalityType
<1> SUFFICES ASSUME S \notin Good
             PROVE  FALSE
  OBVIOUS
<1>2. Sizes \subseteq Nat /\ Sizes # {}
  <2>1. S \in (SUBSET S) \ Good
    OBVIOUS
  <2> QED BY <1>1, <2>1
<1>3. PICK size \in Sizes : \A n \in Sizes : ~(<<n, size>> \in OpToRel(<, Nat))
  <2> HIDE DEF Sizes
  <2> QED BY <1>2, WFMin, NatLessThanWellFounded
<1>4. \A n \in Sizes : ~(n < size)
  <2> HIDE DEF Sizes
  <2> QED BY <1>2, <1>3 DEF OpToRel
<1>5. PICK T \in (SUBSET S) \ Good : Cardinality(T) = size
  OBVIOUS
<1>6. PICK x : x \in T
  BY <1>5
<1>7. /\ T \ {x} \in SUBSET S /\ x \in S \ (T \ {x}) /\ (T \ {x}) \cup {x} = T
      /\ Cardinality(T \ {x}) = Cardinality(T) - 1
  <2>1. T \ {x} \in SUBSET S /\ x \in S \ (T \ {x}) /\ (T \ {x}) \cup {x} = T
    BY <1>5, <1>6
  <2> QED BY <1>1, <1>5, <1>6, <2>1, FS_RemoveElement
<1>8. T \ {x} \notin Good
  BY <1>5, <1>7
<1>9. Cardinality(T \ {x}) \in Sizes
  BY <1>7, <1>8
<1>10. Cardinality(T \ {x}) < size
  BY <1>1, <1>5, <1>7
<1> QED BY <1>4, <1>9, <1>10
-----------------------------------------------------------------------------
(* The recursion the sum is defined by *)

Picked(T) == CHOOSE x \in T : TRUE

\* sum is what the recursion says on the subsets of S.
Sums(f, S, sum) ==
  sum = [T \in SUBSET S |-> IF T = {} THEN 0 ELSE f[Picked(T)] + sum[T \ {Picked(T)}]]

\* The same, for the sets of at most n elements.
SumsUpTo(f, S, n, sum) ==
  LET Small == {T \in SUBSET S : Cardinality(T) =< n}
  IN  sum = [T \in Small |-> IF T = {} THEN 0 ELSE f[Picked(T)] + sum[T \ {Picked(T)}]]

LEMMA PickedIsElement ==
  ASSUME NEW T, T # {}
  PROVE  Picked(T) \in T
BY DEF Picked

LEMMA SumsUpToNext ==
  ASSUME NEW f, NEW S, IsFiniteSet(S), NEW n \in Nat, NEW sum, SumsUpTo(f, S, n, sum)
  PROVE  \E next : SumsUpTo(f, S, n + 1, next)
<1> DEFINE Small == {T \in SUBSET S : Cardinality(T) =< n}
           Larger == {T \in SUBSET S : Cardinality(T) =< n + 1}
           next == [T \in Larger |-> IF T = {} THEN 0 ELSE f[Picked(T)] + sum[T \ {Picked(T)}]]
<1>1. \A T \in SUBSET S : IsFiniteSet(T) /\ Cardinality(T) \in Nat
  BY FS_Subset, FS_CardinalityType
<1>2. ASSUME NEW T \in Larger, T # {}
      PROVE  next[T \ {Picked(T)}] = sum[T \ {Picked(T)}]
  <2> DEFINE U == T \ {Picked(T)}
  <2>1. Cardinality(U) = Cardinality(T) - 1
    BY <1>1, <1>2, PickedIsElement, FS_RemoveElement
  <2>2. U \in SUBSET S /\ Cardinality(T) =< n + 1 /\ Cardinality(T) \in Nat
    BY <1>1, <1>2
  <2>3. U \in Small /\ U \in Larger
    BY <2>1, <2>2
  <2> HIDE DEF U, Small, Larger
  <2>4. sum[U] = IF U = {} THEN 0 ELSE f[Picked(U)] + sum[U \ {Picked(U)}]
    BY <2>3 DEF SumsUpTo, Small
  <2>5. next[U] = IF U = {} THEN 0 ELSE f[Picked(U)] + sum[U \ {Picked(U)}]
    BY <2>3
  <2> QED BY <2>4, <2>5 DEF U
<1>3. next = [T \in Larger |-> IF T = {} THEN 0 ELSE f[Picked(T)] + next[T \ {Picked(T)}]]
  <2> DEFINE again == [T \in Larger |-> IF T = {} THEN 0 ELSE f[Picked(T)] + next[T \ {Picked(T)}]]
  <2>1. \A T \in Larger : next[T] = again[T]
    <3> SUFFICES ASSUME NEW T \in Larger
                 PROVE  next[T] = again[T]
      OBVIOUS
    <3>1. CASE T = {}
      BY <3>1
    <3>2. CASE T # {}
      <4>1. next[T] = f[Picked(T)] + sum[T \ {Picked(T)}]
        BY <3>2
      <4>2. again[T] = f[Picked(T)] + next[T \ {Picked(T)}]
        BY <3>2
      <4> QED BY <1>2, <3>2, <4>1, <4>2
    <3> QED BY <3>1, <3>2
  <2> HIDE DEF Larger
  <2> QED BY <2>1
<1> HIDE DEF next
<1>4. SumsUpTo(f, S, n + 1, next)
  BY <1>3 DEF SumsUpTo
<1> QED BY <1>4

\* There is such a function.
LEMMA SumsExist ==
  ASSUME NEW f, NEW S, IsFiniteSet(S)
  PROVE  \E sum : Sums(f, S, sum)
<1> DEFINE Without == {n \in Nat : ~ \E sum : SumsUpTo(f, S, n, sum)}
<1>1. \A T \in SUBSET S : Cardinality(T) \in Nat /\ (Cardinality(T) = 0 <=> T = {})
  BY FS_Subset, FS_CardinalityType, FS_EmptySet
<1>2. 0 \notin Without
  <2>1. {T \in SUBSET S : Cardinality(T) =< 0} = {{}}
    BY <1>1
  <2>2. SumsUpTo(f, S, 0, [T \in {{}} |-> 0])
    BY <2>1 DEF SumsUpTo
  <2> QED BY <2>2
<1>3. Without = {}
  <2> SUFFICES ASSUME Without # {}
               PROVE  FALSE
    OBVIOUS
  <2>1. PICK n \in Without : \A m \in Without : ~(<<m, n>> \in OpToRel(<, Nat))
    BY WFMin, NatLessThanWellFounded
  <2>2. \A m \in Without : ~(m < n)
    <3>1. Without \subseteq Nat
      OBVIOUS
    <3> HIDE DEF Without
    <3> QED BY <2>1, <3>1 DEF OpToRel
  <2>3. n \in Nat /\ n # 0
    BY <1>2
  <2>4. n - 1 \in Nat /\ n - 1 \notin Without /\ (n - 1) + 1 = n
    <3> HIDE DEF Without
    <3> QED BY <2>2, <2>3
  <2>5. PICK sum : SumsUpTo(f, S, n - 1, sum)
    BY <2>4
  <2>6. \E next : SumsUpTo(f, S, (n - 1) + 1, next)
    BY <2>4, <2>5, SumsUpToNext
  <2> QED BY <2>1, <2>4, <2>6
<1>4. Cardinality(S) \in Nat /\ {T \in SUBSET S : Cardinality(T) =< Cardinality(S)} = SUBSET S
  BY FS_Subset, FS_CardinalityType
<1>5. PICK sum : SumsUpTo(f, S, Cardinality(S), sum)
  BY <1>3, <1>4
<1> QED BY <1>4, <1>5 DEF SumsUpTo, Sums

\* Two such functions agree where both are defined.
LEMMA SumsAgree ==
  ASSUME NEW f, NEW S, NEW T \in SUBSET S, IsFiniteSet(S),
         NEW a, Sums(f, S, a), NEW b, Sums(f, T, b)
  PROVE  b = [U \in SUBSET T |-> a[U]]
<1> DEFINE Differ == {n \in Nat : \E U \in SUBSET T : Cardinality(U) = n /\ a[U] # b[U]}
<1>1. \A U \in SUBSET S : IsFiniteSet(U) /\ Cardinality(U) \in Nat
  BY FS_Subset, FS_CardinalityType
<1>2. /\ \A U \in SUBSET S : a[U] = IF U = {} THEN 0 ELSE f[Picked(U)] + a[U \ {Picked(U)}]
      /\ \A U \in SUBSET T : b[U] = IF U = {} THEN 0 ELSE f[Picked(U)] + b[U \ {Picked(U)}]
      /\ b = [U \in SUBSET T |-> b[U]]
  BY DEF Sums
<1>3. Differ = {}
  <2> SUFFICES ASSUME Differ # {}
               PROVE  FALSE
    OBVIOUS
  <2>1. PICK n \in Differ : \A m \in Differ : ~(<<m, n>> \in OpToRel(<, Nat))
    BY WFMin, NatLessThanWellFounded
  <2>2. \A m \in Differ : ~(m < n)
    <3>1. Differ \subseteq Nat
      OBVIOUS
    <3> HIDE DEF Differ
    <3> QED BY <2>1, <3>1 DEF OpToRel
  <2>3. PICK U \in SUBSET T : Cardinality(U) = n /\ a[U] # b[U]
    BY <2>1
  <2>4. U # {} /\ U \in SUBSET S
    BY <1>2, <2>3
  <2> DEFINE V == U \ {Picked(U)}
  <2>5. Cardinality(V) = n - 1 /\ Cardinality(V) \in Nat /\ V \in SUBSET T
    BY <1>1, <2>3, <2>4, PickedIsElement, FS_RemoveElement
  <2>6. a[V] # b[V]
    <3> HIDE DEF V, Differ
    <3> QED BY <1>2, <2>3, <2>4 DEF V
  <2>7. n - 1 \in Differ /\ n - 1 < n
    BY <2>5, <2>6
  <2> QED BY <2>2, <2>7
<1>4. \A U \in SUBSET T : Cardinality(U) \in Nat
  BY <1>1
<1> QED BY <1>2, <1>3, <1>4

\* The sum is what such a function says.
LEMMA SumIs ==
  ASSUME NEW f, NEW S, IsFiniteSet(S), NEW T \in SUBSET S, NEW sum, Sums(f, S, sum)
  PROVE  SumFunctionOnSet(f, T) = sum[T]
<1> DEFINE own == CHOOSE g : Sums(f, T, g)
<1>1. SumFunctionOnSet(f, T) = own[T]
  BY DEF SumFunctionOnSet, FoldFunctionOnSet, MapThenFoldSet, Sums, Picked
<1>2. Sums(f, T, own)
  <2>1. IsFiniteSet(T)
    BY FS_Subset
  <2> QED BY <2>1, SumsExist
<1> HIDE DEF own
<1>3. own = [U \in SUBSET T |-> sum[U]]
  BY <1>2, SumsAgree
<1> QED BY <1>1, <1>3
-----------------------------------------------------------------------------
(* The sum *)

LEMMA SumEmpty ==
  ASSUME NEW f
  PROVE  SumFunctionOnSet(f, {}) = 0
<1>1. IsFiniteSet({})
  BY FS_EmptySet
<1>2. PICK sum : Sums(f, {}, sum)
  BY <1>1, SumsExist
<1>3. SumFunctionOnSet(f, {}) = sum[{}]
  BY <1>1, <1>2, SumIs
<1> QED BY <1>2, <1>3 DEF Sums

LEMMA SumPicked ==
  ASSUME NEW f, NEW S, IsFiniteSet(S), S # {}
  PROVE  SumFunctionOnSet(f, S) = f[Picked(S)] + SumFunctionOnSet(f, S \ {Picked(S)})
<1>1. PICK sum : Sums(f, S, sum)
  BY SumsExist
<1>2. S \ {Picked(S)} \in SUBSET S /\ S \in SUBSET S
  OBVIOUS
<1>3. SumFunctionOnSet(f, S) = sum[S]
      /\ SumFunctionOnSet(f, S \ {Picked(S)}) = sum[S \ {Picked(S)}]
  BY <1>1, <1>2, SumIs
<1> QED BY <1>1, <1>3 DEF Sums

\* Any element may be the first: with integers nothing depends on the choice.
LEMMA SumElement ==
  ASSUME NEW S, IsFiniteSet(S), NEW f, \A x \in S : f[x] \in Int
  PROVE  /\ SumFunctionOnSet(f, S) \in Int
         /\ \A x \in S : SumFunctionOnSet(f, S) = f[x] + SumFunctionOnSet(f, S \ {x})
<1> DEFINE Sum(T) == SumFunctionOnSet(f, T)
           Good(T) == Sum(T) \in Int /\ \A x \in T : Sum(T) = f[x] + Sum(T \ {x})
           Bad == {n \in Nat : \E T \in SUBSET S : Cardinality(T) = n /\ ~Good(T)}
<1>1. \A T \in SUBSET S : IsFiniteSet(T) /\ Cardinality(T) \in Nat
  BY FS_Subset, FS_CardinalityType
<1>2. Bad = {}
  <2> SUFFICES ASSUME Bad # {}
               PROVE  FALSE
    OBVIOUS
  <2>1. PICK n \in Bad : \A k \in Bad : ~(<<k, n>> \in OpToRel(<, Nat))
    BY WFMin, NatLessThanWellFounded
  <2>2. \A k \in Bad : ~(k < n)
    <3>1. Bad \subseteq Nat
      OBVIOUS
    <3> HIDE DEF Bad
    <3> QED BY <2>1, <3>1 DEF OpToRel
  <2>3. PICK T \in SUBSET S : Cardinality(T) = n /\ ~Good(T)
    BY <2>1
  <2>4. ASSUME NEW U \in SUBSET S, Cardinality(U) < n
        PROVE  Good(U)
    <3> HIDE DEF Good
    <3> QED BY <1>1, <2>2, <2>4
  <2>5. ASSUME NEW x \in T
        PROVE  Good(T \ {x})
    <3>1. Cardinality(T \ {x}) = n - 1 /\ n \in Nat
      BY <1>1, <2>3, FS_RemoveElement
    <3>2. T \ {x} \in SUBSET S /\ Cardinality(T \ {x}) < n
      BY <3>1
    <3> HIDE DEF Good
    <3> QED BY <2>4, <3>2
  <2>6. CASE T = {}
    BY <2>3, <2>6, SumEmpty
  <2>7. CASE T # {}
    <3>1. PICK p : p = Picked(T)
      OBVIOUS
    <3>2. p \in T /\ Sum(T) = f[p] + Sum(T \ {p})
      BY <1>1, <2>7, <3>1, PickedIsElement, SumPicked
    <3>3. Sum(T \ {p}) \in Int /\ f[p] \in Int
      BY <2>5, <3>2
    <3>4. ASSUME NEW x \in T, x # p
          PROVE  Sum(T) = f[x] + Sum(T \ {x})
      <4>1. x \in T \ {p} /\ p \in T \ {x} /\ (T \ {p}) \ {x} = (T \ {x}) \ {p}
        BY <3>2, <3>4
      <4>2. PICK rest : rest = Sum((T \ {p}) \ {x})
        OBVIOUS
      <4>3. Sum(T \ {p}) = f[x] + rest
        BY <2>5, <3>2, <4>1, <4>2
      <4>4. Sum(T \ {x}) = f[p] + rest
        <5>1. Sum(T \ {x}) = f[p] + Sum((T \ {x}) \ {p})
          BY <2>5, <4>1
        <5> QED BY <4>1, <4>2, <5>1
      <4>5. rest \in Int /\ f[x] \in Int
        <5>1. (T \ {p}) \ {x} \in SUBSET S
          OBVIOUS
        <5>2. Cardinality(T \ {p}) = n - 1 /\ n \in Nat /\ IsFiniteSet(T \ {p})
          BY <1>1, <2>3, <3>2, FS_RemoveElement
        <5>3. Cardinality((T \ {p}) \ {x}) = Cardinality(T \ {p}) - 1
          BY <4>1, <5>2, FS_RemoveElement
        <5>4. Cardinality((T \ {p}) \ {x}) < n
          BY <5>2, <5>3
        <5> QED BY <2>4, <4>2, <5>1, <5>4
      <4> HIDE DEF Sum
      <4> QED BY <3>2, <3>3, <4>3, <4>4, <4>5
    <3>5. \A x \in T : Sum(T) = f[x] + Sum(T \ {x})
      <4> HIDE DEF Sum
      <4> QED BY <3>2, <3>4
    <3>6. Sum(T) \in Int
      <4> HIDE DEF Sum
      <4> QED BY <3>2, <3>3
    <3>7. Good(T)
      BY <3>5, <3>6
    <3> QED BY <2>3, <3>7
  <2> QED BY <2>6, <2>7
<1>3. S \in SUBSET S /\ Cardinality(S) \in Nat
  BY <1>1
<1> QED BY <1>2, <1>3

LEMMA SumIsInt ==
  ASSUME NEW S, IsFiniteSet(S), NEW f, \A x \in S : f[x] \in Int
  PROVE  SumFunctionOnSet(f, S) \in Int
BY SumElement

LEMMA SumFirst ==
  ASSUME NEW S, IsFiniteSet(S), NEW f, \A y \in S : f[y] \in Int, NEW x \in S
  PROVE  SumFunctionOnSet(f, S) = f[x] + SumFunctionOnSet(f, S \ {x})
BY SumElement

\* An element more.
LEMMA SumMore ==
  ASSUME NEW T, IsFiniteSet(T), NEW x, x \notin T, NEW f, \A y \in T \cup {x} : f[y] \in Int
  PROVE  /\ SumFunctionOnSet(f, T) \in Int
         /\ SumFunctionOnSet(f, T \cup {x}) = f[x] + SumFunctionOnSet(f, T)
<1>1. IsFiniteSet(T \cup {x})
  BY FS_AddElement
<1>2. x \in T \cup {x} /\ (T \cup {x}) \ {x} = T
  OBVIOUS
<1>3. SumFunctionOnSet(f, T \cup {x}) = f[x] + SumFunctionOnSet(f, (T \cup {x}) \ {x})
  BY <1>1, <1>2, SumElement
<1>4. SumFunctionOnSet(f, T) \in Int
  BY SumElement
<1> QED BY <1>2, <1>3, <1>4

\* A sum of sums.
LEMMA SumOfSums ==
  ASSUME NEW S, IsFiniteSet(S), NEW f, NEW g, NEW h,
         \A x \in S : f[x] \in Int /\ g[x] \in Int /\ h[x] = f[x] + g[x]
  PROVE  SumFunctionOnSet(h, S) = SumFunctionOnSet(f, S) + SumFunctionOnSet(g, S)
<1> DEFINE Equal(T) == SumFunctionOnSet(h, T) = SumFunctionOnSet(f, T) + SumFunctionOnSet(g, T)
           Good == {T \in SUBSET S : Equal(T)}
<1>1. {} \in Good
  BY SumEmpty
<1>2. ASSUME NEW T \in SUBSET S, NEW x \in S \ T, T \in Good
      PROVE  T \cup {x} \in Good
  <2>1. IsFiniteSet(T) /\ x \notin T
    BY FS_Subset
  <2>2. \A y \in T \cup {x} : f[y] \in Int /\ g[y] \in Int /\ h[y] \in Int
    OBVIOUS
  <2>3. /\ SumFunctionOnSet(f, T) \in Int /\ SumFunctionOnSet(g, T) \in Int
        /\ SumFunctionOnSet(f, T \cup {x}) = f[x] + SumFunctionOnSet(f, T)
        /\ SumFunctionOnSet(g, T \cup {x}) = g[x] + SumFunctionOnSet(g, T)
        /\ SumFunctionOnSet(h, T \cup {x}) = h[x] + SumFunctionOnSet(h, T)
    BY <2>1, <2>2, SumMore
  <2>4. Equal(T) /\ h[x] = f[x] + g[x] /\ f[x] \in Int /\ g[x] \in Int
    BY <1>2
  <2>5. Equal(T \cup {x})
    BY <2>3, <2>4
  <2> QED BY <2>5
<1>3. S \in Good
  <2> HIDE DEF Good
  <2> QED BY <1>1, <1>2, FiniteSetInduction
<1> QED BY <1>3

\* Greater terms give a sum no less.
LEMMA SumAtMost ==
  ASSUME NEW S, IsFiniteSet(S), NEW f, NEW g,
         \A x \in S : f[x] \in Int /\ g[x] \in Int /\ f[x] =< g[x]
  PROVE  SumFunctionOnSet(f, S) =< SumFunctionOnSet(g, S)
<1> DEFINE NotMore(T) == SumFunctionOnSet(f, T) =< SumFunctionOnSet(g, T)
           Good == {T \in SUBSET S : NotMore(T)}
<1>1. {} \in Good
  BY SumEmpty
<1>2. ASSUME NEW T \in SUBSET S, NEW x \in S \ T, T \in Good
      PROVE  T \cup {x} \in Good
  <2>1. IsFiniteSet(T) /\ x \notin T
    BY FS_Subset
  <2>2. \A y \in T \cup {x} : f[y] \in Int /\ g[y] \in Int
    OBVIOUS
  <2>3. /\ SumFunctionOnSet(f, T) \in Int /\ SumFunctionOnSet(g, T) \in Int
        /\ SumFunctionOnSet(f, T \cup {x}) = f[x] + SumFunctionOnSet(f, T)
        /\ SumFunctionOnSet(g, T \cup {x}) = g[x] + SumFunctionOnSet(g, T)
    BY <2>1, <2>2, SumMore
  <2>4. NotMore(T) /\ f[x] =< g[x] /\ f[x] \in Int /\ g[x] \in Int
    BY <1>2
  <2>5. NotMore(T \cup {x})
    BY <2>3, <2>4
  <2> QED BY <2>5
<1>3. S \in Good
  <2> HIDE DEF Good
  <2> QED BY <1>1, <1>2, FiniteSetInduction
<1> QED BY <1>3

\* Only the terms matter.
LEMMA SumSame ==
  ASSUME NEW S, IsFiniteSet(S), NEW f, NEW g, \A x \in S : f[x] \in Int /\ f[x] = g[x]
  PROVE  SumFunctionOnSet(f, S) = SumFunctionOnSet(g, S)
<1>1. \A x \in S : g[x] \in Int /\ f[x] =< g[x] /\ g[x] =< f[x]
  OBVIOUS
<1>2. SumFunctionOnSet(f, S) \in Int /\ SumFunctionOnSet(g, S) \in Int
  BY <1>1, SumElement
<1>3. SumFunctionOnSet(f, S) =< SumFunctionOnSet(g, S)
  BY <1>1, SumAtMost
<1>4. SumFunctionOnSet(g, S) =< SumFunctionOnSet(f, S)
  BY <1>1, SumAtMost
<1> QED BY <1>2, <1>3, <1>4

\* Terms of 0 may be left out.
LEMMA SumZeros ==
  ASSUME NEW S, IsFiniteSet(S), NEW R \in SUBSET S, NEW f, \A x \in S : f[x] \in Int,
         \A x \in S \ R : f[x] = 0
  PROVE  SumFunctionOnSet(f, S) = SumFunctionOnSet(f, R)
<1> DEFINE Equal(T) == SumFunctionOnSet(f, T \cup R) = SumFunctionOnSet(f, R)
           Good == {T \in SUBSET S : Equal(T)}
<1>1. {} \in Good
  <2>1. {} \cup R = R
    OBVIOUS
  <2> QED BY <2>1
<1>2. ASSUME NEW T \in SUBSET S, NEW x \in S \ T, T \in Good
      PROVE  T \cup {x} \in Good
  <2>1. CASE x \in R
    <3>1. (T \cup {x}) \cup R = T \cup R
      BY <2>1
    <3> QED BY <1>2, <3>1
  <2>2. CASE x \notin R
    <3>1. (T \cup {x}) \cup R = (T \cup R) \cup {x} /\ x \notin T \cup R
      BY <1>2, <2>2
    <3>2. IsFiniteSet(T \cup R) /\ \A y \in (T \cup R) \cup {x} : f[y] \in Int
      BY FS_Subset
    <3>3. /\ SumFunctionOnSet(f, T \cup R) \in Int
          /\ SumFunctionOnSet(f, (T \cup R) \cup {x}) = f[x] + SumFunctionOnSet(f, T \cup R)
      BY <3>1, <3>2, SumMore
    <3>4. f[x] = 0
      BY <2>2
    <3>5. Equal(T)
      BY <1>2
    <3>6. SumFunctionOnSet(f, (T \cup R) \cup {x}) = SumFunctionOnSet(f, T \cup R)
      BY <3>3, <3>4
    <3>7. Equal(T \cup {x})
      BY <3>1, <3>5, <3>6
    <3> QED BY <3>7
  <2> QED BY <2>1, <2>2
<1>3. S \in Good
  <2> HIDE DEF Good
  <2> QED BY <1>1, <1>2, FiniteSetInduction
<1>4. S \cup R = S
  OBVIOUS
<1> QED BY <1>3, <1>4

\* The order does not matter either.
LEMMA SumPermuted ==
  ASSUME NEW S, IsFiniteSet(S), NEW R, NEW to, \A x \in S : to[x] \in R,
         \A y \in R : \E x \in S : to[x] = y, \A x, y \in S : to[x] = to[y] => x = y,
         NEW f, NEW g, \A x \in S : g[to[x]] \in Int /\ f[x] = g[to[x]]
  PROVE  SumFunctionOnSet(f, S) = SumFunctionOnSet(g, R)
<1> DEFINE Image(T) == {to[x] : x \in T}
           Equal(T) == SumFunctionOnSet(f, T) = SumFunctionOnSet(g, Image(T))
           Good == {T \in SUBSET S : IsFiniteSet(Image(T)) /\ Equal(T)}
<1>1. {} \in Good
  <2>1. Image({}) = {}
    OBVIOUS
  <2> QED BY <2>1, SumEmpty, FS_EmptySet
<1>2. ASSUME NEW T \in SUBSET S, NEW x \in S \ T, T \in Good
      PROVE  T \cup {x} \in Good
  <2>1. IsFiniteSet(T) /\ x \notin T
    BY FS_Subset
  <2>2. IsFiniteSet(Image(T))
    BY <1>2
  <2>3. to[x] \notin Image(T) /\ Image(T \cup {x}) = Image(T) \cup {to[x]}
    BY <1>2
  <2>4. SumFunctionOnSet(f, T \cup {x}) = f[x] + SumFunctionOnSet(f, T)
    <3>1. \A y \in T \cup {x} : f[y] \in Int
      OBVIOUS
    <3> QED BY <2>1, <3>1, SumMore
  <2>5. SumFunctionOnSet(g, Image(T) \cup {to[x]}) = g[to[x]] + SumFunctionOnSet(g, Image(T))
    <3>1. \A y \in Image(T) \cup {to[x]} : g[y] \in Int
      BY <1>2
    <3> HIDE DEF Image
    <3> QED BY <2>2, <2>3, <3>1, SumMore
  <2>6. Equal(T) /\ f[x] = g[to[x]]
    BY <1>2
  <2>7. Equal(T \cup {x})
    <3> HIDE DEF Image
    <3> QED BY <2>3, <2>4, <2>5, <2>6
  <2>8. IsFiniteSet(Image(T \cup {x}))
    <3>1. IsFiniteSet(Image(T) \cup {to[x]})
      <4> HIDE DEF Image
      <4> QED BY <2>2, FS_AddElement
    <3> HIDE DEF Image
    <3> QED BY <2>3, <3>1
  <2> QED BY <2>7, <2>8
<1>3. S \in Good
  <2> HIDE DEF Good
  <2> QED BY <1>1, <1>2, FiniteSetInduction
<1>4. Image(S) = R
  OBVIOUS
<1> QED BY <1>3, <1>4

\* What a bijection picks of all values is all of them.
LEMMA SumOfBijection ==
  ASSUME NEW S, IsFiniteSet(S), NEW to \in Bijection(S, S), NEW g \in [S -> Int],
         NEW f, f = [x \in S |-> g[to[x]]]
  PROVE  SumFunctionOnSet(f, S) = SumFunctionOnSet(g, S)
<1>1. /\ to \in [S -> S] /\ \A x, y \in S : to[x] = to[y] => x = y
      /\ \A y \in S : \E x \in S : to[x] = y
  BY Fun_BijectionProperties
<1>2. \A x \in S : to[x] \in S
  BY <1>1
<1>3. \A x \in S : g[to[x]] \in Int /\ f[x] = g[to[x]]
  BY <1>2
<1> QED BY <1>1, <1>2, <1>3, SumPermuted
\* A sum of natural numbers is one, and no less than any of them.
LEMMA SumNotNegative ==
  ASSUME NEW S, IsFiniteSet(S), NEW f, \A x \in S : f[x] \in Nat
  PROVE  /\ SumFunctionOnSet(f, S) \in Nat
         /\ \A x \in S : f[x] =< SumFunctionOnSet(f, S)
<1> DEFINE zero == [x \in S |-> 0]
<1>1. ASSUME NEW T \in SUBSET S
      PROVE  SumFunctionOnSet(f, T) \in Nat
  <2>1. IsFiniteSet(T) /\ \A x \in T : f[x] \in Int /\ zero[x] \in Int /\ zero[x] =< f[x]
    BY FS_Subset
  <2>2. SumFunctionOnSet(zero, T) = SumFunctionOnSet(zero, {})
    <3>1. {} \in SUBSET T /\ \A x \in T : zero[x] = 0
      OBVIOUS
    <3> HIDE DEF zero
    <3> QED BY <2>1, <3>1, SumZeros
  <2>3. SumFunctionOnSet(f, T) \in Int
    BY <2>1, SumIsInt
  <2>4. SumFunctionOnSet(zero, T) =< SumFunctionOnSet(f, T)
    <3> HIDE DEF zero
    <3> QED BY <2>1, SumAtMost
  <2>5. SumFunctionOnSet(zero, {}) = 0
    BY SumEmpty
  <2> HIDE DEF zero
  <2> QED BY <2>2, <2>3, <2>4, <2>5
<1>2. ASSUME NEW x \in S
      PROVE  f[x] =< SumFunctionOnSet(f, S)
  <2>1. \A y \in S : f[y] \in Int
    OBVIOUS
  <2>2. SumFunctionOnSet(f, S) = f[x] + SumFunctionOnSet(f, S \ {x})
    BY <2>1, SumFirst
  <2>3. SumFunctionOnSet(f, S \ {x}) \in Nat
    BY <1>1
  <2> QED BY <2>2, <2>3
<1> QED BY <1>1, <1>2

-----------------------------------------------------------------------------
(* Sums of golden numbers *)

\* sum is what the recursion of FoldFunction says on the sets of at most n
\* elements, and gives numbers.
PlusUpTo(f, S, n, sum) ==
  LET Small == {T \in SUBSET S : Cardinality(T) =< n}
  IN  /\ sum = [T \in Small |-> IF T = {} THEN Whole(0)
                                ELSE Plus(f[Picked(T)], sum[T \ {Picked(T)}])]
      /\ \A T \in Small : sum[T] \in Numbers

LEMMA PlusUpToNext ==
  ASSUME NEW f, NEW S, IsFiniteSet(S), \A x \in S : f[x] \in Numbers,
         NEW n \in Nat, NEW sum, PlusUpTo(f, S, n, sum)
  PROVE  \E next : PlusUpTo(f, S, n + 1, next)
<1> DEFINE Small == {T \in SUBSET S : Cardinality(T) =< n}
           Larger == {T \in SUBSET S : Cardinality(T) =< n + 1}
           next == [T \in Larger |-> IF T = {} THEN Whole(0)
                                     ELSE Plus(f[Picked(T)], sum[T \ {Picked(T)}])]
<1>1. \A T \in SUBSET S : IsFiniteSet(T) /\ Cardinality(T) \in Nat
  BY FS_Subset, FS_CardinalityType
<1>2. ASSUME NEW T \in Larger, T # {}
      PROVE  next[T \ {Picked(T)}] = sum[T \ {Picked(T)}] /\ next[T] \in Numbers
  <2> DEFINE U == T \ {Picked(T)}
  <2>1. Cardinality(U) = Cardinality(T) - 1
    BY <1>1, <1>2, PickedIsElement, FS_RemoveElement
  <2>2. U \in SUBSET S /\ Cardinality(T) =< n + 1 /\ Cardinality(T) \in Nat
    BY <1>1, <1>2
  <2>3. U \in Small /\ U \in Larger
    BY <2>1, <2>2
  <2>4. next[T] = Plus(f[Picked(T)], sum[U])
    BY <1>2
  <2>5. Picked(T) \in S
    BY <1>2, PickedIsElement
  <2> HIDE DEF U, Small, Larger
  <2>6. sum[U] = IF U = {} THEN Whole(0) ELSE Plus(f[Picked(U)], sum[U \ {Picked(U)}])
    BY <2>3 DEF PlusUpTo, Small
  <2>7. next[U] = IF U = {} THEN Whole(0) ELSE Plus(f[Picked(U)], sum[U \ {Picked(U)}])
    BY <2>3
  <2>8. sum[U] \in Numbers
    BY <2>3 DEF PlusUpTo, Small
  <2>9. next[T] \in Numbers
    BY <2>4, <2>5, <2>8, PlusIsNumber
  <2> QED BY <2>6, <2>7, <2>9 DEF U
<1>3. next = [T \in Larger |-> IF T = {} THEN Whole(0)
                               ELSE Plus(f[Picked(T)], next[T \ {Picked(T)}])]
  <2> DEFINE again == [T \in Larger |-> IF T = {} THEN Whole(0)
                                        ELSE Plus(f[Picked(T)], next[T \ {Picked(T)}])]
  <2>1. \A T \in Larger : next[T] = again[T]
    <3> SUFFICES ASSUME NEW T \in Larger
                 PROVE  next[T] = again[T]
      OBVIOUS
    <3>1. CASE T = {}
      BY <3>1
    <3>2. CASE T # {}
      <4>1. next[T] = Plus(f[Picked(T)], sum[T \ {Picked(T)}])
        BY <3>2
      <4>2. again[T] = Plus(f[Picked(T)], next[T \ {Picked(T)}])
        BY <3>2
      <4> QED BY <1>2, <3>2, <4>1, <4>2
    <3> QED BY <3>1, <3>2
  <2> HIDE DEF Larger
  <2> QED BY <2>1
<1>4. \A T \in Larger : next[T] \in Numbers
  <2> SUFFICES ASSUME NEW T \in Larger
               PROVE  next[T] \in Numbers
    OBVIOUS
  <2>1. CASE T = {}
    BY <2>1, WholeIsNumber
  <2>2. CASE T # {}
    BY <1>2, <2>2
  <2> QED BY <2>1, <2>2
<1> HIDE DEF next
<1>5. PlusUpTo(f, S, n + 1, next)
  BY <1>3, <1>4 DEF PlusUpTo
<1> QED BY <1>5

LEMMA PlusExists ==
  ASSUME NEW f, NEW S, IsFiniteSet(S), \A x \in S : f[x] \in Numbers
  PROVE  \E sum : PlusUpTo(f, S, Cardinality(S), sum)
<1> DEFINE Without == {n \in Nat : ~ \E sum : PlusUpTo(f, S, n, sum)}
<1>1. \A T \in SUBSET S : Cardinality(T) \in Nat /\ (Cardinality(T) = 0 <=> T = {})
  BY FS_Subset, FS_CardinalityType, FS_EmptySet
<1>2. 0 \notin Without
  <2>1. {T \in SUBSET S : Cardinality(T) =< 0} = {{}}
    BY <1>1
  <2>2. PlusUpTo(f, S, 0, [T \in {{}} |-> Whole(0)])
    BY <2>1, WholeIsNumber DEF PlusUpTo
  <2> QED BY <2>2
<1>3. Without = {}
  <2> SUFFICES ASSUME Without # {}
               PROVE  FALSE
    OBVIOUS
  <2>1. PICK n \in Without : \A m \in Without : ~(<<m, n>> \in OpToRel(<, Nat))
    BY WFMin, NatLessThanWellFounded
  <2>2. \A m \in Without : ~(m < n)
    <3>1. Without \subseteq Nat
      OBVIOUS
    <3> HIDE DEF Without
    <3> QED BY <2>1, <3>1 DEF OpToRel
  <2>3. n \in Nat /\ n # 0
    BY <1>2
  <2>4. n - 1 \in Nat /\ n - 1 \notin Without /\ (n - 1) + 1 = n
    <3> HIDE DEF Without
    <3> QED BY <2>2, <2>3
  <2>5. PICK sum : PlusUpTo(f, S, n - 1, sum)
    BY <2>4
  <2>6. \E next : PlusUpTo(f, S, (n - 1) + 1, next)
    BY <2>4, <2>5, PlusUpToNext
  <2> QED BY <2>1, <2>4, <2>6
<1>4. Cardinality(S) \in Nat
  BY <1>1
<1> QED BY <1>3, <1>4

\* A sum of numbers is a number.
LEMMA FoldPlusIsNumber ==
  ASSUME NEW f, IsFiniteSet(DOMAIN f), \A x \in DOMAIN f : f[x] \in Numbers
  PROVE  FoldFunction(Plus, Whole(0), f) \in Numbers
<1> DEFINE S == DOMAIN f
           Is(sum) == sum = [T \in SUBSET S |-> IF T = {} THEN Whole(0)
                                                ELSE Plus(f[Picked(T)], sum[T \ {Picked(T)}])]
           own == CHOOSE sum : Is(sum)
<1>1. FoldFunction(Plus, Whole(0), f) = own[S]
  BY DEF FoldFunction, FoldFunctionOnSet, MapThenFoldSet, Picked
<1>2. Is(own)
  <2>1. PICK sum : PlusUpTo(f, S, Cardinality(S), sum)
    BY PlusExists
  <2>2. {T \in SUBSET S : Cardinality(T) =< Cardinality(S)} = SUBSET S
    BY FS_Subset, FS_CardinalityType
  <2>3. Is(sum)
    BY <2>1, <2>2 DEF PlusUpTo
  <2> HIDE DEF Is
  <2> QED BY <2>3
<1> HIDE DEF own
<1> DEFINE Good == {T \in SUBSET S : own[T] \in Numbers}
<1>3. S \in Good
  <2>1. {} \in Good
    BY <1>2, WholeIsNumber
  <2>2. ASSUME NEW T \in SUBSET S, T # {}, T \ {Picked(T)} \in Good
        PROVE  T \in Good
    <3>1. own[T] = Plus(f[Picked(T)], own[T \ {Picked(T)}])
      BY <1>2, <2>2
    <3>2. f[Picked(T)] \in Numbers
      BY <2>2, PickedIsElement
    <3> QED BY <2>2, <3>1, <3>2, PlusIsNumber
  <2> HIDE DEF Good, Is
  <2> DEFINE Sizes == {Cardinality(T) : T \in (SUBSET S) \ Good}
  <2>3. Sizes \subseteq Nat
    BY FS_Subset, FS_CardinalityType
  <2>4. ASSUME Sizes # {}
        PROVE  FALSE
    <3>1. PICK size \in Sizes : \A n \in Sizes : ~(<<n, size>> \in OpToRel(<, Nat))
      <4> HIDE DEF Sizes
      <4> QED BY <2>3, <2>4, WFMin, NatLessThanWellFounded
    <3>2. \A n \in Sizes : ~(n < size)
      <4> HIDE DEF Sizes
      <4> QED BY <2>3, <3>1 DEF OpToRel
    <3>3. PICK T \in (SUBSET S) \ Good : Cardinality(T) = size
      OBVIOUS
    <3>4. T # {}
      BY <2>1, <3>3
    <3>5. Cardinality(T \ {Picked(T)}) < Cardinality(T) /\ T \ {Picked(T)} \in SUBSET S
      <4>1. IsFiniteSet(T) /\ Cardinality(T) \in Nat
        BY <3>3, FS_Subset, FS_CardinalityType
      <4>2. Cardinality(T \ {Picked(T)}) = Cardinality(T) - 1
        BY <3>4, <4>1, PickedIsElement, FS_RemoveElement
      <4> QED BY <4>1, <4>2
    <3>6. T \ {Picked(T)} \notin Good
      BY <2>2, <3>3, <3>4
    <3>7. Cardinality(T \ {Picked(T)}) \in Sizes
      BY <3>5, <3>6
    <3> QED BY <3>2, <3>3, <3>5, <3>7
  <2> QED BY <2>4
<1> QED BY <1>1, <1>3
-----------------------------------------------------------------------------
(* Lowest terms *)

\* The greatest common divisor is made up of the two.
Combined(m, n) == \E u, v \in Int : gcd[<<m, n>>] = u * m + v * n

LEMMA GcdCombines ==
  ASSUME NEW a \in Nat, NEW b \in Nat
  PROVE  Combined(a, b)
<1> DEFINE Wrong == {n \in Nat : \E m \in Nat : ~Combined(m, n)}
<1>1. Wrong = {}
  <2> SUFFICES ASSUME Wrong # {}
               PROVE  FALSE
    OBVIOUS
  <2>1. PICK n \in Wrong : \A x \in Wrong : n =< x
    <3>1. Wrong \in SUBSET Nat
      OBVIOUS
    <3> HIDE DEF Wrong
    <3> QED BY <3>1, Smallest
  <2>2. PICK m \in Nat : ~Combined(m, n)
    OBVIOUS
  <2>3. CASE n = 0
    <3>1. gcd[<<m, n>>] = m
      BY <2>3, GcdStep
    <3>2. m = 1 * m + 0 * n
      BY <2>3
    <3> QED BY <2>2, <3>1, <3>2 DEF Combined
  <2>4. CASE n # 0
    <3>1. PICK r \in Nat, q \in Int : r = m % n /\ r < n /\ m = n * q + r
      <4>1. m % n \in Nat /\ m % n < n /\ m \div n \in Int /\ m = n * (m \div n) + (m % n)
        BY <2>4
      <4> QED BY <4>1
    <3>2. gcd[<<m, n>>] = gcd[<<n, r>>]
      BY <2>4, <3>1, GcdStep
    <3>3. Combined(n, r)
      <4>1. r \notin Wrong
        <5>1. n \in Nat
          OBVIOUS
        <5> HIDE DEF Wrong
        <5> QED BY <2>1, <3>1, <5>1
      <4> QED BY <4>1
    <3>4. PICK u \in Int, v \in Int : gcd[<<n, r>>] = u * n + v * r
      BY <3>3 DEF Combined
    <3>5. u * n + v * r = v * m + (u - v * q) * n
      BY <3>1
    <3>6. u - v * q \in Int
      OBVIOUS
    <3> QED BY <2>2, <3>2, <3>4, <3>5, <3>6 DEF Combined
  <2> QED BY <2>3, <2>4
<1>2. b \notin Wrong
  BY <1>1
<1> QED BY <1>2

\* In lowest terms: the three make up 1.
MakeOne(x, u, v, w) == u * x[1] + v * x[2] + w * x[3] = 1
Reduced == {x \in Numbers : \E u, v, w \in Int : MakeOne(x, u, v, w)}

LEMMA NumberIsReduced ==
  ASSUME NEW a \in Int, NEW b \in Int, NEW d \in Nat \ {0}
  PROVE  Number(a, b, d) \in Reduced
<1> DEFINE h == gcd[<<Magnitude(a), Magnitude(b)>>]
           g == Common(a, b, d)
<1>1. /\ Magnitude(a) \in Nat /\ Magnitude(b) \in Nat /\ Magnitude(d) = d
      /\ h \in Nat /\ g \in Nat \ {0}
  BY CommonDivides DEF Magnitude
<1>2. PICK u \in Int, v \in Int : h = u * Magnitude(a) + v * Magnitude(b)
  BY <1>1, GcdCombines DEF Combined
<1> HIDE DEF h
<1>4. PICK s \in Int, w \in Int : g = s * h + w * d
  <2>1. Combined(h, d)
    BY <1>1, GcdCombines
  <2>2. g = gcd[<<h, d>>]
    BY <1>1 DEF Common, h
  <2> QED BY <2>1, <2>2 DEF Combined
<1>6. PICK A \in Int, B \in Int : g = A * a + B * b + w * d
  <2>1. PICK i \in {-1, 1}, j \in {-1, 1} : Magnitude(a) = i * a /\ Magnitude(b) = j * b
    BY DEF Magnitude
  <2>2. PICK m \in Int, n \in Int : m = i * a /\ n = j * b
    OBVIOUS
  <2>3. h = u * m + v * n
    BY <1>2, <2>1, <2>2
  <2>4. g = (s * u) * m + (s * v) * n + w * d
    BY <1>4, <2>3
  <2>5. CASE i = 1 /\ j = 1
    <3>1. m = a /\ n = b
      BY <2>2, <2>5
    <3>2. s * u \in Int /\ s * v \in Int
      OBVIOUS
    <3> HIDE DEF g
    <3> QED BY <2>4, <3>1, <3>2
  <2>6. CASE i = 1 /\ j = -1
    <3>1. m = a /\ n = -b
      BY <2>2, <2>6
    <3>2. g = (s * u) * a + (-(s * v)) * b + w * d
      BY <2>4, <3>1
    <3>3. s * u \in Int /\ -(s * v) \in Int
      OBVIOUS
    <3> HIDE DEF g
    <3> QED BY <3>2, <3>3
  <2>7. CASE i = -1 /\ j = 1
    <3>1. m = -a /\ n = b
      BY <2>2, <2>7
    <3>2. g = (-(s * u)) * a + (s * v) * b + w * d
      BY <2>4, <3>1
    <3>3. -(s * u) \in Int /\ s * v \in Int
      OBVIOUS
    <3> HIDE DEF g
    <3> QED BY <3>2, <3>3
  <2>8. CASE i = -1 /\ j = -1
    <3>1. m = -a /\ n = -b
      BY <2>2, <2>8
    <3>2. g = (-(s * u)) * a + (-(s * v)) * b + w * d
      BY <2>4, <3>1
    <3>3. -(s * u) \in Int /\ -(s * v) \in Int
      OBVIOUS
    <3> HIDE DEF g
    <3> QED BY <3>2, <3>3
  <2> QED BY <2>5, <2>6, <2>7, <2>8
<1>7. PICK x : x = Number(a, b, d)
  OBVIOUS
<1>8. x = <<a \div g, b \div g, d \div g>>
  BY <1>1, <1>7 DEF Number, Common
<1>9. x \in Numbers
  BY <1>7, NumberIs
<1>5. d \in Int \ {0}
  OBVIOUS
<1>3. PICK p \in Int, q \in Int, r \in Int : Quotient(g, a, p) /\ Quotient(g, b, q) /\ Quotient(g, d, r)
  BY <1>5, CommonDivides, Zenon
<1>10. /\ a = g * p /\ a \div g = p
       /\ b = g * q /\ b \div g = q
       /\ d = g * r /\ d \div g = r
  BY <1>3 DEF Quotient
<1> HIDE DEF g
<1>11. x[1] = p /\ x[2] = q /\ x[3] = r
  BY <1>8, <1>10
<1>12. A * p + B * q + w * r = 1
  <2>1. PICK t \in Int : t = A * p + B * q + w * r
    OBVIOUS
  <2>2. g * t = A * (g * p) + B * (g * q) + w * (g * r)
    BY <1>1, <2>1
  <2>3. g * t = g
    BY <1>6, <1>10, <2>2
  <2>4. t = 1
    BY <1>1, <2>3
  <2> QED BY <2>1, <2>4
<1>13. MakeOne(x, A, B, w)
  BY <1>11, <1>12 DEF MakeOne
<1> QED BY <1>7, <1>9, <1>13 DEF Reduced

\* The same value.
Same(x, y) == x[1] * y[3] = y[1] * x[3] /\ x[2] * y[3] = y[2] * x[3]

\* What a factor of both sides leaves.
LEMMA Cancel ==
  ASSUME NEW a \in Int, NEW b \in Int, NEW g \in Int, g # 0, g * a = g * b
  PROVE  a = b
<1>1. g * (a - b) = 0
  OBVIOUS
<1>2. a - b = 0
  <2>1. PICK c \in Int : c = a - b
    OBVIOUS
  <2>2. g * c = 0
    BY <1>1, <2>1
  <2> QED BY <2>1, <2>2
<1> QED BY <1>2

LEMMA SameTransitive ==
  ASSUME NEW x \in Numbers, NEW y \in Numbers, NEW z \in Numbers, Same(x, y), Same(y, z)
  PROVE  Same(x, z)
<1>1. PICK x1 \in Int, x2 \in Int, x3 \in Nat \ {0} : x1 = x[1] /\ x2 = x[2] /\ x3 = x[3]
  BY NumberParts
<1>2. PICK y1 \in Int, y2 \in Int, y3 \in Nat \ {0} : y1 = y[1] /\ y2 = y[2] /\ y3 = y[3]
  BY NumberParts
<1>3. PICK z1 \in Int, z2 \in Int, z3 \in Nat \ {0} : z1 = z[1] /\ z2 = z[2] /\ z3 = z[3]
  BY NumberParts
<1>4. x1 * y3 = y1 * x3 /\ x2 * y3 = y2 * x3 /\ y1 * z3 = z1 * y3 /\ y2 * z3 = z2 * y3
  BY <1>1, <1>2, <1>3 DEF Same
<1>5. /\ y3 * (x1 * z3) = (x1 * y3) * z3 /\ y3 * (z1 * x3) = (z1 * y3) * x3
      /\ y3 * (x2 * z3) = (x2 * y3) * z3 /\ y3 * (z2 * x3) = (z2 * y3) * x3
  OBVIOUS
<1>6. /\ (x1 * y3) * z3 = (y1 * z3) * x3
      /\ (x2 * y3) * z3 = (y2 * z3) * x3
  BY <1>4
<1>7. y3 * (x1 * z3) = y3 * (z1 * x3) /\ y3 * (x2 * z3) = y3 * (z2 * x3)
  BY <1>4, <1>5, <1>6
<1>8. x1 * z3 \in Int /\ z1 * x3 \in Int /\ x2 * z3 \in Int /\ z2 * x3 \in Int /\ y3 \in Int /\ y3 # 0
  OBVIOUS
<1>9. x1 * z3 = z1 * x3 /\ x2 * z3 = z2 * x3
  BY <1>7, <1>8, Cancel
<1> QED BY <1>1, <1>3, <1>9 DEF Same

LEMMA SameSymmetric ==
  ASSUME NEW x, NEW y, Same(x, y)
  PROVE  Same(y, x)
BY DEF Same

\* In lowest terms one value is one number.
LEMMA SameIsEqual ==
  ASSUME NEW x \in Reduced, NEW y \in Reduced, Same(x, y)
  PROVE  x = y
<1>1. x \in Numbers /\ y \in Numbers
  BY DEF Reduced
<1>2. PICK x1 \in Int, x2 \in Int, x3 \in Nat \ {0} : x = <<x1, x2, x3>>
  BY <1>1 DEF Numbers
<1>3. PICK y1 \in Int, y2 \in Int, y3 \in Nat \ {0} : y = <<y1, y2, y3>>
  BY <1>1 DEF Numbers
<1>4. PICK u \in Int, v \in Int, w \in Int : u * x1 + v * x2 + w * x3 = 1
  BY <1>2 DEF Reduced, MakeOne
<1>5. PICK r \in Int, s \in Int, t \in Int : r * y1 + s * y2 + t * y3 = 1
  BY ZenonT(40), <1>3 DEF Reduced, MakeOne
<1>6. x1 * y3 = y1 * x3 /\ x2 * y3 = y2 * x3
  BY <1>2, <1>3 DEF Same
<1>7. PICK m \in Int, n \in Int : m = u * y1 + v * y2 + w * y3 /\ n = r * x1 + s * x2 + t * x3
  OBVIOUS
<1>8. y3 = x3 * m
  <2>1. x3 * m = u * (y1 * x3) + v * (y2 * x3) + w * x3 * y3
    BY <1>7
  <2>2. x3 * m = u * (x1 * y3) + v * (x2 * y3) + w * x3 * y3
    BY <1>6, <2>1
  <2>3. x3 * m = (u * x1 + v * x2 + w * x3) * y3
    BY <2>2
  <2> QED BY <1>4, <2>3
<1>9. x3 = y3 * n
  <2>1. y3 * n = r * (x1 * y3) + s * (x2 * y3) + t * x3 * y3
    BY <1>7
  <2>2. y3 * n = r * (y1 * x3) + s * (y2 * x3) + t * x3 * y3
    BY <1>6, <2>1
  <2>3. y3 * n = (r * y1 + s * y2 + t * y3) * x3
    BY <2>2
  <2> QED BY <1>5, <2>3
<1>10. x3 = y3
  <2>1. m > 0 /\ n > 0
    BY <1>8, <1>9
  <2>2. y3 >= x3 /\ x3 >= y3
    BY <1>8, <1>9, <2>1
  <2> QED BY <2>2
<1>11. x1 = y1 /\ x2 = y2
  <2>1. x3 * x1 = x3 * y1 /\ x3 * x2 = x3 * y2 /\ x3 \in Int /\ x3 # 0
    BY <1>6, <1>10
  <2> QED BY <2>1, Cancel
<1> QED BY <1>2, <1>3, <1>10, <1>11

\* Number changes no value.
LEMMA NumberSame ==
  ASSUME NEW a \in Int, NEW b \in Int, NEW d \in Nat \ {0}
  PROVE  Same(Number(a, b, d), <<a, b, d>>) /\ <<a, b, d>> \in Numbers
<1>1. PICK x : x = Number(a, b, d)
  OBVIOUS
<1>2. x \in Numbers /\ \E g \in Int \ {0} : a = g * x[1] /\ b = g * x[2] /\ d = g * x[3]
  <2>1. d \in Int \ {0}
    OBVIOUS
  <2>2. Number(a, b, d) \in Numbers /\ \E g \in Int \ {0} :
            /\ a = g * Number(a, b, d)[1] /\ b = g * Number(a, b, d)[2]
            /\ d = g * Number(a, b, d)[3]
            /\ g > 0 <=> d > 0
    BY <2>1, NumberIs, Zenon
  <2> QED BY <1>1, <2>2
<1>3. PICK x1 \in Int, x2 \in Int, x3 \in Nat \ {0} : x1 = x[1] /\ x2 = x[2] /\ x3 = x[3]
  BY <1>2, NumberParts
<1>4. PICK g \in Int \ {0} : a = g * x1 /\ b = g * x2 /\ d = g * x3
  BY <1>2, <1>3
<1>5. x1 * d = a * x3 /\ x2 * d = b * x3
  <2>1. x1 * (g * x3) = (g * x1) * x3 /\ x2 * (g * x3) = (g * x2) * x3
    OBVIOUS
  <2> QED BY <1>4, <2>1
<1>6. <<a, b, d>>[1] = a /\ <<a, b, d>>[2] = b /\ <<a, b, d>>[3] = d
  OBVIOUS
<1>7. <<a, b, d>> \in Numbers
  BY DEF Numbers
<1> QED BY <1>1, <1>3, <1>5, <1>6, <1>7 DEF Same

\* Numbers made of fractions of one value are equal.
LEMMA NumbersEqual ==
  ASSUME NEW a \in Int, NEW b \in Int, NEW d \in Nat \ {0},
         NEW p \in Int, NEW q \in Int, NEW r \in Nat \ {0}, a * r = p * d, b * r = q * d
  PROVE  Number(a, b, d) = Number(p, q, r)
<1>1. PICK f, g : f = <<a, b, d>> /\ g = <<p, q, r>>
  OBVIOUS
<1>2. Same(f, g)
  BY <1>1 DEF Same
<1>3. PICK x, y : x = Number(a, b, d) /\ y = Number(p, q, r)
  OBVIOUS
<1>4. Same(x, f) /\ Same(y, g) /\ f \in Numbers /\ g \in Numbers
  BY <1>1, <1>3, NumberSame
<1>5. x \in Reduced /\ y \in Reduced
  BY <1>3, NumberIsReduced
<1>6. x \in Numbers /\ y \in Numbers
  BY <1>5 DEF Reduced
<1>7. Same(x, g)
  BY <1>2, <1>4, <1>6, SameTransitive
<1>8. Same(g, y)
  BY <1>4, SameSymmetric
<1>9. Same(x, y)
  BY <1>4, <1>6, <1>7, <1>8, SameTransitive
<1> QED BY <1>3, <1>5, <1>9, SameIsEqual

\* The fractions that Plus and Times bring to lowest terms.
Added(x, y) ==
  <<x[1] * y[3] + y[1] * x[3], x[2] * y[3] + y[2] * x[3], x[3] * y[3]>>
Multiplied(x, y) ==
  <<x[1] * y[1] + 5 * x[2] * y[2], x[1] * y[2] + x[2] * y[1], x[3] * y[3]>>

LEMMA RawAre ==
  ASSUME NEW x \in Numbers, NEW y \in Numbers
  PROVE  /\ Added(x, y) \in Numbers /\ Multiplied(x, y) \in Numbers
         /\ Plus(x, y) \in Reduced /\ Times(x, y) \in Reduced
         /\ Same(Plus(x, y), Added(x, y)) /\ Same(Times(x, y), Multiplied(x, y))
<1>1. PICK x1 \in Int, x2 \in Int, x3 \in Nat \ {0} : x1 = x[1] /\ x2 = x[2] /\ x3 = x[3]
  BY NumberParts
<1>2. PICK y1 \in Int, y2 \in Int, y3 \in Nat \ {0} : y1 = y[1] /\ y2 = y[2] /\ y3 = y[3]
  BY NumberParts
<1>3. PICK a \in Int, b \in Int, d \in Nat \ {0} :
        a = x1 * y3 + y1 * x3 /\ b = x2 * y3 + y2 * x3 /\ d = x3 * y3
  <2>1. x1 * y3 + y1 * x3 \in Int /\ x2 * y3 + y2 * x3 \in Int /\ x3 * y3 \in Nat \ {0}
    OBVIOUS
  <2> QED BY <2>1
<1>4. PICK p \in Int, q \in Int : p = x1 * y1 + 5 * x2 * y2 /\ q = x1 * y2 + x2 * y1
  <2>1. x1 * y1 + 5 * x2 * y2 \in Int /\ x1 * y2 + x2 * y1 \in Int
    OBVIOUS
  <2> QED BY <2>1
<1>5. Plus(x, y) = Number(a, b, d) /\ Added(x, y) = <<a, b, d>>
  BY <1>1, <1>2, <1>3 DEF Plus, Added
<1>6. Times(x, y) = Number(p, q, d) /\ Multiplied(x, y) = <<p, q, d>>
  BY <1>1, <1>2, <1>3, <1>4 DEF Times, Multiplied
<1>7. Number(a, b, d) \in Reduced /\ Number(p, q, d) \in Reduced
  BY NumberIsReduced
<1>8. /\ Same(Number(a, b, d), <<a, b, d>>) /\ <<a, b, d>> \in Numbers
      /\ Same(Number(p, q, d), <<p, q, d>>) /\ <<p, q, d>> \in Numbers
  BY NumberSame
<1> QED BY <1>5, <1>6, <1>7, <1>8

LEMMA ReducedIsNumber ==
  ASSUME NEW x \in Reduced
  PROVE  x \in Numbers
BY DEF Reduced

\* Equal values have equal sums and products.
LEMMA SameSum ==
  ASSUME NEW x \in Numbers, NEW y \in Numbers, NEW z \in Numbers, Same(x, y)
  PROVE  Plus(x, z) = Plus(y, z) /\ Times(x, z) = Times(y, z)
<1>1. PICK x1 \in Int, x2 \in Int, x3 \in Nat \ {0} : x1 = x[1] /\ x2 = x[2] /\ x3 = x[3]
  BY NumberParts
<1>2. PICK y1 \in Int, y2 \in Int, y3 \in Nat \ {0} : y1 = y[1] /\ y2 = y[2] /\ y3 = y[3]
  BY NumberParts
<1>3. PICK z1 \in Int, z2 \in Int, z3 \in Nat \ {0} : z1 = z[1] /\ z2 = z[2] /\ z3 = z[3]
  BY NumberParts
<1>4. x1 * y3 = y1 * x3 /\ x2 * y3 = y2 * x3
  BY <1>1, <1>2 DEF Same
<1>5. Plus(x, z) = Plus(y, z)
  <2>1. PICK a \in Int, b \in Int, d \in Nat \ {0} :
          a = x1 * z3 + z1 * x3 /\ b = x2 * z3 + z2 * x3 /\ d = x3 * z3
    <3>1. x1 * z3 + z1 * x3 \in Int /\ x2 * z3 + z2 * x3 \in Int /\ x3 * z3 \in Nat \ {0}
      OBVIOUS
    <3> QED BY <3>1
  <2>2. PICK p \in Int, q \in Int, r \in Nat \ {0} :
          p = y1 * z3 + z1 * y3 /\ q = y2 * z3 + z2 * y3 /\ r = y3 * z3
    <3>1. y1 * z3 + z1 * y3 \in Int /\ y2 * z3 + z2 * y3 \in Int /\ y3 * z3 \in Nat \ {0}
      OBVIOUS
    <3> QED BY <3>1
  <2>3. a * r = p * d
    <3>1. a * r = (x1 * y3) * z3 * z3 + z1 * x3 * y3 * z3
      BY <2>1, <2>2
    <3>2. p * d = (y1 * x3) * z3 * z3 + z1 * x3 * y3 * z3
      BY <2>1, <2>2
    <3> QED BY <1>4, <3>1, <3>2
  <2>4. b * r = q * d
    <3>1. b * r = (x2 * y3) * z3 * z3 + z2 * x3 * y3 * z3
      BY <2>1, <2>2
    <3>2. q * d = (y2 * x3) * z3 * z3 + z2 * x3 * y3 * z3
      BY <2>1, <2>2
    <3> QED BY <1>4, <3>1, <3>2
  <2>5. Plus(x, z) = Number(a, b, d) /\ Plus(y, z) = Number(p, q, r)
    BY <1>1, <1>2, <1>3, <2>1, <2>2 DEF Plus
  <2> QED BY <2>3, <2>4, <2>5, NumbersEqual
<1>6. Times(x, z) = Times(y, z)
  <2>1. PICK a \in Int, b \in Int, d \in Nat \ {0} :
          a = x1 * z1 + 5 * x2 * z2 /\ b = x1 * z2 + x2 * z1 /\ d = x3 * z3
    <3>1. x1 * z1 + 5 * x2 * z2 \in Int /\ x1 * z2 + x2 * z1 \in Int /\ x3 * z3 \in Nat \ {0}
      OBVIOUS
    <3> QED BY <3>1
  <2>2. PICK p \in Int, q \in Int, r \in Nat \ {0} :
          p = y1 * z1 + 5 * y2 * z2 /\ q = y1 * z2 + y2 * z1 /\ r = y3 * z3
    <3>1. y1 * z1 + 5 * y2 * z2 \in Int /\ y1 * z2 + y2 * z1 \in Int /\ y3 * z3 \in Nat \ {0}
      OBVIOUS
    <3> QED BY <3>1
  <2>3. a * r = p * d
    <3>1. a * r = (x1 * y3) * z1 * z3 + 5 * (x2 * y3) * z2 * z3
      BY <2>1, <2>2
    <3>2. p * d = (y1 * x3) * z1 * z3 + 5 * (y2 * x3) * z2 * z3
      BY <2>1, <2>2
    <3> QED BY <1>4, <3>1, <3>2
  <2>4. b * r = q * d
    <3>1. b * r = (x1 * y3) * z2 * z3 + (x2 * y3) * z1 * z3
      BY <2>1, <2>2
    <3>2. q * d = (y1 * x3) * z2 * z3 + (y2 * x3) * z1 * z3
      BY <2>1, <2>2
    <3> QED BY <1>4, <3>1, <3>2
  <2>5. Times(x, z) = Number(a, b, d) /\ Times(y, z) = Number(p, q, r)
    BY <1>1, <1>2, <1>3, <2>1, <2>2 DEF Times
  <2> QED BY <2>3, <2>4, <2>5, NumbersEqual
<1> QED BY <1>5, <1>6

LEMMA Commutes ==
  ASSUME NEW x \in Numbers, NEW y \in Numbers
  PROVE  Plus(x, y) = Plus(y, x) /\ Times(x, y) = Times(y, x)
<1>1. PICK x1 \in Int, x2 \in Int, x3 \in Nat \ {0} : x1 = x[1] /\ x2 = x[2] /\ x3 = x[3]
  BY NumberParts
<1>2. PICK y1 \in Int, y2 \in Int, y3 \in Nat \ {0} : y1 = y[1] /\ y2 = y[2] /\ y3 = y[3]
  BY NumberParts
<1>3. /\ x1 * y3 + y1 * x3 = y1 * x3 + x1 * y3 /\ x2 * y3 + y2 * x3 = y2 * x3 + x2 * y3
      /\ x3 * y3 = y3 * x3
      /\ x1 * y1 + 5 * x2 * y2 = y1 * x1 + 5 * y2 * x2 /\ x1 * y2 + x2 * y1 = y1 * x2 + y2 * x1
  OBVIOUS
<1> QED BY <1>1, <1>2, <1>3 DEF Plus, Times

LEMMA PlusAssociative ==
  ASSUME NEW x \in Numbers, NEW y \in Numbers, NEW z \in Numbers
  PROVE  Plus(Plus(x, y), z) = Plus(x, Plus(y, z))
<1>1. Plus(Plus(x, y), z) = Plus(Added(x, y), z)
  BY RawAre, ReducedIsNumber, SameSum
<1>2. Plus(x, Plus(y, z)) = Plus(Added(y, z), x)
  <2>1. Plus(y, z) \in Numbers /\ Added(y, z) \in Numbers
    BY RawAre, ReducedIsNumber
  <2>2. Plus(x, Plus(y, z)) = Plus(Plus(y, z), x)
    BY <2>1, Commutes
  <2>3. Plus(Plus(y, z), x) = Plus(Added(y, z), x)
    BY <2>1, RawAre, SameSum
  <2> QED BY <2>2, <2>3
<1>3. PICK x1 \in Int, x2 \in Int, x3 \in Nat \ {0} : x1 = x[1] /\ x2 = x[2] /\ x3 = x[3]
  BY NumberParts
<1>4. PICK y1 \in Int, y2 \in Int, y3 \in Nat \ {0} : y1 = y[1] /\ y2 = y[2] /\ y3 = y[3]
  BY NumberParts
<1>5. PICK z1 \in Int, z2 \in Int, z3 \in Nat \ {0} : z1 = z[1] /\ z2 = z[2] /\ z3 = z[3]
  BY NumberParts
<1>6. Plus(Added(x, y), z) = Number((x1 * y3 + y1 * x3) * z3 + z1 * (x3 * y3),
                                   (x2 * y3 + y2 * x3) * z3 + z2 * (x3 * y3),
                                   (x3 * y3) * z3)
  BY <1>3, <1>4, <1>5 DEF Plus, Added
<1>7. Plus(Added(y, z), x) = Number((y1 * z3 + z1 * y3) * x3 + x1 * (y3 * z3),
                                   (y2 * z3 + z2 * y3) * x3 + x2 * (y3 * z3),
                                   (y3 * z3) * x3)
  BY <1>3, <1>4, <1>5 DEF Plus, Added
<1>8. /\ (x1 * y3 + y1 * x3) * z3 + z1 * (x3 * y3) = (y1 * z3 + z1 * y3) * x3 + x1 * (y3 * z3)
      /\ (x2 * y3 + y2 * x3) * z3 + z2 * (x3 * y3) = (y2 * z3 + z2 * y3) * x3 + x2 * (y3 * z3)
      /\ (x3 * y3) * z3 = (y3 * z3) * x3
  OBVIOUS
<1> QED BY <1>1, <1>2, <1>6, <1>7, <1>8

LEMMA TimesAssociative ==
  ASSUME NEW x \in Numbers, NEW y \in Numbers, NEW z \in Numbers
  PROVE  Times(Times(x, y), z) = Times(x, Times(y, z))
<1>1. Times(Times(x, y), z) = Times(Multiplied(x, y), z)
  BY RawAre, ReducedIsNumber, SameSum
<1>2. Times(x, Times(y, z)) = Times(Multiplied(y, z), x)
  <2>1. Times(y, z) \in Numbers /\ Multiplied(y, z) \in Numbers
    BY RawAre, ReducedIsNumber
  <2>2. Times(x, Times(y, z)) = Times(Times(y, z), x)
    BY <2>1, Commutes
  <2>3. Times(Times(y, z), x) = Times(Multiplied(y, z), x)
    BY <2>1, RawAre, SameSum
  <2> QED BY <2>2, <2>3
<1>3. PICK x1 \in Int, x2 \in Int, x3 \in Nat \ {0} : x1 = x[1] /\ x2 = x[2] /\ x3 = x[3]
  BY NumberParts
<1>4. PICK y1 \in Int, y2 \in Int, y3 \in Nat \ {0} : y1 = y[1] /\ y2 = y[2] /\ y3 = y[3]
  BY NumberParts
<1>5. PICK z1 \in Int, z2 \in Int, z3 \in Nat \ {0} : z1 = z[1] /\ z2 = z[2] /\ z3 = z[3]
  BY NumberParts
<1>6. Times(Multiplied(x, y), z)
        = Number((x1 * y1 + 5 * x2 * y2) * z1 + 5 * (x1 * y2 + x2 * y1) * z2,
                 (x1 * y1 + 5 * x2 * y2) * z2 + (x1 * y2 + x2 * y1) * z1,
                 (x3 * y3) * z3)
  BY <1>3, <1>4, <1>5 DEF Times, Multiplied
<1>7. Times(Multiplied(y, z), x)
        = Number((y1 * z1 + 5 * y2 * z2) * x1 + 5 * (y1 * z2 + y2 * z1) * x2,
                 (y1 * z1 + 5 * y2 * z2) * x2 + (y1 * z2 + y2 * z1) * x1,
                 (y3 * z3) * x3)
  BY <1>3, <1>4, <1>5 DEF Times, Multiplied
<1>8. /\ (x1 * y1 + 5 * x2 * y2) * z1 + 5 * (x1 * y2 + x2 * y1) * z2
           = (y1 * z1 + 5 * y2 * z2) * x1 + 5 * (y1 * z2 + y2 * z1) * x2
      /\ (x1 * y1 + 5 * x2 * y2) * z2 + (x1 * y2 + x2 * y1) * z1
           = (y1 * z1 + 5 * y2 * z2) * x2 + (y1 * z2 + y2 * z1) * x1
      /\ (x3 * y3) * z3 = (y3 * z3) * x3
  OBVIOUS
<1> QED BY <1>1, <1>2, <1>6, <1>7, <1>8

LEMMA Distributes ==
  ASSUME NEW x \in Numbers, NEW y \in Numbers, NEW z \in Numbers
  PROVE  Times(Plus(x, y), z) = Plus(Times(x, z), Times(y, z))
<1>1. Times(Plus(x, y), z) = Times(Added(x, y), z)
  BY RawAre, ReducedIsNumber, SameSum
<1>2. Plus(Times(x, z), Times(y, z)) = Plus(Multiplied(x, z), Multiplied(y, z))
  <2>1. Plus(Times(x, z), Times(y, z)) = Plus(Multiplied(x, z), Times(y, z))
    BY RawAre, ReducedIsNumber, SameSum
  <2>2. Plus(Times(y, z), Multiplied(x, z)) = Plus(Multiplied(y, z), Multiplied(x, z))
    BY RawAre, ReducedIsNumber, SameSum
  <2> QED BY <2>1, <2>2, RawAre, ReducedIsNumber, Commutes
<1>3. PICK x1 \in Int, x2 \in Int, x3 \in Nat \ {0} : x1 = x[1] /\ x2 = x[2] /\ x3 = x[3]
  BY NumberParts
<1>4. PICK y1 \in Int, y2 \in Int, y3 \in Nat \ {0} : y1 = y[1] /\ y2 = y[2] /\ y3 = y[3]
  BY NumberParts
<1>5. PICK z1 \in Int, z2 \in Int, z3 \in Nat \ {0} : z1 = z[1] /\ z2 = z[2] /\ z3 = z[3]
  BY NumberParts
<1>6. PICK a \in Int, b \in Int, d \in Nat \ {0} :
        /\ a = (x1 * y3 + y1 * x3) * z1 + 5 * (x2 * y3 + y2 * x3) * z2
        /\ b = (x1 * y3 + y1 * x3) * z2 + (x2 * y3 + y2 * x3) * z1
        /\ d = (x3 * y3) * z3
  <2>1. /\ (x1 * y3 + y1 * x3) * z1 + 5 * (x2 * y3 + y2 * x3) * z2 \in Int
        /\ (x1 * y3 + y1 * x3) * z2 + (x2 * y3 + y2 * x3) * z1 \in Int
        /\ (x3 * y3) * z3 \in Nat \ {0}
    OBVIOUS
  <2> QED BY <2>1
<1>7. PICK p \in Int, q \in Int, r \in Nat \ {0} :
        /\ p = (x1 * z1 + 5 * x2 * z2) * (y3 * z3) + (y1 * z1 + 5 * y2 * z2) * (x3 * z3)
        /\ q = (x1 * z2 + x2 * z1) * (y3 * z3) + (y1 * z2 + y2 * z1) * (x3 * z3)
        /\ r = (x3 * z3) * (y3 * z3)
  <2>1. /\ (x1 * z1 + 5 * x2 * z2) * (y3 * z3) + (y1 * z1 + 5 * y2 * z2) * (x3 * z3) \in Int
        /\ (x1 * z2 + x2 * z1) * (y3 * z3) + (y1 * z2 + y2 * z1) * (x3 * z3) \in Int
        /\ (x3 * z3) * (y3 * z3) \in Nat \ {0}
    OBVIOUS
  <2> QED BY <2>1
<1>8. p = a * z3 /\ q = b * z3 /\ r = d * z3
  BY <1>6, <1>7
<1>9. a * r = p * d /\ b * r = q * d
  BY <1>8
<1>10. Times(Added(x, y), z) = Number(a, b, d)
  BY <1>3, <1>4, <1>5, <1>6 DEF Times, Added
<1>11. Plus(Multiplied(x, z), Multiplied(y, z)) = Number(p, q, r)
  BY <1>3, <1>4, <1>5, <1>7 DEF Plus, Multiplied
<1> QED BY <1>1, <1>2, <1>9, <1>10, <1>11, NumbersEqual

\* Zero and one.
LEMMA Neutral ==
  ASSUME NEW x \in Reduced
  PROVE  Plus(Whole(0), x) = x /\ Plus(x, Whole(0)) = x
         /\ Times(Whole(1), x) = x /\ Times(x, Whole(1)) = x
<1>1. x \in Numbers /\ Whole(0) \in Numbers /\ Whole(1) \in Numbers
  BY ReducedIsNumber, WholeIsNumber
<1>2. PICK x1 \in Int, x2 \in Int, x3 \in Nat \ {0} : x = <<x1, x2, x3>>
  BY <1>1 DEF Numbers
<1>3. Plus(x, Whole(0)) = Number(x1, x2, x3) /\ Times(x, Whole(1)) = Number(x1, x2, x3)
  <2>1. /\ x1 * 1 + 0 * x3 = x1 /\ x2 * 1 + 0 * x3 = x2 /\ x3 * 1 = x3
        /\ x1 * 1 + 5 * x2 * 0 = x1 /\ x1 * 0 + x2 * 1 = x2
    OBVIOUS
  <2> QED BY <1>2, <2>1 DEF Plus, Times, Whole
<1>4. Number(x1, x2, x3) \in Reduced /\ Same(Number(x1, x2, x3), x)
  BY <1>2, NumberIsReduced, NumberSame
<1>5. Number(x1, x2, x3) = x
  BY <1>4, SameIsEqual
<1> QED BY <1>1, <1>3, <1>5, Commutes
-----------------------------------------------------------------------------
(* Differences and quotients *)

Negative(x) == <<-x[1], -x[2], x[3]>>

LEMMA WholeIsReduced ==
  ASSUME NEW n \in Int
  PROVE  Whole(n) \in Reduced
<1>1. Whole(n)[1] = n /\ Whole(n)[2] = 0 /\ Whole(n)[3] = 1
  BY DEF Whole
<1>2. 0 * n + 0 * 0 + 1 * 1 = 1
  OBVIOUS
<1>3. MakeOne(Whole(n), 0, 0, 1)
  BY <1>1, <1>2 DEF MakeOne
<1> QED BY <1>3, WholeIsNumber DEF Reduced

LEMMA NegativeIs ==
  ASSUME NEW x \in Numbers
  PROVE  /\ Negative(x) \in Numbers
         /\ x \in Reduced => Negative(x) \in Reduced
         /\ Negative(Negative(x)) = x
         /\ Plus(x, Negative(x)) = Whole(0) /\ Plus(Negative(x), x) = Whole(0)
<1>1. PICK x1 \in Int, x2 \in Int, x3 \in Nat \ {0} : x = <<x1, x2, x3>>
  BY DEF Numbers
<1>2. Negative(x) = <<-x1, -x2, x3>> /\ -x1 \in Int /\ -x2 \in Int
  BY <1>1 DEF Negative
<1>3. Negative(x) \in Numbers
  BY <1>2 DEF Numbers
<1>4. ASSUME x \in Reduced
      PROVE  Negative(x) \in Reduced
  <2>1. PICK u \in Int, v \in Int, w \in Int : u * x1 + v * x2 + w * x3 = 1
    BY <1>1, <1>4 DEF Reduced, MakeOne
  <2>2. (-u) * (-x1) + (-v) * (-x2) + w * x3 = 1 /\ -u \in Int /\ -v \in Int
    BY <2>1
  <2>3. MakeOne(Negative(x), -u, -v, w)
    BY <1>2, <2>2 DEF MakeOne
  <2> QED BY <1>3, <2>2, <2>3 DEF Reduced
<1>5. Negative(Negative(x)) = x
  BY <1>1, <1>2 DEF Negative
<1>6. Plus(x, Negative(x)) = Whole(0)
  <2>1. PICK d \in Nat \ {0} : d = x3 * x3
    OBVIOUS
  <2>2. x1 * x3 + (-x1) * x3 = 0 /\ x2 * x3 + (-x2) * x3 = 0
    OBVIOUS
  <2>3. Plus(x, Negative(x)) = Number(0, 0, d)
    BY <1>1, <1>2, <2>1, <2>2 DEF Plus
  <2>4. Number(0, 0, d) \in Reduced /\ Same(Number(0, 0, d), <<0, 0, d>>) /\ <<0, 0, d>> \in Numbers
    BY NumberIsReduced, NumberSame
  <2>5. Same(<<0, 0, d>>, Whole(0))
    BY DEF Same, Whole
  <2>6. Same(Number(0, 0, d), Whole(0))
    BY <2>4, <2>5, WholeIsNumber, ReducedIsNumber, SameTransitive
  <2> QED BY <2>3, <2>4, <2>6, WholeIsReduced, SameIsEqual
<1> QED BY <1>3, <1>4, <1>5, <1>6, Commutes

LEMMA MinusIs ==
  ASSUME NEW x, NEW y
  PROVE  Minus(x, y) = Plus(x, Negative(y))
BY DEF Minus, Negative

LEMMA MinusItself ==
  ASSUME NEW x \in Numbers
  PROVE  Minus(x, x) = Whole(0)
BY MinusIs, NegativeIs

\* What is added on both sides does not matter.
LEMMA SumCancel ==
  ASSUME NEW x \in Numbers, NEW y \in Numbers, NEW z \in Numbers
  PROVE  Minus(Plus(x, z), Plus(y, z)) = Minus(x, y)
<1>1. PICK x1 \in Int, x2 \in Int, x3 \in Nat \ {0} : x = <<x1, x2, x3>>
  BY DEF Numbers
<1>2. PICK n \in Numbers : n = Negative(Plus(y, z))
  BY NegativeIs, RawAre, ReducedIsNumber
<1>3. PICK p \in Numbers, q \in Numbers : p = Negative(y) /\ q = Negative(z)
  BY NegativeIs
<1>4. PICK s \in Numbers : s = Plus(y, z)
  BY RawAre, ReducedIsNumber
<1>5. Plus(p, q) \in Reduced /\ Plus(p, q) \in Numbers
  BY RawAre, ReducedIsNumber
<1>6. Plus(s, Plus(p, q)) = Whole(0)
  <2>1. Plus(s, Plus(p, q)) = Plus(y, Plus(z, Plus(p, q)))
    BY <1>4, <1>5, PlusAssociative
  <2>2. Plus(z, Plus(p, q)) = Plus(z, Plus(q, p))
    BY Commutes
  <2>3. Plus(z, Plus(q, p)) = Plus(Plus(z, q), p)
    BY PlusAssociative
  <2>4. Plus(z, q) = Whole(0)
    BY <1>3, NegativeIs
  <2>5. Plus(y, Plus(Whole(0), p)) = Plus(Plus(y, Whole(0)), p)
    BY WholeIsNumber, PlusAssociative
  <2>6. Plus(Plus(y, Whole(0)), p) = Plus(Plus(Whole(0), y), p)
    BY WholeIsNumber, Commutes
  <2>7. Plus(Plus(Whole(0), y), p) = Plus(Whole(0), Plus(y, p))
    BY WholeIsNumber, PlusAssociative
  <2>8. Plus(y, p) = Whole(0)
    BY <1>3, NegativeIs
  <2>9. Plus(Whole(0), Whole(0)) = Whole(0)
    BY WholeIsReduced, Neutral
  <2> QED BY <2>1, <2>2, <2>3, <2>4, <2>5, <2>6, <2>7, <2>8, <2>9
<1>7. n = Plus(p, q)
  <2>1. Plus(y, z) \in Reduced
    BY RawAre
  <2>2. n \in Reduced
    BY <1>2, <2>1, ReducedIsNumber, NegativeIs
  <2>3. Plus(n, Plus(s, Plus(p, q))) = n
    BY <1>6, <2>2, Neutral
  <2>4. Plus(n, Plus(s, Plus(p, q))) = Plus(Plus(n, s), Plus(p, q))
    BY <1>5, PlusAssociative
  <2>5. Plus(n, s) = Whole(0)
    BY <1>2, <1>4, NegativeIs
  <2>6. Plus(Whole(0), Plus(p, q)) = Plus(p, q)
    BY <1>5, Neutral
  <2> QED BY <2>3, <2>4, <2>5, <2>6
<1>8. Minus(Plus(x, z), Plus(y, z)) = Plus(Plus(x, z), Plus(p, q))
  BY <1>2, <1>7, MinusIs
<1>9. Plus(Plus(x, z), Plus(p, q)) = Plus(x, Plus(z, Plus(q, p)))
  BY <1>5, PlusAssociative, Commutes
<1>10. Plus(z, Plus(q, p)) = Plus(Plus(z, q), p)
  BY PlusAssociative
<1>11. Plus(z, q) = Whole(0)
  BY <1>3, NegativeIs
<1>12. Plus(x, Plus(Whole(0), p)) = Plus(Whole(0), Plus(x, p))
  <2>1. Plus(x, Plus(Whole(0), p)) = Plus(Plus(x, Whole(0)), p)
    BY WholeIsNumber, PlusAssociative
  <2>2. Plus(x, Whole(0)) = Plus(Whole(0), x)
    BY WholeIsNumber, Commutes
  <2>3. Plus(Plus(Whole(0), x), p) = Plus(Whole(0), Plus(x, p))
    BY WholeIsNumber, PlusAssociative
  <2> QED BY <2>1, <2>2, <2>3
<1>13. Plus(Whole(0), Plus(x, p)) = Plus(x, p)
  BY RawAre, Neutral
<1>14. Plus(x, p) = Minus(x, y)
  BY <1>3, MinusIs
<1> QED BY <1>8, <1>9, <1>10, <1>11, <1>12, <1>13, <1>14

LEMMA NumberNegative ==
  ASSUME NEW a \in Int, NEW b \in Int, NEW d \in Nat \ {0}
  PROVE  Number(-a, -b, d) = Negative(Number(a, b, d))
<1>1. PICK n \in Reduced, m \in Reduced : n = Number(a, b, d) /\ m = Number(-a, -b, d)
  BY NumberIsReduced
<1>2. Same(n, <<a, b, d>>) /\ Same(m, <<-a, -b, d>>) /\ <<-a, -b, d>> \in Numbers
  BY <1>1, NumberSame
<1>3. n \in Numbers /\ m \in Numbers /\ Negative(n) \in Reduced /\ Negative(n) \in Numbers
  BY ReducedIsNumber, NegativeIs
<1>4. Same(<<-a, -b, d>>, Negative(n))
  <2>1. PICK n1 \in Int, n2 \in Int, n3 \in Nat \ {0} : n = <<n1, n2, n3>>
    BY <1>3 DEF Numbers
  <2>2. n1 * d = a * n3 /\ n2 * d = b * n3
    BY <1>2, <2>1 DEF Same
  <2>3. (-a) * n3 = (-n1) * d /\ (-b) * n3 = (-n2) * d
    BY <2>2
  <2> QED BY <2>1, <2>3 DEF Same, Negative
<1>5. Same(m, Negative(n))
  BY <1>2, <1>3, <1>4, SameTransitive
<1> QED BY <1>1, <1>3, <1>5, SameIsEqual

LEMMA TimesNegative ==
  ASSUME NEW x \in Numbers, NEW y \in Numbers
  PROVE  Times(Negative(x), y) = Negative(Times(x, y))
<1>1. PICK x1 \in Int, x2 \in Int, x3 \in Nat \ {0} : x = <<x1, x2, x3>>
  BY DEF Numbers
<1>2. PICK y1 \in Int, y2 \in Int, y3 \in Nat \ {0} : y = <<y1, y2, y3>>
  BY DEF Numbers
<1>3. PICK a \in Int, b \in Int, d \in Nat \ {0} :
        a = x1 * y1 + 5 * x2 * y2 /\ b = x1 * y2 + x2 * y1 /\ d = x3 * y3
  <2>1. x1 * y1 + 5 * x2 * y2 \in Int /\ x1 * y2 + x2 * y1 \in Int /\ x3 * y3 \in Nat \ {0}
    OBVIOUS
  <2> QED BY <2>1
<1>4. (-x1) * y1 + 5 * (-x2) * y2 = -a /\ (-x1) * y2 + (-x2) * y1 = -b
  BY <1>3
<1>5. Times(x, y) = Number(a, b, d) /\ Times(Negative(x), y) = Number(-a, -b, d)
  BY <1>1, <1>2, <1>3, <1>4 DEF Times, Negative
<1> QED BY <1>5, NumberNegative

LEMMA NegativeMinus ==
  ASSUME NEW x \in Numbers, NEW y \in Numbers
  PROVE  Negative(Minus(x, y)) = Minus(y, x) /\ Minus(Whole(0), Minus(x, y)) = Minus(y, x)
<1>1. PICK x1 \in Int, x2 \in Int, x3 \in Nat \ {0} : x = <<x1, x2, x3>>
  BY DEF Numbers
<1>2. PICK y1 \in Int, y2 \in Int, y3 \in Nat \ {0} : y = <<y1, y2, y3>>
  BY DEF Numbers
<1>3. PICK a \in Int, b \in Int, d \in Nat \ {0} :
        a = x1 * y3 + (-y1) * x3 /\ b = x2 * y3 + (-y2) * x3 /\ d = x3 * y3
  <2>1. x1 * y3 + (-y1) * x3 \in Int /\ x2 * y3 + (-y2) * x3 \in Int /\ x3 * y3 \in Nat \ {0}
    OBVIOUS
  <2> QED BY <2>1
<1>4. y1 * x3 + (-x1) * y3 = -a /\ y2 * x3 + (-x2) * y3 = -b /\ y3 * x3 = d
  BY <1>3
<1>5. Minus(x, y) = Number(a, b, d) /\ Minus(y, x) = Number(-a, -b, d)
  BY <1>1, <1>2, <1>3, <1>4 DEF Minus, Plus
<1>6. Negative(Minus(x, y)) = Minus(y, x)
  BY <1>5, NumberNegative
<1>7. Minus(y, x) \in Reduced
  BY <1>4, <1>5, NumberIsReduced
<1> QED BY <1>6, <1>7, MinusIs, Neutral

LEMMA TimesMinus ==
  ASSUME NEW x \in Numbers, NEW y \in Numbers, NEW z \in Numbers
  PROVE  Times(Minus(x, y), z) = Minus(Times(x, z), Times(y, z))
<1>1. Negative(y) \in Numbers
  BY NegativeIs
<1>2. Times(Plus(x, Negative(y)), z) = Plus(Times(x, z), Times(Negative(y), z))
  BY <1>1, Distributes
<1> QED BY <1>2, TimesNegative, MinusIs

\* A common sign does not matter.
LEMMA NumberNegated ==
  ASSUME NEW a \in Int, NEW b \in Int, NEW d \in Nat \ {0}
  PROVE  Number(-a, -b, -d) = Number(a, b, d)
<1>1. Magnitude(-a) = Magnitude(a) /\ Magnitude(-b) = Magnitude(b) /\ Magnitude(-d) = Magnitude(d)
  BY DEF Magnitude
<1>2. PICK g : g = Common(a, b, d)
  OBVIOUS
<1>3. d \in Int \ {0}
  OBVIOUS
<1>4. g \in Nat \ {0}
  BY <1>2, <1>3, CommonDivides
<1>5. PICK p \in Int, q \in Int, r \in Int : Quotient(g, a, p) /\ Quotient(g, b, q) /\ Quotient(g, d, r)
  BY <1>2, <1>3, CommonDivides, Zenon
<1>6. /\ a = g * p /\ a \div g = p
      /\ b = g * q /\ b \div g = q
      /\ d = g * r /\ d \div g = r
  BY <1>5 DEF Quotient
<1>7. Number(a, b, d) = <<p, q, r>>
  <2>1. ~(d < 0) /\ 1 * p = p /\ 1 * q = q /\ 1 * r = r
    OBVIOUS
  <2>2. Number(a, b, d) = <<1 * p, 1 * q, 1 * r>>
    BY <1>2, <1>6, <2>1 DEF Number, Common
  <2> QED BY <2>1, <2>2
<1>8. -a = g * (-p) /\ -b = g * (-q) /\ -d = g * (-r)
  BY <1>4, <1>6
<1>9. (-a) \div g = -p /\ (-b) \div g = -q /\ (-d) \div g = -r
  BY <1>4, <1>8
<1>10. Number(-a, -b, -d) = <<(-1) * (-p), (-1) * (-q), (-1) * (-r)>>
  <2>1. -d < 0
    OBVIOUS
  <2> QED BY <1>1, <1>2, <1>9, <2>1 DEF Number, Common
<1>11. (-1) * (-p) = p /\ (-1) * (-q) = q /\ (-1) * (-r) = r
  OBVIOUS
<1> QED BY <1>7, <1>10, <1>11

\* Division is multiplication turned round.
LEMMA ReciprocalIs ==
  ASSUME NEW x \in NonZero
  PROVE  Reciprocal(x) \in Reduced /\ Times(x, Reciprocal(x)) = Whole(1)
<1>1. x \in Numbers
  BY DEF NonZero
<1>2. PICK x1 \in Int, x2 \in Int, x3 \in Nat \ {0} : x = <<x1, x2, x3>>
  BY <1>1 DEF Numbers
<1>3. PICK m \in Int : m = x1 * x1 - 5 * x2 * x2
  OBVIOUS
<1>4. m # 0
  <2> SUFFICES ASSUME m = 0
               PROVE  FALSE
    OBVIOUS
  <2>1. x1 * x1 \in Int /\ 5 * x2 * x2 \in Int
    OBVIOUS
  <2>2. x1 * x1 = 5 * x2 * x2
    BY <1>3, <2>1
  <2> QED BY <1>2, <2>2, RootOfFive DEF NonZero
<1>5. PICK s \in {-1, 1}, d \in Nat \ {0} : d = s * m
  <2>1. CASE m > 0
    BY <2>1
  <2>2. CASE m < 0
    <3>1. -m \in Nat \ {0} /\ -m = (-1) * m
      BY <2>2
    <3> QED BY <3>1
  <2> QED BY <1>4, <2>1, <2>2
<1>6. PICK a \in Int, b \in Int : a = s * (x3 * x1) /\ b = s * (-(x3 * x2))
  OBVIOUS
<1>7. Reciprocal(x) = Number(a, b, d)
  <2>1. Reciprocal(x) = Number(x3 * x1, -(x3 * x2), m)
    BY <1>2, <1>3 DEF Reciprocal
  <2>2. CASE s = 1
    <3>1. x3 * x1 = a /\ -(x3 * x2) = b /\ m = d
      BY <1>5, <1>6, <2>2
    <3> QED BY <2>1, <3>1
  <2>3. CASE s = -1
    <3>1. x3 * x1 = -a /\ -(x3 * x2) = -b /\ m = -d
      BY <1>5, <1>6, <2>3
    <3> QED BY <2>1, <3>1, NumberNegated
  <2> QED BY <2>2, <2>3
<1>8. PICK f \in Numbers : f = <<a, b, d>>
  BY DEF Numbers
<1>9. Same(Reciprocal(x), f) /\ Reciprocal(x) \in Reduced /\ Reciprocal(x) \in Numbers
  BY <1>7, <1>8, NumberSame, NumberIsReduced, ReducedIsNumber
<1>10. Times(x, Reciprocal(x)) = Times(f, x)
  BY <1>1, <1>9, SameSum, Commutes
<1>11. PICK e \in Nat \ {0} : e = d * x3
  OBVIOUS
<1>12. Times(f, x) = Number(e, 0, e)
  <2>1. a * x1 + 5 * b * x2 = s * x3 * m
    BY <1>3, <1>6
  <2>2. s * x3 * m = e
    BY <1>5, <1>11
  <2>3. a * x2 + b * x1 = 0
    BY <1>6
  <2> QED BY <1>2, <1>8, <1>11, <2>1, <2>2, <2>3 DEF Times
<1>13. Number(e, 0, e) = Whole(1)
  <2>1. Number(e, 0, e) \in Reduced /\ Same(Number(e, 0, e), <<e, 0, e>>) /\ <<e, 0, e>> \in Numbers
    BY NumberIsReduced, NumberSame
  <2>2. Same(<<e, 0, e>>, Whole(1))
    BY DEF Same, Whole
  <2>3. Same(Number(e, 0, e), Whole(1))
    BY <2>1, <2>2, WholeIsNumber, ReducedIsNumber, SameTransitive
  <2> QED BY <2>1, <2>3, WholeIsReduced, SameIsEqual
<1> QED BY <1>9, <1>10, <1>12, <1>13
-----------------------------------------------------------------------------
(* Products of positive numbers *)

LEMMA PosOrNot ==
  ASSUME NEW a \in Int, NEW b \in Int
  PROVE  /\ (a = 0 /\ b = 0) \/ Pos(a, b) \/ Pos(-a, -b)
         /\ ~(Pos(a, b) /\ Pos(-a, -b))
         /\ ~Pos(0, 0)
<1>1. PICK A \in Int, B \in Int : A = a * a /\ B = 5 * b * b
  <2>1. a * a \in Int /\ 5 * b * b \in Int
    OBVIOUS
  <2> QED BY <2>1
<1>2. (-a) * (-a) = A /\ 5 * (-b) * (-b) = B
  BY <1>1
<1>3. Pos(a, b) <=> \/ a >= 0 /\ b >= 0 /\ (a > 0 \/ b > 0)
                    \/ a > 0 /\ b < 0 /\ A > B
                    \/ a < 0 /\ b > 0 /\ A < B
  BY <1>1, PosIs
<1>4. Pos(-a, -b) <=> \/ -a >= 0 /\ -b >= 0 /\ (-a > 0 \/ -b > 0)
                      \/ -a > 0 /\ -b < 0 /\ A > B
                      \/ -a < 0 /\ -b > 0 /\ A < B
  BY <1>2, PosIs
<1>5. A = B => a = 0 /\ b = 0
  BY <1>1, RootOfFive
<1>6. ~Pos(0, 0)
  BY PosIs
<1> QED BY <1>3, <1>4, <1>5, <1>6

LEMMA PosSum ==
  ASSUME NEW a \in Int, NEW b \in Int, NEW c \in Int, NEW d \in Int, Pos(a, b), Pos(c, d)
  PROVE  Pos(a + c, b + d)
<1>1. PICK p \in Int, q \in Int, r \in Int, s \in Int : p = -a /\ q = -b /\ r = -c /\ s = -d
  OBVIOUS
<1>2. ~Pos(p, q) /\ ~Pos(r, s)
  BY <1>1, PosOrNot
<1>3. ~Pos(p + r, q + s)
  BY <1>2, SumNotPos
<1>4. PICK e \in Int, f \in Int : e = a + c /\ f = b + d
  OBVIOUS
<1>5. p + r = -e /\ q + s = -f
  BY <1>1, <1>4
<1>6. ~(e = 0 /\ f = 0)
  <2> SUFFICES ASSUME e = 0, f = 0
               PROVE  FALSE
    OBVIOUS
  <2>1. c = p /\ d = q
    BY <1>1, <1>4
  <2> QED BY <1>2, <2>1
<1> QED BY <1>3, <1>4, <1>5, <1>6, PosOrNot

\* The root of five as a factor.
LEMMA PosRoot ==
  ASSUME NEW a \in Int, NEW b \in Int, Pos(a, b)
  PROVE  Pos(5 * b, a)
<1>1. PICK A \in Int, B \in Int, c \in Int : A = a * a /\ B = 5 * b * b /\ c = 5 * b
  <2>1. a * a \in Int /\ 5 * b * b \in Int /\ 5 * b \in Int
    OBVIOUS
  <2> QED BY <2>1
<1>2. c * c = 5 * B /\ 5 * a * a = 5 * A
  BY <1>1
<1>3. Pos(a, b) <=> \/ a >= 0 /\ b >= 0 /\ (a > 0 \/ b > 0)
                    \/ a > 0 /\ b < 0 /\ A > B
                    \/ a < 0 /\ b > 0 /\ A < B
  BY <1>1, PosIs
<1>4. Pos(c, a) <=> \/ c >= 0 /\ a >= 0 /\ (c > 0 \/ a > 0)
                    \/ c > 0 /\ a < 0 /\ c * c > 5 * a * a
                    \/ c < 0 /\ a > 0 /\ c * c < 5 * a * a
  BY PosIs
<1>5. (c > 0 <=> b > 0) /\ (c < 0 <=> b < 0)
  BY <1>1
<1>6. (5 * B > 5 * A <=> B > A) /\ (5 * B < 5 * A <=> B < A)
  OBVIOUS
<1> QED BY <1>1, <1>2, <1>3, <1>4, <1>5, <1>6

LEMMA PosTimesNat ==
  ASSUME NEW a \in Int, NEW b \in Int, NEW c \in Nat, NEW d \in Nat, Pos(a, b), c # 0 \/ d # 0
  PROVE  Pos(a * c + 5 * b * d, a * d + b * c)
<1>1. PICK e \in Int : e = 5 * b
  OBVIOUS
<1>2. Pos(e, a)
  BY <1>1, PosRoot
<1>3. PICK p \in Int, q \in Int, r \in Int, s \in Int : p = c * a /\ q = c * b /\ r = d * e /\ s = d * a
  OBVIOUS
<1>4. c > 0 => Pos(p, q)
  BY <1>3, PosScaled
<1>5. d > 0 => Pos(r, s)
  BY <1>2, <1>3, PosScaled
<1>6. Pos(p + r, q + s)
  <2>1. CASE c = 0
    <3>1. p = 0 /\ q = 0 /\ d > 0
      BY <1>3, <2>1
    <3>2. p + r = r /\ q + s = s
      BY <3>1
    <3> QED BY <1>5, <3>1, <3>2
  <2>2. CASE d = 0
    <3>1. r = 0 /\ s = 0 /\ c > 0
      BY <1>3, <2>2
    <3>2. p + r = p /\ q + s = q
      BY <3>1
    <3> QED BY <1>4, <3>1, <3>2
  <2>3. CASE c > 0 /\ d > 0
    BY <1>4, <1>5, <2>3, PosSum
  <2> QED BY <2>1, <2>2, <2>3
<1>7. p + r = a * c + 5 * b * d /\ q + s = a * d + b * c
  BY <1>1, <1>3
<1> QED BY <1>6, <1>7

\* The product of two positive numbers is positive.
LEMMA PosProduct ==
  ASSUME NEW a \in Int, NEW b \in Int, NEW c \in Int, NEW d \in Int, Pos(a, b), Pos(c, d)
  PROVE  Pos(a * c + 5 * b * d, a * d + b * c)
<1>1. \/ c >= 0 /\ d >= 0 /\ (c # 0 \/ d # 0)
      \/ c > 0 /\ d < 0 /\ c * c > 5 * d * d
      \/ c < 0 /\ d > 0 /\ c * c < 5 * d * d
  <2>1. \/ c >= 0 /\ d >= 0 /\ (c > 0 \/ d > 0)
        \/ c > 0 /\ d < 0 /\ c * c > 5 * d * d
        \/ c < 0 /\ d > 0 /\ c * c < 5 * d * d
    BY PosIs
  <2> QED BY <2>1
<1>2. CASE c >= 0 /\ d >= 0 /\ (c # 0 \/ d # 0)
  <2>1. c \in Nat /\ d \in Nat
    BY <1>2
  <2> QED BY <1>2, <2>1, PosTimesNat
<1>3. ASSUME NEW p \in Nat, NEW q \in Nat, NEW n \in Int, n > 0, p # 0 \/ q # 0,
             \* (c + d root) (p + q root) = n
             n = c * p + 5 * d * q, c * q + d * p = 0
      PROVE  Pos(a * c + 5 * b * d, a * d + b * c)
  <2>1. PICK e \in Int, f \in Int : e = a * c + 5 * b * d /\ f = a * d + b * c
    <3>1. a * c + 5 * b * d \in Int /\ a * d + b * c \in Int
      OBVIOUS
    <3> QED BY <3>1
  <2>2. e * p + 5 * f * q = a * (c * p + 5 * d * q) + 5 * b * (c * q + d * p)
    BY <2>1
  <2>3. e * q + f * p = a * (c * q + d * p) + b * (c * p + 5 * d * q)
    BY <2>1
  <2>4. e * p + 5 * f * q = n * a /\ e * q + f * p = n * b
    BY <1>3, <2>2, <2>3
  <2>5. Pos(n * a, n * b)
    <3>1. n \in Int /\ n > 0
      BY <1>3
    <3>2. Pos(n * a, n * b) <=> Pos(a, b)
      BY <3>1, PosScaled
    <3> QED BY <3>2
  <2>6. ~(e = 0 /\ f = 0)
    <3> SUFFICES ASSUME e = 0, f = 0
                 PROVE  FALSE
      OBVIOUS
    <3>1. e * p + 5 * f * q = 0 /\ e * q + f * p = 0
      OBVIOUS
    <3> QED BY <2>4, <2>5, <3>1, PosOrNot
  <2>7. ~Pos(-e, -f)
    <3> SUFFICES ASSUME Pos(-e, -f)
                 PROVE  FALSE
      OBVIOUS
    <3>1. PICK g \in Int, h \in Int : g = -e /\ h = -f
      OBVIOUS
    <3>2. Pos(g * p + 5 * h * q, g * q + h * p)
      BY <1>3, <3>1, PosTimesNat
    <3>3. PICK i \in Int, j \in Int : i = n * a /\ j = n * b
      OBVIOUS
    <3>4. g * p + 5 * h * q = -(e * p + 5 * f * q) /\ g * q + h * p = -(e * q + f * p)
      BY <3>1
    <3>5. g * p + 5 * h * q = -i /\ g * q + h * p = -j
      BY <2>4, <3>3, <3>4
    <3> QED BY <2>5, <3>2, <3>3, <3>5, PosOrNot
  <2> QED BY <2>1, <2>6, <2>7, PosOrNot
<1>4. CASE c > 0 /\ d < 0 /\ c * c > 5 * d * d
  <2>1. PICK q \in Nat, n \in Int : q = -d /\ n = c * c - 5 * d * d
    <3>1. -d \in Nat /\ c * c - 5 * d * d \in Int
      BY <1>4
    <3> QED BY <3>1
  <2>2. n > 0
    <3>1. c * c \in Int /\ 5 * d * d \in Int
      OBVIOUS
    <3> QED BY <1>4, <2>1, <3>1
  <2>3. n = c * c + 5 * d * q /\ c * q + d * c = 0 /\ c \in Nat /\ c # 0
    BY <1>4, <2>1
  <2> QED BY <1>3, <2>2, <2>3
<1>5. CASE c < 0 /\ d > 0 /\ c * c < 5 * d * d
  <2>1. PICK p \in Nat, n \in Int : p = -c /\ n = 5 * d * d - c * c
    <3>1. -c \in Nat /\ 5 * d * d - c * c \in Int
      BY <1>5
    <3> QED BY <3>1
  <2>2. n > 0
    <3>1. c * c \in Int /\ 5 * d * d \in Int
      OBVIOUS
    <3> QED BY <1>5, <2>1, <3>1
  <2>3. n = c * p + 5 * d * d /\ c * d + d * p = 0 /\ d \in Nat /\ d # 0
    BY <1>5, <2>1
  <2> QED BY <1>3, <2>2, <2>3
<1> QED BY <1>1, <1>2, <1>4, <1>5
-----------------------------------------------------------------------------
(* The order and the operators *)

\* What is over nothing is positive.
LEMMA AboveZero ==
  ASSUME NEW x \in Numbers
  PROVE  /\ Less(Whole(0), x) <=> Positive(x)
         /\ Less(x, Whole(0)) <=> Positive(Negative(x))
         /\ Positive(x) <=> Pos(x[1], x[2])
         /\ Positive(Negative(x)) <=> Pos(-x[1], -x[2])
<1>1. PICK x1 \in Int, x2 \in Int, x3 \in Nat \ {0} : x1 = x[1] /\ x2 = x[2] /\ x3 = x[3]
  BY NumberParts
<1>2. Positive(x) <=> Pos(x1, x2)
  BY <1>1 DEF Pos, Positive
<1>3. Positive(Negative(x)) <=> Pos(-x1, -x2)
  BY <1>1 DEF Pos, Positive, Negative
<1>4. PICK z \in Numbers : z = Whole(0)
  BY WholeIsNumber
<1>5. z[1] = 0 /\ z[2] = 0 /\ z[3] = 1
  BY <1>4 DEF Whole
<1>6. Less(z, x) <=> Pos(x1 * 1 - 0 * x3, x2 * 1 - 0 * x3)
  BY <1>1, <1>5, LessIs
<1>7. Less(x, z) <=> Pos(0 * x3 - x1 * 1, 0 * x3 - x2 * 1)
  BY <1>1, <1>5, LessIs
<1>8. /\ x1 * 1 - 0 * x3 = x1 /\ x2 * 1 - 0 * x3 = x2
      /\ 0 * x3 - x1 * 1 = -x1 /\ 0 * x3 - x2 * 1 = -x2
  OBVIOUS
<1> QED BY <1>1, <1>2, <1>3, <1>4, <1>6, <1>7, <1>8

\* In lowest terms there is one zero.
LEMMA ZeroIs ==
  ASSUME NEW x \in Reduced, ~Positive(x), ~Positive(Negative(x))
  PROVE  x = Whole(0)
<1>1. PICK x1 \in Int, x2 \in Int, x3 \in Nat \ {0} : x = <<x1, x2, x3>>
  BY DEF Reduced, Numbers
<1>2. ~Pos(x1, x2) /\ ~Pos(-x1, -x2)
  BY <1>1, ReducedIsNumber, AboveZero
<1>3. x1 = 0 /\ x2 = 0
  BY <1>2, PosOrNot
<1>4. Same(x, Whole(0))
  BY <1>1, <1>3 DEF Same, Whole
<1> QED BY <1>4, WholeIsReduced, SameIsEqual

LEMMA ProductNotPos ==
  ASSUME NEW a \in Int, NEW b \in Int, NEW c \in Int, NEW d \in Int, ~Pos(a, b), ~Pos(-c, -d)
  PROVE  ~Pos(a * c + 5 * b * d, a * d + b * c)
<1>1. PICK e \in Int, f \in Int : e = a * c + 5 * b * d /\ f = a * d + b * c
  <2>1. a * c + 5 * b * d \in Int /\ a * d + b * c \in Int
    OBVIOUS
  <2> QED BY <2>1
<1>2. CASE (a = 0 /\ b = 0) \/ (c = 0 /\ d = 0)
  <2>1. e = 0 /\ f = 0
    BY <1>1, <1>2
  <2> QED BY <1>1, <2>1, PosOrNot
<1>3. CASE Pos(-a, -b) /\ Pos(c, d)
  <2>1. PICK p \in Int, q \in Int : p = -a /\ q = -b
    OBVIOUS
  <2>2. Pos(p * c + 5 * q * d, p * d + q * c)
    BY <1>3, <2>1, PosProduct
  <2>3. p * c + 5 * q * d = -e /\ p * d + q * c = -f
    BY <1>1, <2>1
  <2> QED BY <1>1, <2>2, <2>3, PosOrNot
<1> QED BY <1>2, <1>3, PosOrNot

\* A factor that is not negative keeps the order.
LEMMA AtMostScaled ==
  ASSUME NEW x \in Numbers, NEW y \in Numbers, NEW z \in Numbers,
         AtMost(x, y), AtMost(Whole(0), z)
  PROVE  AtMost(Times(x, z), Times(y, z))
<1>1. PICK m \in Numbers : m = Minus(x, y)
  BY PlusIsNumber
<1>2. PICK a \in Int, b \in Int, m3 \in Nat \ {0} : a = m[1] /\ b = m[2] /\ m3 = m[3]
  BY NumberParts
<1>3. PICK c \in Int, d \in Int, z3 \in Nat \ {0} : c = z[1] /\ d = z[2] /\ z3 = z[3]
  BY NumberParts
<1>4. ~Pos(a, b)
  BY <1>1, <1>2, AboveZero DEF AtMost, Less
<1>5. ~Pos(-c, -d)
  BY <1>3, AboveZero DEF AtMost
<1>6. PICK e \in Int, f \in Int, g \in Nat \ {0} :
        e = a * c + 5 * b * d /\ f = a * d + b * c /\ g = m3 * z3
  <2>1. a * c + 5 * b * d \in Int /\ a * d + b * c \in Int /\ m3 * z3 \in Nat \ {0}
    OBVIOUS
  <2> QED BY <2>1
<1>7. ~Pos(e, f)
  BY <1>4, <1>5, <1>6, ProductNotPos
<1>8. Times(m, z) = Number(e, f, g)
  BY <1>2, <1>3, <1>6 DEF Times
<1>9. ~Positive(Times(m, z))
  BY <1>7, <1>8, NumberPositive
<1> QED BY <1>1, <1>9, TimesMinus DEF AtMost, Less

LEMMA AtMostShifted ==
  ASSUME NEW x \in Numbers, NEW y \in Numbers, NEW z \in Numbers
  PROVE  AtMost(Plus(x, z), Plus(y, z)) <=> AtMost(x, y)
BY SumCancel DEF AtMost, Less
-----------------------------------------------------------------------------
(* Sums of golden numbers, in any order *)

PlusOver(f, T) == FoldFunctionOnSet(Plus, Whole(0), f, T)

\* sum is what the recursion says on the subsets of S.
PlusSums(f, S, sum) ==
  sum = [T \in SUBSET S |-> IF T = {} THEN Whole(0) ELSE Plus(f[Picked(T)], sum[T \ {Picked(T)}])]

LEMMA PlusSumsExist ==
  ASSUME NEW S, IsFiniteSet(S), NEW f, \A x \in S : f[x] \in Numbers
  PROVE  \E sum : PlusSums(f, S, sum)
<1>1. PICK sum : PlusUpTo(f, S, Cardinality(S), sum)
  BY PlusExists
<1>2. {T \in SUBSET S : Cardinality(T) =< Cardinality(S)} = SUBSET S
  BY FS_Subset, FS_CardinalityType
<1> QED BY <1>1, <1>2 DEF PlusUpTo, PlusSums

\* Two such functions agree where both are defined.
LEMMA PlusSumsAgree ==
  ASSUME NEW f, NEW S, NEW T \in SUBSET S, IsFiniteSet(S),
         NEW a, PlusSums(f, S, a), NEW b, PlusSums(f, T, b)
  PROVE  b = [U \in SUBSET T |-> a[U]]
<1> DEFINE Differ == {n \in Nat : \E U \in SUBSET T : Cardinality(U) = n /\ a[U] # b[U]}
<1>1. \A U \in SUBSET S : IsFiniteSet(U) /\ Cardinality(U) \in Nat
  BY FS_Subset, FS_CardinalityType
<1>2. /\ \A U \in SUBSET S : a[U] = IF U = {} THEN Whole(0) ELSE Plus(f[Picked(U)], a[U \ {Picked(U)}])
      /\ \A U \in SUBSET T : b[U] = IF U = {} THEN Whole(0) ELSE Plus(f[Picked(U)], b[U \ {Picked(U)}])
      /\ b = [U \in SUBSET T |-> b[U]]
  BY DEF PlusSums
<1>3. Differ = {}
  <2> SUFFICES ASSUME Differ # {}
               PROVE  FALSE
    OBVIOUS
  <2>1. PICK n \in Differ : \A m \in Differ : n =< m
    <3>1. Differ \in SUBSET Nat
      OBVIOUS
    <3> HIDE DEF Differ
    <3> QED BY <3>1, Smallest
  <2>2. PICK U \in SUBSET T : Cardinality(U) = n /\ a[U] # b[U]
    OBVIOUS
  <2>3. U # {} /\ U \in SUBSET S
    BY <1>2, <2>2
  <2> DEFINE V == U \ {Picked(U)}
  <2>4. Cardinality(V) = n - 1 /\ Cardinality(V) \in Nat /\ V \in SUBSET T
    BY <1>1, <2>2, <2>3, PickedIsElement, FS_RemoveElement
  <2>5. a[V] # b[V]
    <3> HIDE DEF V, Differ
    <3> QED BY <1>2, <2>2, <2>3 DEF V
  <2>6. n - 1 \in Differ /\ n \in Nat
    BY <2>4, <2>5
  <2> HIDE DEF Differ
  <2> QED BY <2>1, <2>6
<1>4. \A U \in SUBSET T : Cardinality(U) \in Nat
  BY <1>1
<1> QED BY <1>2, <1>3, <1>4

LEMMA PlusOverIs ==
  ASSUME NEW S, IsFiniteSet(S), NEW f, \A x \in S : f[x] \in Numbers,
         NEW T \in SUBSET S, NEW sum, PlusSums(f, S, sum)
  PROVE  PlusOver(f, T) = sum[T]
<1> DEFINE own == CHOOSE g : PlusSums(f, T, g)
<1>1. PlusOver(f, T) = own[T]
  BY DEF PlusOver, FoldFunctionOnSet, MapThenFoldSet, PlusSums, Picked
<1>2. PlusSums(f, T, own)
  <2>1. IsFiniteSet(T)
    BY FS_Subset
  <2> QED BY <2>1, PlusSumsExist
<1> HIDE DEF own
<1>3. own = [U \in SUBSET T |-> sum[U]]
  BY <1>2, PlusSumsAgree
<1> QED BY <1>1, <1>3

LEMMA PlusOverEmpty ==
  ASSUME NEW f
  PROVE  PlusOver(f, {}) = Whole(0)
<1>1. IsFiniteSet({})
  BY FS_EmptySet
<1>2. PICK sum : PlusSums(f, {}, sum)
  BY <1>1, PlusSumsExist
<1>3. PlusOver(f, {}) = sum[{}]
  BY <1>1, <1>2, PlusOverIs
<1> QED BY <1>2, <1>3 DEF PlusSums

LEMMA PlusOverPicked ==
  ASSUME NEW S, IsFiniteSet(S), S # {}, NEW f, \A x \in S : f[x] \in Numbers
  PROVE  PlusOver(f, S) = Plus(f[Picked(S)], PlusOver(f, S \ {Picked(S)}))
<1>1. PICK sum : PlusSums(f, S, sum)
  BY PlusSumsExist
<1>2. S \ {Picked(S)} \in SUBSET S /\ S \in SUBSET S
  OBVIOUS
<1>3. PlusOver(f, S) = sum[S] /\ PlusOver(f, S \ {Picked(S)}) = sum[S \ {Picked(S)}]
  BY <1>1, <1>2, PlusOverIs
<1> QED BY <1>1, <1>3 DEF PlusSums

\* Any element may be the first: nothing depends on the choice.
LEMMA PlusOverElement ==
  ASSUME NEW S, IsFiniteSet(S), NEW f, \A x \in S : f[x] \in Numbers
  PROVE  /\ PlusOver(f, S) \in Reduced
         /\ \A x \in S : PlusOver(f, S) = Plus(f[x], PlusOver(f, S \ {x}))
<1> DEFINE Sum(T) == PlusOver(f, T)
           Good(T) == Sum(T) \in Reduced /\ \A x \in T : Sum(T) = Plus(f[x], Sum(T \ {x}))
           Bad == {n \in Nat : \E T \in SUBSET S : Cardinality(T) = n /\ ~Good(T)}
<1>1. \A T \in SUBSET S : IsFiniteSet(T) /\ Cardinality(T) \in Nat
  BY FS_Subset, FS_CardinalityType
<1>2. Bad = {}
  <2> SUFFICES ASSUME Bad # {}
               PROVE  FALSE
    OBVIOUS
  <2>1. PICK n \in Bad : \A k \in Bad : n =< k
    <3>1. Bad \in SUBSET Nat
      OBVIOUS
    <3> HIDE DEF Bad
    <3> QED BY <3>1, Smallest
  <2>2. n \in Nat
    OBVIOUS
  <2>3. PICK T \in SUBSET S : Cardinality(T) = n /\ ~Good(T)
    BY <2>1
  <2>4. ASSUME NEW U \in SUBSET S, Cardinality(U) < n
        PROVE  Good(U)
    <3>1. Cardinality(U) \in Nat /\ ~(n =< Cardinality(U))
      BY <1>1, <2>2, <2>4
    <3>2. Cardinality(U) \notin Bad
      <4> HIDE DEF Bad
      <4> QED BY <2>1, <3>1
    <3> HIDE DEF Good
    <3> QED BY <3>1, <3>2
  <2>5. ASSUME NEW x \in T
        PROVE  Good(T \ {x})
    <3>1. Cardinality(T \ {x}) = n - 1 /\ n \in Nat
      BY <1>1, <2>3, FS_RemoveElement
    <3>2. T \ {x} \in SUBSET S /\ Cardinality(T \ {x}) < n
      BY <3>1
    <3> HIDE DEF Good
    <3> QED BY <2>4, <3>2
  <2>6. CASE T = {}
    BY <2>3, <2>6, PlusOverEmpty, WholeIsReduced
  <2>7. CASE T # {}
    <3>1. PICK p : p = Picked(T)
      OBVIOUS
    <3>2. p \in T /\ Sum(T) = Plus(f[p], Sum(T \ {p}))
      BY <1>1, <2>7, <3>1, PickedIsElement, PlusOverPicked
    <3>3. Sum(T \ {p}) \in Numbers /\ f[p] \in Numbers
      BY <2>5, <3>2, ReducedIsNumber
    <3>4. ASSUME NEW x \in T, x # p
          PROVE  Sum(T) = Plus(f[x], Sum(T \ {x}))
      <4>1. x \in T \ {p} /\ p \in T \ {x} /\ (T \ {p}) \ {x} = (T \ {x}) \ {p}
        BY <3>2, <3>4
      <4>2. PICK rest : rest = Sum((T \ {p}) \ {x})
        OBVIOUS
      <4>3. Sum(T \ {p}) = Plus(f[x], rest)
        BY <2>5, <3>2, <4>1, <4>2
      <4>4. Sum(T \ {x}) = Plus(f[p], rest)
        <5>1. Sum(T \ {x}) = Plus(f[p], Sum((T \ {x}) \ {p}))
          BY <2>5, <4>1
        <5> QED BY <4>1, <4>2, <5>1
      <4>5. rest \in Numbers /\ f[x] \in Numbers
        <5>1. (T \ {p}) \ {x} \in SUBSET S
          OBVIOUS
        <5>2. Cardinality(T \ {p}) = n - 1 /\ n \in Nat /\ IsFiniteSet(T \ {p})
          BY <1>1, <2>3, <3>2, FS_RemoveElement
        <5>3. Cardinality((T \ {p}) \ {x}) = Cardinality(T \ {p}) - 1
          BY <4>1, <5>2, FS_RemoveElement
        <5>4. Cardinality((T \ {p}) \ {x}) < n
          BY <5>2, <5>3
        <5> QED BY <2>4, <4>2, <5>1, <5>4, ReducedIsNumber
      <4> HIDE DEF Sum
      <4>6. Plus(f[p], Plus(f[x], rest)) = Plus(f[x], Plus(f[p], rest))
        <5>1. Plus(Plus(f[p], f[x]), rest) = Plus(f[p], Plus(f[x], rest))
          BY <3>3, <4>5, PlusAssociative
        <5>2. Plus(Plus(f[x], f[p]), rest) = Plus(f[x], Plus(f[p], rest))
          BY <3>3, <4>5, PlusAssociative
        <5>3. Plus(f[p], f[x]) = Plus(f[x], f[p])
          BY <3>3, <4>5, Commutes
        <5> QED BY <5>1, <5>2, <5>3
      <4> QED BY <3>2, <4>3, <4>4, <4>6
    <3>5. \A x \in T : Sum(T) = Plus(f[x], Sum(T \ {x}))
      <4> HIDE DEF Sum
      <4> QED BY <3>2, <3>4
    <3>6. Sum(T) \in Reduced
      <4> HIDE DEF Sum
      <4> QED BY <3>2, <3>3, RawAre
    <3>7. Good(T)
      BY <3>5, <3>6
    <3> QED BY <2>3, <3>7
  <2> QED BY <2>6, <2>7
<1>3. S \in SUBSET S /\ Cardinality(S) \in Nat
  BY <1>1
<1> QED BY <1>2, <1>3

\* An element more.
LEMMA PlusOverMore ==
  ASSUME NEW T, IsFiniteSet(T), NEW x, x \notin T, NEW f, \A y \in T \cup {x} : f[y] \in Numbers
  PROVE  /\ PlusOver(f, T) \in Reduced
         /\ PlusOver(f, T \cup {x}) = Plus(f[x], PlusOver(f, T))
<1>1. IsFiniteSet(T \cup {x})
  BY FS_AddElement
<1>2. x \in T \cup {x} /\ (T \cup {x}) \ {x} = T
  OBVIOUS
<1>3. PlusOver(f, T \cup {x}) = Plus(f[x], PlusOver(f, (T \cup {x}) \ {x}))
  BY <1>1, <1>2, PlusOverElement
<1>4. PlusOver(f, T) \in Reduced
  BY PlusOverElement
<1> QED BY <1>2, <1>3, <1>4

\* A common factor.
LEMMA PlusOverScaled ==
  ASSUME NEW S, IsFiniteSet(S), NEW f, NEW g, NEW z \in Numbers,
         \A x \in S : f[x] \in Numbers /\ g[x] = Times(f[x], z)
  PROVE  PlusOver(g, S) = Times(PlusOver(f, S), z)
<1> DEFINE Scaled(T) == PlusOver(g, T) = Times(PlusOver(f, T), z)
           Good == {T \in SUBSET S : Scaled(T)}
<1>1. {} \in Good
  <2>1. Times(Whole(0), z) = Whole(0)
    <3>1. Minus(Whole(0), Whole(0)) = Whole(0) /\ Whole(0) \in Numbers
      BY MinusItself, WholeIsNumber
    <3>2. Times(Minus(Whole(0), Whole(0)), z) = Minus(Times(Whole(0), z), Times(Whole(0), z))
      BY <3>1, TimesMinus
    <3>3. Times(Whole(0), z) \in Numbers
      BY <3>1, TimesIsNumber
    <3> QED BY <3>1, <3>2, <3>3, MinusItself
  <2> QED BY <2>1, PlusOverEmpty
<1>2. ASSUME NEW T \in SUBSET S, NEW x \in S \ T, T \in Good
      PROVE  T \cup {x} \in Good
  <2>1. IsFiniteSet(T) /\ x \notin T /\ T \cup {x} \in SUBSET S
    BY FS_Subset
  <2>2. \A y \in T \cup {x} : f[y] \in Numbers /\ g[y] \in Numbers /\ g[y] = Times(f[y], z)
    BY TimesIsNumber
  <2>3. /\ PlusOver(f, T) \in Reduced /\ PlusOver(f, T \cup {x}) = Plus(f[x], PlusOver(f, T))
        /\ PlusOver(g, T \cup {x}) = Plus(g[x], PlusOver(g, T))
    BY <2>1, <2>2, PlusOverMore
  <2>4. Times(Plus(f[x], PlusOver(f, T)), z) = Plus(Times(f[x], z), Times(PlusOver(f, T), z))
    BY <2>2, <2>3, ReducedIsNumber, Distributes
  <2> QED BY <1>2, <2>1, <2>2, <2>3, <2>4
<1> HIDE DEF Good
<1>3. S \in Good
  BY <1>1, <1>2, FiniteSetInduction
<1> QED BY <1>3 DEF Good

\* Two sums with nothing in common.
LEMMA PlusOverUnion ==
  ASSUME NEW R, IsFiniteSet(R), NEW S, IsFiniteSet(S), R \cap S = {},
         NEW f, \A x \in R \cup S : f[x] \in Numbers,
         NEW g, \A x \in R : g[x] = f[x], NEW h, \A x \in S : h[x] = f[x]
  PROVE  PlusOver(f, R \cup S) = Plus(PlusOver(g, R), PlusOver(h, S))
<1> DEFINE Good == {T \in SUBSET R : PlusOver(f, T \cup S) = Plus(PlusOver(g, T), PlusOver(h, S))}
           Equal(T) == PlusOver(f, T) = PlusOver(h, T)
           Alike == {T \in SUBSET S : Equal(T)}
<1>1. S \in Alike
  <2>1. {} \in Alike
    BY PlusOverEmpty
  <2>2. ASSUME NEW T \in SUBSET S, NEW x \in S \ T, T \in Alike
        PROVE  T \cup {x} \in Alike
    <3>1. IsFiniteSet(T) /\ x \notin T /\ T \cup {x} \in SUBSET S
      BY FS_Subset
    <3>2. \A y \in T \cup {x} : f[y] \in Numbers /\ h[y] \in Numbers /\ h[y] = f[y]
      OBVIOUS
    <3>3. /\ PlusOver(f, T \cup {x}) = Plus(f[x], PlusOver(f, T))
          /\ PlusOver(h, T \cup {x}) = Plus(h[x], PlusOver(h, T))
      BY <3>1, <3>2, PlusOverMore
    <3> QED BY <2>2, <3>1, <3>2, <3>3
  <2> HIDE DEF Alike
  <2> QED BY <2>1, <2>2, FiniteSetInduction
<1>2. {} \in Good
  <2>1. PlusOver(h, S) \in Reduced
    BY PlusOverElement
  <2>2. Plus(Whole(0), PlusOver(h, S)) = PlusOver(h, S)
    BY <2>1, Neutral
  <2>3. {} \cup S = S
    OBVIOUS
  <2> QED BY <1>1, <2>2, <2>3, PlusOverEmpty
<1>3. ASSUME NEW T \in SUBSET R, NEW x \in R \ T, T \in Good
      PROVE  T \cup {x} \in Good
  <2>1. IsFiniteSet(T) /\ IsFiniteSet(T \cup S) /\ x \notin T \cup S /\ T \cup {x} \in SUBSET R
    BY FS_Subset, FS_Union
  <2>2. /\ \A y \in (T \cup S) \cup {x} : f[y] \in Numbers
        /\ \A y \in T \cup {x} : g[y] \in Numbers
        /\ \A y \in S : h[y] \in Numbers
        /\ g[x] = f[x] /\ x \notin T
    BY <2>1
  <2>3. PlusOver(f, (T \cup S) \cup {x}) = Plus(f[x], PlusOver(f, T \cup S))
    BY <2>1, <2>2, PlusOverMore
  <2>4. PlusOver(g, T \cup {x}) = Plus(g[x], PlusOver(g, T)) /\ PlusOver(g, T) \in Reduced
    BY <2>1, <2>2, PlusOverMore
  <2>5. PlusOver(h, S) \in Reduced
    BY <2>2, PlusOverElement
  <2>6. Plus(Plus(f[x], PlusOver(g, T)), PlusOver(h, S)) = Plus(f[x], Plus(PlusOver(g, T), PlusOver(h, S)))
    BY <2>2, <2>4, <2>5, ReducedIsNumber, PlusAssociative
  <2>7. (T \cup S) \cup {x} = (T \cup {x}) \cup S
    OBVIOUS
  <2>8. PlusOver(f, T \cup S) = Plus(PlusOver(g, T), PlusOver(h, S))
    BY <1>3
  <2>9. PlusOver(f, (T \cup {x}) \cup S) = Plus(PlusOver(g, T \cup {x}), PlusOver(h, S))
    BY <2>2, <2>3, <2>4, <2>6, <2>7, <2>8
  <2> QED BY <2>1, <2>9
<1> HIDE DEF Good
<1>4. R \in Good
  BY <1>2, <1>3, FiniteSetInduction
<1> QED BY <1>4 DEF Good
-----------------------------------------------------------------------------
(* Positive numbers *)

LEMMA PositiveProduct ==
  ASSUME NEW x \in Numbers, NEW y \in Numbers, Positive(x), Positive(y)
  PROVE  Positive(Times(x, y))
<1>1. x[1] \in Int /\ x[2] \in Int /\ x[3] \in Nat \ {0}
  BY NumberParts
<1>2. y[1] \in Int /\ y[2] \in Int /\ y[3] \in Nat \ {0}
  BY NumberParts
<1>3. PICK a \in Int, b \in Int, d \in Nat \ {0} :
        a = x[1] * y[1] + 5 * x[2] * y[2] /\ b = x[1] * y[2] + x[2] * y[1] /\ d = x[3] * y[3]
  <2>1. /\ x[1] * y[1] + 5 * x[2] * y[2] \in Int /\ x[1] * y[2] + x[2] * y[1] \in Int
        /\ x[3] * y[3] \in Nat \ {0}
    BY <1>1, <1>2
  <2> QED BY <2>1
<1>4. Pos(x[1], x[2]) /\ Pos(y[1], y[2])
  BY AboveZero
<1>5. Pos(a, b)
  BY <1>1, <1>2, <1>3, <1>4, PosProduct
<1>6. Times(x, y) = Number(a, b, d)
  BY <1>3 DEF Times
<1> QED BY <1>5, <1>6, NumberPositive

LEMMA PositiveReciprocal ==
  ASSUME NEW x \in Numbers, Positive(x)
  PROVE  x \in NonZero /\ Positive(Reciprocal(x))
<1>1. x \in NonZero
  <2>1. Pos(x[1], x[2])
    BY AboveZero
  <2> QED BY <2>1, PosIs, NumberParts DEF NonZero
<1>2. PICK y \in NonZero : y = Reciprocal(x)
  BY <1>1, ReciprocalIsNumber
<1>3. Times(x, y) = Whole(1) /\ y \in Numbers
  BY <1>1, <1>2, ReciprocalIs DEF NonZero
<1>4. ~Positive(Negative(y))
  <2> SUFFICES ASSUME Positive(Negative(y))
               PROVE  FALSE
    OBVIOUS
  <2>1. Negative(y) \in Numbers
    BY <1>3, NegativeIs
  <2>2. Positive(Times(Negative(y), x))
    BY <2>1, PositiveProduct
  <2>3. Times(Negative(y), x) = Negative(Whole(1))
    BY <1>3, TimesNegative, Commutes
  <2>4. Positive(Negative(Whole(1))) /\ Whole(1) \in Numbers
    BY <2>2, <2>3, WholeIsNumber
  <2>5. Positive(Whole(1)) /\ Whole(1)[1] = 1 /\ Whole(1)[2] = 0
    BY DEF Positive, Whole
  <2>6. Pos(Whole(1)[1], Whole(1)[2]) /\ Pos(-Whole(1)[1], -Whole(1)[2])
    BY <2>4, <2>5, AboveZero
  <2> QED BY <2>5, <2>6, PosOrNot
<1>5. ~Positive(y) => y[1] = 0 /\ y[2] = 0
  <2>1. y[1] \in Int /\ y[2] \in Int
    BY <1>3, NumberParts
  <2> QED BY <1>3, <1>4, <2>1, AboveZero, PosOrNot
<1> QED BY <1>1, <1>2, <1>5 DEF NonZero

\* There is one reciprocal.
LEMMA ReciprocalIsOnly ==
  ASSUME NEW x \in NonZero, NEW y \in Reduced, Times(x, y) = Whole(1)
  PROVE  Reciprocal(x) = y
<1>1. PICK z \in Reduced : z = Reciprocal(x) /\ Times(x, z) = Whole(1)
  BY ReciprocalIs
<1>2. x \in Numbers /\ y \in Numbers /\ z \in Numbers
  BY ReducedIsNumber DEF NonZero
<1>3. Times(Times(z, x), y) = Times(z, Times(x, y))
  BY <1>2, TimesAssociative
<1>4. Times(z, x) = Whole(1)
  BY <1>1, <1>2, Commutes
<1>5. Times(Whole(1), y) = y /\ Times(z, Whole(1)) = z
  BY <1>1, Neutral
<1> QED BY <1>1, <1>3, <1>4, <1>5

\* A product with nothing, and nothing taken away.
LEMMA WithZero ==
  ASSUME NEW x \in Numbers
  PROVE  /\ Times(Whole(0), x) = Whole(0)
         /\ x \in Reduced => Minus(x, Whole(0)) = x
<1>1. Minus(Whole(0), Whole(0)) = Whole(0) /\ Whole(0) \in Numbers
  BY MinusItself, WholeIsNumber
<1>2. Times(Minus(Whole(0), Whole(0)), x) = Minus(Times(Whole(0), x), Times(Whole(0), x))
  BY <1>1, TimesMinus
<1>3. Times(Whole(0), x) \in Numbers
  BY <1>1, TimesIsNumber
<1>4. Negative(Whole(0)) = Whole(0)
  <2>1. Whole(0) = <<0, 0, 1>> /\ Whole(0)[1] = 0 /\ Whole(0)[2] = 0 /\ Whole(0)[3] = 1
    BY DEF Whole
  <2>2. Whole(0)[1] \in Int /\ -Whole(0)[1] = 0 /\ -Whole(0)[2] = 0
    BY <2>1
  <2> QED BY <2>1, <2>2 DEF Negative
<1> QED BY <1>1, <1>2, <1>3, <1>4, MinusItself, MinusIs, Neutral

\* Two parts of one.
LEMMA PartsOfOne ==
  ASSUME NEW u \in Reduced, NEW v \in Reduced, Positive(u), Positive(v), Plus(u, v) = Whole(1)
  PROVE  /\ AtMost(Whole(0), u) /\ AtMost(u, Whole(1))
         /\ AtMost(Whole(0), v) /\ AtMost(v, Whole(1))
         /\ Minus(Whole(1), u) = v
<1>1. u \in Numbers /\ v \in Numbers /\ Whole(0) \in Numbers /\ Whole(1) \in Numbers
  BY ReducedIsNumber, WholeIsNumber
<1>2. AtMost(Whole(0), u) /\ AtMost(Whole(0), v)
  <2>1. Less(Whole(0), u) /\ Less(Whole(0), v)
    BY <1>1, AboveZero
  <2> QED BY <1>1, <2>1, AtMostTotal DEF AtMost
<1>3. Plus(Whole(0), u) = u /\ Plus(v, u) = Whole(1) /\ Plus(Whole(0), v) = v
  BY <1>1, Neutral, Commutes
<1>4. AtMost(u, Whole(1))
  <2>1. AtMost(Plus(Whole(0), u), Plus(v, u))
    BY <1>1, <1>2, AtMostShifted
  <2> QED BY <1>3, <2>1
<1>5. AtMost(v, Whole(1))
  <2>1. AtMost(Plus(Whole(0), v), Plus(u, v))
    BY <1>1, <1>2, AtMostShifted
  <2> QED BY <1>3, <2>1
<1>6. Minus(Whole(1), u) = v
  <2>1. Minus(Plus(v, u), Plus(Whole(0), u)) = Minus(v, Whole(0))
    BY <1>1, SumCancel
  <2>2. Minus(v, Whole(0)) = v
    BY <1>1, WithZero
  <2> QED BY <1>3, <2>1, <2>2
<1> QED BY <1>2, <1>4, <1>5, <1>6

-----------------------------------------------------------------------------
(* The least number *)

\* Of the numbers a function gives for a finite set one is the least.
LEMMA LeastNumber ==
  ASSUME NEW S, IsFiniteSet(S), S # {}, NEW f, \A x \in S : f[x] \in Numbers
  PROVE  \E x \in S : \A y \in S : AtMost(f[x], f[y])
<1> DEFINE Good == {T \in SUBSET S : T # {} => \E x \in T : \A y \in T : AtMost(f[x], f[y])}
<1>1. {} \in Good
  OBVIOUS
<1>2. ASSUME NEW T \in SUBSET S, NEW z \in S \ T, T \in Good
      PROVE  T \cup {z} \in Good
  <2>1. AtMost(f[z], f[z])
    BY AtMostTotal
  <2>2. CASE T = {}
    BY <2>1, <2>2
  <2>3. CASE T # {}
    <3>1. PICK x \in T : \A y \in T : AtMost(f[x], f[y])
      BY <1>2, <2>3
    <3>2. CASE AtMost(f[x], f[z])
      BY <3>1, <3>2
    <3>3. CASE AtMost(f[z], f[x])
      <4>1. \A y \in T : AtMost(f[z], f[y])
        BY <3>1, <3>3, AtMostTransitive
      <4> QED BY <2>1, <4>1
    <3> QED BY <3>2, <3>3, AtMostTotal
  <2> QED BY <2>2, <2>3
<1>3. S \in Good
  <2> HIDE DEF Good
  <2> QED BY <1>1, <1>2, FiniteSetInduction
<1> QED BY <1>3
\* What is left of a number, and a part of it.
LEMMA WhatIsLeftAdds ==
  ASSUME NEW r \in Reduced, NEW x \in Numbers
  PROVE  r = Plus(x, Minus(r, x))
<1>1. r \in Numbers /\ Negative(x) \in Numbers
  BY ReducedIsNumber, NegativeIs
<1>2. Minus(r, x) = Plus(Negative(x), r)
  BY <1>1, MinusIs, Commutes
<1>3. Plus(Plus(x, Negative(x)), r) = Plus(x, Plus(Negative(x), r))
  BY <1>1, PlusAssociative
<1> QED BY <1>2, <1>3, NegativeIs, Neutral

\* A quotient, multiplied by what it was divided by.
LEMMA TimesOver ==
  ASSUME NEW x \in Reduced, NEW y \in NonZero
  PROVE  /\ Over(x, y) \in Reduced /\ Over(x, y) = Times(x, Reciprocal(y))
         /\ Times(Over(x, y), y) = x /\ Times(y, Over(x, y)) = x
<1>1. PICK z \in Reduced : z = Reciprocal(y) /\ Times(y, z) = Whole(1)
  BY ReciprocalIs
<1>2. x \in Numbers /\ y \in Numbers /\ z \in Numbers
  BY ReducedIsNumber DEF NonZero
<1>3. Over(x, y) = Times(x, z) /\ Times(x, z) \in Reduced /\ Times(x, z) \in Numbers
  BY <1>1, <1>2, RawAre, ReducedIsNumber DEF Over
<1>4. Times(Times(x, z), y) = Times(x, Times(z, y))
  BY <1>2, TimesAssociative
<1>5. Times(z, y) = Whole(1)
  BY <1>1, <1>2, Commutes
<1>6. Times(x, Whole(1)) = x
  BY Neutral
<1>7. Times(y, Times(x, z)) = Times(Times(x, z), y)
  BY <1>2, <1>3, Commutes
<1> QED BY <1>1, <1>3, <1>4, <1>5, <1>6, <1>7

\* The factors of two products, paired the other way.
LEMMA TimesSwaps ==
  ASSUME NEW a \in Numbers, NEW b \in Numbers, NEW c \in Numbers, NEW d \in Numbers
  PROVE  Times(Times(a, b), Times(c, d)) = Times(Times(a, c), Times(b, d))
<1>1. Times(c, d) \in Numbers /\ Times(b, d) \in Numbers
  BY TimesIsNumber
<1>2. Times(Times(a, b), Times(c, d)) = Times(a, Times(b, Times(c, d)))
  BY <1>1, TimesAssociative
<1>3. Times(Times(b, c), d) = Times(b, Times(c, d)) /\ Times(Times(c, b), d) = Times(c, Times(b, d))
  BY TimesAssociative
<1>4. Times(b, c) = Times(c, b)
  BY Commutes
<1>5. Times(Times(a, c), Times(b, d)) = Times(a, Times(c, Times(b, d)))
  BY <1>1, TimesAssociative
<1> QED BY <1>2, <1>3, <1>4, <1>5

-----------------------------------------------------------------------------
(* Sequences *)

\* s is a sequence.
IsSequence(s) == s \in Seq({s[n] : n \in DOMAIN s})

\* A sequence, wherever its elements are from.
LEMMA SequenceIs ==
  ASSUME NEW S, NEW s \in Seq(S)
  PROVE  IsSequence(s) /\ Len(s) \in Nat /\ DOMAIN s = 1 .. Len(s)
<1> DEFINE T == {s[n] : n \in DOMAIN s}
<1>1. Len(s) \in Nat /\ DOMAIN s = 1 .. Len(s) /\ s = [n \in 1 .. Len(s) |-> s[n]]
  OBVIOUS
<1>2. \A n \in 1 .. Len(s) : s[n] \in T
  BY <1>1
<1> HIDE DEF T
<1>3. s \in Seq(T)
  BY <1>1, <1>2
<1> QED BY <1>1, <1>3 DEF IsSequence, T

\* A sequence stays one when an element is added.
LEMMA AppendedElements ==
  ASSUME NEW s, IsSequence(s), NEW x
  PROVE  IsSequence(Append(s, x)) /\ Range(Append(s, x)) = Range(s) \cup {x}
<1> DEFINE T == {s[n] : n \in DOMAIN s} \cup {x}
           t == Append(s, x)
           U == {t[n] : n \in DOMAIN t}
<1>1. s \in Seq(T) /\ x \in T
  BY DEF IsSequence
<1> HIDE DEF T
<1>2. /\ t \in Seq(T) /\ Len(s) \in Nat /\ DOMAIN s = 1 .. Len(s)
      /\ DOMAIN t = 1 .. Len(s) + 1 /\ Len(t) = Len(s) + 1
      /\ \A n \in 1 .. Len(s) : t[n] = s[n]
      /\ t[Len(s) + 1] = x
  BY <1>1
<1> HIDE DEF t
<1>3. t \in Seq(U)
  <2>1. \A n \in 1 .. Len(t) : t[n] \in U
    BY <1>2
  <2>2. t = [n \in 1 .. Len(t) |-> t[n]] /\ Len(t) \in Nat
    BY <1>2
  <2> HIDE DEF U
  <2> QED BY <2>1, <2>2
<1>4. Range(t) = Range(s) \cup {x}
  BY <1>2 DEF Range
<1> QED BY <1>3, <1>4 DEF IsSequence, t

\* Two sequences in a row.
LEMMA JoinedElements ==
  ASSUME NEW s, NEW t, IsSequence(s), IsSequence(t)
  PROVE  /\ IsSequence(s \o t) /\ Range(s \o t) = Range(s) \cup Range(t)
         /\ Len(s) \in Nat /\ Len(t) \in Nat /\ DOMAIN t = 1 .. Len(t)
         /\ Len(s \o t) = Len(s) + Len(t) /\ DOMAIN (s \o t) = 1 .. Len(s) + Len(t)
         /\ \A n \in 1 .. Len(t) : (s \o t)[Len(s) + n] = t[n]
<1> DEFINE T == {s[n] : n \in DOMAIN s} \cup {t[n] : n \in DOMAIN t}
           u == s \o t
           U == {u[n] : n \in DOMAIN u}
<1>1. s \in Seq(T) /\ t \in Seq(T)
  BY DEF IsSequence
<1> HIDE DEF T
<1>2. /\ Len(s) \in Nat /\ DOMAIN s = 1 .. Len(s) /\ Len(t) \in Nat /\ DOMAIN t = 1 .. Len(t)
      /\ Len(u) = Len(s) + Len(t) /\ DOMAIN u = 1 .. Len(s) + Len(t)
      /\ \A n \in 1 .. Len(s) : u[n] = s[n]
      /\ \A n \in 1 .. Len(s) + Len(t) : n > Len(s) => u[n] = t[n - Len(s)]
  BY <1>1
<1> HIDE DEF u
<1>3. \A n \in 1 .. Len(t) : u[Len(s) + n] = t[n]
  <2> SUFFICES ASSUME NEW n \in 1 .. Len(t)
               PROVE  u[Len(s) + n] = t[n]
    OBVIOUS
  <2>1. Len(s) + n \in 1 .. Len(s) + Len(t) /\ Len(s) + n > Len(s) /\ (Len(s) + n) - Len(s) = n
    BY <1>2
  <2> QED BY <1>2, <2>1
<1>4. u \in Seq(U)
  <2>1. u \in Seq(T)
    BY <1>1 DEF u
  <2>2. u = [n \in 1 .. Len(u) |-> u[n]] /\ Len(u) \in Nat /\ DOMAIN u = 1 .. Len(u)
    BY <1>2, <2>1
  <2>3. \A n \in 1 .. Len(u) : u[n] \in U
    BY <2>2
  <2> HIDE DEF U
  <2> QED BY <2>2, <2>3
<1>5. Range(u) = Range(s) \cup Range(t)
  <2>1. \A n \in DOMAIN u : u[n] \in Range(s) \cup Range(t)
    <3> SUFFICES ASSUME NEW n \in 1 .. Len(s) + Len(t)
                 PROVE  u[n] \in Range(s) \cup Range(t)
      BY <1>2
    <3>1. n \in 1 .. Len(s) \/ (n > Len(s) /\ n - Len(s) \in 1 .. Len(t))
      BY <1>2
    <3> QED BY <1>2, <3>1 DEF Range
  <2>2. \A n \in DOMAIN s : s[n] \in Range(u)
    <3>1. \A n \in 1 .. Len(s) : n \in 1 .. Len(s) + Len(t)
      BY <1>2
    <3> QED BY <1>2, <3>1 DEF Range
  <2>3. \A n \in DOMAIN t : t[n] \in Range(u)
    <3>1. \A n \in 1 .. Len(t) : Len(s) + n \in 1 .. Len(s) + Len(t)
      BY <1>2
    <3>2. \A n \in 1 .. Len(t) : u[Len(s) + n] \in Range(u)
      BY <1>2, <3>1 DEF Range
    <3> QED BY <1>2, <1>3, <3>2
  <2> QED BY <2>1, <2>2, <2>3 DEF Range
<1> QED BY <1>2, <1>3, <1>4, <1>5 DEF u, IsSequence

\* s with r after position n.
InsertedAt(s, n, r) == SubSeq(s, 1, n) \o <<r>> \o SubSeq(s, n + 1, Len(s))

\* Where the elements are after an insertion.
LEMMA InsertedElements ==
  ASSUME NEW s, IsSequence(s), NEW r, NEW n \in Nat, n =< Len(s), NEW t,
         t = InsertedAt(s, n, r)
  PROVE  /\ IsSequence(t) /\ Len(t) = Len(s) + 1 /\ DOMAIN t = 1 .. Len(s) + 1
         /\ \A m \in 1 .. n : t[m] = s[m]
         /\ t[n + 1] = r
         /\ \A m \in n + 2 .. Len(s) + 1 : t[m] = s[m - 1]
<1> DEFINE u == SubSeq(s, 1, n) v == SubSeq(s, n + 1, Len(s)) w == u \o <<r>>
           S == {s[m] : m \in DOMAIN s} T == S \cup {r}
<1>0. s \in Seq(S)
  BY DEF IsSequence
<1> HIDE DEF S
<1>1. /\ u \in Seq(T) /\ Len(u) = n /\ \A m \in 1 .. n : u[m] = s[m]
  BY <1>0
<1>2. /\ v \in Seq(T) /\ Len(v) = Len(s) - n
      /\ \A m \in 1 .. Len(s) - n : v[m] = s[m + n]
  BY <1>0
<1>3. <<r>> \in Seq(T) /\ Len(<<r>>) = 1 /\ <<r>>[1] = r
  OBVIOUS
<1> HIDE DEF u, v, T
<1>4. /\ w \in Seq(T) /\ Len(w) = n + 1 /\ w[n + 1] = r
      /\ \A m \in 1 .. n : w[m] = s[m]
  BY <1>1, <1>3
<1> HIDE DEF w
<1>5. t = w \o v
  BY DEF u, v, w, InsertedAt
<1>9. IsSequence(t)
  <2>1. w \o v \in Seq(T)
    BY <1>2, <1>4
  <2> QED BY <1>5, <2>1, SequenceIs
<1>6. /\ Len(t) = Len(s) + 1 /\ DOMAIN t = 1 .. Len(s) + 1
      /\ \A m \in 1 .. n + 1 : t[m] = w[m]
      /\ \A m \in n + 2 .. Len(s) + 1 : t[m] = v[m - (n + 1)]
  <2>1. Len(s) \in Nat /\ n \in Nat /\ Len(w) = n + 1 /\ Len(v) = Len(s) - n
    BY <1>0, <1>2, <1>4
  <2>2. /\ Len(t) = Len(w) + Len(v) /\ DOMAIN t = 1 .. Len(w) + Len(v)
        /\ \A m \in 1 .. Len(w) : t[m] = w[m]
        /\ \A m \in Len(w) + 1 .. Len(w) + Len(v) : t[m] = v[m - Len(w)]
    <3>1. PICK x, y : x = w /\ y = v
      OBVIOUS
    <3>2. x \in Seq(T) /\ y \in Seq(T) /\ t = x \o y
      BY <1>2, <1>4, <1>5, <3>1
    <3>3. t \in Seq(T) /\ Len(t) = Len(x) + Len(y) /\ Len(x) \in Nat /\ Len(y) \in Nat
      BY <3>2
    <3>4. DOMAIN t = 1 .. Len(x) + Len(y)
      BY <3>3
    <3>5. \A m \in 1 .. Len(x) : t[m] = x[m]
      BY <3>2
    <3>6. ASSUME NEW m \in Len(x) + 1 .. Len(x) + Len(y)
          PROVE  t[m] = y[m - Len(x)]
      BY <3>2
    <3> QED BY <3>1, <3>3, <3>4, <3>5, <3>6
  <2>3. \A m \in n + 2 .. Len(s) + 1 : m \in Len(w) + 1 .. Len(w) + Len(v)
    BY <2>1
  <2>4. Len(w) + Len(v) = Len(s) + 1
    BY <2>1
  <2>5. \A m \in n + 2 .. Len(s) + 1 : t[m] = v[m - (n + 1)]
    BY <2>1, <2>2, <2>3
  <2> QED BY <2>1, <2>2, <2>4, <2>5
<1>7. ASSUME NEW m \in n + 2 .. Len(s) + 1
      PROVE  t[m] = s[m - 1]
  <2>1. m - (n + 1) \in 1 .. Len(s) - n /\ (m - (n + 1)) + n = m - 1
    BY <1>0
  <2>2. v[m - (n + 1)] = s[(m - (n + 1)) + n]
    BY <1>2, <2>1
  <2> QED BY <1>6, <2>1, <2>2
<1>8. n + 1 \in 1 .. n + 1 /\ \A m \in 1 .. n : m \in 1 .. n + 1
  OBVIOUS
<1> QED BY <1>4, <1>6, <1>7, <1>8, <1>9
-----------------------------------------------------------------------------
(* Sequences put in a row *)

\* The recursion of FlattenSeq.
Flattens(s, N, flat) == flat = [i \in 1 .. N |-> IF i = 1 THEN s[i] ELSE flat[i - 1] \o s[i]]

LEMMA FlattensNext ==
  ASSUME NEW s, NEW N \in Nat \ {0}, NEW flat, Flattens(s, N, flat)
  PROVE  \E next : Flattens(s, N + 1, next)
<1> DEFINE next == [i \in 1 .. N + 1 |-> IF i = N + 1 THEN flat[N] \o s[N + 1] ELSE flat[i]]
<1>1. ASSUME NEW i \in 1 .. N + 1
      PROVE  next[i] = IF i = 1 THEN s[i] ELSE next[i - 1] \o s[i]
  <2>1. CASE i = N + 1
    <3>1. i - 1 = N /\ N \in 1 .. N + 1 /\ N # N + 1 /\ i # 1
      BY <2>1
    <3>2. next[N] = flat[N]
      BY <3>1
    <3>3. next[i] = flat[N] \o s[i]
      BY <2>1
    <3> QED BY <3>1, <3>2, <3>3
  <2>2. CASE i # N + 1
    <3>1. i \in 1 .. N /\ next[i] = flat[i]
      BY <1>1, <2>2
    <3>2. flat[i] = IF i = 1 THEN s[i] ELSE flat[i - 1] \o s[i]
      BY <3>1 DEF Flattens
    <3>3. i # 1 => next[i - 1] = flat[i - 1]
      BY <3>1
    <3> QED BY <3>1, <3>2, <3>3
  <2> QED BY <2>1, <2>2
<1>2. next = [i \in 1 .. N + 1 |-> next[i]]
  OBVIOUS
<1> HIDE DEF next
<1>3. Flattens(s, N + 1, next)
  BY <1>1, <1>2 DEF Flattens
<1> QED BY <1>3

LEMMA FlattensExists ==
  ASSUME NEW s, NEW N \in Nat \ {0}
  PROVE  \E flat : Flattens(s, N, flat)
<1> DEFINE Without == {n \in Nat : n # 0 /\ ~ \E flat : Flattens(s, n, flat)}
<1> SUFFICES ASSUME Without # {}
             PROVE  FALSE
  OBVIOUS
<1>1. PICK n \in Without : \A m \in Without : n =< m
  <2>1. Without \in SUBSET Nat
    OBVIOUS
  <2> HIDE DEF Without
  <2> QED BY <2>1, Smallest
<1>2. n \in Nat \ {0}
  OBVIOUS
<1>3. n # 1
  <2>1. Flattens(s, 1, [i \in 1 .. 1 |-> s[i]])
    <3>1. \A i \in 1 .. 1 : i = 1
      OBVIOUS
    <3> QED BY <3>1 DEF Flattens
  <2> QED BY <2>1
<1>4. PICK k \in Nat \ {0} : n = k + 1
  <2>1. n - 1 \in Nat \ {0} /\ n = (n - 1) + 1
    BY <1>2, <1>3
  <2> QED BY <2>1
<1>5. k \notin Without
  <2> HIDE DEF Without
  <2> QED BY <1>1, <1>4
<1>6. PICK flat : Flattens(s, k, flat)
  BY <1>4, <1>5
<1> QED BY <1>4, <1>6, FlattensNext

\* f has the elements e[m] of those of the first n sequences that are not
\* empty, in their order.
PicksUp(f, s, e, n) ==
  /\ IsSequence(f)
  /\ \A p \in DOMAIN f : \E m \in 1 .. n : s[m] # <<>> /\ f[p] = e[m]
  /\ \A m \in 1 .. n : s[m] # <<>> => \E p \in DOMAIN f : f[p] = e[m]
  /\ \A p, q \in DOMAIN f : p < q =>
       \E l, m \in 1 .. n : l < m /\ f[p] = e[l] /\ f[q] = e[m]

\* Of sequences with one element or none, FlattenSeq leaves the elements in
\* their order.
LEMMA FlattenSome ==
  ASSUME NEW s, NEW N \in Nat \ {0}, NEW flat, Flattens(s, N, flat), NEW e,
         \A n \in 1 .. N : s[n] \in {<<>>, <<e[n]>>}
  PROVE  PicksUp(flat[N], s, e, N)
<1> DEFINE Bad == {n \in Nat : n \in 1 .. N /\ ~PicksUp(flat[n], s, e, n)}
<1>1. \A n \in 1 .. N : flat[n] = IF n = 1 THEN s[n] ELSE flat[n - 1] \o s[n]
  BY DEF Flattens
<1>2. ASSUME NEW f, IsSequence(f), NEW x
      PROVE  /\ f \o <<x>> = Append(f, x) /\ f \o <<>> = f
             /\ IsSequence(Append(f, x)) /\ Len(f) \in Nat
             /\ DOMAIN f = 1 .. Len(f) /\ DOMAIN Append(f, x) = 1 .. Len(f) + 1
             /\ \A p \in 1 .. Len(f) : Append(f, x)[p] = f[p]
             /\ Append(f, x)[Len(f) + 1] = x
  <2>1. IsSequence(Append(f, x))
    BY <1>2, AppendedElements
  <2>2. PICK T : f \in Seq(T) /\ x \in T
    <3>1. f \in Seq({f[n] : n \in DOMAIN f})
      BY <1>2 DEF IsSequence
    <3>2. f \in Seq({f[n] : n \in DOMAIN f} \cup {x})
      BY <3>1
    <3> QED BY <3>2
  <2> QED BY <2>1, <2>2
<1>3. ASSUME Bad # {}
      PROVE  FALSE
  <2>1. PICK n \in Bad : \A m \in Bad : n =< m
    <3>1. Bad \in SUBSET Nat
      OBVIOUS
    <3> HIDE DEF Bad
    <3> QED BY <1>3, <3>1, Smallest
  <2>2. n \in 1 .. N /\ ~PicksUp(flat[n], s, e, n)
    BY <2>1
  <2>3. n # 1
    <3> SUFFICES ASSUME n = 1
                 PROVE  FALSE
      OBVIOUS
    <3>1. flat[1] = s[1] /\ s[1] \in {<<>>, <<e[1]>>} /\ 1 .. 1 = {1} /\ 1 \in 1 .. N
      BY <1>1
    <3>2. CASE s[1] = <<>>
      <4>1. IsSequence(<<>>) /\ DOMAIN <<>> = {}
        BY DEF IsSequence
      <4>2. PicksUp(flat[1], s, e, 1)
        BY <3>1, <3>2, <4>1 DEF PicksUp
      <4> QED BY <2>2, <4>2
    <3>3. CASE s[1] = <<e[1]>>
      <4>1. IsSequence(<<e[1]>>) /\ DOMAIN <<e[1]>> = {1} /\ <<e[1]>>[1] = e[1] /\ <<e[1]>> # <<>>
        BY DEF IsSequence
      <4>2. \A p, q \in {1} : ~(p < q)
        OBVIOUS
      <4>3. PicksUp(flat[1], s, e, 1)
        BY <3>1, <3>3, <4>1, <4>2 DEF PicksUp
      <4> QED BY <2>2, <4>3
    <3> QED BY <3>1, <3>2, <3>3
  <2>4. PICK k \in 1 .. N : n = k + 1 /\ ~(n =< k) /\ k \in Nat
    <3>1. n - 1 \in 1 .. N /\ n = (n - 1) + 1 /\ ~(n =< n - 1) /\ n - 1 \in Nat
      BY <2>2, <2>3
    <3> QED BY <3>1
  <2>5. PicksUp(flat[k], s, e, k)
    BY <2>1, <2>4
  <2>6. PICK f : f = flat[k] /\ PicksUp(f, s, e, k)
    BY <2>5
  <2>7. flat[n] = f \o s[n] /\ s[n] \in {<<>>, <<e[n]>>}
    <3>1. n - 1 = k
      BY <2>4
    <3> QED BY <1>1, <2>2, <2>3, <2>6, <3>1
  <2>8. PICK I : I = 1 .. n /\ I = (1 .. k) \cup {n} /\ \A m \in 1 .. k : m < n
    <3>1. 1 .. n = (1 .. k) \cup {n} /\ \A m \in 1 .. k : m < n
      BY <2>4
    <3> QED BY <3>1
  <2>12. n \in I /\ \A m \in 1 .. k : m \in I /\ m < n
    BY <2>8
  <2>9. PICK g : g = flat[n]
    OBVIOUS
  <2>10. /\ IsSequence(g)
         /\ \A p \in DOMAIN g : \E m \in I : s[m] # <<>> /\ g[p] = e[m]
         /\ \A m \in I : s[m] # <<>> => \E p \in DOMAIN g : g[p] = e[m]
         /\ \A p, q \in DOMAIN g : p < q =>
              \E l, m \in I : l < m /\ g[p] = e[l] /\ g[q] = e[m]
    <3>1. CASE s[n] = <<>>
      <4>1. g = f
        BY <1>2, <2>6, <2>7, <2>9, <3>1
      <4>2. \A m \in I : s[m] # <<>> => m \in 1 .. k
        BY <2>8, <3>1
      <4> QED BY <2>6, <2>12, <4>1, <4>2 DEF PicksUp
    <3>2. CASE s[n] = <<e[n]>>
      <4>10. IsSequence(f)
        BY <2>6 DEF PicksUp
      <4>1. PICK x : x = e[n] /\ g = f \o <<x>> /\ s[n] = <<x>>
        BY <2>7, <2>9, <3>2
      <4>9. PICK L \in Nat : L = Len(f)
        BY <1>2, <4>10
      <4>2. /\ IsSequence(g) /\ DOMAIN f = 1 .. L /\ DOMAIN g = 1 .. L + 1
            /\ \A p \in 1 .. L : g[p] = f[p]
            /\ g[L + 1] = x
        <5>1. PICK h : h = Append(f, x) /\ g = h
          BY <1>2, <4>1, <4>10
        <5>2. /\ IsSequence(h) /\ DOMAIN f = 1 .. L /\ DOMAIN h = 1 .. L + 1
              /\ \A p \in 1 .. L : h[p] = f[p]
              /\ h[L + 1] = x
          BY <1>2, <4>9, <4>10, <5>1
        <5> QED BY <5>1, <5>2
      <4>3. 1 .. L + 1 = (1 .. L) \cup {L + 1} /\ \A p \in 1 .. L : p < L + 1 /\ ~(L + 1 < p)
        OBVIOUS
      <4>4. s[n] # <<>> /\ ~(L + 1 < L + 1)
        BY <4>1
      <4>5. /\ DOMAIN g = DOMAIN f \cup {L + 1} /\ g[L + 1] = e[n]
            /\ \A p \in DOMAIN f : g[p] = f[p] /\ p < L + 1 /\ ~(L + 1 < p)
        BY <4>1, <4>2, <4>3
      <4>6. \A p \in DOMAIN g : \E m \in I : s[m] # <<>> /\ g[p] = e[m]
        BY <2>12, <2>6, <4>4, <4>5 DEF PicksUp
      <4>7. \A m \in I : s[m] # <<>> => \E p \in DOMAIN g : g[p] = e[m]
        <5>1. ASSUME NEW m \in 1 .. k, s[m] # <<>>
              PROVE  \E p \in DOMAIN g : g[p] = e[m]
          <6>1. PICK p \in DOMAIN f : f[p] = e[m]
            BY <2>6, <5>1 DEF PicksUp
          <6> QED BY <4>5, <6>1
        <5> QED BY <2>8, <4>5, <5>1
      <4>8. ASSUME NEW p \in DOMAIN g, NEW q \in DOMAIN g, p < q
            PROVE  \E l, m \in I : l < m /\ g[p] = e[l] /\ g[q] = e[m]
        <5>1. p \in DOMAIN f
          BY <4>4, <4>5, <4>8
        <5>2. CASE q \in DOMAIN f
          BY <2>12, <2>6, <4>5, <4>8, <5>1, <5>2 DEF PicksUp
        <5>3. CASE q = L + 1
          <6>1. PICK l \in 1 .. k : f[p] = e[l]
            BY <2>6, <5>1 DEF PicksUp
          <6> QED BY <2>8, <4>5, <5>1, <5>3, <6>1
        <5> QED BY <4>5, <5>2, <5>3
      <4> QED BY <4>2, <4>6, <4>7, <4>8
    <3> QED BY <2>7, <3>1, <3>2
  <2>11. PicksUp(flat[n], s, e, n)
    <3>1. PicksUp(g, s, e, n)
      BY <2>8, <2>10 DEF PicksUp
    <3> QED BY <2>9, <3>1
  <2> QED BY <2>2, <2>11
<1>4. N \in Nat /\ N \in 1 .. N
  OBVIOUS
<1>5. PicksUp(flat[N], s, e, N)
  BY <1>3, <1>4
<1> QED BY <1>5
=============================================================================
