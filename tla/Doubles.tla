------------------------------- MODULE Doubles -------------------------------
(***************************************************************************)
(* Numbers of type double, as far as the properties tell them apart: an    *)
(* exact fraction <<n, d>> in lowest terms with d > 0, an infinity         *)
(* <<1, 0>> or <<-1, 0>>, or NaN, <<0, 0>>.  Operations follow IEEE 754 on *)
(* the special values and are exact, not rounded, on the others; there is  *)
(* one zero.                                                               *)
(***************************************************************************)
EXTENDS Integers, SequencesExt

Abs(n)  == IF n < 0 THEN -n ELSE n
Sign(n) == IF n > 0 THEN 1 ELSE IF n < 0 THEN -1 ELSE 0

gcd[ab \in Nat \X Nat] ==
  IF ab[2] = 0 THEN ab[1] ELSE gcd[<<ab[2], ab[1] % ab[2]>>]

\* The value of n / d.
Frac(n, d) ==
  IF d = 0 THEN <<Sign(n), 0>>
           ELSE LET g == gcd[<<Abs(n), Abs(d)>>]
                IN  <<(Sign(d) * n) \div g, Abs(d) \div g>>

NaN  == Frac(0, 0)
Inf  == Frac(1, 0)
Zero == Frac(0, 1)
One  == Frac(1, 1)

\* All of them.
Double == {x \in Int \X Int : x = Frac(x[1], x[2])}

IsFinite(x) == x[2] > 0
IsNaN(x)    == x = NaN

Negative(x) == <<-x[1], x[2]>>
Magnitude(x) == <<Abs(x[1]), x[2]>>

\* Two infinities have no common denominator: their sum is theirs, or NaN.
\* Denominators are divided by their common factor first, to stay small.
Plus(x, y) ==
  IF ~IsFinite(x) /\ ~IsFinite(y)
    THEN IF x = y THEN x ELSE NaN
    ELSE LET g == gcd[<<x[2], y[2]>>]
         IN  Frac(x[1] * (y[2] \div g) + y[1] * (x[2] \div g), (x[2] \div g) * y[2])

Minus(x, y) == Plus(x, Negative(y))

\* Crosswise reduction keeps the products small.
Times(x, y) ==
  LET a == Frac(x[1], y[2])
      b == Frac(y[1], x[2])
  IN  IF IsFinite(x) /\ IsFinite(y) THEN <<a[1] * b[1], a[2] * b[2]>>
                                    ELSE Frac(x[1] * y[1], x[2] * y[2])

Over(x, y) == Times(x, IF y[1] < 0 THEN <<-y[2], -y[1]>> ELSE <<y[2], y[1]>>)

\* No comparison with NaN is true.
Less(x, y) ==
  /\ ~IsNaN(x) /\ ~IsNaN(y)
  /\ IF x[2] = 0 /\ y[2] = 0 THEN x[1] < y[1]
                             ELSE Minus(y, x)[1] > 0

AtMost(x, y) == Less(x, y) \/ (x = y /\ ~IsNaN(x))

\* The numbers of a sequence added to, or multiplied with, a first one in turn.
SumFrom(first, xs)     == FoldLeft(Plus, first, xs)
ProductFrom(first, xs) == FoldLeft(Times, first, xs)
===============================================================================
