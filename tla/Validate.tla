------------------------------- MODULE Validate -------------------------------
(***************************************************************************)
(* The argument checks of validate.hpp: each operator is TRUE when the     *)
(* function returns, and FALSE when it throws std::invalid_argument.       *)
(***************************************************************************)
EXTENDS Doubles, Sequences

Open(stream) == stream.open

Size(xs, n)      == Len(xs) = n
SameSize(xs, ys) == Len(xs) = Len(ys)

FiniteGt1(x)      == IsFinite(x) /\ Less(One, x)
FinitePositive(x) == IsFinite(x) /\ Less(Zero, x)
Finite(x)         == IsFinite(x)

AllFinitePositive(v) == \A i \in DOMAIN v : FinitePositive(v[i])
AllFinite(v)         == \A i \in DOMAIN v : Finite(v[i])

EachFinitePositive(vs) == \A c \in DOMAIN vs : AllFinitePositive(vs[c])
EachFinite(vs)         == \A c \in DOMAIN vs : AllFinite(vs[c])

Positive(x)        == Less(Zero, x) /\ x # Inf
PositiveInteger(n) == n > 0
AllPositive(v)     == \A i \in DOMAIN v : Less(Zero, v[i]) /\ Finite(v[i])

Probability(x)          == Less(Zero, x) /\ Less(x, One)
ProbabilityInclusive(x) == AtMost(Zero, x) /\ AtMost(x, One)
===============================================================================
