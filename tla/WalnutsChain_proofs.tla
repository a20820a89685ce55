-------------------------- MODULE WalnutsChain_proofs --------------------------
(***************************************************************************)
(* One WALNUTS chain.  First what the builders of config.hpp promise and   *)
(* what the estimators of adaptive_walnuts.hpp make of a chain's numbers,  *)
(* for every number of chains and dimensions, all arguments, and client    *)
(* densities that return anything or throw anywhere.  Then that the        *)
(* doublings of a transition leave the target alone, for every length of   *)
(* line, all macro steps, U-turns and densities, and any maximal depth.    *)
(***************************************************************************)
EXTENDS Adaptation, Orbit, DataLemmas

Vectors == [1 .. Dims -> Rationals]

Plenty(x) == x \in Rationals /\ Less(Zero, x)

(***************************************************************************)
(* The builder's lists.  A list that was assigned has an entry per chain   *)
(* of the right size.  A list that was not is empty, except that a density *)
(* that threw may have started on the masses: they lack the last chain's.  *)
(***************************************************************************)
Fitting(list, value) ==
  /\ DOMAIN value = Chains
  /\ list = "positions" => \A c \in Chains : value[c] \in StartPositions
  /\ list = "masses" => \A c \in Chains : DOMAIN value[c] = 1 .. Dims

Lacking(list, value, doubtful) ==
  \/ value = <<>>
  \/ list = "masses" /\ value[NumChains] = <<>> /\ "masses" \in doubtful

InRange(list, value) ==
  IF list = "step_sizes" THEN \A c \in Chains : Plenty(value[c])
  ELSE list = "masses" => \A c \in Chains, i \in 1 .. Dims : Plenty(value[c][i])

FilledRight(b, full, doubtful) ==
  /\ full \subseteq Lists /\ DOMAIN b = Lists
  /\ \A l \in full : Fitting(l, b[l])
  /\ \A l \in Lists \ full : Lacking(l, b[l], doubtful)
  /\ \A l \in full \ doubtful : InRange(l, b[l])

BuilderInv == FilledRight(builder, filled, unchecked)

LEMMA ListNames ==
  /\ Lists = {"step_sizes", "positions", "masses"}
  /\ "step_sizes" # "positions" /\ "step_sizes" # "masses" /\ "positions" # "masses"
BY DEF Lists

LEMMA ChainNumbers == NumChains \in Chains /\ NumChains \in Nat /\ Dims \in Nat /\ 1 \in 1 .. Dims
BY ConfigAssumption DEF Chains

\* Vectors of doubles and lists of them have entries.
LEMMA ListEntries ==
  /\ \A s \in Seq(Double), k \in Nat :
       Len(s) = k => DOMAIN s = 1 .. k /\ \A i \in 1 .. k : s[i] \in Double
  /\ \A vs \in VectorListArgs : \A c \in DOMAIN vs : vs[c] \in Seq(Double)
<1>1. \A S : \A s \in Seq(S), k \in Nat :
        Len(s) = k => DOMAIN s = 1 .. k /\ \A i \in 1 .. k : s[i] \in S
  OBVIOUS
<1> DEFINE Lists2 == Seq(Double)
<1>2. VectorListArgs \subseteq Seq(Lists2)
  BY ConfigAssumption
<1> HIDE DEF Lists2
<1>3. \A vs \in VectorListArgs : \A c \in DOMAIN vs : vs[c] \in Lists2
  BY <1>2
<1> QED
  BY <1>1, <1>3, Zenon DEF Lists2

LEMMA FiniteNumber ==
  /\ \A x \in Double : Finite(x) => x \in Rationals
  /\ \A x \in Double : FinitePositive(x) => Plenty(x)
  /\ \A x \in Rationals : Finite(x)
  /\ \A x : Plenty(x) => FinitePositive(x)
  /\ Zero \in Rationals /\ Plenty(One) /\ Plenty(Frac(1, 10))
<1>1. \A n, d \in Nat \ {0} : Plenty(Frac(n, d))
  <2> SUFFICES ASSUME NEW n \in Nat \ {0}, NEW d \in Nat \ {0} PROVE Plenty(Frac(n, d))
    OBVIOUS
  <2>1. n \in Int /\ n > 0 /\ d \in Nat \ {0}
    OBVIOUS
  <2>2. Frac(n, d) \in Rationals /\ Frac(n, d)[1] > 0
    BY <2>1, FracSign, FracValue
  <2> QED
    BY <2>2, LessIs, Zenon DEF Plenty
<1>2. 1 \in Nat \ {0} /\ 10 \in Nat \ {0}
  OBVIOUS
<1>3. Plenty(Frac(1, 1)) /\ Plenty(Frac(1, 10))
  BY <1>1, <1>2, Zenon
<1>4. \A x \in Rationals : IsFinite(x)
  BY RationalParts, Zenon
<1> QED
  BY <1>3, <1>4, DoublesFinite, ZeroOne, Zenon DEF Finite, FinitePositive, Plenty, One

\* A position the setters leave is finite in every dimension.
LEMMA StartsFit == StartPositions \subseteq Vectors
<1> SUFFICES ASSUME NEW p \in StartPositions PROVE p \in Vectors
  OBVIOUS
<1>0. Dims \in Nat /\ \A i \in 1 .. Dims : Zero \in Rationals
  BY ChainNumbers, ZeroOne
<1>1. CASE \E z \in Normals, scale \in Scales :
             FinitePositive(scale) /\ p = [i \in 1 .. Dims |-> Times(z[i], scale)]
  <2>1. PICK z \in Normals, scale \in Scales :
               FinitePositive(scale) /\ p = [i \in 1 .. Dims |-> Times(z[i], scale)]
    BY <1>1
  <2>2. z \in Seq(Double) /\ Len(z) = Dims /\ scale \in Double /\ AllFinite(z)
    BY ConfigAssumption DEF Size
  <2>3. DOMAIN z = 1 .. Dims /\ \A i \in 1 .. Dims : z[i] \in Double
    BY <1>0, <2>2, ListEntries, Zenon
  <2>4. \A i \in 1 .. Dims : z[i] \in Rationals
    BY <2>2, <2>3, FiniteNumber, Zenon DEF AllFinite
  <2>5. scale \in Rationals
    BY <2>1, <2>2, FiniteNumber, Zenon DEF Plenty
  <2>6. \A i \in 1 .. Dims : Times(z[i], scale) \in Rationals
    BY <2>4, <2>5, Closed, Zenon
  <2> QED
    BY <2>1, <2>6 DEF Vectors
<1>2. CASE /\ Size(p, Dims) /\ AllFinite(p)
           /\ \/ p = [i \in 1 .. Dims |-> Zero]
              \/ p \in VectorArgs
              \/ \E vs \in VectorListArgs : \E c \in DOMAIN vs : p = vs[c]
  <2>1. p = [i \in 1 .. Dims |-> Zero] => p \in Vectors
    BY <1>0 DEF Vectors
  <2>2. ASSUME p \in Seq(Double) PROVE p \in Vectors
    <3>1. DOMAIN p = 1 .. Dims /\ \A i \in 1 .. Dims : p[i] \in Double
      BY <1>0, <1>2, <2>2, ListEntries, Zenon DEF Size
    <3>2. \A i \in 1 .. Dims : p[i] \in Rationals
      BY <1>2, <3>1, FiniteNumber, Zenon DEF AllFinite
    <3>3. p = [i \in DOMAIN p |-> p[i]]
      BY <2>2
    <3> QED
      BY <3>1, <3>2, <3>3 DEF Vectors
  <2>3. p \in VectorArgs => p \in Seq(Double)
    BY ConfigAssumption
  <2>4. (\E vs \in VectorListArgs : \E c \in DOMAIN vs : p = vs[c]) => p \in Seq(Double)
    BY ListEntries, Zenon
  <2> QED
    BY <1>2, <2>1, <2>2, <2>3, <2>4, Zenon
<1> QED
  BY <1>1, <1>2 DEF StartPositions

LEMMA VectorEntries == \A p \in Vectors : DOMAIN p = 1 .. Dims /\ \A i \in 1 .. Dims : p[i] \in Rationals
BY DEF Vectors

\* A list is replaced by one that fits, with numbers that were validated or not.
LEMMA Replaced ==
  ASSUME NEW b, NEW f, NEW u, FilledRight(b, f, u), NEW l \in Lists, NEW v, Fitting(l, v)
  PROVE  /\ FilledRight([b EXCEPT ![l] = v], f \cup {l}, u \cup {l})
         /\ InRange(l, v) => FilledRight([b EXCEPT ![l] = v], f \cup {l}, u \ {l})
<1> DEFINE n == [b EXCEPT ![l] = v]
<1>1. DOMAIN b = Lists /\ f \subseteq Lists
  BY DEF FilledRight
<1>2. DOMAIN n = Lists /\ n[l] = v /\ \A k \in Lists \ {l} : n[k] = b[k]
  BY <1>1
<1> HIDE DEF n
<1>3. \A k \in f \cup {l} : Fitting(k, n[k])
  BY <1>1, <1>2, Zenon DEF FilledRight
<1>4. \A k \in Lists \ (f \cup {l}) :
        Lacking(k, n[k], u \cup {l}) /\ Lacking(k, n[k], u \ {l})
  BY <1>1, <1>2, Zenon DEF FilledRight, Lacking
<1>5. \A k \in (f \cup {l}) \ (u \cup {l}) : InRange(k, n[k])
  BY <1>1, <1>2, Zenon DEF FilledRight
<1>6. InRange(l, v) => \A k \in (f \cup {l}) \ (u \ {l}) : InRange(k, n[k])
  BY <1>1, <1>2, Zenon DEF FilledRight
<1>7. f \cup {l} \subseteq Lists
  BY <1>1
<1> QED
  BY <1>2, <1>3, <1>4, <1>5, <1>6, <1>7, Zenon DEF FilledRight, n

\* The masses a throwing density leaves.
LEMMA HalfDone ==
  ASSUME NEW b, NEW f, NEW u, FilledRight(b, f, u), "masses" \notin f,
         NEW v, Lacking("masses", v, {"masses"})
  PROVE  FilledRight([b EXCEPT !["masses"] = v], f, u \cup {"masses"})
<1> DEFINE n == [b EXCEPT !["masses"] = v]
<1>1. DOMAIN b = Lists /\ f \subseteq Lists /\ "masses" \in Lists
  BY DEF FilledRight, Lists
<1>2. DOMAIN n = Lists /\ n["masses"] = v /\ \A k \in Lists \ {"masses"} : n[k] = b[k]
  BY <1>1
<1> HIDE DEF n
<1>3. \A k \in f : Fitting(k, n[k])
  BY <1>1, <1>2, Zenon DEF FilledRight
<1>4. \A k \in Lists \ f : Lacking(k, n[k], u \cup {"masses"})
  BY <1>1, <1>2, Zenon DEF FilledRight, Lacking
<1>5. \A k \in f \ (u \cup {"masses"}) : InRange(k, n[k])
  BY <1>1, <1>2, Zenon DEF FilledRight
<1> QED
  BY <1>1, <1>2, <1>3, <1>4, <1>5, Zenon DEF FilledRight, n

LEMMA MovedAway == \A u : FilledRight(Moved, {}, u)
<1>1. DOMAIN Moved = Lists /\ \A l \in Lists : Moved[l] = <<>>
  BY DEF Moved
<1> QED
  BY <1>1, Zenon DEF FilledRight, Lacking

\* What is built from lists that are right is whole when all were filled.
LEMMA RightIsWhole ==
  ASSUME NEW b, NEW f, NEW u, FilledRight(b, f, u)
  PROVE  /\ Shaped(b) <=> f = Lists
         /\ Shaped(b) => \A list \in Lists \ u : Valid(b, list)
<1>1. \A l \in Lists : b[l] = <<>> => DOMAIN b[l] # Chains
  BY ChainNumbers
<1>2. b.masses = b["masses"] /\ b.positions = b["positions"] /\ b.step_sizes = b["step_sizes"]
  OBVIOUS
<1>3. ASSUME Shaped(b), NEW l \in Lists \ f PROVE FALSE
  <2>1. DOMAIN b[l] = Chains
    BY <1>3, Zenon DEF Shaped
  <2>2. l = "masses" /\ b[l][NumChains] = <<>>
    BY <1>1, <1>3, <2>1, Zenon DEF FilledRight, Lacking
  <2>3. DOMAIN b["masses"][NumChains] = 1 .. Dims
    BY <1>2, <1>3, ChainNumbers, Zenon DEF Shaped
  <2>4. DOMAIN <<>> # 1 .. Dims
    BY ChainNumbers
  <2> QED
    BY <2>2, <2>3, <2>4, Zenon
<1>4. ASSUME f = Lists PROVE Shaped(b) /\ \A list \in Lists \ u : Valid(b, list)
  <2>1. \A l \in Lists : Fitting(l, b[l])
    BY <1>4, Zenon DEF FilledRight
  <2>2. \A c \in Chains : b.positions[c] \in Vectors
    BY <1>2, <2>1, ListNames, StartsFit, Zenon DEF Fitting
  <2>3. \A c \in Chains : DOMAIN b.masses[c] = 1 .. Dims
    BY <1>2, <2>1, ListNames, Zenon DEF Fitting
  <2>4. \A l \in Lists : DOMAIN b[l] = Chains
    BY <2>1, Zenon DEF Fitting
  <2>5. \A l \in Lists \ u : InRange(l, b[l])
    BY <1>4, Zenon DEF FilledRight
  <2>6. ASSUME NEW l \in Lists \ u PROVE Valid(b, l)
    <3>1. InRange(l, b[l])
      BY <2>5
    <3>2. CASE l = "step_sizes"
      BY <1>2, <3>1, <3>2, FiniteNumber, Zenon DEF InRange, Valid
    <3>3. CASE l = "positions"
      BY <1>2, <2>2, <3>3, ListNames, VectorEntries, FiniteNumber, Zenon DEF Valid
    <3>4. CASE l = "masses"
      BY <1>2, <3>1, <3>4, ListNames, FiniteNumber, Zenon DEF InRange, Valid
    <3> QED
      BY <3>2, <3>3, <3>4, ListNames, Zenon
  <2> QED
    BY <2>2, <2>3, <2>4, <2>6, VectorEntries, Zenon DEF Shaped
<1>5. f \subseteq Lists
  BY DEF FilledRight
<1> QED
  BY <1>3, <1>4, <1>5

(***************************************************************************)
(* The calls of the builder.                                               *)
(***************************************************************************)
LEMMA AllAlike ==
  \A v : \A l \in Lists :
    /\ l # "positions" /\ (l = "masses" => DOMAIN v = 1 .. Dims) => Fitting(l, Same(v))
    /\ l = "positions" /\ v \in StartPositions => Fitting(l, Same(v))
<1>1. \A v : DOMAIN Same(v) = Chains /\ \A c \in Chains : Same(v)[c] = v
  BY DEF Same
<1> QED
  BY <1>1, ListNames, Zenon DEF Fitting

LEMMA ArgumentsFit ==
  /\ \A vs \in StepListArgs : Size(vs, NumChains) =>
       DOMAIN vs = Chains /\ \A c \in Chains : vs[c] \in Double
  /\ \A v \in VectorArgs : Size(v, Dims) =>
       DOMAIN v = 1 .. Dims /\ \A i \in 1 .. Dims : v[i] \in Double
  /\ \A vs \in VectorListArgs : ListSizes(vs) =>
       DOMAIN vs = Chains /\ \A c \in Chains :
         DOMAIN vs[c] = 1 .. Dims /\ \A i \in 1 .. Dims : vs[c][i] \in Double
<1>1. StepListArgs \subseteq Seq(Double) /\ VectorArgs \subseteq Seq(Double)
  BY ConfigAssumption
<1>2. ASSUME NEW vs \in VectorListArgs, ListSizes(vs)
      PROVE  DOMAIN vs = Chains /\ \A c \in Chains :
               DOMAIN vs[c] = 1 .. Dims /\ \A i \in 1 .. Dims : vs[c][i] \in Double
  <2> DEFINE Doubled == Seq(Double)
  <2>1. vs \in Seq(Doubled)
    BY ConfigAssumption
  <2> HIDE DEF Doubled
  <2>2. Len(vs) = NumChains /\ \A c \in DOMAIN vs : Len(vs[c]) = Dims
    BY <1>2, Zenon DEF ListSizes, Size
  <2>3. DOMAIN vs = Chains
    BY <2>1, <2>2, ChainNumbers DEF Chains
  <2> QED
    BY <2>2, <2>3, ListEntries, ChainNumbers, Zenon
<1> QED
  BY <1>1, <1>2, ListEntries, ChainNumbers, Zenon DEF Size, Chains

\* A setter leaves the lists right when what it accepts fits and is in range.
LEMMA SetterRight ==
  ASSUME BuilderInv, NEW l \in Lists, NEW v, Fitting(l, v), InRange(l, v),
         builder' = [builder EXCEPT ![l] = v],
         filled' = filled \cup {l}, unchecked' = unchecked \ {l}
  PROVE  BuilderInv'
<1>1. FilledRight([builder EXCEPT ![l] = v], filled \cup {l}, unchecked \ {l})
  BY Replaced DEF BuilderInv
<1> QED
  BY <1>1, Zenon DEF BuilderInv

LEMMA BuilderKept ==
  BuilderInv /\ UNCHANGED <<builder, filled, unchecked>> => BuilderInv'
BY Zenon DEF BuilderInv

LEMMA SettersRight ==
  BuilderInv /\ (StepSizeAll \/ StepSizes \/ RandomPositions \/ PositionAll \/ Positions
                   \/ MassAll \/ Masses)
    => BuilderInv' /\ UNCHANGED <<init, wholeness>>
<1> SUFFICES ASSUME BuilderInv,
                    StepSizeAll \/ StepSizes \/ RandomPositions \/ PositionAll \/ Positions
                      \/ MassAll \/ Masses
             PROVE  BuilderInv'
  BY Zenon DEF StepSizeAll, StepSizes, RandomPositions, PositionAll, Positions, MassAll,
               Masses, Assign
<1> USE ListNames
<1>1. CASE StepSizeAll
  <2>1. PICK v \in StepArgs : Assign("step_sizes", FinitePositive(v), Same(v))
    BY <1>1 DEF StepSizeAll
  <2>2. CASE FinitePositive(v)
    <3>1. Fitting("step_sizes", Same(v)) /\ InRange("step_sizes", Same(v))
      <4>1. Plenty(v)
        BY <2>2, ConfigAssumption, FiniteNumber
      <4>2. \A c \in Chains : Same(v)[c] = v
        BY DEF Same
      <4> QED
        BY <4>1, <4>2, AllAlike, Zenon DEF InRange
    <3> QED
      BY <2>1, <2>2, <3>1, SetterRight, Zenon DEF Assign
  <2> QED
    BY <2>1, <2>2, BuilderKept, Zenon DEF Assign
<1>2. CASE StepSizes
  <2>1. PICK vs \in StepListArgs :
               Assign("step_sizes", Size(vs, NumChains) /\ AllFinitePositive(vs), vs)
    BY <1>2 DEF StepSizes
  <2>2. CASE Size(vs, NumChains) /\ AllFinitePositive(vs)
    <3>1. Fitting("step_sizes", vs) /\ InRange("step_sizes", vs)
      BY <2>2, ArgumentsFit, FiniteNumber, Zenon DEF Fitting, InRange, AllFinitePositive
    <3> QED
      BY <2>1, <2>2, <3>1, SetterRight, Zenon DEF Assign
  <2> QED
    BY <2>1, <2>2, BuilderKept, Zenon DEF Assign
<1>3. CASE RandomPositions
  <2>1. PICK scale \in Scales, z \in [Chains -> Normals] :
               Assign("positions", FinitePositive(scale),
                      [c \in Chains |-> [i \in 1 .. Dims |-> Times(z[c][i], scale)]])
    BY <1>3 DEF RandomPositions
  <2> DEFINE vs == [c \in Chains |-> [i \in 1 .. Dims |-> Times(z[c][i], scale)]]
  <2>2. CASE FinitePositive(scale)
    <3>1. DOMAIN vs = Chains /\ \A c \in Chains : vs[c] \in StartPositions
      <4>1. ASSUME NEW c \in Chains PROVE vs[c] \in StartPositions
        <5>1. z[c] \in Normals /\ vs[c] = [i \in 1 .. Dims |-> Times(z[c][i], scale)]
          BY <4>1
        <5> HIDE DEF vs
        <5>2. \E y \in Normals, x \in {x \in Scales : FinitePositive(x)} :
                 vs[c] = [i \in 1 .. Dims |-> Times(y[i], x)]
          BY <2>2, <5>1
        <5> QED
          BY <5>2 DEF StartPositions
      <4> QED
        BY <4>1
    <3>2. Fitting("positions", vs) /\ InRange("positions", vs)
      <4> HIDE DEF vs
      <4> QED
        BY <3>1, Zenon DEF Fitting, InRange
    <3> QED
      BY <2>1, <2>2, <3>2, SetterRight, Zenon DEF Assign
  <2> QED
    BY <2>1, <2>2, BuilderKept, Zenon DEF Assign
<1>4. CASE PositionAll
  <2>1. PICK v \in VectorArgs : Assign("positions", Size(v, Dims) /\ AllFinite(v), Same(v))
    BY <1>4 DEF PositionAll
  <2>2. CASE Size(v, Dims) /\ AllFinite(v)
    <3>1. v \in StartPositions
      BY <2>2 DEF StartPositions
    <3>2. Fitting("positions", Same(v)) /\ InRange("positions", Same(v))
      BY <3>1, AllAlike, Zenon DEF InRange
    <3> QED
      BY <2>1, <2>2, <3>2, SetterRight, Zenon DEF Assign
  <2> QED
    BY <2>1, <2>2, BuilderKept, Zenon DEF Assign
<1>5. CASE Positions
  <2>1. PICK vs \in VectorListArgs : Assign("positions", ListSizes(vs) /\ EachFinite(vs), vs)
    BY <1>5 DEF Positions
  <2>2. CASE ListSizes(vs) /\ EachFinite(vs)
    <3>1. DOMAIN vs = Chains
      BY <2>2, ArgumentsFit, Zenon
    <3>2. ASSUME NEW c \in Chains PROVE vs[c] \in StartPositions
      <4>1. Size(vs[c], Dims) /\ AllFinite(vs[c])
        BY <2>2, <3>1, Zenon DEF ListSizes, EachFinite
      <4>2. vs[c] \in UNION {{ws[k] : k \in DOMAIN ws} : ws \in VectorListArgs}
        BY <3>1
      <4> QED
        BY <4>1, <4>2 DEF StartPositions
    <3>3. Fitting("positions", vs) /\ InRange("positions", vs)
      BY <3>1, <3>2, Zenon DEF Fitting, InRange
    <3> QED
      BY <2>1, <2>2, <3>3, SetterRight, Zenon DEF Assign
  <2> QED
    BY <2>1, <2>2, BuilderKept, Zenon DEF Assign
<1>6. CASE MassAll
  <2>1. PICK v \in VectorArgs : Assign("masses", Size(v, Dims) /\ AllFinitePositive(v), Same(v))
    BY <1>6 DEF MassAll
  <2>2. CASE Size(v, Dims) /\ AllFinitePositive(v)
    <3>1. DOMAIN v = 1 .. Dims /\ \A i \in 1 .. Dims : Plenty(v[i])
      BY <2>2, ArgumentsFit, FiniteNumber, Zenon DEF AllFinitePositive
    <3>2. Fitting("masses", Same(v)) /\ InRange("masses", Same(v))
      <4>1. \A c \in Chains : Same(v)[c] = v
        BY DEF Same
      <4> QED
        BY <3>1, <4>1, AllAlike, Zenon DEF InRange
    <3> QED
      BY <2>1, <2>2, <3>2, SetterRight, Zenon DEF Assign
  <2> QED
    BY <2>1, <2>2, BuilderKept, Zenon DEF Assign
<1>7. CASE Masses
  <2>1. PICK vs \in VectorListArgs :
               Assign("masses", ListSizes(vs) /\ EachFinitePositive(vs), vs)
    BY <1>7 DEF Masses
  <2>2. CASE ListSizes(vs) /\ EachFinitePositive(vs)
    <3>1. /\ DOMAIN vs = Chains
          /\ \A c \in Chains :
               DOMAIN vs[c] = 1 .. Dims /\ \A i \in 1 .. Dims : vs[c][i] \in Double
      BY <2>2, ArgumentsFit, Zenon
    <3>2. \A c \in Chains, i \in 1 .. Dims : Plenty(vs[c][i])
      BY <2>2, <3>1, FiniteNumber, Zenon DEF EachFinitePositive, AllFinitePositive
    <3>3. Fitting("masses", vs) /\ InRange("masses", vs)
      BY <3>1, <3>2, ListNames, Zenon DEF Fitting, InRange
    <3> QED
      BY <2>1, <2>2, <3>3, SetterRight, Zenon DEF Assign
  <2> QED
    BY <2>1, <2>2, BuilderKept, Zenon DEF Assign
<1> QED
  BY <1>1, <1>2, <1>3, <1>4, <1>5, <1>6, <1>7, Zenon

\* Averaging leaves every chain one of the chains' masses.
LEMMA AveragesFit ==
  \A v : Fitting("masses", v) => \A ms \in Averages(v) : Fitting("masses", ms)
<1> SUFFICES ASSUME NEW v, Fitting("masses", v), NEW ms \in Averages(v)
             PROVE  Fitting("masses", ms)
  OBVIOUS
<1>1. \E c \in DOMAIN v : ms = Same(v[c])
  BY DEF Averages
<1> QED
  BY <1>1, AllAlike, ListNames, Zenon DEF Fitting

\* Masses from gradients: a list that fits when no density threw, and otherwise
\* one whose last entry is the old one.
LEMMA GradientsRight ==
  BuilderInv /\ GradientMasses => BuilderInv' /\ UNCHANGED <<init, wholeness>>
<1> SUFFICES ASSUME BuilderInv, GradientMasses
             PROVE  BuilderInv' /\ UNCHANGED <<init, wholeness>>
  OBVIOUS
<1> DEFINE m == builder.masses
           old(c) == IF c \in DOMAIN m THEN m[c] ELSE <<>>
           throws(g) == {c \in DOMAIN builder.positions : g[builder.positions[c]] = Throws}
           done(g, c) == \A k \in throws(g) : c < k
           new(g, s) == [c \in Chains |->
                           IF done(g, c) THEN SmoothedMass(g[builder.positions[c]], s) ELSE old(c)]
<1>1. PICK s \in Smoothings, g \in Gradients, average \in BOOLEAN :
        /\ UNCHANGED <<init, wholeness>>
        /\ IF ~Probability(s) \/ builder.positions = <<>>
             THEN UNCHANGED <<builder, filled, unchecked>>
           ELSE IF throws(g) # {}
             THEN /\ builder' = [builder EXCEPT !.masses = new(g, s)]
                  /\ unchecked' = unchecked \cup {"masses"}
                  /\ UNCHANGED filled
             ELSE /\ \E ms \in IF average THEN Averages(new(g, s)) ELSE {new(g, s)} :
                       builder' = [builder EXCEPT !.masses = ms]
                  /\ filled' = filled \cup {"masses"}
                  /\ unchecked' = unchecked \cup {"masses"}
  BY ZenonT(60) DEF GradientMasses
<1> DEFINE v == new(g, s)
<1>2. builder.masses = builder["masses"] /\ builder.positions = builder["positions"]
  OBVIOUS
<1>3. "masses" \in Lists /\ "positions" \in Lists
  BY ListNames
<1>4. CASE Probability(s) /\ builder.positions # <<>>
  <2>1. "positions" \in filled
    BY <1>2, <1>3, <1>4, ListNames, Zenon DEF BuilderInv, FilledRight, Lacking
  <2>2. DOMAIN builder.positions = Chains /\ \A c \in Chains : builder.positions[c] \in StartPositions
    BY <1>2, <2>1, Zenon DEF BuilderInv, FilledRight, Fitting
  <2>3. \A c \in Chains : g[builder.positions[c]] # Throws => DOMAIN g[builder.positions[c]] = 1 .. Dims
    BY <2>2, ConfigAssumption, Zenon
  <2>4. \A c \in Chains : done(g, c) => c \notin throws(g)
    BY DEF Chains
  <2>5. \A c \in Chains : done(g, c) => DOMAIN g[builder.positions[c]] = 1 .. Dims
    BY <2>2, <2>3, <2>4, Zenon
  <2>6. DOMAIN v = Chains
    OBVIOUS
  <2>7. \A c \in Chains : v[c] = IF done(g, c) THEN SmoothedMass(g[builder.positions[c]], s) ELSE old(c)
    OBVIOUS
  <2>8. \A c \in Chains : done(g, c) => DOMAIN v[c] = 1 .. Dims
    <3>1. \A w : DOMAIN SmoothedMass(w, s) = DOMAIN w
      BY DEF SmoothedMass
    <3> HIDE DEF v, done
    <3> QED
      BY <2>5, <2>7, <3>1, Zenon
  <2>9. CASE throws(g) = {}
    <3>1. Fitting("masses", v)
      <4>1. \A c \in Chains : done(g, c)
        BY <2>9
      <4> HIDE DEF v, done
      <4> QED
        BY <2>6, <2>8, <4>1, ListNames, Zenon DEF Fitting
    <3> HIDE DEF v
    <3>2. PICK ms : Fitting("masses", ms) /\ builder' = [builder EXCEPT !.masses = ms]
      <4>1. PICK ms \in IF average THEN Averages(v) ELSE {v} :
                   builder' = [builder EXCEPT !.masses = ms]
        BY <1>1, <1>4, <2>9 DEF v
      <4>2. Fitting("masses", ms)
        BY <3>1, <4>1, AveragesFit, Zenon
      <4> QED
        BY <4>1, <4>2
    <3>3. filled' = filled \cup {"masses"} /\ unchecked' = unchecked \cup {"masses"}
      BY <1>1, <1>4, <2>9
    <3>4. FilledRight([builder EXCEPT !["masses"] = ms], filled \cup {"masses"},
                      unchecked \cup {"masses"})
      BY <1>3, <3>2, Replaced DEF BuilderInv
    <3> QED
      BY <1>1, <3>2, <3>3, <3>4 DEF BuilderInv
  <2>10. CASE throws(g) # {}
    <3>1. builder' = [builder EXCEPT !["masses"] = v] /\ filled' = filled
          /\ unchecked' = unchecked \cup {"masses"}
      BY <1>1, <1>4, <2>10
    <3>2. CASE "masses" \in filled
      <4>1. DOMAIN m = Chains /\ \A c \in Chains : DOMAIN m[c] = 1 .. Dims
        BY <1>2, <3>2, Zenon DEF BuilderInv, FilledRight, Fitting
      <4>2. \A c \in Chains : DOMAIN v[c] = 1 .. Dims
        <5> HIDE DEF v, done, m
        <5> QED
          BY <2>7, <2>8, <4>1, Zenon
      <4>3. Fitting("masses", v)
        <5> HIDE DEF v
        <5> QED
          BY <2>6, <4>2, ListNames, Zenon DEF Fitting
      <4> HIDE DEF v
      <4>4. FilledRight([builder EXCEPT !["masses"] = v], filled \cup {"masses"},
                        unchecked \cup {"masses"})
        BY <1>3, <4>3, Replaced DEF BuilderInv
      <4>5. filled \cup {"masses"} = filled
        BY <3>2
      <4> QED
        BY <1>1, <3>1, <4>4, <4>5, Zenon DEF BuilderInv
    <3>3. CASE "masses" \notin filled
      <4>1. m = <<>> \/ m[NumChains] = <<>>
        BY <1>2, <1>3, <3>3, Zenon DEF BuilderInv, FilledRight, Lacking
      <4>2. ~done(g, NumChains)
        <5>1. PICK k \in Chains : k \in throws(g)
          BY <2>2, <2>10
        <5>2. ~(NumChains < k)
          BY <5>1, ChainNumbers DEF Chains
        <5> QED
          BY <5>1, <5>2
      <4>3. v[NumChains] = old(NumChains)
        <5> HIDE DEF v, done, old
        <5> QED
          BY <2>7, <4>2, ChainNumbers, Zenon
      <4>4. old(NumChains) = <<>>
        BY <4>1
      <4>5. Lacking("masses", v, {"masses"})
        <5> HIDE DEF v, old
        <5> QED
          BY <4>3, <4>4, Zenon DEF Lacking
      <4> HIDE DEF v
      <4>6. FilledRight([builder EXCEPT !["masses"] = v], filled, unchecked \cup {"masses"})
        BY <3>3, <4>5, HalfDone DEF BuilderInv
      <4> QED
        BY <1>1, <3>1, <4>6, Zenon DEF BuilderInv
    <3> QED
      BY <3>2, <3>3
  <2> QED
    BY <2>9, <2>10
<1>5. CASE ~(Probability(s) /\ builder.positions # <<>>)
  <2>1. UNCHANGED <<builder, filled, unchecked>>
    BY <1>1, <1>5
  <2> QED
    BY <1>1, <2>1, BuilderKept
<1> QED
  BY <1>4, <1>5

(***************************************************************************)
(* The lists in the builder and those built last.                          *)
(***************************************************************************)
BuildInv ==
  /\ BuilderInv
  /\ DOMAIN wholeness = {"filled", "unchecked"}
  /\ FilledRight(init, wholeness.filled, wholeness.unchecked)

LEMMA BuiltAside ==
  BuildInv /\ BuilderInv' /\ UNCHANGED <<init, wholeness>> => BuildInv'
BY Zenon DEF BuildInv

\* The lists are as right in the config they move into.
LEMMA MovedIn ==
  ASSUME NEW b, NEW f, NEW u, FilledRight(b, f, u), Moving(b),
         DOMAIN wholeness' = {"filled", "unchecked"},
         wholeness'.filled = f, wholeness'.unchecked = u
  PROVE  BuildInv'
<1>1. init' = b /\ builder' = Moved /\ filled' = {} /\ unchecked' = {}
  BY DEF Moving
<1>2. FilledRight(Moved, {}, {})
  BY MovedAway
<1>3. BuilderInv'
  BY <1>1, <1>2, Zenon DEF BuilderInv
<1> QED
  BY <1>1, <1>3, Zenon DEF BuildInv

LEMMA BuildRight == BuildInv /\ Build => BuildInv'
<1> SUFFICES ASSUME BuildInv, Build PROVE BuildInv'
  OBVIOUS
<1>1. Moving(builder) /\ wholeness' = [filled |-> filled, unchecked |-> unchecked]
  BY DEF Build
<1>2. /\ DOMAIN wholeness' = {"filled", "unchecked"}
      /\ wholeness'.filled = filled /\ wholeness'.unchecked = unchecked
  BY <1>1
<1> QED
  BY <1>1, <1>2, MovedIn DEF BuildInv, BuilderInv

LEMMA AdaptBuildRight == BuildInv /\ AdaptStepBuild => BuildInv'
<1> SUFFICES ASSUME BuildInv, AdaptStepBuild PROVE BuildInv'
  OBVIOUS
<1>1. CASE filled # Lists
  <2>1. UNCHANGED <<builder, init, filled, unchecked, wholeness>>
    BY <1>1 DEF AdaptStepBuild
  <2> QED
    BY <2>1, BuilderKept, BuiltAside, Zenon DEF BuildInv
<1>2. CASE filled = Lists
  <2> DEFINE throws(curve) == {c \in Chains : curve[c][LastLevel(curve[c])] = "throws"}
             done(curve, c) == \A k \in throws(curve) : c < k
             steps(curve, old) ==
               [c \in Chains |-> IF done(curve, c) THEN AdaptedStep(curve[c], old[c]) ELSE old[c]]
  <2>1. PICK curve \in [Chains -> Curves] :
          IF throws(curve) # {}
            THEN /\ builder' = [builder EXCEPT !["step_sizes"] = steps(curve, builder["step_sizes"])]
                 /\ unchecked' = unchecked \cup {"step_sizes"}
                 /\ UNCHANGED <<init, filled, wholeness>>
            ELSE /\ Moving([builder EXCEPT !["step_sizes"] = steps(curve, builder["step_sizes"])])
                 /\ wholeness' = [filled |-> filled, unchecked |-> unchecked \cup {"step_sizes"}]
    BY <1>2 DEF AdaptStepBuild
  <2> DEFINE v == steps(curve, builder["step_sizes"])
             b == [builder EXCEPT !["step_sizes"] = v]
  <2>2. Fitting("step_sizes", v)
    BY ListNames DEF Fitting
  <2> HIDE DEF v
  <2>3. FilledRight(b, filled \cup {"step_sizes"}, unchecked \cup {"step_sizes"})
    BY <2>2, ListNames, Replaced DEF BuildInv, BuilderInv
  <2>4. filled \cup {"step_sizes"} = filled
    BY <1>2, ListNames
  <2> HIDE DEF b
  <2>5. FilledRight(b, filled, unchecked \cup {"step_sizes"})
    BY <2>3, <2>4, Zenon
  <2>6. CASE throws(curve) # {}
    <3>1. /\ builder' = b /\ unchecked' = unchecked \cup {"step_sizes"}
          /\ UNCHANGED <<init, filled, wholeness>>
      BY <2>1, <2>6 DEF b, v
    <3>2. BuilderInv'
      BY <2>5, <3>1, Zenon DEF BuilderInv
    <3> QED
      BY <3>1, <3>2, BuiltAside, Zenon
  <2>7. CASE throws(curve) = {}
    <3>1. /\ Moving(b)
          /\ wholeness' = [filled |-> filled, unchecked |-> unchecked \cup {"step_sizes"}]
      BY <2>1, <2>7 DEF b, v
    <3>2. /\ DOMAIN wholeness' = {"filled", "unchecked"}
          /\ wholeness'.filled = filled /\ wholeness'.unchecked = unchecked \cup {"step_sizes"}
      BY <3>1
    <3> QED
      BY <2>5, <3>1, <3>2, MovedIn
  <2> QED
    BY <2>6, <2>7
<1> QED
  BY <1>1, <1>2

LEMMA ConfigRight == BuildInv /\ ConfigNext => BuildInv'
<1> SUFFICES ASSUME BuildInv, ConfigNext PROVE BuildInv'
  OBVIOUS
<1>1. CASE StepSizeAll \/ StepSizes \/ RandomPositions \/ PositionAll \/ Positions
             \/ MassAll \/ Masses
  BY <1>1, SettersRight, BuiltAside, Zenon DEF BuildInv
<1>2. CASE GradientMasses
  BY <1>2, GradientsRight, BuiltAside, Zenon DEF BuildInv
<1>3. CASE Build
  BY <1>3, BuildRight, Zenon
<1>4. CASE AdaptStepBuild
  BY <1>4, AdaptBuildRight, Zenon
<1>5. CASE WarmupField \/ SamplingField \/ WarmupMinMaxIter \/ SamplingMinMaxIter
  <2>1. UNCHANGED <<builder, init, filled, unchecked, wholeness>>
    BY <1>5, Zenon DEF WarmupField, SamplingField, WarmupMinMaxIter, SamplingMinMaxIter, initVars
  <2> QED
    BY <2>1, BuilderKept, BuiltAside, Zenon DEF BuildInv
<1> QED
  BY <1>1, <1>2, <1>3, <1>4, <1>5, Zenon DEF ConfigNext

LEMMA StartRight == \A n \in Chains : BuildInv /\ Start(n) => BuildInv'
<1> SUFFICES ASSUME NEW n \in Chains, BuildInv, Start(n) PROVE BuildInv'
  OBVIOUS
<1>1. /\ builder' = Moved /\ filled' = {} /\ unchecked' = {} /\ init' = Moved
      /\ wholeness' = [wholeness EXCEPT !.filled = {}]
  BY Zenon DEF Start
<1>2. DOMAIN wholeness = {"filled", "unchecked"}
  BY DEF BuildInv
<1>3. DOMAIN wholeness' = {"filled", "unchecked"} /\ wholeness'.filled = {}
  BY <1>1, <1>2
<1>4. Moving(Moved)
  BY <1>1, Zenon DEF Moving
<1>5. FilledRight(Moved, {}, wholeness'.unchecked)
  BY MovedAway
<1> QED
  BY <1>3, <1>4, <1>5, MovedIn

LEMMA BuildInvInit == Init => BuildInv
<1> SUFFICES ASSUME Init PROVE BuildInv
  OBVIOUS
<1> DEFINE zeros == [i \in 1 .. Dims |-> Zero]
           ones  == [i \in 1 .. Dims |-> One]
<1>1. /\ builder = [step_sizes |-> Same(Frac(1, 10)), positions |-> Same(zeros),
                    masses |-> Same(ones)]
      /\ init = Moved /\ filled = Lists /\ unchecked = {}
      /\ wholeness = [filled |-> {}, unchecked |-> {}]
  BY Zenon DEF Init, ConfigInit
<1>2. Plenty(Frac(1, 10)) /\ Plenty(One) /\ Finite(Zero)
  BY FiniteNumber, Zenon
<1>3. zeros \in StartPositions
  <2>1. Size(zeros, Dims)
    BY ChainNumbers DEF Size
  <2>2. AllFinite(zeros)
    BY <1>2 DEF AllFinite
  <2> QED
    BY <2>1, <2>2 DEF StartPositions
<1>4. DOMAIN ones = 1 .. Dims /\ \A i \in 1 .. Dims : ones[i] = One
  OBVIOUS
<1> HIDE DEF zeros, ones
<1>6. /\ DOMAIN builder = Lists /\ builder["step_sizes"] = Same(Frac(1, 10))
      /\ builder["positions"] = Same(zeros) /\ builder["masses"] = Same(ones)
  BY <1>1, ListNames
<1>7. \A l \in Lists : Fitting(l, builder[l])
  BY <1>3, <1>4, <1>6, AllAlike, ListNames, Zenon
<1>8. \A l \in Lists : InRange(l, builder[l])
  <2>1. \A v : \A c \in Chains : Same(v)[c] = v
    BY DEF Same
  <2>2. InRange("step_sizes", builder["step_sizes"])
    BY <1>2, <1>6, <2>1, Zenon DEF InRange
  <2>3. InRange("positions", builder["positions"])
    BY ListNames, Zenon DEF InRange
  <2>4. InRange("masses", builder["masses"])
    <3>1. \A c \in Chains, i \in 1 .. Dims : Plenty(builder["masses"][c][i])
      <4>1. \A c \in Chains : builder["masses"][c] = ones
        BY <1>6, <2>1
      <4>2. \A i \in 1 .. Dims : Plenty(ones[i])
        BY <1>2, <1>4, Zenon
      <4> QED
        BY <4>1, <4>2
    <3> QED
      BY <3>1, ListNames DEF InRange
  <2> QED
    BY <2>2, <2>3, <2>4, ListNames, Zenon
<1>9. BuilderInv
  <2>1. Lists \subseteq Lists /\ Lists \ Lists = {} /\ Lists \ {} = Lists
    OBVIOUS
  <2> QED
    BY <1>1, <1>6, <1>7, <1>8, <2>1, Zenon DEF BuilderInv, FilledRight
<1>10. FilledRight(init, wholeness.filled, wholeness.unchecked)
  <2>1. wholeness.filled = {} /\ wholeness.unchecked = {}
    BY <1>1
  <2> QED
    BY <1>1, <2>1, MovedAway, Zenon
<1> QED
  BY <1>1, <1>9, <1>10 DEF BuildInv

\* Whatever was called before, refused or interrupted half way, build() gives
\* every chain a step size, position and mass of the right size exactly when
\* each list was filled since the lists last moved out, and then the numbers
\* are usable except in a list the client's density wrote into.
THEOREM BuildsAreWhole == Spec => []BuiltWhole
<1>1. Init => BuildInv
  BY BuildInvInit
<1>2. BuildInv /\ [Next]_vars => BuildInv'
  <2> SUFFICES ASSUME BuildInv, [Next]_vars PROVE BuildInv'
    OBVIOUS
  <2>1. CASE Configure
    BY <2>1, ConfigRight, Zenon DEF Configure
  <2>2. CASE \E n \in Chains : Start(n)
    BY <2>2, StartRight, Zenon
  <2>3. CASE Iterate \/ Sampler \/ UNCHANGED vars
    <3>1. UNCHANGED <<builder, init, filled, unchecked, wholeness>>
      BY <2>3, Zenon DEF Iterate, Sampler, vars, configVars
    <3> QED
      BY <3>1, BuilderKept, BuiltAside, Zenon DEF BuildInv
  <2> QED
    BY <2>1, <2>2, <2>3, Zenon DEF Next
<1>3. BuildInv => BuiltWhole
  <2>1. ASSUME NEW b, NEW w, DOMAIN w = {"filled", "unchecked"}, FilledRight(b, w.filled, w.unchecked)
        PROVE  /\ Shaped(b) <=> w.filled = Lists
               /\ Shaped(b) => \A list \in Lists \ w.unchecked : Valid(b, list)
    BY <2>1, RightIsWhole
  <2> QED
    BY <2>1, Zenon DEF BuildInv, BuiltWhole
<1> QED
  BY <1>1, <1>2, <1>3, PTL DEF Spec

-------------------------------------------------------------------------------

(***************************************************************************)
(* The two configurations of scalars.                                      *)
(***************************************************************************)
Probable(x) == x \in Rationals /\ Less(Zero, x) /\ Less(x, One)

WarmupInv ==
  /\ DOMAIN warmup = DOMAIN WarmupDefaults
  /\ warmup.min_iter \in Nat /\ warmup.max_iter \in Nat /\ warmup.min_iter <= warmup.max_iter
  /\ Plenty(warmup.mass_init_count) /\ Plenty(warmup.max_macro_steps_target)
  /\ Probable(warmup.step_accept_rate_target)
  /\ Probable(warmup.step_gradient_decay) /\ Probable(warmup.step_sq_gradient_decay)

SamplingInv ==
  /\ DOMAIN sampling = DOMAIN SamplingDefaults
  /\ sampling.min_iter \in Nat /\ sampling.max_iter \in Nat /\ sampling.min_iter <= sampling.max_iter
  /\ sampling.max_trajectory_doublings \in Nat /\ sampling.max_step_halvings \in Nat
  /\ sampling.min_micro_steps \in Nat \ {0}
  /\ Plenty(sampling.max_hamiltonian_error)

\* No infinity passes the check for a probability.
LEMMA ProbabilityIs == \A x \in Double : Probability(x) => Probable(x)
<1> SUFFICES ASSUME NEW x \in Double, Probability(x), ~IsFinite(x) PROVE FALSE
  BY DoublesFinite, Zenon DEF Probability, Probable
<1>1. x \in Int \X Int /\ x = Frac(x[1], x[2])
  BY DEF Double
<1>2. x # NaN
  BY Zenon DEF Probability, Less, IsNaN
<1>3. x[2] = 0
  <2>1. CASE x[2] = 0
    BY <2>1
  <2>2. CASE x[2] < 0
    <3>1. ~IsFinite(x) /\ x[2] # 0 /\ x[1] \in Int /\ x[2] \in Int
      BY <1>1, <2>2
    <3> DEFINE g == gcd[<<Abs(x[1]), Abs(x[2])>>]
    <3>2. x[2] = Abs(x[2]) \div g
      BY <1>1, <3>1 DEF Frac
    <3>3. Abs(x[2]) \in Nat \ {0} /\ Abs(x[1]) \in Nat
      BY <3>1 DEF Abs
    <3>4. g \in Nat /\ g > 0
      BY <3>3, GcdBounds
    <3> HIDE DEF g
    <3>5. \A n \in Nat : n \div g \in Nat
      BY <3>4
    <3>6. Abs(x[2]) \div g \in Nat
      BY <3>3, <3>5
    <3> QED
      BY <2>2, <3>2, <3>6
  <2> QED
    BY <1>1, <2>1, <2>2 DEF IsFinite
<1>4. x = <<1, 0>> \/ x = <<-1, 0>> \/ x = <<0, 0>>
  <2>1. x = <<Sign(x[1]), 0>>
    BY <1>1, <1>3, Zenon DEF Frac
  <2> QED
    BY <1>1, <2>1 DEF Sign
<1>5. \A k \in Int : -k = 0 - k
  OBVIOUS
<1>6. /\ gcd[<<1, 0>>] = 1 /\ gcd[<<0, 1>>] = 1
  BY GcdUnfolds, GcdCommutes
<1>7. CASE x = <<1, 0>>
  <2>1. Minus(One, x)[1] > 0
    <3>1. ~(x[2] = 0 /\ One[2] = 0)
      BY ZeroOne
    <3> QED
      BY <3>1, Zenon DEF Probability, Less
  <2>2. Negative(x) = <<-1, 0>>
    BY <1>7 DEF Negative
  <2> DEFINE y == <<-1, 0>>
             o == <<1, 1>>
  <2>3. Plus(o, y) = Frac(o[1] * (y[2] \div gcd[<<o[2], y[2]>>]) + y[1] * (o[2] \div gcd[<<o[2], y[2]>>]),
                          (o[2] \div gcd[<<o[2], y[2]>>]) * y[2])
    <3>1. IsFinite(o)
      BY DEF IsFinite
    <3> HIDE DEF o, y
    <3> QED
      BY <3>1, Zenon DEF Plus
  <2>4. o[2] = 1 /\ y[2] = 0 /\ o[1] = 1 /\ y[1] = -1
    OBVIOUS
  <2> HIDE DEF o, y
  <2>5. Plus(o, y) = Frac(1 * (0 \div 1) + (-1) * (1 \div 1), (1 \div 1) * 0)
    BY <1>6, <2>3, <2>4, Zenon
  <2>6. 1 * (0 \div 1) + (-1) * (1 \div 1) = -1 /\ (1 \div 1) * 0 = 0
    OBVIOUS
  <2>7. Plus(o, y) = Frac(-1, 0)
    BY <2>5, <2>6, Zenon
  <2>8. Plus(o, y) = <<-1, 0>>
    BY <2>7 DEF Frac, Sign
  <2>9. Minus(One, x) = Plus(o, y)
    BY <2>2, ZeroOne, Zenon DEF Minus, o, y
  <2> QED
    BY <2>1, <2>8, <2>9
<1>8. CASE x = <<-1, 0>>
  <2>1. Minus(x, Zero)[1] > 0
    <3>1. ~(Zero[2] = 0 /\ x[2] = 0)
      BY ZeroOne
    <3> QED
      BY <3>1, Zenon DEF Probability, Less
  <2> DEFINE y == <<-1, 0>>
             o == <<0, 1>>
  <2>2. Negative(Zero) = o
    <3>1. Zero[1] = 0 /\ Zero[2] = 1 /\ 0 - 0 = 0 /\ 0 \in Int
      BY ZeroOne
    <3> QED
      BY <1>5, <3>1, Zenon DEF Negative
  <2>3. Plus(y, o) = Frac(y[1] * (o[2] \div gcd[<<y[2], o[2]>>]) + o[1] * (y[2] \div gcd[<<y[2], o[2]>>]),
                          (y[2] \div gcd[<<y[2], o[2]>>]) * o[2])
    <3>1. IsFinite(o)
      BY DEF IsFinite
    <3> HIDE DEF o, y
    <3> QED
      BY <3>1, Zenon DEF Plus
  <2>4. o[2] = 1 /\ y[2] = 0 /\ o[1] = 0 /\ y[1] = -1
    OBVIOUS
  <2> HIDE DEF o, y
  <2>5. Plus(y, o) = Frac((-1) * (1 \div 1) + 0 * (0 \div 1), (0 \div 1) * 1)
    BY <1>6, <2>3, <2>4, Zenon
  <2>6. (-1) * (1 \div 1) + 0 * (0 \div 1) = -1 /\ (0 \div 1) * 1 = 0
    OBVIOUS
  <2>7. Plus(y, o) = Frac(-1, 0)
    BY <2>5, <2>6, Zenon
  <2>8. Plus(y, o) = <<-1, 0>>
    BY <2>7 DEF Frac, Sign
  <2>9. Minus(x, Zero) = Plus(y, o)
    BY <1>8, <2>2, Zenon DEF Minus, y
  <2> QED
    BY <2>1, <2>8, <2>9
<1> QED
  BY <1>2, <1>4, <1>7, <1>8, DoublesFinite

WarmupFields ==
  {"min_iter", "max_iter", "step_size_converge_tol", "mass_converge_tol", "mass_init_count",
   "mass_additive_smoothing", "max_macro_steps_target", "step_accept_rate_target",
   "step_learning_rate", "step_gradient_decay", "step_sq_gradient_decay",
   "step_stabilization", "step_learn_rate_decay", "publish_stride", "yield_period"}

SamplingFields ==
  {"min_iter", "max_iter", "max_trajectory_doublings", "max_step_halvings",
   "max_hamiltonian_error", "min_micro_steps", "rhat_converge_tol"}

LEMMA FieldNames ==
  DOMAIN WarmupDefaults = WarmupFields /\ DOMAIN SamplingDefaults = SamplingFields
BY DEF WarmupDefaults, SamplingDefaults, WarmupFields, SamplingFields

\* A record with one field replaced.
LEMMA FieldReplaced ==
  \A r, f, v : f \in DOMAIN r =>
    /\ DOMAIN [r EXCEPT ![f] = v] = DOMAIN r /\ [r EXCEPT ![f] = v][f] = v
    /\ \A h \in DOMAIN r : h # f => [r EXCEPT ![f] = v][h] = r[h]
OBVIOUS

LEMMA ItersReplaced ==
  \A r, a, b : {"min_iter", "max_iter"} \subseteq DOMAIN r =>
    /\ DOMAIN WithIters(r, a, b) = DOMAIN r
    /\ WithIters(r, a, b)["min_iter"] = a /\ WithIters(r, a, b)["max_iter"] = b
    /\ \A h \in DOMAIN r \ {"min_iter", "max_iter"} : WithIters(r, a, b)[h] = r[h]
BY DEF WithIters

WarmupFine(r) ==
  /\ DOMAIN r = WarmupFields
  /\ r["min_iter"] \in Nat /\ r["max_iter"] \in Nat /\ r["min_iter"] <= r["max_iter"]
  /\ Plenty(r["mass_init_count"]) /\ Plenty(r["max_macro_steps_target"])
  /\ Probable(r["step_accept_rate_target"])
  /\ Probable(r["step_gradient_decay"]) /\ Probable(r["step_sq_gradient_decay"])

SamplingFine(r) ==
  /\ DOMAIN r = SamplingFields
  /\ r["min_iter"] \in Nat /\ r["max_iter"] \in Nat /\ r["min_iter"] <= r["max_iter"]
  /\ r["max_trajectory_doublings"] \in Nat /\ r["max_step_halvings"] \in Nat
  /\ r["min_micro_steps"] \in Nat \ {0}
  /\ Plenty(r["max_hamiltonian_error"])

LEMMA FineIs == (WarmupInv <=> WarmupFine(warmup)) /\ (SamplingInv <=> SamplingFine(sampling))
BY FieldNames, Zenon DEF WarmupInv, SamplingInv, WarmupFine, SamplingFine

LEMMA DefaultsFine == WarmupFine(WarmupDefaults) /\ SamplingFine(SamplingDefaults)
<1>1. \A n, d \in Nat \ {0} : n < d => Plenty(Frac(n, d)) /\ Probable(Frac(n, d))
  <2> SUFFICES ASSUME NEW n \in Nat \ {0}, NEW d \in Nat \ {0}, n < d
               PROVE  Plenty(Frac(n, d)) /\ Probable(Frac(n, d))
    OBVIOUS
  <2>1. n \in Int /\ 0 \in Int /\ 1 \in Int /\ 1 \in Nat \ {0} /\ 0 * d < 1 * n /\ n * 1 < d * 1
    OBVIOUS
  <2>2. Frac(n, d) \in Rationals
    BY <2>1, FracValue, Zenon
  <2>3. Less(Frac(0, 1), Frac(n, d)) /\ Less(Frac(n, d), Frac(1, 1))
    BY <2>1, FracLess
  <2> QED
    BY <2>2, <2>3, Zenon DEF Plenty, Probable, Zero, One
<1>2. Plenty(Frac(4, 1)) /\ Plenty(Frac(15, 1))
  <2>1. \A n \in Nat \ {0} : Plenty(Frac(n, 1))
    <3> SUFFICES ASSUME NEW n \in Nat \ {0} PROVE Plenty(Frac(n, 1))
      OBVIOUS
    <3>1. n \in Int /\ 0 \in Int /\ 1 \in Nat \ {0} /\ 0 * 1 < 1 * n
      OBVIOUS
    <3>2. Frac(n, 1) \in Rationals
      BY <3>1, FracValue, Zenon
    <3>3. Less(Frac(0, 1), Frac(n, 1))
      BY <3>1, FracLess
    <3> QED
      BY <3>2, <3>3, Zenon DEF Plenty, Zero
  <2> QED
    BY <2>1
<1>3. Probable(Frac(4, 5)) /\ Probable(Frac(9, 10)) /\ Plenty(Frac(1, 2))
  BY <1>1
<1>4. /\ WarmupDefaults["min_iter"] = 50 /\ WarmupDefaults["max_iter"] = 1000
      /\ WarmupDefaults["mass_init_count"] = Frac(4, 1)
      /\ WarmupDefaults["max_macro_steps_target"] = Frac(15, 1)
      /\ WarmupDefaults["step_accept_rate_target"] = Frac(4, 5)
      /\ WarmupDefaults["step_gradient_decay"] = Frac(4, 5)
      /\ WarmupDefaults["step_sq_gradient_decay"] = Frac(9, 10)
  BY DEF WarmupDefaults
<1>5. /\ SamplingDefaults["min_iter"] = 50 /\ SamplingDefaults["max_iter"] = 1000
      /\ SamplingDefaults["max_trajectory_doublings"] = 5
      /\ SamplingDefaults["max_step_halvings"] = 5
      /\ SamplingDefaults["min_micro_steps"] = 1
      /\ SamplingDefaults["max_hamiltonian_error"] = Frac(1, 2)
  BY DEF SamplingDefaults
<1>6. 50 \in Nat /\ 1000 \in Nat /\ 50 <= 1000 /\ 5 \in Nat /\ 1 \in Nat \ {0}
  OBVIOUS
<1>7. WarmupFine(WarmupDefaults)
  BY <1>2, <1>3, <1>4, <1>6, FieldNames DEF WarmupFine
<1>8. SamplingFine(SamplingDefaults)
  BY <1>3, <1>5, <1>6, FieldNames DEF SamplingFine
<1> QED
  BY <1>7, <1>8

LEMMA WarmupFieldFine ==
  \A r, f, v :
    WarmupFine(r) /\ f \in DOMAIN WarmupArgs /\ v \in WarmupArgs[f] /\ WarmupAccepts(f, v)
      => WarmupFine([r EXCEPT ![f] = v])
<1> SUFFICES ASSUME NEW r, NEW f \in DOMAIN WarmupArgs, NEW v \in WarmupArgs[f],
                    WarmupFine(r), WarmupAccepts(f, v)
             PROVE  WarmupFine([r EXCEPT ![f] = v])
  OBVIOUS
<1> DEFINE n == [r EXCEPT ![f] = v]
<1>1. f \in WarmupFields /\ f # "min_iter" /\ f # "max_iter"
  BY FieldAssumption, FieldNames
<1>2. DOMAIN r = WarmupFields
  BY Zenon DEF WarmupFine
<1>3. DOMAIN n = WarmupFields /\ n[f] = v /\ \A h \in WarmupFields : h # f => n[h] = r[h]
  BY <1>1, <1>2
<1> HIDE DEF n
<1>4. f \notin {"publish_stride", "yield_period"} => v \in Double
  BY FieldAssumption
<1>5. f \in {"step_accept_rate_target", "step_gradient_decay", "step_sq_gradient_decay"} => Probable(v)
  BY <1>4, ProbabilityIs DEF WarmupAccepts
<1>6. f \in {"mass_init_count", "max_macro_steps_target"} => Plenty(v)
  BY <1>4, FiniteNumber DEF WarmupAccepts
<1>7. {"min_iter", "max_iter", "mass_init_count", "max_macro_steps_target",
       "step_accept_rate_target", "step_gradient_decay", "step_sq_gradient_decay"}
        \subseteq WarmupFields
  BY DEF WarmupFields
<1>8. /\ n["min_iter"] = r["min_iter"] /\ n["max_iter"] = r["max_iter"]
      /\ Plenty(n["mass_init_count"]) /\ Plenty(n["max_macro_steps_target"])
      /\ Probable(n["step_accept_rate_target"])
      /\ Probable(n["step_gradient_decay"]) /\ Probable(n["step_sq_gradient_decay"])
  <2>1. n["min_iter"] = r["min_iter"] /\ n["max_iter"] = r["max_iter"]
    BY <1>1, <1>3, <1>7
  <2>2. Plenty(n["mass_init_count"])
    BY <1>3, <1>6, <1>7 DEF WarmupFine
  <2>3. Plenty(n["max_macro_steps_target"])
    BY <1>3, <1>6, <1>7 DEF WarmupFine
  <2>4. Probable(n["step_accept_rate_target"])
    BY <1>3, <1>5, <1>7 DEF WarmupFine
  <2>5. Probable(n["step_gradient_decay"])
    BY <1>3, <1>5, <1>7 DEF WarmupFine
  <2>6. Probable(n["step_sq_gradient_decay"])
    BY <1>3, <1>5, <1>7 DEF WarmupFine
  <2> QED
    BY <2>1, <2>2, <2>3, <2>4, <2>5, <2>6
<1> QED
  BY <1>3, <1>8, Zenon DEF WarmupFine, n

LEMMA SamplingFieldFine ==
  \A r, f, v :
    SamplingFine(r) /\ f \in DOMAIN SamplingArgs /\ v \in SamplingArgs[f] /\ SamplingAccepts(f, v)
      => SamplingFine([r EXCEPT ![f] = v])
<1> SUFFICES ASSUME NEW r, NEW f \in DOMAIN SamplingArgs, NEW v \in SamplingArgs[f],
                    SamplingFine(r), SamplingAccepts(f, v)
             PROVE  SamplingFine([r EXCEPT ![f] = v])
  OBVIOUS
<1> DEFINE n == [r EXCEPT ![f] = v]
<1>1. f \in SamplingFields /\ f # "min_iter" /\ f # "max_iter"
  BY FieldAssumption, FieldNames
<1>2. DOMAIN r = SamplingFields
  BY Zenon DEF SamplingFine
<1>3. DOMAIN n = SamplingFields /\ n[f] = v /\ \A h \in SamplingFields : h # f => n[h] = r[h]
  BY <1>1, <1>2
<1> HIDE DEF n
<1>4. v \in IF f \in {"max_hamiltonian_error", "rhat_converge_tol"} THEN Double ELSE Nat
  BY FieldAssumption
<1>5. f = "max_hamiltonian_error" => Plenty(v)
  BY <1>4, FiniteNumber DEF SamplingAccepts
<1>6. f = "min_micro_steps" => v \in Nat \ {0}
  BY <1>4 DEF SamplingAccepts, PositiveInteger
<1>7. f \in {"max_trajectory_doublings", "max_step_halvings"} => v \in Nat
  BY <1>4
<1>8. {"min_iter", "max_iter", "max_trajectory_doublings", "max_step_halvings",
       "min_micro_steps", "max_hamiltonian_error"} \subseteq SamplingFields
  BY DEF SamplingFields
<1>9. n["min_iter"] = r["min_iter"] /\ n["max_iter"] = r["max_iter"]
  BY <1>1, <1>3, <1>8
<1>10. n["max_trajectory_doublings"] \in Nat /\ n["max_step_halvings"] \in Nat
  BY <1>3, <1>7, <1>8 DEF SamplingFine
<1>11. n["min_micro_steps"] \in Nat \ {0} /\ Plenty(n["max_hamiltonian_error"])
  BY <1>3, <1>5, <1>6, <1>8 DEF SamplingFine
<1> QED
  BY <1>3, <1>9, <1>10, <1>11, Zenon DEF SamplingFine, n

LEMMA ItersFine ==
  \A a, b \in Nat : a <= b =>
    /\ \A r : WarmupFine(r) => WarmupFine(WithIters(r, a, b))
    /\ \A r : SamplingFine(r) => SamplingFine(WithIters(r, a, b))
<1> SUFFICES ASSUME NEW a \in Nat, NEW b \in Nat, a <= b, NEW r
             PROVE  /\ WarmupFine(r) => WarmupFine(WithIters(r, a, b))
                    /\ SamplingFine(r) => SamplingFine(WithIters(r, a, b))
  OBVIOUS
<1> DEFINE n == WithIters(r, a, b)
<1>1. {"min_iter", "max_iter"} \subseteq WarmupFields /\ {"min_iter", "max_iter"} \subseteq SamplingFields
  BY DEF WarmupFields, SamplingFields
<1>2. ASSUME WarmupFine(r) PROVE WarmupFine(n)
  <2>1. DOMAIN r = WarmupFields
    BY <1>2, Zenon DEF WarmupFine
  <2>2. /\ DOMAIN n = WarmupFields /\ n["min_iter"] = a /\ n["max_iter"] = b
        /\ \A h \in WarmupFields \ {"min_iter", "max_iter"} : n[h] = r[h]
    BY <1>1, <2>1, ItersReplaced
  <2> HIDE DEF n
  <2>3. {"mass_init_count", "max_macro_steps_target", "step_accept_rate_target",
         "step_gradient_decay", "step_sq_gradient_decay"} \subseteq WarmupFields \ {"min_iter", "max_iter"}
    BY DEF WarmupFields
  <2> QED
    BY <1>2, <2>2, <2>3 DEF WarmupFine
<1>3. ASSUME SamplingFine(r) PROVE SamplingFine(n)
  <2>1. DOMAIN r = SamplingFields
    BY <1>3, Zenon DEF SamplingFine
  <2>2. /\ DOMAIN n = SamplingFields /\ n["min_iter"] = a /\ n["max_iter"] = b
        /\ \A h \in SamplingFields \ {"min_iter", "max_iter"} : n[h] = r[h]
    BY <1>1, <2>1, ItersReplaced
  <2> HIDE DEF n
  <2>3. {"max_trajectory_doublings", "max_step_halvings", "min_micro_steps",
         "max_hamiltonian_error"} \subseteq SamplingFields \ {"min_iter", "max_iter"}
    BY DEF SamplingFields
  <2> QED
    BY <1>3, <2>2, <2>3 DEF SamplingFine
<1> QED
  BY <1>2, <1>3

\* A call of a builder leaves both in order.
LEMMA FieldsRight ==
  WarmupInv /\ SamplingInv /\ ConfigNext => WarmupInv' /\ SamplingInv'
<1> SUFFICES ASSUME WarmupInv, SamplingInv, ConfigNext PROVE WarmupInv' /\ SamplingInv'
  OBVIOUS
<1>1. WarmupFine(warmup) /\ SamplingFine(sampling)
  BY FineIs
<1>2. WarmupFine(warmup') /\ SamplingFine(sampling') => WarmupInv' /\ SamplingInv'
  BY FieldNames, Zenon DEF WarmupInv, SamplingInv, WarmupFine, SamplingFine
<1>3. CASE UNCHANGED <<warmup, sampling>>
  BY <1>1, <1>2, <1>3
<1>4. CASE StepSizeAll \/ StepSizes \/ RandomPositions \/ PositionAll \/ Positions
             \/ MassAll \/ Masses \/ GradientMasses \/ Build \/ AdaptStepBuild
  <2>1. UNCHANGED <<warmup, sampling>>
    BY <1>4, Zenon DEF StepSizeAll, StepSizes, RandomPositions, PositionAll, Positions,
                       MassAll, Masses, GradientMasses, Build, AdaptStepBuild, Assign
  <2> QED
    BY <1>3, <2>1
<1>5. CASE WarmupField
  <2>1. PICK f \in DOMAIN WarmupArgs : \E v \in WarmupArgs[f] :
          /\ IF WarmupAccepts(f, v) THEN warmup' = [warmup EXCEPT ![f] = v] ELSE UNCHANGED warmup
          /\ UNCHANGED sampling
    BY <1>5, Zenon DEF WarmupField
  <2>2. WarmupFine(warmup') /\ SamplingFine(sampling')
    BY <1>1, <2>1, WarmupFieldFine
  <2> QED
    BY <1>2, <2>2
<1>6. CASE SamplingField
  <2>1. PICK f \in DOMAIN SamplingArgs : \E v \in SamplingArgs[f] :
          /\ IF SamplingAccepts(f, v) THEN sampling' = [sampling EXCEPT ![f] = v]
                                      ELSE UNCHANGED sampling
          /\ UNCHANGED warmup
    BY <1>6, Zenon DEF SamplingField
  <2>2. SamplingFine(sampling') /\ WarmupFine(warmup')
    BY <1>1, <2>1, SamplingFieldFine
  <2> QED
    BY <1>2, <2>2
<1>7. CASE WarmupMinMaxIter
  <2>1. PICK p \in IterArgs :
          /\ IF p[1] <= p[2] THEN warmup' = WithIters(warmup, p[1], p[2]) ELSE UNCHANGED warmup
          /\ UNCHANGED sampling
    BY <1>7, Zenon DEF WarmupMinMaxIter
  <2>2. p[1] \in Nat /\ p[2] \in Nat
    BY FieldAssumption
  <2> QED
    BY <1>1, <1>2, <2>1, <2>2, ItersFine, Zenon
<1>8. CASE SamplingMinMaxIter
  <2>1. PICK p \in IterArgs :
          /\ IF p[1] <= p[2] THEN sampling' = WithIters(sampling, p[1], p[2]) ELSE UNCHANGED sampling
          /\ UNCHANGED warmup
    BY <1>8, Zenon DEF SamplingMinMaxIter
  <2>2. p[1] \in Nat /\ p[2] \in Nat
    BY FieldAssumption
  <2> QED
    BY <1>1, <1>2, <2>1, <2>2, ItersFine, Zenon
<1> QED
  BY <1>4, <1>5, <1>6, <1>7, <1>8, Zenon DEF ConfigNext

-------------------------------------------------------------------------------

(***************************************************************************)
(* What observations weigh after some more, and sums weighted with that.   *)
(***************************************************************************)
Estimates == {"theta", "grad"}

Observation == [theta : Vectors, grad : Vectors, discount : Rationals]

WeightOf(c, s, n) ==
  ProductFrom(IF n = 0 THEN c ELSE One, [k \in 1 .. Len(s) - n |-> s[n + k].discount])

WeightedTotal(c, s, first, xs) ==
  SumFrom(Times(WeightOf(c, s, 0), first),
          [n \in 1 .. Len(s) |-> Times(WeightOf(c, s, n), xs[n])])

Ones(s) == [n \in 1 .. Len(s) |-> One]

Values(s, which, i) == [n \in 1 .. Len(s) |-> s[n][which][i]]

Powered(s, which, i) == [n \in 1 .. Len(s) |-> Plus(Square(s[n][which][i]), Zero)]

LEMMA ObservationFields ==
  \A s \in Seq(Observation) : \A n \in 1 .. Len(s) :
    /\ s[n].discount \in Rationals /\ s[n].theta \in Vectors /\ s[n].grad \in Vectors
    /\ \A which \in Estimates, i \in 1 .. Dims : s[n][which][i] \in Rationals
<1> SUFFICES ASSUME NEW s \in Seq(Observation), NEW n \in 1 .. Len(s)
             PROVE  /\ s[n].discount \in Rationals /\ s[n].theta \in Vectors /\ s[n].grad \in Vectors
                    /\ \A which \in Estimates, i \in 1 .. Dims : s[n][which][i] \in Rationals
  OBVIOUS
<1> DEFINE o == s[n]
<1>1. o \in Observation
  BY EntriesIn, Zenon
<1> HIDE DEF o
<1>2. o.discount \in Rationals /\ o.theta \in Vectors /\ o.grad \in Vectors
      /\ o["theta"] = o.theta /\ o["grad"] = o.grad
  BY <1>1 DEF Observation
<1>3. \A which \in Estimates : o[which] \in Vectors
  BY <1>2 DEF Estimates
<1> QED
  BY <1>2, <1>3, VectorEntries, Zenon DEF o

LEMMA OneMore ==
  \A S : \A s \in Seq(S), o \in S :
    /\ Append(s, o) \in Seq(S) /\ Len(Append(s, o)) = Len(s) + 1 /\ Len(s) \in Nat
    /\ Append(s, o)[Len(s) + 1] = o
    /\ \A n \in 1 .. Len(s) : Append(s, o)[n] = s[n]
OBVIOUS

\* A function on 1 .. n is a sequence.
LEMMA ListIs ==
  \A S : \A n \in Nat : \A f \in [1 .. n -> S] : f \in Seq(S) /\ Len(f) = n
OBVIOUS

LEMMA WeightsStart == \A c \in Rationals : WeightOf(c, <<>>, 0) = c
<1> SUFFICES ASSUME NEW c \in Rationals PROVE WeightOf(c, <<>>, 0) = c
  OBVIOUS
<1>1. [k \in 1 .. Len(<<>>) - 0 |-> <<>>[0 + k].discount] = <<>>
  OBVIOUS
<1>2. ProductFrom(c, <<>>) = c
  <2>1. <<>> \in Seq(Rationals) /\ One \in Rationals
    BY ZeroOne
  <2> QED
    BY <2>1, ProductFromSteps
<1>3. WeightOf(c, <<>>, 0)
        = ProductFrom(IF 0 = 0 THEN c ELSE One, [k \in 1 .. Len(<<>>) - 0 |-> <<>>[0 + k].discount])
  BY Zenon DEF WeightOf
<1> QED
  BY <1>1, <1>2, <1>3

\* The discount of a new observation multiplies every weight; its own is one.
LEMMA WeightsAfter ==
  ASSUME NEW c \in Rationals, NEW s \in Seq(Observation), NEW o \in Observation
  PROVE  /\ \A n \in 0 .. Len(s) :
              /\ WeightOf(c, s, n) \in Rationals
              /\ WeightOf(c, Append(s, o), n) = Times(o.discount, WeightOf(c, s, n))
         /\ WeightOf(c, Append(s, o), Len(s) + 1) = One
<1> DEFINE r == Append(s, o)
           N == Len(s)
<1>1. r \in Seq(Observation) /\ Len(r) = N + 1 /\ N \in Nat /\ r[N + 1] = o
      /\ \A n \in 1 .. N : r[n] = s[n]
  BY OneMore
<1>2. o.discount \in Rationals
  BY DEF Observation
<1>3. \A n \in 1 .. N : s[n].discount \in Rationals /\ r[n].discount = s[n].discount
  BY <1>1, ObservationFields
<1> HIDE DEF r, N
<1>4. ASSUME NEW n \in 0 .. N
      PROVE  /\ WeightOf(c, s, n) \in Rationals
             /\ WeightOf(c, r, n) = Times(o.discount, WeightOf(c, s, n))
  <2> DEFINE base == IF n = 0 THEN c ELSE One
             xs == [k \in 1 .. N - n |-> s[n + k].discount]
             ys == [k \in 1 .. N + 1 - n |-> r[n + k].discount]
  <2>1. base \in Rationals
    BY ZeroOne
  <2>2. N - n \in Nat /\ N + 1 - n \in Nat /\ N + 1 - n = (N - n) + 1
    BY <1>1
  <2>0. N \in Nat /\ n \in 0 .. N
    BY <1>1
  <2>3. \A k \in 1 .. N - n : n + k \in 1 .. N
    BY ONLY <2>0
  <2>4. xs \in Seq(Rationals) /\ Len(xs) = N - n
    <3>1. xs \in [1 .. N - n -> Rationals]
      BY <1>3, <2>3
    <3> HIDE DEF xs
    <3> QED
      BY <2>2, <3>1, ListIs, Zenon
  <2>5. \A k \in 1 .. N + 1 - n : n + k \in 1 .. N \/ (n + k = N + 1 /\ k = (N - n) + 1)
    BY ONLY <2>0
  <2>6. \A k \in 1 .. N + 1 - n : r[n + k].discount \in Rationals
    BY <1>1, <1>2, <1>3, <2>5
  <2>7. ys \in Seq(Rationals) /\ Len(ys) = (N - n) + 1
    BY <2>2, <2>6
  <2>8. /\ Append(xs, o.discount) \in Seq(Rationals)
        /\ Len(Append(xs, o.discount)) = (N - n) + 1
        /\ Append(xs, o.discount)[(N - n) + 1] = o.discount
        /\ \A k \in 1 .. N - n : Append(xs, o.discount)[k] = xs[k]
    <3> HIDE DEF xs
    <3> QED
      BY <1>2, <2>4, OneMore
  <2>9. \A k \in 1 .. N + 1 - n : ys[k] = Append(xs, o.discount)[k]
    <3> SUFFICES ASSUME NEW k \in 1 .. N + 1 - n PROVE ys[k] = Append(xs, o.discount)[k]
      OBVIOUS
    <3>1. ys[k] = r[n + k].discount
      OBVIOUS
    <3>2. CASE n + k \in 1 .. N
      <4>1. k \in 1 .. N - n
        BY <1>1, <3>2
      <4>2. xs[k] = s[n + k].discount
        BY <4>1
      <4> QED
        BY <1>3, <2>8, <3>1, <3>2, <4>1, <4>2
    <3>3. CASE n + k = N + 1 /\ k = (N - n) + 1
      BY <1>1, <2>8, <3>1, <3>3
    <3> QED
      BY <2>5, <3>2, <3>3
  <2>10. ys = Append(xs, o.discount)
    <3> HIDE DEF xs, ys
    <3> QED
      BY <2>2, <2>7, <2>8, <2>9, SameList
  <2>11. WeightOf(c, s, n) = ProductFrom(base, xs)
    BY DEF WeightOf, N
  <2>12. WeightOf(c, r, n) = ProductFrom(base, ys)
    <3>1. WeightOf(c, r, n) = ProductFrom(base, [k \in 1 .. Len(r) - n |-> r[n + k].discount])
      BY Zenon DEF WeightOf
    <3>2. [k \in 1 .. Len(r) - n |-> r[n + k].discount] = ys
      BY <1>1
    <3> QED
      BY <3>1, <3>2
  <2> HIDE DEF base, xs, ys
  <2>13. /\ ProductFrom(base, xs) \in Rationals
         /\ ProductFrom(base, Append(xs, o.discount)) = Times(ProductFrom(base, xs), o.discount)
    BY <1>2, <2>1, <2>4, ProductFromSteps
  <2> QED
    BY <1>2, <2>10, <2>11, <2>12, <2>13, TimesCommutes, Zenon
<1>5. WeightOf(c, r, N + 1) = One
  <2>1. N + 1 # 0 /\ [k \in 1 .. (N + 1) - (N + 1) |-> r[(N + 1) + k].discount] = <<>>
    BY <1>1
  <2>2. WeightOf(c, r, N + 1)
          = ProductFrom(IF N + 1 = 0 THEN c ELSE One,
                        [k \in 1 .. Len(r) - (N + 1) |-> r[(N + 1) + k].discount])
    BY Zenon DEF WeightOf
  <2>3. WeightOf(c, r, N + 1) = ProductFrom(One, <<>>)
    BY <1>1, <2>1, <2>2, Zenon
  <2>4. <<>> \in Seq(Rationals) /\ One \in Rationals
    BY ZeroOne
  <2> QED
    BY <2>3, <2>4, ProductFromSteps
<1> QED
  BY <1>4, <1>5 DEF r, N

DiscountedList(d, xs, ys, y) ==
  /\ Len(ys) = Len(xs) + 1 /\ ys[Len(xs) + 1] = y
  /\ \A i \in 1 .. Len(xs) : ys[i] = Times(d, xs[i])

SumDiscounted(d, base, xs, ys, y) ==
  SumFrom(Times(d, base), ys) = Plus(Times(d, SumFrom(base, xs)), y)

LEMMA DiscountedSum ==
  ASSUME NEW d \in Rationals, NEW base \in Rationals, NEW y \in Rationals,
         NEW xs \in Seq(Rationals), NEW ys \in Seq(Rationals), DiscountedList(d, xs, ys, y)
  PROVE  SumDiscounted(d, base, xs, ys, y)
BY SumAfter DEF DiscountedList, SumDiscounted

LEMMA SumsAfter ==
  \A d, base, y \in Rationals : \A xs, ys \in Seq(Rationals) :
    DiscountedList(d, xs, ys, y) => SumDiscounted(d, base, xs, ys, y)
BY DiscountedSum, Zenon

\* A weighted sum is discounted with its weights and gets the new value.
LEMMA WeightedAfter ==
  ASSUME NEW c \in Rationals, NEW s \in Seq(Observation), NEW o \in Observation,
         NEW first \in Rationals, NEW xs \in Seq(Rationals), Len(xs) = Len(s), NEW y \in Rationals
  PROVE  /\ WeightedTotal(c, s, first, xs) \in Rationals
         /\ WeightedTotal(c, Append(s, o), first, Append(xs, y))
              = Plus(Times(o.discount, WeightedTotal(c, s, first, xs)), y)
<1> DEFINE r == Append(s, o)
           N == Len(s)
           zs == Append(xs, y)
           W(n) == WeightOf(c, s, n)
           V(n) == WeightOf(c, r, n)
           d == o.discount
           as == [n \in 1 .. N |-> Times(W(n), xs[n])]
           bs == [n \in 1 .. N + 1 |-> Times(V(n), zs[n])]
<1>1. /\ r \in Seq(Observation) /\ Len(r) = N + 1 /\ N \in Nat
      /\ zs \in Seq(Rationals) /\ zs[N + 1] = y /\ \A n \in 1 .. N : zs[n] = xs[n]
  BY OneMore
<1>2. d \in Rationals
  BY DEF Observation
<1>3. /\ \A n \in 0 .. N : W(n) \in Rationals /\ V(n) = Times(d, W(n))
      /\ V(N + 1) = One
  BY WeightsAfter
<1>4. \A n \in 1 .. N : xs[n] \in Rationals
  BY EntriesIn
<1>5. WeightedTotal(c, s, first, xs) = SumFrom(Times(W(0), first), as)
  BY DEF WeightedTotal
<1>6. WeightedTotal(c, r, first, zs) = SumFrom(Times(V(0), first), bs)
  <2>1. WeightedTotal(c, r, first, zs)
          = SumFrom(Times(V(0), first), [n \in 1 .. Len(r) |-> Times(V(n), zs[n])])
    BY Zenon DEF WeightedTotal
  <2> QED
    BY <1>1, <2>1, Zenon
<1> HIDE DEF r, N, W, V, d, zs
<1>7. 0 \in 0 .. N /\ \A n \in 1 .. N : n \in 0 .. N
  BY <1>1
<1>8. \A n \in 1 .. N : Times(W(n), xs[n]) \in Rationals
  BY <1>3, <1>4, <1>7, Closed, Zenon
<1>9. as \in Seq(Rationals) /\ Len(as) = N
  BY <1>1, <1>8
<1>10. \A n \in 1 .. N + 1 : zs[n] \in Rationals /\ V(n) \in Rationals
  <2>1. \A n \in 1 .. N + 1 : n \in 1 .. N \/ n = N + 1
    BY <1>1
  <2>2. ASSUME NEW n \in 1 .. N PROVE zs[n] \in Rationals /\ V(n) \in Rationals
    <3>1. zs[n] = xs[n] /\ xs[n] \in Rationals
      BY <1>1, <1>4
    <3>2. V(n) = Times(d, W(n)) /\ W(n) \in Rationals
      BY <1>3, <1>7
    <3>3. Times(d, W(n)) \in Rationals
      BY <1>2, <3>2, Closed, Zenon
    <3> QED
      BY <3>1, <3>2, <3>3, Zenon
  <2>3. zs[N + 1] \in Rationals /\ V(N + 1) \in Rationals
    BY <1>1, <1>3, ZeroOne
  <2> QED
    BY <2>1, <2>2, <2>3, Zenon
<1>11. bs \in Seq(Rationals) /\ Len(bs) = N + 1
  <2>1. \A n \in 1 .. N + 1 : Times(V(n), zs[n]) \in Rationals
    BY <1>10, Closed, Zenon
  <2>2. bs \in [1 .. N + 1 -> Rationals]
    BY <2>1
  <2>3. N + 1 \in Nat
    BY <1>1
  <2> HIDE DEF bs
  <2> QED
    BY <2>2, <2>3, ListIs, Zenon
<1>12. \A n \in 1 .. N : bs[n] = Times(d, as[n])
  <2> SUFFICES ASSUME NEW n \in 1 .. N PROVE bs[n] = Times(d, as[n])
    OBVIOUS
  <2>1. n \in 1 .. N + 1
    BY <1>1
  <2>2. bs[n] = Times(V(n), zs[n]) /\ as[n] = Times(W(n), xs[n])
    BY <2>1
  <2>3. V(n) = Times(d, W(n)) /\ zs[n] = xs[n] /\ W(n) \in Rationals /\ xs[n] \in Rationals
    BY <1>1, <1>3, <1>4, <1>7
  <2> HIDE DEF as, bs
  <2> QED
    BY <1>2, <2>2, <2>3, TimesAssociates
<1>13. bs[N + 1] = y
  <2>1. N + 1 \in 1 .. N + 1
    BY <1>1
  <2>2. bs[N + 1] = Times(V(N + 1), zs[N + 1])
    BY <2>1
  <2> HIDE DEF bs
  <2>3. bs[N + 1] = Times(One, y)
    BY <1>1, <1>3, <2>2, Zenon
  <2> QED
    BY <2>3, ZeroOne, TimesCommutes, Units, Zenon
<1>14. W(0) \in Rationals /\ Times(W(0), first) \in Rationals
       /\ Times(V(0), first) = Times(d, Times(W(0), first))
  BY <1>2, <1>3, <1>7, Closed, TimesAssociates
<1> HIDE DEF as, bs
<1> DEFINE base == Times(W(0), first)
<1> HIDE DEF base
<1>15. SumDiscounted(d, base, as, bs, y)
  <2>1. base \in Rationals
    BY <1>14 DEF base
  <2>2. DiscountedList(d, as, bs, y)
    BY <1>9, <1>11, <1>12, <1>13 DEF DiscountedList
  <2> QED
    BY <1>2, <1>9, <1>11, <2>1, <2>2, SumsAfter, Zenon
<1>16. SumFrom(base, as) \in Rationals
  BY <1>9, <1>14, ZeroOne, SumFromSteps DEF base
<1> QED
  BY <1>5, <1>6, <1>14, <1>15, <1>16, Zenon DEF r, zs, d, base, SumDiscounted

LEMMA WeightedStart ==
  \A c, first \in Rationals : WeightedTotal(c, <<>>, first, <<>>) = Times(c, first)
<1> SUFFICES ASSUME NEW c \in Rationals, NEW first \in Rationals
             PROVE  WeightedTotal(c, <<>>, first, <<>>) = Times(c, first)
  OBVIOUS
<1>1. [n \in 1 .. Len(<<>>) |-> Times(WeightOf(c, <<>>, n), <<>>[n])] = <<>>
  OBVIOUS
<1>2. WeightedTotal(c, <<>>, first, <<>>) = SumFrom(Times(c, first), <<>>)
  BY <1>1, WeightsStart DEF WeightedTotal
<1>3. Times(c, first) \in Rationals /\ <<>> \in Seq(Rationals)
  BY Closed
<1> QED
  BY <1>2, <1>3, SumFromSteps

\* The lists of what is summed, after one more observation.
LEMMA ListsAfter ==
  ASSUME NEW s \in Seq(Observation), NEW o \in Observation, NEW which \in Estimates,
         NEW i \in 1 .. Dims
  PROVE  /\ o[which] \in Vectors /\ o[which][i] \in Rationals
         /\ Ones(s) \in Seq(Rationals) /\ Len(Ones(s)) = Len(s)
         /\ Ones(Append(s, o)) = Append(Ones(s), One)
         /\ Values(s, which, i) \in Seq(Rationals) /\ Len(Values(s, which, i)) = Len(s)
         /\ Values(Append(s, o), which, i) = Append(Values(s, which, i), o[which][i])
         /\ Powered(s, which, i) \in Seq(Rationals) /\ Len(Powered(s, which, i)) = Len(s)
         /\ Powered(Append(s, o), which, i)
              = Append(Powered(s, which, i), Plus(Square(o[which][i]), Zero))
<1> DEFINE r == Append(s, o)
           N == Len(s)
<1>1. /\ r \in Seq(Observation) /\ Len(r) = N + 1 /\ N \in Nat /\ N + 1 \in Nat /\ r[N + 1] = o
      /\ \A n \in 1 .. N : r[n] = s[n]
  BY OneMore
<1>2. o[which] \in Vectors
  BY DEF Estimates, Observation
<1>3. o[which][i] \in Rationals
  BY <1>2, VectorEntries
<1>4. \A x \in Rationals : Plus(Square(x), Zero) \in Rationals
  BY Closed, ZeroOne, Zenon DEF Square
<1>5. \A n \in 1 .. N : s[n][which][i] \in Rationals
  BY ObservationFields, Zenon
<1> HIDE DEF r, N
<1>6. ASSUME NEW g \in [1 .. N + 1 -> Rationals], NEW h \in [1 .. N -> Rationals],
             NEW x, g[N + 1] = x, \A n \in 1 .. N : g[n] = h[n]
      PROVE  h \in Seq(Rationals) /\ Len(h) = N /\ g = Append(h, x)
  <2>1. h \in Seq(Rationals) /\ Len(h) = N
    BY <1>1, ListIs, Zenon
  <2>2. \A n \in 1 .. N + 1 : n \in 1 .. N \/ n = N + 1
    BY <1>1
  <2>3. g \in Seq(Rationals) /\ Len(g) = N + 1
    BY <1>1, ListIs, Zenon
  <2>4. x \in Rationals
    BY <1>1, <1>6
  <2>5. /\ Append(h, x) \in Seq(Rationals) /\ Len(Append(h, x)) = N + 1
        /\ Append(h, x)[N + 1] = x /\ \A n \in 1 .. N : Append(h, x)[n] = h[n]
    BY <2>1, <2>4, OneMore
  <2>6. \A n \in 1 .. N + 1 : g[n] = Append(h, x)[n]
    BY <1>6, <2>2, <2>5, Zenon
  <2> QED
    BY <2>1, <2>3, <2>5, <2>6, SameList, Zenon
<1>7. /\ N + 1 \in 1 .. N + 1 /\ \A n \in 1 .. N : n \in 1 .. N + 1
      /\ \A n \in 1 .. N + 1 : n \in 1 .. N \/ n = N + 1
  BY <1>1
<1>8. /\ Ones(s) \in Seq(Rationals) /\ Len(Ones(s)) = N /\ Ones(r) = Append(Ones(s), One)
  <2> DEFINE g == [n \in 1 .. N + 1 |-> One]
             h == [n \in 1 .. N |-> One]
  <2>1. /\ g \in [1 .. N + 1 -> Rationals] /\ h \in [1 .. N -> Rationals]
        /\ g[N + 1] = One /\ \A n \in 1 .. N : g[n] = h[n]
    BY <1>7, ZeroOne
  <2>2. Ones(r) = g /\ Ones(s) = h
    BY <1>1 DEF Ones, N
  <2> HIDE DEF g, h
  <2> QED
    BY <1>6, <2>1, <2>2, Zenon
<1>9. /\ Values(s, which, i) \in Seq(Rationals) /\ Len(Values(s, which, i)) = N
      /\ Values(r, which, i) = Append(Values(s, which, i), o[which][i])
  <2> DEFINE g == [n \in 1 .. N + 1 |-> r[n][which][i]]
             h == [n \in 1 .. N |-> s[n][which][i]]
  <2>1. /\ g[N + 1] = o[which][i]
        /\ \A n \in 1 .. N : g[n] = r[n][which][i] /\ r[n] = s[n] /\ h[n] = s[n][which][i]
    BY <1>1, <1>7
  <2>2. Values(r, which, i) = g /\ Values(s, which, i) = h
    BY <1>1 DEF Values, N
  <2>3. \A n \in 1 .. N + 1 : r[n][which][i] \in Rationals
    BY <1>1, <1>3, <1>5, <1>7, Zenon
  <2>4. g \in [1 .. N + 1 -> Rationals] /\ h \in [1 .. N -> Rationals]
    BY <1>5, <2>3
  <2> HIDE DEF g, h
  <2>5. \A n \in 1 .. N : g[n] = h[n]
    BY <2>1, Zenon
  <2> QED
    BY <1>6, <2>1, <2>2, <2>4, <2>5, Zenon
<1>10. /\ Powered(s, which, i) \in Seq(Rationals) /\ Len(Powered(s, which, i)) = N
       /\ Powered(r, which, i) = Append(Powered(s, which, i), Plus(Square(o[which][i]), Zero))
  <2> DEFINE P(x) == Plus(Square(x), Zero)
             g == [n \in 1 .. N + 1 |-> P(r[n][which][i])]
             h == [n \in 1 .. N |-> P(s[n][which][i])]
  <2>0. \A x \in Rationals : P(x) \in Rationals
    BY <1>4
  <2>1. Powered(r, which, i) = g /\ Powered(s, which, i) = h
    BY <1>1 DEF Powered, N
  <2>2. P(o[which][i]) = Plus(Square(o[which][i]), Zero)
    OBVIOUS
  <2> HIDE DEF P
  <2>3. /\ g[N + 1] = P(o[which][i])
        /\ \A n \in 1 .. N : g[n] = P(r[n][which][i]) /\ r[n] = s[n] /\ h[n] = P(s[n][which][i])
    BY <1>1, <1>7
  <2>4. \A n \in 1 .. N + 1 : P(r[n][which][i]) \in Rationals
    BY <1>1, <1>3, <1>5, <1>7, <2>0, Zenon
  <2>5. g \in [1 .. N + 1 -> Rationals] /\ h \in [1 .. N -> Rationals]
    BY <1>5, <2>0, <2>4
  <2> HIDE DEF g, h
  <2>6. \A n \in 1 .. N : g[n] = h[n]
    BY <2>3, Zenon
  <2>7. h \in Seq(Rationals) /\ Len(h) = N /\ g = Append(h, P(o[which][i]))
    BY <1>6, <2>3, <2>5, <2>6, Zenon
  <2> QED
    BY <2>1, <2>2, <2>7, Zenon
<1> QED
  BY <1>2, <1>3, <1>8, <1>9, <1>10, Zenon DEF r, N

(***************************************************************************)
(* The moments m of observations s, the initial estimate counting c.       *)
(***************************************************************************)
TotalWeight(c, s) == WeightedTotal(c, s, One, Ones(s))

SumOf(c, s, which, i) == WeightedTotal(c, s, Zero, Values(s, which, i))

\* v is the initial variance.
SquaresOf(c, s, which, i, v) ==
  WeightedTotal(c, s, Plus(Square(Zero), v), Powered(s, which, i))

MeanKept(m, c, s, which) ==
  /\ m.weight = TotalWeight(c, s) /\ Plenty(m.weight) /\ m.mean \in Vectors
  /\ \A i \in 1 .. Dims : Times(m.weight, m.mean[i]) = SumOf(c, s, which, i)

SpreadBound(m, c, s, which, i, v) ==
  AtMost(m.sum_sq_dev[i],
         Minus(SquaresOf(c, s, which, i, v), Times(m.mean[i], SumOf(c, s, which, i))))

SpreadKept(m, c, s, which, variance) ==
  /\ m.sum_sq_dev \in Vectors
  /\ \A i \in 1 .. Dims :
       AtMost(Zero, m.sum_sq_dev[i]) /\ SpreadBound(m, c, s, which, i, variance[i])

Moving2(d, s, y, mean) == Plus(Times(d, s), Times(Minus(y, mean), Minus(y, mean)))

Observed(m, y, d, n) ==
  /\ n.weight = Plus(Times(d, m.weight), One)
  /\ n.mean = [i \in 1 .. Dims |-> MovedMean(m.mean[i], y[i], n.weight)]
  /\ n.sum_sq_dev = [i \in 1 .. Dims |-> Moving2(d, m.sum_sq_dev[i], y[i], n.mean[i])]

LEMMA ObserveFields ==
  ASSUME NEW m, NEW y, NEW d
  PROVE  Observed(m, y, d, Observe(m, y, d))
<1> DEFINE w == Plus(Times(d, m.weight), One)
           mean == [i \in 1 .. Dims |-> MovedMean(m.mean[i], y[i], w)]
           n == Observe(m, y, d)
<1>1. CountedWeight(m, d) = w
  BY DEF CountedWeight
<1>2. Elementwise(LAMBDA a, b : Plus(a, Over(Minus(b, a), CountedWeight(m, d))), m.mean, y) = mean
  BY <1>1 DEF Elementwise, MovedMean
<1>3. n = LET delta == Elementwise(Minus, y, mean)
          IN  [weight |-> w, mean |-> mean,
               sum_sq_dev |-> Elementwise(LAMBDA s, e : Plus(Times(d, s), Times(e, e)),
                                          m.sum_sq_dev, delta)]
  BY <1>1, <1>2, Zenon DEF Observe
<1> HIDE DEF w, n
<1>4. n.weight = w /\ n.mean = mean
  BY <1>3
<1>5. n.sum_sq_dev = Elementwise(LAMBDA s, e : Plus(Times(d, s), Times(e, e)),
                                 m.sum_sq_dev, Elementwise(Minus, y, mean))
  BY <1>3
<1>6. \A i \in 1 .. Dims : mean[i] = n.mean[i]
  BY <1>4
<1> HIDE DEF mean
<1>7. n.sum_sq_dev = [i \in 1 .. Dims |-> Moving2(d, m.sum_sq_dev[i], y[i], n.mean[i])]
  BY <1>5, <1>6 DEF Elementwise, Moving2
<1> QED
  BY <1>4, <1>7, Zenon DEF w, n, mean, Observed

LEMMA TotalsAre ==
  ASSUME NEW c \in Rationals, NEW s \in Seq(Observation), NEW o \in Observation,
         NEW which \in Estimates, NEW i \in 1 .. Dims, NEW v \in Rationals
  PROVE  /\ TotalWeight(c, s) \in Rationals
         /\ TotalWeight(c, Append(s, o)) = Plus(Times(o.discount, TotalWeight(c, s)), One)
         /\ SumOf(c, s, which, i) \in Rationals
         /\ SumOf(c, Append(s, o), which, i)
              = Plus(Times(o.discount, SumOf(c, s, which, i)), o[which][i])
         /\ SquaresOf(c, s, which, i, v) \in Rationals
         /\ SquaresOf(c, Append(s, o), which, i, v)
              = Plus(Times(o.discount, SquaresOf(c, s, which, i, v)), Square(o[which][i]))
<1> DEFINE first == Plus(Square(Zero), v)
           y == o[which][i]
           z == Plus(Square(y), Zero)
<1>1. y \in Rationals
  BY ListsAfter
<1>2. first \in Rationals /\ z \in Rationals /\ z = Square(y)
  BY <1>1, ZeroOne, Closed, Units, Zenon DEF Square
<1> HIDE DEF first, y, z
<1> DEFINE Fits(xs, f, x) == f \in Rationals /\ xs \in Seq(Rationals) /\ Len(xs) = Len(s) /\ x \in Rationals
           Discounts(xs, f, x) ==
             /\ WeightedTotal(c, s, f, xs) \in Rationals
             /\ WeightedTotal(c, Append(s, o), f, Append(xs, x))
                  = Plus(Times(o.discount, WeightedTotal(c, s, f, xs)), x)
<1>3. \A xs, f, x : Fits(xs, f, x) => Discounts(xs, f, x)
  <2>1. SUFFICES ASSUME NEW xs, NEW f, NEW x, Fits(xs, f, x) PROVE Discounts(xs, f, x)
    OBVIOUS
  <2>2. f \in Rationals /\ xs \in Seq(Rationals) /\ Len(xs) = Len(s) /\ x \in Rationals
    BY <2>1
  <2> QED
    BY <2>2, WeightedAfter
<1>4. /\ Ones(s) \in Seq(Rationals) /\ Len(Ones(s)) = Len(s)
      /\ Ones(Append(s, o)) = Append(Ones(s), One)
  BY ListsAfter
<1>5. /\ Values(s, which, i) \in Seq(Rationals) /\ Len(Values(s, which, i)) = Len(s)
      /\ Values(Append(s, o), which, i) = Append(Values(s, which, i), y)
  BY ListsAfter DEF y
<1>6. /\ Powered(s, which, i) \in Seq(Rationals) /\ Len(Powered(s, which, i)) = Len(s)
      /\ Powered(Append(s, o), which, i) = Append(Powered(s, which, i), z)
  BY ListsAfter DEF y, z
<1>10. Fits(Ones(s), One, One) /\ Fits(Values(s, which, i), Zero, y) /\ Fits(Powered(s, which, i), first, z)
  BY <1>1, <1>2, <1>4, <1>5, <1>6, ZeroOne, Zenon
<1> HIDE DEF Fits
<1>11. /\ Discounts(Ones(s), One, One)
       /\ Discounts(Values(s, which, i), Zero, y)
       /\ Discounts(Powered(s, which, i), first, z)
  BY <1>3, <1>10, Zenon
<1>7. /\ TotalWeight(c, s) \in Rationals
      /\ TotalWeight(c, Append(s, o)) = Plus(Times(o.discount, TotalWeight(c, s)), One)
  BY <1>4, <1>11, Zenon DEF TotalWeight
<1>8. /\ SumOf(c, s, which, i) \in Rationals
      /\ SumOf(c, Append(s, o), which, i) = Plus(Times(o.discount, SumOf(c, s, which, i)), y)
  BY <1>5, <1>11, Zenon DEF SumOf
<1>9. /\ SquaresOf(c, s, which, i, v) \in Rationals
      /\ SquaresOf(c, Append(s, o), which, i, v)
           = Plus(Times(o.discount, SquaresOf(c, s, which, i, v)), z)
  BY <1>6, <1>11, Zenon DEF SquaresOf, first
<1> QED
  BY <1>2, <1>7, <1>8, <1>9, Zenon DEF y

\* The mean stays the weighted mean when a value is observed.
LEMMA MeanStep ==
  ASSUME NEW c \in Rationals, NEW s \in Seq(Observation), NEW o \in Observation,
         NEW which \in Estimates, NEW m, MeanKept(m, c, s, which), AtMost(Zero, o.discount)
  PROVE  MeanKept(Observe(m, o[which], o.discount), c, Append(s, o), which)
<1> DEFINE n == Observe(m, o[which], o.discount)
           d == o.discount
           r == Append(s, o)
           W == m.weight
           w == Plus(Times(d, W), One)
           y == o[which]
<1>0. 1 \in 1 .. Dims /\ Zero \in Rationals /\ One \in Rationals
  BY ChainNumbers, ZeroOne
<1>1. d \in Rationals /\ W \in Rationals /\ Less(Zero, W) /\ W = TotalWeight(c, s)
  BY DEF Observation, MeanKept, Plenty
<1>2. AtMost(Zero, W)
  BY <1>0, <1>1, LessIs, Zenon
<1>3. y \in Vectors /\ \A i \in 1 .. Dims : y[i] \in Rationals
  BY <1>0, ListsAfter, VectorEntries
<1>4. m.mean \in Vectors /\ \A i \in 1 .. Dims : m.mean[i] \in Rationals
  BY VectorEntries, Zenon DEF MeanKept
<1>5. n.weight = w /\ n.mean = [i \in 1 .. Dims |-> MovedMean(m.mean[i], y[i], w)]
  <2>1. Observed(m, y, d, n)
    BY ObserveFields, Zenon
  <2> QED
    BY <2>1, Zenon DEF Observed
<1>6. w = TotalWeight(c, r)
  <2>1. /\ TotalWeight(c, Append(s, o)) = Plus(Times(o.discount, TotalWeight(c, s)), One)
        /\ SumOf(c, s, which, 1) \in Rationals /\ SquaresOf(c, s, which, 1, Zero) \in Rationals
    BY <1>0, TotalsAre
  <2> QED
    BY <1>1, <2>1, Zenon
<1>7. \A i \in 1 .. Dims : Times(W, m.mean[i]) = SumOf(c, s, which, i)
  BY DEF MeanKept
<1> HIDE DEF n, d, r, W, y
<1>8. ASSUME NEW i \in 1 .. Dims
      PROVE  /\ w \in Rationals /\ Less(Zero, w)
             /\ MovedMean(m.mean[i], y[i], w) \in Rationals
             /\ Times(w, MovedMean(m.mean[i], y[i], w)) = SumOf(c, r, which, i)
  <2> DEFINE B == SumOf(c, s, which, i)
             mean == m.mean[i]
             z == y[i]
  <2>1. B \in Rationals /\ SumOf(c, r, which, i) = Plus(Times(d, B), z)
    BY <1>0, TotalsAre DEF r, d, y
  <2>2. mean \in Rationals /\ z \in Rationals /\ Times(W, mean) = B
    BY <1>3, <1>4, <1>7, Zenon
  <2>3. AtMost(Zero, d)
    BY DEF d
  <2> HIDE DEF B, mean, z
  <2>4. /\ w \in Rationals /\ Less(Zero, w) /\ MovedMean(mean, z, w) \in Rationals
        /\ Times(w, MovedMean(mean, z, w)) = Plus(Times(d, B), z)
    <3>1. /\ Plus(Times(d, W), One) \in Rationals /\ Less(Zero, Plus(Times(d, W), One))
          /\ MovedMean(mean, z, Plus(Times(d, W), One)) \in Rationals
          /\ Times(Plus(Times(d, W), One), MovedMean(mean, z, Plus(Times(d, W), One)))
               = Plus(Times(d, B), z)
      <4> HIDE DEF w
      <4>1. d \in Rationals /\ W \in Rationals /\ mean \in Rationals /\ z \in Rationals /\ B \in Rationals
            /\ AtMost(Zero, d) /\ AtMost(Zero, W) /\ Times(W, mean) = B
        BY <1>1, <1>2, <2>1, <2>2, <2>3, Zenon
      <4> QED
        BY <4>1, MeanAfter
    <3> QED
      BY <3>1, Zenon
  <2> QED
    BY <2>1, <2>4, Zenon DEF mean, z
<1> HIDE DEF w
<1>9. Plenty(w)
  BY <1>0, <1>8, Zenon DEF Plenty
<1>10. n.mean \in Vectors /\ \A i \in 1 .. Dims : Times(w, n.mean[i]) = SumOf(c, r, which, i)
  <2>1. n.mean \in Vectors
    BY <1>5, <1>8 DEF Vectors
  <2>2. \A i \in 1 .. Dims : n.mean[i] = MovedMean(m.mean[i], y[i], w)
    BY <1>5
  <2> QED
    BY <1>8, <2>1, <2>2, Zenon
<1>11. MeanKept(n, c, r, which)
  BY <1>5, <1>6, <1>9, <1>10, Zenon DEF MeanKept
<1> QED
  BY <1>11, Zenon DEF n, r, d, y

\* The sum of squared deviations stays below what the values have.
LEMMA SpreadStepKept ==
  ASSUME NEW c \in Rationals, NEW s \in Seq(Observation), NEW o \in Observation,
         NEW which \in Estimates, NEW m, MeanKept(m, c, s, which), AtMost(Zero, o.discount),
         NEW variance, \A i \in 1 .. Dims : variance[i] \in Rationals,
         SpreadKept(m, c, s, which, variance)
  PROVE  LET n == Observe(m, o[which], o.discount)
         IN  /\ SpreadKept(n, c, Append(s, o), which, variance)
             /\ \A i \in 1 .. Dims :
                  Less(Zero, o.discount) /\ Less(Zero, m.sum_sq_dev[i]) => Less(Zero, n.sum_sq_dev[i])
<1> DEFINE n == Observe(m, o[which], o.discount)
           d == o.discount
           r == Append(s, o)
           W == m.weight
           w == Plus(Times(d, W), One)
           y == o[which]
<1>0. 1 \in 1 .. Dims /\ Zero \in Rationals /\ One \in Rationals
  BY ChainNumbers, ZeroOne
<1>1. d \in Rationals /\ W \in Rationals /\ Less(Zero, W) /\ W = TotalWeight(c, s)
  BY DEF Observation, MeanKept, Plenty
<1>2. AtMost(Zero, W)
  BY <1>0, <1>1, LessIs, Zenon
<1>3. y \in Vectors /\ \A i \in 1 .. Dims : y[i] \in Rationals
  BY <1>0, ListsAfter, VectorEntries
<1>4. m.mean \in Vectors /\ \A i \in 1 .. Dims : m.mean[i] \in Rationals
  BY VectorEntries, Zenon DEF MeanKept
<1>5. /\ n.mean = [i \in 1 .. Dims |-> MovedMean(m.mean[i], y[i], w)]
      /\ n.sum_sq_dev = [i \in 1 .. Dims |-> Moving2(d, m.sum_sq_dev[i], y[i], n.mean[i])]
  <2>1. Observed(m, y, d, n)
    BY ObserveFields, Zenon
  <2> QED
    BY <2>1, Zenon DEF Observed
<1>6. \A i \in 1 .. Dims : Times(W, m.mean[i]) = SumOf(c, s, which, i)
  BY DEF MeanKept
<1>7. /\ \A i \in 1 .. Dims : m.sum_sq_dev[i] \in Rationals /\ AtMost(Zero, m.sum_sq_dev[i])
      /\ \A i \in 1 .. Dims : SpreadBound(m, c, s, which, i, variance[i])
  BY VectorEntries, Zenon DEF SpreadKept
<1>8. AtMost(Zero, d)
  BY DEF d
<1> HIDE DEF n, d, r, W, w, y
<1>9. ASSUME NEW i \in 1 .. Dims
      PROVE  /\ n.sum_sq_dev[i] \in Rationals /\ AtMost(Zero, n.sum_sq_dev[i])
             /\ SpreadBound(n, c, r, which, i, variance[i])
             /\ Less(Zero, d) /\ Less(Zero, m.sum_sq_dev[i]) => Less(Zero, n.sum_sq_dev[i])
  <2> DEFINE B == SumOf(c, s, which, i)
             C == SquaresOf(c, s, which, i, variance[i])
             mean == m.mean[i]
             z == y[i]
             t == m.sum_sq_dev[i]
             q == MovedMean(mean, z, w)
             u == n.sum_sq_dev[i]
  <2>1. /\ B \in Rationals /\ SumOf(c, r, which, i) = Plus(Times(d, B), z)
        /\ C \in Rationals
        /\ SquaresOf(c, r, which, i, variance[i]) = Plus(Times(d, C), Square(z))
    BY TotalsAre DEF r, d, y
  <2>2. mean \in Rationals /\ z \in Rationals /\ Times(W, mean) = B
    BY <1>3, <1>4, <1>6, Zenon
  <2>3. t \in Rationals /\ AtMost(Zero, t) /\ AtMost(t, Minus(C, Times(mean, B)))
    BY <1>7, Zenon DEF SpreadBound
  <2>4. n.mean[i] = q /\ u = Moving2(d, t, z, q)
    BY <1>5
  <2> HIDE DEF B, C, mean, z, t, u
  <2>5. w \in Rationals /\ q \in Rationals
    BY <1>1, <1>2, <1>8, <2>1, <2>2, MeanAfter, Zenon DEF w
  <2>6. AtMost(Moving2(d, t, z, q),
               Minus(Plus(Times(d, C), Times(z, z)), Times(q, Plus(Times(d, B), z))))
    BY <1>1, <1>2, <1>8, <2>1, <2>2, <2>3, SpreadAfter, Zenon DEF w, Moving2
  <2> HIDE DEF q
  <2>7. SpreadBound(n, c, r, which, i, variance[i])
    BY <2>1, <2>4, <2>6, Zenon DEF SpreadBound, Square, u
  <2> DEFINE e == Minus(z, q)
  <2>8. e \in Rationals /\ AtMost(Zero, Times(e, e)) /\ Times(e, e) \in Rationals
        /\ Times(d, t) \in Rationals /\ u = Plus(Times(d, t), Times(e, e))
    BY <1>1, <2>2, <2>3, <2>4, <2>5, Closed, Positives, Zenon DEF Moving2
  <2> HIDE DEF e
  <2>9. u \in Rationals
    BY <2>8, Closed, Zenon
  <2>10. AtMost(Zero, Times(d, t))
    <3>1. AtMost(Times(d, Zero), Times(d, t)) /\ Times(d, Zero) = Zero
      BY <1>0, <1>1, <1>8, <2>3, TimesMonotone, Units, Zenon
    <3> QED
      BY <3>1, Zenon
  <2>11. AtMost(Zero, u)
    <3>1. AtMost(Plus(Zero, Zero), Plus(Times(d, t), Times(e, e))) /\ Plus(Zero, Zero) = Zero
      BY <1>0, <2>8, <2>10, PlusMonotone, Units, Zenon
    <3> QED
      BY <2>8, <3>1, Zenon
  <2>12. Less(Zero, d) /\ Less(Zero, t) => Less(Zero, u)
    BY <1>1, <2>3, <2>8, Positives, Zenon
  <2> QED
    BY <2>7, <2>9, <2>11, <2>12, Zenon DEF t, u
<1>10. SpreadKept(n, c, r, which, variance)
  <2>1. n.sum_sq_dev \in Vectors
    <3>1. \A i \in 1 .. Dims : n.sum_sq_dev[i] \in Rationals
      BY <1>9
    <3>2. n.sum_sq_dev = [i \in 1 .. Dims |-> n.sum_sq_dev[i]]
      BY <1>5
    <3> QED
      BY <3>1, <3>2 DEF Vectors
  <2> QED
    BY <1>9, <2>1, Zenon DEF SpreadKept
<1> QED
  BY <1>9, <1>10, Zenon DEF n, r, d, y

\* The initial estimate.
LEMMA MomentsStart ==
  ASSUME NEW c, Plenty(c), NEW which \in Estimates, NEW variance
  PROVE  LET m == NewMoments(c, [i \in 1 .. Dims |-> Zero], variance)
         IN  /\ MeanKept(m, c, <<>>, which)
             /\ (\A i \in 1 .. Dims : Plenty(variance[i])) =>
                  /\ SpreadKept(m, c, <<>>, which, variance)
                  /\ \A i \in 1 .. Dims : Less(Zero, m.sum_sq_dev[i])
<1> DEFINE zeros == [i \in 1 .. Dims |-> Zero]
           m == NewMoments(c, zeros, variance)
<1>0. c \in Rationals /\ Less(Zero, c) /\ Zero \in Rationals /\ One \in Rationals
  BY ZeroOne DEF Plenty
<1>1. m.weight = c /\ m.mean = zeros
  BY DEF NewMoments
<1>2. m.sum_sq_dev = [i \in 1 .. Dims |-> Times(c, variance[i])]
  BY DEF NewMoments, Elementwise, Constant
<1>3. zeros \in Vectors /\ \A i \in 1 .. Dims : zeros[i] = Zero
  BY <1>0 DEF Vectors
<1>4. Ones(<<>>) = <<>> /\ \A i : Values(<<>>, which, i) = <<>> /\ Powered(<<>>, which, i) = <<>>
  BY DEF Ones, Values, Powered
<1> HIDE DEF m, zeros
<1>5. TotalWeight(c, <<>>) = c /\ \A i : SumOf(c, <<>>, which, i) = Zero
  <2>1. WeightedTotal(c, <<>>, One, <<>>) = c /\ WeightedTotal(c, <<>>, Zero, <<>>) = Zero
    <3>1. WeightedTotal(c, <<>>, One, <<>>) = Times(c, One) /\ WeightedTotal(c, <<>>, Zero, <<>>) = Times(c, Zero)
      BY <1>0, WeightedStart, Zenon
    <3>2. Times(c, One) = c /\ Times(c, Zero) = Zero
      BY <1>0, Units, Zenon
    <3> QED
      BY <3>1, <3>2, Zenon
  <2>2. TotalWeight(c, <<>>) = c
    BY <1>4, <2>1, Zenon DEF TotalWeight
  <2>3. ASSUME NEW i PROVE SumOf(c, <<>>, which, i) = Zero
    BY <1>4, <2>1, Zenon DEF SumOf
  <2> QED
    BY <2>2, <2>3
<1>6. MeanKept(m, c, <<>>, which)
  <2>1. \A i \in 1 .. Dims : Times(m.weight, m.mean[i]) = SumOf(c, <<>>, which, i)
    BY <1>0, <1>1, <1>3, <1>5, Units, Zenon
  <2> QED
    BY <1>1, <1>3, <1>5, <2>1, Zenon DEF MeanKept
<1>7. ASSUME \A i \in 1 .. Dims : Plenty(variance[i])
      PROVE  /\ SpreadKept(m, c, <<>>, which, variance)
             /\ \A i \in 1 .. Dims : Less(Zero, m.sum_sq_dev[i])
  <2>1. ASSUME NEW i \in 1 .. Dims
        PROVE  /\ m.sum_sq_dev[i] \in Rationals /\ Less(Zero, m.sum_sq_dev[i])
               /\ AtMost(Zero, m.sum_sq_dev[i])
               /\ SpreadBound(m, c, <<>>, which, i, variance[i])
    <3> DEFINE v == variance[i]
               u == m.sum_sq_dev[i]
    <3>1. v \in Rationals /\ Less(Zero, v)
      BY <1>7 DEF Plenty
    <3>2. u = Times(c, v)
      BY <1>2
    <3> HIDE DEF v, u
    <3>3. u \in Rationals /\ Less(Zero, u) /\ AtMost(Zero, u)
      BY <1>0, <3>1, <3>2, Closed, Positives, LessIs, Zenon
    <3>4. SquaresOf(c, <<>>, which, i, v) = Times(c, v)
      <4>1. Square(Zero) = Zero
        BY <1>0, Units, Zenon DEF Square
      <4>2. Plus(Zero, v) = v
        BY <1>0, <3>1, PlusCommutes, Units, Zenon
      <4> QED
        BY <1>0, <1>4, <3>1, <4>1, <4>2, WeightedStart, Zenon DEF SquaresOf
    <3>5. Minus(Times(c, v), Times(Zero, Zero)) = u
      BY <1>0, <3>2, <3>3, Units, Zenon
    <3>6. SumOf(c, <<>>, which, i) = Zero /\ m.mean[i] = Zero
      BY <1>1, <1>3, <1>5
    <3>7. Minus(SquaresOf(c, <<>>, which, i, v), Times(m.mean[i], SumOf(c, <<>>, which, i))) = u
      BY <3>4, <3>5, <3>6, Zenon
    <3>8. AtMost(u, u)
      BY <3>3, LessIs, Zenon
    <3> QED
      BY <3>3, <3>7, <3>8, Zenon DEF SpreadBound, u, v
  <2>2. m.sum_sq_dev \in Vectors
    <3>1. \A i \in 1 .. Dims : Times(c, variance[i]) \in Rationals
      BY <1>0, <1>7, Closed, Zenon DEF Plenty
    <3> QED
      BY <1>2, <3>1 DEF Vectors
  <2> QED
    BY <2>1, <2>2, Zenon DEF SpreadKept
<1> QED
  BY <1>6, <1>7, Zenon DEF m, zeros

-------------------------------------------------------------------------------

(***************************************************************************)
(* Adam.                                                                   *)
(***************************************************************************)
\* An acceptance statistic or a gradient of Adam's objective.
Statistic == Rationals \cup {NaN}
Fractions == {p \in Rationals : Fractional(p)}
AdamSteps == {One, Inf, NaN}

AdamStates ==
  [step : AdamSteps, move : {-1, 0, 1}, m : Statistic, v : Statistic,
   gradient_pow : Fractions, sq_gradient_pow : Fractions]

AdamMoved(a, g, r) ==
  /\ r.gradient_pow = Times(a.gradient_pow, warmup.step_gradient_decay)
  /\ r.sq_gradient_pow = Times(a.sq_gradient_pow, warmup.step_sq_gradient_decay)
  /\ r.m = Averaged(warmup.step_gradient_decay, a.m, g)
  /\ r.v = Averaged(warmup.step_sq_gradient_decay, a.v, Times(g, g))
  /\ r.move = IF MHat(r)[1] > 0 THEN -1 ELSE IF MHat(r)[1] < 0 THEN 1 ELSE 0
  /\ r.step = Plus(a.step, Times(Zero, MHat(r)))

LEMMA AveragedStatistic ==
  \A d \in Rationals, x, u \in Statistic :
    /\ Averaged(d, x, u) \in Statistic
    /\ x = NaN \/ u = NaN => Averaged(d, x, u) = NaN
<1> SUFFICES ASSUME NEW d \in Rationals, NEW x \in Statistic, NEW u \in Statistic
             PROVE  /\ Averaged(d, x, u) \in Statistic
                    /\ x = NaN \/ u = NaN => Averaged(d, x, u) = NaN
  OBVIOUS
<1>1. Minus(One, d) \in Rationals /\ NaN \notin Rationals
  BY Complement, DoublesFinite
<1>2. ASSUME NEW e \in Rationals, NEW z \in Statistic
      PROVE  Times(e, z) \in Statistic /\ (z = NaN => Times(e, z) = NaN)
             /\ (z \in Rationals => Times(e, z) \in Rationals)
  BY NaNSpreads, Closed DEF Statistic
<1>3. CASE x \in Rationals /\ u \in Rationals
  BY <1>1, <1>3, AveragedClosed DEF Statistic
<1>4. CASE x = NaN \/ u = NaN
  <2>1. Times(d, x) = NaN \/ Times(Minus(One, d), u) = NaN
    BY <1>1, <1>2, <1>4
  <2>2. Times(d, x) \in Statistic /\ Times(Minus(One, d), u) \in Statistic
    BY <1>1, <1>2
  <2>3. \A y, z \in Statistic : y = NaN \/ z = NaN => Plus(y, z) = NaN
    BY NaNSpreads DEF Statistic
  <2>4. Plus(Times(d, x), Times(Minus(One, d), u)) = NaN
    BY <2>1, <2>2, <2>3, Zenon
  <2> QED
    BY <2>4 DEF Averaged, Statistic
<1> QED
  BY <1>3, <1>4 DEF Statistic

\* The corrected average.
LEMMA HatStatistic ==
  \A m \in Statistic, p \in Rationals : Less(p, One) =>
    /\ Over(m, Minus(One, p)) \in Statistic
    /\ m \in Rationals => Over(m, Minus(One, p)) \in Rationals
    /\ m = NaN => Over(m, Minus(One, p)) = NaN
<1> SUFFICES ASSUME NEW m \in Statistic, NEW p \in Rationals, Less(p, One)
             PROVE  /\ Over(m, Minus(One, p)) \in Statistic
                    /\ m \in Rationals => Over(m, Minus(One, p)) \in Rationals
                    /\ m = NaN => Over(m, Minus(One, p)) = NaN
  OBVIOUS
<1> DEFINE c == Minus(One, p)
<1>1. c \in Rationals /\ Less(Zero, c)
  BY Complement
<1> HIDE DEF c
<1>2. c # Zero
  BY <1>1, Positives, Zenon
<1>3. m \in Rationals => Over(m, c) \in Rationals
  BY <1>1, <1>2, Closed, Zenon
<1>4. m = NaN => Over(m, c) = NaN
  BY <1>1, NaNSpreads, Zenon
<1> QED
  BY <1>3, <1>4 DEF Statistic, c

LEMMA StepStatistic ==
  \A s \in AdamSteps, h \in Statistic :
    /\ Plus(s, Times(Zero, h)) \in AdamSteps
    /\ h \in Rationals => Plus(s, Times(Zero, h)) = s
    /\ h = NaN => Plus(s, Times(Zero, h)) = NaN
<1> SUFFICES ASSUME NEW s \in AdamSteps, NEW h \in Statistic
             PROVE  /\ h \in Rationals => Plus(s, Times(Zero, h)) = s
                    /\ h = NaN => Plus(s, Times(Zero, h)) = NaN
  BY DEF AdamSteps, Statistic
<1>1. Zero \in Rationals /\ One \in Rationals
  BY ZeroOne
<1>2. ASSUME h \in Rationals PROVE Plus(s, Times(Zero, h)) = s
  <2>1. Times(Zero, h) = Zero
    BY <1>1, <1>2, Units, TimesCommutes
  <2>2. Plus(One, Zero) = One /\ Plus(Inf, Zero) = Inf /\ Plus(NaN, Zero) = NaN
    BY <1>1, Units, NaNSpreads
  <2> QED
    BY <2>1, <2>2, Zenon DEF AdamSteps
<1>3. ASSUME h = NaN PROVE Plus(s, Times(Zero, h)) = NaN
  <2>1. Times(Zero, h) = NaN
    BY <1>1, <1>3, NaNSpreads
  <2>2. Plus(One, NaN) = NaN /\ Plus(Inf, NaN) = NaN /\ Plus(NaN, NaN) = NaN
    BY <1>1, NaNSpreads
  <2> QED
    BY <2>1, <2>2, Zenon DEF AdamSteps
<1> QED
  BY <1>2, <1>3

LEMMA GradientStatistic ==
  WarmupInv => \A alpha \in Statistic :
    /\ Gradient(alpha) \in Statistic
    /\ alpha \in Rationals => Gradient(alpha) \in Rationals
    /\ alpha = NaN => Gradient(alpha) = NaN
<1> SUFFICES ASSUME WarmupInv, NEW alpha \in Statistic
             PROVE  /\ alpha \in Rationals => Gradient(alpha) \in Rationals
                    /\ alpha = NaN => Gradient(alpha) = NaN
  BY DEF Statistic
<1>1. warmup.step_accept_rate_target \in Rationals
  BY Zenon DEF WarmupInv, Probable
<1> QED
  BY <1>1, Closed, NaNSpreads, Zenon DEF Gradient

LEMMA AdamFields ==
  ASSUME NEW a \in AdamStates, NEW alpha
  PROVE  /\ AdamMoved(a, Gradient(alpha), ObserveAccept(a, alpha))
         /\ LET r == ObserveAccept(a, alpha)
            IN  r = [step |-> r.step, move |-> r.move, m |-> r.m, v |-> r.v,
                     gradient_pow |-> r.gradient_pow, sq_gradient_pow |-> r.sq_gradient_pow]
<1> DEFINE g == Gradient(alpha)
           x1 == Times(a.gradient_pow, warmup.step_gradient_decay)
           x2 == Times(a.sq_gradient_pow, warmup.step_sq_gradient_decay)
           x3 == Averaged(warmup.step_gradient_decay, a.m, g)
           x4 == Averaged(warmup.step_sq_gradient_decay, a.v, Times(g, g))
           b == [a EXCEPT !.gradient_pow = x1, !.sq_gradient_pow = x2, !.m = x3, !.v = x4]
           y1 == IF MHat(b)[1] > 0 THEN -1 ELSE IF MHat(b)[1] < 0 THEN 1 ELSE 0
           y2 == Plus(b.step, Times(Zero, MHat(b)))
           r == ObserveAccept(a, alpha)
<1>1. r = [b EXCEPT !.move = y1, !.step = y2]
  BY DEF ObserveAccept, Decayed, Average, Averaged
<1> HIDE DEF g, x1, x2, x3, x4, r
<1>2. DOMAIN a = {"step", "move", "m", "v", "gradient_pow", "sq_gradient_pow"}
  BY DEF AdamStates
<1>3. b = [h \in DOMAIN a |-> IF h = "gradient_pow" THEN x1 ELSE IF h = "sq_gradient_pow" THEN x2
                              ELSE IF h = "m" THEN x3 ELSE IF h = "v" THEN x4 ELSE a[h]]
  OBVIOUS
<1> HIDE DEF b, y1, y2
<1>4. r = [h \in DOMAIN b |-> IF h = "move" THEN y1 ELSE IF h = "step" THEN y2 ELSE b[h]]
  BY <1>1
<1>5. /\ DOMAIN b = DOMAIN a /\ b.gradient_pow = x1 /\ b.sq_gradient_pow = x2
      /\ b.m = x3 /\ b.v = x4 /\ b.step = a.step
  BY <1>2, <1>3
<1>6. /\ DOMAIN r = DOMAIN a /\ r = [h \in DOMAIN r |-> r[h]]
      /\ r.gradient_pow = x1 /\ r.sq_gradient_pow = x2
      /\ r.m = x3 /\ r.v = x4 /\ r.step = y2 /\ r.move = y1
  BY <1>2, <1>4, <1>5
<1>7. MHat(r) = MHat(b)
  BY <1>5, <1>6, Zenon DEF MHat
<1>8. AdamMoved(a, g, r)
  BY <1>5, <1>6, <1>7, Zenon DEF AdamMoved, x1, x2, x3, x4, y1, y2
<1>9. r = [step |-> r.step, move |-> r.move, m |-> r.m, v |-> r.v,
           gradient_pow |-> r.gradient_pow, sq_gradient_pow |-> r.sq_gradient_pow]
  BY <1>2, <1>6
<1> QED
  BY <1>8, <1>9 DEF g, r

LEMMA AdamClosed ==
  WarmupInv => \A a \in AdamStates, alpha \in Statistic :
    /\ ObserveAccept(a, alpha) \in AdamStates
    /\ Less(ObserveAccept(a, alpha).gradient_pow, One)
    /\ Less(ObserveAccept(a, alpha).sq_gradient_pow, One)
    /\ ObserveAccept(a, alpha).step \in {a.step, NaN}
<1> SUFFICES ASSUME WarmupInv, NEW a \in AdamStates, NEW alpha \in Statistic
             PROVE  /\ ObserveAccept(a, alpha) \in AdamStates
                    /\ Less(ObserveAccept(a, alpha).gradient_pow, One)
                    /\ Less(ObserveAccept(a, alpha).sq_gradient_pow, One)
                    /\ ObserveAccept(a, alpha).step \in {a.step, NaN}
  OBVIOUS
<1> DEFINE r == ObserveAccept(a, alpha)
           g == Gradient(alpha)
           d == warmup.step_gradient_decay
           e == warmup.step_sq_gradient_decay
<1>1. /\ d \in Rationals /\ Less(Zero, d) /\ Less(d, One)
      /\ e \in Rationals /\ Less(Zero, e) /\ Less(e, One)
  BY Zenon DEF WarmupInv, Probable
<1>2. g \in Statistic /\ Times(g, g) \in Statistic
  <2>1. g \in Statistic
    BY GradientStatistic
  <2> HIDE DEF g
  <2>2. \A x \in Statistic : Times(x, x) \in Statistic
    BY Closed, NaNSpreads DEF Statistic
  <2> QED
    BY <2>1, <2>2
<1>3. AdamMoved(a, g, r)
  BY AdamFields
<1>4. r = [step |-> r.step, move |-> r.move, m |-> r.m, v |-> r.v,
           gradient_pow |-> r.gradient_pow, sq_gradient_pow |-> r.sq_gradient_pow]
  BY AdamFields
<1>5. /\ a.step \in AdamSteps /\ a.m \in Statistic /\ a.v \in Statistic
      /\ a.gradient_pow \in Fractions /\ a.sq_gradient_pow \in Fractions
  BY DEF AdamStates
<1> HIDE DEF r, g, d, e
<1>6. /\ r.gradient_pow \in Fractions /\ Less(r.gradient_pow, One)
      /\ r.sq_gradient_pow \in Fractions /\ Less(r.sq_gradient_pow, One)
  <2>1. r.gradient_pow = Times(a.gradient_pow, d) /\ r.sq_gradient_pow = Times(a.sq_gradient_pow, e)
    BY <1>3, Zenon DEF AdamMoved, d, e
  <2>2. ASSUME NEW p \in Fractions, NEW k \in Rationals, Less(Zero, k), Less(k, One)
        PROVE  Times(p, k) \in Fractions /\ Less(Times(p, k), One)
    BY <2>2, ProductFractional DEF Fractions, Fractional
  <2> QED
    BY <1>1, <1>5, <2>1, <2>2
<1>7. r.m \in Statistic /\ r.v \in Statistic
  <2>1. r.m = Averaged(d, a.m, g) /\ r.v = Averaged(e, a.v, Times(g, g))
    BY <1>3, Zenon DEF AdamMoved, d, e
  <2>2. Averaged(d, a.m, g) \in Statistic
    BY <1>1, <1>2, <1>5, AveragedStatistic, Zenon
  <2>3. Averaged(e, a.v, Times(g, g)) \in Statistic
    BY <1>1, <1>2, <1>5, AveragedStatistic, Zenon
  <2> QED
    BY <2>1, <2>2, <2>3, Zenon
<1>8. MHat(r) \in Statistic
  <2>1. r.gradient_pow \in Rationals
    BY <1>6 DEF Fractions
  <2> QED
    BY <1>6, <1>7, <2>1, HatStatistic, Zenon DEF MHat
<1>9. r.step \in AdamSteps /\ r.step \in {a.step, NaN}
  <2>1. r.step = Plus(a.step, Times(Zero, MHat(r)))
    BY <1>3, Zenon DEF AdamMoved
  <2> QED
    BY <1>5, <1>8, <2>1, StepStatistic DEF Statistic
<1>10. r.move \in {-1, 0, 1}
  BY <1>3 DEF AdamMoved
<1>11. r \in AdamStates
  BY <1>4, <1>6, <1>7, <1>9, <1>10 DEF AdamStates
<1> QED
  BY <1>6, <1>9, <1>11 DEF r

\* m is between the smallest and largest of xs, scaled by one minus p.
Sided(m, p, xs) ==
  /\ \E k \in DOMAIN xs : Below(xs[k], p, m)
  /\ \E k \in DOMAIN xs : Above(xs[k], p, m)

Untouched(m, p, xs) == xs = <<>> /\ m = Zero /\ p = One

Squares(xs) == [k \in DOMAIN xs |-> Square(xs[k])]

AllRational(xs) == \A k \in DOMAIN xs : xs[k] \in Rationals

\* Adam after some gradients.
Follows(a, gs) ==
  /\ a \in AdamStates /\ gs \in Seq(Statistic)
  /\ gs = <<>> =>
       /\ a.m = Zero /\ a.v = Zero /\ a.gradient_pow = One /\ a.sq_gradient_pow = One
  /\ gs # <<>> => Less(a.gradient_pow, One) /\ Less(a.sq_gradient_pow, One)
  /\ AllRational(gs) =>
       /\ a.m \in Rationals /\ a.v \in Rationals /\ a.step # NaN
       /\ gs # <<>> =>
            /\ Sided(a.m, a.gradient_pow, gs)
            /\ Sided(a.v, a.sq_gradient_pow, Squares(gs))
            /\ Less(Zero, a.m) => a.move = -1
            /\ Less(a.m, Zero) => a.move = 1
  /\ ~AllRational(gs) => a.m = NaN /\ a.v = NaN /\ a.step = NaN

LEMMA SidedAfter ==
  ASSUME NEW d \in Rationals, NEW p \in Rationals, NEW m \in Rationals, NEW g \in Rationals,
         NEW xs \in Seq(Rationals), Fractional(d), Fractional(p),
         Untouched(m, p, xs) \/ Sided(m, p, xs)
  PROVE  Sided(Averaged(d, m, g), Times(p, d), Append(xs, g))
<1> DEFINE ys == Append(xs, g)
           n == Len(xs) + 1
<1>1. /\ n \in DOMAIN ys /\ ys[n] = g
      /\ \A k \in DOMAIN xs : k \in DOMAIN ys /\ ys[k] = xs[k] /\ xs[k] \in Rationals
  OBVIOUS
<1> HIDE DEF ys, n
<1>2. \A l \in Rationals : Below(l, p, m) =>
        Below(l, Times(p, d), Averaged(d, m, g)) \/ Below(g, Times(p, d), Averaged(d, m, g))
  <2> SUFFICES ASSUME NEW l \in Rationals, Below(l, p, m)
               PROVE  \E k \in {l, g} : Below(k, Times(p, d), Averaged(d, m, g))
    OBVIOUS
  <2> QED
    BY AveragedBetween
<1>3. \A l \in Rationals : Above(l, p, m) =>
        Above(l, Times(p, d), Averaged(d, m, g)) \/ Above(g, Times(p, d), Averaged(d, m, g))
  <2> SUFFICES ASSUME NEW l \in Rationals, Above(l, p, m)
               PROVE  \E k \in {l, g} : Above(k, Times(p, d), Averaged(d, m, g))
    OBVIOUS
  <2> QED
    BY AveragedBetween
<1>4. CASE Untouched(m, p, xs)
  <2>1. Below(g, p, m) /\ Above(g, p, m)
    <3>1. m = Zero /\ Minus(One, p) = Zero
      BY <1>4, ZeroOne, Units DEF Untouched
    <3>2. Times(g, Zero) = Zero /\ AtMost(Zero, Zero)
      BY ZeroOne, Units, LessIs
    <3> QED
      BY <3>1, <3>2, Zenon DEF Below, Above
  <2>2. Below(g, Times(p, d), Averaged(d, m, g)) /\ Above(g, Times(p, d), Averaged(d, m, g))
    BY <1>2, <1>3, <2>1, Zenon
  <2> QED
    BY <1>1, <2>2, Zenon DEF Sided, ys
<1>5. CASE Sided(m, p, xs)
  <2>1. PICK i \in DOMAIN xs : Below(xs[i], p, m)
    BY <1>5, Zenon DEF Sided
  <2>2. PICK j \in DOMAIN xs : Above(xs[j], p, m)
    BY <1>5, Zenon DEF Sided
  <2>3. \E k \in DOMAIN ys : Below(ys[k], Times(p, d), Averaged(d, m, g))
    BY <1>1, <1>2, <2>1, Zenon
  <2>4. \E k \in DOMAIN ys : Above(ys[k], Times(p, d), Averaged(d, m, g))
    BY <1>1, <1>3, <2>2, Zenon
  <2> QED
    BY <2>3, <2>4, Zenon DEF Sided, ys
<1> QED
  BY <1>4, <1>5

LEMMA SquaresAfter ==
  \A xs \in Seq(Rationals), g \in Rationals :
    /\ Squares(xs) \in Seq(Rationals) /\ Len(Squares(xs)) = Len(xs)
    /\ Squares(Append(xs, g)) = Append(Squares(xs), Square(g))
    /\ Square(g) \in Rationals
<1> SUFFICES ASSUME NEW xs \in Seq(Rationals), NEW g \in Rationals
             PROVE  /\ Squares(xs) \in Seq(Rationals) /\ Len(Squares(xs)) = Len(xs)
                    /\ Squares(Append(xs, g)) = Append(Squares(xs), Square(g))
                    /\ Square(g) \in Rationals
  OBVIOUS
<1>1. \A x \in Rationals : Square(x) \in Rationals
  BY Closed DEF Square
<1>2. \A ys \in Seq(Rationals) : Squares(ys) \in Seq(Rationals) /\ Len(Squares(ys)) = Len(ys)
        /\ \A k \in 1 .. Len(ys) : Squares(ys)[k] = Square(ys[k])
  BY <1>1 DEF Squares
<1> DEFINE a == Squares(Append(xs, g))
           b == Append(Squares(xs), Square(g))
<1>3. /\ Append(xs, g) \in Seq(Rationals) /\ Len(Append(xs, g)) = Len(xs) + 1
      /\ Append(xs, g)[Len(xs) + 1] = g /\ Len(xs) \in Nat
      /\ \A k \in 1 .. Len(xs) : Append(xs, g)[k] = xs[k]
  OBVIOUS
<1>4. /\ a \in Seq(Rationals) /\ Len(a) = Len(xs) + 1
      /\ \A k \in 1 .. Len(xs) + 1 : a[k] = Square(Append(xs, g)[k])
  BY <1>2, <1>3
<1>5. /\ Squares(xs) \in Seq(Rationals) /\ Len(Squares(xs)) = Len(xs)
      /\ \A k \in 1 .. Len(xs) : Squares(xs)[k] = Square(xs[k])
  BY <1>2
<1>6. /\ b \in Seq(Rationals) /\ Len(b) = Len(xs) + 1 /\ b[Len(xs) + 1] = Square(g)
      /\ \A k \in 1 .. Len(xs) : b[k] = Squares(xs)[k]
  BY <1>1, <1>5
<1> HIDE DEF a, b
<1>7. \A k \in 1 .. Len(xs) + 1 : a[k] = b[k]
  <2> SUFFICES ASSUME NEW k \in 1 .. Len(xs) + 1 PROVE a[k] = b[k]
    OBVIOUS
  <2>1. CASE k = Len(xs) + 1
    BY <1>3, <1>4, <1>6, <2>1, Zenon
  <2>2. CASE k \in 1 .. Len(xs)
    BY <1>3, <1>4, <1>5, <1>6, <2>2, Zenon
  <2> QED
    BY <1>3, <2>1, <2>2
<1>8. a = b
  BY <1>4, <1>6, <1>7, SameList
<1> QED
  BY <1>1, <1>5, <1>8 DEF a, b

LEMMA MoveSign ==
  \A m, p \in Rationals : Less(p, One) =>
    /\ Less(Zero, m) => Over(m, Minus(One, p))[1] > 0
    /\ Less(m, Zero) => Over(m, Minus(One, p))[1] < 0
<1> SUFFICES ASSUME NEW m \in Rationals, NEW p \in Rationals, Less(p, One)
             PROVE  /\ Less(Zero, m) => Over(m, Minus(One, p))[1] > 0
                    /\ Less(m, Zero) => Over(m, Minus(One, p))[1] < 0
  OBVIOUS
<1> DEFINE c == Minus(One, p)
<1>1. c \in Rationals /\ Less(Zero, c)
  BY Complement
<1> HIDE DEF c
<1>2. (Less(Zero, m) <=> m[1] > 0) /\ (Less(m, Zero) <=> m[1] < 0)
  BY Signs, Zenon
<1>3. (Over(m, c)[1] > 0 <=> m[1] > 0) /\ (Over(m, c)[1] < 0 <=> m[1] < 0)
  BY <1>1, Signs, Zenon
<1> QED
  BY <1>2, <1>3, Zenon DEF c

LEMMA FollowsStep ==
  WarmupInv => \A a, gs : \A alpha \in Statistic :
    Follows(a, gs) => Follows(ObserveAccept(a, alpha), Append(gs, Gradient(alpha)))
<1> SUFFICES ASSUME WarmupInv, NEW a, NEW gs, NEW alpha \in Statistic, Follows(a, gs)
             PROVE  Follows(ObserveAccept(a, alpha), Append(gs, Gradient(alpha)))
  OBVIOUS
<1> DEFINE r == ObserveAccept(a, alpha)
           g == Gradient(alpha)
           rs == Append(gs, g)
           d == warmup.step_gradient_decay
           e == warmup.step_sq_gradient_decay
<1>1. /\ d \in Rationals /\ Less(Zero, d) /\ Less(d, One) /\ Fractional(d)
      /\ e \in Rationals /\ Less(Zero, e) /\ Less(e, One) /\ Fractional(e)
  BY ZeroOne, LessIs DEF WarmupInv, Probable, Fractional
<1>2. a \in AdamStates /\ gs \in Seq(Statistic)
  BY Zenon DEF Follows
<1>3. g \in Statistic
  BY GradientStatistic
<1>4. AdamMoved(a, g, r)
  BY <1>2, AdamFields
<1>5. r \in AdamStates /\ Less(r.gradient_pow, One) /\ Less(r.sq_gradient_pow, One)
  BY <1>2, AdamClosed
<1>6. /\ a.m \in Statistic /\ a.v \in Statistic /\ a.step \in AdamSteps
      /\ a.gradient_pow \in Rationals /\ Fractional(a.gradient_pow)
      /\ a.sq_gradient_pow \in Rationals /\ Fractional(a.sq_gradient_pow)
  BY <1>2 DEF AdamStates, Fractions
<1>7. r.gradient_pow \in Rationals /\ r.sq_gradient_pow \in Rationals
  BY <1>5 DEF AdamStates, Fractions
<1> HIDE DEF r, g, d, e
<1>8. /\ r.gradient_pow = Times(a.gradient_pow, d) /\ r.sq_gradient_pow = Times(a.sq_gradient_pow, e)
      /\ r.m = Averaged(d, a.m, g) /\ r.v = Averaged(e, a.v, Times(g, g))
      /\ r.move = IF MHat(r)[1] > 0 THEN -1 ELSE IF MHat(r)[1] < 0 THEN 1 ELSE 0
      /\ r.step = Plus(a.step, Times(Zero, MHat(r)))
  BY <1>4, Zenon DEF AdamMoved, d, e
<1>9. /\ rs \in Seq(Statistic) /\ rs # <<>>
      /\ AllRational(rs) <=> AllRational(gs) /\ g \in Rationals
  <2>1. /\ rs \in Seq(Statistic) /\ rs # <<>> /\ DOMAIN rs = 1 .. Len(gs) + 1 /\ rs[Len(gs) + 1] = g
        /\ Len(gs) + 1 \in DOMAIN rs
        /\ DOMAIN gs = 1 .. Len(gs) /\ \A k \in DOMAIN gs : k \in DOMAIN rs /\ rs[k] = gs[k]
        /\ \A k \in DOMAIN rs : k = Len(gs) + 1 \/ k \in DOMAIN gs
    BY <1>2, <1>3
  <2> HIDE DEF rs
  <2> QED
    BY <2>1, Zenon DEF AllRational
<1> HIDE DEF rs
<1>10. ASSUME AllRational(rs)
       PROVE  /\ r.m \in Rationals /\ r.v \in Rationals /\ r.step # NaN
              /\ Sided(r.m, r.gradient_pow, rs)
              /\ Sided(r.v, r.sq_gradient_pow, Squares(rs))
              /\ Less(Zero, r.m) => r.move = -1
              /\ Less(r.m, Zero) => r.move = 1
  <2>1. AllRational(gs) /\ g \in Rationals
    BY <1>9, <1>10
  <2>2. gs \in Seq(Rationals)
    <3>1. \A k \in 1 .. Len(gs) : gs[k] \in Rationals
      BY <1>2, <2>1 DEF AllRational
    <3>2. gs = [k \in 1 .. Len(gs) |-> gs[k]] /\ Len(gs) \in Nat
      BY <1>2
    <3> QED
      BY <3>1, <3>2, Listed
  <2>3. a.m \in Rationals /\ a.v \in Rationals /\ a.step # NaN
    BY <2>1, Zenon DEF Follows
  <2>4. Untouched(a.m, a.gradient_pow, gs) \/ Sided(a.m, a.gradient_pow, gs)
    BY <2>1, Zenon DEF Follows, Untouched
  <2>5. Untouched(a.v, a.sq_gradient_pow, Squares(gs)) \/ Sided(a.v, a.sq_gradient_pow, Squares(gs))
    <3>1. CASE gs = <<>>
      <4>1. Squares(gs) = <<>>
        BY <3>1 DEF Squares
      <4> QED
        BY <3>1, <4>1, Zenon DEF Follows, Untouched
    <3>2. CASE gs # <<>>
      BY <2>1, <3>2, Zenon DEF Follows
    <3> QED
      BY <3>1, <3>2
  <2>6. Sided(Averaged(d, a.m, g), Times(a.gradient_pow, d), Append(gs, g))
    BY <1>1, <1>6, <2>1, <2>2, <2>3, <2>4, SidedAfter
  <2>7. Sided(Averaged(e, a.v, Square(g)), Times(a.sq_gradient_pow, e), Append(Squares(gs), Square(g)))
    <3>1. Squares(gs) \in Seq(Rationals) /\ Square(g) \in Rationals
      BY <2>1, <2>2, SquaresAfter
    <3> QED
      BY <1>1, <1>6, <2>3, <2>5, <3>1, SidedAfter
  <2>8. Squares(rs) = Append(Squares(gs), Square(g))
    BY <2>1, <2>2, SquaresAfter, Zenon DEF rs
  <2>9. Sided(r.m, r.gradient_pow, rs) /\ Sided(r.v, r.sq_gradient_pow, Squares(rs))
    BY <1>8, <2>6, <2>7, <2>8, Zenon DEF rs, Square
  <2>10. r.m \in Rationals /\ r.v \in Rationals
    <3>1. Times(g, g) \in Rationals
      BY <2>1, Closed
    <3>2. Averaged(d, a.m, g) \in Rationals /\ Averaged(e, a.v, Times(g, g)) \in Rationals
      BY <1>1, <2>1, <2>3, <3>1, AveragedClosed
    <3> QED
      BY <1>8, <3>2, Zenon
  <2>11. MHat(r) \in Rationals
    BY <1>5, <1>7, <2>10, HatStatistic DEF MHat, Statistic
  <2>12. r.step # NaN
    BY <1>6, <1>8, <2>3, <2>11, StepStatistic DEF Statistic
  <2>13. /\ Less(Zero, r.m) => MHat(r)[1] > 0
         /\ Less(r.m, Zero) => MHat(r)[1] < 0
    BY <1>5, <1>7, <2>10, MoveSign, Zenon DEF MHat
  <2>14. MHat(r)[1] \in Int
    BY <2>11, RationalParts
  <2>15. /\ Less(Zero, r.m) => r.move = -1
         /\ Less(r.m, Zero) => r.move = 1
    BY <1>8, <2>13, <2>14
  <2> QED
    BY <2>9, <2>10, <2>12, <2>15
<1>11. ASSUME ~AllRational(rs)
       PROVE  r.m = NaN /\ r.v = NaN /\ r.step = NaN
  <2>1. g = NaN \/ (a.m = NaN /\ a.v = NaN)
    <3>1. g = NaN \/ ~AllRational(gs)
      BY <1>3, <1>9, <1>11 DEF Statistic
    <3> QED
      BY <3>1, Zenon DEF Follows
  <2>2. Times(g, g) \in Statistic /\ (g = NaN => Times(g, g) = NaN)
    BY <1>3, Closed, NaNSpreads DEF Statistic
  <2>3. r.m = NaN
    BY <1>1, <1>3, <1>6, <1>8, <2>1, AveragedStatistic, Zenon
  <2>4. r.v = NaN
    BY <1>1, <1>6, <1>8, <2>1, <2>2, AveragedStatistic, Zenon
  <2>5. MHat(r) = NaN /\ MHat(r) \in Statistic
    <3>1. NaN \in Statistic
      BY DEF Statistic
    <3> QED
      BY <1>5, <1>7, <2>3, <3>1, HatStatistic, Zenon DEF MHat
  <2> QED
    BY <1>6, <1>8, <2>3, <2>4, <2>5, StepStatistic, Zenon
<1>12. Follows(r, rs)
  BY <1>5, <1>9, <1>10, <1>11, Zenon DEF Follows
<1> QED
  BY <1>12 DEF r, rs, g

\* A transition's observations, in turn.
AdamAfter(a, alphas) == FoldLeft(ObserveAccept, a, alphas)

AdamBySteps(base, xs, last) ==
  \E f : /\ f[0] = base /\ last = f[Len(xs)]
       /\ \A i \in 1 .. Len(xs) : f[i] = ObserveAccept(f[i - 1], xs[i])

LEMMA AdamUnfolds ==
  WarmupInv => \A base \in AdamStates, xs \in Seq(Statistic) : AdamBySteps(base, xs, AdamAfter(base, xs))
<1> SUFFICES ASSUME WarmupInv, NEW base \in AdamStates, NEW xs \in Seq(Statistic)
             PROVE  AdamBySteps(base, xs, AdamAfter(base, xs))
  OBVIOUS
<1> DEFINE N == Len(xs)
           Row(h, s) == IF s = {} THEN base ELSE ObserveAccept(h[s \ {Max(s)}], xs[Max(s)])
           Equation(e) == e = [s \in SUBSET (1 .. N) |-> Row(e, s)]
           table == CHOOSE e : Equation(e)
<1>1. N \in Nat /\ DOMAIN xs = 1 .. N /\ \A i \in 1 .. N : xs[i] \in Statistic
  OBVIOUS
<1>2. \E e : Equation(e)
  <2> DEFINE F == [x \in AdamStates |-> [y \in Statistic |-> ObserveAccept(x, y)]]
  <2>1. F \in [AdamStates -> [Statistic -> AdamStates]]
    BY AdamClosed
  <2>2. \A x \in AdamStates, y \in Statistic : F[x][y] = ObserveAccept(x, y)
    OBVIOUS
  <2> HIDE DEF F
  <2>3. PICK h \in [SUBSET (1 .. N) -> AdamStates] : \A s \in SUBSET (1 .. N) :
                h[s] = IF s = {} THEN base ELSE F[h[s \ {Max(s)}]][xs[Max(s)]]
    <3>1. Tabled(AdamStates, F, base, xs)
      BY <2>1, AllTabled, Zenon
    <3> QED
      BY <3>1 DEF Tabled
  <2> HIDE DEF N
  <2>4. ASSUME NEW s \in SUBSET (1 .. N) PROVE h[s] = Row(h, s)
    <3>1. CASE s = {}
      BY <2>3, <3>1
    <3>2. CASE s # {}
      <4>1. Max(s) \in 1 .. N /\ s \ {Max(s)} \in SUBSET (1 .. N)
        <5>1. Max(s) \in s
          BY <1>1, <3>2, LargestNumber
        <5> QED
          BY <5>1
      <4>2. h[s \ {Max(s)}] \in AdamStates /\ xs[Max(s)] \in Statistic
        BY <1>1, <4>1
      <4> QED
        BY <2>2, <2>3, <3>2, <4>2, Zenon
    <3> QED
      BY <3>1, <3>2
  <2>5. h = [s \in SUBSET (1 .. N) |-> Row(h, s)]
    <3> HIDE DEF Row
    <3> QED
      BY <2>4
  <2> QED
    BY <2>5
<1>3. Equation(table)
  <2> HIDE DEF Equation
  <2> QED
    BY <1>2, Zenon
<1>4. AdamAfter(base, xs) = table[1 .. N]
  BY <1>1, Zenon DEF AdamAfter, FoldLeft, MapThenFoldSet
<1> HIDE DEF table
<1>5. \A s \in SUBSET (1 .. N) : table[s] = Row(table, s)
  <2> HIDE DEF Row, N
  <2> QED
    BY <1>3
<1> DEFINE f == [k \in 0 .. N |-> table[1 .. k]]
<1>6. f[0] = base
  <2>1. 1 .. 0 = {} /\ {} \in SUBSET (1 .. N) /\ 0 \in 0 .. N
    BY <1>1
  <2>2. table[{}] = base
    BY <1>5, <2>1
  <2> QED
    BY <2>1, <2>2
<1>7. ASSUME NEW i \in 1 .. N PROVE f[i] = ObserveAccept(f[i - 1], xs[i])
  <2>1. i \in 0 .. N /\ i - 1 \in 0 .. N
    BY <1>1
  <2>2. 1 .. i \in SUBSET (1 .. N) /\ 1 .. i # {} /\ Max(1 .. i) = i /\ (1 .. i) \ {i} = 1 .. i - 1
    BY <1>1, PrefixSets, Zenon
  <2>3. table[1 .. i] = ObserveAccept(table[1 .. i - 1], xs[i])
    <3> HIDE DEF N
    <3> QED
      BY <1>5, <2>2, Zenon
  <2> QED
    BY <2>1, <2>3
<1>8. f[N] = table[1 .. N]
  BY <1>1
<1> HIDE DEF f, N
<1>9. f[0] = base /\ AdamAfter(base, xs) = f[N] /\ \A i \in 1 .. N : f[i] = ObserveAccept(f[i - 1], xs[i])
  BY <1>4, <1>6, <1>7, <1>8, Zenon
<1> QED
  BY <1>9, Zenon DEF N, AdamBySteps


\* No observation makes a step infinite.
LEMMA InfinityWasThere ==
  WarmupInv => \A a \in AdamStates, alphas \in Seq(Statistic) :
    AdamAfter(a, alphas).step = Inf => a.step = Inf
<1> SUFFICES ASSUME WarmupInv, NEW a \in AdamStates, NEW alphas \in Seq(Statistic)
             PROVE  AdamAfter(a, alphas).step = Inf => a.step = Inf
  OBVIOUS
<1> DEFINE N == Len(alphas)
           Good(r) == r \in AdamStates /\ (r.step = Inf => a.step = Inf)
<1>1. N \in Nat /\ (\A n \in 1 .. N : alphas[n] \in Statistic) /\ NaN # Inf
  BY DoublesFinite
<1>2. PICK f : /\ f[0] = a /\ AdamAfter(a, alphas) = f[N]
               /\ \A n \in 1 .. N : f[n] = ObserveAccept(f[n - 1], alphas[n])
  BY AdamUnfolds, Zenon DEF AdamBySteps
<1> HIDE DEF N
<1>3. \A n \in Nat : n <= N => Good(f[n])
  <2> DEFINE T == {n \in Nat : n <= N => Good(f[n])}
  <2>1. 0 \in T
    BY <1>2
  <2>2. ASSUME NEW n \in Nat, n \in T PROVE n + 1 \in T
    <3> SUFFICES ASSUME n + 1 <= N PROVE Good(f[n + 1])
      OBVIOUS
    <3>1. PICK i \in 1 .. N : i = n + 1 /\ i - 1 = n
      BY <1>1
    <3>2. Good(f[n])
      BY <1>1, <2>2
    <3>3. f[i] = ObserveAccept(f[n], alphas[i]) /\ alphas[i] \in Statistic
      BY <1>1, <1>2, <3>1, Zenon
    <3>4. f[i] \in AdamStates /\ f[i].step \in {f[n].step, NaN}
      BY <3>2, <3>3, AdamClosed
    <3> QED
      BY <1>1, <3>1, <3>2, <3>4
  <2>3. Nat \subseteq T
    <3> HIDE DEF T
    <3> QED
      BY <2>1, <2>2, Induction
  <2> QED
    BY <2>3
<1> QED
  BY <1>1, <1>2, <1>3

GradientsOf(alphas) == [k \in 1 .. Len(alphas) |-> Gradient(alphas[k])]

FirstGradients(gs, alphas, n) == gs \o [k \in 1 .. n |-> Gradient(alphas[k])]

LEMMA FollowsAfter ==
  WarmupInv => \A a, gs : \A alphas \in Seq(Statistic) :
    Follows(a, gs) => Follows(AdamAfter(a, alphas), gs \o GradientsOf(alphas))
<1> SUFFICES ASSUME WarmupInv, NEW a, NEW gs, NEW alphas \in Seq(Statistic), Follows(a, gs)
             PROVE  Follows(AdamAfter(a, alphas), gs \o GradientsOf(alphas))
  OBVIOUS
<1> DEFINE N == Len(alphas)
           G(n) == FirstGradients(gs, alphas, n)
<1>1. N \in Nat /\ \A n \in 1 .. N : alphas[n] \in Statistic
  OBVIOUS
<1>2. a \in AdamStates /\ gs \in Seq(Statistic)
  BY Zenon DEF Follows
<1>3. PICK f : /\ f[0] = a /\ AdamAfter(a, alphas) = f[N]
               /\ \A n \in 1 .. N : f[n] = ObserveAccept(f[n - 1], alphas[n])
  BY <1>2, AdamUnfolds, Zenon DEF AdamBySteps
<1>4. \A n \in 1 .. N : Gradient(alphas[n]) \in Statistic
  BY <1>1, GradientStatistic
<1> HIDE DEF N
<1>5. G(0) = gs
  <2>1. [k \in 1 .. 0 |-> Gradient(alphas[k])] = <<>>
    OBVIOUS
  <2>2. gs \o <<>> = gs
    BY <1>2
  <2> QED
    BY <2>1, <2>2, Zenon DEF FirstGradients
<1>6. ASSUME NEW n \in Nat, n + 1 <= N
      PROVE  G(n + 1) = Append(G(n), Gradient(alphas[n + 1]))
  <2> DEFINE u == [k \in 1 .. n |-> Gradient(alphas[k])]
             w == [k \in 1 .. n + 1 |-> Gradient(alphas[k])]
             g == Gradient(alphas[n + 1])
  <2>1. /\ u \in Seq(Statistic) /\ Len(u) = n /\ g \in Statistic
        /\ \A k \in 1 .. n : u[k] = Gradient(alphas[k])
    <3>1. u \in [1 .. n -> Statistic]
      BY <1>1, <1>4, <1>6
    <3>2. n + 1 \in 1 .. N
      BY <1>1, <1>6
    <3> QED
      BY <1>4, <3>1, <3>2, ListIs
  <2>2. /\ w \in Seq(Statistic) /\ Len(w) = n + 1 /\ w[n + 1] = g
        /\ \A k \in 1 .. n : w[k] = Gradient(alphas[k])
    <3>1. w \in [1 .. n + 1 -> Statistic]
      BY <1>1, <1>4, <1>6
    <3> QED
      BY <3>1, ListIs
  <2> HIDE DEF u, w, g
  <2>3. gs \o w = Append(gs \o u, g)
    <3>1. /\ gs \o w \in Seq(Statistic) /\ Len(gs \o w) = Len(gs) + (n + 1) /\ Len(gs) \in Nat
          /\ \A j \in 1 .. Len(gs) : (gs \o w)[j] = gs[j]
          /\ \A j \in 1 .. n + 1 : (gs \o w)[Len(gs) + j] = w[j]
      <4>1. /\ gs \o w \in Seq(Statistic) /\ Len(gs \o w) = Len(gs) + Len(w)
            /\ \A j \in 1 .. Len(gs) : (gs \o w)[j] = gs[j]
            /\ \A j \in 1 .. Len(w) : (gs \o w)[Len(gs) + j] = w[j]
        <5>1. gs \in Seq(Statistic) /\ w \in Seq(Statistic)
          BY <1>2, <2>2
        <5> QED
          BY ONLY <5>1, ConcatAt
      <4>2. Len(gs) \in Nat
        BY <1>2
      <4> QED
        BY <2>2, <4>1, <4>2
    <3>2. /\ gs \o u \in Seq(Statistic) /\ Len(gs \o u) = Len(gs) + n
          /\ \A j \in 1 .. Len(gs) : (gs \o u)[j] = gs[j]
          /\ \A j \in 1 .. n : (gs \o u)[Len(gs) + j] = u[j]
      <4>1. /\ gs \o u \in Seq(Statistic) /\ Len(gs \o u) = Len(gs) + Len(u)
            /\ \A j \in 1 .. Len(gs) : (gs \o u)[j] = gs[j]
            /\ \A j \in 1 .. Len(u) : (gs \o u)[Len(gs) + j] = u[j]
        <5>1. gs \in Seq(Statistic) /\ u \in Seq(Statistic)
          BY <1>2, <2>1
        <5> QED
          BY ONLY <5>1, ConcatAt
      <4>2. Len(u) = n
        BY <2>1
      <4> QED
        BY <4>1, <4>2, Zenon
    <3> DEFINE x == gs \o w
               z == gs \o u
               y == Append(z, g)
    <3>3. /\ y \in Seq(Statistic) /\ Len(y) = Len(gs) + n + 1 /\ y[Len(gs) + n + 1] = g
          /\ \A j \in 1 .. Len(gs) + n : y[j] = z[j]
      BY <2>1, <3>2
    <3> HIDE DEF x, y, z
    <3>4. ASSUME NEW j \in 1 .. Len(gs) + n + 1 PROVE x[j] = y[j]
      <4>1. CASE j \in 1 .. Len(gs)
        <5>1. j \in 1 .. Len(gs) + n
          BY ONLY <3>1, <4>1, n \in Nat
        <5>2. x[j] = gs[j] /\ z[j] = gs[j]
          BY <3>1, <3>2, <4>1, Zenon DEF x, z
        <5> QED
          BY <3>3, <5>1, <5>2, Zenon
      <4>2. CASE j = Len(gs) + n + 1
        <5>1. n + 1 \in 1 .. n + 1 /\ Len(gs) + (n + 1) = j
          BY <3>1, <4>2
        <5>2. x[j] = w[n + 1]
          BY <3>1, <5>1, Zenon DEF x
        <5> QED
          BY <2>2, <3>3, <4>2, <5>2, Zenon
      <4>3. CASE j \in Len(gs) + 1 .. Len(gs) + n
        <5>1. PICK k \in 1 .. n : j = Len(gs) + k
          <6>1. j - Len(gs) \in 1 .. n /\ j = Len(gs) + (j - Len(gs))
            BY ONLY <3>1, <4>3, n \in Nat
          <6> QED
            BY <6>1, Zenon
        <5>2. k \in 1 .. n + 1 /\ j \in 1 .. Len(gs) + n
          BY <3>1, <5>1
        <5>3. x[j] = w[k] /\ z[j] = u[k] /\ y[j] = z[j]
          BY <3>1, <3>2, <3>3, <5>1, <5>2, Zenon DEF x, z
        <5> QED
          BY <2>1, <2>2, <5>3, Zenon
      <4> QED
        <5>1. j \in 1 .. Len(gs) \/ j = Len(gs) + n + 1 \/ j \in Len(gs) + 1 .. Len(gs) + n
          <6>1. Len(gs) \in Nat /\ n \in Nat /\ j \in 1 .. Len(gs) + n + 1
            BY <3>1, Zenon
          <6> QED
            BY ONLY <6>1
        <5> QED
          BY <4>1, <4>2, <4>3, <5>1, Zenon
    <3>5. x = y
      <4>1. x \in Seq(Statistic) /\ Len(x) = Len(gs) + n + 1 /\ Len(y) = Len(x) /\ y \in Seq(Statistic)
        BY <3>1, <3>3 DEF x
      <4> QED
        BY <3>4, <4>1, SameList
    <3> QED
      BY <3>5, Zenon DEF x, y, z
  <2> QED
    BY <2>3, Zenon DEF FirstGradients, u, w, g
<1>7. \A n \in Nat : n <= N => Follows(f[n], G(n))
  <2> DEFINE T == {n \in Nat : n <= N => Follows(f[n], G(n))}
  <2> HIDE DEF G
  <2>1. 0 \in T
    BY <1>3, <1>5
  <2>2. ASSUME NEW n \in Nat, n \in T PROVE n + 1 \in T
    <3> SUFFICES ASSUME n + 1 <= N PROVE Follows(f[n + 1], G(n + 1))
      OBVIOUS
    <3>1. PICK i \in 1 .. N : i = n + 1 /\ i - 1 = n
      BY <1>1
    <3>2. Follows(f[n], G(n))
      BY <1>1, <2>2
    <3>3. f[i] = ObserveAccept(f[n], alphas[i]) /\ alphas[i] \in Statistic
      BY <1>1, <1>3, <3>1, Zenon
    <3>4. Follows(f[i], Append(G(n), Gradient(alphas[i])))
      BY <3>2, <3>3, FollowsStep, Zenon
    <3> QED
      BY <1>6, <3>1, <3>4, Zenon
  <2>3. Nat \subseteq T
    <3> HIDE DEF T
    <3> QED
      BY <2>1, <2>2, Induction
  <2> QED
    BY <2>3
<1>8. Follows(f[N], G(N))
  BY <1>1, <1>7
<1>9. G(N) = gs \o GradientsOf(alphas)
  BY Zenon DEF FirstGradients, GradientsOf, N
<1> QED
  BY <1>3, <1>8, <1>9, Zenon

LEMMA NewAdamFollows == \A x : Follows(NewAdam(x), <<>>)
<1> SUFFICES ASSUME NEW x PROVE Follows(NewAdam(x), <<>>)
  OBVIOUS
<1> DEFINE a == NewAdam(x)
<1>1. Zero \in Rationals /\ One \in Rationals /\ One # NaN /\ Inf # NaN
  BY ZeroOne, DoublesFinite
<1>2. One \in Fractions
  <2>1. AtMost(Zero, One) /\ AtMost(One, One)
    BY ZeroOne, FracLess, LessIs DEF Zero, One
  <2> QED
    BY <1>1, <2>1 DEF Fractions, Fractional
<1>3. a \in AdamStates
  BY <1>1, <1>2 DEF AdamStates, NewAdam, Statistic, AdamSteps
<1>4. /\ a.m = Zero /\ a.v = Zero /\ a.gradient_pow = One /\ a.sq_gradient_pow = One
      /\ a.step # NaN
  BY <1>1 DEF NewAdam
<1> HIDE DEF a
<1>5. AllRational(<<>>) /\ <<>> \in Seq(Statistic)
  BY DEF AllRational
<1>6. Follows(a, <<>>)
  BY <1>1, <1>3, <1>4, <1>5 DEF Follows
<1> QED
  BY <1>6 DEF a

-------------------------------------------------------------------------------

(***************************************************************************)
(* The adapter's state.                                                    *)
(***************************************************************************)
Running == stage \in {"warmup", "sampling", "failed"}

StageInv ==
  /\ stage \in {"configuring", "refused", "warmup", "sampling", "failed"}
  /\ outcome \in {"ok", "refused", "threw", "undefined"}
  /\ ~Running => iteration = 0 /\ seen = <<>> /\ gradients = <<>>

\* An iteration throws at the first discount factor, or never.
ProgressInv ==
  /\ iteration \in 0 .. MaxIter
  /\ seen \in Seq(Observation) /\ Len(seen) = iteration
  /\ theta \in Vectors
  /\ iteration > 0 => ~Less(warmup.mass_init_count, One)
  /\ outcome = "threw" => Less(warmup.mass_init_count, One)

MacroInv ==
  /\ macro_steps.total \in Nat /\ macro_steps.count \in Nat \ {0}
  /\ macro_steps.total >= 2 * macro_steps.count

MeanInv ==
  /\ MeanKept(draw_var, warmup.mass_init_count, seen, "theta")
  /\ MeanKept(score_var, warmup.mass_init_count, seen, "grad")

Inverted(mass) == [i \in DOMAIN mass |-> Over(One, mass[i])]

SpreadInv ==
  /\ DOMAIN init_mass = 1 .. Dims
  /\ \A i \in 1 .. Dims : Plenty(init_mass[i]) /\ Plenty(Inverted(init_mass)[i])
  /\ SpreadKept(draw_var, warmup.mass_init_count, seen, "theta", Inverted(init_mass))
  /\ SpreadKept(score_var, warmup.mass_init_count, seen, "grad", init_mass)
  /\ iteration = 0 \/ Less(One, warmup.mass_init_count) =>
       \A i \in 1 .. Dims :
         Less(Zero, draw_var.sum_sq_dev[i]) /\ Less(Zero, score_var.sum_sq_dev[i])

\* An initial count of one leaves no spread and a chain that does not move.
LostInv ==
  iteration > 0 /\ warmup.mass_init_count = One =>
    /\ draw_var.mean = theta
    /\ \A i \in 1 .. Dims : draw_var.sum_sq_dev[i] = Zero

StepInv ==
  /\ Follows(adam, gradients)
  /\ adam.step = Inf => wholeness.unchecked # {}
  /\ ~AllRational(gradients) =>
       NaN \in Alphas \/ warmup.mass_init_count = One \/ wholeness.unchecked # {}

RunInv ==
  /\ ProgressInv /\ MacroInv /\ MeanInv /\ StepInv
  /\ TrustedMass => SpreadInv /\ LostInv

FailedInv == stage = "failed" =>
  \/ 0 \in {sampling.max_trajectory_doublings, sampling.max_step_halvings}
  \/ warmup.mass_init_count = One
  \/ wholeness.unchecked # {}
  \/ NaN \in Alphas /\ ~AllRational(gradients)

AdaptInv ==
  /\ BuildInv /\ WarmupInv /\ SamplingInv /\ StageInv /\ FailedInv
  /\ Running => RunInv

-------------------------------------------------------------------------------
LEMMA InversePlenty == \A x : Plenty(x) => Plenty(Over(One, x))
<1> SUFFICES ASSUME NEW x, Plenty(x) PROVE Plenty(Over(One, x))
  OBVIOUS
<1>1. x \in Rationals /\ Less(Zero, x) /\ Plenty(One)
  BY FiniteNumber DEF Plenty
<1>2. One \in Rationals /\ Less(Zero, One) /\ x # Zero
  BY <1>1, Positives, Zenon DEF Plenty
<1>3. Over(One, x) \in Rationals /\ Less(Zero, Over(One, x))
  BY <1>1, <1>2, Closed, Positives
<1> QED
  BY <1>3, Zenon DEF Plenty

\* The first estimates of a chain.
LEMMA NewMomentsRight ==
  ASSUME NEW c, Plenty(c), NEW mass
  PROVE  LET zero == [i \in 1 .. Dims |-> Zero]
             draws == NewMoments(c, zero, Inverted(mass))
             scores == NewMoments(c, zero, mass)
         IN  /\ MeanKept(draws, c, <<>>, "theta") /\ MeanKept(scores, c, <<>>, "grad")
             /\ DOMAIN mass = 1 .. Dims /\ (\A i \in 1 .. Dims : Plenty(mass[i])) =>
                  /\ \A i \in 1 .. Dims : Plenty(Inverted(mass)[i])
                  /\ SpreadKept(draws, c, <<>>, "theta", Inverted(mass))
                  /\ SpreadKept(scores, c, <<>>, "grad", mass)
                  /\ \A i \in 1 .. Dims :
                       Less(Zero, draws.sum_sq_dev[i]) /\ Less(Zero, scores.sum_sq_dev[i])
<1> DEFINE zero == [i \in 1 .. Dims |-> Zero]
           draws == NewMoments(c, zero, Inverted(mass))
           scores == NewMoments(c, zero, mass)
<1>1. "theta" \in Estimates /\ "grad" \in Estimates
  BY DEF Estimates
<1>2. /\ MeanKept(draws, c, <<>>, "theta")
      /\ (\A i \in 1 .. Dims : Plenty(Inverted(mass)[i])) =>
           /\ SpreadKept(draws, c, <<>>, "theta", Inverted(mass))
           /\ \A i \in 1 .. Dims : Less(Zero, draws.sum_sq_dev[i])
  BY <1>1, MomentsStart, Zenon
<1>3. /\ MeanKept(scores, c, <<>>, "grad")
      /\ (\A i \in 1 .. Dims : Plenty(mass[i])) =>
           /\ SpreadKept(scores, c, <<>>, "grad", mass)
           /\ \A i \in 1 .. Dims : Less(Zero, scores.sum_sq_dev[i])
  BY <1>1, MomentsStart, Zenon
<1>4. ASSUME DOMAIN mass = 1 .. Dims, \A i \in 1 .. Dims : Plenty(mass[i])
      PROVE  \A i \in 1 .. Dims : Plenty(Inverted(mass)[i])
  <2> SUFFICES ASSUME NEW i \in 1 .. Dims PROVE Plenty(Inverted(mass)[i])
    OBVIOUS
  <2>1. Inverted(mass)[i] = Over(One, mass[i])
    BY <1>4 DEF Inverted
  <2> QED
    BY <1>4, <2>1, InversePlenty
<1> HIDE DEF draws, scores
<1> QED
  BY <1>2, <1>3, <1>4, Zenon DEF draws, scores

StartedBy(c) ==
  /\ stage' = "warmup" /\ outcome' = "ok"
  /\ init_mass' = c.mass /\ theta' = c.position /\ iteration' = 0
  /\ adam' = NewAdam(c.step_size)
  /\ score_var' = NewMoments(warmup.mass_init_count, [i \in DOMAIN c.position |-> Zero], c.mass)
  /\ draw_var' = NewMoments(warmup.mass_init_count, [i \in DOMAIN c.position |-> Zero], Inverted(c.mass))
  /\ macro_steps' = NewMacroSteps

LEMMA StartCases ==
  ASSUME NEW n \in Chains, Start(n)
  PROVE  /\ stage = "configuring"
         /\ UNCHANGED <<warmup, sampling, seen, gradients>>
         /\ wholeness'.unchecked = wholeness.unchecked \/ DOMAIN wholeness # {"filled", "unchecked"}
         /\ \/ stage' \in {"configuring", "refused"} /\ outcome' \in {"undefined", "threw"}
               /\ UNCHANGED <<init_mass, adapterVars>>
            \/ HasChain(init, n) /\ StartedBy(init_chain_config(init, n))
<1>1. /\ stage = "configuring" /\ UNCHANGED <<warmup, sampling, seen, gradients>>
      /\ wholeness' = [wholeness EXCEPT !.filled = {}]
  BY Zenon DEF Start
<1>2. wholeness'.unchecked = wholeness.unchecked \/ DOMAIN wholeness # {"filled", "unchecked"}
  BY <1>1
<1>3. CASE ~HasChain(init, n)
  <2>1. outcome' = "undefined" /\ UNCHANGED <<stage, init_mass, adapterVars>>
    BY <1>3, Zenon DEF Start
  <2> QED
    BY <1>1, <1>2, <2>1, Zenon
<1>4. CASE HasChain(init, n)
  <2> DEFINE c == init_chain_config(init, n)
             fine == Positive(warmup.mass_init_count) /\ SameSize([i \in DOMAIN c.position |-> Zero], c.mass)
  <2> HIDE DEF c
  <2>1. IF ~fine THEN /\ outcome' = "threw" /\ stage' = "refused"
                      /\ UNCHANGED <<init_mass, adapterVars>>
        ELSE StartedBy(c)
    BY <1>4 DEF Start, StartedBy, Inverted, c
  <2>2. CASE ~fine
    BY <1>1, <1>2, <2>1, <2>2
  <2>3. CASE fine
    BY <1>1, <1>2, <1>4, <2>1, <2>3 DEF c
  <2> QED
    BY <2>2, <2>3
<1> QED
  BY <1>3, <1>4

\* What the builder's lists give a chain.
LEMMA ChainFits ==
  ASSUME BuildInv, NEW n \in Chains, HasChain(init, n)
  PROVE  /\ init.positions[n] \in Vectors
         /\ "masses" \notin wholeness.unchecked =>
              /\ DOMAIN init.masses[n] = 1 .. Dims
              /\ \A i \in 1 .. Dims : Plenty(init.masses[n][i])
         /\ "step_sizes" \notin wholeness.unchecked => Plenty(init.step_sizes[n])
<1> DEFINE f == wholeness.filled
           u == wholeness.unchecked
<1>1. FilledRight(init, f, u)
  BY Zenon DEF BuildInv
<1> HIDE DEF f, u
<1>2. /\ n \in DOMAIN init["positions"] /\ n \in DOMAIN init["masses"] /\ n \in DOMAIN init["step_sizes"]
      /\ \A l \in Lists : l \in f \/ Lacking(l, init[l], u)
      /\ \A l \in f : Fitting(l, init[l])
      /\ \A l \in f \ u : InRange(l, init[l])
      /\ "positions" \in Lists /\ "masses" \in Lists /\ "step_sizes" \in Lists
  BY <1>1, ListNames, Zenon DEF HasChain, FilledRight
<1>3. \A l \in Lists : n \in DOMAIN init[l] => init[l] # <<>>
  OBVIOUS
<1>4. "positions" \in f /\ "step_sizes" \in f /\ ("masses" \in f \/ "masses" \in u)
  BY <1>2, <1>3, ListNames DEF Lacking
<1>5. init.positions[n] \in Vectors
  BY <1>2, <1>4, StartsFit DEF Fitting
<1>6. "masses" \notin u => /\ DOMAIN init.masses[n] = 1 .. Dims
                           /\ \A i \in 1 .. Dims : Plenty(init.masses[n][i])
  BY <1>2, <1>4, ListNames DEF Fitting, InRange
<1>7. "step_sizes" \notin u => Plenty(init.step_sizes[n])
  BY <1>2, <1>4 DEF InRange
<1> QED
  BY <1>5, <1>6, <1>7, Zenon DEF u

LEMMA StartEstablishes ==
  ASSUME AdaptInv, NEW n \in Chains, stage = "configuring", HasChain(init, n),
         StartedBy(init_chain_config(init, n)),
         UNCHANGED <<warmup, sampling, seen, gradients>>,
         wholeness'.unchecked = wholeness.unchecked
  PROVE  RunInv'
<1> DEFINE c == init_chain_config(init, n)
           k == warmup.mass_init_count
           zero == [i \in 1 .. Dims |-> Zero]
<1>1. Plenty(k) /\ BuildInv /\ iteration = 0 /\ seen = <<>> /\ gradients = <<>>
  BY Zenon DEF AdaptInv, WarmupInv, StageInv, Running
<1>2. /\ c.position \in Vectors
      /\ TrustedMass => DOMAIN c.mass = 1 .. Dims /\ \A i \in 1 .. Dims : Plenty(c.mass[i])
      /\ c.step_size = Inf => wholeness.unchecked # {}
  <2>1. c.position = init.positions[n] /\ c.mass = init.masses[n] /\ c.step_size = init.step_sizes[n]
    BY DEF init_chain_config
  <2>2. ~Plenty(Inf)
    BY DoublesFinite DEF Plenty
  <2> HIDE DEF c
  <2>3. /\ c.position \in Vectors
        /\ "masses" \notin wholeness.unchecked =>
              DOMAIN c.mass = 1 .. Dims /\ \A i \in 1 .. Dims : Plenty(c.mass[i])
        /\ "step_sizes" \notin wholeness.unchecked => Plenty(c.step_size)
    BY <1>1, <2>1, ChainFits, Zenon
  <2> QED
    BY <2>2, <2>3 DEF TrustedMass
<1>3. /\ outcome' = "ok" /\ iteration' = 0 /\ seen' = <<>> /\ gradients' = <<>>
      /\ warmup'.mass_init_count = k
      /\ init_mass' = c.mass /\ theta' = c.position /\ adam' = NewAdam(c.step_size)
      /\ score_var' = NewMoments(k, [i \in DOMAIN c.position |-> Zero], c.mass)
      /\ draw_var' = NewMoments(k, [i \in DOMAIN c.position |-> Zero], Inverted(c.mass))
      /\ macro_steps' = NewMacroSteps
  BY <1>1, Zenon DEF StartedBy
<1>4. [i \in DOMAIN c.position |-> Zero] = zero
  <2>1. DOMAIN c.position = 1 .. Dims
    BY <1>2, VectorEntries, Zenon
  <2> QED
    BY <2>1, Zenon
<1> HIDE DEF c, k
<1>5. score_var' = NewMoments(k, zero, c.mass) /\ draw_var' = NewMoments(k, zero, Inverted(c.mass))
  BY <1>3, <1>4, Zenon
<1>6. /\ MeanKept(draw_var', k, <<>>, "theta") /\ MeanKept(score_var', k, <<>>, "grad")
      /\ DOMAIN c.mass = 1 .. Dims /\ (\A i \in 1 .. Dims : Plenty(c.mass[i])) =>
           /\ \A i \in 1 .. Dims : Plenty(Inverted(c.mass)[i])
           /\ SpreadKept(draw_var', k, <<>>, "theta", Inverted(c.mass))
           /\ SpreadKept(score_var', k, <<>>, "grad", c.mass)
           /\ \A i \in 1 .. Dims : Less(Zero, draw_var'.sum_sq_dev[i]) /\ Less(Zero, score_var'.sum_sq_dev[i])
  <2> DEFINE draws == NewMoments(k, zero, Inverted(c.mass))
             scores == NewMoments(k, zero, c.mass)
  <2>1. /\ MeanKept(draws, k, <<>>, "theta") /\ MeanKept(scores, k, <<>>, "grad")
        /\ DOMAIN c.mass = 1 .. Dims /\ (\A i \in 1 .. Dims : Plenty(c.mass[i])) =>
             /\ \A i \in 1 .. Dims : Plenty(Inverted(c.mass)[i])
             /\ SpreadKept(draws, k, <<>>, "theta", Inverted(c.mass))
             /\ SpreadKept(scores, k, <<>>, "grad", c.mass)
             /\ \A i \in 1 .. Dims : Less(Zero, draws.sum_sq_dev[i]) /\ Less(Zero, scores.sum_sq_dev[i])
    BY <1>1, NewMomentsRight, Zenon
  <2>2. score_var' = scores /\ draw_var' = draws
    BY <1>5, Zenon
  <2> HIDE DEF draws, scores
  <2> QED
    BY <2>1, <2>2, Zenon
<1>7. ProgressInv'
  <2>1. <<>> \in Seq(Observation) /\ Len(<<>>) = 0 /\ 0 \in 0 .. MaxIter
    BY AdaptationAssumption
  <2> QED
    BY <1>2, <1>3, <2>1 DEF ProgressInv
<1>8. MacroInv'
  BY <1>3 DEF MacroInv, NewMacroSteps
<1>9. MeanInv'
  BY <1>3, <1>6, Zenon DEF MeanInv
<1>10. StepInv'
  <2>1. Follows(adam', gradients') /\ (adam'.step = Inf => c.step_size = Inf)
    <3>1. Follows(NewAdam(c.step_size), <<>>)
      BY NewAdamFollows, Zenon
    <3>2. NewAdam(c.step_size).step = Inf => c.step_size = Inf
      BY ZeroOne, DoublesFinite DEF NewAdam
    <3> QED
      BY <1>3, <3>1, <3>2, Zenon
  <2>2. AllRational(gradients')
    BY <1>3 DEF AllRational
  <2> QED
    BY <1>2, <2>1, <2>2, Zenon DEF StepInv
<1>11. ASSUME TrustedMass PROVE SpreadInv' /\ LostInv'
  <2>1. DOMAIN c.mass = 1 .. Dims /\ \A i \in 1 .. Dims : Plenty(c.mass[i])
    BY <1>2, <1>11, Zenon
  <2>2. /\ \A i \in 1 .. Dims : Plenty(Inverted(c.mass)[i])
        /\ SpreadKept(draw_var', k, <<>>, "theta", Inverted(c.mass))
        /\ SpreadKept(score_var', k, <<>>, "grad", c.mass)
        /\ \A i \in 1 .. Dims : Less(Zero, draw_var'.sum_sq_dev[i]) /\ Less(Zero, score_var'.sum_sq_dev[i])
    BY <1>6, <2>1, Zenon
  <2>3. SpreadInv'
    BY <1>3, <2>1, <2>2, Zenon DEF SpreadInv
  <2>4. LostInv'
    BY <1>3 DEF LostInv
  <2> QED
    BY <2>3, <2>4
<1>12. TrustedMass' => TrustedMass
  BY DEF TrustedMass
<1> QED
  BY <1>7, <1>8, <1>9, <1>10, <1>11, <1>12, Zenon DEF RunInv

\* A power of two.
LEMMA MacrosPositive == \A n \in Nat \ {0} : Macros(n) \in Nat /\ Macros(n) >= 2
<1> DEFINE Row(f, n) == IF n = 0 THEN 1 ELSE 2 * f[n - 1]
           Equation(f) == f = [n \in Nat |-> Row(f, n)]
           shifted == CHOOSE f : Equation(f)
<1>1. IsPowers(Powers)
  BY PowersExist
<1>2. ASSUME NEW n \in Nat PROVE Powers[n] = Row(Powers, n)
  <2>1. CASE n = 0
    BY <1>1, <2>1 DEF IsPowers
  <2>2. CASE n # 0
    <3>1. PICK k \in Nat : n = k + 1 /\ n - 1 = k
      <4>1. n - 1 \in Nat /\ n = (n - 1) + 1
        BY <2>2
      <4> QED
        BY <4>1, Zenon
    <3> QED
      BY <1>1, <2>2, <3>1, Zenon DEF IsPowers
  <2> QED
    BY <2>1, <2>2
<1>3. Equation(Powers)
  <2>1. Powers = [n \in Nat |-> Powers[n]]
    BY <1>1 DEF IsPowers
  <2> HIDE DEF Row
  <2> QED
    BY <1>2, <2>1
<1>4. Equation(shifted)
  <2> HIDE DEF Equation
  <2> QED
    BY <1>3, Zenon
<1>5. Shifted = shifted
  BY Zenon DEF Shifted
<1> HIDE DEF shifted
<1>6. \A n \in Nat : Shifted[n] = Row(Shifted, n)
  <2> HIDE DEF Row
  <2> QED
    BY <1>4, <1>5
<1>7. \A n \in Nat : Shifted[n + 1] \in Nat /\ Shifted[n + 1] >= 2
  <2> DEFINE T == {n \in Nat : Shifted[n + 1] \in Nat /\ Shifted[n + 1] >= 2}
  <2>1. \A n \in Nat : Shifted[n + 1] = 2 * Shifted[n]
    <3> SUFFICES ASSUME NEW n \in Nat PROVE Shifted[n + 1] = 2 * Shifted[n]
      OBVIOUS
    <3>1. n + 1 \in Nat /\ n + 1 # 0 /\ (n + 1) - 1 = n
      OBVIOUS
    <3> QED
      BY <1>6, <3>1
  <2>2. Shifted[0] = 1
    BY <1>6
  <2>3. 0 \in T
    <3>1. Shifted[0 + 1] = 2 * Shifted[0]
      BY <2>1
    <3> QED
      BY <2>2, <3>1
  <2>4. ASSUME NEW n \in Nat, n \in T PROVE n + 1 \in T
    <3>1. Shifted[(n + 1) + 1] = 2 * Shifted[n + 1]
      BY <2>1
    <3> QED
      BY <2>4, <3>1
  <2>5. Nat \subseteq T
    <3> HIDE DEF T
    <3> QED
      BY <2>3, <2>4, Induction
  <2> QED
    BY <2>5
<1> QED
  <2> SUFFICES ASSUME NEW n \in Nat \ {0} PROVE Shifted[n] \in Nat /\ Shifted[n] >= 2
    BY DEF Macros
  <2>1. n - 1 \in Nat /\ n = (n - 1) + 1
    OBVIOUS
  <2> QED
    BY <1>7, <2>1, Zenon

LEMMA ZeroOver ==
  \A x \in Rationals : AtMost(Zero, x) =>
    /\ ~Less(Zero, Over(Zero, x))
    /\ Less(Zero, x) => Over(Zero, x) = Zero
<1> SUFFICES ASSUME NEW x \in Rationals, AtMost(Zero, x)
             PROVE  /\ ~Less(Zero, Over(Zero, x))
                    /\ Less(Zero, x) => Over(Zero, x) = Zero
  OBVIOUS
<1>1. Zero \in Rationals
  BY ZeroOne
<1>2. CASE Less(Zero, x)
  <2>1. x # Zero
    BY <1>2, Positives
  <2>2. Times(x, Zero) = Zero
    BY Units
  <2>3. Over(Times(x, Zero), x) = Zero
    BY <1>1, <2>1, OverCancels
  <2>4. Over(Zero, x) = Zero
    BY <2>2, <2>3, Zenon
  <2>5. ~Less(Zero, Zero)
    BY <1>1, LessIs
  <2> QED
    BY <2>4, <2>5, Zenon
<1>3. CASE x = Zero
  <2>1. Zero[1] = 0 /\ Zero[2] = 1
    BY ZeroOne
  <2>2. ~IsFinite(<<1, 0>>)
    BY DEF IsFinite
  <2>3. Over(Zero, Zero) = Times(Zero, <<1, 0>>)
    BY <2>1 DEF Over
  <2>4. Times(Zero, <<1, 0>>) = Frac(Zero[1] * 1, Zero[2] * 0)
    <3>1. <<1, 0>>[1] = 1 /\ <<1, 0>>[2] = 0
      OBVIOUS
    <3> QED
      BY <2>2, <3>1 DEF Times
  <2>5. Zero[1] * 1 = 0 /\ Zero[2] * 0 = 0
    BY <2>1
  <2>6. Over(Zero, x) = NaN
    BY <1>3, <2>3, <2>4, <2>5, Zenon DEF NaN
  <2>7. ~Less(Zero, Zero)
    BY <1>1, LessIs
  <2> QED
    BY <1>3, <2>6, <2>7, Zenon DEF Less, IsNaN
<1> QED
  BY <1>1, <1>2, <1>3, LessIs

\* The variances whose quotient is the inverse mass.
VarianceOf(m) == [i \in 1 .. Dims |-> Over(m.sum_sq_dev[i], m.weight)]

LEMMA VarianceIs == \A m : Less(Zero, m.weight) => Variance(m) = VarianceOf(m)
BY DEF Variance, VarianceOf, Elementwise, Constant

\* More than one initial count, or no iteration yet, is what keeps the inverse
\* mass a positive number; an initial count of one loses it.
LEMMA InverseMass ==
  ASSUME WarmupInv, ProgressInv, MeanInv, SpreadInv, LostInv
  PROVE  AllPositive(InvMassSquared) <=> iteration = 0 \/ Less(One, warmup.mass_init_count)
<1> DEFINE c == warmup.mass_init_count
           draw(i) == draw_var.sum_sq_dev[i]
           score(i) == score_var.sum_sq_dev[i]
           W == draw_var.weight
           w == score_var.weight
<1>1. /\ W \in Rationals /\ Less(Zero, W) /\ w \in Rationals /\ Less(Zero, w)
  BY Zenon DEF MeanInv, MeanKept, Plenty
<1>2. \A i \in 1 .. Dims : InvMassSquared[i] = Over(Over(draw(i), W), Over(score(i), w))
  <2>1. Variance(draw_var) = VarianceOf(draw_var) /\ Variance(score_var) = VarianceOf(score_var)
    BY <1>1, VarianceIs
  <2>2. InvMassSquared = [i \in 1 .. Dims |-> Over(VarianceOf(draw_var)[i], VarianceOf(score_var)[i])]
    BY <2>1 DEF InvMassSquared, Elementwise
  <2>3. \A i \in 1 .. Dims : /\ VarianceOf(draw_var)[i] = Over(draw(i), W)
                             /\ VarianceOf(score_var)[i] = Over(score(i), w)
    BY DEF VarianceOf
  <2> HIDE DEF draw, score, W, w
  <2> QED
    BY <2>2, <2>3
<1>3. DOMAIN InvMassSquared = 1 .. Dims
  BY DEF InvMassSquared, Elementwise
<1>4. \A i \in 1 .. Dims : /\ draw(i) \in Rationals /\ AtMost(Zero, draw(i))
                           /\ score(i) \in Rationals /\ AtMost(Zero, score(i))
  BY VectorEntries, Zenon DEF SpreadInv, SpreadKept
<1>5. c \in Rationals /\ One \in Rationals /\ Zero \in Rationals
  BY ZeroOne DEF WarmupInv, Plenty
<1> HIDE DEF draw, score, W, w, c
<1>6. ASSUME iteration = 0 \/ Less(One, c) PROVE AllPositive(InvMassSquared)
  <2> SUFFICES ASSUME NEW i \in 1 .. Dims PROVE Less(Zero, InvMassSquared[i]) /\ Finite(InvMassSquared[i])
    BY <1>3, Zenon DEF AllPositive
  <2>1. Less(Zero, draw(i)) /\ Less(Zero, score(i))
    BY <1>6, Zenon DEF SpreadInv, draw, score, c
  <2>2. W # Zero /\ w # Zero
    BY <1>1, Positives, Zenon
  <2> DEFINE a == Over(draw(i), W)
             b == Over(score(i), w)
  <2>3. a \in Rationals /\ Less(Zero, a) /\ b \in Rationals /\ Less(Zero, b)
    BY <1>1, <1>4, <2>1, <2>2, Closed, Positives, Zenon
  <2>4. InvMassSquared[i] = Over(a, b)
    BY <1>2
  <2> HIDE DEF a, b
  <2>5. b # Zero
    BY <2>3, Positives, Zenon
  <2>6. Over(a, b) \in Rationals /\ Less(Zero, Over(a, b))
    BY <2>3, <2>5, Closed, Positives, Zenon
  <2> QED
    BY <2>4, <2>6, FiniteNumber, Zenon
<1>7. ASSUME iteration # 0, ~Less(One, c) PROVE ~AllPositive(InvMassSquared)
  <2>1. iteration > 0 /\ ~Less(c, One)
    BY <1>7 DEF ProgressInv, c
  <2>2. c = One
    BY <1>5, <1>7, <2>1, LessIs
  <2>3. 1 \in 1 .. Dims
    BY ChainNumbers
  <2>4. draw(1) = Zero
    BY <2>1, <2>2, <2>3, Zenon DEF LostInv, draw, c
  <2>5. AtMost(Zero, W) /\ Over(Zero, W) = Zero
    BY <1>1, <1>5, LessIs, ZeroOver
  <2> DEFINE b == Over(score(1), w)
  <2>6. InvMassSquared[1] = Over(Zero, b)
    BY <1>2, <2>3, <2>4, <2>5, Zenon
  <2>7. b \in Rationals /\ AtMost(Zero, b)
    <3>1. w # Zero /\ Times(Zero, w) = Zero
      BY <1>1, <1>5, Positives, Units, TimesCommutes
    <3>2. b \in Rationals
      BY <1>1, <1>4, <2>3, <3>1, Closed, Zenon
    <3>3. AtMost(Times(Zero, w), score(1))
      BY <1>4, <2>3, <3>1, Zenon
    <3> QED
      BY <1>1, <1>4, <1>5, <2>3, <3>2, <3>3, OverBetween, Zenon
  <2> HIDE DEF b
  <2>8. ~Less(Zero, InvMassSquared[1])
    BY <2>6, <2>7, ZeroOver, Zenon
  <2> QED
    BY <1>3, <2>3, <2>8, Zenon DEF AllPositive
<1> QED
  BY <1>6, <1>7, Zenon DEF c

LEMMA Unusable ==
  ASSUME WarmupInv, RunInv, ~Usable
  PROVE  warmup.mass_init_count = One \/ wholeness.unchecked # {} \/ ~AllRational(gradients)
<1>1. CASE ~TrustedMass
  BY <1>1 DEF TrustedMass
<1>2. CASE TrustedMass /\ ~AllPositive(InvMassSquared)
  <2>1. ProgressInv /\ MeanInv /\ SpreadInv /\ LostInv
    BY <1>2, Zenon DEF RunInv
  <2>2. iteration # 0 /\ ~Less(One, warmup.mass_init_count)
    BY <1>2, <2>1, InverseMass, Zenon
  <2>3. ~Less(warmup.mass_init_count, One)
    BY <2>1, <2>2 DEF ProgressInv
  <2>4. warmup.mass_init_count \in Rationals /\ One \in Rationals
    BY ZeroOne DEF WarmupInv, Plenty
  <2> QED
    BY <2>2, <2>3, <2>4, LessIs
<1>3. CASE ~IsFinite(adam.step)
  <2>1. Follows(adam, gradients) /\ (adam.step = Inf => wholeness.unchecked # {})
    BY Zenon DEF RunInv, StepInv
  <2>2. adam.step \in {One, Inf, NaN} /\ (AllRational(gradients) => adam.step # NaN)
    BY <2>1 DEF Follows, AdamStates, AdamSteps
  <2>3. IsFinite(One)
    BY ZeroOne, RationalParts
  <2> QED
    BY <1>3, <2>1, <2>2, <2>3
<1> QED
  BY <1>1, <1>2, <1>3, Zenon DEF Usable

\* One call of the adapter: what is observed, and the two ways it ends.
ObservedBy(levels, y, alphas) ==
  /\ levels \in Nat \ {0} /\ y.theta \in Vectors /\ y.grad \in Vectors
  /\ alphas \in Seq(Statistic) /\ \A k \in 1 .. Len(alphas) : alphas[k] \in Statistics
  /\ ~Usable => y.theta = theta
  /\ adam' = AdamAfter(adam, alphas)
  /\ gradients' = gradients \o GradientsOf(alphas)
  /\ theta' = y.theta

CountedBy(levels, y, discount) ==
  /\ draw_var' = Observe(draw_var, y.theta, discount)
  /\ score_var' = Observe(score_var, y.grad, discount)
  /\ macro_steps' = [total |-> macro_steps.total + Macros(levels), count |-> macro_steps.count + 1]
  /\ iteration' = iteration + 1
  /\ seen' = Append(seen, [theta |-> y.theta, grad |-> y.grad, discount |-> discount])
  /\ outcome' = "ok"

RefusedBy ==
  /\ outcome' = "threw"
  /\ UNCHANGED <<draw_var, score_var, macro_steps, iteration, seen>>

LEMMA DrawsFit == \A y \in Draws : y.theta \in Vectors /\ y.grad \in Vectors /\ DOMAIN y = {"theta", "grad"}
<1> SUFFICES ASSUME NEW y \in Draws
             PROVE  y.theta \in Vectors /\ y.grad \in Vectors /\ DOMAIN y = {"theta", "grad"}
  OBVIOUS
<1>1. /\ y.theta \in [1 .. Dims -> Double] /\ y.grad \in [1 .. Dims -> Double]
      /\ DOMAIN y = {"theta", "grad"} /\ AllFinite(y.theta) /\ AllFinite(y.grad)
  BY AdaptationAssumption
<1>2. ASSUME NEW v \in [1 .. Dims -> Double], AllFinite(v) PROVE v \in Vectors
  BY <1>2, DoublesFinite DEF AllFinite, Finite, Vectors
<1> QED
  BY <1>1, <1>2

LEMMA StatisticsFit ==
  Statistics \subseteq Statistic /\ (NaN \in Statistics => NaN \in Alphas \/ ~Usable)
<1>1. Alphas \subseteq Statistic
  BY AdaptationAssumption, DoublesFinite DEF Statistic, IsNaN
<1> QED
  BY <1>1 DEF Statistics, Statistic

LEMMA TrajectoriesFit ==
  SamplingInv => \A t \in Trajectories : t[1] \in Nat \ {0} /\ t[2] \in Nat
<1> SUFFICES ASSUME SamplingInv, NEW t \in Trajectories PROVE t[1] \in Nat \ {0} /\ t[2] \in Nat
  OBVIOUS
<1> DEFINE d == sampling.max_trajectory_doublings
           P == (1 .. d + 1) \X (1 .. MaxStatistics)
<1>1. d \in Nat /\ MaxStatistics \in Nat
  BY AdaptationAssumption DEF SamplingInv
<1>2. t = <<1, 0>> \/ t = <<1, 1>> \/ t \in P
  BY Zenon DEF Trajectories
<1> HIDE DEF d
<1>3. t \in P => t[1] \in Nat \ {0} /\ t[2] \in Nat
  BY <1>1
<1> QED
  BY <1>2, <1>3

LEMMA IterateCases ==
  ASSUME AdaptInv, Iterate
  PROVE  /\ stage = "warmup" /\ iteration < MaxIter /\ outcome # "threw"
         /\ UNCHANGED <<builder, init, warmup, sampling, calls, filled, unchecked, wholeness,
                        stage, init_mass>>
         /\ \E levels, y, alphas :
              /\ ObservedBy(levels, y, alphas)
              /\ IF ProbabilityInclusive(Discount(iteration))
                   THEN CountedBy(levels, y, Discount(iteration)) ELSE RefusedBy
<1>0. /\ stage = "warmup" /\ iteration < MaxIter /\ outcome # "threw"
      /\ UNCHANGED <<builder, init, warmup, sampling, calls, filled, unchecked, wholeness,
                     stage, init_mass>>
  BY Zenon DEF Iterate
<1>1. theta \in Vectors /\ SamplingInv
  BY <1>0, Zenon DEF AdaptInv, Running, RunInv, ProgressInv
<1>2. PICK t \in Trajectories, y \in Returned : \E alphas \in [1 .. t[2] -> Statistics] :
        LET discount == Discount(iteration)
        IN  /\ adam' = FoldLeft(ObserveAccept, adam, alphas)
            /\ gradients' = gradients \o [k \in 1 .. t[2] |-> Gradient(alphas[k])]
            /\ theta' = y.theta
            /\ IF ProbabilityInclusive(discount)
                 THEN CountedBy(t[1], y, discount) ELSE RefusedBy
  BY Zenon DEF Iterate, CountedBy, RefusedBy
<1>3. PICK alphas \in [1 .. t[2] -> Statistics] :
        /\ adam' = FoldLeft(ObserveAccept, adam, alphas)
        /\ gradients' = gradients \o [k \in 1 .. t[2] |-> Gradient(alphas[k])]
        /\ theta' = y.theta
        /\ IF ProbabilityInclusive(Discount(iteration))
             THEN CountedBy(t[1], y, Discount(iteration)) ELSE RefusedBy
  BY <1>2, Zenon
<1>4. t[1] \in Nat \ {0} /\ t[2] \in Nat
  BY <1>1, TrajectoriesFit
<1>5. /\ alphas \in Seq(Statistic) /\ Len(alphas) = t[2]
      /\ \A k \in 1 .. t[2] : alphas[k] \in Statistics
  <2>1. Statistics \subseteq Statistic
    BY StatisticsFit
  <2>2. alphas \in [1 .. t[2] -> Statistic] /\ \A k \in 1 .. t[2] : alphas[k] \in Statistics
    BY <2>1
  <2> QED
    BY <1>4, <2>2, ListIs
<1>6. y.theta \in Vectors /\ y.grad \in Vectors /\ (~Usable => y.theta = theta)
  <2>1. ASSUME NEW z \in Draws
        PROVE  [z EXCEPT !.theta = theta].theta = theta /\ [z EXCEPT !.theta = theta].grad = z.grad
    BY DrawsFit
  <2>2. CASE y \in Draws /\ Usable
    BY <2>2, DrawsFit
  <2>3. CASE y \in {[z EXCEPT !.theta = theta] : z \in Draws}
    BY <1>1, <2>1, <2>3, DrawsFit
  <2>4. (y \in Draws /\ Usable) \/ y \in {[z EXCEPT !.theta = theta] : z \in Draws}
    BY DEF Returned
  <2> QED
    BY <2>2, <2>3, <2>4
<1>7. ObservedBy(t[1], y, alphas)
  <2>1. gradients' = gradients \o GradientsOf(alphas)
    BY <1>3, <1>5, Zenon DEF GradientsOf
  <2>2. adam' = AdamAfter(adam, alphas)
    BY <1>3, Zenon DEF AdamAfter
  <2>3. \A k \in 1 .. Len(alphas) : alphas[k] \in Statistics
    BY <1>5
  <2> QED
    BY <1>3, <1>4, <1>5, <1>6, <2>1, <2>2, <2>3, Zenon DEF ObservedBy
<1> QED
  BY <1>0, <1>3, <1>7, Zenon

\* The discount factor, which is a probability from the second iteration on.
LEMMA DiscountIs ==
  ASSUME WarmupInv, ProgressInv
  PROVE  /\ Discount(iteration) \in Rationals
         /\ ProbabilityInclusive(Discount(iteration)) <=> AtMost(Zero, Discount(iteration))
         /\ ProbabilityInclusive(Discount(iteration)) <=> ~Less(warmup.mass_init_count, One)
         /\ Less(One, warmup.mass_init_count) => Less(Zero, Discount(iteration))
         /\ iteration = 0 /\ warmup.mass_init_count = One => Discount(iteration) = Zero
<1> DEFINE c == warmup.mass_init_count
           x == Discount(iteration)
<1>1. c \in Rationals /\ Less(Zero, c) /\ Zero \in Rationals /\ One \in Rationals
  BY ZeroOne DEF WarmupInv, Plenty
<1>2. iteration \in Nat /\ (iteration > 0 => ~Less(c, One))
  BY DEF ProgressInv
<1> HIDE DEF c
<1>3. x = Minus(One, Over(One, Plus(c, Frac(iteration, 1))))
  BY DEF Discount, c
<1> HIDE DEF x
<1>4. /\ x \in Rationals /\ Less(x, One)
      /\ iteration = 0 => (AtMost(Zero, x) <=> ~Less(c, One))
      /\ iteration > 0 => (~Less(c, One) => Less(Zero, x))
      /\ Less(One, c) => Less(Zero, x)
      /\ iteration = 0 /\ c = One => x = Zero
  BY <1>1, <1>2, <1>3, ComplementOfInverse
<1>5. AtMost(x, One) /\ (Less(Zero, x) => AtMost(Zero, x))
  BY <1>1, <1>4, LessIs
<1>6. AtMost(Zero, x) <=> ~Less(c, One)
  BY <1>2, <1>4, <1>5
<1>7. ProbabilityInclusive(x) <=> AtMost(Zero, x)
  BY <1>5, Zenon DEF ProbabilityInclusive
<1> QED
  BY <1>4, <1>6, <1>7, Zenon DEF c, x

LEMMA AdamKept ==
  ASSUME WarmupInv, RunInv, NEW levels, NEW y, NEW alphas, ObservedBy(levels, y, alphas),
         UNCHANGED <<warmup, wholeness>>
  PROVE  StepInv'
<1> DEFINE gs == gradients \o GradientsOf(alphas)
           a == AdamAfter(adam, alphas)
<1>1. /\ Follows(adam, gradients) /\ (adam.step = Inf => wholeness.unchecked # {})
      /\ ~AllRational(gradients) =>
            NaN \in Alphas \/ warmup.mass_init_count = One \/ wholeness.unchecked # {}
  BY Zenon DEF RunInv, StepInv
<1>2. /\ alphas \in Seq(Statistic) /\ \A k \in 1 .. Len(alphas) : alphas[k] \in Statistics
      /\ adam' = a /\ gradients' = gs
  BY Zenon DEF ObservedBy
<1>3. Follows(a, gs)
  BY <1>1, <1>2, FollowsAfter, Zenon
<1>4. AllRational(gs) \/ ~AllRational(gradients) \/ NaN \in Statistics
  <2> SUFFICES ASSUME AllRational(gradients), NaN \notin Statistics PROVE AllRational(gs)
    OBVIOUS
  <2>1. ASSUME NEW k \in 1 .. Len(alphas)
        PROVE  Gradient(alphas[k]) \in Rationals
    <3>1. alphas[k] \in Rationals
      BY <1>2, StatisticsFit DEF Statistic
    <3> QED
      BY <3>1, GradientStatistic DEF Statistic
  <2>2. gradients \in Seq(Rationals)
    <3>1. gradients \in Seq(Statistic)
      BY <1>1, Zenon DEF Follows
    <3>2. \A k \in 1 .. Len(gradients) : gradients[k] \in Rationals
      BY <3>1 DEF AllRational
    <3>3. gradients = [k \in 1 .. Len(gradients) |-> gradients[k]] /\ Len(gradients) \in Nat
      BY <3>1
    <3> QED
      BY <3>2, <3>3, Listed
  <2>3. GradientsOf(alphas) \in Seq(Rationals)
    <3>1. Len(alphas) \in Nat
      BY <1>2
    <3>2. GradientsOf(alphas) \in [1 .. Len(alphas) -> Rationals]
      BY <2>1 DEF GradientsOf
    <3> QED
      BY <3>1, <3>2, ListIs
  <2>4. gs \in Seq(Rationals)
    BY <2>2, <2>3, ConcatAt
  <2> HIDE DEF gs
  <2> QED
    BY <2>4 DEF AllRational
<1>5. ~AllRational(gs) => NaN \in Alphas \/ warmup.mass_init_count = One \/ wholeness.unchecked # {}
  <2>1. NaN \in Statistics => NaN \in Alphas \/ ~Usable
    BY StatisticsFit
  <2> QED
    BY <1>1, <1>4, <2>1, Unusable, Zenon
<1>6. a.step = Inf => wholeness.unchecked # {}
  <2> SUFFICES ASSUME a.step = Inf PROVE adam.step = Inf
    BY <1>1
  <2>1. adam \in AdamStates
    BY <1>1, Zenon DEF Follows
  <2> QED
    BY <1>2, <2>1, InfinityWasThere, Zenon
<1> HIDE DEF a, gs
<1> QED
  BY <1>2, <1>3, <1>5, <1>6 DEF StepInv

LEMMA ObservationIs ==
  \A y, d : y.theta \in Vectors /\ y.grad \in Vectors /\ d \in Rationals =>
    /\ [theta |-> y.theta, grad |-> y.grad, discount |-> d] \in Observation
    /\ [theta |-> y.theta, grad |-> y.grad, discount |-> d]["theta"] = y.theta
    /\ [theta |-> y.theta, grad |-> y.grad, discount |-> d]["grad"] = y.grad
    /\ [theta |-> y.theta, grad |-> y.grad, discount |-> d].discount = d
BY DEF Observation

LEMMA MomentsCounted ==
  ASSUME AdaptInv, RunInv, UNCHANGED <<warmup, init_mass, wholeness>>,
         NEW levels, NEW y, NEW alphas, ObservedBy(levels, y, alphas),
         ~Less(warmup.mass_init_count, One), CountedBy(levels, y, Discount(iteration))
  PROVE  MeanInv' /\ (TrustedMass => SpreadInv')
<1> DEFINE c == warmup.mass_init_count
           d == Discount(iteration)
           o == [theta |-> y.theta, grad |-> y.grad, discount |-> d]
<1>1. /\ c \in Rationals /\ WarmupInv /\ ProgressInv /\ MeanInv /\ (TrustedMass => SpreadInv)
  BY Zenon DEF AdaptInv, WarmupInv, Plenty, RunInv
<1>2. d \in Rationals /\ AtMost(Zero, d) /\ (Less(One, c) => Less(Zero, d))
  BY <1>1, DiscountIs, Zenon
<1>3. /\ draw_var' = Observe(draw_var, y.theta, d) /\ score_var' = Observe(score_var, y.grad, d)
      /\ seen' = Append(seen, o) /\ warmup' = warmup /\ init_mass' = init_mass
      /\ iteration' = iteration + 1
  BY Zenon DEF CountedBy
<1>4. y.theta \in Vectors /\ y.grad \in Vectors /\ seen \in Seq(Observation)
      /\ iteration \in Nat
  BY <1>1 DEF ObservedBy, ProgressInv
<1> HIDE DEF d
<1>5. o \in Observation /\ o["theta"] = y.theta /\ o["grad"] = y.grad /\ o.discount = d
  BY <1>2, <1>4, ObservationIs, Zenon
<1>6. "theta" \in Estimates /\ "grad" \in Estimates
  BY DEF Estimates
<1> HIDE DEF o, c
<1>7. MeanKept(draw_var, c, seen, "theta") /\ MeanKept(score_var, c, seen, "grad")
  BY <1>1, Zenon DEF MeanInv, c
<1>8. AtMost(Zero, o.discount)
  BY <1>2, <1>5, Zenon
<1>9. /\ draw_var' = Observe(draw_var, o["theta"], o.discount)
      /\ score_var' = Observe(score_var, o["grad"], o.discount)
  BY <1>3, <1>5, Zenon
<1>10. MeanKept(draw_var', c, seen', "theta") /\ MeanKept(score_var', c, seen', "grad")
  <2>1. MeanKept(Observe(draw_var, o["theta"], o.discount), c, Append(seen, o), "theta")
    BY <1>1, <1>4, <1>5, <1>6, <1>7, <1>8, MeanStep DEF c
  <2>2. MeanKept(Observe(score_var, o["grad"], o.discount), c, Append(seen, o), "grad")
    BY <1>1, <1>4, <1>5, <1>6, <1>7, <1>8, MeanStep DEF c
  <2> QED
    BY <1>3, <1>9, <2>1, <2>2, Zenon
<1>11. MeanInv'
  BY <1>3, <1>10, Zenon DEF MeanInv, c
<1>12. ASSUME TrustedMass PROVE SpreadInv'
  <2> DEFINE im == Inverted(init_mass)
  <2>1. /\ DOMAIN init_mass = 1 .. Dims
        /\ \A i \in 1 .. Dims : Plenty(init_mass[i]) /\ Plenty(im[i])
        /\ SpreadKept(draw_var, c, seen, "theta", im)
        /\ SpreadKept(score_var, c, seen, "grad", init_mass)
        /\ iteration = 0 \/ Less(One, c) =>
             \A i \in 1 .. Dims :
               Less(Zero, draw_var.sum_sq_dev[i]) /\ Less(Zero, score_var.sum_sq_dev[i])
    BY <1>1, <1>12, Zenon DEF SpreadInv, c
  <2> HIDE DEF im
  <2>2. \A i \in 1 .. Dims : init_mass[i] \in Rationals /\ im[i] \in Rationals
    BY <2>1, Zenon DEF Plenty
  <2>3. /\ SpreadKept(draw_var', c, seen', "theta", im)
        /\ \A i \in 1 .. Dims : Less(Zero, d) /\ Less(Zero, draw_var.sum_sq_dev[i])
                                  => Less(Zero, draw_var'.sum_sq_dev[i])
    <3> DEFINE n == Observe(draw_var, o["theta"], o.discount)
    <3>1. /\ SpreadKept(n, c, Append(seen, o), "theta", im)
          /\ \A i \in 1 .. Dims :
               Less(Zero, o.discount) /\ Less(Zero, draw_var.sum_sq_dev[i]) => Less(Zero, n.sum_sq_dev[i])
      BY <1>1, <1>4, <1>5, <1>6, <1>7, <1>8, <2>1, <2>2, SpreadStepKept DEF c
    <3> HIDE DEF n
    <3>2. draw_var' = n
      BY <1>9, Zenon DEF n
    <3> QED
      BY <1>3, <1>5, <3>1, <3>2, Zenon
  <2>4. /\ SpreadKept(score_var', c, seen', "grad", init_mass)
        /\ \A i \in 1 .. Dims : Less(Zero, d) /\ Less(Zero, score_var.sum_sq_dev[i])
                                  => Less(Zero, score_var'.sum_sq_dev[i])
    <3> DEFINE n == Observe(score_var, o["grad"], o.discount)
    <3>1. /\ SpreadKept(n, c, Append(seen, o), "grad", init_mass)
          /\ \A i \in 1 .. Dims :
               Less(Zero, o.discount) /\ Less(Zero, score_var.sum_sq_dev[i]) => Less(Zero, n.sum_sq_dev[i])
      BY <1>1, <1>4, <1>5, <1>6, <1>7, <1>8, <2>1, <2>2, SpreadStepKept DEF c
    <3> HIDE DEF n
    <3>2. score_var' = n
      BY <1>9, Zenon DEF n
    <3> QED
      BY <1>3, <1>5, <3>1, <3>2, Zenon
  <2>5. iteration' = 0 \/ Less(One, c) =>
          \A i \in 1 .. Dims :
            Less(Zero, draw_var'.sum_sq_dev[i]) /\ Less(Zero, score_var'.sum_sq_dev[i])
    <3>1. iteration' # 0
      BY <1>3, <1>4
    <3> QED
      BY <1>2, <2>1, <2>3, <2>4, <3>1, Zenon DEF c
  <2> QED
    BY <1>3, <2>1, <2>3, <2>4, <2>5, Zenon DEF SpreadInv, c, im
<1> QED
  BY <1>11, <1>12

LEMMA MeanAtOnce ==
  \A m, y, s \in Rationals :
    /\ MovedMean(m, y, One) = y
    /\ Moving2(Zero, s, y, y) = Zero
<1> SUFFICES ASSUME NEW m \in Rationals, NEW y \in Rationals, NEW s \in Rationals
             PROVE  MovedMean(m, y, One) = y /\ Moving2(Zero, s, y, y) = Zero
  OBVIOUS
<1>1. Zero \in Rationals /\ Minus(y, m) \in Rationals
  BY ZeroOne, Closed
<1>2. Over(Minus(y, m), One) = Minus(y, m) /\ Plus(m, Minus(y, m)) = y
  BY <1>1, Units, MinusPlus
<1>3. Times(Zero, s) = Zero /\ Minus(y, y) = Zero /\ Times(Zero, Zero) = Zero /\ Plus(Zero, Zero) = Zero
  BY <1>1, Units, TimesCommutes
<1> QED
  BY <1>2, <1>3, Zenon DEF MovedMean, Moving2

LEMMA MeanUnmoved ==
  \A m, w, d \in Rationals : Less(Zero, w) =>
    /\ MovedMean(m, m, w) = m
    /\ Moving2(d, Zero, m, m) = Zero
<1> SUFFICES ASSUME NEW m \in Rationals, NEW w \in Rationals, NEW d \in Rationals, Less(Zero, w)
             PROVE  MovedMean(m, m, w) = m /\ Moving2(d, Zero, m, m) = Zero
  OBVIOUS
<1>1. Zero \in Rationals /\ AtMost(Zero, w)
  BY ZeroOne, LessIs
<1>2. Over(Zero, w) = Zero
  BY <1>1, ZeroOver
<1>3. Minus(m, m) = Zero /\ Plus(m, Zero) = m
      /\ Times(d, Zero) = Zero /\ Times(Zero, Zero) = Zero /\ Plus(Zero, Zero) = Zero
  BY <1>1, Units
<1> QED
  BY <1>2, <1>3, Zenon DEF MovedMean, Moving2

LEMMA LostKept ==
  ASSUME AdaptInv, RunInv, TrustedMass, UNCHANGED <<warmup, init_mass, wholeness>>,
         NEW levels, NEW y, NEW alphas, ObservedBy(levels, y, alphas),
         CountedBy(levels, y, Discount(iteration)), warmup.mass_init_count = One
  PROVE  draw_var'.mean = theta' /\ \A i \in 1 .. Dims : draw_var'.sum_sq_dev[i] = Zero
<1> DEFINE d == Discount(iteration)
           n == draw_var'
           m == draw_var.mean
           s == draw_var.sum_sq_dev
           x == y.theta
<1>1. WarmupInv /\ ProgressInv /\ MeanInv /\ SpreadInv /\ LostInv
  BY Zenon DEF AdaptInv, RunInv
<1>2. /\ d \in Rationals /\ (ProbabilityInclusive(d) <=> AtMost(Zero, d))
      /\ iteration = 0 => d = Zero
      /\ ProbabilityInclusive(d) <=> ~Less(One, One)
  BY <1>1, DiscountIs, Zenon
<1>3. AtMost(Zero, d)
  BY <1>2, ZeroOne, LessIs
<1>4. /\ Observed(draw_var, x, d, n) /\ theta' = x
  BY ObserveFields, Zenon DEF CountedBy, ObservedBy
<1>5. x \in Vectors /\ m \in Vectors /\ s \in Vectors
  BY <1>1, Zenon DEF ObservedBy, MeanInv, MeanKept, SpreadInv, SpreadKept
<1>6. /\ \A i \in 1 .. Dims : m[i] \in Rationals /\ x[i] \in Rationals /\ s[i] \in Rationals
      /\ x = [i \in 1 .. Dims |-> x[i]] /\ m = [i \in 1 .. Dims |-> m[i]]
  BY <1>5 DEF Vectors
<1>7. draw_var.weight \in Rationals /\ Less(Zero, draw_var.weight)
  BY <1>1, Zenon DEF MeanInv, MeanKept, Plenty
<1> HIDE DEF d, n, m, s, x
<1>8. /\ n.weight = Plus(Times(d, draw_var.weight), One)
      /\ n.mean = [i \in 1 .. Dims |-> MovedMean(m[i], x[i], n.weight)]
      /\ \A i \in 1 .. Dims : n.sum_sq_dev[i] = Moving2(d, s[i], x[i], n.mean[i])
  BY <1>4 DEF Observed, m, s
<1>9. CASE iteration = 0
  <2>1. d = Zero
    BY <1>2, <1>9
  <2>2. n.weight = One
    BY <1>7, <1>8, <2>1, ZeroOne, Units, TimesCommutes, PlusCommutes
  <2>3. ASSUME NEW i \in 1 .. Dims PROVE MovedMean(m[i], x[i], n.weight) = x[i]
    BY <1>6, <2>2, MeanAtOnce
  <2>4. n.mean = x
    BY <1>6, <1>8, <2>3
  <2>5. ASSUME NEW i \in 1 .. Dims PROVE n.sum_sq_dev[i] = Zero
    <3>1. n.sum_sq_dev[i] = Moving2(d, s[i], x[i], n.mean[i])
      BY <1>8
    <3>2. Moving2(Zero, s[i], x[i], x[i]) = Zero
      BY <1>6, MeanAtOnce
    <3> QED
      BY <2>1, <2>4, <3>1, <3>2, Zenon
  <2> QED
    BY <1>4, <2>4, <2>5, Zenon DEF n
<1>10. CASE iteration # 0
  <2>1. iteration > 0
    BY <1>1, <1>10 DEF ProgressInv
  <2>2. m = theta /\ \A i \in 1 .. Dims : s[i] = Zero
    BY <1>1, <2>1, Zenon DEF LostInv, m, s
  <2>3. ~AllPositive(InvMassSquared)
    <3>1. ~Less(One, One)
      BY ZeroOne, LessIs
    <3> QED
      BY <1>1, <1>10, <3>1, InverseMass, Zenon
  <2>4. x = m
    BY <2>2, <2>3, Zenon DEF ObservedBy, Usable, x
  <2>5. n.weight \in Rationals /\ Less(Zero, n.weight)
    <3>1. AtMost(Zero, Times(d, draw_var.weight)) /\ Times(d, draw_var.weight) \in Rationals
      <4>1. AtMost(Zero, draw_var.weight)
        BY <1>7, ZeroOne, LessIs
      <4>2. AtMost(Times(d, Zero), Times(d, draw_var.weight)) /\ Times(d, Zero) = Zero
        BY <1>2, <1>3, <1>7, <4>1, ZeroOne, TimesMonotone, Units
      <4> QED
        BY <1>2, <1>7, <4>2, Closed, Zenon
    <3>2. Less(Zero, One) /\ One \in Rationals
      BY FiniteNumber DEF Plenty
    <3> QED
      BY <1>8, <3>1, <3>2, Positives, Closed
  <2>6. ASSUME NEW i \in 1 .. Dims PROVE MovedMean(m[i], x[i], n.weight) = m[i]
    BY <1>6, <2>4, <2>5, ZeroOne, MeanUnmoved
  <2>7. n.mean = m
    BY <1>6, <1>8, <2>6
  <2>8. ASSUME NEW i \in 1 .. Dims PROVE n.sum_sq_dev[i] = Zero
    <3>1. n.sum_sq_dev[i] = Moving2(d, s[i], x[i], n.mean[i])
      BY <1>8
    <3>2. Moving2(d, Zero, m[i], m[i]) = Zero
      BY <1>2, <1>6, <2>5, MeanUnmoved
    <3> QED
      BY <2>2, <2>4, <2>7, <3>1, <3>2, Zenon
  <2> QED
    BY <1>4, <2>4, <2>7, <2>8, Zenon DEF n
<1> QED
  BY <1>9, <1>10

IterationVars ==
  <<builder, init, warmup, sampling, calls, filled, unchecked, wholeness, stage, init_mass>>

LEMMA CountedRight ==
  ASSUME AdaptInv, RunInv, UNCHANGED IterationVars,
         iteration < MaxIter, outcome # "threw",
         NEW levels, NEW y, NEW alphas, ObservedBy(levels, y, alphas),
         ProbabilityInclusive(Discount(iteration)), CountedBy(levels, y, Discount(iteration))
  PROVE  RunInv'
<1>1. WarmupInv /\ ProgressInv /\ MacroInv /\ UNCHANGED <<warmup, init_mass, wholeness>>
  BY Zenon DEF AdaptInv, RunInv, IterationVars
<1>2. ~Less(warmup.mass_init_count, One) /\ Discount(iteration) \in Rationals
  BY <1>1, DiscountIs, Zenon
<1>3. ProgressInv'
  <2>1. y.theta \in Vectors /\ y.grad \in Vectors /\ theta' = y.theta
    BY Zenon DEF ObservedBy
  <2> DEFINE o == [theta |-> y.theta, grad |-> y.grad, discount |-> Discount(iteration)]
  <2>2. o \in Observation
    BY <1>2, <2>1, ObservationIs, Zenon
  <2>3. seen' = Append(seen, o) /\ iteration' = iteration + 1 /\ outcome' = "ok"
    BY Zenon DEF CountedBy
  <2> HIDE DEF o
  <2>4. iteration \in 0 .. MaxIter /\ seen \in Seq(Observation) /\ Len(seen) = iteration
    BY <1>1, Zenon DEF ProgressInv
  <2>5. seen' \in Seq(Observation) /\ Len(seen') = iteration' /\ iteration' \in 0 .. MaxIter
    BY <2>2, <2>3, <2>4, AdaptationAssumption
  <2> QED
    BY <1>1, <1>2, <2>1, <2>3, <2>5 DEF ProgressInv
<1>4. MacroInv'
  <2>1. /\ Macros(levels) \in Nat /\ Macros(levels) >= 2
        /\ macro_steps'.total = macro_steps.total + Macros(levels)
        /\ macro_steps'.count = macro_steps.count + 1
    <3>1. levels \in Nat \ {0}
      BY Zenon DEF ObservedBy
    <3> QED
      BY <3>1, MacrosPositive DEF CountedBy
  <2> QED
    BY <1>1, <2>1 DEF MacroInv
<1>5. MeanInv' /\ (TrustedMass => SpreadInv')
  BY <1>1, <1>2, MomentsCounted, Zenon
<1>6. StepInv'
  BY <1>1, AdamKept, Zenon
<1>7. TrustedMass => LostInv'
  <2> SUFFICES ASSUME TrustedMass, warmup.mass_init_count = One PROVE LostInv'
    BY <1>1, Zenon DEF LostInv
  <2>1. draw_var'.mean = theta' /\ \A i \in 1 .. Dims : draw_var'.sum_sq_dev[i] = Zero
    BY <1>1, LostKept, Zenon
  <2> QED
    BY <2>1, Zenon DEF LostInv
<1>8. TrustedMass' => TrustedMass
  BY <1>1, Zenon DEF TrustedMass
<1> QED
  BY <1>3, <1>4, <1>5, <1>6, <1>7, <1>8, Zenon DEF RunInv

LEMMA RefusedRight ==
  ASSUME AdaptInv, RunInv, UNCHANGED IterationVars,
         iteration < MaxIter, outcome # "threw",
         NEW levels, NEW y, NEW alphas, ObservedBy(levels, y, alphas),
         ~ProbabilityInclusive(Discount(iteration)), RefusedBy
  PROVE  RunInv'
<1>1. /\ WarmupInv /\ ProgressInv /\ MacroInv /\ MeanInv /\ UNCHANGED <<warmup, init_mass, wholeness>>
      /\ UNCHANGED <<draw_var, score_var, macro_steps, iteration, seen>>
  BY Zenon DEF AdaptInv, RunInv, IterationVars, RefusedBy
<1>2. Less(warmup.mass_init_count, One)
  BY <1>1, DiscountIs, Zenon
<1>3. ProgressInv'
  BY <1>1, <1>2, Zenon DEF ProgressInv, ObservedBy
<1>4. MacroInv' /\ MeanInv'
  BY <1>1, Zenon DEF MacroInv, MeanInv
<1>5. StepInv'
  BY <1>1, AdamKept, Zenon
<1>6. TrustedMass => SpreadInv'
  BY <1>1, Zenon DEF SpreadInv, RunInv
<1>7. LostInv'
  <2>1. warmup.mass_init_count # One
    BY <1>2, ZeroOne, LessIs
  <2> QED
    BY <1>1, <2>1, Zenon DEF LostInv
<1>8. TrustedMass' => TrustedMass
  BY <1>1, Zenon DEF TrustedMass
<1> QED
  BY <1>3, <1>4, <1>5, <1>6, <1>7, <1>8, Zenon DEF RunInv

LEMMA BuildUnchanged ==
  BuildInv /\ UNCHANGED <<builder, init, filled, unchecked, wholeness>> => BuildInv'
BY Zenon DEF BuildInv, BuilderInv

LEMMA ConfigUnchanged ==
  /\ WarmupInv /\ UNCHANGED warmup => WarmupInv'
  /\ SamplingInv /\ UNCHANGED sampling => SamplingInv'
BY Zenon DEF WarmupInv, SamplingInv

LEMMA IterateRight == AdaptInv /\ Iterate => AdaptInv'
<1> SUFFICES ASSUME AdaptInv, Iterate PROVE AdaptInv'
  OBVIOUS
<1>1. /\ stage = "warmup" /\ iteration < MaxIter /\ outcome # "threw"
      /\ UNCHANGED IterationVars
  BY IterateCases, Zenon DEF IterationVars
<1>2. RunInv
  BY <1>1, Zenon DEF AdaptInv, Running
<1>3. PICK levels, y, alphas :
        /\ ObservedBy(levels, y, alphas)
        /\ IF ProbabilityInclusive(Discount(iteration))
             THEN CountedBy(levels, y, Discount(iteration)) ELSE RefusedBy
  BY IterateCases, Zenon
<1>4. RunInv' /\ outcome' \in {"ok", "threw"}
  <2>1. CASE ProbabilityInclusive(Discount(iteration))
    <3>1. CountedBy(levels, y, Discount(iteration))
      BY <1>3, <2>1
    <3> QED
      BY <1>1, <1>2, <1>3, <2>1, <3>1, CountedRight, Zenon DEF CountedBy
  <2>2. CASE ~ProbabilityInclusive(Discount(iteration))
    <3>1. RefusedBy
      BY <1>3, <2>2
    <3> QED
      BY <1>1, <1>2, <1>3, <2>2, <3>1, RefusedRight, Zenon DEF RefusedBy
  <2> QED
    BY <2>1, <2>2
<1>5. BuildInv' /\ WarmupInv' /\ SamplingInv'
  BY <1>1, BuildUnchanged, ConfigUnchanged, Zenon DEF AdaptInv, IterationVars
<1>6. stage' = "warmup"
  BY <1>1, Zenon DEF IterationVars
<1>7. StageInv' /\ FailedInv'
  BY <1>4, <1>6 DEF StageInv, FailedInv, Running
<1> QED
  BY <1>4, <1>5, <1>7, Zenon DEF AdaptInv

\* The mean number of macro steps is at least one over the target.
LEMMA MicroStepsBound ==
  ASSUME WarmupInv, SamplingInv, MacroInv
  PROVE  MinMicroSteps >= sampling.min_micro_steps /\ PositiveInteger(MinMicroSteps)
<1> DEFINE macros == warmup.max_macro_steps_target
           goal == Times(macros, Frac(macro_steps.count, 1))
           mean == Over(Frac(macro_steps.total, 1), goal)
           rounded == (2 * mean[1] + mean[2]) \div (2 * mean[2])
           least == sampling.min_micro_steps
<1>1. macros \in Rationals /\ Less(Zero, macros) /\ least \in Nat \ {0}
  BY Zenon DEF WarmupInv, SamplingInv, Plenty
<1>2. macro_steps.count \in Nat \ {0} /\ macro_steps.total \in Nat
  BY Zenon DEF MacroInv
<1>3. MinMicroSteps = IF rounded < least THEN least ELSE rounded
  BY DEF MinMicroSteps
<1> HIDE DEF macros, least
<1>4. goal \in Rationals /\ goal # Zero
  <2> DEFINE k == Frac(macro_steps.count, 1)
  <2>1. k \in Rationals /\ Less(Zero, k)
    <3>1. k \in Rationals /\ k[1] > 0
      BY <1>2, FracValue, FracSign
    <3> QED
      BY <3>1, Signs
  <2> HIDE DEF k
  <2>2. Times(macros, k) \in Rationals /\ Less(Zero, Times(macros, k))
    BY <1>1, <2>1, Closed, Positives
  <2> QED
    BY <2>2, Positives DEF k
<1> HIDE DEF goal
<1>5. mean \in Rationals
  <2>1. Frac(macro_steps.total, 1) \in Rationals
    BY <1>2, FracValue
  <2> QED
    BY <1>4, <2>1, Closed, Zenon
<1> HIDE DEF mean
<1>6. mean[1] \in Int /\ mean[2] \in Nat \ {0}
  BY <1>5, RationalParts, Zenon
<1>7. rounded \in Int
  BY <1>6
<1> HIDE DEF rounded
<1>8. MinMicroSteps >= least /\ MinMicroSteps > 0
  BY <1>1, <1>3, <1>7
<1> QED
  BY <1>8 DEF PositiveInteger, least

LEMMA NotConstructible ==
  ASSUME WarmupInv, SamplingInv, RunInv, ~Constructible
  PROVE  \/ 0 \in {sampling.max_trajectory_doublings, sampling.max_step_halvings}
         \/ warmup.mass_init_count = One
         \/ wholeness.unchecked # {}
         \/ NaN \in Alphas /\ ~AllRational(gradients)
<1>1. MinMicroSteps >= sampling.min_micro_steps /\ PositiveInteger(MinMicroSteps)
  BY MicroStepsBound, Zenon DEF RunInv
<1>2. Positive(sampling.max_hamiltonian_error)
  BY DoublesFinite DEF SamplingInv, Plenty, Positive
<1>3. /\ ~AllRational(gradients) =>
           NaN \in Alphas \/ warmup.mass_init_count = One \/ wholeness.unchecked # {}
      /\ adam.step \in AdamSteps
  BY DEF RunInv, StepInv, Follows, AdamStates
<1>4. CASE ~Usable
  BY <1>3, <1>4, Unusable, Zenon
<1>5. CASE Usable
  <2>1. adam.step = One
    BY <1>3, <1>5, DoublesFinite DEF Usable, AdamSteps
  <2>2. Positive(One)
    BY FiniteNumber, DoublesFinite DEF Plenty, Positive
  <2>3. AllPositive(InvMassSquared) /\ Positive(adam.step)
    BY <1>5, <2>1, <2>2, Zenon DEF Usable
  <2>4. \/ ~PositiveInteger(sampling.max_trajectory_doublings)
        \/ ~PositiveInteger(sampling.max_step_halvings)
    BY <1>1, <1>2, <2>3, Zenon DEF Constructible
  <2>5. sampling.max_trajectory_doublings \in Nat /\ sampling.max_step_halvings \in Nat
    BY Zenon DEF SamplingInv
  <2> QED
    BY <2>4, <2>5 DEF PositiveInteger
<1> QED
  BY <1>4, <1>5

LEMMA SamplerRight == AdaptInv /\ Sampler => AdaptInv'
<1> SUFFICES ASSUME AdaptInv, Sampler PROVE AdaptInv'
  OBVIOUS
<1>1. /\ stage = "warmup" /\ stage' = IF Constructible THEN "sampling" ELSE "failed"
      /\ UNCHANGED <<configVars, init_mass, adapterVars, seen, gradients>>
  BY Zenon DEF Sampler
<1>2. RunInv /\ BuildInv /\ WarmupInv /\ SamplingInv /\ StageInv
  BY <1>1, Zenon DEF AdaptInv, Running
<1>3. /\ UNCHANGED <<builder, init, filled, unchecked, wholeness, warmup, sampling, outcome>>
      /\ UNCHANGED <<init_mass, theta, iteration, adam, draw_var, score_var, macro_steps, seen, gradients>>
  BY <1>1 DEF configVars, adapterVars
<1>4. RunInv'
  BY <1>2, <1>3, Zenon DEF RunInv, ProgressInv, MacroInv, MeanInv, StepInv, SpreadInv, LostInv, TrustedMass
<1>5. BuildInv' /\ WarmupInv' /\ SamplingInv'
  BY <1>2, <1>3, BuildUnchanged, ConfigUnchanged, Zenon
<1>6. FailedInv'
  <2> SUFFICES ASSUME stage' = "failed" PROVE FailedInv'
    BY Zenon DEF FailedInv
  <2>1. ~Constructible
    BY <1>1
  <2>2. \/ 0 \in {sampling.max_trajectory_doublings, sampling.max_step_halvings}
        \/ warmup.mass_init_count = One
        \/ wholeness.unchecked # {}
        \/ NaN \in Alphas /\ ~AllRational(gradients)
    BY <1>2, <2>1, NotConstructible, Zenon
  <2> QED
    BY <1>3, <2>2, Zenon DEF FailedInv
<1>7. StageInv'
  BY <1>1, <1>2, <1>3 DEF StageInv, Running
<1> QED
  BY <1>4, <1>5, <1>6, <1>7, Zenon DEF AdaptInv

LEMMA StartStep == \A n \in Chains : AdaptInv /\ Start(n) => AdaptInv'
<1> SUFFICES ASSUME NEW n \in Chains, AdaptInv, Start(n) PROVE AdaptInv'
  OBVIOUS
<1>1. /\ stage = "configuring" /\ UNCHANGED <<warmup, sampling, seen, gradients>>
      /\ wholeness'.unchecked = wholeness.unchecked \/ DOMAIN wholeness # {"filled", "unchecked"}
      /\ \/ stage' \in {"configuring", "refused"} /\ outcome' \in {"undefined", "threw"}
            /\ UNCHANGED <<init_mass, adapterVars>>
         \/ HasChain(init, n) /\ StartedBy(init_chain_config(init, n))
  BY StartCases
<1>2. BuildInv /\ WarmupInv /\ SamplingInv /\ StageInv
  BY Zenon DEF AdaptInv
<1>3. iteration = 0 /\ seen = <<>> /\ gradients = <<>>
  BY <1>1, <1>2 DEF StageInv, Running
<1>4. BuildInv' /\ WarmupInv' /\ SamplingInv'
  BY <1>1, <1>2, StartRight, ConfigUnchanged, Zenon
<1>5. CASE /\ stage' \in {"configuring", "refused"} /\ outcome' \in {"undefined", "threw"}
           /\ UNCHANGED <<init_mass, adapterVars>>
  <2>1. StageInv' /\ FailedInv' /\ ~Running'
    BY <1>1, <1>3, <1>5 DEF StageInv, FailedInv, Running, adapterVars
  <2> QED
    BY <1>4, <2>1, Zenon DEF AdaptInv
<1>6. CASE HasChain(init, n) /\ StartedBy(init_chain_config(init, n))
  <2>1. stage' = "warmup" /\ outcome' = "ok"
    BY <1>6, Zenon DEF StartedBy
  <2>2. StageInv' /\ FailedInv'
    BY <2>1 DEF StageInv, FailedInv, Running
  <2>3. wholeness'.unchecked = wholeness.unchecked
    BY <1>1, <1>2, Zenon DEF BuildInv
  <2>4. RunInv'
    BY <1>1, <1>6, <2>3, StartEstablishes, Zenon
  <2> QED
    BY <1>4, <2>2, <2>4, Zenon DEF AdaptInv
<1> QED
  BY <1>1, <1>5, <1>6

LEMMA Outcomes == ConfigNext => outcome' \in {"ok", "refused", "threw", "undefined"}
<1>1. \A l, valid, v : Assign(l, valid, v) => outcome' \in {"ok", "refused", "threw", "undefined"}
  BY DEF Assign
<1>2. StepSizeAll \/ StepSizes \/ RandomPositions \/ PositionAll \/ Positions \/ MassAll \/ Masses
        => outcome' \in {"ok", "refused", "threw", "undefined"}
  BY <1>1, Zenon DEF StepSizeAll, StepSizes, RandomPositions, PositionAll, Positions, MassAll, Masses
<1>3. GradientMasses => outcome' \in {"ok", "refused", "threw", "undefined"}
  <2>1. GradientMasses => outcome' = "refused" \/ outcome' = "undefined" \/ outcome' = "threw" \/ outcome' = "ok"
    BY Zenon DEF GradientMasses
  <2> QED
    BY <2>1
<1>4. Build => outcome' \in {"ok", "refused", "threw", "undefined"}
  BY DEF Build
<1>5. AdaptStepBuild => outcome' \in {"ok", "refused", "threw", "undefined"}
  <2>1. AdaptStepBuild => outcome' = "undefined" \/ outcome' = "threw" \/ outcome' = "ok"
    BY Zenon DEF AdaptStepBuild
  <2> QED
    BY <2>1
<1>6. WarmupField \/ SamplingField \/ WarmupMinMaxIter \/ SamplingMinMaxIter
        => outcome' \in {"ok", "refused", "threw", "undefined"}
  BY DEF WarmupField, SamplingField, WarmupMinMaxIter, SamplingMinMaxIter
<1> QED
  BY <1>2, <1>3, <1>4, <1>5, <1>6, Zenon DEF ConfigNext

LEMMA ConfigureStep == AdaptInv /\ Configure => AdaptInv'
<1> SUFFICES ASSUME AdaptInv, Configure PROVE AdaptInv'
  OBVIOUS
<1>1. /\ stage = "configuring" /\ ConfigNext
      /\ UNCHANGED <<stage, init_mass, adapterVars, seen, gradients>>
  BY Zenon DEF Configure
<1>2. BuildInv' /\ WarmupInv' /\ SamplingInv' /\ StageInv
  BY <1>1, ConfigRight, FieldsRight, Zenon DEF AdaptInv
<1>3. outcome' \in {"ok", "refused", "threw", "undefined"}
  BY <1>1, Outcomes, Zenon
<1>4. StageInv' /\ FailedInv' /\ ~Running'
  BY <1>1, <1>2, <1>3 DEF StageInv, FailedInv, Running, adapterVars
<1> QED
  BY <1>2, <1>4, Zenon DEF AdaptInv

LEMMA AdaptInvInit == Init => AdaptInv
<1> SUFFICES ASSUME Init PROVE AdaptInv
  OBVIOUS
<1>1. /\ stage = "configuring" /\ outcome = "ok" /\ iteration = 0 /\ seen = <<>> /\ gradients = <<>>
      /\ warmup = WarmupDefaults /\ sampling = SamplingDefaults
  BY DEF Init, ConfigInit, Nothing
<1>2. WarmupInv /\ SamplingInv
  BY <1>1, FineIs, DefaultsFine, Zenon
<1>3. StageInv /\ FailedInv /\ ~Running
  BY <1>1 DEF StageInv, FailedInv, Running
<1> QED
  BY <1>2, <1>3, BuildInvInit, Zenon DEF AdaptInv

LEMMA AdaptInvUnchanged == AdaptInv /\ UNCHANGED vars => AdaptInv'
<1> SUFFICES ASSUME AdaptInv, UNCHANGED vars PROVE AdaptInv'
  OBVIOUS
<1>1. /\ UNCHANGED <<builder, init, filled, unchecked, wholeness, warmup, sampling, outcome, stage>>
      /\ UNCHANGED <<init_mass, theta, iteration, adam, draw_var, score_var, macro_steps, seen, gradients>>
  BY DEF vars, configVars, adapterVars
<1>2. BuildInv' /\ WarmupInv' /\ SamplingInv'
  BY <1>1, BuildUnchanged, ConfigUnchanged, Zenon DEF AdaptInv
<1>3. StageInv' /\ FailedInv'
  BY <1>1, Zenon DEF AdaptInv, StageInv, FailedInv, Running
<1>4. RunInv => RunInv'
  BY <1>1, Zenon DEF RunInv, ProgressInv, MacroInv, MeanInv, StepInv, SpreadInv, LostInv, TrustedMass
<1>5. Running' => Running
  BY <1>1, Zenon DEF Running
<1> QED
  BY <1>2, <1>3, <1>4, <1>5, Zenon DEF AdaptInv

\* The inductive invariant of the adapter and its configuration.
LEMMA AdaptInvHolds == Spec => []AdaptInv
<1>1. Init => AdaptInv
  BY AdaptInvInit
<1>2. AdaptInv /\ [Next]_vars => AdaptInv'
  BY ConfigureStep, StartStep, IterateRight, SamplerRight, AdaptInvUnchanged, Zenon DEF Next
<1> QED
  BY <1>1, <1>2, PTL DEF Spec

-------------------------------------------------------------------------------
\* What the properties call the entries of the lists is what the sums are of.
LEMMA FiniteGradientsAre == Follows(adam, gradients) => (FiniteGradients <=> AllRational(gradients))
<1> SUFFICES ASSUME Follows(adam, gradients) PROVE FiniteGradients <=> AllRational(gradients)
  OBVIOUS
<1>1. \A k \in DOMAIN gradients : gradients[k] \in Rationals \/ gradients[k] = NaN
  BY DEF Follows, Statistic
<1>2. \A x \in Rationals : IsFinite(x)
  BY RationalParts
<1>3. ~IsFinite(NaN) /\ NaN \notin Rationals
  BY DoublesFinite
<1> QED
  BY <1>1, <1>2, <1>3, Zenon DEF FiniteGradients, AllRational

LEMMA StartedRuns == AdaptInv /\ Started => RunInv /\ WarmupInv /\ SamplingInv /\ StageInv
BY DEF AdaptInv, Started, Running

LEMMA WeightsRational ==
  \A c \in Rationals, s \in Seq(Observation) : \A n \in 0 .. Len(s) : WeightOf(c, s, n) \in Rationals
<1> SUFFICES ASSUME NEW c \in Rationals, NEW s \in Seq(Observation)
             PROVE  \A n \in 0 .. Len(s) : WeightOf(c, s, n) \in Rationals
  OBVIOUS
<1> DEFINE v == [i \in 1 .. Dims |-> Zero]
           o == [theta |-> v, grad |-> v, discount |-> Zero]
<1>1. o \in Observation
  BY ZeroOne DEF Observation, Vectors
<1> HIDE DEF o
<1> QED
  BY <1>1, WeightsAfter

\* A sum over what was seen, entry 0 being the initial estimate's.
LEMMA TotalWeightIs ==
  ASSUME WarmupInv, seen \in Seq(Observation)
  PROVE  Total(Weight) = TotalWeight(warmup.mass_init_count, seen)
<1> DEFINE c == warmup.mass_init_count
           N == Len(seen)
<1>1. c \in Rationals /\ N \in Nat
  BY DEF WarmupInv, Plenty
<1>2. \A n : Weight(n) = WeightOf(c, seen, n)
  BY Zenon DEF Weight, WeightOf
<1>3. Total(Weight) = SumFrom(Weight(0), [n \in 1 .. N |-> Weight(n)])
  BY Zenon DEF Total
<1>4. TotalWeight(c, seen) = SumFrom(Times(WeightOf(c, seen, 0), One),
                                     [n \in 1 .. N |-> Times(WeightOf(c, seen, n), Ones(seen)[n])])
  BY Zenon DEF TotalWeight, WeightedTotal
<1> HIDE DEF c, N
<1>5. \A n \in 0 .. N : Weight(n) \in Rationals
  BY <1>1, <1>2, WeightsRational DEF N
<1>6. Times(WeightOf(c, seen, 0), One) = Weight(0)
  BY <1>1, <1>2, <1>5, Units
<1>7. ASSUME NEW n \in 1 .. N PROVE Times(WeightOf(c, seen, n), Ones(seen)[n]) = Weight(n)
  <2>1. Ones(seen)[n] = One
    BY DEF Ones, N
  <2>2. Weight(n) \in Rationals
    BY <1>1, <1>5
  <2> QED
    BY <1>2, <2>1, <2>2, Units, Zenon
<1>8. [n \in 1 .. N |-> Times(WeightOf(c, seen, n), Ones(seen)[n])] = [n \in 1 .. N |-> Weight(n)]
  BY <1>7
<1> QED
  BY <1>3, <1>4, <1>6, <1>8, Zenon DEF c

LEMMA TotalEntries ==
  ASSUME WarmupInv, seen \in Seq(Observation), NEW which \in Estimates, NEW i \in 1 .. Dims
  PROVE  Total(LAMBDA n : Times(Weight(n), Entry(which, i, n)))
           = SumOf(warmup.mass_init_count, seen, which, i)
<1> DEFINE c == warmup.mass_init_count
           N == Len(seen)
<1>1. N \in Nat
  OBVIOUS
<1>2. \A n : Weight(n) = WeightOf(c, seen, n)
  BY Zenon DEF Weight, WeightOf
<1>3. Total(LAMBDA n : Times(Weight(n), Entry(which, i, n)))
        = SumFrom(Times(Weight(0), Entry(which, i, 0)),
                  [n \in 1 .. N |-> Times(Weight(n), Entry(which, i, n))])
  BY Zenon DEF Total
<1>4. SumOf(c, seen, which, i)
        = SumFrom(Times(WeightOf(c, seen, 0), Zero),
                  [n \in 1 .. N |-> Times(WeightOf(c, seen, n), Values(seen, which, i)[n])])
  BY Zenon DEF SumOf, WeightedTotal
<1>5. Entry(which, i, 0) = Zero
  BY DEF Entry
<1>6. \A n \in 1 .. N : Entry(which, i, n) = Values(seen, which, i)[n]
  BY DEF Entry, Values
<1> HIDE DEF c, N
<1>7. ASSUME NEW n \in 1 .. N
      PROVE  Times(Weight(n), Entry(which, i, n)) = Times(WeightOf(c, seen, n), Values(seen, which, i)[n])
  BY <1>2, <1>6, Zenon
<1>8. [n \in 1 .. N |-> Times(Weight(n), Entry(which, i, n))]
        = [n \in 1 .. N |-> Times(WeightOf(c, seen, n), Values(seen, which, i)[n])]
  BY <1>7
<1>9. Times(Weight(0), Entry(which, i, 0)) = Times(WeightOf(c, seen, 0), Zero)
  BY <1>2, <1>5, Zenon
<1> QED
  BY <1>3, <1>4, <1>8, <1>9, Zenon DEF c

LEMMA MomentsKept ==
  ASSUME MeanInv, NEW which \in Estimates
  PROVE  MeanKept(Moments(which), warmup.mass_init_count, seen, which)
BY DEF MeanInv, Moments, Estimates

\* The running mean is the documented one.
LEMMA MeanOf ==
  ASSUME RunInv, WarmupInv, NEW which \in Estimates
  PROVE  /\ Moments(which).weight = Total(Weight)
         /\ \A i \in 1 .. Dims : Moments(which).mean[i] = DocumentedMean(which, i)
<1> DEFINE c == warmup.mass_init_count
           m == Moments(which)
<1>1. c \in Rationals /\ seen \in Seq(Observation) /\ MeanInv
  BY DEF RunInv, ProgressInv, WarmupInv, Plenty
<1>2. MeanKept(m, c, seen, which)
  BY <1>1, MomentsKept
<1> HIDE DEF m
<1>3. /\ m.weight \in Rationals /\ Less(Zero, m.weight) /\ m.weight = TotalWeight(c, seen)
      /\ \A i \in 1 .. Dims : m.mean[i] \in Rationals
      /\ \A i \in 1 .. Dims : Times(m.weight, m.mean[i]) = SumOf(c, seen, which, i)
  BY <1>2, VectorEntries, Zenon DEF MeanKept, Plenty
<1>4. m.weight = Total(Weight) /\ m.weight # Zero
  BY <1>1, <1>3, TotalWeightIs, Positives
<1>5. ASSUME NEW i \in 1 .. Dims PROVE m.mean[i] = DocumentedMean(which, i)
  <2>1. DocumentedMean(which, i) = Over(SumOf(c, seen, which, i), m.weight)
    <3>1. DocumentedMean(which, i)
            = Over(Total(LAMBDA n : Times(Weight(n), Entry(which, i, n))), Total(Weight))
      BY Zenon DEF DocumentedMean
    <3>2. Total(LAMBDA n : Times(Weight(n), Entry(which, i, n))) = SumOf(c, seen, which, i)
      BY <1>1, TotalEntries
    <3> QED
      BY <1>4, <3>1, <3>2, Zenon
  <2>2. Over(Times(m.weight, m.mean[i]), m.weight) = m.mean[i]
    BY <1>3, <1>4, OverCancels
  <2> QED
    BY <1>3, <2>1, <2>2, Zenon
<1> QED
  BY <1>4, <1>5, Zenon DEF m

SquareEntry(which, i, mean, n) ==
  Plus(Square(Minus(Entry(which, i, n), mean)), IF n = 0 THEN InitialVariance(which, i) ELSE Zero)

LEMMA TotalSpread ==
  ASSUME WarmupInv, seen \in Seq(Observation), NEW which \in Estimates, NEW i \in 1 .. Dims,
         NEW mean \in Rationals, InitialVariance(which, i) \in Rationals
  PROVE  Total(LAMBDA n : Times(Weight(n), SquareEntry(which, i, mean, n)))
           = Spread(mean, TotalWeight(warmup.mass_init_count, seen),
                    SumOf(warmup.mass_init_count, seen, which, i),
                    SquaresOf(warmup.mass_init_count, seen, which, i, InitialVariance(which, i)))
<1> DEFINE c == warmup.mass_init_count
           v == InitialVariance(which, i)
           len == Len(seen)
           w(n) == WeightOf(c, seen, n)
           x(n) == Entry(which, i, n)
           ones == [n \in 1 .. len |-> Times(w(n), Ones(seen)[n])]
           sums == [n \in 1 .. len |-> Times(w(n), Values(seen, which, i)[n])]
           powers == [n \in 1 .. len |-> Times(w(n), Powered(seen, which, i)[n])]
           spreads == [n \in 1 .. len |-> Times(Weight(n), SquareEntry(which, i, mean, n))]
           one == Times(w(0), One)
           sum == Times(w(0), Zero)
           power == Times(w(0), Plus(Square(Zero), v))
           spread == Times(Weight(0), SquareEntry(which, i, mean, 0))
<1>1. c \in Rationals /\ len \in Nat /\ v \in Rationals
  BY DEF WarmupInv, Plenty
<1>2. \A n : Weight(n) = w(n)
  BY Zenon DEF Weight, WeightOf
<1>3. Total(LAMBDA n : Times(Weight(n), SquareEntry(which, i, mean, n))) = SumFrom(spread, spreads)
  BY Zenon DEF Total
<1>4. /\ TotalWeight(c, seen) = SumFrom(one, ones) /\ SumOf(c, seen, which, i) = SumFrom(sum, sums)
      /\ SquaresOf(c, seen, which, i, v) = SumFrom(power, powers)
  BY Zenon DEF TotalWeight, SumOf, SquaresOf, WeightedTotal
<1>5. /\ x(0) = Zero
      /\ \A n \in 1 .. len : /\ x(n) = seen[n][which][i] /\ Ones(seen)[n] = One
                           /\ Values(seen, which, i)[n] = x(n)
                           /\ Powered(seen, which, i)[n] = Plus(Square(x(n)), Zero)
  BY DEF Entry, Ones, Values, Powered
<1>6. /\ SquareEntry(which, i, mean, 0) = Plus(Square(Minus(x(0), mean)), v)
      /\ \A n \in 1 .. len : SquareEntry(which, i, mean, n) = Plus(Square(Minus(x(n), mean)), Zero)
  BY DEF SquareEntry
<1>7. /\ \A n \in 0 .. len : w(n) \in Rationals
      /\ \A n \in 1 .. len : x(n) \in Rationals
      /\ Zero \in Rationals /\ One \in Rationals /\ x(0) \in Rationals
  BY <1>1, <1>5, WeightsRational, ObservationFields, ZeroOne
<1> HIDE DEF c, v, len, w, x
<1>8. /\ \A n \in 1 .. len : ones[n] = w(n) /\ sums[n] = Times(w(n), x(n))
                           /\ powers[n] = Times(w(n), Plus(Times(x(n), x(n)), Zero))
      /\ \A n \in 1 .. len : spreads[n] = Times(w(n), Plus(Times(Minus(x(n), mean), Minus(x(n), mean)), Zero))
  <2> SUFFICES ASSUME NEW n \in 1 .. len
               PROVE  /\ ones[n] = w(n) /\ sums[n] = Times(w(n), x(n))
                      /\ powers[n] = Times(w(n), Plus(Times(x(n), x(n)), Zero))
                      /\ spreads[n] = Times(w(n), Plus(Times(Minus(x(n), mean), Minus(x(n), mean)), Zero))
    OBVIOUS
  <2>1. /\ ones[n] = Times(w(n), Ones(seen)[n]) /\ sums[n] = Times(w(n), Values(seen, which, i)[n])
        /\ powers[n] = Times(w(n), Powered(seen, which, i)[n])
        /\ spreads[n] = Times(Weight(n), SquareEntry(which, i, mean, n))
    OBVIOUS
  <2> HIDE DEF ones, sums, powers, spreads
  <2>2. Times(w(n), One) = w(n)
    BY <1>1, <1>7, Units
  <2> QED
    BY <1>2, <1>5, <1>6, <2>1, <2>2, Zenon DEF Square
<1>9. ones \in Seq(Rationals) /\ Len(ones) = len /\ sums \in Seq(Rationals) /\ Len(sums) = len
      /\ powers \in Seq(Rationals) /\ Len(powers) = len /\ spreads \in Seq(Rationals) /\ Len(spreads) = len
  <2>1. \A n \in 1 .. len :
          ones[n] \in Rationals /\ sums[n] \in Rationals /\ powers[n] \in Rationals /\ spreads[n] \in Rationals
    <3> SUFFICES ASSUME NEW n \in 1 .. len
                 PROVE  ones[n] \in Rationals /\ sums[n] \in Rationals /\ powers[n] \in Rationals /\ spreads[n] \in Rationals
      OBVIOUS
    <3>1. w(n) \in Rationals /\ x(n) \in Rationals /\ Zero \in Rationals
      BY <1>1, <1>7
    <3>2. Minus(x(n), mean) \in Rationals
      BY <3>1, Closed
    <3> DEFINE z == Minus(x(n), mean)
    <3> HIDE DEF ones, sums, powers, spreads, z
    <3>3. Times(w(n), x(n)) \in Rationals /\ Times(w(n), Plus(Times(x(n), x(n)), Zero)) \in Rationals
      BY <3>1, Closed
    <3>4. Times(w(n), Plus(Times(z, z), Zero)) \in Rationals
      BY <3>1, <3>2, Closed DEF z
    <3> QED
      BY <1>8, <3>1, <3>3, <3>4, Zenon DEF z
  <2>2. ones \in [1 .. len -> Rationals] /\ sums \in [1 .. len -> Rationals]
        /\ powers \in [1 .. len -> Rationals] /\ spreads \in [1 .. len -> Rationals]
    BY <2>1
  <2> HIDE DEF ones, sums, powers, spreads
  <2> QED
    BY <1>1, <2>2, ListIs, Zenon
<1>10. /\ one = w(0) /\ sum = Times(w(0), x(0)) /\ power = Times(w(0), Plus(Times(x(0), x(0)), v))
       /\ spread = Times(w(0), Plus(Times(Minus(x(0), mean), Minus(x(0), mean)), v))
       /\ w(0) \in Rationals
  <2>1. w(0) \in Rationals
    BY <1>1, <1>7
  <2>2. Times(w(0), One) = w(0)
    BY <2>1, Units
  <2> QED
    BY <1>2, <1>5, <1>6, <2>1, <2>2, Zenon DEF Square
<1>11. one \in Rationals /\ sum \in Rationals /\ power \in Rationals
  BY <1>1, <1>7, <1>10, Closed
<1> HIDE DEF ones, sums, powers, spreads, one, sum, power, spread
<1>12. spread = Spread(mean, one, sum, power)
  <2>1. Times(w(0), Plus(Times(Minus(x(0), mean), Minus(x(0), mean)), v))
          = Spread(mean, w(0), Times(w(0), x(0)), Times(w(0), Plus(Times(x(0), x(0)), v)))
    BY <1>1, <1>7, <1>10, SpreadEntryWith
  <2> QED
    BY <1>10, <2>1, Zenon
<1>13. \A n \in 1 .. len : spreads[n] = Spread(mean, ones[n], sums[n], powers[n])
  <2> SUFFICES ASSUME NEW n \in 1 .. len PROVE spreads[n] = Spread(mean, ones[n], sums[n], powers[n])
    OBVIOUS
  <2>1. w(n) \in Rationals /\ x(n) \in Rationals /\ Zero \in Rationals
    BY <1>1, <1>7
  <2>2. Times(w(n), Plus(Times(Minus(x(n), mean), Minus(x(n), mean)), Zero))
          = Spread(mean, w(n), Times(w(n), x(n)), Times(w(n), Plus(Times(x(n), x(n)), Zero)))
    BY <2>1, SpreadEntryWith
  <2> QED
    BY <1>8, <2>2, Zenon
<1>14. SumFrom(Spread(mean, one, sum, power), spreads)
         = Spread(mean, SumFrom(one, ones), SumFrom(sum, sums), SumFrom(power, powers))
  <2>1. SpreadLists(mean, one, sum, power, len, ones, sums, powers, spreads)
    BY <1>1, <1>9, <1>11, <1>13, Zenon DEF SpreadLists
  <2>2. SpreadTotals(mean, one, sum, power, ones, sums, powers, spreads)
    BY <2>1, SpreadSums, Zenon
  <2> QED
    BY <2>2, Zenon DEF SpreadTotals
<1> QED
  BY <1>3, <1>4, <1>12, <1>14, Zenon DEF c, v

LEMMA SumsAre ==
  \A c \in Rationals, s \in Seq(Observation), which \in Estimates, i \in 1 .. Dims, v \in Rationals :
    SumOf(c, s, which, i) \in Rationals /\ SquaresOf(c, s, which, i, v) \in Rationals
<1> SUFFICES ASSUME NEW c \in Rationals, NEW s \in Seq(Observation), NEW which \in Estimates,
                    NEW i \in 1 .. Dims, NEW v \in Rationals
             PROVE  SumOf(c, s, which, i) \in Rationals /\ SquaresOf(c, s, which, i, v) \in Rationals
  OBVIOUS
<1> DEFINE zeros == [k \in 1 .. Dims |-> Zero]
           o == [theta |-> zeros, grad |-> zeros, discount |-> Zero]
<1>1. o \in Observation
  BY ZeroOne DEF Observation, Vectors
<1> HIDE DEF o
<1> QED
  BY <1>1, TotalsAre

LEMMA SpreadAndVariance ==
  ASSUME SpreadInv, NEW which \in Estimates, NEW i \in 1 .. Dims
  PROVE  /\ InitialVariance(which, i) \in Rationals
         /\ Moments(which).sum_sq_dev[i] \in Rationals
         /\ SpreadBound(Moments(which), warmup.mass_init_count, seen, which, i, InitialVariance(which, i))
<1>1. init_mass[i] \in Rationals /\ Inverted(init_mass)[i] \in Rationals
      /\ Inverted(init_mass)[i] = Over(One, init_mass[i])
  BY DEF SpreadInv, Plenty, Inverted
<1>2. CASE which = "theta"
  <2>1. Moments(which) = draw_var /\ InitialVariance(which, i) = Inverted(init_mass)[i]
    BY <1>1, <1>2 DEF Moments, InitialVariance
  <2>2. SpreadKept(draw_var, warmup.mass_init_count, seen, which, Inverted(init_mass))
    BY <1>2, Zenon DEF SpreadInv
  <2>3. draw_var.sum_sq_dev \in Vectors
        /\ SpreadBound(draw_var, warmup.mass_init_count, seen, which, i, Inverted(init_mass)[i])
    BY <2>2, Zenon DEF SpreadKept
  <2> QED
    BY <1>1, <2>1, <2>3, VectorEntries, Zenon
<1>3. CASE which = "grad"
  <2>1. Moments(which) = score_var /\ InitialVariance(which, i) = init_mass[i]
    BY <1>3 DEF Moments, InitialVariance
  <2>2. SpreadKept(score_var, warmup.mass_init_count, seen, which, init_mass)
    BY <1>3, Zenon DEF SpreadInv
  <2>3. score_var.sum_sq_dev \in Vectors
        /\ SpreadBound(score_var, warmup.mass_init_count, seen, which, i, init_mass[i])
    BY <2>2, Zenon DEF SpreadKept
  <2> QED
    BY <1>1, <2>1, <2>3, VectorEntries, Zenon
<1> QED
  BY <1>2, <1>3 DEF Estimates

\* Dividing by the same weight keeps the order.
LEMMA OverMonotone ==
  \A x, y, p \in Rationals : Less(Zero, p) /\ AtMost(x, y) => AtMost(Over(x, p), Over(y, p))
<1> SUFFICES ASSUME NEW x \in Rationals, NEW y \in Rationals, NEW p \in Rationals,
                    Less(Zero, p), AtMost(x, y)
             PROVE  AtMost(Over(x, p), Over(y, p))
  OBVIOUS
<1> DEFINE l == Over(x, p)
<1>1. p # Zero /\ l \in Rationals /\ Times(p, l) = x
  BY Positives, Closed, OverCancels
<1> HIDE DEF l
<1>2. Times(l, p) = x
  BY <1>1, TimesCommutes, Zenon
<1>3. AtMost(l, Over(y, p))
  BY <1>1, <1>2, OverBetween, Zenon
<1> QED
  BY <1>3, Zenon DEF l

LEMMA DocumentedIs ==
  ASSUME RunInv, WarmupInv, SpreadInv, NEW which \in Estimates, NEW i \in 1 .. Dims
  PROVE  DocumentedVariance(which, i)
           = Over(Minus(SquaresOf(warmup.mass_init_count, seen, which, i, InitialVariance(which, i)),
                        Times(Moments(which).mean[i], SumOf(warmup.mass_init_count, seen, which, i))),
                  Moments(which).weight)
<1> DEFINE c == warmup.mass_init_count
           m == Moments(which)
           v == InitialVariance(which, i)
           B == SumOf(c, seen, which, i)
           C == SquaresOf(c, seen, which, i, v)
           mean == m.mean[i]
<1>1. c \in Rationals /\ seen \in Seq(Observation) /\ MeanInv /\ v \in Rationals
  BY SpreadAndVariance DEF RunInv, ProgressInv, WarmupInv, Plenty
<1>2. MeanKept(m, c, seen, which)
  BY <1>1, MomentsKept
<1>3. /\ m.weight = Total(Weight) /\ mean = DocumentedMean(which, i)
  BY MeanOf
<1> DEFINE squares(z) == Total(LAMBDA n : Times(Weight(n), SquareEntry(which, i, z, n)))
<1>4. DocumentedVariance(which, i) = Over(squares(DocumentedMean(which, i)), Total(Weight))
  BY Zenon DEF DocumentedVariance, SquareEntry, Total
<1> HIDE DEF m, v
<1>5. /\ m.weight \in Rationals /\ m.weight = TotalWeight(c, seen)
      /\ m.mean[i] \in Rationals /\ Times(m.weight, m.mean[i]) = B
  BY <1>2, VectorEntries, Zenon DEF MeanKept, Plenty
<1>6. squares(mean) = Spread(mean, TotalWeight(c, seen), B, C)
  BY <1>1, <1>5, TotalSpread DEF v
<1>7. B \in Rationals /\ C \in Rationals
  BY <1>1, SumsAre, Zenon
<1> HIDE DEF B, C, c, squares
<1>8. Spread(mean, m.weight, B, C) = Minus(C, Times(mean, B))
  BY <1>5, <1>7, SpreadAtMean
<1> HIDE DEF mean
<1>9. DocumentedVariance(which, i) = Over(Spread(mean, m.weight, B, C), m.weight)
  BY <1>3, <1>4, <1>5, <1>6, Zenon
<1> QED
  BY <1>8, <1>9, Zenon DEF m, v, B, C, c, mean

LEMMA VarianceBelow ==
  ASSUME RunInv, WarmupInv, SpreadInv, NEW which \in Estimates, NEW i \in 1 .. Dims
  PROVE  AtMost(Variance(Moments(which))[i], DocumentedVariance(which, i))
<1> DEFINE c == warmup.mass_init_count
           m == Moments(which)
           v == InitialVariance(which, i)
           B == SumOf(c, seen, which, i)
           C == SquaresOf(c, seen, which, i, v)
           rest == Minus(C, Times(m.mean[i], B))
<1>1. c \in Rationals /\ seen \in Seq(Observation) /\ MeanInv /\ v \in Rationals
      /\ m.sum_sq_dev[i] \in Rationals /\ SpreadBound(m, c, seen, which, i, v)
  BY SpreadAndVariance DEF RunInv, ProgressInv, WarmupInv, Plenty
<1>2. MeanKept(m, c, seen, which)
  BY <1>1, MomentsKept
<1>3. DocumentedVariance(which, i) = Over(rest, m.weight)
  BY DocumentedIs, Zenon
<1> HIDE DEF m, v
<1>4. m.weight \in Rationals /\ Less(Zero, m.weight) /\ m.mean[i] \in Rationals
  BY <1>2, VectorEntries, Zenon DEF MeanKept, Plenty
<1>5. B \in Rationals /\ C \in Rationals
  BY <1>1, SumsAre, Zenon
<1>6. AtMost(m.sum_sq_dev[i], rest)
  BY <1>1, Zenon DEF SpreadBound
<1> HIDE DEF B, C
<1>7. rest \in Rationals
  BY <1>4, <1>5, Closed
<1>8. Variance(m)[i] = Over(m.sum_sq_dev[i], m.weight)
  <2>1. Variance(m) = VarianceOf(m)
    BY <1>4, VarianceIs, Zenon
  <2> QED
    BY <2>1 DEF VarianceOf
<1> HIDE DEF rest
<1>9. AtMost(Over(m.sum_sq_dev[i], m.weight), Over(rest, m.weight))
  BY <1>1, <1>4, <1>6, <1>7, OverMonotone, Zenon
<1> QED
  BY <1>3, <1>8, <1>9, Zenon DEF m

\* The types of the adapter's state: a thrown, refused or failed call leaves
\* the numbers it has whole, an iteration is counted with its observation, and
\* the micro steps never go below the configured minimum.
THEOREM AdaptationTypes == Spec => []TypeOK
<1>1. AdaptInv => TypeOK
  <2> SUFFICES ASSUME AdaptInv PROVE TypeOK
    OBVIOUS
  <2>1. StageInv /\ WarmupInv /\ SamplingInv /\ (Running => RunInv)
    BY Zenon DEF AdaptInv
  <2>2. iteration \in 0 .. MaxIter /\ Len(seen) = iteration
    <3>1. CASE Running
      BY <2>1, <3>1 DEF RunInv, ProgressInv
    <3>2. CASE ~Running
      <4>1. iteration = 0 /\ seen = <<>>
        BY <2>1, <3>2, Zenon DEF StageInv
      <4> QED
        BY <4>1, AdaptationAssumption
    <3> QED
      BY <3>1, <3>2
  <2>3. ASSUME Started
        PROVE  /\ MinMicroSteps >= sampling.min_micro_steps
               /\ macro_steps.total >= 2 * macro_steps.count
               /\ {adam.step, adam.m, adam.v} \subseteq Double
    <3>1. RunInv
      BY <2>3, StartedRuns
    <3>2. MacroInv /\ Follows(adam, gradients)
      BY <3>1, Zenon DEF RunInv, StepInv
    <3>3. adam.step \in {One, Inf, NaN} /\ adam.m \in Rationals \cup {NaN} /\ adam.v \in Rationals \cup {NaN}
      BY <3>2 DEF Follows, AdamStates, AdamSteps, Statistic
    <3>4. adam.step \in Double /\ adam.m \in Double /\ adam.v \in Double
      BY <3>3, DoublesFinite, ZeroOne
    <3> QED
      BY <2>1, <3>2, <3>4, MicroStepsBound DEF MacroInv
  <2>4. warmup.min_iter <= warmup.max_iter /\ sampling.min_iter <= sampling.max_iter
    BY <2>1 DEF WarmupInv, SamplingInv
  <2> QED
    BY <2>1, <2>2, <2>3, <2>4, Zenon DEF TypeOK, StageInv
<1> QED
  BY <1>1, AdaptInvHolds, PTL

\* The running means that the discounted updates produce are the weighted
\* means of all that was seen, the initial estimate among it.
THEOREM RunningMeansAreDocumented == Spec => []MeanIsDocumented
<1>1. AdaptInv => MeanIsDocumented
  <2> SUFFICES ASSUME AdaptInv, Started, NEW which \in {"theta", "grad"}
               PROVE  /\ Moments(which).weight = Total(Weight)
                      /\ \A i \in 1 .. Dims : Moments(which).mean[i] = DocumentedMean(which, i)
    BY Zenon DEF MeanIsDocumented
  <2>1. RunInv /\ WarmupInv
    BY StartedRuns
  <2>2. which \in Estimates
    BY DEF Estimates
  <2> QED
    BY <2>1, <2>2, MeanOf
<1> QED
  BY <1>1, AdaptInvHolds, PTL

\* The running variance never exceeds the documented one, and the inverse mass
\* is a positive number until an initial count of one loses it at the first
\* iteration.
THEOREM MassStaysUsable == Spec => []MassUsable
<1>1. AdaptInv => MassUsable
  <2> SUFFICES ASSUME AdaptInv, Started, TrustedMass PROVE MassUsable
    BY Zenon DEF MassUsable
  <2>1. RunInv /\ WarmupInv
    BY StartedRuns
  <2>2. ProgressInv /\ MeanInv /\ SpreadInv /\ LostInv
    BY <2>1, Zenon DEF RunInv
  <2>3. ASSUME NEW which \in {"theta", "grad"}, NEW i \in 1 .. Dims
        PROVE  AtMost(Variance(Moments(which))[i], DocumentedVariance(which, i))
    <3>1. which \in Estimates
      BY DEF Estimates
    <3> QED
      BY <2>1, <2>2, <3>1, VarianceBelow
  <2>4. AllPositive(InvMassSquared) <=> iteration = 0 \/ Less(One, warmup.mass_init_count)
    BY <2>1, <2>2, InverseMass, Zenon
  <2> QED
    BY <2>3, <2>4, Zenon DEF MassUsable
<1> QED
  BY <1>1, AdaptInvHolds, PTL

\* What lies between scaled numbers lies between the numbers once corrected.
LEMMA SidedWithin ==
  ASSUME NEW m \in Rationals, NEW p \in Rationals, Less(p, One), NEW xs,
         \A k \in DOMAIN xs : xs[k] \in Rationals, Sided(m, p, xs)
  PROVE  Over(m, Minus(One, p)) \in Rationals /\ Within(Over(m, Minus(One, p)), xs)
<1> DEFINE q == Minus(One, p)
<1>1. q \in Rationals /\ Less(Zero, q) /\ q # Zero
  BY Complement, Positives, ZeroOne
<1>2. PICK k \in DOMAIN xs : AtMost(Times(xs[k], q), m)
  BY Zenon DEF Sided, Below
<1>3. PICK l \in DOMAIN xs : AtMost(m, Times(xs[l], q))
  BY Zenon DEF Sided, Above
<1> HIDE DEF q
<1>4. xs[k] \in Rationals /\ xs[l] \in Rationals
  OBVIOUS
<1>5. AtMost(xs[k], Over(m, q))
  BY <1>1, <1>2, <1>4, OverBetween, Zenon
<1>6. AtMost(Over(m, q), xs[l])
  BY <1>1, <1>3, <1>4, OverBetween, Zenon
<1>7. Over(m, q) \in Rationals
  BY <1>1, Closed
<1> QED
  BY <1>5, <1>6, <1>7, Zenon DEF q, Within

\* An average on one side of zero comes from a sum on that side.
LEMMA SideOfZero ==
  ASSUME NEW m \in Rationals, NEW p \in Rationals, Less(p, One), NEW xs,
         \A k \in DOMAIN xs : xs[k] \in Rationals, Sided(m, p, xs)
  PROVE  /\ (\A k \in DOMAIN xs : Less(xs[k], Zero)) => Less(m, Zero)
         /\ (\A k \in DOMAIN xs : Less(Zero, xs[k])) => Less(Zero, m)
<1> DEFINE h == Over(m, Minus(One, p))
<1>1. h \in Rationals /\ Within(h, xs)
  BY SidedWithin
<1>2. (Less(h, Zero) => Less(m, Zero)) /\ (Less(Zero, h) => Less(Zero, m))
  <2> DEFINE q == Minus(One, p)
  <2>1. q \in Rationals /\ Less(Zero, q)
    BY Complement
  <2> HIDE DEF q
  <2>2. (Over(m, q)[1] > 0 <=> m[1] > 0) /\ (Over(m, q)[1] < 0 <=> m[1] < 0)
    BY <2>1, Signs, Zenon
  <2>3. h[1] = Over(m, q)[1]
    BY DEF q
  <2>4. /\ (Less(Zero, h) <=> h[1] > 0) /\ (Less(h, Zero) <=> h[1] < 0)
        /\ (Less(Zero, m) <=> m[1] > 0) /\ (Less(m, Zero) <=> m[1] < 0)
    BY <1>1, Signs, Zenon
  <2> HIDE DEF h
  <2> QED
    BY <2>2, <2>3, <2>4, Zenon
<1> HIDE DEF h
<1>3. PICK k \in DOMAIN xs : AtMost(xs[k], h)
  BY <1>1, Zenon DEF Within
<1>4. PICK l \in DOMAIN xs : AtMost(h, xs[l])
  BY <1>1, Zenon DEF Within
<1>5. xs[k] \in Rationals /\ xs[l] \in Rationals /\ Zero \in Rationals
  BY ZeroOne
<1>6. Less(xs[l], Zero) => Less(h, Zero)
  BY <1>1, <1>4, <1>5, AtMostTransitive, Zenon
<1>7. Less(Zero, xs[k]) => Less(Zero, h)
  BY <1>1, <1>3, <1>5, AtMostTransitive, Zenon
<1> QED
  BY <1>2, <1>6, <1>7, Zenon

\* Adam's corrected averages stay within what was observed, and the step moves
\* against gradients that agree; one statistic that is NaN makes the step NaN.
THEOREM StepsFollowAcceptance == Spec => []StepFollowsAcceptance
<1>1. AdaptInv => StepFollowsAcceptance
  <2> SUFFICES ASSUME AdaptInv, Started, gradients # <<>>
               PROVE  IF FiniteGradients
                        THEN /\ Within(MHat(adam), gradients)
                             /\ Within(VHat(adam), Squares(gradients))
                             /\ (\A k \in DOMAIN gradients : Less(gradients[k], Zero)) => adam.move = 1
                             /\ (\A k \in DOMAIN gradients : Less(Zero, gradients[k])) => adam.move = -1
                        ELSE IsNaN(adam.step)
    BY Zenon DEF StepFollowsAcceptance, Squares
  <2>1. RunInv /\ WarmupInv
    BY StartedRuns
  <2>2. Follows(adam, gradients)
    BY <2>1, Zenon DEF RunInv, StepInv
  <2>3. FiniteGradients <=> AllRational(gradients)
    BY <2>2, FiniteGradientsAre
  <2>4. CASE ~FiniteGradients
    BY <2>2, <2>3, <2>4, Zenon DEF Follows, IsNaN
  <2>5. CASE FiniteGradients
    <3>1. /\ adam.gradient_pow \in Rationals /\ adam.sq_gradient_pow \in Rationals
      BY <2>2 DEF Follows, AdamStates, Fractions
    <3>2. /\ Less(adam.gradient_pow, One) /\ Less(adam.sq_gradient_pow, One)
          /\ adam.m \in Rationals /\ adam.v \in Rationals
          /\ Sided(adam.m, adam.gradient_pow, gradients)
          /\ Sided(adam.v, adam.sq_gradient_pow, Squares(gradients))
          /\ Less(Zero, adam.m) => adam.move = -1
          /\ Less(adam.m, Zero) => adam.move = 1
      BY <2>2, <2>3, <2>5, Zenon DEF Follows
    <3>3. \A k \in DOMAIN gradients : gradients[k] \in Rationals
      BY <2>3, <2>5, Zenon DEF AllRational
    <3>4. \A k \in DOMAIN Squares(gradients) : Squares(gradients)[k] \in Rationals
      BY <3>3, Closed DEF Squares, Square
    <3>5. Within(MHat(adam), gradients)
      BY <3>1, <3>2, <3>3, SidedWithin DEF MHat
    <3>6. Within(VHat(adam), Squares(gradients))
      BY <3>1, <3>2, <3>4, SidedWithin DEF VHat
    <3>7. /\ (\A k \in DOMAIN gradients : Less(gradients[k], Zero)) => Less(adam.m, Zero)
          /\ (\A k \in DOMAIN gradients : Less(Zero, gradients[k])) => Less(Zero, adam.m)
      BY <3>1, <3>2, <3>3, SideOfZero
    <3> QED
      BY <2>5, <3>2, <3>5, <3>6, <3>7, Zenon
  <2> QED
    BY <2>4, <2>5
<1> QED
  BY <1>1, AdaptInvHolds, PTL

\* With arguments the setters accept, an iteration throws exactly when the
\* initial count is below one, and only what no setter checks, an initial count
\* of one or the client's density can keep the sampler from being built.
THEOREM AcceptedConfigurationsRun == Spec => []AcceptedConfigsRun
<1>1. AdaptInv => AcceptedConfigsRun
  <2> SUFFICES ASSUME AdaptInv PROVE AcceptedConfigsRun
    OBVIOUS
  <2>1. StageInv /\ FailedInv /\ (Running => RunInv)
    BY Zenon DEF AdaptInv
  <2>2. Started /\ outcome = "threw" => Less(warmup.mass_init_count, One)
    BY <2>1 DEF Started, Running, RunInv, ProgressInv
  <2>3. iteration > 0 => ~Less(warmup.mass_init_count, One)
    <3>1. CASE Running
      BY <2>1, <3>1 DEF RunInv, ProgressInv
    <3>2. CASE ~Running
      BY <2>1, <3>2 DEF StageInv
    <3> QED
      BY <3>1, <3>2
  <2>4. ASSUME stage = "failed"
        PROVE  \/ 0 \in {sampling.max_trajectory_doublings, sampling.max_step_halvings}
               \/ warmup.mass_init_count = One
               \/ wholeness.unchecked # {}
               \/ NaN \in Alphas /\ ~FiniteGradients
    <3>1. Follows(adam, gradients)
      BY <2>1, <2>4 DEF Running, RunInv, StepInv
    <3>2. FiniteGradients <=> AllRational(gradients)
      BY <3>1, FiniteGradientsAre
    <3> QED
      BY <2>1, <2>4, <3>2, Zenon DEF FailedInv
  <2> QED
    BY <2>2, <2>3, <2>4, Zenon DEF AcceptedConfigsRun
<1> QED
  BY <1>1, AdaptInvHolds, PTL

-------------------------------------------------------------------------------

(***************************************************************************)
(* A target g is <<link, turned, weight>>.  Its trees of level n are the   *)
(* intervals of 2^n linked states that build_span() can return: no half of *)
(* a half of them, nor they themselves, have turned.                       *)
(***************************************************************************)
GoodTarget(g) ==
  /\ g[1] \subseteq {i \in Line : i + 1 \in Line}
  /\ g[3] \in [Line -> Nat \ {0}]

TreeType == Line \X Line \X (Nat \ {0})

Joined(g, x, y) == x[2] \in g[1] /\ y[1] = x[2] + 1 /\ <<x[1], y[2]>> \notin g[2]

Join(x, y) == <<x[1], y[2], x[3] + y[3]>>

Grow(g, S) == {Join(p[1], p[2]) : p \in {q \in S \X S : Joined(g, q[1], q[2])}}

AreTrees(g, f) ==
  /\ f \in [Nat -> SUBSET TreeType]
  /\ f[0] = {<<i, i, g[3][i]>> : i \in Line}
  /\ \A n \in Nat : f[n + 1] = Grow(g, f[n])

Trees(g) == CHOOSE f : AreTrees(g, f)

\* The levels of trees are defined.
LEMMA TreesExist == \A g : GoodTarget(g) => AreTrees(g, Trees(g))
<1> SUFFICES ASSUME NEW g, GoodTarget(g) PROVE AreTrees(g, Trees(g))
  OBVIOUS
<1> DEFINE D == SUBSET TreeType
           grow == [S \in D |-> Grow(g, S)]
           leaves == {<<i, i, g[3][i]>> : i \in Line}
<1>1. leaves \in D
  BY DEF TreeType, GoodTarget
<1>2. \A S \in D : Grow(g, S) \in D
  <2> SUFFICES ASSUME NEW S \in D, NEW x \in S, NEW y \in S PROVE Join(x, y) \in TreeType
    BY DEF Grow
  <2>1. x \in Line \X Line \X (Nat \ {0}) /\ y \in Line \X Line \X (Nat \ {0})
    BY DEF TreeType
  <2>2. x[1] \in Line /\ y[2] \in Line /\ x[3] + y[3] \in Nat \ {0}
    BY <2>1
  <2> QED
    BY <2>2 DEF Join, TreeType
<1>3. grow \in [D -> D] /\ \A S \in D : grow[S] = Grow(g, S)
  BY <1>2
<1> HIDE DEF grow, leaves
<1>4. PICK f : IsIterate(D, leaves, grow, f)
  <2> HIDE DEF D
  <2> QED
    BY <1>1, <1>3, AllIterable, Zenon DEF Iterable
<1>5. AreTrees(g, f)
  BY <1>3, <1>4 DEF AreTrees, leaves, IsIterate
<1> QED
  BY <1>5, Zenon DEF Trees

\* The trees of level 0 are single states.
LEMMA TreeLeaf ==
  ASSUME NEW g, GoodTarget(g), NEW x
  PROVE  x \in Trees(g)[0] <=> \E i \in Line : x = <<i, i, g[3][i]>>
BY TreesExist DEF AreTrees

\* A tree of the next level is two linked trees that have not turned together.
LEMMA TreeNode ==
  ASSUME NEW g, GoodTarget(g), NEW n \in Nat, NEW x
  PROVE  x \in Trees(g)[n + 1] <=>
           \E y, z \in Trees(g)[n] : Joined(g, y, z) /\ x = Join(y, z)
<1>1. Trees(g)[n + 1] = Grow(g, Trees(g)[n])
  BY TreesExist DEF AreTrees
<1> DEFINE S == Trees(g)[n]
<1> HIDE DEF S
<1>2. x \in Grow(g, S) <=> \E y, z \in S : Joined(g, y, z) /\ x = Join(y, z)
  <2>1. ASSUME x \in Grow(g, S) PROVE \E y, z \in S : Joined(g, y, z) /\ x = Join(y, z)
    <3>1. PICK p \in S \X S : Joined(g, p[1], p[2]) /\ x = Join(p[1], p[2])
      BY <2>1 DEF Grow
    <3>2. p[1] \in S /\ p[2] \in S
      BY <3>1
    <3> QED
      BY <3>1, <3>2
  <2>2. ASSUME NEW y \in S, NEW z \in S, Joined(g, y, z), x = Join(y, z) PROVE x \in Grow(g, S)
    <3> DEFINE p == <<y, z>>
    <3>1. p \in S \X S /\ p[1] = y /\ p[2] = z
      OBVIOUS
    <3> HIDE DEF p
    <3>2. Joined(g, p[1], p[2]) /\ x = Join(p[1], p[2])
      BY <2>2, <3>1, Zenon
    <3> QED
      BY <3>1, <3>2, Zenon DEF Grow
  <2> QED
    BY <2>1, <2>2
<1> QED
  BY <1>1, <1>2 DEF S

\* What a tree is made of.
LEMMA TreeFields ==
  ASSUME NEW g, GoodTarget(g), NEW n \in Nat, NEW x \in Trees(g)[n]
  PROVE  /\ x[1] \in Line /\ x[2] \in Line /\ x[3] \in Nat \ {0}
         /\ x = <<x[1], x[2], x[3]>>
<1>1. x \in Line \X Line \X (Nat \ {0})
  BY TreesExist DEF AreTrees, TreeType
<1> QED
  BY <1>1

\* The fields of two joined trees.
LEMMA JoinFields ==
  \A x, y : Join(x, y)[1] = x[1] /\ Join(x, y)[2] = y[2] /\ Join(x, y)[3] = x[3] + y[3]
BY DEF Join

\* A tree is as wide as its level says, and inside the line.
Wide(n, bk, fw) == fw = bk + Powers[n] - 1

\* Trees of one level are equally wide.
LEMMA TreeWide ==
  \A g : GoodTarget(g) =>
    \A n \in Nat : \A x \in Trees(g)[n] : Wide(n, x[1], x[2]) /\ x[1] .. x[2] \subseteq Line
<1> SUFFICES ASSUME NEW g, GoodTarget(g)
             PROVE  \A n \in Nat : \A x \in Trees(g)[n] : Wide(n, x[1], x[2]) /\ x[1] .. x[2] \subseteq Line
  OBVIOUS
<1> DEFINE Good(n) == \A x \in Trees(g)[n] : Wide(n, x[1], x[2]) /\ x[1] .. x[2] \subseteq Line
<1>0. Line \subseteq Int
  BY OrbitAssumption
<1>1. Good(0)
  <2> SUFFICES ASSUME NEW i \in Line, NEW x, x = <<i, i, g[3][i]>>
               PROVE  Wide(0, x[1], x[2]) /\ x[1] .. x[2] \subseteq Line
    BY TreeLeaf
  <2>1. x[1] = i /\ x[2] = i /\ i \in Int /\ i = i + 1 - 1
    BY <1>0
  <2> QED
    BY <2>1, PowersExist DEF Wide, IsPowers
<1>2. ASSUME NEW n \in Nat, Good(n) PROVE Good(n + 1)
  <2> SUFFICES ASSUME NEW y \in Trees(g)[n], NEW z \in Trees(g)[n], Joined(g, y, z),
                      NEW x, x = Join(y, z)
               PROVE  Wide(n + 1, x[1], x[2]) /\ x[1] .. x[2] \subseteq Line
    BY TreeNode
  <2>1. y[1] \in Int /\ y[2] \in Int /\ z[1] \in Int /\ z[2] \in Int
    BY <1>0, TreeFields
  <2>2. /\ y[2] = y[1] + Powers[n] - 1 /\ y[1] .. y[2] \subseteq Line
        /\ z[2] = z[1] + Powers[n] - 1 /\ z[1] .. z[2] \subseteq Line
    BY <1>2 DEF Wide
  <2>3. z[1] = y[2] + 1 /\ x[1] = y[1] /\ x[2] = z[2]
    BY JoinFields DEF Joined
  <2>4. Powers[n] \in Nat /\ Powers[n + 1] = 2 * Powers[n]
    BY PowersExist DEF IsPowers
  <2> QED
    BY <2>1, <2>2, <2>3, <2>4 DEF Wide
<1>3. \A n \in Nat : Good(n)
  <2> DEFINE T == {n \in Nat : Good(n)}
  <2> HIDE DEF Good
  <2>1. 0 \in T /\ \A n \in Nat : n \in T => n + 1 \in T
    BY <1>1, <1>2
  <2>2. Nat \subseteq T
    <3> HIDE DEF T
    <3> QED
      BY <2>1, Induction
  <2> QED
    BY <2>2
<1> QED
  BY <1>3

\* Trees of one level with an end in common are the same tree.
LEMMA TreeUnique ==
  \A g : GoodTarget(g) =>
    \A n \in Nat : \A x, y \in Trees(g)[n] : x[1] = y[1] \/ x[2] = y[2] => x = y
<1> SUFFICES ASSUME NEW g, GoodTarget(g)
             PROVE  \A n \in Nat : \A x, y \in Trees(g)[n] : x[1] = y[1] \/ x[2] = y[2] => x = y
  OBVIOUS
<1> DEFINE Good(n) == \A x, y \in Trees(g)[n] : x[1] = y[1] \/ x[2] = y[2] => x = y
<1>0. Line \subseteq Int
  BY OrbitAssumption
<1>1. Good(0)
  <2> SUFFICES ASSUME NEW i \in Line, NEW j \in Line, NEW x, x = <<i, i, g[3][i]>>,
                      NEW y, y = <<j, j, g[3][j]>>, x[1] = y[1] \/ x[2] = y[2]
               PROVE  x = y
    BY TreeLeaf
  <2>1. i = j
    OBVIOUS
  <2> QED
    BY <2>1
<1>2. ASSUME NEW n \in Nat, Good(n) PROVE Good(n + 1)
  <2> SUFFICES ASSUME NEW x \in Trees(g)[n + 1], NEW y \in Trees(g)[n + 1],
                      x[1] = y[1] \/ x[2] = y[2]
               PROVE  x = y
    OBVIOUS
  <2>1. PICK p, q \in Trees(g)[n] : Joined(g, p, q) /\ x = Join(p, q)
    BY TreeNode
  <2>2. PICK r, s \in Trees(g)[n] : Joined(g, r, s) /\ y = Join(r, s)
    BY TreeNode
  <2>3. p[2] \in Int /\ r[2] \in Int
    BY <1>0, TreeFields
  <2>4. q[1] = p[2] + 1 /\ s[1] = r[2] + 1
    BY <2>1, <2>2, Zenon DEF Joined
  <2>5. x[1] = p[1] /\ x[2] = q[2] /\ y[1] = r[1] /\ y[2] = s[2]
    BY <2>1, <2>2, JoinFields, Zenon
  <2>6. CASE x[1] = y[1]
    <3>1. p = r
      BY <1>2, <2>5, <2>6, Zenon
    <3>2. q[1] = s[1]
      BY <2>4, <3>1, Zenon
    <3>3. q = s
      BY <1>2, <3>2, Zenon
    <3> QED
      BY <2>1, <2>2, <3>1, <3>3, Zenon
  <2>7. CASE x[2] = y[2]
    <3>1. q = s
      BY <1>2, <2>5, <2>7, Zenon
    <3>2. p[2] = r[2]
      BY <2>3, <2>4, <3>1
    <3>3. p = r
      BY <1>2, <3>2, Zenon
    <3> QED
      BY <2>1, <2>2, <3>1, <3>3, Zenon
  <2> QED
    BY <2>6, <2>7
<1>3. \A n \in Nat : Good(n)
  <2> DEFINE T == {n \in Nat : Good(n)}
  <2> HIDE DEF Good
  <2>1. 0 \in T /\ \A n \in Nat : n \in T => n + 1 \in T
    BY <1>1, <1>2
  <2>2. Nat \subseteq T
    <3> HIDE DEF T
    <3> QED
      BY <2>1, Induction
  <2> QED
    BY <2>2
<1> QED
  BY <1>3

(***************************************************************************)
(* Spans: what combine() makes of two that lie next to each other.         *)
(***************************************************************************)
TreeOf(s) == <<s.bk, s.fw, s.total>>

\* The tree x begins where a macro step from e in direction d leads.
Beyond(g, d, e, x) ==
  IF d = "forward" THEN e \in g[1] /\ x[1] = e + 1 ELSE e - 1 \in g[1] /\ x[2] = e - 1

Spanning(s) ==
  /\ s \in SpanType
  /\ s.bk \in Line /\ s.fw \in Line /\ s.bk <= s.fw /\ Members(s) \subseteq Line
  /\ s.total \in Nat \ {0} /\ s.den \in Nat \ {0}
  /\ \A j \in Members(s) : s.chance[j] \in Nat

\* The states of a span build_span() returns are picked by their weights.
Weighed(g, s) == \A j \in Members(s) : s.chance[j] * s.total = g[3][j] * s.den

Fresh(g, n, s) == Spanning(s) /\ TreeOf(s) \in Trees(g)[n] /\ Weighed(g, s)

\* Members and chances of the two parts of a combined span.
Parts(r, s, t, p) ==
  /\ r.total = s.total + t.total /\ r.den = s.den * t.den * p[2]
  /\ Members(r) = Members(s) \cup Members(t) /\ Members(s) \cap Members(t) = {}
  /\ \A j \in Members(t) : r.chance[j] = t.chance[j] * s.den * p[1]
  /\ \A j \in Members(s) : r.chance[j] = s.chance[j] * t.den * (p[2] - p[1])

Ends(r, d, s, t) ==
  IF d = "forward" THEN r.bk = s.bk /\ r.fw = t.fw ELSE r.bk = t.bk /\ r.fw = s.fw

IsCombined(r, d, s, t, p) ==
  /\ r.bk = Earlier(d, s, t).bk /\ r.fw = Later(d, s, t).fw
  /\ r.total = s.total + t.total /\ r.den = s.den * t.den * p[2]
  /\ r.chance = [k \in Earlier(d, s, t).bk .. Later(d, s, t).fw |->
                   IF k \in Members(t) THEN t.chance[k] * s.den * p[1]
                                       ELSE s.chance[k] * t.den * (p[2] - p[1])]
  /\ r = [bk |-> r.bk, fw |-> r.fw, total |-> r.total, chance |-> r.chance, den |-> r.den]

\* The fields of combine()'s result.
LEMMA CombineFields ==
  \A u, d, s, t : IsCombined(Combine(u, d, s, t), d, s, t, UpdateChance(u, s, t))
BY DEF Combine, IsCombined

\* Min of two numbers.
LEMMA MinOfTwo == \A a, b \in Nat : Min({a, b}) \in {a, b} /\ Min({a, b}) <= a /\ Min({a, b}) <= b
<1> SUFFICES ASSUME NEW a \in Nat, NEW b \in Nat
             PROVE  Min({a, b}) \in {a, b} /\ Min({a, b}) <= a /\ Min({a, b}) <= b
  OBVIOUS
<1>1. \E x \in {a, b} : \A y \in {a, b} : x <= y
  OBVIOUS
<1> QED
  BY <1>1 DEF Min

\* A chance to update is at most one.
LEMMA ChanceBounds ==
  \A u \in {"Barker", "Metropolis"} : \A s, t :
    s.total \in Nat \ {0} /\ t.total \in Nat \ {0} =>
      /\ UpdateChance(u, s, t)[1] \in Nat /\ UpdateChance(u, s, t)[2] \in Nat \ {0}
      /\ UpdateChance(u, s, t)[1] <= UpdateChance(u, s, t)[2]
BY MinOfTwo DEF UpdateChance

\* Combining neighbours keeps the states of both, with their chances.
LEMMA CombineParts ==
  ASSUME NEW g, GoodTarget(g), NEW u \in {"Barker", "Metropolis"}, NEW d \in Direction,
         NEW s, Spanning(s), NEW t, Spanning(t), Beyond(g, d, End(d, s), TreeOf(t))
  PROVE  /\ Spanning(Combine(u, d, s, t))
         /\ Parts(Combine(u, d, s, t), s, t, UpdateChance(u, s, t))
         /\ Ends(Combine(u, d, s, t), d, s, t)
<1> DEFINE r == Combine(u, d, s, t)
           p == UpdateChance(u, s, t)
<1>0. Line \subseteq Int
  BY OrbitAssumption
<1>1. IsCombined(r, d, s, t, p)
  BY CombineFields, Zenon
<1> USE DEF IsCombined
<1>2. p[1] \in Nat /\ p[2] \in Nat \ {0} /\ p[1] <= p[2] /\ p[2] - p[1] \in Nat
  <2>1. p[1] \in Nat /\ p[2] \in Nat \ {0} /\ p[1] <= p[2]
    BY ChanceBounds, Zenon DEF Spanning
  <2> QED
    BY <2>1
<1> HIDE DEF r, p
<1>3. /\ s.bk \in Int /\ s.fw \in Int /\ t.bk \in Int /\ t.fw \in Int
      /\ s.bk <= s.fw /\ t.bk <= t.fw
      /\ s.bk \in Line /\ s.fw \in Line /\ t.bk \in Line /\ t.fw \in Line
  BY <1>0 DEF Spanning
<1>4. TreeOf(t)[1] = t.bk /\ TreeOf(t)[2] = t.fw
  BY DEF TreeOf
<1>5. IF d = "forward" THEN t.bk = s.fw + 1 /\ r.bk = s.bk /\ r.fw = t.fw
                       ELSE t.fw = s.bk - 1 /\ r.bk = t.bk /\ r.fw = s.fw
  BY <1>1, <1>4, Zenon DEF Beyond, End, Earlier, Later
<1>6. Members(r) = Members(s) \cup Members(t) /\ Members(s) \cap Members(t) = {}
  BY <1>3, <1>5 DEF Members
<1>7. DOMAIN r.chance = Members(r) /\ \A k \in Members(r) :
        r.chance[k] = IF k \in Members(t) THEN t.chance[k] * s.den * p[1]
                                          ELSE s.chance[k] * t.den * (p[2] - p[1])
  BY <1>1 DEF Members
<1>8. /\ \A j \in Members(t) : r.chance[j] = t.chance[j] * s.den * p[1]
      /\ \A j \in Members(s) : r.chance[j] = s.chance[j] * t.den * (p[2] - p[1])
  BY <1>6, <1>7
<1>9. Parts(r, s, t, p)
  BY <1>1, <1>6, <1>8 DEF Parts
<1>10. \A a, b, c \in Nat : a * b * c \in Nat
  OBVIOUS
<1>11. \A j \in Members(r) : r.chance[j] \in Nat
  <2> SUFFICES ASSUME NEW j \in Members(r) PROVE r.chance[j] \in Nat
    OBVIOUS
  <2>1. s.den \in Nat /\ t.den \in Nat
    BY DEF Spanning
  <2>2. CASE j \in Members(t)
    <3>1. t.chance[j] \in Nat
      BY <2>2 DEF Spanning
    <3>2. t.chance[j] * s.den * p[1] \in Nat
      BY <1>2, <1>10, <2>1, <3>1, Zenon
    <3> QED
      BY <1>8, <2>2, <3>2, Zenon
  <2>3. CASE j \in Members(s)
    <3>1. s.chance[j] \in Nat
      BY <2>3 DEF Spanning
    <3>2. s.chance[j] * t.den * (p[2] - p[1]) \in Nat
      BY <1>2, <1>10, <2>1, <3>1, Zenon
    <3> QED
      BY <1>8, <2>3, <3>2, Zenon
  <2> QED
    BY <1>6, <2>2, <2>3
<1>12. r.total \in Nat \ {0} /\ r.den \in Nat \ {0}
  <2>1. \A a, b, c \in Nat \ {0} : a + b \in Nat \ {0} /\ a * b * c \in Nat \ {0}
    <3>1. \A a, b \in Nat \ {0} : a * b \in Nat \ {0} /\ a + b \in Nat \ {0}
      OBVIOUS
    <3> QED
      BY <3>1, Zenon
  <2> QED
    <3>1. s.total + t.total \in Nat \ {0} /\ s.den * t.den * p[2] \in Nat \ {0}
      BY <1>2, <2>1, Zenon DEF Spanning
    <3> QED
      BY <1>1, <3>1, Zenon
<1>13. r.bk \in Line /\ r.fw \in Line /\ r.bk <= r.fw
  BY <1>3, <1>5
<1>14. Members(r) \subseteq Line
  BY <1>6 DEF Spanning
<1>15. r \in SpanType
  <2>1. r.chance \in [r.bk .. r.fw -> Nat]
    <3>1. r.chance = [k \in Members(r) |-> r.chance[k]]
      BY <1>1, <1>7 DEF Members
    <3> QED
      BY <1>11, <3>1 DEF Members
  <2>2. r.chance \in UNION {[a .. b -> Nat] : a, b \in Line}
    <3> DEFINE F(a, b) == [a .. b -> Nat]
    <3>1. r.chance \in F(r.bk, r.fw)
      BY <2>1
    <3> HIDE DEF F
    <3>2. r.chance \in UNION {F(a, b) : a, b \in Line}
      BY <1>13, <3>1
    <3> QED
      BY <3>2 DEF F
  <2>3. r.bk \in Int /\ r.fw \in Int /\ r.total \in Nat /\ r.den \in Nat
    BY <1>0, <1>12, <1>13
  <2> DEFINE C == UNION {[a .. b -> Nat] : a, b \in Line}
  <2> HIDE DEF C
  <2>4. r \in [bk : Int, fw : Int, total : Nat, chance : C, den : Nat]
    <3>1. r = [bk |-> r.bk, fw |-> r.fw, total |-> r.total, chance |-> r.chance, den |-> r.den]
      BY <1>1
    <3>2. r.chance \in C
      BY <2>2 DEF C
    <3>3. \A a, b \in Int, e, f \in Nat, c \in C :
            [bk |-> a, fw |-> b, total |-> e, chance |-> c, den |-> f]
              \in [bk : Int, fw : Int, total : Nat, chance : C, den : Nat]
      OBVIOUS
    <3> QED
      BY <2>3, <3>1, <3>2, <3>3, Zenon
  <2> QED
    BY <2>4 DEF SpanType, C
<1>16. Ends(r, d, s, t)
  BY <1>5, Zenon DEF Ends
<1> QED
  BY <1>9, <1>11, <1>12, <1>13, <1>14, <1>15, <1>16, Zenon DEF Spanning, r, p

(***************************************************************************)
(* build_span(): it returns a tree next to where it started if there is    *)
(* one, with every state as likely as its weight says.                     *)
(***************************************************************************)
LEMMA PointFresh ==
  GoodTarget(target) => \A i \in Line :
    /\ Fresh(target, 0, Point(i)) /\ TreeOf(Point(i)) = <<i, i, weight[i]>>
    /\ Members(Point(i)) = {i} /\ Point(i).chance[i] = 1 /\ Point(i).den = 1
<1> SUFFICES ASSUME GoodTarget(target), NEW i \in Line
             PROVE  /\ Fresh(target, 0, Point(i)) /\ TreeOf(Point(i)) = <<i, i, weight[i]>>
                    /\ Members(Point(i)) = {i} /\ Point(i).chance[i] = 1 /\ Point(i).den = 1
  OBVIOUS
<1> DEFINE s == Point(i)
<1>1. target[3] = weight /\ weight[i] \in Nat \ {0} /\ i \in Int
  BY OrbitAssumption DEF GoodTarget, target
<1>2. s = [bk |-> i, fw |-> i, total |-> weight[i], chance |-> [k \in {i} |-> 1], den |-> 1]
  BY DEF Point
<1>3. /\ s.bk = i /\ s.fw = i /\ s.total = weight[i] /\ s.den = 1
      /\ s.chance[i] = 1 /\ s.chance = [k \in {i} |-> 1]
  BY <1>2
<1>4. s \in SpanType
  <2>1. {i} = i .. i
    BY <1>1
  <2>2. s.chance \in [i .. i -> Nat]
    BY <1>3, <2>1
  <2> DEFINE F(a, b) == [a .. b -> Nat]
  <2>3. s.chance \in F(i, i)
    BY <2>2
  <2> HIDE DEF F
  <2>4. s.chance \in UNION {F(a, b) : a, b \in Line}
    BY <2>3
  <2> DEFINE C == UNION {F(a, b) : a, b \in Line}
  <2> HIDE DEF C
  <2>5. s \in [bk : Int, fw : Int, total : Nat, chance : C, den : Nat]
    BY <1>1, <1>2, <1>3, <2>4 DEF C
  <2> QED
    BY <2>5 DEF SpanType, C, F
<1> HIDE DEF s
<1>5. Members(s) = {i}
  BY <1>1, <1>3 DEF Members
<1>6. TreeOf(s) = <<i, i, weight[i]>>
  BY <1>3 DEF TreeOf
<1>7. TreeOf(s) \in Trees(target)[0]
  BY <1>1, <1>6, TreeLeaf
<1>8. Weighed(target, s)
  BY <1>1, <1>3, <1>5 DEF Weighed
<1>9. Spanning(s)
  BY <1>1, <1>3, <1>4, <1>5 DEF Spanning
<1> QED
  BY <1>3, <1>5, <1>6, <1>7, <1>8, <1>9, Zenon DEF Fresh, s

\* The tree of a span combined of two trees, if it has not turned.
LEMMA CombineTree ==
  ASSUME NEW g, GoodTarget(g), NEW n \in Nat, NEW u \in {"Barker", "Metropolis"},
         NEW d \in Direction,
         NEW s, Spanning(s), TreeOf(s) \in Trees(g)[n],
         NEW t, Spanning(t), TreeOf(t) \in Trees(g)[n],
         Beyond(g, d, End(d, s), TreeOf(t))
  PROVE  /\ TreeOf(Combine(u, d, s, t)) =
              Join(TreeOf(Earlier(d, s, t)), TreeOf(Later(d, s, t)))
         /\ <<Earlier(d, s, t).bk, Later(d, s, t).fw>> \notin g[2]
              => TreeOf(Combine(u, d, s, t)) \in Trees(g)[n + 1]
<1> DEFINE r == Combine(u, d, s, t)
           x == Earlier(d, s, t)
           y == Later(d, s, t)
<1>1. r.bk = x.bk /\ r.fw = y.fw /\ r.total = s.total + t.total
  <2>1. IsCombined(r, d, s, t, UpdateChance(u, s, t))
    BY CombineFields, Zenon
  <2> QED
    BY <2>1 DEF IsCombined
<1>2. s.total \in Nat /\ t.total \in Nat /\ s.bk \in Int /\ s.fw \in Int /\ t.fw \in Int /\ t.bk \in Int
  BY OrbitAssumption DEF Spanning
<1>3. /\ TreeOf(s)[1] = s.bk /\ TreeOf(s)[2] = s.fw /\ TreeOf(s)[3] = s.total
      /\ TreeOf(t)[1] = t.bk /\ TreeOf(t)[2] = t.fw /\ TreeOf(t)[3] = t.total
  BY DEF TreeOf
<1>4. CASE d = "forward"
  <2>1. x = s /\ y = t
    BY <1>4 DEF Earlier, Later
  <2>2. s.fw \in g[1] /\ t.bk = s.fw + 1
    BY <1>3, <1>4, Zenon DEF Beyond, End
  <2>3. TreeOf(r) = Join(TreeOf(s), TreeOf(t))
    BY <1>1, <1>3, <2>1, Zenon DEF TreeOf, Join
  <2>4. <<s.bk, t.fw>> \notin g[2] => Joined(g, TreeOf(s), TreeOf(t))
    BY <1>3, <2>2, Zenon DEF Joined
  <2> HIDE DEF r, x, y
  <2>5. <<s.bk, t.fw>> \notin g[2] => TreeOf(r) \in Trees(g)[n + 1]
    BY <2>3, <2>4, TreeNode
  <2> QED
    BY <2>1, <2>3, <2>5, Zenon DEF r, x, y
<1>5. CASE d # "forward"
  <2>1. x = t /\ y = s
    BY <1>5 DEF Earlier, Later
  <2>2. s.bk - 1 \in g[1] /\ t.fw = s.bk - 1
    BY <1>3, <1>5, Zenon DEF Beyond, End
  <2>3. TreeOf(r) = Join(TreeOf(t), TreeOf(s))
    <3>1. s.total + t.total = t.total + s.total
      BY <1>2
    <3> QED
      BY <1>1, <1>3, <2>1, <3>1, Zenon DEF TreeOf, Join
  <2>4. <<t.bk, s.fw>> \notin g[2] => Joined(g, TreeOf(t), TreeOf(s))
    <3>1. t.fw \in g[1] /\ s.bk = t.fw + 1
      BY <1>2, <2>2
    <3> QED
      BY <1>3, <3>1, Zenon DEF Joined
  <2> HIDE DEF r, x, y
  <2>5. <<t.bk, s.fw>> \notin g[2] => TreeOf(r) \in Trees(g)[n + 1]
    BY <2>3, <2>4, TreeNode
  <2> QED
    BY <2>1, <2>3, <2>5, Zenon DEF r, x, y
<1> QED
  BY <1>4, <1>5

\* Barker's rule keeps the weights: with chances a of A and b of B out of
\* totals A and B, the state is chosen with a / (A + B) or b / (A + B).
KeepsNew(c, w, sd, td, st, tt) ==
  (c * sd * tt) * (st + tt) = w * (sd * td * (st + tt))

KeepsOld(c, w, sd, td, st, tt) ==
  (c * td * ((st + tt) - tt)) * (st + tt) = w * (sd * td * (st + tt))

LEMMA BarkerKeeps ==
  \A c, w, sd, td, st, tt \in Nat :
    /\ c * tt = w * td => KeepsNew(c, w, sd, td, st, tt)
    /\ c * st = w * sd => KeepsOld(c, w, sd, td, st, tt)
<1> SUFFICES ASSUME NEW c \in Nat, NEW w \in Nat, NEW sd \in Nat, NEW td \in Nat,
                    NEW st \in Nat, NEW tt \in Nat
             PROVE  /\ c * tt = w * td => KeepsNew(c, w, sd, td, st, tt)
                    /\ c * st = w * sd => KeepsOld(c, w, sd, td, st, tt)
  OBVIOUS
<1>1. (st + tt) - tt = st
  OBVIOUS
<1>2. /\ (c * sd * tt) * (st + tt) = (c * tt) * (sd * (st + tt))
      /\ w * (sd * td * (st + tt)) = (w * td) * (sd * (st + tt))
  OBVIOUS
<1>3. /\ (c * td * st) * (st + tt) = (c * st) * (td * (st + tt))
      /\ w * (sd * td * (st + tt)) = (w * sd) * (td * (st + tt))
  OBVIOUS
<1>4. c * tt = w * td => KeepsNew(c, w, sd, td, st, tt)
  BY <1>2, Zenon DEF KeepsNew
<1>5. c * st = w * sd => KeepsOld(c, w, sd, td, st, tt)
  BY <1>1, <1>3, Zenon DEF KeepsOld
<1> QED
  BY <1>4, <1>5

\* Barker's rule makes a fresh span of two.
LEMMA FreshJoin ==
  ASSUME NEW g, GoodTarget(g), NEW n \in Nat, NEW d \in Direction,
         NEW s, Fresh(g, n, s), NEW t, Fresh(g, n, t), Beyond(g, d, End(d, s), TreeOf(t)),
         <<Earlier(d, s, t).bk, Later(d, s, t).fw>> \notin g[2]
  PROVE  Fresh(g, n + 1, Combine("Barker", d, s, t))
<1> DEFINE r == Combine("Barker", d, s, t)
<1>1. Spanning(s) /\ Spanning(t) /\ TreeOf(s) \in Trees(g)[n] /\ TreeOf(t) \in Trees(g)[n]
  BY DEF Fresh
<1>2. UpdateChance("Barker", s, t) = <<t.total, s.total + t.total>>
  BY DEF UpdateChance
<1>3. Spanning(r) /\ Parts(r, s, t, <<t.total, s.total + t.total>>)
  BY <1>1, <1>2, CombineParts
<1>4. TreeOf(r) \in Trees(g)[n + 1]
  BY <1>1, CombineTree
<1> HIDE DEF r
<1>5. /\ r.total = s.total + t.total /\ r.den = s.den * t.den * (s.total + t.total)
      /\ Members(r) = Members(s) \cup Members(t)
      /\ \A j \in Members(t) : r.chance[j] = t.chance[j] * s.den * t.total
      /\ \A j \in Members(s) : r.chance[j] = s.chance[j] * t.den * ((s.total + t.total) - t.total)
  BY <1>3 DEF Parts
<1>6. s.total \in Nat /\ t.total \in Nat /\ s.den \in Nat /\ t.den \in Nat
  BY <1>1 DEF Spanning
<1>7. \A j \in Line : g[3][j] \in Nat
  BY DEF GoodTarget
<1>8. ASSUME NEW j \in Members(t) PROVE r.chance[j] * r.total = g[3][j] * r.den
  <2>1. t.chance[j] \in Nat /\ j \in Line
    BY <1>1 DEF Spanning
  <2>2. t.chance[j] * t.total = g[3][j] * t.den
    BY <1>8 DEF Fresh, Weighed
  <2>3. (t.chance[j] * s.den * t.total) * (s.total + t.total)
          = g[3][j] * (s.den * t.den * (s.total + t.total))
    <3> DEFINE c == t.chance[j]
               w == g[3][j]
               sd == s.den
               td == t.den
               st == s.total
               tt == t.total
    <3>1. /\ c \in Nat /\ w \in Nat /\ sd \in Nat /\ td \in Nat /\ st \in Nat /\ tt \in Nat
          /\ c * tt = w * td
      BY <1>6, <1>7, <2>1, <2>2
    <3> HIDE DEF c, w, sd, td, st, tt
    <3>2. KeepsNew(c, w, sd, td, st, tt)
      BY <3>1, BarkerKeeps, Zenon
    <3> QED
      BY <3>2, Zenon DEF KeepsNew, c, w, sd, td, st, tt
  <2> QED
    BY <1>5, <1>8, <2>3, Zenon
<1>9. ASSUME NEW j \in Members(s) PROVE r.chance[j] * r.total = g[3][j] * r.den
  <2>1. s.chance[j] \in Nat /\ j \in Line
    BY <1>1 DEF Spanning
  <2>2. s.chance[j] * s.total = g[3][j] * s.den
    BY <1>9 DEF Fresh, Weighed
  <2>3. (s.chance[j] * t.den * ((s.total + t.total) - t.total)) * (s.total + t.total)
          = g[3][j] * (s.den * t.den * (s.total + t.total))
    <3> DEFINE c == s.chance[j]
               w == g[3][j]
               sd == s.den
               td == t.den
               st == s.total
               tt == t.total
    <3>1. /\ c \in Nat /\ w \in Nat /\ sd \in Nat /\ td \in Nat /\ st \in Nat /\ tt \in Nat
          /\ c * st = w * sd
      BY <1>6, <1>7, <2>1, <2>2
    <3> HIDE DEF c, w, sd, td, st, tt
    <3>2. KeepsOld(c, w, sd, td, st, tt)
      BY <3>1, BarkerKeeps, Zenon
    <3> QED
      BY <3>2, Zenon DEF KeepsOld, c, w, sd, td, st, tt
  <2> QED
    BY <1>5, <1>9, <2>3, Zenon
<1>10. Weighed(g, r)
  BY <1>5, <1>8, <1>9 DEF Weighed
<1> QED
  BY <1>3, <1>4, <1>10 DEF Fresh, r

\* What build_span() returns for 2^n states past e.
Outcome(g, n, d, e, b) ==
  IF b = NoSpan THEN \A x \in Trees(g)[n] : ~Beyond(g, d, e, x)
                ELSE Fresh(g, n, b) /\ Beyond(g, d, e, TreeOf(b))

\* One state: build_leaf().
LEMMA LeafOutcome ==
  GoodTarget(target) =>
    \A d \in Direction, e \in Line : Outcome(target, 0, d, e, Leaf(d, e))
<1> SUFFICES ASSUME GoodTarget(target), NEW d \in Direction, NEW e \in Line
             PROVE  Outcome(target, 0, d, e, Leaf(d, e))
  OBVIOUS
<1> DEFINE i == IF d = "forward" THEN e + 1 ELSE e - 1
<1>1. target[1] = link /\ link \subseteq {k \in Line : k + 1 \in Line} /\ target[3] = weight /\ e \in Int
  BY OrbitAssumption DEF GoodTarget, target
<1>2. ASSUME NEW l \in Line, l = i PROVE NoSpan # Point(l)
  <2>1. Point(l) \in SpanType
    BY PointFresh DEF Fresh, Spanning
  <2> QED
    BY <2>1, OrbitAssumption
<1>3. CASE IF d = "forward" THEN e \in link ELSE e - 1 \in link
  <2>1. i \in Line /\ Leaf(d, e) = Point(i)
    BY <1>1, <1>3 DEF Leaf
  <2>2. Fresh(target, 0, Point(i)) /\ TreeOf(Point(i)) = <<i, i, weight[i]>>
    BY <2>1, PointFresh
  <2>3. Beyond(target, d, e, TreeOf(Point(i)))
    <3>1. TreeOf(Point(i))[1] = i /\ TreeOf(Point(i))[2] = i
      BY <2>2
    <3> QED
      BY <1>1, <1>3, <3>1 DEF Beyond
  <2> HIDE DEF i
  <2> QED
    BY <1>2, <2>1, <2>2, <2>3, Zenon DEF Outcome
<1>4. CASE ~IF d = "forward" THEN e \in link ELSE e - 1 \in link
  <2>1. Leaf(d, e) = NoSpan
    BY <1>4 DEF Leaf
  <2>2. \A x : ~Beyond(target, d, e, x)
    BY <1>1, <1>4 DEF Beyond
  <2> QED
    BY <2>1, <2>2, Zenon DEF Outcome
<1> QED
  BY <1>3, <1>4

\* One level up: s next to e, and t next to the end of s.
LEMMA NodeOutcome ==
  ASSUME NEW g, GoodTarget(g), NEW n \in Nat, NEW d \in Direction, NEW e \in Line,
         NEW s, Outcome(g, n, d, e, s), NEW t,
         s # NoSpan => Outcome(g, n, d, End(d, s), t)
  PROVE  Outcome(g, n + 1, d, e,
                 IF s = NoSpan THEN NoSpan
                 ELSE IF t = NoSpan \/ <<Earlier(d, s, t).bk, Later(d, s, t).fw>> \in g[2]
                   THEN NoSpan ELSE Combine("Barker", d, s, t))
<1>0. Line \subseteq Int /\ \A b : Spanning(b) => b # NoSpan
  BY OrbitAssumption DEF Spanning
\* A tree of level n + 1 next to e is a tree next to e and one next to that.
<1>1. ASSUME NEW x \in Trees(g)[n + 1], Beyond(g, d, e, x)
      PROVE  /\ s # NoSpan /\ t # NoSpan
             /\ <<Earlier(d, s, t).bk, Later(d, s, t).fw>> \notin g[2]
  <2>1. PICK y, z \in Trees(g)[n] : Joined(g, y, z) /\ x = Join(y, z)
    BY <1>1, TreeNode
  <2>2. x[1] = y[1] /\ x[2] = z[2]
    BY <2>1, JoinFields
  <2>3. y[2] \in g[1] /\ z[1] = y[2] + 1 /\ <<y[1], z[2]>> \notin g[2]
    BY <2>1, Zenon DEF Joined
  <2>4. y[2] \in Int
    BY <1>0, TreeFields
  <2>5. CASE d = "forward"
    <3>1. Beyond(g, d, e, y)
      BY <1>1, <2>2, <2>5, Zenon DEF Beyond
    <3>2. s # NoSpan
      BY <3>1, Zenon DEF Outcome
    <3>3. TreeOf(s) \in Trees(g)[n] /\ Beyond(g, d, e, TreeOf(s))
      BY <3>2, Zenon DEF Outcome, Fresh
    <3>4. TreeOf(s)[1] = y[1]
      BY <2>5, <3>1, <3>3, Zenon DEF Beyond
    <3>5. TreeOf(s) = y
      BY <3>3, <3>4, TreeUnique, Zenon
    <3>6. TreeOf(s)[1] = s.bk /\ TreeOf(s)[2] = s.fw
      BY DEF TreeOf
    <3>7. Beyond(g, d, End(d, s), z)
      BY <2>3, <2>5, <3>5, <3>6, Zenon DEF Beyond, End
    <3>8. t # NoSpan
      BY <3>2, <3>7, Zenon DEF Outcome
    <3>9. TreeOf(t) \in Trees(g)[n] /\ Beyond(g, d, End(d, s), TreeOf(t))
      BY <3>2, <3>8, Zenon DEF Outcome, Fresh
    <3>10. TreeOf(t)[1] = z[1]
      BY <2>5, <3>7, <3>9, Zenon DEF Beyond
    <3>11. TreeOf(t) = z
      BY <3>9, <3>10, TreeUnique, Zenon
    <3>12. TreeOf(t)[2] = t.fw
      BY DEF TreeOf
    <3>13. Earlier(d, s, t) = s /\ Later(d, s, t) = t
      BY <2>5 DEF Earlier, Later
    <3> QED
      BY <2>3, <3>2, <3>5, <3>6, <3>8, <3>11, <3>12, <3>13, Zenon
  <2>6. CASE d # "forward"
    <3>1. Beyond(g, d, e, z)
      BY <1>1, <2>2, <2>6, Zenon DEF Beyond
    <3>2. s # NoSpan
      BY <3>1, Zenon DEF Outcome
    <3>3. TreeOf(s) \in Trees(g)[n] /\ Beyond(g, d, e, TreeOf(s))
      BY <3>2, Zenon DEF Outcome, Fresh
    <3>4. TreeOf(s)[2] = z[2]
      BY <2>6, <3>1, <3>3, Zenon DEF Beyond
    <3>5. TreeOf(s) = z
      BY <3>3, <3>4, TreeUnique, Zenon
    <3>6. TreeOf(s)[1] = s.bk /\ TreeOf(s)[2] = s.fw
      BY DEF TreeOf
    <3>7. z[1] - 1 = y[2]
      BY <2>3, <2>4
    <3>8. Beyond(g, d, End(d, s), y)
      BY <2>3, <2>6, <3>5, <3>6, <3>7, Zenon DEF Beyond, End
    <3>9. t # NoSpan
      BY <3>2, <3>8, Zenon DEF Outcome
    <3>10. TreeOf(t) \in Trees(g)[n] /\ Beyond(g, d, End(d, s), TreeOf(t))
      BY <3>2, <3>9, Zenon DEF Outcome, Fresh
    <3>11. TreeOf(t)[2] = y[2]
      BY <2>6, <3>8, <3>10, Zenon DEF Beyond
    <3>12. TreeOf(t) = y
      BY <3>10, <3>11, TreeUnique, Zenon
    <3>13. TreeOf(t)[1] = t.bk
      BY DEF TreeOf
    <3>14. Earlier(d, s, t) = t /\ Later(d, s, t) = s
      BY <2>6 DEF Earlier, Later
    <3> QED
      BY <2>3, <3>2, <3>5, <3>6, <3>9, <3>12, <3>13, <3>14, Zenon
  <2> QED
    BY <2>5, <2>6
<1>2. CASE s # NoSpan /\ t # NoSpan /\ <<Earlier(d, s, t).bk, Later(d, s, t).fw>> \notin g[2]
  <2> DEFINE r == Combine("Barker", d, s, t)
  <2>1. Fresh(g, n, s) /\ Beyond(g, d, e, TreeOf(s))
    BY <1>2, Zenon DEF Outcome
  <2>2. Fresh(g, n, t) /\ Beyond(g, d, End(d, s), TreeOf(t))
    BY <1>2, Zenon DEF Outcome
  <2>3. Fresh(g, n + 1, r)
    BY <1>2, <2>1, <2>2, FreshJoin
  <2>4. Ends(r, d, s, t)
    BY <2>1, <2>2, CombineParts DEF Fresh
  <2> HIDE DEF r
  <2>5. Beyond(g, d, e, TreeOf(r))
    <3>1. /\ TreeOf(s)[1] = s.bk /\ TreeOf(s)[2] = s.fw
          /\ TreeOf(r)[1] = r.bk /\ TreeOf(r)[2] = r.fw
      BY DEF TreeOf
    <3> QED
      BY <2>1, <2>4, <3>1, Zenon DEF Beyond, Ends
  <2>6. r # NoSpan
    BY <1>0, <2>3 DEF Fresh
  <2> QED
    BY <1>2, <2>3, <2>5, <2>6, Zenon DEF Outcome, r
<1> QED
  BY <1>1, <1>2, Zenon DEF Outcome

\* build_span()'s recursion, for a table h of what it returned so far.
Row(h, d, m, x) ==
  IF m = 0 THEN Leaf(d, x)
  ELSE IF h[m - 1][x] = NoSpan THEN NoSpan
  ELSE IF \/ h[m - 1][End(d, h[m - 1][x])] = NoSpan
          \/ UTurn(d, h[m - 1][x], h[m - 1][End(d, h[m - 1][x])])
    THEN NoSpan
  ELSE Combine("Barker", d, h[m - 1][x], h[m - 1][End(d, h[m - 1][x])])

Solves(h, d, n) == \A m \in 0 .. n, x \in Line : h[m][x] = Row(h, d, m, x)

EndInLine(d, s) == s = NoSpan \/ End(d, s) \in Line

\* The end of a span built is in the line.
LEMMA OutcomeEnds ==
  \A g, n, d, e, s : Outcome(g, n, d, e, s) => EndInLine(d, s)
<1>1. \A s, d : Spanning(s) => End(d, s) \in Line
  BY DEF Spanning, End
<1> QED
  BY <1>1, Zenon DEF Outcome, Fresh, EndInLine

\* Every entry of such a table is an outcome.
LEMMA SolutionOutcome ==
  ASSUME GoodTarget(target), NEW d \in Direction, NEW n \in Nat, NEW h, Solves(h, d, n)
  PROVE  \A m \in 0 .. n, x \in Line : Outcome(target, m, d, x, h[m][x])
<1> DEFINE Good(m) == m <= n => \A x \in Line : Outcome(target, m, d, x, h[m][x])
<1>1. Good(0)
  <2> SUFFICES ASSUME NEW x \in Line PROVE Outcome(target, 0, d, x, h[0][x])
    OBVIOUS
  <2>1. 0 \in 0 .. n
    OBVIOUS
  <2>2. h[0][x] = Leaf(d, x)
    BY <2>1, Solves(h, d, n), Zenon DEF Solves, Row
  <2> QED
    BY <2>2, LeafOutcome, Zenon
<1>2. ASSUME NEW k \in Nat, Good(k) PROVE Good(k + 1)
  <2> SUFFICES ASSUME k + 1 <= n, NEW x \in Line
               PROVE  Outcome(target, k + 1, d, x, h[k + 1][x])
    OBVIOUS
  <2> DEFINE s == h[k][x]
             t == h[k][End(d, s)]
  <2>1. PICK m \in 0 .. n : m = k + 1 /\ m - 1 = k /\ m # 0
    OBVIOUS
  <2>2. h[m][x] = Row(h, d, m, x)
    BY Solves(h, d, n) DEF Solves
  <2>3. h[k + 1][x] = IF s = NoSpan THEN NoSpan
                          ELSE IF t = NoSpan \/ UTurn(d, s, t) THEN NoSpan
                          ELSE Combine("Barker", d, s, t)
    BY <2>1, <2>2, Zenon DEF Row
  <2>4. \A y \in Line : Outcome(target, k, d, y, h[k][y])
    BY <1>2
  <2>5. Outcome(target, k, d, x, s)
    BY <2>4
  <2>6. s # NoSpan => End(d, s) \in Line
    BY <2>5, OutcomeEnds, Zenon DEF EndInLine
  <2>7. s # NoSpan => Outcome(target, k, d, End(d, s), t)
    BY <2>4, <2>6, Zenon
  <2>8. turned = target[2]
    BY DEF target
  <2> HIDE DEF s, t
  <2>9. Outcome(target, k + 1, d, x,
                 IF s = NoSpan THEN NoSpan
                 ELSE IF t = NoSpan \/ <<Earlier(d, s, t).bk, Later(d, s, t).fw>> \in target[2]
                   THEN NoSpan ELSE Combine("Barker", d, s, t))
    BY <2>5, <2>7, NodeOutcome
  <2> QED
    BY <2>3, <2>8, <2>9, Zenon DEF UTurn
<1>3. \A k \in Nat : Good(k)
  <2> DEFINE T == {k \in Nat : Good(k)}
  <2> HIDE DEF Good
  <2>1. 0 \in T /\ \A k \in Nat : k \in T => k + 1 \in T
    BY <1>1, <1>2
  <2>2. Nat \subseteq T
    <3> HIDE DEF T
    <3> QED
      BY <2>1, Induction
  <2> QED
    BY <2>2
<1>4. \A m \in 0 .. n : m \in Nat /\ m <= n
  OBVIOUS
<1> QED
  BY <1>3, <1>4, Zenon

\* There is such a table, so build_span()'s recursion is defined.
LEMMA SolutionExists ==
  ASSUME GoodTarget(target), NEW d \in Direction
  PROVE  \A n \in Nat : \E h : h = [m \in 0 .. n |-> [x \in Line |-> h[m][x]]] /\ Solves(h, d, n)
<1> DEFINE Table(n, h) == h = [m \in 0 .. n |-> [x \in Line |-> h[m][x]]] /\ Solves(h, d, n)
           Good(n) == \E h : Table(n, h)
<1>1. Good(0)
  <2> DEFINE h == [m \in 0 .. 0 |-> [x \in Line |-> Leaf(d, x)]]
  <2>1. h = [m \in 0 .. 0 |-> [x \in Line |-> h[m][x]]]
    OBVIOUS
  <2>2. \A m \in 0 .. 0, x \in Line : h[m][x] = Leaf(d, x) /\ m = 0
    OBVIOUS
  <2> HIDE DEF h
  <2>3. Solves(h, d, 0)
    BY <2>2, Zenon DEF Solves, Row
  <2> QED
    BY <2>1, <2>3
<1>2. ASSUME NEW n \in Nat, Good(n) PROVE Good(n + 1)
  <2>1. PICK h : Solves(h, d, n)
    BY <1>2
  <2> DEFINE f == [m \in 0 .. n + 1 |-> [x \in Line |->
                     IF m <= n THEN h[m][x] ELSE Row(h, d, m, x)]]
  <2>2. f = [m \in 0 .. n + 1 |-> [x \in Line |-> f[m][x]]]
    OBVIOUS
  <2>3. \A m \in 0 .. n, x \in Line : f[m][x] = h[m][x]
    OBVIOUS
  <2>4. \A x \in Line : f[n + 1][x] = Row(h, d, n + 1, x)
    OBVIOUS
  <2> HIDE DEF f
  <2>5. \A m \in 0 .. n, x \in Line : EndInLine(d, h[m][x])
    BY <2>1, SolutionOutcome, OutcomeEnds, Zenon
  <2>6. ASSUME NEW m \in 0 .. n + 1, NEW x \in Line PROVE Row(f, d, m, x) = Row(h, d, m, x)
    <3>1. CASE m = 0
      BY <3>1 DEF Row
    <3>2. CASE m # 0
      <4>1. PICK k \in 0 .. n : k = m - 1
        BY <3>2
      <4>2. f[k][x] = h[k][x]
        BY <2>3
      <4>3. h[k][x] # NoSpan => End(d, h[k][x]) \in Line
        BY <2>5, Zenon DEF EndInLine
      <4>4. h[k][x] # NoSpan => f[k][End(d, h[k][x])] = h[k][End(d, h[k][x])]
        BY <2>3, <4>3, Zenon
      <4> QED
        BY <3>2, <4>1, <4>2, <4>4, Zenon DEF Row
    <3> QED
      BY <3>1, <3>2
  <2>7. Solves(f, d, n + 1)
    <3> SUFFICES ASSUME NEW m \in 0 .. n + 1, NEW x \in Line PROVE f[m][x] = Row(f, d, m, x)
      BY Zenon DEF Solves
    <3>1. CASE m \in 0 .. n
      <4>1. f[m][x] = h[m][x] /\ h[m][x] = Row(h, d, m, x)
        BY <2>1, <2>3, <3>1, Zenon DEF Solves
      <4> QED
        BY <2>6, <4>1, Zenon
    <3>2. CASE m = n + 1
      BY <2>4, <2>6, <3>2, Zenon
    <3> QED
      BY <3>1, <3>2
  <2> QED
    BY <2>2, <2>7
<1>3. \A n \in Nat : Good(n)
  <2> DEFINE T == {n \in Nat : Good(n)}
  <2> HIDE DEF Good
  <2>1. 0 \in T /\ \A n \in Nat : n \in T => n + 1 \in T
    BY <1>1, <1>2
  <2>2. Nat \subseteq T
    <3> HIDE DEF T
    <3> QED
      BY <2>1, Induction
  <2> QED
    BY <2>2
<1> QED
  BY <1>3

\* Hence build_span() returns a tree next to e exactly when there is one.
LEMMA BuildSpanOutcome ==
  ASSUME GoodTarget(target), NEW d \in Direction, NEW n \in Nat, NEW e \in Line
  PROVE  Outcome(target, n, d, e, BuildSpan(d, n, e))
<1> DEFINE Equation(h) == h = [m \in 0 .. n |-> [x \in Line |->
                IF m = 0 THEN Leaf(d, x)
                ELSE LET s == h[m - 1][x]
                         t == h[m - 1][End(d, s)]
                     IN  IF s = NoSpan THEN NoSpan
                         ELSE IF t = NoSpan \/ UTurn(d, s, t) THEN NoSpan
                         ELSE Combine("Barker", d, s, t)]]
           Rows == CHOOSE h : Equation(h)
<1>1. PICK h : h = [m \in 0 .. n |-> [x \in Line |-> h[m][x]]] /\ Solves(h, d, n)
  BY SolutionExists
<1>2. Equation(h)
  <2> DEFINE F == [m \in 0 .. n |-> [x \in Line |->
                IF m = 0 THEN Leaf(d, x)
                ELSE LET s == h[m - 1][x]
                         t == h[m - 1][End(d, s)]
                     IN  IF s = NoSpan THEN NoSpan
                         ELSE IF t = NoSpan \/ UTurn(d, s, t) THEN NoSpan
                         ELSE Combine("Barker", d, s, t)]]
  <2>1. ASSUME NEW m \in 0 .. n, NEW x \in Line PROVE F[m][x] = Row(h, d, m, x)
    BY Zenon DEF Row
  <2>2. F = [m \in 0 .. n |-> [x \in Line |-> F[m][x]]]
    BY Zenon
  <2>3. Equation(h) <=> h = F
    BY Zenon
  <2> HIDE DEF F, Equation
  <2>4. ASSUME NEW m \in 0 .. n, NEW x \in Line PROVE F[m][x] = h[m][x]
    BY <1>1, <2>1, Zenon DEF Solves
  <2> QED
    BY <1>1, <2>2, <2>3, <2>4
<1>3. BuildSpan(d, n, e) = Rows[n][e]
  BY Zenon DEF BuildSpan
<1>4. Equation(Rows)
  <2> HIDE DEF Equation
  <2> QED
    BY <1>2, Zenon
<1> HIDE DEF Rows
<1>5. Solves(Rows, d, n)
  <2> SUFFICES ASSUME NEW m \in 0 .. n, NEW x \in Line PROVE Rows[m][x] = Row(Rows, d, m, x)
    BY Zenon DEF Solves
  <2> DEFINE F == [i \in 0 .. n |-> [y \in Line |->
                IF i = 0 THEN Leaf(d, y)
                ELSE LET s == Rows[i - 1][y]
                         t == Rows[i - 1][End(d, s)]
                     IN  IF s = NoSpan THEN NoSpan
                         ELSE IF t = NoSpan \/ UTurn(d, s, t) THEN NoSpan
                         ELSE Combine("Barker", d, s, t)]]
  <2>1. Rows = F
    BY <1>4, Zenon
  <2>2. F[m][x] = Row(Rows, d, m, x)
    BY Zenon DEF Row
  <2> QED
    BY <2>1, <2>2, Zenon
<1>6. n \in 0 .. n
  OBVIOUS
<1> QED
  BY <1>3, <1>5, <1>6, SolutionOutcome, Zenon

(***************************************************************************)
(* Doubling: the spans that n doublings lead to from k, for the coins c.   *)
(***************************************************************************)
PointOf(g, k) ==
  [bk |-> k, fw |-> k, total |-> g[3][k], chance |-> [j \in {k} |-> 1], den |-> 1]

\* The span s grows by a fresh one of its own size, t, to r.
Doubled(g, m, d, s, t, r) ==
  /\ d \in Direction
  /\ Spanning(s) /\ TreeOf(s) \in Trees(g)[m]
  /\ Fresh(g, m, t) /\ Beyond(g, d, End(d, s), TreeOf(t))
  /\ r = Combine("Metropolis", d, s, t)

Step(g, m, d, s, r) == \E t : Doubled(g, m, d, s, t, r)

IsPath(g, n, k, c, f) ==
  f[0] = PointOf(g, k) /\ \A i \in 1 .. n : Step(g, i - 1, c[i], f[i - 1], f[i])

Reach(g, n, k, c, s) == \E f : IsPath(g, n, k, c, f) /\ f[n] = s

\* No doubling.
LEMMA ReachZero == \A g, k, c, s : Reach(g, 0, k, c, s) <=> s = PointOf(g, k)
<1> SUFFICES ASSUME NEW g, NEW k, NEW c, NEW s
             PROVE  Reach(g, 0, k, c, s) <=> s = PointOf(g, k)
  OBVIOUS
<1>1. ASSUME s = PointOf(g, k) PROVE Reach(g, 0, k, c, s)
  <2> DEFINE f == [i \in {0} |-> s]
  <2>1. f[0] = s /\ 1 .. 0 = {}
    OBVIOUS
  <2> HIDE DEF f
  <2>2. IsPath(g, 0, k, c, f)
    BY <1>1, <2>1, Zenon DEF IsPath
  <2> QED
    BY <2>1, <2>2, Zenon DEF Reach
<1> QED
  BY <1>1, Zenon DEF Reach, IsPath

\* One more doubling.
LEMMA ReachNext ==
  \A n \in Nat : \A g, k, c, s :
    Reach(g, n + 1, k, c, s) <=> \E r : Reach(g, n, k, c, r) /\ Step(g, n, c[n + 1], r, s)
<1> SUFFICES ASSUME NEW n \in Nat, NEW g, NEW k, NEW c, NEW s
             PROVE  Reach(g, n + 1, k, c, s) <=>
                      \E r : Reach(g, n, k, c, r) /\ Step(g, n, c[n + 1], r, s)
  OBVIOUS
<1>0. n + 1 \in 1 .. n + 1 /\ n + 1 - 1 = n /\ 1 .. n \subseteq 1 .. n + 1
  OBVIOUS
<1>1. ASSUME Reach(g, n + 1, k, c, s)
      PROVE  \E r : Reach(g, n, k, c, r) /\ Step(g, n, c[n + 1], r, s)
  <2>1. PICK f : IsPath(g, n + 1, k, c, f) /\ f[n + 1] = s
    BY <1>1, Zenon DEF Reach
  <2>2. IsPath(g, n, k, c, f)
    BY <1>0, <2>1, Zenon DEF IsPath
  <2>3. Reach(g, n, k, c, f[n])
    BY <2>2, Zenon DEF Reach
  <2>4. PICK i \in 1 .. n + 1 : i = n + 1 /\ i - 1 = n
    BY <1>0
  <2>5. Step(g, i - 1, c[i], f[i - 1], f[i])
    BY <2>1, Zenon DEF IsPath
  <2> QED
    BY <2>1, <2>3, <2>4, <2>5, Zenon
<1>2. ASSUME NEW r, Reach(g, n, k, c, r), Step(g, n, c[n + 1], r, s)
      PROVE  Reach(g, n + 1, k, c, s)
  <2>1. PICK f : IsPath(g, n, k, c, f) /\ f[n] = r
    BY <1>2, Zenon DEF Reach
  <2> DEFINE h == [i \in 0 .. n + 1 |-> IF i <= n THEN f[i] ELSE s]
  <2>2. h[n + 1] = s /\ h[n] = f[n] /\ h[0] = f[0]
    OBVIOUS
  <2>3. \A i \in 1 .. n : h[i] = f[i] /\ h[i - 1] = f[i - 1]
    OBVIOUS
  <2> HIDE DEF h
  <2>4. ASSUME NEW i \in 1 .. n + 1 PROVE Step(g, i - 1, c[i], h[i - 1], h[i])
    <3>1. CASE i \in 1 .. n
      <4>1. Step(g, i - 1, c[i], f[i - 1], f[i])
        BY <2>1, <3>1, Zenon DEF IsPath
      <4> QED
        BY <2>3, <3>1, <4>1, Zenon
    <3>2. CASE i \notin 1 .. n
      <4>1. i = n + 1 /\ i - 1 = n
        BY <3>2
      <4> QED
        BY <1>2, <2>1, <2>2, <4>1, Zenon
    <3> QED
      BY <3>1, <3>2
  <2>5. IsPath(g, n + 1, k, c, h)
    <3>1. h[0] = PointOf(g, k)
      BY <2>1, <2>2, Zenon DEF IsPath
    <3> QED
      BY <2>4, <3>1, Zenon DEF IsPath
  <2> QED
    BY <2>2, <2>5, Zenon DEF Reach
<1> QED
  BY <1>1, <1>2, Zenon

\* Only the first n coins matter.
LEMMA ReachCoins ==
  \A g, n, k, c, e, s :
    Reach(g, n, k, c, s) /\ (\A i \in 1 .. n : c[i] = e[i]) => Reach(g, n, k, e, s)
<1> SUFFICES ASSUME NEW g, NEW n, NEW k, NEW c, NEW e, NEW s, Reach(g, n, k, c, s),
                    \A i \in 1 .. n : c[i] = e[i]
             PROVE  Reach(g, n, k, e, s)
  OBVIOUS
<1>1. PICK f : IsPath(g, n, k, c, f) /\ f[n] = s
  BY Zenon DEF Reach
<1>2. ASSUME NEW i \in 1 .. n PROVE Step(g, i - 1, e[i], f[i - 1], f[i])
  <2>1. Step(g, i - 1, c[i], f[i - 1], f[i]) /\ c[i] = e[i]
    BY <1>1, Zenon DEF IsPath
  <2> QED
    BY <2>1, Zenon
<1>3. IsPath(g, n, k, e, f)
  BY <1>1, <1>2, Zenon DEF IsPath
<1> QED
  BY <1>1, <1>3, Zenon DEF Reach

\* The span of one state.
LEMMA PointIs == \A k : PointOf(target, k) = Point(k)
<1>1. target[3] = weight
  BY DEF target
<1> QED
  BY <1>1, Zenon DEF PointOf, Point

\* The halves of a doubled span, and the chances of its states.
LEMMA DoubledParts ==
  ASSUME GoodTarget(target), NEW m \in Nat, NEW d, NEW s, NEW t, NEW r,
         Doubled(target, m, d, s, t, r)
  PROVE  /\ Spanning(s) /\ Spanning(t) /\ Spanning(r)
         /\ Parts(r, s, t, UpdateChance("Metropolis", s, t)) /\ Ends(r, d, s, t)
         /\ Wide(m, s.bk, s.fw) /\ Wide(m, t.bk, t.fw) /\ Wide(m + 1, r.bk, r.fw)
<1>1. /\ d \in Direction /\ Spanning(s) /\ TreeOf(s) \in Trees(target)[m]
      /\ Spanning(t) /\ TreeOf(t) \in Trees(target)[m]
      /\ Beyond(target, d, End(d, s), TreeOf(t)) /\ r = Combine("Metropolis", d, s, t)
  BY Zenon DEF Doubled, Fresh
<1>2. /\ Spanning(Combine("Metropolis", d, s, t))
      /\ Parts(Combine("Metropolis", d, s, t), s, t, UpdateChance("Metropolis", s, t))
      /\ Ends(Combine("Metropolis", d, s, t), d, s, t)
  BY <1>1, CombineParts
<1>3. /\ TreeOf(s)[1] = s.bk /\ TreeOf(s)[2] = s.fw
      /\ TreeOf(t)[1] = t.bk /\ TreeOf(t)[2] = t.fw
  BY DEF TreeOf
<1>4. Wide(m, s.bk, s.fw) /\ Wide(m, t.bk, t.fw)
  BY <1>1, <1>3, TreeWide, Zenon
<1>5. Wide(m + 1, r.bk, r.fw)
  <2>1. Ends(r, d, s, t)
    BY <1>1, <1>2, Zenon
  <2>2. IF d = "forward" THEN t.bk = s.fw + 1 ELSE t.fw = s.bk - 1
    BY <1>1, <1>3, Zenon DEF Beyond, End
  <2>3. s.bk \in Int /\ s.fw \in Int /\ t.bk \in Int /\ t.fw \in Int
    BY <1>1, OrbitAssumption DEF Spanning
  <2>4. Powers[m] \in Nat /\ Powers[m + 1] = 2 * Powers[m]
    BY PowersExist DEF IsPowers
  <2> QED
    BY <1>4, <2>1, <2>2, <2>3, <2>4 DEF Ends, Wide
<1> QED
  BY <1>1, <1>2, <1>4, <1>5, Zenon

Reached(n, k, s) == Spanning(s) /\ Wide(n, s.bk, s.fw) /\ k \in Members(s)

\* A span reached by n doublings has 2^n states, its origin among them.
LEMMA ReachReached ==
  GoodTarget(target) =>
    \A n \in Nat : \A k \in Line : \A c, s : Reach(target, n, k, c, s) => Reached(n, k, s)
<1> SUFFICES ASSUME GoodTarget(target)
             PROVE  \A n \in Nat : \A k \in Line : \A c, s :
                      Reach(target, n, k, c, s) => Reached(n, k, s)
  OBVIOUS
<1> DEFINE Good(n) == \A k \in Line : \A c, s :
                        Reach(target, n, k, c, s) => Reached(n, k, s)
<1>1. Good(0)
  <2> SUFFICES ASSUME NEW k \in Line, NEW c, NEW s, Reach(target, 0, k, c, s)
               PROVE  Reached(0, k, s)
    OBVIOUS
  <2>1. s = Point(k)
    BY ReachZero, PointIs, Zenon
  <2>2. Fresh(target, 0, s) /\ Members(s) = {k} /\ TreeOf(s) = <<k, k, weight[k]>>
    BY <2>1, PointFresh, Zenon
  <2>3. TreeOf(s)[1] = s.bk /\ TreeOf(s)[2] = s.fw
    BY DEF TreeOf
  <2>4. Wide(0, s.bk, s.fw)
    <3>1. 0 \in Nat
      OBVIOUS
    <3> QED
      BY <2>2, <2>3, <3>1, TreeWide, Zenon DEF Fresh
  <2>5. k \in Members(s)
    BY <2>2
  <2> QED
    BY <2>2, <2>4, <2>5, Zenon DEF Reached, Fresh
<1>2. ASSUME NEW n \in Nat, Good(n) PROVE Good(n + 1)
  <2> SUFFICES ASSUME NEW k \in Line, NEW c, NEW r, Reach(target, n + 1, k, c, r)
               PROVE  Reached(n + 1, k, r)
    OBVIOUS
  <2>1. PICK s : Reach(target, n, k, c, s) /\ Step(target, n, c[n + 1], s, r)
    BY ReachNext, Zenon
  <2>2. PICK t : Doubled(target, n, c[n + 1], s, t, r)
    BY <2>1, Zenon DEF Step
  <2>3. k \in Members(s)
    BY <1>2, <2>1, Zenon DEF Reached
  <2>4. /\ Spanning(r) /\ Parts(r, s, t, UpdateChance("Metropolis", s, t))
        /\ Wide(n + 1, r.bk, r.fw)
    BY <2>2, DoubledParts
  <2>5. k \in Members(r)
    BY <2>3, <2>4 DEF Parts
  <2> QED
    BY <2>4, <2>5, Zenon DEF Reached
<1>3. \A n \in Nat : Good(n)
  <2> DEFINE T == {n \in Nat : Good(n)}
  <2> HIDE DEF Good
  <2>1. 0 \in T /\ \A n \in Nat : n \in T => n + 1 \in T
    BY <1>1, <1>2
  <2>2. Nat \subseteq T
    <3> HIDE DEF T
    <3> QED
      BY <2>1, Induction
  <2> QED
    BY <2>2
<1> QED
  BY <1>3

\* Spans of one level over the same states have the same halves, the same way
\* round or swapped.
SameHalves(d, s, t, e, u, v) ==
  \/ d = e /\ TreeOf(s) = TreeOf(u) /\ TreeOf(t) = TreeOf(v)
  \/ d # e /\ TreeOf(s) = TreeOf(v) /\ TreeOf(t) = TreeOf(u)

\* Such spans over the same states have the same halves.
LEMMA DoubledHalves ==
  GoodTarget(target) =>
    \A m \in Nat : \A d, s, t, r, e, u, v, w :
      /\ Doubled(target, m, d, s, t, r) /\ Doubled(target, m, e, u, v, w)
      /\ SameOrbit(r, w)
      => SameHalves(d, s, t, e, u, v)
<1> SUFFICES ASSUME GoodTarget(target), NEW m \in Nat, NEW d, NEW s, NEW t, NEW r, NEW e,
                    NEW u, NEW v, NEW w,
                    Doubled(target, m, d, s, t, r), Doubled(target, m, e, u, v, w),
                    SameOrbit(r, w)
             PROVE  SameHalves(d, s, t, e, u, v)
  OBVIOUS
<1>1. /\ d \in Direction /\ e \in Direction
      /\ TreeOf(s) \in Trees(target)[m] /\ TreeOf(t) \in Trees(target)[m]
      /\ TreeOf(u) \in Trees(target)[m] /\ TreeOf(v) \in Trees(target)[m]
  BY Zenon DEF Doubled, Fresh
<1>2. Ends(r, d, s, t) /\ Ends(w, e, u, v)
  BY DoubledParts
<1>3. r.bk = w.bk /\ r.fw = w.fw
  BY DEF SameOrbit
<1>4. \A x : TreeOf(x)[1] = x.bk /\ TreeOf(x)[2] = x.fw
  BY DEF TreeOf
<1>5. \A x, y : /\ TreeOf(x) \in Trees(target)[m] /\ TreeOf(y) \in Trees(target)[m]
                /\ (x.bk = y.bk \/ x.fw = y.fw)
                => TreeOf(x) = TreeOf(y)
  BY <1>4, TreeUnique, Zenon
<1>6. CASE d = "forward" /\ e = "forward"
  <2>1. s.bk = u.bk /\ t.fw = v.fw
    BY <1>2, <1>3, <1>6, Zenon DEF Ends
  <2> QED
    BY <1>1, <1>5, <1>6, <2>1, Zenon DEF SameHalves
<1>7. CASE d = "forward" /\ e # "forward"
  <2>1. s.bk = v.bk /\ t.fw = u.fw
    BY <1>2, <1>3, <1>7, Zenon DEF Ends
  <2> QED
    BY <1>1, <1>5, <1>7, <2>1, Zenon DEF SameHalves
<1>8. CASE d # "forward" /\ e = "forward"
  <2>1. t.bk = u.bk /\ s.fw = v.fw
    BY <1>2, <1>3, <1>8, Zenon DEF Ends
  <2> QED
    BY <1>1, <1>5, <1>8, <2>1, Zenon DEF SameHalves
<1>9. CASE d # "forward" /\ e # "forward"
  <2>1. t.bk = v.bk /\ s.fw = u.fw
    BY <1>2, <1>3, <1>9, Zenon DEF Ends
  <2>2. d = e
    BY <1>1, <1>9 DEF Direction
  <2> QED
    BY <1>1, <1>5, <1>9, <2>1, <2>2, Zenon DEF SameHalves
<1> QED
  BY <1>6, <1>7, <1>8, <1>9

(***************************************************************************)
(* Going from k to j over an orbit is as likely as from j to k, weighed    *)
(* with their densities.                                                   *)
(***************************************************************************)
\* Both states in the old half of both spans: the same chance to stay.
Stays(wk, wj, a, b, sd, rd, td, vd, p, q) ==
  wk * (a * td * p) * (rd * vd * q) = wj * (b * vd * p) * (sd * td * q)

LEMMA StayBalance ==
  \A wk, wj, a, b, sd, rd, td, vd, p, q \in Nat :
    wk * a * rd = wj * b * sd => Stays(wk, wj, a, b, sd, rd, td, vd, p, q)
<1> TAKE wk, wj, a, b, sd, rd, td, vd, p, q \in Nat
<1> HAVE wk * a * rd = wj * b * sd
<1>1. wk * (a * td * p) * (rd * vd * q) = (wk * a * rd) * (td * p * vd * q)
  OBVIOUS
<1>2. wj * (b * vd * p) * (sd * td * q) = (wj * b * sd) * (td * p * vd * q)
  OBVIOUS
<1> QED
  BY <1>1, <1>2, Zenon DEF Stays

\* One state in either half: Metropolis' rule moves min(S, T) of the weight
\* each way.
Moves(wk, wj, a, b, sd, ud, td, vd, p, S, T) ==
  wk * (a * sd * p) * (ud * vd * T) = wj * (b * ud * p) * (sd * td * S)

LEMMA MoveBalance ==
  \A wk, wj, a, b, sd, ud, td, vd, p, S, T \in Nat :
    a * T = wj * td /\ b * S = wk * vd => Moves(wk, wj, a, b, sd, ud, td, vd, p, S, T)
<1> TAKE wk, wj, a, b, sd, ud, td, vd, p, S, T \in Nat
<1> HAVE a * T = wj * td /\ b * S = wk * vd
<1>1. wk * (a * sd * p) * (ud * vd * T) = (a * T) * (wk * sd * p * ud * vd)
  OBVIOUS
<1>2. wj * (b * ud * p) * (sd * td * S) = (b * S) * (wj * ud * p * sd * td)
  OBVIOUS
<1>3. (wj * td) * (wk * sd * p * ud * vd) = (wk * vd) * (wj * ud * p * sd * td)
  OBVIOUS
<1> QED
  BY <1>1, <1>2, <1>3, Zenon DEF Moves

Balanced(g, k, s, j, r) == g[3][k] * s.chance[j] * r.den = g[3][j] * r.chance[k] * s.den

\* A tree is over certain states.
LEMMA SameMembers ==
  \A x, y : TreeOf(x) = TreeOf(y) =>
              x.bk = y.bk /\ x.fw = y.fw /\ x.total = y.total /\ Members(x) = Members(y)
BY DEF TreeOf, Members

\* One doubling keeps the balance.
LEMMA StepBalance ==
  GoodTarget(target) =>
    \A m \in Nat : \A k, j \in Line : \A d, s, t, r, e, u, v, w :
      /\ Doubled(target, m, d, s, t, r) /\ Doubled(target, m, e, u, v, w) /\ SameOrbit(r, w)
      /\ k \in Members(s) /\ j \in Members(u)
      /\ TreeOf(s) = TreeOf(u) => Balanced(target, k, s, j, u)
      => Balanced(target, k, r, j, w)
<1> SUFFICES ASSUME GoodTarget(target), NEW m \in Nat, NEW k \in Line, NEW j \in Line,
                    NEW d, NEW s, NEW t, NEW r, NEW e, NEW u, NEW v, NEW w,
                    Doubled(target, m, d, s, t, r), Doubled(target, m, e, u, v, w),
                    SameOrbit(r, w), k \in Members(s), j \in Members(u),
                    TreeOf(s) = TreeOf(u) => Balanced(target, k, s, j, u)
             PROVE  Balanced(target, k, r, j, w)
  OBVIOUS
<1> DEFINE p == UpdateChance("Metropolis", s, t)
           q == UpdateChance("Metropolis", u, v)
           lo == Min({t.total, s.total})
<1>1. Parts(r, s, t, p) /\ Parts(w, u, v, q)
  BY DoubledParts
<1>2. Spanning(s) /\ Spanning(t) /\ Spanning(u) /\ Spanning(v)
  BY Zenon DEF Doubled, Fresh
<1>3. Weighed(target, t) /\ Weighed(target, v)
  BY Zenon DEF Doubled, Fresh
<1>4. SameHalves(d, s, t, e, u, v)
  BY DoubledHalves, Zenon
<1>5. /\ s.total \in Nat /\ t.total \in Nat /\ u.total \in Nat /\ v.total \in Nat
      /\ s.den \in Nat /\ t.den \in Nat /\ u.den \in Nat /\ v.den \in Nat
      /\ target[3][k] \in Nat /\ target[3][j] \in Nat
  BY <1>2 DEF Spanning, GoodTarget
<1>6. lo \in Nat /\ s.total - lo \in Nat
  <2>1. lo \in {t.total, s.total} /\ lo <= s.total
    BY <1>5, MinOfTwo
  <2> HIDE DEF lo
  <2> QED
    BY <1>5, <2>1
<1>7. p = <<lo, s.total>>
  BY DEF UpdateChance
<1>8. q = <<Min({v.total, u.total}), u.total>>
  BY DEF UpdateChance
<1> HIDE DEF p, q, lo
<1>9. CASE TreeOf(s) = TreeOf(u) /\ TreeOf(t) = TreeOf(v)
  <2>1. s.total = u.total /\ t.total = v.total /\ Members(s) = Members(u)
    BY <1>9, SameMembers, Zenon
  <2>2. q = <<lo, s.total>>
    BY <1>8, <2>1, Zenon DEF lo
  <2>3. p[1] = lo /\ p[2] = s.total /\ q[1] = lo /\ q[2] = s.total
    BY <1>7, <2>2
  <2>4. j \in Members(s) /\ k \in Members(u)
    BY <2>1, Zenon
  <2>5. /\ r.chance[j] = s.chance[j] * t.den * (s.total - lo)
        /\ r.den = s.den * t.den * s.total
        /\ w.chance[k] = u.chance[k] * v.den * (s.total - lo)
        /\ w.den = u.den * v.den * s.total
    BY <1>1, <2>3, <2>4, Zenon DEF Parts
  <2>6. s.chance[j] \in Nat /\ u.chance[k] \in Nat
    BY <1>2, <2>4, Zenon DEF Spanning
  <2>7. target[3][k] * s.chance[j] * u.den = target[3][j] * u.chance[k] * s.den
    BY <1>9, Zenon DEF Balanced
  <2> DEFINE wk == target[3][k]
             wj == target[3][j]
             a == s.chance[j]
             b == u.chance[k]
             sd == s.den
             rd == u.den
             td == t.den
             vd == v.den
             x == s.total - lo
             y == s.total
  <2>8. /\ wk \in Nat /\ wj \in Nat /\ a \in Nat /\ b \in Nat /\ sd \in Nat /\ rd \in Nat
        /\ td \in Nat /\ vd \in Nat /\ x \in Nat /\ y \in Nat /\ wk * a * rd = wj * b * sd
    BY <1>5, <1>6, <2>6, <2>7, Zenon
  <2> HIDE DEF wk, wj, a, b, sd, rd, td, vd, x, y
  <2>9. Stays(wk, wj, a, b, sd, rd, td, vd, x, y)
    BY <2>8, StayBalance, Zenon
  <2> QED
    BY <2>5, <2>9, Zenon DEF Balanced, Stays, wk, wj, a, b, sd, rd, td, vd, x, y
<1>10. CASE TreeOf(s) = TreeOf(v) /\ TreeOf(t) = TreeOf(u)
  <2>1. /\ s.total = v.total /\ t.total = u.total
        /\ Members(s) = Members(v) /\ Members(t) = Members(u)
    BY <1>10, SameMembers, Zenon
  <2>2. {v.total, u.total} = {t.total, s.total}
    BY <2>1
  <2>3. q = <<lo, t.total>>
    BY <1>8, <2>1, <2>2, Zenon DEF lo
  <2>4. p[1] = lo /\ p[2] = s.total /\ q[1] = lo /\ q[2] = t.total
    BY <1>7, <2>3
  <2>5. j \in Members(t) /\ k \in Members(v)
    BY <2>1, Zenon
  <2>6. /\ r.chance[j] = t.chance[j] * s.den * lo
        /\ r.den = s.den * t.den * s.total
        /\ w.chance[k] = v.chance[k] * u.den * lo
        /\ w.den = u.den * v.den * t.total
    BY <1>1, <2>4, <2>5, Zenon DEF Parts
  <2>7. t.chance[j] \in Nat /\ v.chance[k] \in Nat
    BY <1>2, <2>5, Zenon DEF Spanning
  <2>8. t.chance[j] * t.total = target[3][j] * t.den
    BY <1>3, <2>5, Zenon DEF Weighed
  <2>9. v.chance[k] * s.total = target[3][k] * v.den
    BY <1>3, <2>1, <2>5, Zenon DEF Weighed
  <2> DEFINE wk == target[3][k]
             wj == target[3][j]
             a == t.chance[j]
             b == v.chance[k]
             sd == s.den
             ud == u.den
             td == t.den
             vd == v.den
             x == lo
             y == s.total
             z == t.total
  <2>10. /\ wk \in Nat /\ wj \in Nat /\ a \in Nat /\ b \in Nat /\ sd \in Nat /\ ud \in Nat
         /\ td \in Nat /\ vd \in Nat /\ x \in Nat /\ y \in Nat /\ z \in Nat
         /\ a * z = wj * td /\ b * y = wk * vd
    BY <1>5, <1>6, <2>7, <2>8, <2>9, Zenon
  <2> HIDE DEF wk, wj, a, b, sd, ud, td, vd, x, y, z
  <2>11. Moves(wk, wj, a, b, sd, ud, td, vd, x, y, z)
    BY <2>10, MoveBalance, Zenon
  <2> QED
    BY <2>6, <2>11, Zenon DEF Balanced, Moves, wk, wj, a, b, sd, ud, td, vd, x, y, z
<1> QED
  BY <1>4, <1>9, <1>10, Zenon DEF SameHalves

\* Hence any number of doublings does.
LEMMA ReachBalance ==
  GoodTarget(target) =>
    \A n \in Nat : \A k, j \in Line : \A c, e, s, r :
      Reach(target, n, k, c, s) /\ Reach(target, n, j, e, r) /\ SameOrbit(s, r)
        => Balanced(target, k, s, j, r)
<1> SUFFICES ASSUME GoodTarget(target)
             PROVE  \A n \in Nat : \A k, j \in Line : \A c, e, s, r :
                      Reach(target, n, k, c, s) /\ Reach(target, n, j, e, r) /\ SameOrbit(s, r)
                        => Balanced(target, k, s, j, r)
  OBVIOUS
<1> DEFINE Good(n) == \A k, j \in Line : \A c, e, s, r :
                        Reach(target, n, k, c, s) /\ Reach(target, n, j, e, r) /\ SameOrbit(s, r)
                          => Balanced(target, k, s, j, r)
<1>1. Good(0)
  <2> SUFFICES ASSUME NEW k \in Line, NEW j \in Line, NEW c, NEW e, NEW s, NEW r,
                      Reach(target, 0, k, c, s), Reach(target, 0, j, e, r), SameOrbit(s, r)
               PROVE  Balanced(target, k, s, j, r)
    OBVIOUS
  <2>1. s = Point(k) /\ r = Point(j)
    BY ReachZero, PointIs, Zenon
  <2>2. s.bk = k /\ r.bk = j
    BY <2>1 DEF Point
  <2>3. s = r /\ k = j
    BY <2>1, <2>2, Zenon DEF SameOrbit
  <2> QED
    BY <2>3, Zenon DEF Balanced
<1>2. ASSUME NEW n \in Nat, Good(n) PROVE Good(n + 1)
  <2> SUFFICES ASSUME NEW k \in Line, NEW j \in Line, NEW c, NEW e, NEW r, NEW w,
                      Reach(target, n + 1, k, c, r), Reach(target, n + 1, j, e, w),
                      SameOrbit(r, w)
               PROVE  Balanced(target, k, r, j, w)
    OBVIOUS
  <2>1. PICK s : Reach(target, n, k, c, s) /\ Step(target, n, c[n + 1], s, r)
    BY ReachNext, Zenon
  <2>2. PICK u : Reach(target, n, j, e, u) /\ Step(target, n, e[n + 1], u, w)
    BY ReachNext, Zenon
  <2>3. PICK t : Doubled(target, n, c[n + 1], s, t, r)
    BY <2>1, Zenon DEF Step
  <2>4. PICK v : Doubled(target, n, e[n + 1], u, v, w)
    BY <2>2, Zenon DEF Step
  <2>5. k \in Members(s) /\ j \in Members(u)
    BY <2>1, <2>2, ReachReached, Zenon DEF Reached
  <2>6. ASSUME TreeOf(s) = TreeOf(u) PROVE Balanced(target, k, s, j, u)
    <3>1. SameOrbit(s, u)
      BY <2>6, SameMembers, Zenon DEF SameOrbit
    <3> QED
      BY <1>2, <2>1, <2>2, <3>1, Zenon
  <2> QED
    BY <2>3, <2>4, <2>5, <2>6, StepBalance, Zenon
<1>3. \A n \in Nat : Good(n)
  <2> DEFINE T == {n \in Nat : Good(n)}
  <2> HIDE DEF Good
  <2>1. 0 \in T /\ \A n \in Nat : n \in T => n + 1 \in T
    BY <1>1, <1>2
  <2>2. Nat \subseteq T
    <3> HIDE DEF T
    <3> QED
      BY <2>1, Induction
  <2> QED
    BY <2>2
<1> QED
  BY <1>3

(***************************************************************************)
(* What a round of the loop does to the span, hence where the loop ends.   *)
(***************************************************************************)
Turned(g, s) == <<s.bk, s.fw>> \in g[2]

\* No span of 2^n states follows in the direction of the next coin.
Stuck(g, n, c, s) == \A x \in Trees(g)[n] : ~Beyond(g, c[n + 1], End(c[n + 1], s), x)

Grown(g, n, k, c, s, e) ==
  \/ ~e.stop /\ Reach(g, n + 1, k, c, e.span) /\ TreeOf(e.span) \in Trees(g)[n + 1]
  \/ e.stop /\ Reach(g, n + 1, k, c, e.span) /\ Turned(g, e.span)
  \/ e.stop /\ e.span = s /\ Stuck(g, n, c, s)

\* expand_in_direction() grows the span, or stops for one of two reasons.
LEMMA ExpandReach ==
  GoodTarget(target) =>
    \A n \in Nat : \A k \in Line : \A c, s :
      c[n + 1] \in Direction /\ Reach(target, n, k, c, s) /\ TreeOf(s) \in Trees(target)[n]
        => Grown(target, n, k, c, s, Expanded(c[n + 1], n + 1, s))
<1> SUFFICES ASSUME GoodTarget(target), NEW n \in Nat, NEW k \in Line, NEW c, NEW s,
                    c[n + 1] \in Direction, Reach(target, n, k, c, s),
                    TreeOf(s) \in Trees(target)[n]
             PROVE  Grown(target, n, k, c, s, Expanded(c[n + 1], n + 1, s))
  OBVIOUS
<1> DEFINE d == c[n + 1]
           t == BuildSpan(d, n, End(d, s))
           r == Combine("Metropolis", d, s, t)
           e == Expanded(d, n + 1, s)
<1>1. Spanning(s)
  BY ReachReached, Zenon DEF Reached
<1>2. End(d, s) \in Line
  BY <1>1 DEF Spanning, End
<1>3. Outcome(target, n, d, End(d, s), t)
  BY <1>2, BuildSpanOutcome
<1>4. n + 1 - 1 = n
  OBVIOUS
<1>5. e = IF t = NoSpan THEN [span |-> s, stop |-> TRUE]
                        ELSE [span |-> r, stop |-> UTurn(d, s, t)]
  <2>1. PICK i \in Nat : i = n + 1 /\ i - 1 = n
    BY <1>4
  <2>2. Expanded(d, i, s) =
          IF BuildSpan(d, i - 1, End(d, s)) = NoSpan
            THEN [span |-> s, stop |-> TRUE]
            ELSE [span |-> Combine("Metropolis", d, s, BuildSpan(d, i - 1, End(d, s))),
                  stop |-> UTurn(d, s, BuildSpan(d, i - 1, End(d, s)))]
    BY Zenon DEF Expanded
  <2> QED
    BY <2>1, <2>2, Zenon
<1> HIDE DEF e, t, r
<1>8. r.bk = Earlier(d, s, t).bk /\ r.fw = Later(d, s, t).fw
  <2>1. IsCombined(r, d, s, t, UpdateChance("Metropolis", s, t))
    BY CombineFields, Zenon DEF r
  <2> QED
    BY <2>1 DEF IsCombined
<1>6. CASE t = NoSpan
  <2>1. e = [span |-> s, stop |-> TRUE]
    BY <1>5, <1>6, Zenon
  <2>2. e.span = s /\ e.stop
    BY <2>1, Zenon
  <2>3. Stuck(target, n, c, s)
    BY <1>3, <1>6, Zenon DEF Outcome, Stuck
  <2> QED
    BY <2>2, <2>3, Zenon DEF Grown, e
<1>7. CASE t # NoSpan
  <2>1. Fresh(target, n, t) /\ Beyond(target, d, End(d, s), TreeOf(t))
    BY <1>3, <1>7, Zenon DEF Outcome
  <2>2. Doubled(target, n, d, s, t, r)
    BY <1>1, <2>1, Zenon DEF Doubled, r
  <2>3. Reach(target, n + 1, k, c, r)
    BY <2>2, ReachNext, Zenon DEF Step
  <2>4. e.span = r /\ e.stop = UTurn(d, s, t)
    <3>1. e = [span |-> r, stop |-> UTurn(d, s, t)]
      BY <1>5, <1>7, Zenon
    <3> QED
      BY <3>1, Zenon
  <2>5. UTurn(d, s, t) <=> Turned(target, r)
    <3>1. r.bk = Earlier(d, s, t).bk /\ r.fw = Later(d, s, t).fw
      BY <1>8
    <3>2. target[2] = turned
      BY DEF target
    <3> QED
      BY <3>1, <3>2, Zenon DEF UTurn, Turned
  <2>6. ~Turned(target, r) => TreeOf(r) \in Trees(target)[n + 1]
    <3>1. Spanning(t) /\ TreeOf(t) \in Trees(target)[n]
      BY <2>1, Zenon DEF Fresh
    <3>2. <<Earlier(d, s, t).bk, Later(d, s, t).fw>> \notin target[2]
            => TreeOf(Combine("Metropolis", d, s, t)) \in Trees(target)[n + 1]
      BY <1>1, <2>1, <3>1, CombineTree
    <3>3. r.bk = Earlier(d, s, t).bk /\ r.fw = Later(d, s, t).fw
      BY <1>8
    <3> QED
      BY <3>2, <3>3, Zenon DEF Turned, r
  <2> QED
    BY <2>3, <2>4, <2>5, <2>6, Zenon DEF Grown, e
<1> QED
  BY <1>6, <1>7

\* The loop has ended at level m.
Final(g, m, c, s) == (m # 0 /\ Turned(g, s)) \/ Stuck(g, m, c, s)

Ran(g, i, k, c, a) ==
  \E m \in 0 .. i :
    /\ Reach(g, m, k, c, a.span)
    /\ ~a.stop => m = i /\ TreeOf(a.span) \in Trees(g)[m]
    /\ a.stop => Final(g, m, c, a.span)

\* Replay()'s recursion, for a table h of the rounds.
Round(h, k, c, i) ==
  IF i = 0 THEN [span |-> Point(k), stop |-> FALSE]
  ELSE IF h[i - 1].stop THEN h[i - 1]
  ELSE Expanded(c[i], i, h[i - 1].span)

Rounds(h, k, c, n) == \A i \in 0 .. n : h[i] = Round(h, k, c, i)

\* There is such a table, so Replay()'s recursion is defined.
LEMMA RoundsExist ==
  \A k, c : \A n \in Nat : \E h : h = [i \in 0 .. n |-> h[i]] /\ Rounds(h, k, c, n)
<1> SUFFICES ASSUME NEW k, NEW c
             PROVE  \A n \in Nat : \E h : h = [i \in 0 .. n |-> h[i]] /\ Rounds(h, k, c, n)
  OBVIOUS
<1> DEFINE Table(n, h) == h = [i \in 0 .. n |-> h[i]] /\ Rounds(h, k, c, n)
           Good(n) == \E h : Table(n, h)
<1>1. Good(0)
  <2> DEFINE h == [i \in 0 .. 0 |-> [span |-> Point(k), stop |-> FALSE]]
  <2>1. h = [i \in 0 .. 0 |-> h[i]]
    OBVIOUS
  <2>2. \A i \in 0 .. 0 : h[i] = [span |-> Point(k), stop |-> FALSE] /\ i = 0
    OBVIOUS
  <2> HIDE DEF h
  <2>3. Rounds(h, k, c, 0)
    BY <2>2, Zenon DEF Rounds, Round
  <2> QED
    BY <2>1, <2>3
<1>2. ASSUME NEW n \in Nat, Good(n) PROVE Good(n + 1)
  <2>1. PICK h : Rounds(h, k, c, n)
    BY <1>2
  <2> DEFINE f == [i \in 0 .. n + 1 |-> IF i <= n THEN h[i] ELSE Round(h, k, c, i)]
  <2>2. f = [i \in 0 .. n + 1 |-> f[i]]
    OBVIOUS
  <2>3. \A i \in 0 .. n : f[i] = h[i]
    OBVIOUS
  <2>4. f[n + 1] = Round(h, k, c, n + 1)
    OBVIOUS
  <2> HIDE DEF f
  <2>5. ASSUME NEW i \in 0 .. n + 1 PROVE Round(f, k, c, i) = Round(h, k, c, i)
    <3>1. CASE i = 0
      BY <3>1 DEF Round
    <3>2. CASE i # 0
      <4>1. i - 1 \in 0 .. n
        BY <3>2
      <4>2. f[i - 1] = h[i - 1]
        BY <2>3, <4>1
      <4> QED
        BY <3>2, <4>2, Zenon DEF Round
    <3> QED
      BY <3>1, <3>2
  <2>6. Rounds(f, k, c, n + 1)
    <3> SUFFICES ASSUME NEW i \in 0 .. n + 1 PROVE f[i] = Round(f, k, c, i)
      BY Zenon DEF Rounds
    <3>1. CASE i \in 0 .. n
      BY <2>1, <2>3, <2>5, <3>1, Zenon DEF Rounds
    <3>2. CASE i \notin 0 .. n
      <4>1. i = n + 1
        BY <3>2
      <4> QED
        BY <2>4, <2>5, <4>1, Zenon
    <3> QED
      BY <3>1, <3>2
  <2> QED
    BY <2>2, <2>6
<1>3. \A n \in Nat : Good(n)
  <2> DEFINE T == {n \in Nat : Good(n)}
  <2> HIDE DEF Good
  <2>1. 0 \in T /\ \A n \in Nat : n \in T => n + 1 \in T
    BY <1>1, <1>2
  <2>2. Nat \subseteq T
    <3> HIDE DEF T
    <3> QED
      BY <2>1, Induction
  <2> QED
    BY <2>2
<1> QED
  BY <1>3

\* Every entry of it is a run of doublings.
LEMMA RoundsRan ==
  ASSUME GoodTarget(target), NEW k \in Line, NEW N \in Nat, NEW c,
         \A i \in 1 .. N : c[i] \in Direction, NEW h, Rounds(h, k, c, N)
  PROVE  \A i \in Nat : i <= N => Ran(target, i, k, c, h[i])
<1> DEFINE Good(i) == i <= N => Ran(target, i, k, c, h[i])
<1>1. Good(0)
  <2>1. 0 \in 0 .. N /\ 0 \in 0 .. 0
    OBVIOUS
  <2>2. h[0] = [span |-> Point(k), stop |-> FALSE]
    BY <2>1, Rounds(h, k, c, N), Zenon DEF Rounds, Round
  <2>3. h[0].span = Point(k) /\ ~h[0].stop
    BY <2>2
  <2>4. TreeOf(h[0].span) \in Trees(target)[0]
    BY <2>3, PointFresh, Zenon DEF Fresh
  <2>5. Reach(target, 0, k, c, h[0].span)
    BY <2>3, ReachZero, PointIs, Zenon
  <2> QED
    BY <2>1, <2>3, <2>4, <2>5, Zenon DEF Ran
<1>2. ASSUME NEW n \in Nat, Good(n) PROVE Good(n + 1)
  <2> SUFFICES ASSUME n + 1 <= N PROVE Ran(target, n + 1, k, c, h[n + 1])
    OBVIOUS
  <2>1. Ran(target, n, k, c, h[n])
    BY <1>2
  <2>2. n + 1 \in 0 .. N /\ n + 1 \in 1 .. N /\ n + 1 # 0 /\ n + 1 - 1 = n /\ n + 1 \in 0 .. n + 1
    OBVIOUS
  <2>3. h[n + 1] = IF h[n].stop THEN h[n] ELSE Expanded(c[n + 1], n + 1, h[n].span)
    <3>1. h[n + 1] = Round(h, k, c, n + 1)
      BY <2>2, Zenon DEF Rounds
    <3>2. PICK i \in 0 .. N : i = n + 1 /\ i - 1 = n /\ i # 0
      BY <2>2
    <3>3. Round(h, k, c, i) = IF h[i - 1].stop THEN h[i - 1] ELSE Expanded(c[i], i, h[i - 1].span)
      BY <3>2, Zenon DEF Round
    <3> QED
      BY <3>1, <3>2, <3>3, Zenon
  <2>4. PICK m \in 0 .. n :
          /\ Reach(target, m, k, c, h[n].span)
          /\ ~h[n].stop => m = n /\ TreeOf(h[n].span) \in Trees(target)[m]
          /\ h[n].stop => Final(target, m, c, h[n].span)
    BY <2>1, Zenon DEF Ran
  <2>5. CASE h[n].stop
    <3>1. h[n + 1] = h[n] /\ m \in 0 .. n + 1
      BY <2>3, <2>5
    <3> QED
      BY <2>4, <2>5, <3>1, Zenon DEF Ran
  <2>6. CASE ~h[n].stop
    <3> DEFINE e == h[n + 1]
    <3>1. Reach(target, n, k, c, h[n].span) /\ TreeOf(h[n].span) \in Trees(target)[n]
      BY <2>4, <2>6, Zenon
    <3>2. e = Expanded(c[n + 1], n + 1, h[n].span) /\ c[n + 1] \in Direction
      BY <2>2, <2>3, <2>6, Zenon
    <3>3. Grown(target, n, k, c, h[n].span, e)
      BY <3>1, <3>2, ExpandReach, Zenon
    <3> HIDE DEF e
    <3>4. n \in 0 .. n + 1
      OBVIOUS
    <3>5. CASE ~e.stop /\ Reach(target, n + 1, k, c, e.span)
               /\ TreeOf(e.span) \in Trees(target)[n + 1]
      BY <2>2, <3>5, Zenon DEF Ran, e
    <3>6. CASE e.stop /\ Reach(target, n + 1, k, c, e.span) /\ Turned(target, e.span)
      BY <2>2, <3>6, Zenon DEF Ran, Final, e
    <3>7. CASE e.stop /\ e.span = h[n].span /\ Stuck(target, n, c, h[n].span)
      BY <3>1, <3>4, <3>7, Zenon DEF Ran, Final, e
    <3> QED
      BY <3>3, <3>5, <3>6, <3>7, Zenon DEF Grown
  <2> QED
    BY <2>5, <2>6
<1>3. \A n \in Nat : Good(n)
  <2> DEFINE T == {n \in Nat : Good(n)}
  <2> HIDE DEF Good
  <2>1. 0 \in T /\ \A n \in Nat : n \in T => n + 1 \in T
    BY <1>1, <1>2
  <2>2. Nat \subseteq T
    <3> HIDE DEF T
    <3> QED
      BY <2>1, Induction
  <2> QED
    BY <2>2
<1> QED
  BY <1>3

\* A replay is a run of doublings that ends where it has to.
Replayed(g, n, k, c, s) ==
  Reach(g, n, k, c, s) /\ (n = MaxDepth \/ Final(g, n, c, s))

\* Every replay is one.
LEMMA ReplayReach ==
  GoodTarget(target) =>
    \A k \in Line : \A c \in Coins :
      \E n \in 0 .. MaxDepth : Replayed(target, n, k, c, Replay(k, c))
<1> SUFFICES ASSUME GoodTarget(target), NEW k \in Line, NEW c \in Coins
             PROVE  \E n \in 0 .. MaxDepth : Replayed(target, n, k, c, Replay(k, c))
  OBVIOUS
<1> DEFINE Equation(h) == h = [n \in 0 .. MaxDepth |->
             IF n = 0 THEN [span |-> Point(k), stop |-> FALSE]
             ELSE IF h[n - 1].stop THEN h[n - 1]
             ELSE Expanded(c[n], n, h[n - 1].span)]
           After == CHOOSE h : Equation(h)
<1>0. MaxDepth \in Nat
  BY OrbitAssumption
<1>1. PICK h : h = [i \in 0 .. MaxDepth |-> h[i]] /\ Rounds(h, k, c, MaxDepth)
  BY <1>0, RoundsExist, Zenon
<1>2. Equation(h)
  <2> DEFINE F == [n \in 0 .. MaxDepth |->
             IF n = 0 THEN [span |-> Point(k), stop |-> FALSE]
             ELSE IF h[n - 1].stop THEN h[n - 1]
             ELSE Expanded(c[n], n, h[n - 1].span)]
  <2>1. \A i \in 0 .. MaxDepth : F[i] = Round(h, k, c, i)
    BY Zenon DEF Round
  <2>2. F = [i \in 0 .. MaxDepth |-> F[i]]
    BY Zenon
  <2>3. Equation(h) <=> h = F
    BY Zenon
  <2> HIDE DEF F, Equation
  <2>4. \A i \in 0 .. MaxDepth : F[i] = h[i]
    BY <1>1, <2>1, Zenon DEF Rounds
  <2> QED
    BY <1>1, <2>2, <2>3, <2>4
<1>3. Replay(k, c) = After[MaxDepth].span
  BY Zenon DEF Replay
<1>4. Equation(After)
  <2> HIDE DEF Equation
  <2> QED
    BY <1>2, Zenon
<1> HIDE DEF After
<1>5. Rounds(After, k, c, MaxDepth)
  BY <1>4, Zenon DEF Rounds, Round
<1>6. \A i \in 1 .. MaxDepth : c[i] \in Direction
  BY DEF Coins
<1>7. \A i \in Nat : i <= MaxDepth => Ran(target, i, k, c, After[i])
  <2> HIDE DEF Equation
  <2> QED
    BY <1>0, <1>5, <1>6, RoundsRan
<1>8. Ran(target, MaxDepth, k, c, After[MaxDepth])
  <2>1. MaxDepth <= MaxDepth
    BY <1>0
  <2> QED
    BY <1>0, <1>7, <2>1, Zenon
<1>9. PICK m \in 0 .. MaxDepth :
        /\ Reach(target, m, k, c, After[MaxDepth].span)
        /\ ~After[MaxDepth].stop => m = MaxDepth
        /\ After[MaxDepth].stop => Final(target, m, c, After[MaxDepth].span)
  BY <1>8, Zenon DEF Ran
<1> QED
  BY <1>3, <1>9, Zenon DEF Replayed

(***************************************************************************)
(* The span is what some coins lead to from the initial point, and while   *)
(* the loop runs it is a tree of as many levels as there were doublings.   *)
(***************************************************************************)
Going(g, n, k, c, s, d, p) ==
  /\ Reach(g, n, k, c, s) /\ n <= MaxDepth
  /\ p = "doubling" => n + 1 = d /\ TreeOf(s) \in Trees(g)[n]

OrbitInv ==
  /\ GoodTarget(target) /\ start \in Line
  /\ \E n \in Nat : \E c : Going(target, n, start, c, span, depth, pc)

\* It is an invariant of the transition.
LEMMA OrbitInvHolds == OrbitSpec => []OrbitInv
<1>0. MaxDepth \in Nat
  BY OrbitAssumption
<1>1. OrbitInit => OrbitInv
  <2> SUFFICES ASSUME OrbitInit PROVE OrbitInv
    OBVIOUS
  <2>1. GoodTarget(target) /\ start \in Line
    BY OrbitAssumption DEF OrbitInit, GoodTarget, target
  <2>2. span = Point(start) /\ depth = 1
    BY DEF OrbitInit
  <2>3. TreeOf(span) \in Trees(target)[0]
    BY <2>1, <2>2, PointFresh, Zenon DEF Fresh
  <2>4. Reach(target, 0, start, <<>>, span)
    BY <2>2, ReachZero, PointIs, Zenon
  <2>5. 0 \in Nat /\ 0 + 1 = 1 /\ 0 <= MaxDepth
    BY <1>0
  <2>6. Going(target, 0, start, <<>>, span, depth, pc)
    BY <2>2, <2>3, <2>4, <2>5, Zenon DEF Going
  <2> QED
    BY <2>1, <2>5, <2>6, Zenon DEF OrbitInv
<1>2. OrbitInv /\ [OrbitNext]_orbitVars => OrbitInv'
  <2> SUFFICES ASSUME OrbitInv, [OrbitNext]_orbitVars PROVE OrbitInv'
    OBVIOUS
  <2>1. PICK n \in Nat : \E c : Going(target, n, start, c, span, depth, pc)
    BY Zenon DEF OrbitInv
  <2>2. PICK c : Going(target, n, start, c, span, depth, pc)
    BY <2>1, Zenon
  <2>3. GoodTarget(target) /\ start \in Line
    BY Zenon DEF OrbitInv
  <2>4. target' = target /\ start' = start
    BY DEF OrbitNext, Expand, ExpandIn, LongEnough, orbitVars, target
  <2>5. ASSUME NEW m \in Nat, NEW e, Going(target, m, start, e, span', depth', pc')
        PROVE  OrbitInv'
    <3>1. GoodTarget(target)'
      BY <2>3, <2>4, Zenon DEF GoodTarget
    <3>2. Going(target', m, start', e, span', depth', pc')
      BY <2>4, <2>5, Zenon
    <3> QED
      BY <2>3, <2>4, <3>1, <3>2, Zenon DEF OrbitInv
  <2>6. CASE Expand
    <3>1. PICK d \in Direction :
            /\ span' = Expanded(d, depth, span).span
            /\ pc' = IF Expanded(d, depth, span).stop THEN "done" ELSE "doubling"
            /\ depth' = IF Expanded(d, depth, span).stop THEN depth ELSE depth + 1
      BY <2>6, Zenon DEF Expand, ExpandIn
    <3>2. pc = "doubling" /\ depth <= MaxDepth
      BY <2>6, Zenon DEF Expand, ExpandIn
    <3>3. /\ Reach(target, n, start, c, span) /\ n + 1 = depth
          /\ TreeOf(span) \in Trees(target)[n] /\ n + 1 <= MaxDepth
      BY <2>2, <3>2, Zenon DEF Going
    <3> DEFINE h == [i \in 1 .. n + 1 |-> IF i <= n THEN c[i] ELSE d]
               e == Expanded(d, depth, span)
    <3>4. h[n + 1] = d /\ \A i \in 1 .. n : c[i] = h[i]
      OBVIOUS
    <3> HIDE DEF h
    <3>5. Reach(target, n, start, h, span)
      BY <3>3, <3>4, ReachCoins, Zenon
    <3>6. Grown(target, n, start, h, span, Expanded(h[n + 1], n + 1, span))
      BY <2>3, <3>3, <3>4, <3>5, ExpandReach, Zenon
    <3>7. Grown(target, n, start, h, span, e)
      BY <3>3, <3>4, <3>6, Zenon
    <3> HIDE DEF e
    <3>8. CASE ~e.stop /\ Reach(target, n + 1, start, h, e.span)
               /\ TreeOf(e.span) \in Trees(target)[n + 1]
      <4>1. n + 1 \in Nat /\ n + 1 + 1 = depth + 1
        BY <3>3
      <4>2. Going(target, n + 1, start, h, span', depth', pc')
        BY <3>1, <3>3, <3>8, <4>1, Zenon DEF Going, e
      <4> QED
        BY <2>5, <4>1, <4>2
    <3>9. CASE e.stop /\ Reach(target, n + 1, start, h, e.span)
      <4>1. n + 1 \in Nat /\ "done" # "doubling"
        OBVIOUS
      <4>2. Going(target, n + 1, start, h, span', depth', pc')
        BY <3>1, <3>3, <3>9, <4>1, Zenon DEF Going, e
      <4> QED
        BY <2>5, <4>1, <4>2
    <3>10. CASE e.stop /\ e.span = span
      <4>1. "done" # "doubling" /\ n <= MaxDepth
        BY <1>0, <3>3
      <4>2. Going(target, n, start, h, span', depth', pc')
        BY <3>1, <3>5, <3>10, <4>1, Zenon DEF Going, e
      <4> QED
        BY <2>5, <4>2
    <3> QED
      BY <3>7, <3>8, <3>9, <3>10, Zenon DEF Grown
  <2>7. CASE LongEnough \/ UNCHANGED orbitVars
    <3>1. span' = span /\ depth' = depth /\ (pc' = "doubling" => pc = "doubling")
      BY <2>7 DEF LongEnough, orbitVars
    <3>2. Going(target, n, start, c, span', depth', pc')
      BY <2>2, <3>1, Zenon DEF Going
    <3> QED
      BY <2>5, <3>2
  <2> QED
    BY <2>6, <2>7 DEF OrbitNext
<1> QED
  BY <1>1, <1>2, PTL DEF OrbitSpec

\* Two spans over the same states have the same level.
LEMMA SameLevel ==
  \A m, n \in Nat : \A j, k, s, r :
    Reached(m, j, s) /\ Reached(n, k, r) /\ SameOrbit(s, r) => m = n
<1> SUFFICES ASSUME NEW m \in Nat, NEW n \in Nat, NEW j, NEW k, NEW s, NEW r,
                    Reached(m, j, s), Reached(n, k, r), SameOrbit(s, r)
             PROVE  m = n
  OBVIOUS
<1>1. s.fw = s.bk + Powers[m] - 1 /\ r.fw = r.bk + Powers[n] - 1
  BY Zenon DEF Reached, Wide
<1>2. s.bk = r.bk /\ s.fw = r.fw /\ s.bk \in Int
  BY OrbitAssumption DEF Reached, Spanning, SameOrbit
<1>3. Powers[m] \in Nat /\ Powers[n] \in Nat
  BY PowersExist DEF IsPowers
<1>4. Powers[m] = Powers[n]
  BY <1>1, <1>2, <1>3
<1> QED
  BY <1>4, PowersApart

\* What a member's replay over this orbit is.
LEMMA ReplayedHere ==
  OrbitInv => \A n \in Nat : \A c : Going(target, n, start, c, span, depth, pc) =>
    \A k \in Members(span) : \A b \in ThisOrbit(k) :
      k \in Line /\ Replayed(target, n, k, b, Replay(k, b)) /\ SameOrbit(span, Replay(k, b))
<1> SUFFICES ASSUME OrbitInv, NEW n \in Nat, NEW c,
                    Going(target, n, start, c, span, depth, pc),
                    NEW k \in Members(span), NEW b \in ThisOrbit(k)
             PROVE  /\ k \in Line /\ Replayed(target, n, k, b, Replay(k, b))
                    /\ SameOrbit(span, Replay(k, b))
  OBVIOUS
<1> DEFINE s == Replay(k, b)
<1>1. GoodTarget(target) /\ start \in Line
  BY Zenon DEF OrbitInv
<1>2. Reached(n, start, span)
  BY <1>1, ReachReached, Zenon DEF Going
<1>3. k \in Line
  BY <1>2 DEF Reached, Spanning
<1>4. b \in Coins /\ SameOrbit(s, span)
  BY DEF ThisOrbit
<1>5. PICK m \in 0 .. MaxDepth : Replayed(target, m, k, b, s)
  BY <1>1, <1>3, <1>4, ReplayReach, Zenon
<1> HIDE DEF s
<1>6. m \in Nat
  OBVIOUS
<1>7. Reached(m, k, s)
  BY <1>1, <1>3, <1>5, <1>6, ReachReached, Zenon DEF Replayed
<1>8. SameOrbit(span, s)
  BY <1>4, Zenon DEF SameOrbit
<1>9. n = m
  BY <1>2, <1>6, <1>7, <1>8, SameLevel, Zenon
<1> QED
  BY <1>3, <1>5, <1>8, <1>9, Zenon DEF s

\* However many doublings are made and however they end, moving from the initial
\* state to another of its orbit is as likely, weighed with the density, as
\* coming back, for any coins that lead the other state to the same orbit.
THEOREM TransitionsBalance == OrbitSpec => []DetailedBalance
<1>1. OrbitInv => DetailedBalance
  <2> SUFFICES ASSUME OrbitInv, NEW k \in Members(span), NEW b \in ThisOrbit(k)
               PROVE  weight[start] * span.chance[k] * Replay(k, b).den
                        = weight[k] * Replay(k, b).chance[start] * span.den
    BY Zenon DEF DetailedBalance
  <2>1. PICK n \in Nat : \E c : Going(target, n, start, c, span, depth, pc)
    BY Zenon DEF OrbitInv
  <2>2. PICK c : Going(target, n, start, c, span, depth, pc)
    BY <2>1, Zenon
  <2>3. /\ k \in Line /\ Replayed(target, n, k, b, Replay(k, b))
        /\ SameOrbit(span, Replay(k, b))
    BY <2>2, ReplayedHere, Zenon
  <2>4. Balanced(target, start, span, k, Replay(k, b))
    BY <2>2, <2>3, ReachBalance, Zenon DEF Going, Replayed, OrbitInv
  <2>5. target[3] = weight
    BY DEF target
  <2> QED
    BY <2>4, <2>5, Zenon DEF Balanced
<1> QED
  BY <1>1, OrbitInvHolds, PTL

(***************************************************************************)
(* Any state of an orbit can be the one the orbit grew from.               *)
(***************************************************************************)
LEMMA SameEnd == \A d, s, r : SameOrbit(s, r) => End(d, s) = End(d, r) /\ SameOrbit(r, s)
BY DEF SameOrbit, End

\* Trees of one level with an end in common.
LEMMA SameTree ==
  \A g : GoodTarget(g) =>
    \A n \in Nat : \A s, r :
      TreeOf(s) \in Trees(g)[n] /\ TreeOf(r) \in Trees(g)[n] /\ (s.bk = r.bk \/ s.fw = r.fw)
        => TreeOf(s) = TreeOf(r) /\ SameOrbit(s, r)
<1>1. \A x : TreeOf(x)[1] = x.bk /\ TreeOf(x)[2] = x.fw
  BY DEF TreeOf
<1> QED
  BY <1>1, TreeUnique, Zenon DEF SameOrbit

\* The coins decide the orbit.
LEMMA ReachSame ==
  GoodTarget(target) =>
    \A n \in Nat : \A k, c, s, r :
      Reach(target, n, k, c, s) /\ Reach(target, n, k, c, r) => SameOrbit(s, r)
<1> SUFFICES ASSUME GoodTarget(target)
             PROVE  \A n \in Nat : \A k, c, s, r :
                      Reach(target, n, k, c, s) /\ Reach(target, n, k, c, r) => SameOrbit(s, r)
  OBVIOUS
<1> DEFINE Good(n) == \A k, c, s, r :
             Reach(target, n, k, c, s) /\ Reach(target, n, k, c, r) => SameOrbit(s, r)
<1>1. Good(0)
  <2> SUFFICES ASSUME NEW k, NEW c, NEW s, NEW r,
                      Reach(target, 0, k, c, s), Reach(target, 0, k, c, r)
               PROVE  SameOrbit(s, r)
    OBVIOUS
  <2>1. s = PointOf(target, k) /\ r = PointOf(target, k)
    BY ReachZero
  <2> QED
    BY <2>1, Zenon DEF SameOrbit
<1>2. ASSUME NEW n \in Nat, Good(n) PROVE Good(n + 1)
  <2> SUFFICES ASSUME NEW k, NEW c, NEW r, NEW w,
                      Reach(target, n + 1, k, c, r), Reach(target, n + 1, k, c, w)
               PROVE  SameOrbit(r, w)
    OBVIOUS
  <2> DEFINE d == c[n + 1]
  <2>1. PICK s : Reach(target, n, k, c, s) /\ Step(target, n, d, s, r)
    BY ReachNext, Zenon
  <2>2. PICK u : Reach(target, n, k, c, u) /\ Step(target, n, d, u, w)
    BY ReachNext, Zenon
  <2>3. PICK t : Doubled(target, n, d, s, t, r)
    BY <2>1, Zenon DEF Step
  <2>4. PICK v : Doubled(target, n, d, u, v, w)
    BY <2>2, Zenon DEF Step
  <2> HIDE DEF d
  <2>5. SameOrbit(s, u)
    BY <1>2, <2>1, <2>2, Zenon
  <2>6. End(d, s) = End(d, u)
    BY <2>5, SameEnd, Zenon
  <2>7. /\ Beyond(target, d, End(d, s), TreeOf(t)) /\ Beyond(target, d, End(d, u), TreeOf(v))
        /\ TreeOf(t) \in Trees(target)[n] /\ TreeOf(v) \in Trees(target)[n]
    BY <2>3, <2>4, Zenon DEF Doubled, Fresh
  <2>8. t.bk = v.bk \/ t.fw = v.fw
    <3>1. \A x : TreeOf(x)[1] = x.bk /\ TreeOf(x)[2] = x.fw
      BY DEF TreeOf
    <3> QED
      BY <2>6, <2>7, <3>1, Zenon DEF Beyond
  <2>9. SameOrbit(t, v)
    BY <2>7, <2>8, SameTree, Zenon
  <2>10. Ends(r, d, s, t) /\ Ends(w, d, u, v)
    BY <2>3, <2>4, DoubledParts
  <2> QED
    BY <2>5, <2>9, <2>10, Zenon DEF SameOrbit, Ends
<1>3. \A n \in Nat : Good(n)
  <2> DEFINE T == {n \in Nat : Good(n)}
  <2> HIDE DEF Good
  <2>1. 0 \in T /\ \A n \in Nat : n \in T => n + 1 \in T
    BY <1>1, <1>2
  <2>2. Nat \subseteq T
    <3> HIDE DEF T
    <3> QED
      BY <2>1, Induction
  <2> QED
    BY <2>2
<1> QED
  BY <1>3

\* The orbit decides the coins of a state in it.
LEMMA ReachWord ==
  GoodTarget(target) =>
    \A n \in Nat : \A k \in Line : \A c, e, s, r :
      Reach(target, n, k, c, s) /\ Reach(target, n, k, e, r) /\ SameOrbit(s, r)
        => \A i \in 1 .. n : c[i] = e[i]
<1> SUFFICES ASSUME GoodTarget(target)
             PROVE  \A n \in Nat : \A k \in Line : \A c, e, s, r :
                      Reach(target, n, k, c, s) /\ Reach(target, n, k, e, r) /\ SameOrbit(s, r)
                        => \A i \in 1 .. n : c[i] = e[i]
  OBVIOUS
<1> DEFINE Good(n) == \A k \in Line : \A c, e, s, r :
             Reach(target, n, k, c, s) /\ Reach(target, n, k, e, r) /\ SameOrbit(s, r)
               => \A i \in 1 .. n : c[i] = e[i]
<1>1. Good(0)
  OBVIOUS
<1>2. ASSUME NEW n \in Nat, Good(n) PROVE Good(n + 1)
  <2> SUFFICES ASSUME NEW k \in Line, NEW c, NEW e, NEW r, NEW w,
                      Reach(target, n + 1, k, c, r), Reach(target, n + 1, k, e, w),
                      SameOrbit(r, w), NEW i \in 1 .. n + 1
               PROVE  c[i] = e[i]
    OBVIOUS
  <2>1. PICK s : Reach(target, n, k, c, s) /\ Step(target, n, c[n + 1], s, r)
    BY ReachNext, Zenon
  <2>2. PICK u : Reach(target, n, k, e, u) /\ Step(target, n, e[n + 1], u, w)
    BY ReachNext, Zenon
  <2>3. PICK t : Doubled(target, n, c[n + 1], s, t, r)
    BY <2>1, Zenon DEF Step
  <2>4. PICK v : Doubled(target, n, e[n + 1], u, v, w)
    BY <2>2, Zenon DEF Step
  <2>5. k \in Members(s) /\ k \in Members(u)
    BY <2>1, <2>2, ReachReached, Zenon DEF Reached
  <2>6. SameHalves(c[n + 1], s, t, e[n + 1], u, v)
    BY <2>3, <2>4, DoubledHalves, Zenon
  <2>7. Members(s) \cap Members(t) = {}
    <3>1. Parts(r, s, t, UpdateChance("Metropolis", s, t))
      BY <2>3, DoubledParts
    <3> QED
      BY <3>1, Zenon DEF Parts
  <2>8. TreeOf(t) # TreeOf(u)
    <3>1. Members(t) # Members(u)
      BY <2>5, <2>7
    <3> QED
      BY <3>1, SameMembers, Zenon
  <2>9. c[n + 1] = e[n + 1] /\ TreeOf(s) = TreeOf(u)
    BY <2>6, <2>8, Zenon DEF SameHalves
  <2>10. SameOrbit(s, u)
    BY <2>9, SameMembers, Zenon DEF SameOrbit
  <2>11. \A j \in 1 .. n : c[j] = e[j]
    BY <1>2, <2>1, <2>2, <2>10, Zenon
  <2>12. i \in 1 .. n \/ i = n + 1
    OBVIOUS
  <2> QED
    BY <2>9, <2>11, <2>12, Zenon
<1>3. \A n \in Nat : Good(n)
  <2> DEFINE T == {n \in Nat : Good(n)}
  <2> HIDE DEF Good
  <2>1. 0 \in T /\ \A n \in Nat : n \in T => n + 1 \in T
    BY <1>1, <1>2
  <2>2. Nat \subseteq T
    <3> HIDE DEF T
    <3> QED
      BY <2>1, Induction
  <2> QED
    BY <2>2
<1> QED
  BY <1>3

\* Two trees with a macro step between them.
Linked(g, y, z) == y[2] \in g[1] /\ z[1] = y[2] + 1

\* Each lies beyond the other.
LEMMA LinkedBeyond ==
  \A g : GoodTarget(g) =>
    \A n \in Nat : \A s, t : TreeOf(s) \in Trees(g)[n] /\ Linked(g, TreeOf(s), TreeOf(t)) =>
      /\ Beyond(g, "forward", End("forward", s), TreeOf(t))
      /\ Beyond(g, "backward", End("backward", t), TreeOf(s))
<1> SUFFICES ASSUME NEW g, GoodTarget(g), NEW n \in Nat, NEW s, NEW t,
                    TreeOf(s) \in Trees(g)[n], Linked(g, TreeOf(s), TreeOf(t))
             PROVE  /\ Beyond(g, "forward", End("forward", s), TreeOf(t))
                    /\ Beyond(g, "backward", End("backward", t), TreeOf(s))
  OBVIOUS
<1>1. \A x : TreeOf(x)[1] = x.bk /\ TreeOf(x)[2] = x.fw
  BY DEF TreeOf
<1>2. s.fw \in Int
  <2>1. TreeOf(s)[2] \in Line
    BY TreeFields
  <2> QED
    BY <1>1, <2>1, OrbitAssumption
<1>3. s.fw \in g[1] /\ t.bk = s.fw + 1
  BY <1>1, Zenon DEF Linked
<1>4. t.bk - 1 = s.fw
  BY <1>2, <1>3
<1>5. "backward" # "forward"
  OBVIOUS
<1> QED
  BY <1>1, <1>3, <1>4, <1>5, Zenon DEF Beyond, End

TreeJoins(g, n, u, d, s, t) ==
  TreeOf(Combine(u, d, s, t)) = Join(TreeOf(Earlier(d, s, t)), TreeOf(Later(d, s, t)))

\* Combining them joins the trees.
LEMMA CombineJoins ==
  \A g, n, s, t : \A u \in {"Barker", "Metropolis"} : \A d \in Direction :
    /\ GoodTarget(g) /\ n \in Nat
    /\ Spanning(s) /\ TreeOf(s) \in Trees(g)[n]
    /\ Spanning(t) /\ TreeOf(t) \in Trees(g)[n]
    /\ Beyond(g, d, End(d, s), TreeOf(t))
    => TreeJoins(g, n, u, d, s, t)
<1> SUFFICES ASSUME NEW g, NEW n \in Nat, NEW s, NEW t, NEW u \in {"Barker", "Metropolis"},
                    NEW d \in Direction, GoodTarget(g),
                    Spanning(s), TreeOf(s) \in Trees(g)[n],
                    Spanning(t), TreeOf(t) \in Trees(g)[n],
                    Beyond(g, d, End(d, s), TreeOf(t))
             PROVE  TreeJoins(g, n, u, d, s, t)
  BY ZenonT(60)
<1>1. /\ TreeOf(Combine(u, d, s, t)) =
              Join(TreeOf(Earlier(d, s, t)), TreeOf(Later(d, s, t)))
      /\ <<Earlier(d, s, t).bk, Later(d, s, t).fw>> \notin g[2]
              => TreeOf(Combine(u, d, s, t)) \in Trees(g)[n + 1]
  BY CombineTree
<1> QED
  BY <1>1, Zenon DEF TreeJoins

\* Every tree is that of a fresh span.
LEMMA FreshExists ==
  GoodTarget(target) =>
    \A n \in Nat : \A x \in Trees(target)[n] : \E t : Fresh(target, n, t) /\ TreeOf(t) = x
<1> SUFFICES ASSUME GoodTarget(target)
             PROVE  \A n \in Nat : \A x \in Trees(target)[n] :
                      \E t : Fresh(target, n, t) /\ TreeOf(t) = x
  OBVIOUS
<1> DEFINE Good(n) == \A x \in Trees(target)[n] : \E t : Fresh(target, n, t) /\ TreeOf(t) = x
<1>1. Good(0)
  <2> SUFFICES ASSUME NEW x \in Trees(target)[0]
               PROVE  \E t : Fresh(target, 0, t) /\ TreeOf(t) = x
    OBVIOUS
  <2>1. PICK i \in Line : x = <<i, i, target[3][i]>>
    BY TreeLeaf
  <2>2. target[3] = weight
    BY DEF target
  <2> QED
    BY <2>1, <2>2, PointFresh, Zenon
<1>2. ASSUME NEW n \in Nat, Good(n) PROVE Good(n + 1)
  <2> SUFFICES ASSUME NEW x \in Trees(target)[n + 1]
               PROVE  \E t : Fresh(target, n + 1, t) /\ TreeOf(t) = x
    OBVIOUS
  <2>1. PICK y, z \in Trees(target)[n] : Joined(target, y, z) /\ x = Join(y, z)
    BY TreeNode
  <2>2. PICK s : Fresh(target, n, s) /\ TreeOf(s) = y
    BY <1>2
  <2>3. PICK t : Fresh(target, n, t) /\ TreeOf(t) = z
    BY <1>2
  <2>4. Linked(target, y, z) /\ <<y[1], z[2]>> \notin target[2]
    BY <2>1, Zenon DEF Joined, Linked
  <2>5. Beyond(target, "forward", End("forward", s), TreeOf(t))
    BY <2>2, <2>3, <2>4, LinkedBeyond, Zenon
  <2>6. Earlier("forward", s, t) = s /\ Later("forward", s, t) = t /\ "forward" \in Direction
    BY DEF Earlier, Later, Direction
  <2>7. y[1] = s.bk /\ z[2] = t.fw
    BY <2>2, <2>3 DEF TreeOf
  <2>8. Fresh(target, n + 1, Combine("Barker", "forward", s, t))
    BY <2>2, <2>3, <2>4, <2>5, <2>6, <2>7, FreshJoin
  <2>9. TreeOf(Combine("Barker", "forward", s, t)) = Join(TreeOf(s), TreeOf(t))
    <3>1. /\ Spanning(s) /\ TreeOf(s) \in Trees(target)[n]
          /\ Spanning(t) /\ TreeOf(t) \in Trees(target)[n]
      BY <2>2, <2>3, Zenon DEF Fresh
    <3>2. TreeJoins(target, n, "Barker", "forward", s, t)
      BY <2>5, <2>6, <3>1, CombineJoins, Zenon
    <3> QED
      BY <2>6, <3>2, Zenon DEF TreeJoins
  <2> QED
    BY <2>1, <2>2, <2>3, <2>8, <2>9, Zenon
<1>3. \A n \in Nat : Good(n)
  <2> DEFINE T == {n \in Nat : Good(n)}
  <2> HIDE DEF Good
  <2>1. 0 \in T /\ \A n \in Nat : n \in T => n + 1 \in T
    BY <1>1, <1>2
  <2>2. Nat \subseteq T
    <3> HIDE DEF T
    <3> QED
      BY <2>1, Induction
  <2> QED
    BY <2>2
<1> QED
  BY <1>3

Anywhere(g, n) ==
  \A x \in Trees(g)[n] : \A j \in x[1] .. x[2] :
    j \in Line /\ \E c, s : Reach(g, n, j, c, s) /\ TreeOf(s) = x

\* One more doubling.
LEMMA ReachDouble ==
  \A n \in Nat : \A g, k, c, d, s, t, r :
    Reach(g, n, k, c, s) /\ Doubled(g, n, d, s, t, r) => \E e : Reach(g, n + 1, k, e, r)
<1> SUFFICES ASSUME NEW n \in Nat, NEW g, NEW k, NEW c, NEW d, NEW s, NEW t, NEW r,
                    Reach(g, n, k, c, s), Doubled(g, n, d, s, t, r)
             PROVE  \E e : Reach(g, n + 1, k, e, r)
  OBVIOUS
<1> DEFINE h == [i \in 1 .. n + 1 |-> IF i <= n THEN c[i] ELSE d]
<1>1. h[n + 1] = d /\ \A i \in 1 .. n : c[i] = h[i]
  OBVIOUS
<1> HIDE DEF h
<1>2. Reach(g, n, k, h, s)
  BY <1>1, ReachCoins, Zenon
<1>3. Step(g, n, h[n + 1], s, r)
  BY <1>1, Zenon DEF Step
<1> QED
  BY <1>2, <1>3, ReachNext, Zenon

\* A state of two linked trees reaches both together.
LEMMA SplitReach ==
  ASSUME GoodTarget(target), NEW n \in Nat, Anywhere(target, n),
         NEW y \in Trees(target)[n], NEW z \in Trees(target)[n], Linked(target, y, z),
         NEW j \in (y[1] .. y[2]) \cup (z[1] .. z[2])
  PROVE  \E e, r : Reach(target, n + 1, j, e, r) /\ TreeOf(r) = Join(y, z)
<1>0. "forward" \in Direction /\ "backward" \in Direction /\ "backward" # "forward"
  BY DEF Direction
<1>1. CASE j \in y[1] .. y[2]
  <2>1. PICK c, s : Reach(target, n, j, c, s) /\ TreeOf(s) = y
    BY <1>1, Zenon DEF Anywhere
  <2>2. PICK t : Fresh(target, n, t) /\ TreeOf(t) = z
    BY FreshExists, Zenon
  <2> DEFINE r == Combine("Metropolis", "forward", s, t)
  <2>3. Spanning(s)
    BY <1>1, <2>1, ReachReached, Zenon DEF Reached, Anywhere
  <2>4. Beyond(target, "forward", End("forward", s), TreeOf(t))
    BY <2>1, <2>2, LinkedBeyond, Zenon
  <2>5. Doubled(target, n, "forward", s, t, r)
    BY <1>0, <2>1, <2>2, <2>3, <2>4, Zenon DEF Doubled
  <2>6. TreeOf(r) = Join(y, z)
    <3>1. Spanning(t) /\ TreeOf(t) \in Trees(target)[n]
      BY <2>2, Zenon DEF Fresh
    <3>2. TreeOf(s) \in Trees(target)[n]
      BY <2>1
    <3>3. TreeJoins(target, n, "Metropolis", "forward", s, t)
      BY <1>0, <2>3, <2>4, <3>1, <3>2, CombineJoins, Zenon
    <3>4. TreeOf(r) = Join(TreeOf(Earlier("forward", s, t)), TreeOf(Later("forward", s, t)))
      BY <3>3, Zenon DEF TreeJoins
    <3>5. Earlier("forward", s, t) = s /\ Later("forward", s, t) = t
      BY DEF Earlier, Later
    <3> HIDE DEF r
    <3> QED
      BY <2>1, <2>2, <3>4, <3>5, Zenon
  <2> HIDE DEF r
  <2> QED
    BY <2>1, <2>5, <2>6, ReachDouble, Zenon
<1>2. CASE j \in z[1] .. z[2]
  <2>1. PICK c, s : Reach(target, n, j, c, s) /\ TreeOf(s) = z
    BY <1>2, Zenon DEF Anywhere
  <2>2. PICK t : Fresh(target, n, t) /\ TreeOf(t) = y
    BY FreshExists, Zenon
  <2> DEFINE r == Combine("Metropolis", "backward", s, t)
  <2>3. Spanning(s)
    BY <1>2, <2>1, ReachReached, Zenon DEF Reached, Anywhere
  <2>4. Beyond(target, "backward", End("backward", s), TreeOf(t))
    BY <2>1, <2>2, LinkedBeyond, Zenon
  <2>5. Doubled(target, n, "backward", s, t, r)
    BY <1>0, <2>1, <2>2, <2>3, <2>4, Zenon DEF Doubled
  <2>6. TreeOf(r) = Join(y, z)
    <3>1. Spanning(t) /\ TreeOf(t) \in Trees(target)[n]
      BY <2>2, Zenon DEF Fresh
    <3>2. TreeOf(s) \in Trees(target)[n]
      BY <2>1
    <3>3. TreeJoins(target, n, "Metropolis", "backward", s, t)
      BY <1>0, <2>3, <2>4, <3>1, <3>2, CombineJoins, Zenon
    <3>4. TreeOf(r) = Join(TreeOf(Earlier("backward", s, t)), TreeOf(Later("backward", s, t)))
      BY <3>3, Zenon DEF TreeJoins
    <3>5. Earlier("backward", s, t) = t /\ Later("backward", s, t) = s
      BY DEF Earlier, Later
    <3> HIDE DEF r
    <3> QED
      BY <2>1, <2>2, <3>4, <3>5, Zenon
  <2> HIDE DEF r
  <2> QED
    BY <2>1, <2>5, <2>6, ReachDouble, Zenon
<1> QED
  BY <1>1, <1>2

\* A tree can be reached from each of its states.
LEMMA AnywhereAlways == GoodTarget(target) => \A n \in Nat : Anywhere(target, n)
<1> SUFFICES ASSUME GoodTarget(target) PROVE \A n \in Nat : Anywhere(target, n)
  OBVIOUS
<1> DEFINE Good(n) == Anywhere(target, n)
<1>1. Good(0)
  <2> SUFFICES ASSUME NEW x \in Trees(target)[0], NEW j \in x[1] .. x[2]
               PROVE  j \in Line /\ \E c, s : Reach(target, 0, j, c, s) /\ TreeOf(s) = x
    BY Zenon DEF Anywhere
  <2>1. PICK i \in Line : x = <<i, i, target[3][i]>>
    BY TreeLeaf
  <2>2. x[1] = i /\ x[2] = i /\ i \in Int
    BY <2>1, OrbitAssumption
  <2>3. j = i
    BY <2>2
  <2>4. target[3] = weight
    BY DEF target
  <2> QED
    BY <2>1, <2>3, <2>4, PointFresh, PointIs, ReachZero, Zenon
<1>2. ASSUME NEW n \in Nat, Good(n) PROVE Good(n + 1)
  <2> SUFFICES ASSUME NEW x \in Trees(target)[n + 1], NEW j \in x[1] .. x[2]
               PROVE  j \in Line /\ \E c, s : Reach(target, n + 1, j, c, s) /\ TreeOf(s) = x
    BY Zenon DEF Anywhere
  <2>1. PICK y, z \in Trees(target)[n] : Joined(target, y, z) /\ x = Join(y, z)
    BY TreeNode
  <2>2. Linked(target, y, z)
    BY <2>1, Zenon DEF Joined, Linked
  <2>3. j \in Line
    <3>1. n + 1 \in Nat
      OBVIOUS
    <3>2. x[1] .. x[2] \subseteq Line
      BY <3>1, TreeWide, Zenon
    <3> QED
      BY <3>2
  <2>4. j \in (y[1] .. y[2]) \cup (z[1] .. z[2])
    <3>1. x[1] = y[1] /\ x[2] = z[2]
      BY <2>1, JoinFields
    <3>2. y[1] \in Int /\ y[2] \in Int /\ z[1] \in Int /\ z[2] \in Int
      BY TreeFields, OrbitAssumption
    <3>3. z[1] = y[2] + 1
      BY <2>2, Zenon DEF Linked
    <3> QED
      BY <3>1, <3>2, <3>3
  <2> QED
    BY <1>2, <2>1, <2>2, <2>3, <2>4, SplitReach
<1>3. \A n \in Nat : Good(n)
  <2> DEFINE T == {n \in Nat : Good(n)}
  <2> HIDE DEF Good
  <2>1. 0 \in T /\ \A n \in Nat : n \in T => n + 1 \in T
    BY <1>1, <1>2
  <2>2. Nat \subseteq T
    <3> HIDE DEF T
    <3> QED
      BY <2>1, Induction
  <2> QED
    BY <2>2
<1> QED
  BY <1>3

\* An orbit can be reached from each of its states.
LEMMA ReachMate ==
  GoodTarget(target) =>
    \A n \in Nat : \A k \in Line : \A c, s : Reach(target, n, k, c, s) =>
      \A j \in Members(s) : j \in Line /\ \E e, r : Reach(target, n, j, e, r) /\ SameOrbit(s, r)
<1> SUFFICES ASSUME GoodTarget(target), NEW n \in Nat, NEW k \in Line, NEW c, NEW s,
                    Reach(target, n, k, c, s), NEW j \in Members(s)
             PROVE  j \in Line /\ \E e, r : Reach(target, n, j, e, r) /\ SameOrbit(s, r)
  OBVIOUS
<1>0. j \in Line
  <2>1. Spanning(s)
    BY ReachReached, Zenon DEF Reached
  <2> QED
    BY <2>1 DEF Spanning
<1>1. CASE n = 0
  <2>1. s = Point(k)
    BY <1>1, ReachZero, PointIs, Zenon
  <2>2. j = k
    BY <2>1, PointFresh
  <2> QED
    BY <1>0, <2>2, Zenon DEF SameOrbit
<1>2. CASE n # 0
  <2>1. PICK m \in Nat : n = m + 1
    <3>1. n - 1 \in Nat /\ n = (n - 1) + 1
      BY <1>2
    <3> QED
      BY <3>1
  <2>2. PICK u : Reach(target, m, k, c, u) /\ Step(target, m, c[m + 1], u, s)
    BY <2>1, ReachNext, Zenon
  <2>3. PICK t : Doubled(target, m, c[m + 1], u, t, s)
    BY <2>2, Zenon DEF Step
  <2> DEFINE d == c[m + 1]
             a == Earlier(d, u, t)
             b == Later(d, u, t)
  <2>4. Parts(s, u, t, UpdateChance("Metropolis", u, t)) /\ Ends(s, d, u, t)
    BY <2>3, DoubledParts
  <2> HIDE DEF d
  <2>5. /\ TreeOf(u) \in Trees(target)[m] /\ TreeOf(t) \in Trees(target)[m]
        /\ Beyond(target, d, End(d, u), TreeOf(t)) /\ u.bk \in Line /\ d \in Direction
    BY <2>3, Zenon DEF Doubled, Fresh, Spanning, d
  <2>6. \A x : TreeOf(x)[1] = x.bk /\ TreeOf(x)[2] = x.fw
    BY DEF TreeOf
  <2>7. /\ TreeOf(a) \in Trees(target)[m] /\ TreeOf(b) \in Trees(target)[m]
        /\ Linked(target, TreeOf(a), TreeOf(b)) /\ s.bk = a.bk /\ s.fw = b.fw
        /\ Members(s) = Members(a) \cup Members(b)
    <3>1. CASE d = "forward"
      <4>1. a = u /\ b = t
        BY <3>1 DEF Earlier, Later
      <4> QED
        BY <2>4, <2>5, <2>6, <3>1, <4>1, Zenon DEF Beyond, End, Ends, Linked, Parts
    <3>2. CASE d # "forward"
      <4>1. a = t /\ b = u
        BY <3>2 DEF Earlier, Later
      <4>2. u.bk - 1 \in target[1] /\ t.fw = u.bk - 1
        BY <2>5, <2>6, <3>2, Zenon DEF Beyond, End
      <4>3. u.bk \in Int
        BY ONLY <2>5, OrbitAssumption
      <4>4. t.fw \in target[1] /\ u.bk = t.fw + 1
        <5>1. ASSUME NEW x \in Int, NEW y, y = x - 1
              PROVE  x = y + 1
          BY ONLY <5>1
        <5>2. t.fw \in target[1]
          BY ONLY <4>2
        <5> QED
          BY ONLY <4>3, <4>2, <5>1, <5>2, Zenon
      <4>5. Members(s) = Members(t) \cup Members(u)
        BY <2>4 DEF Parts
      <4> QED
        BY <2>4, <2>5, <2>6, <3>2, <4>1, <4>4, <4>5, Zenon DEF Ends, Linked
    <3> QED
      BY <3>1, <3>2
  <2> HIDE DEF a, b
  <2>8. j \in (TreeOf(a)[1] .. TreeOf(a)[2]) \cup (TreeOf(b)[1] .. TreeOf(b)[2])
    BY <2>6, <2>7 DEF Members
  <2>9. Anywhere(target, m)
    BY AnywhereAlways, Zenon
  <2>10. PICK e, r : Reach(target, m + 1, j, e, r) /\ TreeOf(r) = Join(TreeOf(a), TreeOf(b))
    BY <2>7, <2>8, <2>9, SplitReach
  <2>11. r.bk = s.bk /\ r.fw = s.fw
    <3>1. TreeOf(r)[1] = TreeOf(a)[1] /\ TreeOf(r)[2] = TreeOf(b)[2]
      BY <2>10, JoinFields
    <3> QED
      BY <2>6, <2>7, <3>1
  <2> QED
    BY <1>0, <2>1, <2>10, <2>11, Zenon DEF SameOrbit
<1> QED
  BY <1>1, <1>2

(***************************************************************************)
(* Where the coins of one state stop, those of every other state stop.     *)
(***************************************************************************)
LEMMA ReachPrefix ==
  \A m, n \in Nat : m < n =>
    \A g, k, c, r : Reach(g, n, k, c, r) =>
      \E s, t, u : Reach(g, m, k, c, s) /\ Doubled(g, m, c[m + 1], s, t, u)
<1> SUFFICES ASSUME NEW m \in Nat, NEW n \in Nat, m < n, NEW g, NEW k, NEW c, NEW r,
                    Reach(g, n, k, c, r)
             PROVE  \E s, t, u : Reach(g, m, k, c, s) /\ Doubled(g, m, c[m + 1], s, t, u)
  OBVIOUS
<1>1. PICK f : IsPath(g, n, k, c, f)
  BY Zenon DEF Reach
<1>2. PICK i \in 1 .. n : i = m + 1 /\ i - 1 = m
  <2>1. m + 1 \in 1 .. n /\ m + 1 - 1 = m
    OBVIOUS
  <2> QED
    BY <2>1
<1>3. 1 .. m \subseteq 1 .. n
  OBVIOUS
<1>4. IsPath(g, m, k, c, f)
  BY <1>1, <1>3, Zenon DEF IsPath
<1>5. Reach(g, m, k, c, f[m])
  BY <1>4, Zenon DEF Reach
<1>6. Step(g, i - 1, c[i], f[i - 1], f[i])
  BY <1>1, Zenon DEF IsPath
<1> QED
  BY <1>2, <1>5, <1>6, Zenon DEF Step

\* A tree has not turned.
LEMMA TreeNotTurned ==
  \A g : GoodTarget(g) =>
    \A m \in Nat : m # 0 => \A s : TreeOf(s) \in Trees(g)[m] => ~Turned(g, s)
<1> SUFFICES ASSUME NEW g, GoodTarget(g), NEW m \in Nat, m # 0, NEW s,
                    TreeOf(s) \in Trees(g)[m]
             PROVE  ~Turned(g, s)
  OBVIOUS
<1>1. PICK q \in Nat : m = q + 1
  <2>1. m - 1 \in Nat /\ m = (m - 1) + 1
    OBVIOUS
  <2> QED
    BY <2>1
<1>2. PICK y, z \in Trees(g)[q] : Joined(g, y, z) /\ TreeOf(s) = Join(y, z)
  BY <1>1, TreeNode
<1>3. TreeOf(s)[1] = y[1] /\ TreeOf(s)[2] = z[2]
  BY <1>2, JoinFields
<1>4. s.bk = y[1] /\ s.fw = z[2]
  BY <1>3 DEF TreeOf
<1> QED
  BY <1>2, <1>4, Zenon DEF Joined, Turned

\* The coins decide where the loop ends.
LEMMA ReplayedLast ==
  GoodTarget(target) =>
    \A m, n \in Nat : \A k, c, s, r :
      Replayed(target, m, k, c, s) /\ Reach(target, n, k, c, r) /\ n <= MaxDepth => n <= m
<1> SUFFICES ASSUME GoodTarget(target), NEW m \in Nat, NEW n \in Nat, NEW k, NEW c, NEW s,
                    NEW r, Replayed(target, m, k, c, s), Reach(target, n, k, c, r),
                    n <= MaxDepth, m < n
             PROVE  FALSE
  OBVIOUS
<1>0. m # MaxDepth
  BY OrbitAssumption
<1>1. Reach(target, m, k, c, s) /\ Final(target, m, c, s)
  BY <1>0, Zenon DEF Replayed
<1>2. PICK u, t, v : Reach(target, m, k, c, u) /\ Doubled(target, m, c[m + 1], u, t, v)
  BY ReachPrefix, Zenon
<1>3. SameOrbit(u, s)
  BY <1>1, <1>2, ReachSame, Zenon
<1>4. CASE m # 0 /\ Turned(target, s)
  <2>1. Turned(target, u)
    BY <1>3, <1>4, Zenon DEF Turned, SameOrbit
  <2>2. TreeOf(u) \in Trees(target)[m]
    BY <1>2, Zenon DEF Doubled
  <2> QED
    BY <1>4, <2>1, <2>2, TreeNotTurned, Zenon
<1>5. CASE Stuck(target, m, c, s)
  <2>1. /\ TreeOf(t) \in Trees(target)[m]
        /\ Beyond(target, c[m + 1], End(c[m + 1], u), TreeOf(t))
    BY <1>2, Zenon DEF Doubled, Fresh
  <2>2. End(c[m + 1], u) = End(c[m + 1], s)
    BY <1>3, SameEnd, Zenon
  <2> QED
    BY <1>5, <2>1, <2>2, Zenon DEF Stuck
<1> QED
  BY <1>1, <1>4, <1>5, Zenon DEF Final

\* Which coins take k to this orbit.
LEMMA ThisOrbitIs ==
  OrbitInv => \A n \in Nat : \A c : Going(target, n, start, c, span, depth, pc) =>
    \A k \in Members(span) : \A b \in Coins :
      b \in ThisOrbit(k) <=> \E r : Replayed(target, n, k, b, r) /\ SameOrbit(span, r)
<1> SUFFICES ASSUME OrbitInv, NEW n \in Nat, NEW c,
                    Going(target, n, start, c, span, depth, pc),
                    NEW k \in Members(span), NEW b \in Coins,
                    NEW r, Replayed(target, n, k, b, r), SameOrbit(span, r)
             PROVE  b \in ThisOrbit(k)
  BY ReplayedHere, Zenon
<1> DEFINE s == Replay(k, b)
<1>1. GoodTarget(target) /\ start \in Line
  BY Zenon DEF OrbitInv
<1>2. Reached(n, start, span) /\ n <= MaxDepth
  BY <1>1, ReachReached, Zenon DEF Going
<1>3. k \in Line
  BY <1>2 DEF Reached, Spanning
<1>4. PICK m \in 0 .. MaxDepth : Replayed(target, m, k, b, s)
  BY <1>1, <1>3, ReplayReach, Zenon
<1> HIDE DEF s
<1>5. m \in Nat /\ m <= MaxDepth
  BY OrbitAssumption
<1>6. n <= m
  BY <1>1, <1>2, <1>4, <1>5, ReplayedLast, Zenon DEF Replayed
<1>7. m <= n
  BY <1>1, <1>4, <1>5, ReplayedLast, Zenon DEF Replayed
<1>8. m = n
  BY <1>5, <1>6, <1>7
<1>9. SameOrbit(r, s)
  BY <1>1, <1>4, <1>8, ReachSame, Zenon DEF Replayed
<1>10. SameOrbit(s, span)
  BY <1>9, Zenon DEF SameOrbit
<1> QED
  BY <1>10, Zenon DEF ThisOrbit, s

\* Coins are directions.
LEMMA ReachDirections ==
  \A g, n, k, c, s : Reach(g, n, k, c, s) => \A i \in 1 .. n : c[i] \in Direction
BY ZenonT(60) DEF Reach, IsPath, Step, Doubled

\* There are finitely many coins.
LEMMA CoinsFinite == IsFiniteSet(Coins)
<1>1. IsFiniteSet(Direction)
  <2>1. IsFiniteSet({"backward"})
    BY FS_Singleton
  <2>2. Direction = {"backward"} \cup {"forward"}
    BY DEF Direction
  <2> QED
    BY <2>1, <2>2, FS_AddElement
<1> QED
  BY <1>1, FunctionsFinite, OrbitAssumption, Zenon DEF Coins

\* No state of the orbit has more coins for it than another.
LEMMA OrbitTransfer ==
  OrbitInv => \A k, j \in Members(span) :
    Cardinality(ThisOrbit(k)) <= Cardinality(ThisOrbit(j))
<1> SUFFICES ASSUME OrbitInv, NEW k \in Members(span), NEW j \in Members(span)
             PROVE  Cardinality(ThisOrbit(k)) <= Cardinality(ThisOrbit(j))
  OBVIOUS
<1>1. GoodTarget(target) /\ start \in Line
  BY Zenon DEF OrbitInv
<1>2. PICK n \in Nat : \E c : Going(target, n, start, c, span, depth, pc)
  BY Zenon DEF OrbitInv
<1>3. PICK c : Going(target, n, start, c, span, depth, pc)
  BY <1>2, Zenon
<1>4. Reach(target, n, start, c, span) /\ n <= MaxDepth /\ MaxDepth \in Nat
  BY <1>3, OrbitAssumption DEF Going
<1>5. k \in Line
  BY <1>1, <1>4, ReachMate, Zenon
<1>6. PICK e, r : Reach(target, n, j, e, r) /\ SameOrbit(span, r)
  BY <1>1, <1>4, ReachMate, Zenon
<1>7. \A i \in 1 .. n : e[i] \in Direction
  BY <1>6, ReachDirections, Zenon
<1> DEFINE Turn(b) == [i \in 1 .. MaxDepth |-> IF i <= n THEN e[i] ELSE b[i]]
<1>8. ASSUME NEW b \in ThisOrbit(k) PROVE Turn(b) \in ThisOrbit(j)
  <2> DEFINE h == Turn(b)
             s == Replay(k, b)
  <2>1. b \in Coins
    BY DEF ThisOrbit
  <2>2. h \in Coins
    <3>1. \A i \in 1 .. MaxDepth : b[i] \in Direction
      BY <2>1 DEF Coins
    <3> QED
      BY <1>4, <1>7, <3>1 DEF Coins
  <2>3. \A i \in 1 .. n : e[i] = h[i]
    BY <1>4
  <2>4. n # MaxDepth => h[n + 1] = b[n + 1]
    BY <1>4
  <2> HIDE DEF h, s
  <2>5. Reach(target, n, j, h, r)
    BY <1>6, <2>3, ReachCoins, Zenon
  <2>6. Replayed(target, n, k, b, s) /\ SameOrbit(span, s)
    BY <1>3, ReplayedHere, Zenon DEF s
  <2>7. SameOrbit(s, r)
    BY <1>6, <2>6, Zenon DEF SameOrbit
  <2>8. ASSUME n # MaxDepth PROVE Final(target, n, h, r)
    <3>1. Final(target, n, b, s)
      BY <2>6, <2>8, Zenon DEF Replayed
    <3>2. Turned(target, s) => Turned(target, r)
      BY <2>7, Zenon DEF Turned, SameOrbit
    <3>3. Stuck(target, n, b, s) => Stuck(target, n, h, r)
      <4>1. h[n + 1] = b[n + 1] /\ End(b[n + 1], s) = End(b[n + 1], r)
        BY <2>4, <2>7, <2>8, SameEnd, Zenon
      <4> QED
        BY <4>1, Zenon DEF Stuck
    <3> QED
      BY <3>1, <3>2, <3>3, Zenon DEF Final
  <2>9. Replayed(target, n, j, h, r)
    BY <2>5, <2>8, Zenon DEF Replayed
  <2> QED
    BY <1>3, <1>6, <2>2, <2>9, ThisOrbitIs, Zenon DEF h
<1>9. ASSUME NEW b \in ThisOrbit(k), NEW a \in ThisOrbit(k), Turn(b) = Turn(a) PROVE b = a
  <2>1. b \in Coins /\ a \in Coins
    BY DEF ThisOrbit
  <2>2. /\ Replayed(target, n, k, b, Replay(k, b)) /\ SameOrbit(span, Replay(k, b))
        /\ Replayed(target, n, k, a, Replay(k, a)) /\ SameOrbit(span, Replay(k, a))
    BY <1>3, ReplayedHere, Zenon
  <2>3. SameOrbit(Replay(k, b), Replay(k, a))
    BY <2>2, Zenon DEF SameOrbit
  <2>4. \A i \in 1 .. n : b[i] = a[i]
    <3>1. Reach(target, n, k, b, Replay(k, b)) /\ Reach(target, n, k, a, Replay(k, a))
      BY <2>2, Zenon DEF Replayed
    <3>2. \A p, q, s, t :
            Reach(target, n, k, p, s) /\ Reach(target, n, k, q, t) /\ SameOrbit(s, t)
              => \A i \in 1 .. n : p[i] = q[i]
      BY <1>1, <1>5, ReachWord, Zenon
    <3> HIDE DEF Turn
    <3> QED
      BY <2>3, <3>1, <3>2, Zenon
  <2>5. ASSUME NEW i \in 1 .. MaxDepth PROVE b[i] = a[i]
    <3>1. CASE i \in 1 .. n
      BY <2>4, <3>1
    <3>2. CASE i \notin 1 .. n
      <4>1. ~(i <= n)
        BY <3>2
      <4>2. Turn(b)[i] = b[i] /\ Turn(a)[i] = a[i]
        BY <4>1, Zenon
      <4> HIDE DEF Turn
      <4> QED
        BY <1>9, <4>2, Zenon
    <3> QED
      BY <3>1, <3>2
  <2> QED
    <3> HIDE DEF Turn
    <3>1. b \in [1 .. MaxDepth -> Direction] /\ a \in [1 .. MaxDepth -> Direction]
      BY <2>1 DEF Coins
    <3>2. b = [i \in 1 .. MaxDepth |-> b[i]] /\ a = [i \in 1 .. MaxDepth |-> a[i]]
      BY <3>1
    <3> QED
      BY <2>5, <3>2
<1> HIDE DEF Turn
<1> DEFINE f == [b \in ThisOrbit(k) |-> Turn(b)]
<1>10. f \in Injection(ThisOrbit(k), ThisOrbit(j))
  <2>1. f \in [ThisOrbit(k) -> ThisOrbit(j)]
    BY <1>8
  <2>2. \A b, a \in ThisOrbit(k) : f[b] = f[a] => b = a
    BY <1>9
  <2> HIDE DEF f
  <2> QED
    BY <2>1, <2>2, Zenon DEF Injection, IsInjective
<1>11. IsFiniteSet(ThisOrbit(j))
  <2>1. ThisOrbit(j) \subseteq Coins
    BY Zenon DEF ThisOrbit
  <2> QED
    BY <2>1, CoinsFinite, FS_Subset
<1> HIDE DEF f
<1> QED
  BY <1>10, <1>11, FS_Injection

\* Every state of the final orbit has as many coins, hence the same chance, to
\* build that orbit: a U-turn inside a new span always discards all of it.
THEOREM OrbitsAreShared == OrbitSpec => []OrbitShared
<1>1. OrbitInv => OrbitShared
  <2> SUFFICES ASSUME OrbitInv, NEW k \in Members(span)
               PROVE  Cardinality(ThisOrbit(k)) = Cardinality(ThisOrbit(start))
    BY Zenon DEF OrbitShared
  <2>1. start \in Members(span)
    <3>1. PICK n \in Nat : \E c : Going(target, n, start, c, span, depth, pc)
      BY Zenon DEF OrbitInv
    <3> QED
      BY <3>1, ReachReached, Zenon DEF Going, Reached, OrbitInv
  <2>2. /\ Cardinality(ThisOrbit(k)) <= Cardinality(ThisOrbit(start))
        /\ Cardinality(ThisOrbit(start)) <= Cardinality(ThisOrbit(k))
    BY <2>1, OrbitTransfer, Zenon
  <2>3. Cardinality(ThisOrbit(k)) \in Nat /\ Cardinality(ThisOrbit(start)) \in Nat
    <3>1. \A x : ThisOrbit(x) \subseteq Coins
      BY Zenon DEF ThisOrbit
    <3>2. \A S \in SUBSET Coins : Cardinality(S) \in Nat
      BY CoinsFinite, FS_Subset, FS_CardinalityType
    <3> HIDE DEF ThisOrbit
    <3> QED
      BY <3>1, <3>2
  <2> QED
    BY <2>2, <2>3
<1> QED
  BY <1>1, OrbitInvHolds, PTL
===============================================================================
