------------------------------ MODULE DataLemmas ------------------------------
(***************************************************************************)
(* Induction over the natural numbers; laws, proved with it, of the        *)
(* community modules' recursive operators on sequences and of the exact    *)
(* fractions of Doubles, which are an ordered field.  A set of naturals    *)
(* stands for the predicate, since a theorem over predicates cannot be     *)
(* instantiated.                                                           *)
(***************************************************************************)
EXTENDS Doubles, SequencesExt, SequenceTheorems, FiniteSetTheorems, TLAPS

\* Initial segments are well-founded under inclusion, hence so are numbers.
LEMMA SmallestNumber ==
  ASSUME NEW T, T \subseteq Nat, T # {}
  PROVE  \E n \in T : \A m \in T : n <= m
<1> DEFINE Segments == {0 .. n : n \in T}
<1>1. Segments # {} /\ Segments \subseteq FiniteSubsetsOf(Nat)
  <2>1. \A n \in T : 0 .. n \subseteq Nat /\ IsFiniteSet(0 .. n)
    BY FS_Interval
  <2> QED
    BY <2>1 DEF FiniteSubsetsOf
<1>2. PICK s \in Segments : \A r \in Segments : <<r, s>> \notin StrictSubsetOrdering(Nat)
  <2> HIDE DEF Segments
  <2> QED
    BY <1>1, FS_StrictSubsetOrderingWellFounded, WFMin
<1>3. PICK n \in T : s = 0 .. n
  OBVIOUS
<1>4. ASSUME NEW m \in T, m < n PROVE FALSE
  <2>1. 0 .. m \subseteq 0 .. n /\ 0 .. m # 0 .. n
    BY <1>4
  <2>2. <<0 .. m, s>> \in StrictSubsetOrdering(Nat)
    BY <1>3, <2>1 DEF StrictSubsetOrdering
  <2> QED
    BY <1>2, <2>2
<1> QED
  BY <1>4

LEMMA Induction ==
  ASSUME NEW T, 0 \in T, \A n \in Nat : n \in T => n + 1 \in T
  PROVE  Nat \subseteq T
<1> SUFFICES ASSUME Nat \ T # {} PROVE FALSE
  OBVIOUS
<1>1. PICK n \in Nat \ T : \A m \in Nat \ T : n <= m
  BY SmallestNumber
<1>2. n - 1 \in Nat /\ n - 1 \in T
  BY <1>1
<1> QED
  BY <1>1, <1>2

\* FlattenSeq puts the sequences behind one another, and nothing else.
LEMMA FlattenUnfolds ==
  ASSUME NEW S, NEW s \in Seq(Seq(S))
  PROVE  \E f \in [0 .. Len(s) -> Seq(S)] :
           /\ f[0] = <<>>
           /\ \A i \in 1 .. Len(s) : f[i] = f[i - 1] \o s[i]
           /\ FlattenSeq(s) = f[Len(s)]
<1> DEFINE Prefix(n, f) == f[0] = <<>> /\ \A i \in 1 .. n : f[i] = f[i - 1] \o s[i]
           Good(n) == n <= Len(s) => \E f \in [0 .. n -> Seq(S)] : Prefix(n, f)
<1>1. Len(s) \in Nat /\ \A i \in 1 .. Len(s) : s[i] \in Seq(S)
  OBVIOUS
<1>2. \A n \in Nat : Good(n)
  <2>1. Good(0)
    <3>1. [i \in 0 .. 0 |-> <<>>] \in [0 .. 0 -> Seq(S)]
      OBVIOUS
    <3>2. Prefix(0, [i \in 0 .. 0 |-> <<>>])
      OBVIOUS
    <3> QED
      BY <3>1, <3>2
  <2>2. ASSUME NEW n \in Nat, Good(n) PROVE Good(n + 1)
    <3> SUFFICES ASSUME n + 1 <= Len(s) PROVE \E f \in [0 .. n + 1 -> Seq(S)] : Prefix(n + 1, f)
      OBVIOUS
    <3>1. PICK f \in [0 .. n -> Seq(S)] : Prefix(n, f)
      <4>1. n <= Len(s)
        BY <1>1
      <4> QED
        BY <2>2, <4>1
    <3> DEFINE g == [i \in 0 .. n + 1 |-> IF i <= n THEN f[i] ELSE f[n] \o s[n + 1]]
    <3>2. g \in [0 .. n + 1 -> Seq(S)]
      BY <1>1, <3>1
    <3>3. \A i \in 0 .. n : g[i] = f[i]
      OBVIOUS
    <3>4. g[n + 1] = f[n] \o s[n + 1]
      BY SMTT(60)
    <3> HIDE DEF g
    <3>5. ASSUME NEW i \in 1 .. n + 1 PROVE g[i] = g[i - 1] \o s[i]
      <4>1. CASE i = n + 1
        <5>1. i - 1 = n /\ n \in 0 .. n
          BY <4>1
        <5> QED
          BY <3>3, <3>4, <4>1, <5>1, Zenon
      <4>2. CASE i # n + 1
        <5>1. i \in 1 .. n /\ i \in 0 .. n /\ i - 1 \in 0 .. n
          BY <4>2
        <5> QED
          BY <3>1, <3>3, <5>1, Zenon
      <4> QED
        BY <4>1, <4>2
    <3>6. Prefix(n + 1, g)
      <4>1. 0 \in 0 .. n
        OBVIOUS
      <4> QED
        BY <3>1, <3>3, <3>5, <4>1, Zenon
    <3> QED
      BY <3>2, <3>6
  <2> QED
    <3> DEFINE T == {n \in Nat : Good(n)}
    <3> HIDE DEF Good
    <3>1. 0 \in T /\ \A n \in Nat : n \in T => n + 1 \in T
      BY <2>1, <2>2
    <3>2. Nat \subseteq T
      <4> HIDE DEF T
      <4> QED
        BY <3>1, Induction
    <3> QED
      BY <3>2
<1>3. PICK f \in [0 .. Len(s) -> Seq(S)] : Prefix(Len(s), f)
  <2> HIDE DEF Prefix
  <2>1. Len(s) <= Len(s)
    BY <1>1
  <2> QED
    BY <1>1, <1>2, <2>1, Zenon
<1>4. CASE Len(s) = 0
  BY <1>3, <1>4 DEF FlattenSeq
<1>5. CASE Len(s) # 0
  <2> DEFINE Equation(h) == h = [i \in 1 .. Len(s) |-> IF i = 1 THEN s[i] ELSE h[i - 1] \o s[i]]
             h == CHOOSE h : Equation(h)
             g == [i \in 1 .. Len(s) |-> f[i]]
             Agree(n) == n + 1 <= Len(s) => h[n + 1] = f[n + 1]
  <2>1. FlattenSeq(s) = h[Len(s)]
    BY <1>5 DEF FlattenSeq
  <2>2. f[1] = s[1]
    <3>1. 1 \in 1 .. Len(s) /\ 1 - 1 = 0 /\ s[1] \in Seq(S)
      BY <1>1, <1>5
    <3>2. f[1] = f[1 - 1] \o s[1] /\ f[0] = <<>>
      BY <1>3, <3>1, Zenon
    <3> QED
      BY <3>1, <3>2, ConcatEmptySeq
  <2>3. Equation(g)
    <3>1. ASSUME NEW i \in 1 .. Len(s), i # 1 PROVE f[i] = g[i - 1] \o s[i]
      <4>1. i - 1 \in 1 .. Len(s)
        BY <1>1, <3>1
      <4> QED
        BY <1>3, <4>1, Zenon
    <3> QED
      BY <2>2, <3>1, Zenon
  <2>4. Equation(h)
    <3> HIDE DEF Equation, g
    <3> QED
      BY <2>3, Zenon
  <2> HIDE DEF h
  <2>5. ASSUME NEW i \in 1 .. Len(s) PROVE h[i] = IF i = 1 THEN s[i] ELSE h[i - 1] \o s[i]
    BY <2>4, Zenon
  <2>6. \A n \in Nat : Agree(n)
    <3>1. Agree(0)
      <4>1. 1 \in 1 .. Len(s) /\ 0 + 1 = 1
        BY <1>1, <1>5
      <4> QED
        BY <2>2, <2>5, <4>1, Zenon
    <3>2. ASSUME NEW n \in Nat, Agree(n) PROVE Agree(n + 1)
      <4> SUFFICES ASSUME n + 1 + 1 <= Len(s) PROVE h[n + 1 + 1] = f[n + 1 + 1]
        OBVIOUS
      <4>1. /\ n + 1 + 1 \in 1 .. Len(s) /\ n + 1 + 1 # 1
            /\ n + 1 + 1 - 1 = n + 1 /\ n + 1 <= Len(s)
        BY <1>1
      <4>2. h[n + 1] = f[n + 1]
        BY <3>2, <4>1, Zenon
      <4>3. PICK i \in 1 .. Len(s) : i = n + 1 + 1 /\ i - 1 = n + 1 /\ i # 1
        BY <4>1
      <4>4. h[i] = h[i - 1] \o s[i] /\ f[i] = f[i - 1] \o s[i]
        BY <1>3, <2>5, <4>3, Zenon
      <4> QED
        BY <4>2, <4>3, <4>4, Zenon
    <3> QED
      <4> DEFINE T == {n \in Nat : Agree(n)}
      <4> HIDE DEF Agree
      <4>1. 0 \in T /\ \A n \in Nat : n \in T => n + 1 \in T
        BY <3>1, <3>2
      <4>2. Nat \subseteq T
        <5> HIDE DEF T
        <5> QED
          BY <4>1, Induction
      <4> QED
        BY <4>2
  <2>7. h[Len(s)] = f[Len(s)]
    <3>1. /\ Len(s) - 1 \in Nat /\ Len(s) - 1 + 1 = Len(s)
          /\ Len(s) <= Len(s)
      BY <1>1, <1>5
    <3> QED
      BY <2>6, <3>1, Zenon
  <2> QED
    BY <1>3, <2>1, <2>7, Zenon
<1> QED
  BY <1>4, <1>5

LEMMA Listed ==
  ASSUME NEW S, NEW n \in Nat, NEW f, f = [i \in 1 .. n |-> f[i]], \A i \in 1 .. n : f[i] \in S
  PROVE  f \in Seq(S) /\ Len(f) = n /\ DOMAIN f = 1 .. n
OBVIOUS

LEMMA OneListed ==
  ASSUME NEW S, NEW x \in S
  PROVE  <<x>> \in Seq(S) /\ Len(<<x>>) = 1 /\ <<x>>[1] = x
OBVIOUS

LEMMA ConcatAt ==
  ASSUME NEW S, NEW a \in Seq(S), NEW b \in Seq(S)
  PROVE  /\ a \o b \in Seq(S) /\ Len(a \o b) = Len(a) + Len(b)
         /\ \A j \in 1 .. Len(a) : (a \o b)[j] = a[j]
         /\ \A j \in 1 .. Len(b) : (a \o b)[Len(a) + j] = b[j]
<1>1. Len(a) \in Nat /\ Len(b) \in Nat
  OBVIOUS
<1>2. /\ a \o b \in Seq(S) /\ Len(a \o b) = Len(a) + Len(b)
      /\ \A i \in 1 .. Len(a) + Len(b) : (a \o b)[i] = IF i <= Len(a) THEN a[i] ELSE b[i - Len(a)]
  BY ConcatProperties
<1>3. \A j \in 1 .. Len(a) : j \in 1 .. Len(a) + Len(b) /\ j <= Len(a)
  BY <1>1
<1>4. \A j \in 1 .. Len(b) :
        Len(a) + j \in 1 .. Len(a) + Len(b) /\ ~(Len(a) + j <= Len(a)) /\ Len(a) + j - Len(a) = j
  BY <1>1
<1>5. \A j \in 1 .. Len(b) : (a \o b)[Len(a) + j] = b[j]
  BY <1>2, <1>4
<1> QED
  BY <1>2, <1>3, <1>5

\* Where each sequence begins: starts[i] entries come before the one after
\* sequence i.
StartsOf(s, starts) ==
  /\ starts \in [0 .. Len(s) -> Nat] /\ starts[0] = 0
  /\ \A i \in 1 .. Len(s) : starts[i] = starts[i - 1] + Len(s[i])

LEMMA StartsGrow ==
  ASSUME NEW S, NEW s \in Seq(Seq(S)), NEW starts, StartsOf(s, starts)
  PROVE  \A i \in 0 .. Len(s), k \in 0 .. Len(s) : i <= k => starts[i] <= starts[k]
<1> DEFINE Good(k) == k <= Len(s) => \A i \in 0 .. k : starts[i] <= starts[k]
<1>1. Len(s) \in Nat /\ \A i \in 1 .. Len(s) : Len(s[i]) \in Nat
  OBVIOUS
<1>2. Good(0)
  BY DEF StartsOf
<1>3. ASSUME NEW k \in Nat, Good(k) PROVE Good(k + 1)
  <2> SUFFICES ASSUME k + 1 <= Len(s), NEW i \in 0 .. k + 1 PROVE starts[i] <= starts[k + 1]
    OBVIOUS
  <2>1. /\ k + 1 \in 1 .. Len(s) /\ k + 1 - 1 = k /\ k \in 0 .. Len(s) /\ k <= Len(s)
        /\ i \in 0 .. Len(s) /\ k + 1 \in 0 .. Len(s)
    BY <1>1
  <2>2. starts[k + 1] = starts[k] + Len(s[k + 1])
    BY <2>1 DEF StartsOf
  <2>3. starts[k] \in Nat /\ starts[k + 1] \in Nat /\ starts[i] \in Nat /\ Len(s[k + 1]) \in Nat
    BY <1>1, <2>1 DEF StartsOf
  <2>4. CASE i = k + 1
    BY <2>3, <2>4
  <2>5. CASE i # k + 1
    <3>1. i \in 0 .. k
      BY <2>5
    <3>2. starts[i] <= starts[k]
      BY <1>3, <2>1, <3>1, Zenon
    <3> QED
      BY <2>2, <2>3, <3>2
  <2> QED
    BY <2>4, <2>5
<1>4. \A k \in Nat : Good(k)
  <2> DEFINE T == {n \in Nat : Good(n)}
  <2> HIDE DEF Good
  <2>1. 0 \in T /\ \A n \in Nat : n \in T => n + 1 \in T
    BY <1>2, <1>3
  <2>2. Nat \subseteq T
    <3> HIDE DEF T
    <3> QED
      BY <2>1, Induction
  <2> QED
    BY <2>2
<1> QED
  <2> SUFFICES ASSUME NEW i \in 0 .. Len(s), NEW k \in 0 .. Len(s), i <= k
               PROVE  starts[i] <= starts[k]
    OBVIOUS
  <2>1. k \in Nat /\ k <= Len(s) /\ i \in 0 .. k
    BY <1>1
  <2> QED
    BY <1>4, <2>1, Zenon

\* What FlattenSeq's result has where.
LEMMA FlattenEntries ==
  ASSUME NEW S, NEW s \in Seq(Seq(S)), NEW starts, StartsOf(s, starts)
  PROVE  /\ FlattenSeq(s) \in Seq(S)
         /\ Len(FlattenSeq(s)) = starts[Len(s)]
         /\ \A i \in 1 .. Len(s), j \in Nat :
              j \in 1 .. Len(s[i]) =>
                /\ starts[i - 1] + j \in 1 .. starts[Len(s)]
                /\ FlattenSeq(s)[starts[i - 1] + j] = s[i][j]
<1> DEFINE Good(f, n) ==
      n <= Len(s) =>
        /\ Len(f[n]) = starts[n]
        /\ \A i \in 1 .. n, j \in Nat :
             j \in 1 .. Len(s[i]) =>
               /\ starts[i - 1] + j \in 1 .. starts[n]
               /\ f[n][starts[i - 1] + j] = s[i][j]
<1>1. PICK f \in [0 .. Len(s) -> Seq(S)] :
        /\ f[0] = <<>>
        /\ \A i \in 1 .. Len(s) : f[i] = f[i - 1] \o s[i]
        /\ FlattenSeq(s) = f[Len(s)]
  BY FlattenUnfolds
<1>2. Len(s) \in Nat /\ \A i \in 1 .. Len(s) : s[i] \in Seq(S)
  OBVIOUS
<1>3. Good(f, 0)
  BY <1>1 DEF StartsOf
<1>4. ASSUME NEW n \in Nat, Good(f, n) PROVE Good(f, n + 1)
  <2> SUFFICES ASSUME n + 1 <= Len(s) PROVE Good(f, n + 1)
    OBVIOUS
  <2>1. /\ n + 1 \in 1 .. Len(s) /\ n + 1 - 1 = n /\ n \in 0 .. Len(s) /\ n <= Len(s)
        /\ n + 1 \in 0 .. Len(s)
    BY <1>2
  <2>2. /\ f[n + 1] = f[n] \o s[n + 1] /\ f[n] \in Seq(S) /\ s[n + 1] \in Seq(S)
        /\ starts[n + 1] = starts[n] + Len(s[n + 1])
    <3>1. PICK i \in 1 .. Len(s) : i = n + 1 /\ i - 1 = n
      BY <2>1
    <3>2. f[i] = f[i - 1] \o s[i] /\ starts[i] = starts[i - 1] + Len(s[i])
      BY <1>1, Zenon DEF StartsOf
    <3>3. f[n] \in Seq(S) /\ s[n + 1] \in Seq(S)
      BY <1>1, <1>2, <2>1, Zenon
    <3> QED
      BY <3>1, <3>2, <3>3, Zenon
  <2>3. Len(f[n]) = starts[n]
    BY <1>4, <2>1, Zenon
  <2>4. /\ Len(f[n + 1]) = starts[n + 1]
        /\ \A p \in 1 .. starts[n + 1] :
             f[n + 1][p] = IF p <= starts[n] THEN f[n][p] ELSE s[n + 1][p - starts[n]]
    <3> DEFINE a == f[n]
               b == s[n + 1]
    <3>1. a \in Seq(S) /\ b \in Seq(S) /\ f[n + 1] = a \o b
      BY <2>2
    <3>2. starts[n + 1] = Len(a) + Len(b) /\ starts[n] = Len(a)
      BY <2>2, <2>3
    <3> HIDE DEF a, b
    <3>3. /\ Len(a \o b) = Len(a) + Len(b)
          /\ \A p \in 1 .. Len(a) + Len(b) :
               (a \o b)[p] = IF p <= Len(a) THEN a[p] ELSE b[p - Len(a)]
      BY <3>1, ConcatProperties
    <3> QED
      BY <3>1, <3>2, <3>3, Zenon DEF a, b
  <2>5. ASSUME NEW i \in 1 .. n + 1, NEW j \in Nat, j \in 1 .. Len(s[i])
        PROVE  /\ starts[i - 1] + j \in 1 .. starts[n + 1]
               /\ f[n + 1][starts[i - 1] + j] = s[i][j]
    <3>1. starts[n] \in Nat /\ starts[n + 1] \in Nat /\ Len(s[n + 1]) \in Nat
      <4>1. starts[n] \in Nat /\ starts[n + 1] \in Nat
        BY <2>1, Zenon DEF StartsOf
      <4> QED
        BY <2>2, <4>1
    <3>2. CASE i = n + 1
      <4>1. starts[i - 1] = starts[n]
        BY <2>1, <3>2
      <4>2. starts[n] + j \in 1 .. starts[n + 1] /\ ~(starts[n] + j <= starts[n])
        <5>1. \A a, b, c \in Nat : \A x : x \in 1 .. c /\ b = a + c =>
                a + x \in 1 .. b /\ ~(a + x <= a)
          OBVIOUS
        <5>2. starts[n + 1] = starts[n] + Len(s[n + 1]) /\ j \in 1 .. Len(s[n + 1])
          BY <2>2, <2>5, <3>2
        <5> QED
          BY <3>1, <5>1, <5>2, Zenon
      <4>3. starts[n] + j - starts[n] = j
        BY <3>1
      <4> QED
        <5>1. PICK p \in 1 .. starts[n + 1] : p = starts[n] + j
          BY <4>2, Zenon
        <5>2. f[n + 1][p] = s[n + 1][p - starts[n]]
          BY <2>4, <4>2, <5>1, Zenon
        <5>3. f[n + 1][starts[n] + j] = s[n + 1][j]
          <6>1. p - starts[n] = j
            BY <3>1, <5>1, SMTT(60)
          <6> QED
            BY <5>1, <5>2, <6>1, Zenon
        <5> QED
          BY <3>2, <4>1, <4>2, <5>3, Zenon
    <3>3. CASE i # n + 1
      <4>1. i \in 1 .. n
        BY <3>3
      <4>2. /\ starts[i - 1] + j \in 1 .. starts[n]
            /\ f[n][starts[i - 1] + j] = s[i][j]
        BY <1>4, <2>1, <2>5, <4>1, Zenon
      <4>3. starts[i - 1] + j \in 1 .. starts[n + 1] /\ starts[i - 1] + j <= starts[n]
        <5>1. \A a, b, c \in Nat : \A x : x \in 1 .. a /\ b = a + c => x \in 1 .. b /\ x <= a
          OBVIOUS
        <5>2. starts[n + 1] = starts[n] + Len(s[n + 1])
          BY <2>2
        <5> QED
          BY <3>1, <4>2, <5>1, <5>2, Zenon
      <4> QED
        BY <2>4, <4>2, <4>3, Zenon
    <3> QED
      BY <3>2, <3>3
  <2> QED
    BY <2>4, <2>5, Zenon
<1>5. \A n \in Nat : Good(f, n)
  <2> DEFINE T == {n \in Nat : Good(f, n)}
  <2> HIDE DEF Good
  <2>1. 0 \in T /\ \A n \in Nat : n \in T => n + 1 \in T
    BY <1>3, <1>4
  <2>2. Nat \subseteq T
    <3> HIDE DEF T
    <3> QED
      BY <2>1, Induction
  <2> QED
    BY <2>2
<1>6. Len(s) <= Len(s) /\ Len(s) \in 0 .. Len(s)
  BY <1>2
<1>7. Good(f, Len(s)) /\ f[Len(s)] \in Seq(S)
  <2> HIDE DEF Good
  <2> QED
    BY <1>1, <1>2, <1>5, <1>6, Zenon
<1> QED
  BY <1>1, <1>6, <1>7, Zenon

\* Every entry comes from somewhere.
StartsCover(s, starts) ==
  \A p \in 1 .. starts[Len(s)] :
    \E i \in 1 .. Len(s) : \E j \in 1 .. Len(s[i]) : p = starts[i - 1] + j

LEMMA FlattenCovers ==
  \A S : \A s \in Seq(Seq(S)) : \A starts : StartsOf(s, starts) => StartsCover(s, starts)
<1> TAKE S
<1> TAKE s \in Seq(Seq(S))
<1> TAKE starts
<1> HAVE StartsOf(s, starts)
<1> SUFFICES ASSUME NEW p \in 1 .. starts[Len(s)]
             PROVE  \E i \in 1 .. Len(s) : \E j \in 1 .. Len(s[i]) : p = starts[i - 1] + j
  BY DEF StartsCover
<1> DEFINE T == {i \in 0 .. Len(s) : p <= starts[i]}
<1>1. Len(s) \in Nat /\ Len(s) \in T /\ T \subseteq Nat
  BY DEF StartsOf
<1>2. PICK i \in T : \A k \in T : i <= k
  <2> HIDE DEF T
  <2> QED
    BY <1>1, SmallestNumber
<1>3. i # 0
  BY <1>2 DEF StartsOf
<1>4. /\ i - 1 \in 0 .. Len(s) /\ i \in 1 .. Len(s) /\ starts[i - 1] \in Nat /\ Len(s[i]) \in Nat
      /\ starts[i] = starts[i - 1] + Len(s[i])
  <2>1. i - 1 \in 0 .. Len(s) /\ i \in 1 .. Len(s)
    BY <1>1, <1>3
  <2>2. s[i] \in Seq(S)
    BY <2>1
  <2>3. starts[i - 1] \in Nat /\ starts[i] = starts[i - 1] + Len(s[i])
    BY <2>1, Zenon DEF StartsOf
  <2> QED
    BY <2>1, <2>2, <2>3
<1>5. starts[i - 1] < p /\ p <= starts[i]
  BY <1>2, <1>4, SMTT(60)
<1>6. p - starts[i - 1] \in 1 .. Len(s[i]) /\ p = starts[i - 1] + (p - starts[i - 1])
  BY <1>4, <1>5, SMTT(60)
<1> QED
  BY <1>4, <1>6
-------------------------------------------------------------------------------
\* A bounded set of numbers has a largest element, the one Max chooses.
LEMMA LargestNumber ==
  ASSUME NEW n \in Nat, NEW T, T \subseteq 1 .. n, T # {}
  PROVE  Max(T) \in T /\ \A m \in T : m <= Max(T)
<1> DEFINE Below == {n - m : m \in T}
<1>1. Below \subseteq Nat /\ Below # {}
  <2>1. \A m \in T : m \in 1 .. n
    OBVIOUS
  <2>2. \A m \in T : n - m \in Nat
    BY <2>1
  <2> QED
    BY <2>2
<1>2. PICK k \in Below : \A j \in Below : k <= j
  <2> HIDE DEF Below
  <2> QED
    BY <1>1, SmallestNumber
<1>3. PICK m \in T : k = n - m
  BY <1>2
<1>4. \A j \in T : m >= j
  <2>1. ASSUME NEW j \in T PROVE n - m <= n - j
    BY <1>2, <1>3
  <2>2. m \in 1 .. n /\ \A j \in T : j \in 1 .. n
    OBVIOUS
  <2> QED
    BY <2>1, <2>2
<1>5. Max(T) \in T /\ \A j \in T : Max(T) >= j
  BY <1>4 DEF Max
<1> QED
  BY <1>5

\* FoldLeft adds the numbers of a sequence up from the first.
LEMMA SumUnfolds ==
  ASSUME NEW xs \in Seq(Int)
  PROVE  \E f \in [0 .. Len(xs) -> Int] :
           /\ f[0] = 0
           /\ \A i \in 1 .. Len(xs) : f[i] = f[i - 1] + xs[i]
           /\ FoldLeft(LAMBDA a, b : a + b, 0, xs) = f[Len(xs)]
<1> DEFINE N == Len(xs)
           Step(h, s) == IF s = {} THEN 0 ELSE h[s \ {Max(s)}] + xs[Max(s)]
           Sums(h, n) == \A s \in SUBSET (1 .. n) : h[s] = Step(h, s)
           Good(n) == n <= N => \E h \in [SUBSET (1 .. n) -> Int] : Sums(h, n)
<1>1. N \in Nat /\ DOMAIN xs = 1 .. N /\ \A i \in 1 .. N : xs[i] \in Int
  OBVIOUS
<1> HIDE DEF N
<1>2. Good(0)
  <2>1. [s \in SUBSET (1 .. 0) |-> 0] \in [SUBSET (1 .. 0) -> Int]
    OBVIOUS
  <2>2. \A s \in SUBSET (1 .. 0) : s = {}
    OBVIOUS
  <2> QED
    BY <2>1, <2>2
<1>3. ASSUME NEW n \in Nat, Good(n) PROVE Good(n + 1)
  <2> SUFFICES ASSUME n + 1 <= N PROVE \E h \in [SUBSET (1 .. n + 1) -> Int] : Sums(h, n + 1)
    OBVIOUS
  <2>1. n <= N /\ xs[n + 1] \in Int
    BY <1>1
  <2>2. PICK h \in [SUBSET (1 .. n) -> Int] : Sums(h, n)
    BY <1>3, <2>1
  <2> DEFINE g == [s \in SUBSET (1 .. n + 1) |->
                     IF n + 1 \in s THEN h[s \ {n + 1}] + xs[n + 1] ELSE h[s]]
  <2>3. \A s \in SUBSET (1 .. n + 1) :
          /\ s \ {n + 1} \in SUBSET (1 .. n)
          /\ n + 1 \notin s => s \in SUBSET (1 .. n)
    OBVIOUS
  <2>4. g \in [SUBSET (1 .. n + 1) -> Int]
    BY <2>1, <2>2, <2>3
  <2>5. \A s \in SUBSET (1 .. n) : s \in SUBSET (1 .. n + 1) /\ n + 1 \notin s
    OBVIOUS
  <2>6. \A s \in SUBSET (1 .. n) : g[s] = h[s]
    BY <2>5
  <2>7. \A s \in SUBSET (1 .. n + 1) : n + 1 \in s => g[s] = h[s \ {n + 1}] + xs[n + 1]
    OBVIOUS
  <2> HIDE DEF g
  <2>8. ASSUME NEW s \in SUBSET (1 .. n + 1) PROVE g[s] = Step(g, s)
    <3>1. CASE n + 1 \in s
      <4>1. Max(s) \in s /\ \A m \in s : m <= Max(s)
        <5>1. s \subseteq 1 .. n + 1 /\ s # {} /\ n + 1 \in Nat
          BY <3>1
        <5> QED
          BY <5>1, LargestNumber, Zenon
      <4>2. Max(s) = n + 1
        <5>1. Max(s) \in 1 .. n + 1 /\ n + 1 <= Max(s)
          BY <3>1, <4>1
        <5> QED
          BY <5>1
      <4> QED
        BY <2>3, <2>6, <2>7, <3>1, <4>2
    <3>2. CASE n + 1 \notin s
      <4>1. s \in SUBSET (1 .. n) /\ s \ {Max(s)} \in SUBSET (1 .. n)
        BY <2>3, <3>2
      <4>2. g[s] = h[s] /\ g[s \ {Max(s)}] = h[s \ {Max(s)}] /\ h[s] = Step(h, s)
        BY <2>2, <2>6, <4>1
      <4> QED
        BY <4>2
    <3> QED
      BY <3>1, <3>2
  <2> QED
    BY <2>4, <2>8
<1>4. \A n \in Nat : Good(n)
  <2> DEFINE T == {n \in Nat : Good(n)}
  <2> HIDE DEF Good
  <2>1. 0 \in T /\ \A n \in Nat : n \in T => n + 1 \in T
    BY <1>2, <1>3
  <2>2. Nat \subseteq T
    <3> HIDE DEF T
    <3> QED
      BY <2>1, Induction
  <2> QED
    BY <2>2
<1>5. PICK h \in [SUBSET (1 .. N) -> Int] : Sums(h, N)
  <2> HIDE DEF Sums
  <2>1. N <= N
    BY <1>1
  <2> QED
    BY <1>1, <1>4, <2>1
<1> DEFINE Equation(e) == e = [s \in SUBSET (1 .. N) |-> Step(e, s)]
           iter == CHOOSE e : Equation(e)
<1>6. Equation(h)
  BY <1>5
<1>7. Equation(iter)
  <2> HIDE DEF Equation
  <2> QED
    BY <1>6, Zenon
<1>8. FoldLeft(LAMBDA a, b : a + b, 0, xs) = iter[1 .. N]
  BY <1>1, Zenon DEF FoldLeft, MapThenFoldSet
<1> HIDE DEF iter
<1>9. Sums(iter, N)
  <2> HIDE DEF Step
  <2> QED
    BY <1>7
<1> DEFINE f == [k \in 0 .. N |-> iter[1 .. k]]
<1>10. f[0] = 0
  <2>1. 1 .. 0 = {} /\ {} \in SUBSET (1 .. N) /\ 0 \in 0 .. N
    BY <1>1
  <2>2. iter[{}] = 0
    BY <1>9, <2>1
  <2> QED
    BY <2>1, <2>2
<1>11. ASSUME NEW i \in 1 .. N PROVE f[i] = f[i - 1] + xs[i]
  <2>1. i \in Nat /\ i \in 0 .. N /\ i - 1 \in 0 .. N
    BY <1>1
  <2>2. 1 .. i \in SUBSET (1 .. N) /\ 1 .. i # {} /\ (1 .. i) \ {i} = 1 .. i - 1
    <3>1. i \in Nat /\ N \in Nat /\ 1 <= i /\ i <= N
      BY <1>1
    <3>2. 1 .. i \subseteq 1 .. N
      BY <3>1
    <3>3. 1 \in 1 .. i
      BY <3>1
    <3>4. (1 .. i) \ {i} = 1 .. i - 1
      BY <3>1
    <3> QED
      BY <3>2, <3>3, <3>4
  <2>3. Max(1 .. i) = i
    <3>1. Max(1 .. i) \in 1 .. i /\ \A m \in 1 .. i : m <= Max(1 .. i)
      BY <2>1, <2>2, LargestNumber
    <3> QED
      BY <3>1
  <2>4. iter[1 .. i] = iter[1 .. i - 1] + xs[i]
    BY <1>9, <2>2, <2>3
  <2> QED
    BY <2>1, <2>4
<1> HIDE DEF f
<1>12. ASSUME NEW n \in Nat, n <= N => f[n] \in Int PROVE n + 1 <= N => f[n + 1] \in Int
  <2> SUFFICES ASSUME n + 1 <= N PROVE f[n + 1] \in Int
    OBVIOUS
  <2>1. PICK i \in 1 .. N : i = n + 1 /\ i - 1 = n /\ n <= N
    BY <1>1
  <2> QED
    BY <1>1, <1>11, <1>12, <2>1
<1>13. \A n \in Nat : n <= N => f[n] \in Int
  <2> DEFINE T == {n \in Nat : n <= N => f[n] \in Int}
  <2>1. 0 \in T /\ \A n \in Nat : n \in T => n + 1 \in T
    BY <1>10, <1>12
  <2>2. Nat \subseteq T
    <3> HIDE DEF T
    <3> QED
      BY <2>1, Induction
  <2> QED
    BY <2>2
<1>14. f \in [0 .. N -> Int] /\ f[N] = iter[1 .. N]
  BY <1>1, <1>13 DEF f
<1> QED
  BY <1>8, <1>10, <1>11, <1>14 DEF N

\* Sequences of one length: entry j of sequence i has its index by arithmetic.
LEMMA FlattenEqual ==
  ASSUME NEW S, NEW s \in Seq(Seq(S)), NEW n \in Nat,
         \A i \in 1 .. Len(s) : Len(s[i]) = n
  PROVE  /\ FlattenSeq(s) \in Seq(S)
         /\ Len(FlattenSeq(s)) = Len(s) * n
         /\ \A i \in 1 .. Len(s), j \in 1 .. n :
              /\ (i - 1) * n + j \in 1 .. Len(s) * n
              /\ FlattenSeq(s)[(i - 1) * n + j] = s[i][j]
<1> DEFINE starts == [i \in 0 .. Len(s) |-> i * n]
<1>1. Len(s) \in Nat
  OBVIOUS
<1>2. \A i \in Nat : i * n \in Nat /\ (i >= 1 => i * n = (i - 1) * n + n)
  OBVIOUS
<1>3. starts[0] = 0 /\ starts[Len(s)] = Len(s) * n
  <2>1. 0 \in 0 .. Len(s) /\ Len(s) \in 0 .. Len(s) /\ 0 * n = 0
    BY <1>1
  <2> QED
    BY <2>1
<1>4. \A i \in 1 .. Len(s) : starts[i - 1] = (i - 1) * n /\ starts[i] = i * n
  BY <1>1
<1>5. starts \in [0 .. Len(s) -> Nat]
  BY <1>1, <1>2
<1> HIDE DEF starts
<1>6. StartsOf(s, starts)
  BY <1>1, <1>2, <1>3, <1>4, <1>5 DEF StartsOf
<1>7. /\ FlattenSeq(s) \in Seq(S)
      /\ Len(FlattenSeq(s)) = starts[Len(s)]
      /\ \A i \in 1 .. Len(s), j \in Nat :
           j \in 1 .. Len(s[i]) =>
             /\ starts[i - 1] + j \in 1 .. starts[Len(s)]
             /\ FlattenSeq(s)[starts[i - 1] + j] = s[i][j]
  BY <1>6, FlattenEntries
<1>8. \A j \in 1 .. n : j \in Nat
  OBVIOUS
<1> QED
  BY <1>3, <1>4, <1>7, <1>8, Zenon

LEMMA StartsExist ==
  ASSUME NEW S, NEW s \in Seq(Seq(S)) PROVE \E starts : StartsOf(s, starts)
<1>1. PICK f \in [0 .. Len(s) -> Seq(S)] :
        /\ f[0] = <<>>
        /\ \A i \in 1 .. Len(s) : f[i] = f[i - 1] \o s[i]
        /\ FlattenSeq(s) = f[Len(s)]
  BY FlattenUnfolds
<1> DEFINE starts == [i \in 0 .. Len(s) |-> Len(f[i])]
<1>2. Len(s) \in Nat /\ \A i \in 1 .. Len(s) : s[i] \in Seq(S)
  OBVIOUS
<1>3. starts \in [0 .. Len(s) -> Nat] /\ starts[0] = 0
  BY <1>1, <1>2
<1>4. ASSUME NEW i \in 1 .. Len(s) PROVE starts[i] = starts[i - 1] + Len(s[i])
  <2>1. i \in 0 .. Len(s) /\ i - 1 \in 0 .. Len(s)
    BY <1>2
  <2>2. f[i] = f[i - 1] \o s[i] /\ f[i - 1] \in Seq(S) /\ s[i] \in Seq(S)
    BY <1>1, <1>2, <2>1, Zenon
  <2>3. Len(f[i - 1] \o s[i]) = Len(f[i - 1]) + Len(s[i])
    <3> DEFINE a == f[i - 1]
               b == s[i]
    <3>1. a \in Seq(S) /\ b \in Seq(S)
      BY <2>2
    <3> HIDE DEF a, b
    <3>2. Len(a \o b) = Len(a) + Len(b)
      BY <3>1, ConcatAt, Zenon
    <3> QED
      BY <3>2 DEF a, b
  <2> QED
    BY <2>1, <2>2, <2>3
<1> QED
  BY <1>3, <1>4 DEF StartsOf

\* Products of naturals.
LEMMA ProductGrows == \A n, a, b \in Nat : a <= b => n * a <= n * b /\ n * a \in Nat
BY SMT

\* Division takes a product and a remainder apart again.
LEMMA Quotient ==
  \A n \in Nat \ {0}, q \in Nat : \A r \in 0 .. n - 1 :
    (n * q + r) \div n = q /\ (n * q + r) % n = r
<1> SUFFICES ASSUME NEW n \in Nat \ {0}, NEW q \in Nat, NEW r \in 0 .. n - 1
             PROVE  (n * q + r) \div n = q /\ (n * q + r) % n = r
  OBVIOUS
<1> DEFINE m == n * q + r
           p == m \div n
           e == m % n
<1>1. m \in Nat
  BY ProductGrows
<1> HIDE DEF m
<1>2. p \in Nat /\ e \in 0 .. n - 1 /\ m = n * p + e
  BY <1>1, SMT
<1> HIDE DEF p, e
<1>3. n * p + e = n * q + r
  BY <1>2 DEF m
<1>4. ~(p + 1 <= q)
  <2> SUFFICES ASSUME p + 1 <= q PROVE FALSE
    OBVIOUS
  <2>1. n * (p + 1) <= n * q /\ n * (p + 1) = n * p + n /\ n * p \in Nat /\ n * q \in Nat
    BY <1>2, ProductGrows
  <2> QED
    BY <1>2, <1>3, <2>1
<1>5. ~(q + 1 <= p)
  <2> SUFFICES ASSUME q + 1 <= p PROVE FALSE
    OBVIOUS
  <2>1. n * (q + 1) <= n * p /\ n * (q + 1) = n * q + n /\ n * p \in Nat /\ n * q \in Nat
    BY <1>2, ProductGrows
  <2> QED
    BY <1>2, <1>3, <2>1
<1>6. p = q /\ e = r
  <2>1. p = q
    BY <1>2, <1>4, <1>5
  <2>2. n * q \in Nat
    BY ProductGrows
  <2> QED
    BY <1>2, <1>3, <2>1, <2>2
<1> QED
  BY <1>6 DEF p, e, m

\* The lengths add up to where the last sequence ends.
LEMMA TotalLength ==
  ASSUME NEW S, NEW s \in Seq(Seq(S)), NEW starts, StartsOf(s, starts)
  PROVE  FoldLeft(LAMBDA a, b : a + b, 0, [i \in 1 .. Len(s) |-> Len(s[i])]) = starts[Len(s)]
<1> DEFINE xs == [i \in 1 .. Len(s) |-> Len(s[i])]
<1>1. Len(s) \in Nat /\ \A i \in 1 .. Len(s) : Len(s[i]) \in Nat
  OBVIOUS
<1>2. /\ xs \in Seq(Int) /\ Len(xs) = Len(s)
      /\ \A i \in 1 .. Len(s) : xs[i] = Len(s[i])
  BY <1>1
<1> HIDE DEF xs
<1>3. PICK f \in [0 .. Len(xs) -> Int] :
        /\ f[0] = 0
        /\ \A i \in 1 .. Len(xs) : f[i] = f[i - 1] + xs[i]
        /\ FoldLeft(LAMBDA a, b : a + b, 0, xs) = f[Len(xs)]
  BY <1>2, SumUnfolds, Zenon
<1> DEFINE Same(n) == n <= Len(s) => f[n] = starts[n]
<1>4. Same(0)
  BY <1>3 DEF StartsOf
<1>5. ASSUME NEW n \in Nat, Same(n) PROVE Same(n + 1)
  <2> SUFFICES ASSUME n + 1 <= Len(s) PROVE f[n + 1] = starts[n + 1]
    OBVIOUS
  <2>1. PICK i \in 1 .. Len(s) : i = n + 1 /\ i - 1 = n
    BY <1>1
  <2>2. f[i] = f[i - 1] + xs[i] /\ starts[i] = starts[i - 1] + Len(s[i]) /\ xs[i] = Len(s[i])
    BY <1>2, <1>3, Zenon DEF StartsOf
  <2>3. n <= Len(s)
    BY <1>1
  <2>4. f[n] = starts[n]
    BY <1>5, <2>3, Zenon
  <2> QED
    BY <2>1, <2>2, <2>4, Zenon
<1>6. \A n \in Nat : Same(n)
  <2> DEFINE T == {n \in Nat : Same(n)}
  <2> HIDE DEF Same
  <2>1. 0 \in T /\ \A n \in Nat : n \in T => n + 1 \in T
    BY <1>4, <1>5
  <2>2. Nat \subseteq T
    <3> HIDE DEF T
    <3> QED
      BY <2>1, Induction
  <2> QED
    BY <2>2
<1>7. Len(s) <= Len(s)
  BY <1>1
<1>8. f[Len(s)] = starts[Len(s)]
  BY <1>1, <1>6, <1>7, Zenon
<1> QED
  BY <1>2, <1>3, <1>8, Zenon DEF xs

-------------------------------------------------------------------------------
(***************************************************************************)
(* Euclid's algorithm, and the fractions it reduces.                       *)
(***************************************************************************)
LEMMA GcdUnfolds ==
  \A a, b \in Nat : gcd[<<a, b>>] = IF b = 0 THEN a ELSE gcd[<<b, a % b>>]
<1> DEFINE Row(h, a, b) == IF b = 0 THEN a ELSE h[<<b, a % b>>]
           Solves(h, n) == \A a \in Nat, b \in 0 .. n : h[<<a, b>>] = Row(h, a, b)
           Good(n) == \E h : Solves(h, n)
           Same(n) == \A g, h : Solves(g, n) /\ Solves(h, n) =>
                         \A a \in Nat, b \in 0 .. n : g[<<a, b>>] = h[<<a, b>>]
<1>1. \A a \in Nat, b \in Nat : b > 0 => a % b \in 0 .. b - 1
  OBVIOUS
<1>2. Good(0) /\ Same(0)
  <2>1. Solves([ab \in Nat \X {0} |-> ab[1]], 0)
    OBVIOUS
  <2>2. Same(0)
    <3>1. \A h : Solves(h, 0) => \A a \in Nat, b \in 0 .. 0 : h[<<a, b>>] = a
      OBVIOUS
    <3> HIDE DEF Solves
    <3> QED
      BY <3>1
  <2>3. Good(0)
    <3> HIDE DEF Solves
    <3> QED
      BY <2>1
  <2> QED
    BY <2>2, <2>3
<1>3. ASSUME NEW n \in Nat, Good(n), Same(n) PROVE Good(n + 1) /\ Same(n + 1)
  <2>1. PICK h : Solves(h, n)
    BY <1>3
  <2> DEFINE g == [ab \in Nat \X (0 .. n + 1) |-> Row(h, ab[1], ab[2])]
  <2>2. \A a \in Nat, b \in 0 .. n + 1 : g[<<a, b>>] = Row(h, a, b)
    OBVIOUS
  <2>3. \A a \in Nat, b \in 0 .. n + 1 : b # 0 => b \in Nat /\ a % b \in 0 .. n
    BY <1>1
  <2>4. \A a \in Nat, b \in 0 .. n : g[<<a, b>>] = h[<<a, b>>]
    <3>1. \A b \in 0 .. n : b \in 0 .. n + 1
      OBVIOUS
    <3> HIDE DEF g, Row
    <3> QED
      BY <2>1, <2>2, <3>1
  <2> HIDE DEF g
  <2>5. Solves(g, n + 1)
    BY <2>2, <2>3, <2>4, ZenonT(60)
  <2>6. ASSUME NEW p, NEW q, Solves(p, n + 1), Solves(q, n + 1),
               NEW a \in Nat, NEW b \in 0 .. n + 1
        PROVE  p[<<a, b>>] = q[<<a, b>>]
    <3>1. Solves(p, n) /\ Solves(q, n)
      BY <2>6
    <3>2. \A c \in Nat, d \in 0 .. n : p[<<c, d>>] = q[<<c, d>>]
      <4> HIDE DEF Solves
      <4> QED
        BY <1>3, <3>1, ZenonT(60)
    <3> QED
      <4>1. p[<<a, b>>] = Row(p, a, b) /\ q[<<a, b>>] = Row(q, a, b)
        BY <2>6
      <4>2. b # 0 => p[<<b, a % b>>] = q[<<b, a % b>>]
        BY <2>3, <3>2
      <4> QED
        BY <4>1, <4>2
  <2> QED
    <3> HIDE DEF Solves
    <3> QED
      BY <2>5, <2>6
<1>4. \A n \in Nat : Good(n) /\ Same(n)
  <2> DEFINE T == {n \in Nat : Good(n) /\ Same(n)}
  <2> HIDE DEF Good, Same
  <2>1. 0 \in T /\ \A n \in Nat : n \in T => n + 1 \in T
    BY <1>2, <1>3
  <2>2. Nat \subseteq T
    <3> HIDE DEF T
    <3> QED
      BY <2>1, Induction
  <2> QED
    BY <2>2
<1> DEFINE table == [n \in Nat |-> CHOOSE h : Solves(h, n)]
           f == [ab \in Nat \X Nat |-> table[ab[2]][ab]]
<1>5. \A n \in Nat : Solves(table[n], n)
  <2> HIDE DEF Solves
  <2> QED
    BY <1>4
<1>6. \A a, b \in Nat : f[<<a, b>>] = table[b][<<a, b>>]
  OBVIOUS
<1> HIDE DEF table
<1>7. ASSUME NEW a \in Nat, NEW b \in Nat PROVE f[<<a, b>>] = Row(f, a, b)
  <2>1. table[b][<<a, b>>] = Row(table[b], a, b)
    BY <1>5
  <2>2. CASE b = 0
    BY <1>6, <2>1, <2>2
  <2>3. CASE b # 0
    <3>1. a % b \in Nat /\ a % b \in 0 .. a % b /\ 0 .. a % b \subseteq 0 .. b
      BY <1>1, <2>3
    <3>2. Solves(table[b], a % b) /\ Solves(table[a % b], a % b)
      BY <1>5, <3>1
    <3>3. table[b][<<b, a % b>>] = table[a % b][<<b, a % b>>]
      <4> HIDE DEF Solves
      <4> QED
        BY <1>4, <3>1, <3>2
    <3> QED
      BY <1>6, <2>1, <2>3, <3>1, <3>3
  <2> QED
    BY <2>2, <2>3
<1> DEFINE Equation(g) == g = [ab \in Nat \X Nat |-> IF ab[2] = 0 THEN ab[1] ELSE g[<<ab[2], ab[1] % ab[2]>>]]
<1>8. Equation(f)
  <2>1. \A ab \in Nat \X Nat : ab = <<ab[1], ab[2]>> /\ ab[1] \in Nat /\ ab[2] \in Nat
    OBVIOUS
  <2>2. \A ab \in Nat \X Nat : f[ab] = Row(f, ab[1], ab[2])
    <3> HIDE DEF f, Row
    <3> QED
      BY <1>7, <2>1
  <2>3. f = [ab \in Nat \X Nat |-> f[ab]]
    OBVIOUS
  <2> HIDE DEF f
  <2> QED
    BY <2>2, <2>3, Zenon
<1>9. gcd = CHOOSE g : Equation(g)
  BY DEF gcd
<1>10. Equation(gcd)
  <2> HIDE DEF Equation, f
  <2> QED
    BY <1>8, <1>9, Zenon
<1> QED
  BY <1>10

LEMMA GcdBounds ==
  \A a, b \in Nat :
    /\ gcd[<<a, b>>] \in Nat
    /\ a > 0 \/ b > 0 => gcd[<<a, b>>] > 0
    /\ a > 0 => gcd[<<a, b>>] <= a
    /\ b > 0 => gcd[<<a, b>>] <= b
<1> DEFINE Bounds(a, b) ==
             /\ gcd[<<a, b>>] \in Nat
             /\ a > 0 \/ b > 0 => gcd[<<a, b>>] > 0
             /\ a > 0 => gcd[<<a, b>>] <= a
             /\ b > 0 => gcd[<<a, b>>] <= b
           Good(n) == \A a \in Nat, b \in 0 .. n : Bounds(a, b)
<1>1. Good(0)
  <2>1. \A a \in Nat, b \in 0 .. 0 : b = 0 /\ b \in Nat
    OBVIOUS
  <2>2. \A a \in Nat, b \in 0 .. 0 : gcd[<<a, b>>] = a
    BY <2>1, GcdUnfolds
  <2> QED
    BY <2>1, <2>2
<1>2. ASSUME NEW n \in Nat, Good(n) PROVE Good(n + 1)
  <2> SUFFICES ASSUME NEW a \in Nat, NEW b \in 0 .. n + 1, b # 0 PROVE Bounds(a, b)
    <3>1. \A a \in Nat : Bounds(a, 0)
      <4> HIDE DEF Bounds
      <4>1. 0 \in 0 .. n
        OBVIOUS
      <4> QED
        BY <1>2, <4>1
    <3> HIDE DEF Bounds
    <3> QED
      BY <3>1
  <2>1. b \in Nat /\ a % b \in 0 .. n /\ (a % b = 0 /\ a > 0 => b <= a) /\ a % b <= a
    OBVIOUS
  <2>2. gcd[<<a, b>>] = gcd[<<b, a % b>>]
    BY <2>1, GcdUnfolds
  <2>3. Bounds(b, a % b)
    BY <1>2, <2>1
  <2> QED
    BY <2>1, <2>2, <2>3
<1>3. \A n \in Nat : Good(n)
  <2> DEFINE T == {n \in Nat : Good(n)}
  <2> HIDE DEF Good
  <2>1. 0 \in T /\ \A n \in Nat : n \in T => n + 1 \in T
    BY <1>1, <1>2
  <2>2. Nat \subseteq T
    <3> HIDE DEF T
    <3> QED
      BY <2>1, Induction
  <2> QED
    BY <2>2
<1> HIDE DEF Bounds
<1>4. ASSUME NEW a \in Nat, NEW b \in Nat PROVE Bounds(a, b)
  <2>1. b \in 0 .. b
    OBVIOUS
  <2> QED
    BY <1>3, <2>1
<1> QED
  BY <1>4 DEF Bounds

Number == Int \X Nat

LEMMA FracType == \A n, d \in Int : Frac(n, d) \in Number
<1> SUFFICES ASSUME NEW n \in Int, NEW d \in Int PROVE Frac(n, d) \in Number
  OBVIOUS
<1>1. CASE d = 0
  BY <1>1 DEF Frac, Sign, Number
<1>2. CASE d # 0
  <2>1. Abs(n) \in Nat /\ Abs(d) \in Nat /\ Abs(d) > 0 /\ Sign(d) * n \in Int
    BY <1>2 DEF Abs, Sign
  <2> DEFINE g == gcd[<<Abs(n), Abs(d)>>]
  <2>2. g \in Nat /\ g > 0
    BY <2>1, GcdBounds
  <2>3. Frac(n, d) = <<(Sign(d) * n) \div g, Abs(d) \div g>>
    BY <1>2 DEF Frac
  <2> HIDE DEF g
  <2> QED
    BY <2>1, <2>2, <2>3 DEF Number
<1> QED
  BY <1>1, <1>2

\* There are finitely many functions between finite sets.
LEMMA FunctionsFinite == \A D : IsFiniteSet(D) => \A n \in Nat : IsFiniteSet([1 .. n -> D])
<1> SUFFICES ASSUME NEW D, IsFiniteSet(D) PROVE \A n \in Nat : IsFiniteSet([1 .. n -> D])
  OBVIOUS
<1> DEFINE Good(n) == IsFiniteSet([1 .. n -> D])
<1>1. Good(0)
  <2> DEFINE z == [i \in 1 .. 0 |-> 0]
  <2>1. \A f \in [1 .. 0 -> D] : f = z
    OBVIOUS
  <2>2. [1 .. 0 -> D] \subseteq {z}
    BY <2>1
  <2> HIDE DEF z
  <2>3. IsFiniteSet({z})
    BY FS_Singleton
  <2> QED
    BY <2>2, <2>3, FS_Subset
<1>2. ASSUME NEW n \in Nat, Good(n) PROVE Good(n + 1)
  <2> DEFINE S == [1 .. n -> D] \X D
             T == [1 .. n + 1 -> D]
             F(p) == [i \in 1 .. n + 1 |-> IF i <= n THEN p[1][i] ELSE p[2]]
             h == [p \in S |-> F(p)]
  <2>1. IsFiniteSet(S)
    BY <1>2, FS_Product
  <2>2. \A p \in S : F(p) \in T
    OBVIOUS
  <2>3. ASSUME NEW t \in T PROVE \E p \in S : F(p) = t
    <3> DEFINE p == <<[i \in 1 .. n |-> t[i]], t[n + 1]>>
    <3>1. p \in S
      OBVIOUS
    <3>2. F(p) = t
      OBVIOUS
    <3> QED
      BY <3>1, <3>2
  <2> HIDE DEF S, T, F
  <2>4. h \in Surjection(S, T)
    BY <2>2, <2>3 DEF Surjection
  <2> HIDE DEF h
  <2>5. IsFiniteSet(T)
    BY <2>1, <2>4, FS_Surjection
  <2> QED
    BY <2>5 DEF T
<1>3. \A n \in Nat : Good(n)
  <2> DEFINE T == {n \in Nat : Good(n)}
  <2> HIDE DEF Good
  <2>1. 0 \in T /\ \A n \in Nat : n \in T => n + 1 \in T
    BY <1>1, <1>2
  <2>2. Nat \subseteq T
    <3> HIDE DEF T
    <3> QED
      BY <2>1, Induction
  <2> QED
    BY <2>2
<1> QED
  BY <1>3

(***************************************************************************)
(* Iterating a function, hence powers of two.                              *)
(***************************************************************************)
LEMMA Iterated ==
  ASSUME NEW D, NEW x \in D, NEW g \in [D -> D]
  PROVE  \E f \in [Nat -> D] : f[0] = x /\ \A n \in Nat : f[n + 1] = g[f[n]]
<1> DEFINE Prefix(n, f) ==
             /\ f[0] = x
             /\ \A i \in 0 .. n : f[i] \in D
             /\ \A i \in 1 .. n : f[i] = g[f[i - 1]]
           Good(n) == \E f : Prefix(n, f)
           Same(n) == \A f, h : Prefix(n, f) /\ Prefix(n, h) => f[n] = h[n]
<1>1. Good(0) /\ Same(0)
  <2>1. Prefix(0, [i \in 0 .. 0 |-> x])
    OBVIOUS
  <2>2. Good(0)
    <3> HIDE DEF Prefix
    <3> QED
      BY <2>1
  <2> QED
    BY <2>2
<1>2. ASSUME NEW n \in Nat, Good(n), Same(n) PROVE Good(n + 1) /\ Same(n + 1)
  <2>1. PICK f : Prefix(n, f)
    BY <1>2
  <2>2. Good(n + 1)
    <3> DEFINE h == [i \in 0 .. n + 1 |-> IF i <= n THEN f[i] ELSE g[f[n]]]
    <3>1. Prefix(n + 1, h)
      BY <2>1
    <3> HIDE DEF Prefix, h
    <3> QED
      BY <3>1
  <2>3. ASSUME NEW p, NEW q, Prefix(n + 1, p), Prefix(n + 1, q) PROVE p[n + 1] = q[n + 1]
    <3>1. Prefix(n, p) /\ Prefix(n, q)
      BY <2>3
    <3>2. p[n] = q[n]
      <4> HIDE DEF Prefix
      <4> QED
        BY <1>2, <3>1
    <3>3. p[n + 1] = g[p[n]] /\ q[n + 1] = g[q[n]]
      BY <2>3
    <3> QED
      BY <3>2, <3>3, Zenon
  <2> QED
    <3> HIDE DEF Prefix
    <3> QED
      BY <2>2, <2>3
<1>3. \A n \in Nat : Good(n) /\ Same(n)
  <2> DEFINE T == {n \in Nat : Good(n) /\ Same(n)}
  <2> HIDE DEF Good, Same
  <2>1. 0 \in T /\ \A n \in Nat : n \in T => n + 1 \in T
    BY <1>1, <1>2
  <2>2. Nat \subseteq T
    <3> HIDE DEF T
    <3> QED
      BY <2>1, Induction
  <2> QED
    BY <2>2
<1> DEFINE P(n) == CHOOSE f : Prefix(n, f)
           F == [n \in Nat |-> P(n)[n]]
<1>4. \A n \in Nat : Prefix(n, P(n))
  <2> HIDE DEF Prefix
  <2> QED
    BY <1>3
<1>5. \A n \in Nat : P(n)[n] \in D /\ P(n)[0] = x
  <2> HIDE DEF P
  <2> QED
    BY <1>4
<1>6. F \in [Nat -> D] /\ F[0] = x
  <2> HIDE DEF P
  <2> QED
    BY <1>5
<1>7. ASSUME NEW n \in Nat PROVE F[n + 1] = g[F[n]]
  <2>1. n + 1 \in Nat /\ n + 1 - 1 = n
    OBVIOUS
  <2> DEFINE p == P(n + 1)
  <2>2. Prefix(n + 1, p)
    <3> HIDE DEF Prefix, P
    <3> QED
      BY <1>4, <2>1
  <2> HIDE DEF p
  <2>3. Prefix(n, p) /\ p[n + 1] = g[p[n]]
    BY <2>2
  <2>4. p[n] = P(n)[n]
    <3> HIDE DEF Prefix, P
    <3> QED
      BY <1>3, <1>4, <2>3
  <2>5. F[n + 1] = p[n + 1] /\ F[n] = P(n)[n]
    <3> HIDE DEF P
    <3> QED
      BY <2>1 DEF p
  <2> QED
    BY <2>3, <2>4, <2>5, Zenon
<1> QED
  <2> HIDE DEF F
  <2> QED
    BY <1>6, <1>7

IsIterate(D, x, g, f) ==
  f \in [Nat -> D] /\ f[0] = x /\ \A n \in Nat : f[n + 1] = g[f[n]]

Iterable(D, x, g) == \E f : IsIterate(D, x, g, f)

\* The same with a named conclusion, to cite by instances.
LEMMA AllIterable == \A D, x, g : x \in D /\ g \in [D -> D] => Iterable(D, x, g)
BY Iterated, SMT DEF Iterable, IsIterate

IsPowers(f) == f \in [Nat -> Nat \ {0}] /\ f[0] = 1 /\ \A n \in Nat : f[n + 1] = 2 * f[n]

Powers == CHOOSE f : IsPowers(f)

\* There are powers of two.
LEMMA PowersExist == IsPowers(Powers)
<1> DEFINE D == Nat \ {0}
           g == [n \in D |-> 2 * n]
<1>1. g \in [D -> D] /\ 1 \in D /\ \A n \in D : g[n] = 2 * n
  OBVIOUS
<1> HIDE DEF g
<1>2. PICK f : IsIterate(D, 1, g, f)
  <2> HIDE DEF D
  <2> QED
    BY <1>1, AllIterable, Zenon DEF Iterable
<1>3. IsPowers(f)
  BY <1>1, <1>2 DEF IsPowers, IsIterate
<1> QED
  BY <1>3, Zenon DEF Powers

\* They grow.
LEMMA PowersApart == \A m, n \in Nat : Powers[m] = Powers[n] => m = n
<1> USE PowersExist DEF IsPowers
<1> DEFINE Above(k) == \A m \in Nat : Powers[m] < Powers[m + k + 1]
<1>1. Above(0)
  OBVIOUS
<1>2. ASSUME NEW k \in Nat, Above(k) PROVE Above(k + 1)
  <2> SUFFICES ASSUME NEW m \in Nat PROVE Powers[m] < Powers[m + (k + 1) + 1]
    OBVIOUS
  <2>1. PICK i \in Nat : i = m + k + 1 /\ i + 1 = m + (k + 1) + 1
    OBVIOUS
  <2>2. Powers[m] < Powers[i] /\ Powers[i + 1] = 2 * Powers[i] /\ Powers[i] \in Nat /\ Powers[m] \in Nat
    BY <1>2, <2>1
  <2> QED
    BY <2>1, <2>2
<1>3. \A k \in Nat : Above(k)
  <2> DEFINE T == {k \in Nat : Above(k)}
  <2> HIDE DEF Above
  <2>1. 0 \in T /\ \A k \in Nat : k \in T => k + 1 \in T
    BY <1>1, <1>2
  <2>2. Nat \subseteq T
    <3> HIDE DEF T
    <3> QED
      BY <2>1, Induction
  <2> QED
    BY <2>2
<1>4. ASSUME NEW m \in Nat, NEW n \in Nat, m < n PROVE Powers[m] # Powers[n]
  <2>1. PICK k \in Nat : n = m + k + 1
    <3>1. n - m - 1 \in Nat /\ n = m + (n - m - 1) + 1
      BY <1>4
    <3> QED
      BY <3>1
  <2>2. Powers[m] < Powers[n] /\ Powers[m] \in Nat /\ Powers[n] \in Nat
    BY <1>3, <2>1
  <2> QED
    BY <2>2
<1> QED
  BY <1>4

(***************************************************************************)
(* Greatest common divisors.                                               *)
(***************************************************************************)
\* Products of numbers, as the arithmetic needs them.
LEMMA ProductPositive == \A a, b \in Nat \ {0} : a * b \in Nat \ {0}
OBVIOUS

\* Quotient and remainder are what they satisfy.
LEMMA RemainderUnique ==
  ASSUME NEW n \in Int, NEW m \in Nat \ {0}, NEW q \in Int, NEW r \in 0 .. m - 1, n = m * q + r
  PROVE  n \div m = q /\ n % m = r
<1> DEFINE p == n \div m
           s == n % m
<1>1. p \in Int /\ s \in 0 .. m - 1 /\ n = m * p + s
  OBVIOUS
<1> HIDE DEF p, s
<1>2. \A i, j \in Int : i < j => m * j >= m * i + m
  <2> SUFFICES ASSUME NEW i \in Int, NEW j \in Int, i < j PROVE m * j >= m * i + m
    OBVIOUS
  <2> DEFINE k == j - i - 1
  <2>1. k \in Nat /\ j = i + 1 + k
    OBVIOUS
  <2> HIDE DEF k
  <2>2. m * j = m * i + m + m * k
    BY <2>1
  <2>3. m * k \in Nat
    BY <2>1
  <2>4. m * i \in Int
    OBVIOUS
  <2> QED
    BY <2>2, <2>3, <2>4
<1>3. m * q \in Int /\ m * p \in Int
  BY <1>1
<1>4. ~(p < q)
  BY <1>1, <1>2, <1>3
<1>5. ~(q < p)
  BY <1>1, <1>2, <1>3
<1>6. p = q
  BY <1>1, <1>4, <1>5
<1> QED
  BY <1>1, <1>3, <1>6 DEF p, s

LEMMA ExactQuotient == \A k \in Nat \ {0}, p \in Int : (k * p) \div k = p
<1> TAKE k \in Nat \ {0}, p \in Int
<1>1. k * p \in Int /\ k * p = k * p + 0 /\ 0 \in 0 .. k - 1
  OBVIOUS
<1> QED
  BY <1>1, RemainderUnique

LEMMA RemainderScales ==
  \A k, b \in Nat \ {0}, a \in Nat : (k * a) % (k * b) = k * (a % b)
<1> TAKE k, b \in Nat \ {0}, a \in Nat
<1> DEFINE q == a \div b
           r == a % b
<1>1. q \in Int /\ r \in 0 .. b - 1 /\ a = b * q + r
  OBVIOUS
<1> HIDE DEF q, r
<1>2. k * b \in Nat \ {0} /\ k * a \in Int
  BY ProductPositive
<1>3. k * a = (k * b) * q + k * r
  BY <1>1
<1>4. k * r \in 0 .. (k * b) - 1
  <2> DEFINE j == b - 1 - r
  <2>1. j \in Nat /\ b = r + 1 + j
    BY <1>1
  <2> HIDE DEF j
  <2>2. k * b = k * r + k + k * j
    BY <1>1, <2>1
  <2>3. k * r \in Nat /\ k * j \in Nat
    BY <1>1, <2>1
  <2> QED
    BY <2>2, <2>3
<1> HIDE DEF r
<1>5. (k * a) % (k * b) = k * r
  BY <1>1, <1>2, <1>3, <1>4, RemainderUnique
<1> QED
  BY <1>5 DEF r

-------------------------------------------------------------------------------
LEMMA GcdScales ==
  \A k \in Nat \ {0}, a, b \in Nat : gcd[<<k * a, k * b>>] = k * gcd[<<a, b>>]
<1> SUFFICES ASSUME NEW k \in Nat \ {0} PROVE \A a, b \in Nat : gcd[<<k * a, k * b>>] = k * gcd[<<a, b>>]
  OBVIOUS
<1> DEFINE Good(n) == \A a \in Nat, b \in 0 .. n : gcd[<<k * a, k * b>>] = k * gcd[<<a, b>>]
<1>1. Good(0)
  <2> SUFFICES ASSUME NEW a \in Nat PROVE gcd[<<k * a, k * 0>>] = k * gcd[<<a, 0>>]
    OBVIOUS
  <2>1. k * a \in Nat /\ k * 0 = 0 /\ 0 \in Nat
    OBVIOUS
  <2>2. gcd[<<k * a, 0>>] = k * a /\ gcd[<<a, 0>>] = a
    BY <2>1, GcdUnfolds
  <2> QED
    BY <2>1, <2>2
<1>2. ASSUME NEW n \in Nat, Good(n) PROVE Good(n + 1)
  <2> SUFFICES ASSUME NEW a \in Nat, NEW b \in 0 .. n + 1
               PROVE  gcd[<<k * a, k * b>>] = k * gcd[<<a, b>>]
    OBVIOUS
  <2>1. CASE b = 0
    <3>1. 0 \in 0 .. n
      OBVIOUS
    <3> QED
      BY <1>2, <2>1, <3>1
  <2>2. CASE b # 0
    <3>1. b \in Nat \ {0} /\ a % b \in 0 .. n /\ a % b \in Nat
      BY <2>2
    <3>2. k * a \in Nat /\ k * b \in Nat /\ k * b # 0
      BY <3>1, ProductPositive
    <3>3. gcd[<<a, b>>] = gcd[<<b, a % b>>]
      BY <3>1, GcdUnfolds
    <3>4. gcd[<<k * a, k * b>>] = gcd[<<k * b, (k * a) % (k * b)>>]
      BY <3>2, GcdUnfolds
    <3>5. (k * a) % (k * b) = k * (a % b)
      BY <3>1, RemainderScales
    <3>6. gcd[<<k * b, k * (a % b)>>] = k * gcd[<<b, a % b>>]
      BY <1>2, <3>1
    <3> QED
      BY <3>3, <3>4, <3>5, <3>6
  <2> QED
    BY <2>1, <2>2
<1>3. \A n \in Nat : Good(n)
  <2> DEFINE T == {n \in Nat : Good(n)}
  <2> HIDE DEF Good
  <2>1. 0 \in T /\ \A n \in Nat : n \in T => n + 1 \in T
    BY <1>1, <1>2
  <2>2. Nat \subseteq T
    <3> HIDE DEF T
    <3> QED
      BY <2>1, Induction
  <2> QED
    BY <2>2
<1>4. ASSUME NEW a \in Nat, NEW b \in Nat PROVE gcd[<<k * a, k * b>>] = k * gcd[<<a, b>>]
  <2>1. b \in 0 .. b /\ Good(b)
    BY <1>3
  <2> QED
    BY <2>1
<1> QED
  BY <1>4

LEMMA GcdDivides ==
  \A a, b \in Nat : \E p, q \in Nat : a = gcd[<<a, b>>] * p /\ b = gcd[<<a, b>>] * q
<1> DEFINE Divides(a, b) == \E p, q \in Nat : a = gcd[<<a, b>>] * p /\ b = gcd[<<a, b>>] * q
           Good(n) == \A a \in Nat, b \in 0 .. n : Divides(a, b)
<1>1. Good(0)
  <2> SUFFICES ASSUME NEW a \in Nat PROVE Divides(a, 0)
    OBVIOUS
  <2>1. gcd[<<a, 0>>] = a
    BY GcdUnfolds
  <2>2. a = a * 1 /\ 0 = a * 0 /\ 0 \in Nat /\ 1 \in Nat
    OBVIOUS
  <2> QED
    BY <2>1, <2>2
<1>2. ASSUME NEW n \in Nat, Good(n) PROVE Good(n + 1)
  <2> SUFFICES ASSUME NEW a \in Nat, NEW b \in 0 .. n + 1 PROVE Divides(a, b)
    OBVIOUS
  <2>1. CASE b = 0
    <3>1. 0 \in 0 .. n
      OBVIOUS
    <3> QED
      BY <1>2, <2>1, <3>1
  <2>2. CASE b # 0
    <3> DEFINE c == a \div b
               r == a % b
    <3>1. b \in Nat \ {0} /\ r \in 0 .. n /\ r \in Nat /\ c \in Nat /\ a = b * c + r
      BY <2>2
    <3>2. gcd[<<a, b>>] = gcd[<<b, r>>]
      BY <3>1, GcdUnfolds
    <3> HIDE DEF c, r
    <3> DEFINE g == gcd[<<b, r>>]
    <3>3. Divides(b, r)
      BY <1>2, <3>1
    <3>4. PICK p, q \in Nat : b = g * p /\ r = g * q
      BY <3>3
    <3>5. g \in Nat
      BY <3>1, GcdBounds
    <3> HIDE DEF g
    <3>6. a = g * (p * c + q) /\ p * c + q \in Nat
      BY <3>1, <3>4, <3>5
    <3> QED
      BY <3>2, <3>4, <3>6 DEF g
  <2> QED
    BY <2>1, <2>2
<1>3. \A n \in Nat : Good(n)
  <2> DEFINE T == {n \in Nat : Good(n)}
  <2> HIDE DEF Good
  <2>1. 0 \in T /\ \A n \in Nat : n \in T => n + 1 \in T
    BY <1>1, <1>2
  <2>2. Nat \subseteq T
    <3> HIDE DEF T
    <3> QED
      BY <2>1, Induction
  <2> QED
    BY <2>2
<1> HIDE DEF Divides
<1>4. ASSUME NEW a \in Nat, NEW b \in Nat PROVE Divides(a, b)
  <2>1. b \in 0 .. b /\ Good(b)
    BY <1>3
  <2> QED
    BY <2>1
<1> QED
  BY <1>4 DEF Divides

LEMMA GcdCommutes == \A a, b \in Nat : gcd[<<a, b>>] = gcd[<<b, a>>]
<1>1. ASSUME NEW a \in Nat, NEW b \in Nat, a < b PROVE gcd[<<a, b>>] = gcd[<<b, a>>]
  <2>1. b # 0 /\ a = b * 0 + a /\ a \in 0 .. b - 1 /\ b \in Nat \ {0}
    BY <1>1
  <2>2. a % b = a
    BY <2>1, RemainderUnique
  <2> QED
    BY <2>1, <2>2, GcdUnfolds
<1>2. \A a, b \in Nat : a < b \/ a = b \/ b < a
  OBVIOUS
<1> QED
  BY <1>1, <1>2

Coprime(a, b) == gcd[<<a, b>>] = 1

\* A common divisor of numbers without one is 1.
LEMMA CoprimeFactor ==
  \A k, p, q \in Nat : Coprime(k * p, k * q) => k = 1
<1> SUFFICES ASSUME NEW k \in Nat, NEW p \in Nat, NEW q \in Nat, Coprime(k * p, k * q) PROVE k = 1
  OBVIOUS
<1>1. k # 0
  <2> SUFFICES ASSUME k = 0 PROVE FALSE
    OBVIOUS
  <2>1. k * p = 0 /\ k * q = 0 /\ 0 \in Nat
    OBVIOUS
  <2>2. gcd[<<0, 0>>] = 0
    BY <2>1, GcdUnfolds
  <2> QED
    BY <2>1, <2>2 DEF Coprime
<1>2. k * gcd[<<p, q>>] = 1
  BY <1>1, GcdScales DEF Coprime
<1>3. gcd[<<p, q>>] \in Nat
  BY GcdBounds
<1>4. \A i, j \in Nat : i * j = 1 => i = 1
  <2> SUFFICES ASSUME NEW i \in Nat, NEW j \in Nat, i * j = 1 PROVE i = 1
    OBVIOUS
  <2>1. i # 0 /\ j # 0
    OBVIOUS
  <2> DEFINE x == i - 1
             y == j - 1
  <2>2. x \in Nat /\ y \in Nat /\ i = x + 1 /\ j = y + 1
    BY <2>1
  <2> HIDE DEF x, y
  <2>3. x * y + x + y = 0
    BY <2>2
  <2>4. x * y \in Nat
    BY <2>2
  <2> QED
    BY <2>2, <2>3, <2>4
<1> QED
  BY <1>2, <1>3, <1>4

LEMMA CoprimeParts ==
  \A u, v, s, t \in Nat : Coprime(u * s, v * t) => Coprime(u, v)
<1> SUFFICES ASSUME NEW u \in Nat, NEW v \in Nat, NEW s \in Nat, NEW t \in Nat,
                    Coprime(u * s, v * t)
             PROVE  Coprime(u, v)
  OBVIOUS
<1> DEFINE h == gcd[<<u, v>>]
<1>1. PICK p, q \in Nat : u = h * p /\ v = h * q
  BY GcdDivides
<1>2. h \in Nat
  BY GcdBounds
<1> HIDE DEF h
<1>3. u * s = h * (p * s) /\ v * t = h * (q * t) /\ p * s \in Nat /\ q * t \in Nat
  BY <1>1, <1>2
<1>4. h = 1
  BY <1>2, <1>3, CoprimeFactor
<1> QED
  BY <1>4 DEF h, Coprime

LEMMA CoprimeProduct ==
  \A u, v, w \in Nat : Coprime(u, w) /\ Coprime(v, w) => Coprime(u * v, w)
<1> SUFFICES ASSUME NEW u \in Nat, NEW v \in Nat, NEW w \in Nat, Coprime(u, w), Coprime(v, w)
             PROVE  Coprime(u * v, w)
  OBVIOUS
<1> DEFINE d == gcd[<<u * v, w>>]
<1>1. u * v \in Nat /\ u * w \in Nat
  OBVIOUS
<1>2. d \in Nat
  BY <1>1, GcdBounds
<1>3. PICK p, q \in Nat : u * v = d * p /\ w = d * q
  BY <1>1, GcdDivides
<1> HIDE DEF d
<1>4. CASE u = 0
  <2>1. w = 1
    <3>1. 0 \in Nat
      OBVIOUS
    <3>2. gcd[<<w, 0>>] = w
      BY <3>1, GcdUnfolds
    <3> QED
      BY <1>4, <3>1, <3>2, GcdCommutes DEF Coprime
  <2>2. d * q = 1
    BY <1>3, <2>1
  <2>3. gcd[<<d * q, d * 0>>] = 1
    <3>1. 1 \in Nat /\ d * 0 = 0
      BY <1>2
    <3>2. gcd[<<1, 0>>] = 1
      BY <3>1, GcdUnfolds
    <3> QED
      BY <2>2, <3>1, <3>2
  <2>4. d = 1
    BY <1>2, <2>3, CoprimeFactor DEF Coprime
  <2> QED
    BY <2>4 DEF d, Coprime
<1>5. CASE u # 0
  <2>1. gcd[<<u * v, u * w>>] = u
    <3>1. gcd[<<u * v, u * w>>] = u * gcd[<<v, w>>]
      BY <1>5, GcdScales
    <3>2. u * 1 = u
      OBVIOUS
    <3> QED
      BY <3>1, <3>2 DEF Coprime
  <2>2. d # 0
    <3>1. CASE w # 0
      BY <1>3, <3>1
    <3>2. CASE w = 0
      <4>1. v = 1 /\ u = 1
        BY <3>2, GcdUnfolds DEF Coprime
      <4>2. u * v = 1
        BY <4>1
      <4> QED
        BY <1>3, <4>2
    <3> QED
      BY <3>1, <3>2
  <2> DEFINE t == gcd[<<p, u * q>>]
  <2>3. u * q \in Nat
    BY <1>3
  <2>4. t \in Nat
    BY <2>3, GcdBounds
  <2>5. u * w = d * (u * q)
    BY <1>2, <1>3
  <2>6. u = d * t
    <3>1. d \in Nat \ {0}
      BY <1>2, <2>2
    <3>2. gcd[<<d * p, d * (u * q)>>] = d * t
      BY <1>3, <2>3, <3>1, GcdScales
    <3> HIDE DEF t
    <3> QED
      BY <1>3, <2>1, <2>5, <3>2
  <2> HIDE DEF t
  <2>7. Coprime(d * t, d * q)
    BY <1>3, <2>6 DEF Coprime
  <2>8. d = 1
    BY <1>2, <2>4, <2>7, CoprimeFactor
  <2> QED
    BY <2>8 DEF d, Coprime
<1> QED
  BY <1>4, <1>5

(***************************************************************************)
(* Fractions in lowest terms, and what they are worth.                     *)
(***************************************************************************)
\* The finite doubles: fractions in lowest terms.
Rationals == {x \in Int \X (Nat \ {0}) : Coprime(Abs(x[1]), x[2])}

LEMMA AbsFacts ==
  /\ \A n \in Int : Abs(n) \in Nat /\ (Abs(n) = n \/ Abs(n) = 0 - n)
  /\ \A n \in Nat : Abs(n) = n
  /\ \A m, n \in Int : Abs(m * n) = Abs(m) * Abs(n)
  /\ \A n \in Int : Abs(0 - n) = Abs(n)
  /\ \A n \in Nat \ {0} : Sign(n) = 1
<1>1. \A n \in Int : Abs(n) \in Nat /\ (Abs(n) = n \/ Abs(n) = 0 - n)
  BY DEF Abs
<1>2. \A n \in Nat : Abs(n) = n
  BY DEF Abs
<1>3. \A n \in Int : Abs(0 - n) = Abs(n)
  BY DEF Abs
<1>4. \A n \in Nat \ {0} : Sign(n) = 1
  BY DEF Sign
<1>5. ASSUME NEW m \in Int, NEW n \in Int PROVE Abs(m * n) = Abs(m) * Abs(n)
  <2>1. \A i, j \in Nat : i * j \in Nat /\ (0 - i) * j = 0 - i * j /\ i * (0 - j) = 0 - i * j
                          /\ (0 - i) * (0 - j) = i * j
    OBVIOUS
  <2> DEFINE i == Abs(m)
             j == Abs(n)
  <2>2. i \in Nat /\ j \in Nat /\ (m = i \/ m = 0 - i) /\ (n = j \/ n = 0 - j)
    BY <1>1
  <2> HIDE DEF i, j
  <2>3. i * j \in Nat /\ (m * n = i * j \/ m * n = 0 - i * j)
    BY <2>1, <2>2
  <2>4. Abs(m * n) = i * j
    BY <1>2, <1>3, <2>3
  <2> QED
    BY <2>4 DEF i, j
<1> QED
  BY <1>1, <1>2, <1>3, <1>4, <1>5

\* What reducing a fraction does to it.
LEMMA FracReduces ==
  \A n \in Int, d \in Nat \ {0} :
    /\ Frac(n, d) \in Rationals
    /\ \E g \in Nat \ {0} : n = g * Frac(n, d)[1] /\ d = g * Frac(n, d)[2]
<1> SUFFICES ASSUME NEW n \in Int, NEW d \in Nat \ {0}
             PROVE  /\ Frac(n, d) \in Rationals
                    /\ \E g \in Nat \ {0} : n = g * Frac(n, d)[1] /\ d = g * Frac(n, d)[2]
  OBVIOUS
<1> DEFINE g == gcd[<<Abs(n), d>>]
<1>1. Abs(n) \in Nat /\ Abs(d) = d /\ Sign(d) = 1 /\ (Abs(n) = n \/ Abs(n) = 0 - n)
  BY AbsFacts
<1>2. g \in Nat \ {0}
  BY <1>1, GcdBounds
<1>3. PICK p, q \in Nat : Abs(n) = g * p /\ d = g * q
  BY <1>1, GcdDivides
<1>4. Frac(n, d) = <<(1 * n) \div g, d \div g>>
  BY <1>1 DEF Frac
<1>5. g * 1 = g * gcd[<<p, q>>] /\ gcd[<<p, q>>] \in Nat
  <2>1. gcd[<<g * p, g * q>>] = g * gcd[<<p, q>>]
    BY <1>2, GcdScales
  <2>2. gcd[<<g * p, g * q>>] = g
    BY <1>3
  <2>3. gcd[<<p, q>>] \in Nat
    BY GcdBounds
  <2> HIDE DEF g
  <2> QED
    BY <1>2, <2>1, <2>2, <2>3
<1> HIDE DEF g
<1>6. Coprime(p, q)
  <2>1. (g * 1) \div g = 1 /\ (g * gcd[<<p, q>>]) \div g = gcd[<<p, q>>]
    BY <1>2, <1>5, ExactQuotient
  <2> QED
    BY <1>5, <2>1 DEF Coprime
<1>7. PICK m \in Int : n = g * m /\ (m = p \/ m = 0 - p)
  <2>1. CASE Abs(n) = n
    BY <1>3, <2>1
  <2>2. CASE Abs(n) = 0 - n
    <3>1. n = g * (0 - p) /\ 0 - p \in Int
      BY <1>2, <1>3, <2>2
    <3> QED
      BY <3>1
  <2> QED
    BY <1>1, <2>1, <2>2
<1>8. Frac(n, d) = <<m, q>>
  <2>1. 1 * n = g * m
    BY <1>7
  <2>2. (g * m) \div g = m /\ (g * q) \div g = q
    BY <1>2, <1>7, ExactQuotient
  <2> QED
    BY <1>3, <1>4, <2>1, <2>2
<1>9. q # 0
  BY <1>2, <1>3
<1>10. Abs(m) = p
  BY <1>7 DEF Abs
<1> DEFINE x == <<m, q>>
<1>11. x[1] = m /\ x[2] = q /\ x \in Int \X (Nat \ {0})
  BY <1>9
<1>12. x \in Rationals
  BY <1>6, <1>10, <1>11 DEF Rationals
<1>13. n = g * x[1] /\ d = g * x[2]
  BY <1>3, <1>7, <1>11
<1> HIDE DEF x
<1> QED
  BY <1>2, <1>8, <1>12, <1>13, Zenon DEF x

LEMMA RationalParts ==
  \A x \in Rationals :
    /\ x = <<x[1], x[2]>> /\ x[1] \in Int /\ x[2] \in Nat \ {0} /\ x \in Number
    /\ Coprime(Abs(x[1]), x[2]) /\ Frac(x[1], x[2]) = x /\ IsFinite(x)
<1> SUFFICES ASSUME NEW x \in Rationals
             PROVE  /\ x = <<x[1], x[2]>> /\ x[1] \in Int /\ x[2] \in Nat \ {0} /\ x \in Number
                    /\ Coprime(Abs(x[1]), x[2]) /\ Frac(x[1], x[2]) = x /\ IsFinite(x)
  OBVIOUS
<1>1. /\ x = <<x[1], x[2]>> /\ x[1] \in Int /\ x[2] \in Nat \ {0}
      /\ Coprime(Abs(x[1]), x[2])
  BY DEF Rationals
<1>2. Abs(x[2]) = x[2] /\ Sign(x[2]) = 1 /\ x[2] # 0
  BY <1>1, AbsFacts
<1>3. Frac(x[1], x[2]) = <<(1 * x[1]) \div 1, x[2] \div 1>>
  BY <1>1, <1>2 DEF Frac, Coprime
<1>4. \A k \in Int : (1 * k) \div 1 = k /\ k \div 1 = k
  OBVIOUS
<1>5. Frac(x[1], x[2]) = x
  BY <1>1, <1>3, <1>4
<1>6. x \in Number /\ IsFinite(x)
  BY <1>1 DEF Number, IsFinite
<1> QED
  BY <1>1, <1>5, <1>6

LEMMA FracScales ==
  \A k, d \in Nat \ {0}, n \in Int : Frac(k * n, k * d) = Frac(n, d)
<1> TAKE k, d \in Nat \ {0}, n \in Int
<1> DEFINE x == Frac(n, d)
           g == gcd[<<Abs(n), d>>]
<1>1. /\ Abs(n) \in Nat /\ Abs(d) = d /\ Sign(d) = 1 /\ Sign(k * d) = 1
      /\ k * d \in Nat \ {0} /\ Abs(k * d) = k * d /\ k * n \in Int /\ Abs(k * n) = k * Abs(n)
  <2>1. k * d \in Nat \ {0} /\ k * n \in Int /\ k \in Int
    BY ProductPositive
  <2>2. Abs(n) \in Nat /\ Abs(d) = d /\ Sign(d) = 1 /\ Abs(k) = k
    BY DEF Abs, Sign
  <2>3. Sign(k * d) = 1 /\ Abs(k * d) = k * d
    BY <2>1 DEF Abs, Sign
  <2>4. Abs(k * n) = Abs(k) * Abs(n)
    BY <2>1, AbsFacts, Zenon
  <2> QED
    BY <2>1, <2>2, <2>3, <2>4
<1>2. gcd[<<k * Abs(n), k * d>>] = k * g
  BY <1>1, GcdScales
<1>3. g \in Nat \ {0}
  BY <1>1, GcdBounds
<1>4. Frac(k * n, k * d) = <<(1 * (k * n)) \div (k * g), (k * d) \div (k * g)>>
  BY <1>1, <1>2 DEF Frac
<1>5. Frac(n, d) = <<(1 * n) \div g, d \div g>>
  BY <1>1 DEF Frac
<1>6. PICK p, q \in Nat : Abs(n) = g * p /\ d = g * q
  BY <1>1, GcdDivides
<1> HIDE DEF g
<1>7. PICK m \in Int : n = g * m
  <2>1. CASE Abs(n) = n
    BY <1>6, <2>1
  <2>2. CASE Abs(n) = 0 - n
    <3>1. n = g * (0 - p) /\ 0 - p \in Int
      BY <1>3, <1>6, <2>2
    <3> QED
      BY <3>1
  <2> QED
    BY <2>1, <2>2, AbsFacts
<1>8. k * g \in Nat \ {0}
  BY <1>3, ProductPositive
<1>9. 1 * (k * n) = (k * g) * m /\ k * d = (k * g) * q /\ 1 * n = g * m
  BY <1>3, <1>6, <1>7
<1>10. ((k * g) * m) \div (k * g) = m /\ ((k * g) * q) \div (k * g) = q
  BY <1>8, ExactQuotient
<1>11. (g * m) \div g = m /\ (g * q) \div g = q
  BY <1>3, ExactQuotient
<1> QED
  BY <1>4, <1>5, <1>6, <1>9, <1>10, <1>11

\* Fractions are equal when their cross products are.
LEMMA FracEqual ==
  \A n, m \in Int, d, e \in Nat \ {0} : Frac(n, d) = Frac(m, e) <=> n * e = m * d
<1> SUFFICES ASSUME NEW n \in Int, NEW m \in Int, NEW d \in Nat \ {0}, NEW e \in Nat \ {0}
             PROVE  Frac(n, d) = Frac(m, e) <=> n * e = m * d
  OBVIOUS
<1>1. ASSUME n * e = m * d PROVE Frac(n, d) = Frac(m, e)
  <2>1. Frac(e * n, e * d) = Frac(n, d) /\ Frac(d * m, d * e) = Frac(m, e)
    BY FracScales
  <2>2. e * n = d * m /\ e * d = d * e
    BY <1>1
  <2> QED
    BY <2>1, <2>2
<1>2. ASSUME Frac(n, d) = Frac(m, e) PROVE n * e = m * d
  <2> DEFINE x == Frac(n, d)
  <2>1. PICK g \in Nat \ {0} : n = g * x[1] /\ d = g * x[2]
    BY FracReduces
  <2>2. PICK h \in Nat \ {0} : m = h * x[1] /\ e = h * x[2]
    <3>1. \E h \in Nat \ {0} : m = h * Frac(m, e)[1] /\ e = h * Frac(m, e)[2]
      BY FracReduces
    <3> QED
      BY <1>2, <3>1, Zenon
  <2>3. x \in Rationals
    BY FracReduces
  <2> HIDE DEF x
  <2>4. x[1] \in Int /\ x[2] \in Int
    BY <2>3, RationalParts
  <2> QED
    BY <2>1, <2>2, <2>4
<1> QED
  BY <1>1, <1>2

\* A fraction's value.
LEMMA FracValue ==
  \A n \in Int, d \in Nat \ {0} :
    /\ Frac(n, d) \in Rationals
    /\ Frac(n, d)[1] * d = n * Frac(n, d)[2]
<1> SUFFICES ASSUME NEW n \in Int, NEW d \in Nat \ {0}
             PROVE  Frac(n, d) \in Rationals /\ Frac(n, d)[1] * d = n * Frac(n, d)[2]
  OBVIOUS
<1> DEFINE x == Frac(n, d)
<1>1. x \in Rationals
  BY FracReduces
<1>2. PICK g \in Nat \ {0} : n = g * x[1] /\ d = g * x[2]
  BY FracReduces
<1>3. x[1] \in Int /\ x[2] \in Int
  BY <1>1, RationalParts
<1> HIDE DEF x
<1>4. x[1] * d = n * x[2]
  BY <1>2, <1>3
<1> QED
  BY <1>1, <1>4 DEF x

(***************************************************************************)
(* Sums, products, quotients and order of fractions.                       *)
(***************************************************************************)
LEMMA PlusParts ==
  \A x, y \in Rationals : Plus(x, y) = Frac(x[1] * y[2] + y[1] * x[2], x[2] * y[2])
<1> SUFFICES ASSUME NEW x \in Rationals, NEW y \in Rationals
             PROVE  Plus(x, y) = Frac(x[1] * y[2] + y[1] * x[2], x[2] * y[2])
  OBVIOUS
<1> DEFINE a == x[1]
           b == x[2]
           c == y[1]
           d == y[2]
           g == gcd[<<b, d>>]
<1>1. a \in Int /\ b \in Nat \ {0} /\ c \in Int /\ d \in Nat \ {0} /\ IsFinite(x) /\ IsFinite(y)
  BY RationalParts
<1>2. Plus(x, y) = Frac(a * (d \div g) + c * (b \div g), (b \div g) * d)
  BY <1>1, Zenon DEF Plus
<1>3. g \in Nat \ {0}
  BY <1>1, GcdBounds
<1>4. PICK p, q \in Nat : b = g * p /\ d = g * q
  BY <1>1, GcdDivides
<1> HIDE DEF a, b, c, d, g
<1>5. b \div g = p /\ d \div g = q
  BY <1>3, <1>4, ExactQuotient
<1>6. p # 0 /\ q # 0
  BY <1>1, <1>3, <1>4
<1>7. Plus(x, y) = Frac(a * q + c * p, p * d)
  BY <1>2, <1>5
<1>8. /\ a * q + c * p \in Int /\ p * d \in Nat \ {0} /\ a * d + c * b \in Int
      /\ b * d \in Nat \ {0}
  BY <1>1, <1>6, ProductPositive
<1>9. (a * q + c * p) * (b * d) = (a * d + c * b) * (p * d)
  <2>1. (a * q + c * p) * ((g * p) * d) = (a * (g * q) + c * (g * p)) * (p * d)
    BY <1>1, <1>3
  <2> QED
    BY <1>4, <2>1
<1>10. Frac(a * q + c * p, p * d) = Frac(a * d + c * b, b * d)
  BY <1>8, <1>9, FracEqual
<1> QED
  BY <1>7, <1>10 DEF a, b, c, d

LEMMA TimesParts ==
  \A x, y \in Rationals : Times(x, y) = Frac(x[1] * y[1], x[2] * y[2])
<1> SUFFICES ASSUME NEW x \in Rationals, NEW y \in Rationals
             PROVE  Times(x, y) = Frac(x[1] * y[1], x[2] * y[2])
  OBVIOUS
<1> DEFINE a == Frac(x[1], y[2])
           b == Frac(y[1], x[2])
<1>1. /\ x[1] \in Int /\ x[2] \in Nat \ {0} /\ y[1] \in Int /\ y[2] \in Nat \ {0}
      /\ Coprime(Abs(x[1]), x[2]) /\ Coprime(Abs(y[1]), y[2]) /\ IsFinite(x) /\ IsFinite(y)
  BY RationalParts
<1>2. Times(x, y) = <<a[1] * b[1], a[2] * b[2]>>
  BY <1>1, Zenon DEF Times
<1>3. a \in Rationals /\ b \in Rationals
  BY <1>1, FracReduces
<1>4. PICK g \in Nat \ {0} : x[1] = g * a[1] /\ y[2] = g * a[2]
  BY <1>1, FracReduces
<1>5. PICK h \in Nat \ {0} : y[1] = h * b[1] /\ x[2] = h * b[2]
  BY <1>1, FracReduces
<1> HIDE DEF a, b
<1> DEFINE i == a[1]
           j == a[2]
           k == b[1]
           l == b[2]
<1>6. /\ i \in Int /\ j \in Nat \ {0} /\ k \in Int /\ l \in Nat \ {0}
      /\ Coprime(Abs(i), j) /\ Coprime(Abs(k), l)
  BY <1>3, RationalParts
<1> HIDE DEF i, j, k, l
<1>7. x[1] = g * i /\ y[2] = g * j /\ y[1] = h * k /\ x[2] = h * l
  BY <1>4, <1>5 DEF i, j, k, l
<1>8. Abs(i) \in Nat /\ Abs(k) \in Nat /\ Abs(g) = g /\ Abs(h) = h
  BY <1>6 DEF Abs
<1>9. Coprime(Abs(i), l)
  <2>1. Abs(x[1]) = g * Abs(i)
    BY <1>6, <1>7, <1>8, AbsFacts
  <2>2. g * Abs(i) = Abs(i) * g /\ h * l = l * h /\ g \in Nat /\ h \in Nat /\ l \in Nat
    BY <1>6, <1>8
  <2>3. Coprime(Abs(i) * g, l * h)
    BY <1>1, <1>7, <2>1, <2>2, Zenon
  <2> QED
    BY <1>8, <2>2, <2>3, CoprimeParts, Zenon
<1>10. Coprime(Abs(k), j)
  <2>1. Abs(y[1]) = h * Abs(k)
    BY <1>6, <1>7, <1>8, AbsFacts
  <2>2. h * Abs(k) = Abs(k) * h /\ g * j = j * g /\ g \in Nat /\ h \in Nat /\ j \in Nat
    BY <1>6, <1>8
  <2>3. Coprime(Abs(k) * h, j * g)
    BY <1>1, <1>7, <2>1, <2>2, Zenon
  <2> QED
    BY <1>8, <2>2, <2>3, CoprimeParts, Zenon
<1>11. Coprime(j * l, Abs(i)) /\ Coprime(j * l, Abs(k))
  <2>1. j \in Nat /\ l \in Nat
    BY <1>6
  <2>2. Coprime(j, Abs(i)) /\ Coprime(l, Abs(i)) /\ Coprime(j, Abs(k)) /\ Coprime(l, Abs(k))
    BY <1>6, <1>8, <1>9, <1>10, <2>1, GcdCommutes, Zenon DEF Coprime
  <2> QED
    BY <1>8, <2>1, <2>2, CoprimeProduct, Zenon
<1>12. Coprime(Abs(i * k), j * l)
  <2>1. j * l \in Nat
    BY <1>6
  <2>2. Coprime(Abs(i), j * l) /\ Coprime(Abs(k), j * l)
    BY <1>8, <1>11, <2>1, GcdCommutes, Zenon DEF Coprime
  <2>3. Coprime(Abs(i) * Abs(k), j * l)
    BY <1>8, <2>1, <2>2, CoprimeProduct, Zenon
  <2>4. Abs(i * k) = Abs(i) * Abs(k)
    BY <1>6, AbsFacts, Zenon
  <2> QED
    BY <2>3, <2>4
<1>13. i * k \in Int /\ j * l \in Nat \ {0} /\ (g * i) * (h * k) \in Int /\ (h * l) * (g * j) \in Nat \ {0}
  BY <1>6, ProductPositive
<1>14. <<i * k, j * l>> \in Rationals
  BY <1>12, <1>13 DEF Rationals
<1>15. <<i * k, j * l>> = Frac(i * k, j * l)
  <2> DEFINE r == <<i * k, j * l>>
  <2>1. Frac(r[1], r[2]) = r
    BY <1>14, RationalParts
  <2> QED
    BY <2>1
<1>16. Frac(i * k, j * l) = Frac((g * i) * (h * k), (h * l) * (g * j))
  <2>1. (i * k) * ((h * l) * (g * j)) = ((g * i) * (h * k)) * (j * l)
    BY <1>6
  <2> QED
    BY <1>13, <2>1, FracEqual
<1> QED
  BY <1>2, <1>7, <1>15, <1>16 DEF i, j, k, l

(***************************************************************************)
(* The operations on fractions, whatever stands for them.                  *)
(***************************************************************************)
LEMMA FracPlus ==
  \A n, m \in Int, d, e \in Nat \ {0} :
    Plus(Frac(n, d), Frac(m, e)) = Frac(n * e + m * d, d * e)
<1> SUFFICES ASSUME NEW n \in Int, NEW m \in Int, NEW d \in Nat \ {0}, NEW e \in Nat \ {0}
             PROVE  Plus(Frac(n, d), Frac(m, e)) = Frac(n * e + m * d, d * e)
  OBVIOUS
<1> DEFINE x == Frac(n, d)
           y == Frac(m, e)
<1>1. x \in Rationals /\ y \in Rationals /\ x[1] * d = n * x[2] /\ y[1] * e = m * y[2]
  BY FracValue
<1> HIDE DEF x, y
<1>2. x[1] \in Int /\ x[2] \in Nat \ {0} /\ y[1] \in Int /\ y[2] \in Nat \ {0}
  BY <1>1, RationalParts
<1> DEFINE p == x[1]
           q == x[2]
           r == y[1]
           s == y[2]
<1>3. Plus(x, y) = Frac(p * s + r * q, q * s)
  BY <1>1, PlusParts
<1>4. p \in Int /\ q \in Nat \ {0} /\ r \in Int /\ s \in Nat \ {0} /\ p * d = n * q /\ r * e = m * s
  BY <1>1, <1>2
<1> HIDE DEF p, q, r, s
<1>5. p * s + r * q \in Int /\ q * s \in Nat \ {0} /\ n * e + m * d \in Int /\ d * e \in Nat \ {0}
  BY <1>4, ProductPositive
<1>6. (p * s + r * q) * (d * e) = (n * e + m * d) * (q * s)
  <2>1. (p * s + r * q) * (d * e) = (p * d) * (s * e) + (r * e) * (q * d)
    BY <1>4
  <2>2. (n * q) * (s * e) + (m * s) * (q * d) = (n * e + m * d) * (q * s)
    BY <1>4
  <2> QED
    BY <1>4, <2>1, <2>2
<1> QED
  BY <1>3, <1>5, <1>6, FracEqual DEF x, y

LEMMA FracTimes ==
  \A n, m \in Int, d, e \in Nat \ {0} : Times(Frac(n, d), Frac(m, e)) = Frac(n * m, d * e)
<1> SUFFICES ASSUME NEW n \in Int, NEW m \in Int, NEW d \in Nat \ {0}, NEW e \in Nat \ {0}
             PROVE  Times(Frac(n, d), Frac(m, e)) = Frac(n * m, d * e)
  OBVIOUS
<1> DEFINE x == Frac(n, d)
           y == Frac(m, e)
<1>1. x \in Rationals /\ y \in Rationals /\ x[1] * d = n * x[2] /\ y[1] * e = m * y[2]
  BY FracValue
<1> HIDE DEF x, y
<1>2. x[1] \in Int /\ x[2] \in Nat \ {0} /\ y[1] \in Int /\ y[2] \in Nat \ {0}
  BY <1>1, RationalParts
<1> DEFINE p == x[1]
           q == x[2]
           r == y[1]
           s == y[2]
<1>3. Times(x, y) = Frac(p * r, q * s)
  BY <1>1, TimesParts
<1>4. p \in Int /\ q \in Nat \ {0} /\ r \in Int /\ s \in Nat \ {0} /\ p * d = n * q /\ r * e = m * s
  BY <1>1, <1>2
<1> HIDE DEF p, q, r, s
<1>5. p * r \in Int /\ q * s \in Nat \ {0} /\ n * m \in Int /\ d * e \in Nat \ {0}
  BY <1>4, ProductPositive
<1>6. (p * r) * (d * e) = (n * m) * (q * s)
  <2>1. (p * r) * (d * e) = (p * d) * (r * e)
    BY <1>4
  <2>2. (n * q) * (m * s) = (n * m) * (q * s)
    BY <1>4
  <2> QED
    BY <1>4, <2>1, <2>2
<1> QED
  BY <1>3, <1>5, <1>6, FracEqual DEF x, y

LEMMA FracNegative == \A n \in Int, d \in Nat \ {0} : Negative(Frac(n, d)) = Frac(0 - n, d)
<1> SUFFICES ASSUME NEW n \in Int, NEW d \in Nat \ {0} PROVE Negative(Frac(n, d)) = Frac(0 - n, d)
  OBVIOUS
<1> DEFINE x == Frac(n, d)
<1>1. x \in Rationals /\ x[1] * d = n * x[2]
  BY FracValue
<1> HIDE DEF x
<1>2. x[1] \in Int /\ x[2] \in Nat \ {0} /\ Coprime(Abs(x[1]), x[2])
  BY <1>1, RationalParts
<1> DEFINE p == x[1]
           q == x[2]
<1>3. p \in Int /\ q \in Nat \ {0} /\ p * d = n * q /\ Coprime(Abs(p), q)
  BY <1>1, <1>2
<1>4. Negative(x) = <<0 - p, q>>
  <2>1. \A k \in Int : -k = 0 - k
    OBVIOUS
  <2> QED
    BY <1>3, <2>1, Zenon DEF Negative
<1> HIDE DEF p, q
<1> DEFINE z == <<0 - p, q>>
<1>5. z[1] = 0 - p /\ z[2] = q /\ z \in Int \X (Nat \ {0}) /\ Abs(0 - p) = Abs(p)
  BY <1>3 DEF Abs
<1>6. z \in Rationals
  BY <1>3, <1>5 DEF Rationals
<1>7. Frac(0 - p, q) = z
  BY <1>5, <1>6, RationalParts
<1> HIDE DEF z
<1>8. (0 - p) * d = (0 - n) * q /\ 0 - p \in Int /\ 0 - n \in Int
  <2>1. (0 - p) * d = 0 - p * d /\ (0 - n) * q = 0 - n * q
    BY <1>3
  <2> QED
    BY <1>3, <2>1
<1>9. Frac(0 - p, q) = Frac(0 - n, d)
  BY <1>3, <1>8, FracEqual
<1> QED
  BY <1>4, <1>7, <1>9 DEF x, z

LEMMA FracMinus ==
  \A n, m \in Int, d, e \in Nat \ {0} :
    Minus(Frac(n, d), Frac(m, e)) = Frac(n * e - m * d, d * e)
<1> SUFFICES ASSUME NEW n \in Int, NEW m \in Int, NEW d \in Nat \ {0}, NEW e \in Nat \ {0}
             PROVE  Minus(Frac(n, d), Frac(m, e)) = Frac(n * e - m * d, d * e)
  OBVIOUS
<1>1. 0 - m \in Int /\ n * e + (0 - m) * d = n * e - m * d
  OBVIOUS
<1>2. Minus(Frac(n, d), Frac(m, e)) = Plus(Frac(n, d), Frac(0 - m, e))
  BY FracNegative, Zenon DEF Minus
<1>3. Plus(Frac(n, d), Frac(0 - m, e)) = Frac(n * e + (0 - m) * d, d * e)
  BY <1>1, FracPlus
<1> QED
  BY <1>1, <1>2, <1>3

\* The reciprocal that Over multiplies with.
Flipped(y) == IF y[1] < 0 THEN <<-y[2], -y[1]>> ELSE <<y[2], y[1]>>

LEMMA FracFlipped ==
  \A m \in Int, e \in Nat \ {0} :
    /\ m > 0 => Flipped(Frac(m, e)) = Frac(e, m)
    /\ m < 0 => Flipped(Frac(m, e)) = Frac(0 - e, 0 - m)
<1> SUFFICES ASSUME NEW m \in Int, NEW e \in Nat \ {0}
             PROVE  /\ m > 0 => Flipped(Frac(m, e)) = Frac(e, m)
                    /\ m < 0 => Flipped(Frac(m, e)) = Frac(0 - e, 0 - m)
  OBVIOUS
<1> DEFINE y == Frac(m, e)
<1>1. PICK g \in Nat \ {0} : m = g * y[1] /\ e = g * y[2]
  BY FracReduces
<1>2. y \in Rationals
  BY FracReduces
<1> HIDE DEF y
<1> DEFINE p == y[1]
           q == y[2]
<1>3. p \in Int /\ q \in Nat \ {0} /\ Coprime(Abs(p), q) /\ m = g * p /\ e = g * q
  BY <1>1, <1>2, RationalParts
<1>4. Flipped(y) = IF p < 0 THEN <<-q, -p>> ELSE <<q, p>>
  BY DEF Flipped
<1> HIDE DEF p, q
<1>5. \A k \in Int : -k = 0 - k
  OBVIOUS
<1>6. (m > 0 => p > 0) /\ (m < 0 => p < 0)
  BY <1>3
<1>7. Coprime(q, Abs(p))
  <2>1. Abs(p) \in Nat /\ q \in Nat
    BY <1>3, AbsFacts
  <2> QED
    BY <1>3, <2>1, GcdCommutes, Zenon DEF Coprime
<1>8. ASSUME m > 0 PROVE Flipped(y) = Frac(e, m)
  <2>1. p \in Nat \ {0} /\ m \in Nat \ {0} /\ Abs(p) = p /\ Abs(q) = q /\ ~(p < 0)
    BY <1>3, <1>6, <1>8 DEF Abs
  <2> DEFINE z == <<q, p>>
  <2>2. z[1] = q /\ z[2] = p /\ z \in Int \X (Nat \ {0})
    BY <1>3, <2>1
  <2>3. z \in Rationals
    BY <1>7, <2>1, <2>2 DEF Rationals
  <2>4. Frac(q, p) = z
    BY <2>2, <2>3, RationalParts
  <2>5. Flipped(y) = z
    BY <1>4, <2>1
  <2> HIDE DEF z
  <2>6. Frac(g * q, g * p) = Frac(q, p)
    <3>1. q \in Int
      BY <1>3
    <3> QED
      BY <2>1, <3>1, FracScales, Zenon
  <2> QED
    BY <1>3, <2>4, <2>5, <2>6
<1>9. ASSUME m < 0 PROVE Flipped(y) = Frac(0 - e, 0 - m)
  <2>1. 0 - p \in Nat \ {0} /\ 0 - m \in Nat \ {0} /\ Abs(p) = 0 - p /\ Abs(0 - q) = q /\ p < 0
        /\ 0 - q \in Int
    BY <1>3, <1>6, <1>9 DEF Abs
  <2> DEFINE z == <<0 - q, 0 - p>>
  <2>2. z[1] = 0 - q /\ z[2] = 0 - p /\ z \in Int \X (Nat \ {0})
    BY <1>3, <2>1
  <2>3. z \in Rationals
    BY <1>7, <2>1, <2>2 DEF Rationals
  <2>4. Frac(0 - q, 0 - p) = z
    BY <2>2, <2>3, RationalParts
  <2>5. Flipped(y) = z
    BY <1>3, <1>4, <1>5, <2>1
  <2> HIDE DEF z
  <2>6. Frac(g * (0 - q), g * (0 - p)) = Frac(0 - q, 0 - p)
    BY <1>3, <2>1, FracScales
  <2>7. g * (0 - q) = 0 - e /\ g * (0 - p) = 0 - m
    BY <1>3
  <2> QED
    BY <2>4, <2>5, <2>6, <2>7
<1> QED
  BY <1>8, <1>9 DEF y

LEMMA OverFlipped == \A x, y : Over(x, y) = Times(x, Flipped(y))
BY Zenon DEF Over, Flipped

LEMMA FracOver ==
  \A n, m \in Int, d, e \in Nat \ {0} :
    /\ m > 0 => Over(Frac(n, d), Frac(m, e)) = Frac(n * e, d * m)
    /\ m < 0 => Over(Frac(n, d), Frac(m, e)) = Frac(0 - n * e, 0 - d * m)
<1> SUFFICES ASSUME NEW n \in Int, NEW m \in Int, NEW d \in Nat \ {0}, NEW e \in Nat \ {0}
             PROVE  /\ m > 0 => Over(Frac(n, d), Frac(m, e)) = Frac(n * e, d * m)
                    /\ m < 0 => Over(Frac(n, d), Frac(m, e)) = Frac(0 - n * e, 0 - d * m)
  OBVIOUS
<1>1. ASSUME m > 0 PROVE Over(Frac(n, d), Frac(m, e)) = Frac(n * e, d * m)
  <2>1. Over(Frac(n, d), Frac(m, e)) = Times(Frac(n, d), Frac(e, m))
    BY <1>1, OverFlipped, FracFlipped
  <2>2. m \in Nat \ {0} /\ e \in Int
    BY <1>1
  <2> QED
    BY <2>1, <2>2, FracTimes
<1>2. ASSUME m < 0 PROVE Over(Frac(n, d), Frac(m, e)) = Frac(0 - n * e, 0 - d * m)
  <2>1. Over(Frac(n, d), Frac(m, e)) = Times(Frac(n, d), Frac(0 - e, 0 - m))
    BY <1>2, OverFlipped, FracFlipped
  <2>2. 0 - m \in Nat \ {0} /\ 0 - e \in Int
    BY <1>2
  <2>3. Times(Frac(n, d), Frac(0 - e, 0 - m)) = Frac(n * (0 - e), d * (0 - m))
    BY <2>2, FracTimes
  <2>4. n * (0 - e) = 0 - n * e /\ d * (0 - m) = 0 - d * m
    OBVIOUS
  <2> QED
    BY <2>1, <2>3, <2>4
<1> QED
  BY <1>1, <1>2

LEMMA FracSign ==
  \A n \in Int, d \in Nat \ {0} :
    /\ Frac(n, d)[1] > 0 <=> n > 0
    /\ Frac(n, d)[1] = 0 <=> n = 0
    /\ Frac(n, d)[1] < 0 <=> n < 0
<1> SUFFICES ASSUME NEW n \in Int, NEW d \in Nat \ {0}
             PROVE  /\ Frac(n, d)[1] > 0 <=> n > 0
                    /\ Frac(n, d)[1] = 0 <=> n = 0
                    /\ Frac(n, d)[1] < 0 <=> n < 0
  OBVIOUS
<1> DEFINE x == Frac(n, d)
<1>1. PICK g \in Nat \ {0} : n = g * x[1] /\ d = g * x[2]
  BY FracReduces
<1>2. x \in Rationals
  BY FracReduces
<1> HIDE DEF x
<1>3. x[1] \in Int
  BY <1>2, RationalParts
<1>4. \A k \in Int : (k > 0 => g * k > 0) /\ (k = 0 => g * k = 0) /\ (k < 0 => g * k < 0)
  OBVIOUS
<1>5. \A k \in Int : (g * k > 0 <=> k > 0) /\ (g * k = 0 <=> k = 0) /\ (g * k < 0 <=> k < 0)
  BY <1>4
<1> QED
  BY <1>1, <1>3, <1>5 DEF x

LEMMA FracLess ==
  \A n, m \in Int, d, e \in Nat \ {0} :
    /\ Less(Frac(n, d), Frac(m, e)) <=> n * e < m * d
    /\ AtMost(Frac(n, d), Frac(m, e)) <=> n * e <= m * d
<1> SUFFICES ASSUME NEW n \in Int, NEW m \in Int, NEW d \in Nat \ {0}, NEW e \in Nat \ {0}
             PROVE  /\ Less(Frac(n, d), Frac(m, e)) <=> n * e < m * d
                    /\ AtMost(Frac(n, d), Frac(m, e)) <=> n * e <= m * d
  OBVIOUS
<1> DEFINE x == Frac(n, d)
           y == Frac(m, e)
<1>1. NaN = <<0, 0>>
  BY DEF NaN, Frac, Sign
<1>2. x \in Rationals /\ y \in Rationals
  BY FracReduces
<1>3. ~IsNaN(x) /\ ~IsNaN(y) /\ x[2] # 0
  <2>1. x[2] # 0 /\ y[2] # 0
    <3> HIDE DEF x, y
    <3> QED
      BY <1>2, RationalParts
  <2> HIDE DEF x, y
  <2> QED
    BY <1>1, <2>1 DEF IsNaN
<1>4. Less(x, y) <=> Minus(y, x)[1] > 0
  <2> HIDE DEF x, y
  <2> QED
    BY <1>3, Zenon DEF Less
<1>5. Minus(y, x) = Frac(m * d - n * e, e * d)
  BY FracMinus
<1>6. m * d - n * e \in Int /\ e * d \in Nat \ {0} /\ n * e \in Int /\ m * d \in Int
  BY ProductPositive
<1>7. Minus(y, x)[1] > 0 <=> m * d - n * e > 0
  <2> HIDE DEF x, y
  <2> QED
    BY <1>5, <1>6, FracSign, Zenon
<1>8. Less(x, y) <=> n * e < m * d
  BY <1>4, <1>6, <1>7
<1>9. x = y <=> n * e = m * d
  BY FracEqual
<1> HIDE DEF x, y
<1>10. AtMost(x, y) <=> n * e <= m * d
  BY <1>3, <1>6, <1>8, <1>9 DEF AtMost
<1> QED
  BY <1>8, <1>10 DEF x, y

(***************************************************************************)
(* The laws of arithmetic.                                                 *)
(***************************************************************************)
LEMMA Fraction == \A x \in Rationals : \E n \in Int, d \in Nat \ {0} : x = Frac(n, d)
BY RationalParts

LEMMA ZeroOne ==
  /\ Zero = <<0, 1>> /\ One = <<1, 1>> /\ Zero \in Rationals /\ One \in Rationals
  /\ \A d \in Nat \ {0} : Frac(0, d) = Zero /\ Frac(d, d) = One
<1>1. Zero = Frac(0, 1) /\ One = Frac(1, 1) /\ Zero \in Rationals /\ One \in Rationals
  BY FracValue DEF Zero, One
<1>2. \A d \in Nat \ {0} : Frac(0, d) = Frac(0, 1) /\ Frac(d, d) = Frac(1, 1)
  <2>1. ASSUME NEW d \in Nat \ {0} PROVE Frac(0, d) = Frac(0, 1) /\ Frac(d, d) = Frac(1, 1)
    <3>1. d \in Int /\ 0 * 1 = 0 * d /\ d * 1 = 1 * d /\ 0 \in Int /\ 1 \in Int /\ 1 \in Nat \ {0}
      OBVIOUS
    <3> QED
      BY <3>1, FracEqual
  <2> QED
    BY <2>1
<1>3. gcd[<<0, 1>>] = 1 /\ gcd[<<1, 1>>] = 1
  <2>1. gcd[<<0, 1>>] \in Nat /\ gcd[<<0, 1>>] > 0 /\ gcd[<<0, 1>>] <= 1
    BY GcdBounds
  <2>2. gcd[<<1, 1>>] \in Nat /\ gcd[<<1, 1>>] > 0 /\ gcd[<<1, 1>>] <= 1
    BY GcdBounds
  <2> QED
    BY <2>1, <2>2
<1>4. Frac(0, 1) = <<0, 1>> /\ Frac(1, 1) = <<1, 1>>
  <2>1. Abs(0) = 0 /\ Abs(1) = 1 /\ Sign(1) = 1
    BY DEF Abs, Sign
  <2>2. <<0, 1>> \in Rationals /\ <<1, 1>> \in Rationals
    BY <1>3, <2>1 DEF Rationals, Coprime
  <2> QED
    BY <2>2, RationalParts
<1> QED
  BY <1>1, <1>2, <1>4

LEMMA Closed ==
  \A x, y \in Rationals :
    /\ Plus(x, y) \in Rationals /\ Minus(x, y) \in Rationals /\ Times(x, y) \in Rationals
    /\ y # Zero => Over(x, y) \in Rationals
<1> SUFFICES ASSUME NEW x \in Rationals, NEW y \in Rationals
             PROVE  /\ Plus(x, y) \in Rationals /\ Minus(x, y) \in Rationals
                    /\ Times(x, y) \in Rationals
                    /\ y # Zero => Over(x, y) \in Rationals
  OBVIOUS
<1>1. PICK n \in Int, d \in Nat \ {0} : x = Frac(n, d)
  BY Fraction
<1>2. PICK m \in Int, e \in Nat \ {0} : y = Frac(m, e)
  BY Fraction
<1>3. d * e \in Nat \ {0}
  BY ProductPositive
<1>4. n * e + m * d \in Int /\ n * e - m * d \in Int /\ n * m \in Int /\ n * e \in Int
      /\ 0 - n * e \in Int
  OBVIOUS
<1>5. Plus(x, y) \in Rationals
  BY <1>1, <1>2, <1>3, <1>4, FracPlus, FracValue
<1>6. Minus(x, y) \in Rationals
  BY <1>1, <1>2, <1>3, <1>4, FracMinus, FracValue
<1>7. Times(x, y) \in Rationals
  BY <1>1, <1>2, <1>3, <1>4, FracTimes, FracValue
<1>8. ASSUME y # Zero PROVE Over(x, y) \in Rationals
  <2>1. m # 0
    BY <1>2, <1>8, ZeroOne
  <2>2. CASE m > 0
    <3>1. m \in Nat \ {0}
      BY <2>2
    <3>2. d * m \in Nat \ {0}
      BY <3>1, ProductPositive
    <3> QED
      BY <1>1, <1>2, <1>4, <2>2, <3>2, FracOver, FracValue
  <2>3. CASE m < 0
    <3>1. 0 - m \in Nat \ {0}
      BY <2>3
    <3>2. d * (0 - m) \in Nat \ {0}
      BY <3>1, ProductPositive
    <3>3. d * (0 - m) = 0 - d * m
      OBVIOUS
    <3>4. Over(x, y) = Frac(0 - n * e, d * (0 - m))
      BY <1>1, <1>2, <2>3, <3>3, FracOver
    <3> QED
      BY <1>4, <3>2, <3>4, FracValue
  <2> QED
    BY <2>1, <2>2, <2>3
<1> QED
  BY <1>5, <1>6, <1>7, <1>8

LEMMA PlusCommutes == \A x, y \in Rationals : Plus(x, y) = Plus(y, x)
<1> SUFFICES ASSUME NEW x \in Rationals, NEW y \in Rationals PROVE Plus(x, y) = Plus(y, x)
  OBVIOUS
<1>1. PICK n \in Int, d \in Nat \ {0} : x = Frac(n, d)
  BY Fraction
<1>2. PICK m \in Int, e \in Nat \ {0} : y = Frac(m, e)
  BY Fraction
<1>3. n * e + m * d = m * d + n * e /\ d * e = e * d
  OBVIOUS
<1> QED
  BY <1>1, <1>2, <1>3, FracPlus

LEMMA TimesCommutes == \A x, y \in Rationals : Times(x, y) = Times(y, x)
<1> SUFFICES ASSUME NEW x \in Rationals, NEW y \in Rationals PROVE Times(x, y) = Times(y, x)
  OBVIOUS
<1>1. PICK n \in Int, d \in Nat \ {0} : x = Frac(n, d)
  BY Fraction
<1>2. PICK m \in Int, e \in Nat \ {0} : y = Frac(m, e)
  BY Fraction
<1>3. n * m = m * n /\ d * e = e * d
  OBVIOUS
<1> QED
  BY <1>1, <1>2, <1>3, FracTimes

LEMMA PlusAssociates ==
  \A x, y, z \in Rationals : Plus(Plus(x, y), z) = Plus(x, Plus(y, z))
<1> SUFFICES ASSUME NEW x \in Rationals, NEW y \in Rationals, NEW z \in Rationals
             PROVE  Plus(Plus(x, y), z) = Plus(x, Plus(y, z))
  OBVIOUS
<1>1. PICK n \in Int, d \in Nat \ {0} : x = Frac(n, d)
  BY Fraction
<1>2. PICK m \in Int, e \in Nat \ {0} : y = Frac(m, e)
  BY Fraction
<1>3. PICK k \in Int, f \in Nat \ {0} : z = Frac(k, f)
  BY Fraction
<1>4. d * e \in Nat \ {0} /\ e * f \in Nat \ {0} /\ n * e + m * d \in Int /\ m * f + k * e \in Int
  BY ProductPositive
<1>5. Plus(Plus(x, y), z) = Frac((n * e + m * d) * f + k * (d * e), (d * e) * f)
  <2>1. Plus(x, y) = Frac(n * e + m * d, d * e)
    BY <1>1, <1>2, FracPlus
  <2>2. Plus(Frac(n * e + m * d, d * e), Frac(k, f))
          = Frac((n * e + m * d) * f + k * (d * e), (d * e) * f)
    BY <1>4, FracPlus
  <2> QED
    BY <1>1, <1>2, <1>3, <2>1, <2>2
<1>6. Plus(x, Plus(y, z)) = Frac(n * (e * f) + (m * f + k * e) * d, d * (e * f))
  <2>1. Plus(y, z) = Frac(m * f + k * e, e * f)
    BY <1>2, <1>3, FracPlus
  <2>2. Plus(Frac(n, d), Frac(m * f + k * e, e * f))
          = Frac(n * (e * f) + (m * f + k * e) * d, d * (e * f))
    BY <1>4, FracPlus
  <2> QED
    BY <1>1, <1>2, <1>3, <2>1, <2>2
<1>7. (n * e + m * d) * f + k * (d * e) = n * (e * f) + (m * f + k * e) * d
      /\ (d * e) * f = d * (e * f)
  OBVIOUS
<1> QED
  BY <1>5, <1>6, <1>7

LEMMA TimesAssociates ==
  \A x, y, z \in Rationals : Times(Times(x, y), z) = Times(x, Times(y, z))
<1> SUFFICES ASSUME NEW x \in Rationals, NEW y \in Rationals, NEW z \in Rationals
             PROVE  Times(Times(x, y), z) = Times(x, Times(y, z))
  OBVIOUS
<1>1. PICK n \in Int, d \in Nat \ {0} : x = Frac(n, d)
  BY Fraction
<1>2. PICK m \in Int, e \in Nat \ {0} : y = Frac(m, e)
  BY Fraction
<1>3. PICK k \in Int, f \in Nat \ {0} : z = Frac(k, f)
  BY Fraction
<1>4. d * e \in Nat \ {0} /\ e * f \in Nat \ {0} /\ n * m \in Int /\ m * k \in Int
  BY ProductPositive
<1>5. Times(Times(x, y), z) = Frac((n * m) * k, (d * e) * f)
  <2>1. Times(x, y) = Frac(n * m, d * e)
    BY <1>1, <1>2, FracTimes
  <2>2. Times(Frac(n * m, d * e), Frac(k, f)) = Frac((n * m) * k, (d * e) * f)
    BY <1>4, FracTimes
  <2> QED
    BY <1>1, <1>2, <1>3, <2>1, <2>2
<1>6. Times(x, Times(y, z)) = Frac(n * (m * k), d * (e * f))
  <2>1. Times(y, z) = Frac(m * k, e * f)
    BY <1>2, <1>3, FracTimes
  <2>2. Times(Frac(n, d), Frac(m * k, e * f)) = Frac(n * (m * k), d * (e * f))
    BY <1>4, FracTimes
  <2> QED
    BY <1>1, <1>2, <1>3, <2>1, <2>2
<1>7. (n * m) * k = n * (m * k) /\ (d * e) * f = d * (e * f)
  OBVIOUS
<1> QED
  BY <1>5, <1>6, <1>7

LEMMA TimesDistributes ==
  \A x, y, z \in Rationals :
    /\ Times(x, Plus(y, z)) = Plus(Times(x, y), Times(x, z))
    /\ Times(x, Minus(y, z)) = Minus(Times(x, y), Times(x, z))
<1> SUFFICES ASSUME NEW x \in Rationals, NEW y \in Rationals, NEW z \in Rationals
             PROVE  /\ Times(x, Plus(y, z)) = Plus(Times(x, y), Times(x, z))
                    /\ Times(x, Minus(y, z)) = Minus(Times(x, y), Times(x, z))
  OBVIOUS
<1>1. PICK n \in Int, d \in Nat \ {0} : x = Frac(n, d)
  BY Fraction
<1>2. PICK m \in Int, e \in Nat \ {0} : y = Frac(m, e)
  BY Fraction
<1>3. PICK k \in Int, f \in Nat \ {0} : z = Frac(k, f)
  BY Fraction
<1>4. /\ d * e \in Nat \ {0} /\ e * f \in Nat \ {0} /\ d * f \in Nat \ {0}
      /\ n * m \in Int /\ n * k \in Int /\ m * f + k * e \in Int /\ m * f - k * e \in Int
      /\ n * (m * f + k * e) \in Int /\ n * (m * f - k * e) \in Int
  BY ProductPositive
<1>5. d * (e * f) \in Nat \ {0}
  BY <1>4, ProductPositive
<1>6. Times(x, Plus(y, z)) = Frac(n * (m * f + k * e), d * (e * f))
  <2>1. Plus(y, z) = Frac(m * f + k * e, e * f)
    BY <1>2, <1>3, FracPlus
  <2>2. Times(Frac(n, d), Frac(m * f + k * e, e * f)) = Frac(n * (m * f + k * e), d * (e * f))
    BY <1>4, FracTimes
  <2> QED
    BY <1>1, <1>2, <1>3, <2>1, <2>2
<1>7. Plus(Times(x, y), Times(x, z)) = Frac((n * m) * (d * f) + (n * k) * (d * e), (d * e) * (d * f))
  <2>1. Times(x, y) = Frac(n * m, d * e) /\ Times(x, z) = Frac(n * k, d * f)
    BY <1>1, <1>2, <1>3, FracTimes
  <2>2. Plus(Frac(n * m, d * e), Frac(n * k, d * f))
          = Frac((n * m) * (d * f) + (n * k) * (d * e), (d * e) * (d * f))
    BY <1>4, FracPlus
  <2> QED
    BY <1>1, <1>2, <1>3, <2>1, <2>2
<1>8. (n * m) * (d * f) + (n * k) * (d * e) = d * (n * (m * f + k * e))
      /\ (d * e) * (d * f) = d * (d * (e * f))
  OBVIOUS
<1>9. Times(x, Minus(y, z)) = Frac(n * (m * f - k * e), d * (e * f))
  <2>1. Minus(y, z) = Frac(m * f - k * e, e * f)
    BY <1>2, <1>3, FracMinus
  <2>2. Times(Frac(n, d), Frac(m * f - k * e, e * f)) = Frac(n * (m * f - k * e), d * (e * f))
    BY <1>4, FracTimes
  <2> QED
    BY <1>1, <1>2, <1>3, <2>1, <2>2
<1>10. Minus(Times(x, y), Times(x, z))
         = Frac((n * m) * (d * f) - (n * k) * (d * e), (d * e) * (d * f))
  <2>1. Times(x, y) = Frac(n * m, d * e) /\ Times(x, z) = Frac(n * k, d * f)
    BY <1>1, <1>2, <1>3, FracTimes
  <2>2. Minus(Frac(n * m, d * e), Frac(n * k, d * f))
          = Frac((n * m) * (d * f) - (n * k) * (d * e), (d * e) * (d * f))
    BY <1>4, FracMinus
  <2> QED
    BY <1>1, <1>2, <1>3, <2>1, <2>2
<1>11. (n * m) * (d * f) - (n * k) * (d * e) = d * (n * (m * f - k * e))
  OBVIOUS
<1>12. \A j \in Int : Frac(d * j, d * (d * (e * f))) = Frac(j, d * (e * f))
  BY <1>5, FracScales
<1> QED
  BY <1>4, <1>6, <1>7, <1>8, <1>9, <1>10, <1>11, <1>12

LEMMA Units ==
  \A x \in Rationals :
    /\ Plus(x, Zero) = x /\ Minus(x, Zero) = x /\ Minus(x, x) = Zero
    /\ Times(x, One) = x /\ Times(x, Zero) = Zero /\ Over(x, One) = x
<1> SUFFICES ASSUME NEW x \in Rationals
             PROVE  /\ Plus(x, Zero) = x /\ Minus(x, Zero) = x /\ Minus(x, x) = Zero
                    /\ Times(x, One) = x /\ Times(x, Zero) = Zero /\ Over(x, One) = x
  OBVIOUS
<1>1. PICK n \in Int, d \in Nat \ {0} : x = Frac(n, d)
  BY Fraction
<1>2. Zero = Frac(0, 1) /\ One = Frac(1, 1) /\ d * d \in Nat \ {0}
  BY ProductPositive DEF Zero, One
<1>3. /\ n * 1 + 0 * d = n /\ n * 1 - 0 * d = n /\ n * d - n * d = 0 /\ n * 1 = n /\ n * 0 = 0
      /\ d * 1 = d
  OBVIOUS
<1>4. Plus(x, Zero) = x /\ Minus(x, Zero) = x
  BY <1>1, <1>2, <1>3, FracPlus, FracMinus
<1>5. Minus(x, x) = Zero
  BY <1>1, <1>2, <1>3, FracMinus, ZeroOne
<1>6. Times(x, One) = x /\ Times(x, Zero) = Zero
  BY <1>1, <1>2, <1>3, FracTimes, ZeroOne
<1>7. Over(x, One) = x
  BY <1>1, <1>2, <1>3, FracOver
<1> QED
  BY <1>4, <1>5, <1>6, <1>7

\* Division undoes multiplication.
LEMMA OverCancels ==
  \A x, y \in Rationals : y # Zero =>
    Times(y, Over(x, y)) = x /\ Over(Times(y, x), y) = x
<1> SUFFICES ASSUME NEW x \in Rationals, NEW y \in Rationals, y # Zero
             PROVE  Times(y, Over(x, y)) = x /\ Over(Times(y, x), y) = x
  OBVIOUS
<1>1. PICK n \in Int, d \in Nat \ {0} : x = Frac(n, d)
  BY Fraction
<1>2. PICK m \in Int, e \in Nat \ {0} : y = Frac(m, e)
  BY Fraction
<1>3. m # 0
  BY <1>2, ZeroOne
<1>4. CASE m > 0
  <2>1. m \in Nat \ {0} /\ e \in Int
    BY <1>4
  <2>2. d * m \in Nat \ {0} /\ e * m \in Nat \ {0} /\ n * e \in Int /\ m * n \in Int
        /\ e * d \in Nat \ {0}
    BY <2>1, ProductPositive
  <2>3. Times(y, Over(x, y)) = Frac(m * (n * e), e * (d * m))
    <3>1. Over(x, y) = Frac(n * e, d * m)
      BY <1>1, <1>2, <1>4, FracOver
    <3>2. Times(Frac(m, e), Frac(n * e, d * m)) = Frac(m * (n * e), e * (d * m))
      BY <2>2, FracTimes
    <3> QED
      BY <1>2, <3>1, <3>2
  <2>4. Over(Times(y, x), y) = Frac((m * n) * e, (e * d) * m)
    <3>1. Times(y, x) = Frac(m * n, e * d)
      BY <1>1, <1>2, FracTimes
    <3> QED
      BY <1>2, <1>4, <2>2, <3>1, FracOver
  <2>5. m * (n * e) = (e * m) * n /\ e * (d * m) = (e * m) * d
        /\ (m * n) * e = (e * m) * n /\ (e * d) * m = (e * m) * d
    BY <2>1
  <2>6. Frac((e * m) * n, (e * m) * d) = Frac(n, d)
    BY <2>2, FracScales
  <2> QED
    BY <1>1, <2>3, <2>4, <2>5, <2>6
<1>5. CASE m < 0
  <2> DEFINE w == 0 - m
  <2>1. w \in Nat \ {0} /\ e \in Int
    BY <1>5
  <2>2. d * w \in Nat \ {0} /\ e * w \in Nat \ {0} /\ 0 - n * e \in Int /\ m * n \in Int
        /\ e * d \in Nat \ {0} /\ (e * d) * w \in Nat \ {0} /\ d * w = 0 - d * m
        /\ (e * d) * w = 0 - (e * d) * m
    BY <2>1, ProductPositive
  <2> HIDE DEF w
  <2>3. Over(x, y) = Frac(0 - n * e, d * w)
    BY <1>1, <1>2, <1>5, <2>2, FracOver
  <2>4. Times(y, Over(x, y)) = Frac(m * (0 - n * e), e * (d * w))
    BY <1>2, <2>2, <2>3, FracTimes
  <2>5. Times(y, x) = Frac(m * n, e * d)
    BY <1>1, <1>2, FracTimes
  <2>6. Over(Times(y, x), y) = Frac(0 - (m * n) * e, (e * d) * w)
    BY <1>2, <1>5, <2>2, <2>5, FracOver
  <2>7. m * (0 - n * e) = (e * w) * n /\ e * (d * w) = (e * w) * d
        /\ 0 - (m * n) * e = (e * w) * n /\ (e * d) * w = (e * w) * d
    <3>1. m = 0 - w
      BY DEF w
    <3> QED
      BY <2>1, <3>1
  <2>8. Frac((e * w) * n, (e * w) * d) = Frac(n, d)
    BY <2>2, FracScales
  <2> QED
    BY <1>1, <2>4, <2>6, <2>7, <2>8
<1> QED
  BY <1>3, <1>4, <1>5

(***************************************************************************)
(* Fractions over one denominator.                                         *)
(***************************************************************************)
\* Fractions over one denominator.
LEMMA SameParts ==
  \A n, m \in Int, d \in Nat \ {0} :
    /\ Plus(Frac(n, d), Frac(m, d)) = Frac(n + m, d)
    /\ Minus(Frac(n, d), Frac(m, d)) = Frac(n - m, d)
    /\ Less(Frac(n, d), Frac(m, d)) <=> n < m
    /\ AtMost(Frac(n, d), Frac(m, d)) <=> n <= m
    /\ Frac(n, d) = Frac(m, d) <=> n = m
<1> SUFFICES ASSUME NEW n \in Int, NEW m \in Int, NEW d \in Nat \ {0}
             PROVE  /\ Plus(Frac(n, d), Frac(m, d)) = Frac(n + m, d)
                    /\ Minus(Frac(n, d), Frac(m, d)) = Frac(n - m, d)
                    /\ Less(Frac(n, d), Frac(m, d)) <=> n < m
                    /\ AtMost(Frac(n, d), Frac(m, d)) <=> n <= m
                    /\ Frac(n, d) = Frac(m, d) <=> n = m
  OBVIOUS
<1>1. n * d + m * d = d * (n + m) /\ n * d - m * d = d * (n - m)
  OBVIOUS
<1>2. n + m \in Int /\ n - m \in Int
  OBVIOUS
<1>3. Frac(d * (n + m), d * d) = Frac(n + m, d) /\ Frac(d * (n - m), d * d) = Frac(n - m, d)
  BY <1>2, FracScales
<1>4. Plus(Frac(n, d), Frac(m, d)) = Frac(n + m, d)
  BY <1>1, <1>3, FracPlus
<1>5. Minus(Frac(n, d), Frac(m, d)) = Frac(n - m, d)
  BY <1>1, <1>3, FracMinus
<1>6. (n * d < m * d <=> n < m) /\ (n * d <= m * d <=> n <= m) /\ (n * d = m * d <=> n = m)
  OBVIOUS
<1>7. Less(Frac(n, d), Frac(m, d)) <=> n < m
  BY <1>6, FracLess
<1>8. AtMost(Frac(n, d), Frac(m, d)) <=> n <= m
  BY <1>6, FracLess
<1>9. Frac(n, d) = Frac(m, d) <=> n = m
  BY <1>6, FracEqual
<1> QED
  BY <1>4, <1>5, <1>7, <1>8, <1>9

\* Numbers are ordered as integers are.
Ordered(x, y, n, m) ==
  /\ Less(x, y) <=> n < m
  /\ AtMost(x, y) <=> n <= m
  /\ x = y <=> n = m

LEMMA SameOrder ==
  \A n, m \in Int, d \in Nat \ {0} : Ordered(Frac(n, d), Frac(m, d), n, m)
BY SameParts, Zenon DEF Ordered

LEMMA Common2 ==
  \A x, y \in Rationals : \E n, m \in Int, d \in Nat \ {0} : x = Frac(n, d) /\ y = Frac(m, d)
<1> SUFFICES ASSUME NEW x \in Rationals, NEW y \in Rationals
             PROVE  \E n, m \in Int, d \in Nat \ {0} : x = Frac(n, d) /\ y = Frac(m, d)
  OBVIOUS
<1>1. PICK n \in Int, d \in Nat \ {0} : x = Frac(n, d)
  BY Fraction
<1>2. PICK m \in Int, e \in Nat \ {0} : y = Frac(m, e)
  BY Fraction
<1>3. x = Frac(e * n, e * d) /\ y = Frac(d * m, d * e)
  BY <1>1, <1>2, FracScales
<1>4. e * n \in Int /\ d * m \in Int /\ e * d \in Nat \ {0} /\ d * e = e * d
  BY ProductPositive
<1> QED
  BY <1>3, <1>4

LEMMA Common3 ==
  \A x, y, z \in Rationals : \E a, b, c \in Int, d \in Nat \ {0} :
    x = Frac(a, d) /\ y = Frac(b, d) /\ z = Frac(c, d)
<1> SUFFICES ASSUME NEW x \in Rationals, NEW y \in Rationals, NEW z \in Rationals
             PROVE  \E a, b, c \in Int, d \in Nat \ {0} :
                      x = Frac(a, d) /\ y = Frac(b, d) /\ z = Frac(c, d)
  OBVIOUS
<1>1. PICK n \in Int, m \in Int, d \in Nat \ {0} : x = Frac(n, d) /\ y = Frac(m, d)
  BY Common2
<1>2. PICK i \in Int, e \in Nat \ {0} : z = Frac(i, e)
  BY Fraction
<1>3. x = Frac(e * n, e * d) /\ y = Frac(e * m, e * d) /\ z = Frac(d * i, d * e)
  BY <1>1, <1>2, FracScales
<1>4. e * n \in Int /\ e * m \in Int /\ d * i \in Int /\ e * d \in Nat \ {0} /\ d * e = e * d
  BY ProductPositive
<1> QED
  BY <1>3, <1>4

LEMMA Common4 ==
  \A x, y, z, w \in Rationals : \E a, b, c, k \in Int, d \in Nat \ {0} :
    x = Frac(a, d) /\ y = Frac(b, d) /\ z = Frac(c, d) /\ w = Frac(k, d)
<1> SUFFICES ASSUME NEW x \in Rationals, NEW y \in Rationals, NEW z \in Rationals, NEW w \in Rationals
             PROVE  \E a, b, c, k \in Int, d \in Nat \ {0} :
                      x = Frac(a, d) /\ y = Frac(b, d) /\ z = Frac(c, d) /\ w = Frac(k, d)
  OBVIOUS
<1>1. PICK n \in Int, m \in Int, d \in Nat \ {0} : x = Frac(n, d) /\ y = Frac(m, d)
  BY Common2
<1>2. PICK i \in Int, j \in Int, e \in Nat \ {0} : z = Frac(i, e) /\ w = Frac(j, e)
  BY Common2
<1>3. x = Frac(e * n, e * d) /\ y = Frac(e * m, e * d) /\ z = Frac(d * i, d * e) /\ w = Frac(d * j, d * e)
  BY <1>1, <1>2, FracScales
<1>4. e * n \in Int /\ e * m \in Int /\ d * i \in Int /\ d * j \in Int
      /\ e * d \in Nat \ {0} /\ d * e = e * d
  BY ProductPositive
<1> QED
  BY <1>3, <1>4

(***************************************************************************)
(* Order.                                                                  *)
(***************************************************************************)
LEMMA LessIs ==
  \A x, y \in Rationals :
    /\ AtMost(x, y) <=> Less(x, y) \/ x = y
    /\ Less(x, y) <=> ~AtMost(y, x)
    /\ Less(x, y) <=> Less(Zero, Minus(y, x))
    /\ AtMost(x, y) <=> AtMost(Zero, Minus(y, x))
    /\ Less(Zero, x) <=> x[1] > 0
<1> SUFFICES ASSUME NEW x \in Rationals, NEW y \in Rationals
             PROVE  /\ AtMost(x, y) <=> Less(x, y) \/ x = y
                    /\ Less(x, y) <=> ~AtMost(y, x)
                    /\ Less(x, y) <=> Less(Zero, Minus(y, x))
                    /\ AtMost(x, y) <=> AtMost(Zero, Minus(y, x))
                    /\ Less(Zero, x) <=> x[1] > 0
  OBVIOUS
<1>1. PICK n \in Int, m \in Int, d \in Nat \ {0} : x = Frac(n, d) /\ y = Frac(m, d)
  BY Common2
<1>2. Zero = Frac(0, d) /\ 0 \in Int /\ m - n \in Int
  BY ZeroOne
<1>3. Minus(y, x) = Frac(m - n, d)
  BY <1>1, SameParts
<1>4. (Less(x, y) <=> n < m) /\ (AtMost(x, y) <=> n <= m) /\ (x = y <=> n = m)
      /\ (AtMost(y, x) <=> m <= n)
  <2>1. Ordered(x, y, n, m) /\ Ordered(y, x, m, n)
    BY <1>1, SameOrder
  <2> QED
    BY <2>1, Zenon DEF Ordered
<1>5. (Less(Zero, Minus(y, x)) <=> 0 < m - n) /\ (AtMost(Zero, Minus(y, x)) <=> 0 <= m - n)
  <2>1. Ordered(Frac(0, d), Frac(m - n, d), 0, m - n)
    BY <1>2, SameOrder
  <2> QED
    BY <1>2, <1>3, <2>1, Zenon DEF Ordered
<1>6. Less(Zero, x) <=> 0 < n
  <2>1. Ordered(Zero, x, 0, n)
    BY <1>1, <1>2, SameOrder
  <2> QED
    BY <2>1, Zenon DEF Ordered
<1>7. x[1] > 0 <=> n > 0
  BY <1>1, FracSign
<1>8. AtMost(x, y) <=> Less(x, y) \/ x = y
  BY <1>4
<1>9. Less(x, y) <=> ~AtMost(y, x)
  BY <1>4
<1>10. Less(x, y) <=> Less(Zero, Minus(y, x))
  BY <1>4, <1>5
<1>11. AtMost(x, y) <=> AtMost(Zero, Minus(y, x))
  BY <1>4, <1>5
<1>12. Less(Zero, x) <=> x[1] > 0
  BY <1>6, <1>7
<1> QED
  BY <1>8, <1>9, <1>10, <1>11, <1>12, Zenon

LEMMA AtMostTransitive ==
  \A x, y, z \in Rationals :
    /\ AtMost(x, y) /\ AtMost(y, z) => AtMost(x, z)
    /\ AtMost(x, y) /\ Less(y, z) => Less(x, z)
    /\ Less(x, y) /\ AtMost(y, z) => Less(x, z)
<1> SUFFICES ASSUME NEW x \in Rationals, NEW y \in Rationals, NEW z \in Rationals
             PROVE  /\ AtMost(x, y) /\ AtMost(y, z) => AtMost(x, z)
                    /\ AtMost(x, y) /\ Less(y, z) => Less(x, z)
                    /\ Less(x, y) /\ AtMost(y, z) => Less(x, z)
  OBVIOUS
<1>1. PICK a \in Int, b \in Int, c \in Int, d \in Nat \ {0} :
             x = Frac(a, d) /\ y = Frac(b, d) /\ z = Frac(c, d)
  BY Common3
<1>2. Ordered(x, y, a, b) /\ Ordered(y, z, b, c) /\ Ordered(x, z, a, c)
  BY <1>1, SameOrder
<1> QED
  BY <1>2 DEF Ordered

LEMMA PlusMonotone ==
  \A x, y, u, v \in Rationals :
    /\ AtMost(x, y) /\ AtMost(u, v) => AtMost(Plus(x, u), Plus(y, v))
    /\ Less(x, y) /\ AtMost(u, v) => Less(Plus(x, u), Plus(y, v))
<1> SUFFICES ASSUME NEW x \in Rationals, NEW y \in Rationals, NEW u \in Rationals, NEW v \in Rationals
             PROVE  /\ AtMost(x, y) /\ AtMost(u, v) => AtMost(Plus(x, u), Plus(y, v))
                    /\ Less(x, y) /\ AtMost(u, v) => Less(Plus(x, u), Plus(y, v))
  OBVIOUS
<1>1. PICK a \in Int, b \in Int, c \in Int, k \in Int, d \in Nat \ {0} :
             x = Frac(a, d) /\ y = Frac(b, d) /\ u = Frac(c, d) /\ v = Frac(k, d)
  BY Common4
<1>2. Ordered(x, y, a, b) /\ Ordered(u, v, c, k)
  BY <1>1, SameOrder
<1>3. Plus(x, u) = Frac(a + c, d) /\ Plus(y, v) = Frac(b + k, d)
  <2>1. Plus(Frac(a, d), Frac(c, d)) = Frac(a + c, d) /\ Plus(Frac(b, d), Frac(k, d)) = Frac(b + k, d)
    BY SameParts
  <2> QED
    BY <1>1, <2>1, Zenon
<1>4. Ordered(Plus(x, u), Plus(y, v), a + c, b + k)
  <2>1. a + c \in Int /\ b + k \in Int
    OBVIOUS
  <2>2. Ordered(Frac(a + c, d), Frac(b + k, d), a + c, b + k)
    BY <2>1, SameOrder
  <2> QED
    BY <1>3, <2>2, Zenon
<1> QED
  BY <1>2, <1>4 DEF Ordered

LEMMA IntMonotone ==
  /\ \A a, b, k \in Int : a <= b /\ 0 <= k => k * a <= k * b
  /\ \A a, b \in Int : 0 < a /\ 0 < b => 0 < a * b
  /\ \A a \in Int : 0 <= a * a
OBVIOUS

LEMMA TimesMonotone ==
  \A x, y, k \in Rationals :
    AtMost(x, y) /\ AtMost(Zero, k) => AtMost(Times(k, x), Times(k, y))
<1> SUFFICES ASSUME NEW x \in Rationals, NEW y \in Rationals, NEW k \in Rationals,
                    AtMost(x, y), AtMost(Zero, k)
             PROVE  AtMost(Times(k, x), Times(k, y))
  OBVIOUS
<1>1. PICK a \in Int, b \in Int, c \in Int, d \in Nat \ {0} :
             x = Frac(a, d) /\ y = Frac(b, d) /\ k = Frac(c, d)
  BY Common3
<1>2. a <= b /\ 0 <= c
  <2>1. Ordered(x, y, a, b) /\ Ordered(Frac(0, d), k, 0, c)
    BY <1>1, SameOrder
  <2>2. Ordered(Zero, k, 0, c)
    BY <2>1, ZeroOne
  <2> QED
    BY <2>1, <2>2, Zenon DEF Ordered
<1>3. Times(k, x) = Frac(c * a, d * d) /\ Times(k, y) = Frac(c * b, d * d)
  <2>1. Times(Frac(c, d), Frac(a, d)) = Frac(c * a, d * d)
        /\ Times(Frac(c, d), Frac(b, d)) = Frac(c * b, d * d)
    BY FracTimes
  <2> QED
    BY <1>1, <2>1, Zenon
<1>4. c * a <= c * b /\ c * a \in Int /\ c * b \in Int /\ d * d \in Nat \ {0}
  BY <1>2, IntMonotone, ProductPositive
<1>5. Ordered(Frac(c * a, d * d), Frac(c * b, d * d), c * a, c * b)
  BY <1>4, SameOrder
<1> QED
  BY <1>3, <1>4, <1>5, Zenon DEF Ordered

LEMMA Positives ==
  \A x, y \in Rationals :
    /\ Less(Zero, x) /\ Less(Zero, y) => Less(Zero, Times(x, y)) /\ Less(Zero, Over(x, y))
    /\ Less(Zero, x) /\ AtMost(Zero, y) => Less(Zero, Plus(x, y)) /\ Less(Zero, Plus(y, x))
    /\ AtMost(Zero, Times(x, x))
    /\ Less(Zero, x) => x # Zero
<1> SUFFICES ASSUME NEW x \in Rationals, NEW y \in Rationals
             PROVE  /\ Less(Zero, x) /\ Less(Zero, y)
                         => Less(Zero, Times(x, y)) /\ Less(Zero, Over(x, y))
                    /\ Less(Zero, x) /\ AtMost(Zero, y)
                         => Less(Zero, Plus(x, y)) /\ Less(Zero, Plus(y, x))
                    /\ AtMost(Zero, Times(x, x))
                    /\ Less(Zero, x) => x # Zero
  OBVIOUS
<1>1. PICK n \in Int, m \in Int, d \in Nat \ {0} : x = Frac(n, d) /\ y = Frac(m, d)
  BY Common2
<1>2. d * d \in Nat \ {0} /\ 0 \in Int /\ \A e \in Nat \ {0} : Zero = Frac(0, e)
  BY ZeroOne, ProductPositive
<1>3. \A e \in Nat \ {0}, k \in Int : Ordered(Zero, Frac(k, e), 0, k)
  BY <1>2, SameOrder
<1>4. ASSUME 0 < n, 0 < m PROVE Less(Zero, Times(x, y)) /\ Less(Zero, Over(x, y))
  <2>1. Times(x, y) = Frac(n * m, d * d)
    BY <1>1, FracTimes
  <2>2. Over(x, y) = Frac(n * d, d * m)
    BY <1>1, <1>4, FracOver
  <2>3. n * m \in Int /\ n * d \in Int /\ 0 < n * m /\ 0 < n * d
    BY <1>4, IntMonotone
  <2>4. d * m \in Nat \ {0}
    BY <1>4, ProductPositive
  <2>5. Ordered(Zero, Frac(n * m, d * d), 0, n * m) /\ Ordered(Zero, Frac(n * d, d * m), 0, n * d)
    BY <1>2, <1>3, <2>3, <2>4, Zenon
  <2> QED
    BY <2>1, <2>2, <2>3, <2>5, Zenon DEF Ordered
<1>5. ASSUME 0 < n, 0 <= m PROVE Less(Zero, Plus(x, y)) /\ Less(Zero, Plus(y, x))
  <2>1. Plus(x, y) = Frac(n + m, d) /\ Plus(y, x) = Frac(m + n, d)
    BY <1>1, SameParts
  <2>2. 0 < n + m /\ 0 < m + n /\ n + m \in Int /\ m + n \in Int
    BY <1>5
  <2>3. Ordered(Zero, Frac(n + m, d), 0, n + m) /\ Ordered(Zero, Frac(m + n, d), 0, m + n)
    BY <1>3, <2>2, Zenon
  <2> QED
    BY <2>1, <2>2, <2>3, Zenon DEF Ordered
<1>6. AtMost(Zero, Times(x, x))
  <2>1. Times(x, x) = Frac(n * n, d * d) /\ n * n \in Int /\ 0 <= n * n
    BY <1>1, FracTimes, IntMonotone
  <2>2. Ordered(Zero, Frac(n * n, d * d), 0, n * n)
    BY <1>2, <1>3, <2>1, Zenon
  <2> QED
    BY <2>1, <2>2, Zenon DEF Ordered
<1>7. (Less(Zero, x) <=> 0 < n) /\ (Less(Zero, y) <=> 0 < m) /\ (AtMost(Zero, y) <=> 0 <= m)
      /\ (Zero = x <=> 0 = n)
  BY <1>1, <1>3, Zenon DEF Ordered
<1>8. Less(Zero, x) => x # Zero
  BY <1>7
<1> QED
  BY <1>4, <1>5, <1>6, <1>7, <1>8, Zenon

\* A number is between bounds when its multiples are.
LEMMA OverBetween ==
  \A l, m, p \in Rationals : Less(Zero, p) =>
    /\ AtMost(Times(l, p), m) => AtMost(l, Over(m, p))
    /\ AtMost(m, Times(l, p)) => AtMost(Over(m, p), l)
<1> SUFFICES ASSUME NEW l \in Rationals, NEW m \in Rationals, NEW p \in Rationals, Less(Zero, p)
             PROVE  /\ AtMost(Times(l, p), m) => AtMost(l, Over(m, p))
                    /\ AtMost(m, Times(l, p)) => AtMost(Over(m, p), l)
  OBVIOUS
<1>1. PICK a \in Int, b \in Int, c \in Int, d \in Nat \ {0} :
             l = Frac(a, d) /\ m = Frac(b, d) /\ p = Frac(c, d)
  BY Common3
<1>2. 0 < c
  <2>1. Ordered(Frac(0, d), p, 0, c)
    BY <1>1, SameOrder
  <2>2. Ordered(Zero, p, 0, c)
    BY <2>1, ZeroOne
  <2> QED
    BY <2>2, Zenon DEF Ordered
<1>3. Times(l, p) = Frac(a * c, d * d)
  BY <1>1, FracTimes
<1>4. Over(m, p) = Frac(b * d, d * c)
  <2>1. Over(Frac(b, d), Frac(c, d)) = Frac(b * d, d * c)
    BY <1>2, FracOver
  <2> QED
    BY <1>1, <2>1, Zenon
<1>5. d * d \in Nat \ {0} /\ d * c \in Nat \ {0} /\ a * c \in Int /\ b * d \in Int /\ c \in Nat \ {0}
  BY <1>2, ProductPositive
<1>6. m = Frac(b * d, d * d) /\ l = Frac(a * c, d * c)
  <2>1. Frac(d * b, d * d) = Frac(b, d) /\ Frac(c * a, c * d) = Frac(a, d)
    BY <1>5, FracScales
  <2>2. c * d = d * c /\ d * b = b * d /\ a * c = c * a
    OBVIOUS
  <2> QED
    BY <1>1, <2>1, <2>2
<1>7. /\ Ordered(Frac(a * c, d * d), Frac(b * d, d * d), a * c, b * d)
      /\ Ordered(Frac(b * d, d * d), Frac(a * c, d * d), b * d, a * c)
      /\ Ordered(Frac(a * c, d * c), Frac(b * d, d * c), a * c, b * d)
      /\ Ordered(Frac(b * d, d * c), Frac(a * c, d * c), b * d, a * c)
  BY <1>5, SameOrder
<1>8. /\ Ordered(Times(l, p), m, a * c, b * d) /\ Ordered(m, Times(l, p), b * d, a * c)
      /\ Ordered(l, Over(m, p), a * c, b * d) /\ Ordered(Over(m, p), l, b * d, a * c)
  BY <1>3, <1>4, <1>6, <1>7, Zenon
<1> QED
  BY <1>8, Zenon DEF Ordered

(***************************************************************************)
(* Sums and products of sequences.                                         *)
(***************************************************************************)
LEMMA PrefixSets ==
  \A N \in Nat : \A i \in 1 .. N :
    /\ 1 .. i \in SUBSET (1 .. N) /\ 1 .. i # {}
    /\ Max(1 .. i) = i /\ (1 .. i) \ {i} = 1 .. i - 1
<1> SUFFICES ASSUME NEW N \in Nat, NEW i \in 1 .. N
             PROVE  /\ 1 .. i \in SUBSET (1 .. N) /\ 1 .. i # {}
                    /\ Max(1 .. i) = i /\ (1 .. i) \ {i} = 1 .. i - 1
  OBVIOUS
<1>1. 1 .. i \subseteq 1 .. N /\ 1 \in 1 .. i /\ (1 .. i) \ {i} = 1 .. i - 1
  OBVIOUS
<1>2. Max(1 .. i) = i
  <2>1. Max(1 .. i) \in 1 .. i /\ \A m \in 1 .. i : m <= Max(1 .. i)
    BY <1>1, LargestNumber
  <2>2. i \in 1 .. i
    OBVIOUS
  <2> QED
    BY <2>1, <2>2
<1> QED
  BY <1>1, <1>2

(***************************************************************************)
(* The table FoldLeft looks its result up in exists, for an operation that *)
(* stays inside a set.                                                     *)
(***************************************************************************)
Tabled(D, F, base, xs) ==
  \E h \in [SUBSET (1 .. Len(xs)) -> D] : \A s \in SUBSET (1 .. Len(xs)) :
    h[s] = IF s = {} THEN base ELSE F[h[s \ {Max(s)}]][xs[Max(s)]]

LEMMA FoldTable ==
  ASSUME NEW D, NEW E, NEW F \in [D -> [E -> D]], NEW base \in D, NEW xs \in Seq(E)
  PROVE  Tabled(D, F, base, xs)
<1> DEFINE N == Len(xs)
           Step(h, s) == IF s = {} THEN base ELSE F[h[s \ {Max(s)}]][xs[Max(s)]]
           Table(h, n) == \A s \in SUBSET (1 .. n) : h[s] = Step(h, s)
           Good(n) == n <= N => \E h \in [SUBSET (1 .. n) -> D] : Table(h, n)
<1>1. N \in Nat /\ \A i \in 1 .. N : xs[i] \in E
  OBVIOUS
<1> HIDE DEF N
<1>2. Good(0)
  <2>1. [s \in SUBSET (1 .. 0) |-> base] \in [SUBSET (1 .. 0) -> D]
    OBVIOUS
  <2>2. \A s \in SUBSET (1 .. 0) : s = {}
    OBVIOUS
  <2> QED
    BY <2>1, <2>2
<1>3. ASSUME NEW n \in Nat, Good(n) PROVE Good(n + 1)
  <2> SUFFICES ASSUME n + 1 <= N PROVE \E h \in [SUBSET (1 .. n + 1) -> D] : Table(h, n + 1)
    OBVIOUS
  <2>1. n <= N /\ xs[n + 1] \in E
    BY <1>1
  <2>2. PICK h \in [SUBSET (1 .. n) -> D] : Table(h, n)
    BY <1>3, <2>1
  <2> DEFINE g == [s \in SUBSET (1 .. n + 1) |->
                     IF n + 1 \in s THEN F[h[s \ {n + 1}]][xs[n + 1]] ELSE h[s]]
  <2>3. \A s \in SUBSET (1 .. n + 1) :
          /\ s \ {n + 1} \in SUBSET (1 .. n)
          /\ n + 1 \notin s => s \in SUBSET (1 .. n)
    OBVIOUS
  <2>4. g \in [SUBSET (1 .. n + 1) -> D]
    <3>1. \A y \in D : F[y][xs[n + 1]] \in D
      BY <2>1
    <3>2. \A s \in SUBSET (1 .. n + 1) : n + 1 \in s => F[h[s \ {n + 1}]][xs[n + 1]] \in D
      BY <2>2, <2>3, <3>1
    <3>3. \A s \in SUBSET (1 .. n + 1) : n + 1 \notin s => h[s] \in D
      BY <2>2, <2>3
    <3> QED
      BY <3>2, <3>3
  <2>5. \A s \in SUBSET (1 .. n) : s \in SUBSET (1 .. n + 1) /\ n + 1 \notin s
    OBVIOUS
  <2>6. \A s \in SUBSET (1 .. n) : g[s] = h[s]
    BY <2>5
  <2>7. \A s \in SUBSET (1 .. n + 1) : n + 1 \in s => g[s] = F[h[s \ {n + 1}]][xs[n + 1]]
    OBVIOUS
  <2> HIDE DEF g
  <2>8. ASSUME NEW s \in SUBSET (1 .. n + 1) PROVE g[s] = Step(g, s)
    <3>1. CASE n + 1 \in s
      <4>1. Max(s) \in s /\ \A m \in s : m <= Max(s)
        <5>1. s \subseteq 1 .. n + 1 /\ s # {} /\ n + 1 \in Nat
          BY <3>1
        <5> QED
          BY <5>1, LargestNumber, Zenon
      <4>2. Max(s) = n + 1
        <5>1. Max(s) \in 1 .. n + 1 /\ n + 1 <= Max(s)
          BY <3>1, <4>1
        <5>2. n + 1 \in Int /\ \A k \in 1 .. n + 1 : n + 1 <= k => k = n + 1
          OBVIOUS
        <5> QED
          BY <5>1, <5>2, Zenon
      <4>3. g[s] = F[h[s \ {n + 1}]][xs[n + 1]] /\ h[s \ {n + 1}] = g[s \ {n + 1}]
        BY <2>3, <2>6, <2>7, <3>1, Zenon
      <4> QED
        BY <3>1, <4>2, <4>3, Zenon
    <3>2. CASE n + 1 \notin s
      <4>1. s \in SUBSET (1 .. n) /\ s \ {Max(s)} \in SUBSET (1 .. n)
        BY <2>3, <3>2
      <4>2. g[s] = h[s] /\ g[s \ {Max(s)}] = h[s \ {Max(s)}] /\ h[s] = Step(h, s)
        BY <2>2, <2>6, <4>1
      <4> QED
        BY <4>2
    <3> QED
      BY <3>1, <3>2
  <2> QED
    BY <2>4, <2>8
<1>4. \A n \in Nat : Good(n)
  <2> DEFINE T == {n \in Nat : Good(n)}
  <2> HIDE DEF Good
  <2>1. 0 \in T /\ \A n \in Nat : n \in T => n + 1 \in T
    BY <1>2, <1>3
  <2>2. Nat \subseteq T
    <3> HIDE DEF T
    <3> QED
      BY <2>1, Induction
  <2> QED
    BY <2>2
<1>5. PICK h \in [SUBSET (1 .. N) -> D] : Table(h, N)
  <2> HIDE DEF Table
  <2>1. N <= N
    BY <1>1
  <2> QED
    BY <1>1, <1>4, <2>1
<1> QED
  BY <1>5 DEF N, Tabled

LEMMA AllTabled ==
  \A D, E, F, base, xs :
    F \in [D -> [E -> D]] /\ base \in D /\ xs \in Seq(E) => Tabled(D, F, base, xs)
BY FoldTable, Zenon

SumFromBySteps(base, xs, last) ==
  \E f : /\ f[0] = base /\ last = f[Len(xs)]
       /\ \A i \in 1 .. Len(xs) : f[i] = Plus(f[i - 1], xs[i])

LEMMA SumFromUnfolds ==
  \A base \in Rationals, xs \in Seq(Rationals) : SumFromBySteps(base, xs, SumFrom(base, xs))
<1> SUFFICES ASSUME NEW base \in Rationals, NEW xs \in Seq(Rationals)
             PROVE  SumFromBySteps(base, xs, SumFrom(base, xs))
  OBVIOUS
<1> DEFINE N == Len(xs)
           Row(h, s) == IF s = {} THEN base ELSE Plus(h[s \ {Max(s)}], xs[Max(s)])
           Equation(e) == e = [s \in SUBSET (1 .. N) |-> Row(e, s)]
           table == CHOOSE e : Equation(e)
<1>1. N \in Nat /\ DOMAIN xs = 1 .. N /\ \A i \in 1 .. N : xs[i] \in Rationals
  OBVIOUS
<1>2. \E e : Equation(e)
  <2> DEFINE F == [x \in Rationals |-> [y \in Rationals |-> Plus(x, y)]]
  <2>1. F \in [Rationals -> [Rationals -> Rationals]]
    BY Closed
  <2>2. \A x \in Rationals, y \in Rationals : F[x][y] = Plus(x, y)
    OBVIOUS
  <2> HIDE DEF F
  <2>3. PICK h \in [SUBSET (1 .. N) -> Rationals] : \A s \in SUBSET (1 .. N) :
                h[s] = IF s = {} THEN base ELSE F[h[s \ {Max(s)}]][xs[Max(s)]]
    <3>1. Tabled(Rationals, F, base, xs)
      BY <2>1, AllTabled, Zenon
    <3> QED
      BY <3>1 DEF Tabled
  <2> HIDE DEF N
  <2>4. ASSUME NEW s \in SUBSET (1 .. N) PROVE h[s] = Row(h, s)
    <3>1. CASE s = {}
      BY <2>3, <3>1
    <3>2. CASE s # {}
      <4>1. Max(s) \in 1 .. N /\ s \ {Max(s)} \in SUBSET (1 .. N)
        <5>1. Max(s) \in s
          BY <1>1, <3>2, LargestNumber
        <5> QED
          BY <5>1
      <4>2. h[s \ {Max(s)}] \in Rationals /\ xs[Max(s)] \in Rationals
        BY <1>1, <4>1
      <4> QED
        BY <2>2, <2>3, <3>2, <4>2, Zenon
    <3> QED
      BY <3>1, <3>2
  <2>5. h = [s \in SUBSET (1 .. N) |-> Row(h, s)]
    <3> HIDE DEF Row
    <3> QED
      BY <2>4
  <2> QED
    BY <2>5
<1>3. Equation(table)
  <2> HIDE DEF Equation
  <2> QED
    BY <1>2, Zenon
<1>4. SumFrom(base, xs) = table[1 .. N]
  BY <1>1, Zenon DEF SumFrom, FoldLeft, MapThenFoldSet
<1> HIDE DEF table
<1>5. \A s \in SUBSET (1 .. N) : table[s] = Row(table, s)
  <2> HIDE DEF Row, N
  <2> QED
    BY <1>3
<1> DEFINE f == [k \in 0 .. N |-> table[1 .. k]]
<1>6. f[0] = base
  <2>1. 1 .. 0 = {} /\ {} \in SUBSET (1 .. N) /\ 0 \in 0 .. N
    BY <1>1
  <2>2. table[{}] = base
    BY <1>5, <2>1
  <2> QED
    BY <2>1, <2>2
<1>7. ASSUME NEW i \in 1 .. N PROVE f[i] = Plus(f[i - 1], xs[i])
  <2>1. i \in 0 .. N /\ i - 1 \in 0 .. N
    BY <1>1
  <2>2. 1 .. i \in SUBSET (1 .. N) /\ 1 .. i # {} /\ Max(1 .. i) = i /\ (1 .. i) \ {i} = 1 .. i - 1
    BY <1>1, PrefixSets, Zenon
  <2>3. table[1 .. i] = Plus(table[1 .. i - 1], xs[i])
    <3> HIDE DEF N
    <3> QED
      BY <1>5, <2>2, Zenon
  <2> QED
    BY <2>1, <2>3
<1>8. f[N] = table[1 .. N]
  BY <1>1
<1> HIDE DEF f, N
<1>9. f[0] = base /\ SumFrom(base, xs) = f[N] /\ \A i \in 1 .. N : f[i] = Plus(f[i - 1], xs[i])
  BY <1>4, <1>6, <1>7, <1>8, Zenon
<1> QED
  BY <1>9, Zenon DEF N, SumFromBySteps

\* From the front: nothing folds to the first number, one more goes last.
LEMMA SumFromSteps ==
  ASSUME NEW base \in Rationals, NEW xs \in Seq(Rationals), NEW x \in Rationals
  PROVE  /\ SumFrom(base, <<>>) = base
         /\ SumFrom(base, xs) \in Rationals
         /\ SumFrom(base, Append(xs, x)) = Plus(SumFrom(base, xs), x)
<1> DEFINE N == Len(xs)
           ys == Append(xs, x)
<1>1. N \in Nat /\ ys \in Seq(Rationals) /\ Len(ys) = N + 1 /\ ys[N + 1] = x
      /\ \A i \in 1 .. N : xs[i] \in Rationals /\ ys[i] = xs[i]
  OBVIOUS
<1> HIDE DEF N, ys
<1>2. PICK f : /\ f[0] = base /\ SumFrom(base, xs) = f[N]
              /\ \A i \in 1 .. N : f[i] = Plus(f[i - 1], xs[i])
  <2>1. SumFromBySteps(base, xs, SumFrom(base, xs))
    BY SumFromUnfolds
  <2> QED
    BY <2>1, Zenon DEF N, SumFromBySteps
<1>3. PICK g : /\ g[0] = base /\ SumFrom(base, ys) = g[N + 1]
              /\ \A i \in 1 .. N + 1 : g[i] = Plus(g[i - 1], ys[i])
  <2>1. SumFromBySteps(base, ys, SumFrom(base, ys))
    BY <1>1, SumFromUnfolds
  <2> QED
    BY <1>1, <2>1, Zenon DEF SumFromBySteps
<1>4. \A n \in Nat : n <= N => f[n] = g[n] /\ f[n] \in Rationals
  <2> DEFINE T == {n \in Nat : n <= N => f[n] = g[n] /\ f[n] \in Rationals}
  <2>1. 0 \in T
    BY <1>2, <1>3
  <2>2. ASSUME NEW n \in Nat, n \in T PROVE n + 1 \in T
    <3> SUFFICES ASSUME n + 1 <= N PROVE f[n + 1] = g[n + 1] /\ f[n + 1] \in Rationals
      OBVIOUS
    <3>1. PICK i \in 1 .. N : i = n + 1 /\ i - 1 = n
      BY <1>1
    <3>2. i \in 1 .. N + 1 /\ n <= N
      BY <1>1, <3>1
    <3>3. f[i] = Plus(f[n], xs[i]) /\ g[i] = Plus(g[n], xs[i]) /\ xs[i] \in Rationals
      BY <1>1, <1>2, <1>3, <3>1, <3>2, Zenon
    <3>4. f[n] = g[n] /\ f[n] \in Rationals
      BY <2>2, <3>2
    <3> QED
      BY <3>1, <3>3, <3>4, Closed
  <2>3. Nat \subseteq T
    <3> HIDE DEF T
    <3> QED
      BY <2>1, <2>2, Induction
  <2> QED
    BY <2>3
<1>5. f[N] = g[N] /\ f[N] \in Rationals
  BY <1>1, <1>4
<1>6. SumFrom(base, ys) = Plus(g[N], x)
  <2>1. PICK i \in 1 .. N + 1 : i = N + 1 /\ i - 1 = N
    BY <1>1
  <2> QED
    BY <1>1, <1>3, <2>1, Zenon
<1>7. SumFrom(base, <<>>) = base
  <2>1. <<>> \in Seq(Rationals) /\ Len(<<>>) = 0
    OBVIOUS
  <2>2. SumFromBySteps(base, <<>>, SumFrom(base, <<>>))
    BY <2>1, SumFromUnfolds, Zenon
  <2> QED
    BY <2>1, <2>2, Zenon DEF SumFromBySteps
<1> QED
  BY <1>2, <1>5, <1>6, <1>7 DEF ys

ProductFromBySteps(base, xs, last) ==
  \E f : /\ f[0] = base /\ last = f[Len(xs)]
       /\ \A i \in 1 .. Len(xs) : f[i] = Times(f[i - 1], xs[i])

LEMMA ProductFromUnfolds ==
  \A base \in Rationals, xs \in Seq(Rationals) : ProductFromBySteps(base, xs, ProductFrom(base, xs))
<1> SUFFICES ASSUME NEW base \in Rationals, NEW xs \in Seq(Rationals)
             PROVE  ProductFromBySteps(base, xs, ProductFrom(base, xs))
  OBVIOUS
<1> DEFINE N == Len(xs)
           Row(h, s) == IF s = {} THEN base ELSE Times(h[s \ {Max(s)}], xs[Max(s)])
           Equation(e) == e = [s \in SUBSET (1 .. N) |-> Row(e, s)]
           table == CHOOSE e : Equation(e)
<1>1. N \in Nat /\ DOMAIN xs = 1 .. N /\ \A i \in 1 .. N : xs[i] \in Rationals
  OBVIOUS
<1>2. \E e : Equation(e)
  <2> DEFINE F == [x \in Rationals |-> [y \in Rationals |-> Times(x, y)]]
  <2>1. F \in [Rationals -> [Rationals -> Rationals]]
    BY Closed
  <2>2. \A x \in Rationals, y \in Rationals : F[x][y] = Times(x, y)
    OBVIOUS
  <2> HIDE DEF F
  <2>3. PICK h \in [SUBSET (1 .. N) -> Rationals] : \A s \in SUBSET (1 .. N) :
                h[s] = IF s = {} THEN base ELSE F[h[s \ {Max(s)}]][xs[Max(s)]]
    <3>1. Tabled(Rationals, F, base, xs)
      BY <2>1, AllTabled, Zenon
    <3> QED
      BY <3>1 DEF Tabled
  <2> HIDE DEF N
  <2>4. ASSUME NEW s \in SUBSET (1 .. N) PROVE h[s] = Row(h, s)
    <3>1. CASE s = {}
      BY <2>3, <3>1
    <3>2. CASE s # {}
      <4>1. Max(s) \in 1 .. N /\ s \ {Max(s)} \in SUBSET (1 .. N)
        <5>1. Max(s) \in s
          BY <1>1, <3>2, LargestNumber
        <5> QED
          BY <5>1
      <4>2. h[s \ {Max(s)}] \in Rationals /\ xs[Max(s)] \in Rationals
        BY <1>1, <4>1
      <4> QED
        BY <2>2, <2>3, <3>2, <4>2, Zenon
    <3> QED
      BY <3>1, <3>2
  <2>5. h = [s \in SUBSET (1 .. N) |-> Row(h, s)]
    <3> HIDE DEF Row
    <3> QED
      BY <2>4
  <2> QED
    BY <2>5
<1>3. Equation(table)
  <2> HIDE DEF Equation
  <2> QED
    BY <1>2, Zenon
<1>4. ProductFrom(base, xs) = table[1 .. N]
  BY <1>1, Zenon DEF ProductFrom, FoldLeft, MapThenFoldSet
<1> HIDE DEF table
<1>5. \A s \in SUBSET (1 .. N) : table[s] = Row(table, s)
  <2> HIDE DEF Row, N
  <2> QED
    BY <1>3
<1> DEFINE f == [k \in 0 .. N |-> table[1 .. k]]
<1>6. f[0] = base
  <2>1. 1 .. 0 = {} /\ {} \in SUBSET (1 .. N) /\ 0 \in 0 .. N
    BY <1>1
  <2>2. table[{}] = base
    BY <1>5, <2>1
  <2> QED
    BY <2>1, <2>2
<1>7. ASSUME NEW i \in 1 .. N PROVE f[i] = Times(f[i - 1], xs[i])
  <2>1. i \in 0 .. N /\ i - 1 \in 0 .. N
    BY <1>1
  <2>2. 1 .. i \in SUBSET (1 .. N) /\ 1 .. i # {} /\ Max(1 .. i) = i /\ (1 .. i) \ {i} = 1 .. i - 1
    BY <1>1, PrefixSets, Zenon
  <2>3. table[1 .. i] = Times(table[1 .. i - 1], xs[i])
    <3> HIDE DEF N
    <3> QED
      BY <1>5, <2>2, Zenon
  <2> QED
    BY <2>1, <2>3
<1>8. f[N] = table[1 .. N]
  BY <1>1
<1> HIDE DEF f, N
<1>9. f[0] = base /\ ProductFrom(base, xs) = f[N] /\ \A i \in 1 .. N : f[i] = Times(f[i - 1], xs[i])
  BY <1>4, <1>6, <1>7, <1>8, Zenon
<1> QED
  BY <1>9, Zenon DEF N, ProductFromBySteps

\* From the front: nothing folds to the first number, one more goes last.
LEMMA ProductFromSteps ==
  ASSUME NEW base \in Rationals, NEW xs \in Seq(Rationals), NEW x \in Rationals
  PROVE  /\ ProductFrom(base, <<>>) = base
         /\ ProductFrom(base, xs) \in Rationals
         /\ ProductFrom(base, Append(xs, x)) = Times(ProductFrom(base, xs), x)
<1> DEFINE N == Len(xs)
           ys == Append(xs, x)
<1>1. N \in Nat /\ ys \in Seq(Rationals) /\ Len(ys) = N + 1 /\ ys[N + 1] = x
      /\ \A i \in 1 .. N : xs[i] \in Rationals /\ ys[i] = xs[i]
  OBVIOUS
<1> HIDE DEF N, ys
<1>2. PICK f : /\ f[0] = base /\ ProductFrom(base, xs) = f[N]
              /\ \A i \in 1 .. N : f[i] = Times(f[i - 1], xs[i])
  <2>1. ProductFromBySteps(base, xs, ProductFrom(base, xs))
    BY ProductFromUnfolds
  <2> QED
    BY <2>1, Zenon DEF N, ProductFromBySteps
<1>3. PICK g : /\ g[0] = base /\ ProductFrom(base, ys) = g[N + 1]
              /\ \A i \in 1 .. N + 1 : g[i] = Times(g[i - 1], ys[i])
  <2>1. ProductFromBySteps(base, ys, ProductFrom(base, ys))
    BY <1>1, ProductFromUnfolds
  <2> QED
    BY <1>1, <2>1, Zenon DEF ProductFromBySteps
<1>4. \A n \in Nat : n <= N => f[n] = g[n] /\ f[n] \in Rationals
  <2> DEFINE T == {n \in Nat : n <= N => f[n] = g[n] /\ f[n] \in Rationals}
  <2>1. 0 \in T
    BY <1>2, <1>3
  <2>2. ASSUME NEW n \in Nat, n \in T PROVE n + 1 \in T
    <3> SUFFICES ASSUME n + 1 <= N PROVE f[n + 1] = g[n + 1] /\ f[n + 1] \in Rationals
      OBVIOUS
    <3>1. PICK i \in 1 .. N : i = n + 1 /\ i - 1 = n
      BY <1>1
    <3>2. i \in 1 .. N + 1 /\ n <= N
      BY <1>1, <3>1
    <3>3. f[i] = Times(f[n], xs[i]) /\ g[i] = Times(g[n], xs[i]) /\ xs[i] \in Rationals
      BY <1>1, <1>2, <1>3, <3>1, <3>2, Zenon
    <3>4. f[n] = g[n] /\ f[n] \in Rationals
      BY <2>2, <3>2
    <3> QED
      BY <3>1, <3>3, <3>4, Closed
  <2>3. Nat \subseteq T
    <3> HIDE DEF T
    <3> QED
      BY <2>1, <2>2, Induction
  <2> QED
    BY <2>3
<1>5. f[N] = g[N] /\ f[N] \in Rationals
  BY <1>1, <1>4
<1>6. ProductFrom(base, ys) = Times(g[N], x)
  <2>1. PICK i \in 1 .. N + 1 : i = N + 1 /\ i - 1 = N
    BY <1>1
  <2> QED
    BY <1>1, <1>3, <2>1, Zenon
<1>7. ProductFrom(base, <<>>) = base
  <2>1. <<>> \in Seq(Rationals) /\ Len(<<>>) = 0
    OBVIOUS
  <2>2. ProductFromBySteps(base, <<>>, ProductFrom(base, <<>>))
    BY <2>1, ProductFromUnfolds, Zenon
  <2> QED
    BY <2>1, <2>2, Zenon DEF ProductFromBySteps
<1> QED
  BY <1>2, <1>5, <1>6, <1>7 DEF ys

(***************************************************************************)
(* Algebra of the estimators.                                              *)
(***************************************************************************)
LEMMA Exchange ==
  \A x, y, z, w \in Rationals :
    /\ Plus(Plus(x, y), Plus(z, w)) = Plus(Plus(x, z), Plus(y, w))
    /\ Minus(Plus(x, y), Plus(z, w)) = Plus(Minus(x, z), Minus(y, w))
<1> SUFFICES ASSUME NEW x \in Rationals, NEW y \in Rationals, NEW z \in Rationals, NEW w \in Rationals
             PROVE  /\ Plus(Plus(x, y), Plus(z, w)) = Plus(Plus(x, z), Plus(y, w))
                    /\ Minus(Plus(x, y), Plus(z, w)) = Plus(Minus(x, z), Minus(y, w))
  OBVIOUS
<1>1. PICK a \in Int, b \in Int, c \in Int, k \in Int, d \in Nat \ {0} :
             x = Frac(a, d) /\ y = Frac(b, d) /\ z = Frac(c, d) /\ w = Frac(k, d)
  BY Common4
<1>2. /\ Plus(x, y) = Frac(a + b, d) /\ Plus(z, w) = Frac(c + k, d)
      /\ Plus(x, z) = Frac(a + c, d) /\ Plus(y, w) = Frac(b + k, d)
      /\ Minus(x, z) = Frac(a - c, d) /\ Minus(y, w) = Frac(b - k, d)
  <2>1. /\ Plus(Frac(a, d), Frac(b, d)) = Frac(a + b, d)
        /\ Plus(Frac(c, d), Frac(k, d)) = Frac(c + k, d)
        /\ Plus(Frac(a, d), Frac(c, d)) = Frac(a + c, d)
        /\ Plus(Frac(b, d), Frac(k, d)) = Frac(b + k, d)
        /\ Minus(Frac(a, d), Frac(c, d)) = Frac(a - c, d)
        /\ Minus(Frac(b, d), Frac(k, d)) = Frac(b - k, d)
    BY SameParts
  <2> QED
    BY <1>1, <2>1, Zenon
<1>3. a + b \in Int /\ c + k \in Int /\ a + c \in Int /\ b + k \in Int /\ a - c \in Int /\ b - k \in Int
  OBVIOUS
<1>4. /\ Plus(Frac(a + b, d), Frac(c + k, d)) = Frac((a + b) + (c + k), d)
      /\ Plus(Frac(a + c, d), Frac(b + k, d)) = Frac((a + c) + (b + k), d)
      /\ Minus(Frac(a + b, d), Frac(c + k, d)) = Frac((a + b) - (c + k), d)
      /\ Plus(Frac(a - c, d), Frac(b - k, d)) = Frac((a - c) + (b - k), d)
  BY <1>3, SameParts
<1>5. (a + b) + (c + k) = (a + c) + (b + k) /\ (a + b) - (c + k) = (a - c) + (b - k)
  OBVIOUS
<1> QED
  BY <1>2, <1>4, <1>5, Zenon

LEMMA MinusPlus ==
  \A x, y \in Rationals :
    /\ Plus(x, Minus(y, x)) = y /\ Minus(Plus(x, y), x) = y
    /\ \A z \in Rationals : Plus(x, y) = z => y = Minus(z, x)
<1> SUFFICES ASSUME NEW x \in Rationals, NEW y \in Rationals
             PROVE  /\ Plus(x, Minus(y, x)) = y
                    /\ Minus(Plus(x, y), x) = y
  BY Zenon
<1>1. PICK n \in Int, m \in Int, d \in Nat \ {0} : x = Frac(n, d) /\ y = Frac(m, d)
  BY Common2
<1>2. m - n \in Int /\ n + m \in Int /\ n + (m - n) = m /\ (n + m) - n = m
  OBVIOUS
<1>3. /\ Minus(Frac(m, d), Frac(n, d)) = Frac(m - n, d)
      /\ Plus(Frac(n, d), Frac(m, d)) = Frac(n + m, d)
  BY SameParts
<1>4. /\ Plus(Frac(n, d), Frac(m - n, d)) = Frac(n + (m - n), d)
      /\ Minus(Frac(n + m, d), Frac(n, d)) = Frac((n + m) - n, d)
  BY <1>2, SameParts
<1> QED
  BY <1>1, <1>2, <1>3, <1>4, Zenon

\* A weighted mean moved towards a new value that weighs one.
LEMMA MeanMoves ==
  \A m, y, t \in Rationals : Plus(t, One) # Zero =>
    Times(Plus(t, One), Plus(m, Over(Minus(y, m), Plus(t, One)))) = Plus(Times(t, m), y)
<1> SUFFICES ASSUME NEW m \in Rationals, NEW y \in Rationals, NEW t \in Rationals,
                    Plus(t, One) # Zero
             PROVE  Times(Plus(t, One), Plus(m, Over(Minus(y, m), Plus(t, One))))
                      = Plus(Times(t, m), y)
  OBVIOUS
<1> DEFINE w == Plus(t, One)
           r == Minus(y, m)
           q == Over(r, w)
<1>1. w \in Rationals /\ r \in Rationals /\ q \in Rationals /\ One \in Rationals
  BY Closed, ZeroOne
<1>2. Times(w, q) = r
  BY <1>1, OverCancels
<1>3. Times(w, m) = Plus(Times(t, m), m)
  <2>1. Times(m, w) = Plus(Times(m, t), Times(m, One))
    BY <1>1, TimesDistributes
  <2> QED
    BY <1>1, <2>1, TimesCommutes, Units
<1>4. Plus(m, r) = y
  BY MinusPlus
<1> HIDE DEF w, r, q
<1>5. Times(w, Plus(m, q)) = Plus(Times(w, m), Times(w, q))
  BY <1>1, TimesDistributes
<1>6. Times(t, m) \in Rationals
  BY Closed
<1>7. Plus(Plus(Times(t, m), m), r) = Plus(Times(t, m), Plus(m, r))
  BY <1>1, <1>6, PlusAssociates
<1>8. Times(w, Plus(m, q)) = Plus(Times(t, m), y)
  BY <1>2, <1>3, <1>4, <1>5, <1>7
<1> QED
  BY <1>8 DEF w, r, q

\* Sums of weights, of weighted values and of their weighted squares make up
\* the sum of weighted squared deviations.
Spread(m, a, b, c) == Plus(Minus(c, Times(Plus(m, m), b)), Times(Times(m, m), a))

LEMMA SpreadAdds ==
  \A m, a, b, c, p, q, r \in Rationals :
    /\ Spread(m, a, b, c) \in Rationals
    /\ Spread(m, Plus(a, p), Plus(b, q), Plus(c, r)) = Plus(Spread(m, a, b, c), Spread(m, p, q, r))
<1>1. ASSUME NEW m \in Rationals, NEW a \in Rationals, NEW b \in Rationals, NEW c \in Rationals,
             NEW p \in Rationals, NEW q \in Rationals, NEW r \in Rationals
      PROVE  /\ Spread(m, a, b, c) \in Rationals
             /\ Spread(m, Plus(a, p), Plus(b, q), Plus(c, r))
                  = Plus(Spread(m, a, b, c), Spread(m, p, q, r))
  <2> DEFINE k == Plus(m, m)
             s == Times(m, m)
  <2>1. k \in Rationals /\ s \in Rationals
    BY Closed
  <2> HIDE DEF k, s
  <2>2. Times(k, Plus(b, q)) = Plus(Times(k, b), Times(k, q))
        /\ Times(s, Plus(a, p)) = Plus(Times(s, a), Times(s, p))
    BY <2>1, TimesDistributes
  <2> DEFINE kb == Times(k, b)
             kq == Times(k, q)
             sa == Times(s, a)
             sp == Times(s, p)
  <2>3. kb \in Rationals /\ kq \in Rationals /\ sa \in Rationals /\ sp \in Rationals
    BY <2>1, Closed
  <2> HIDE DEF kb, kq, sa, sp
  <2>4. Minus(Plus(c, r), Plus(kb, kq)) = Plus(Minus(c, kb), Minus(r, kq))
    BY <2>3, Exchange
  <2>5. Minus(c, kb) \in Rationals /\ Minus(r, kq) \in Rationals
    BY <2>3, Closed
  <2>6. Plus(Plus(Minus(c, kb), Minus(r, kq)), Plus(sa, sp))
          = Plus(Plus(Minus(c, kb), sa), Plus(Minus(r, kq), sp))
    BY <2>3, <2>5, Exchange
  <2>7. Spread(m, a, b, c) = Plus(Minus(c, kb), sa) /\ Spread(m, p, q, r) = Plus(Minus(r, kq), sp)
    BY Zenon DEF Spread, kb, kq, sa, sp, k, s
  <2>8. Spread(m, Plus(a, p), Plus(b, q), Plus(c, r))
          = Plus(Minus(Plus(c, r), Plus(kb, kq)), Plus(sa, sp))
    BY <2>2, Zenon DEF Spread, kb, kq, sa, sp, k, s
  <2>9. Plus(Minus(c, kb), sa) \in Rationals
    BY <2>3, <2>5, Closed
  <2> QED
    BY <2>4, <2>6, <2>7, <2>8, <2>9, Zenon
<1> QED
  BY <1>1, Zenon

\* A sum of scaled numbers is the scaled sum.
LEMMA SumScales ==
  ASSUME NEW d \in Rationals, NEW base \in Rationals,
         NEW xs \in Seq(Rationals), NEW ys \in Seq(Rationals), Len(ys) = Len(xs),
         \A i \in 1 .. Len(xs) : ys[i] = Times(d, xs[i])
  PROVE  SumFrom(Times(d, base), ys) = Times(d, SumFrom(base, xs))
<1> DEFINE N == Len(xs)
<1>1. N \in Nat /\ Len(ys) = N /\ Times(d, base) \in Rationals
      /\ \A i \in 1 .. N : xs[i] \in Rationals /\ ys[i] = Times(d, xs[i])
  BY Closed
<1> HIDE DEF N
<1>2. PICK f : /\ f[0] = base /\ SumFrom(base, xs) = f[N]
              /\ \A i \in 1 .. N : f[i] = Plus(f[i - 1], xs[i])
  <2>1. SumFromBySteps(base, xs, SumFrom(base, xs))
    BY SumFromUnfolds
  <2> QED
    BY <2>1, Zenon DEF N, SumFromBySteps
<1>3. PICK g : /\ g[0] = Times(d, base) /\ SumFrom(Times(d, base), ys) = g[N]
              /\ \A i \in 1 .. N : g[i] = Plus(g[i - 1], ys[i])
  <2>1. SumFromBySteps(Times(d, base), ys, SumFrom(Times(d, base), ys))
    BY <1>1, SumFromUnfolds
  <2> QED
    BY <1>1, <2>1, Zenon DEF SumFromBySteps
<1>4. \A n \in Nat : n <= N => f[n] \in Rationals /\ g[n] = Times(d, f[n])
  <2> DEFINE T == {n \in Nat : n <= N => f[n] \in Rationals /\ g[n] = Times(d, f[n])}
  <2>1. 0 \in T
    BY <1>2, <1>3
  <2>2. ASSUME NEW n \in Nat, n \in T PROVE n + 1 \in T
    <3> SUFFICES ASSUME n + 1 <= N
                 PROVE  f[n + 1] \in Rationals /\ g[n + 1] = Times(d, f[n + 1])
      OBVIOUS
    <3>1. PICK i \in 1 .. N : i = n + 1 /\ i - 1 = n
      BY <1>1
    <3>2. f[n] \in Rationals /\ g[n] = Times(d, f[n])
      <4>1. n <= N
        BY <1>1
      <4> QED
        BY <2>2, <4>1
    <3>3. f[i] = Plus(f[n], xs[i]) /\ g[i] = Plus(g[n], ys[i]) /\ xs[i] \in Rationals
          /\ ys[i] = Times(d, xs[i])
      BY <1>1, <1>2, <1>3, <3>1, Zenon
    <3>4. Times(d, Plus(f[n], xs[i])) = Plus(Times(d, f[n]), Times(d, xs[i]))
      BY <3>2, <3>3, TimesDistributes, Zenon
    <3>5. Plus(f[n], xs[i]) \in Rationals
      BY <3>2, <3>3, Closed, Zenon
    <3> QED
      BY <3>1, <3>2, <3>3, <3>4, <3>5, Zenon
  <2>3. Nat \subseteq T
    <3> HIDE DEF T
    <3> QED
      BY <2>1, <2>2, Induction
  <2> QED
    BY <2>3
<1>5. N <= N
  BY <1>1
<1> QED
  BY <1>1, <1>2, <1>3, <1>4, <1>5, Zenon

LEMMA EntriesIn == \A S : \A s \in Seq(S) : \A i \in 1 .. Len(s) : s[i] \in S
OBVIOUS

SpreadLists(m, a, b, c, n, as, bs, cs, es) ==
  /\ m \in Rationals /\ a \in Rationals /\ b \in Rationals /\ c \in Rationals /\ n \in Nat
  /\ as \in Seq(Rationals) /\ bs \in Seq(Rationals) /\ cs \in Seq(Rationals) /\ es \in Seq(Rationals)
  /\ Len(as) = n /\ Len(bs) = n /\ Len(cs) = n /\ Len(es) = n
  /\ \A i \in 1 .. n : es[i] = Spread(m, as[i], bs[i], cs[i])

SpreadTotals(m, a, b, c, as, bs, cs, es) ==
  SumFrom(Spread(m, a, b, c), es) = Spread(m, SumFrom(a, as), SumFrom(b, bs), SumFrom(c, cs))

\* The spread of sums is the sum of the spreads.
LEMMA SpreadSums ==
  \A m, a, b, c, N, as, bs, cs, es :
    SpreadLists(m, a, b, c, N, as, bs, cs, es) => SpreadTotals(m, a, b, c, as, bs, cs, es)
<1> SUFFICES ASSUME NEW m, NEW a, NEW b, NEW c, NEW N, NEW as, NEW bs, NEW cs, NEW es,
                    SpreadLists(m, a, b, c, N, as, bs, cs, es)
             PROVE  SumFrom(Spread(m, a, b, c), es)
                      = Spread(m, SumFrom(a, as), SumFrom(b, bs), SumFrom(c, cs))
  BY Zenon DEF SpreadTotals
<1> m \in Rationals /\ a \in Rationals /\ b \in Rationals /\ c \in Rationals /\ N \in Nat
  BY Zenon DEF SpreadLists
<1> as \in Seq(Rationals) /\ bs \in Seq(Rationals) /\ cs \in Seq(Rationals) /\ es \in Seq(Rationals)
  BY Zenon DEF SpreadLists
<1> Len(as) = N /\ Len(bs) = N /\ Len(cs) = N /\ Len(es) = N
  BY Zenon DEF SpreadLists
<1> \A i \in 1 .. N : es[i] = Spread(m, as[i], bs[i], cs[i])
  BY Zenon DEF SpreadLists
<1> DEFINE e == Spread(m, a, b, c)
<1>1. e \in Rationals
  BY SpreadAdds, ZeroOne
<1> HIDE DEF e
<1>2. ASSUME NEW i \in 1 .. N
      PROVE  as[i] \in Rationals /\ bs[i] \in Rationals /\ cs[i] \in Rationals
  <2>1. as[i] \in Rationals
    BY EntriesIn
  <2>2. bs[i] \in Rationals
    BY EntriesIn
  <2>3. cs[i] \in Rationals
    BY EntriesIn
  <2> QED
    BY <2>1, <2>2, <2>3
<1>0. ASSUME NEW u \in Rationals, NEW v \in Rationals, NEW w \in Rationals,
             NEW p \in Rationals, NEW q \in Rationals, NEW r \in Rationals
      PROVE  /\ Spread(m, Plus(u, p), Plus(v, q), Plus(w, r)) = Plus(Spread(m, u, v, w), Spread(m, p, q, r))
             /\ Plus(u, p) \in Rationals /\ Plus(v, q) \in Rationals /\ Plus(w, r) \in Rationals
  <2>1. Spread(m, Plus(u, p), Plus(v, q), Plus(w, r)) = Plus(Spread(m, u, v, w), Spread(m, p, q, r))
    BY SpreadAdds
  <2> QED
    BY <2>1, Closed
<1>3. PICK f : /\ f[0] = a /\ SumFrom(a, as) = f[N]
              /\ \A i \in 1 .. N : f[i] = Plus(f[i - 1], as[i])
  <2>1. SumFromBySteps(a, as, SumFrom(a, as))
    BY SumFromUnfolds
  <2> QED
    BY <2>1, Zenon DEF SumFromBySteps
<1>4. PICK g : /\ g[0] = b /\ SumFrom(b, bs) = g[N]
              /\ \A i \in 1 .. N : g[i] = Plus(g[i - 1], bs[i])
  <2>1. SumFromBySteps(b, bs, SumFrom(b, bs))
    BY SumFromUnfolds
  <2> QED
    BY <2>1, Zenon DEF SumFromBySteps
<1>5. PICK h : /\ h[0] = c /\ SumFrom(c, cs) = h[N]
              /\ \A i \in 1 .. N : h[i] = Plus(h[i - 1], cs[i])
  <2>1. SumFromBySteps(c, cs, SumFrom(c, cs))
    BY SumFromUnfolds
  <2> QED
    BY <2>1, Zenon DEF SumFromBySteps
<1>6. PICK k : /\ k[0] = e /\ SumFrom(e, es) = k[N]
              /\ \A i \in 1 .. N : k[i] = Plus(k[i - 1], es[i])
  <2>1. SumFromBySteps(e, es, SumFrom(e, es))
    BY <1>1, SumFromUnfolds
  <2> QED
    BY <2>1, Zenon DEF SumFromBySteps
<1> DEFINE Good(n) == /\ f[n] \in Rationals /\ g[n] \in Rationals /\ h[n] \in Rationals
                      /\ k[n] = Spread(m, f[n], g[n], h[n])
<1>7. \A n \in Nat : n <= N => Good(n)
  <2> DEFINE T == {n \in Nat : n <= N => Good(n)}
  <2>1. 0 \in T
    BY <1>3, <1>4, <1>5, <1>6 DEF e
  <2>2. ASSUME NEW n \in Nat, n \in T PROVE n + 1 \in T
    <3> SUFFICES ASSUME n + 1 <= N PROVE Good(n + 1)
      OBVIOUS
    <3>1. PICK i \in 1 .. N : i = n + 1 /\ i - 1 = n
      OBVIOUS
    <3>2. Good(n)
      <4>1. n <= N
        OBVIOUS
      <4> QED
        BY <2>2, <4>1
    <3>3. /\ f[i] = Plus(f[n], as[i]) /\ g[i] = Plus(g[n], bs[i]) /\ h[i] = Plus(h[n], cs[i])
          /\ k[i] = Plus(k[n], es[i]) /\ es[i] = Spread(m, as[i], bs[i], cs[i])
          /\ as[i] \in Rationals /\ bs[i] \in Rationals /\ cs[i] \in Rationals
      BY <1>2, <1>3, <1>4, <1>5, <1>6, <3>1, Zenon
    <3>4. /\ f[n] \in Rationals /\ g[n] \in Rationals /\ h[n] \in Rationals
          /\ k[n] = Spread(m, f[n], g[n], h[n])
      BY <3>2
    <3> HIDE DEF Good
    <3>5. PICK u \in Rationals, v \in Rationals, w \in Rationals,
               p \in Rationals, q \in Rationals, r \in Rationals :
                 /\ u = f[n] /\ v = g[n] /\ w = h[n]
                 /\ p = as[i] /\ q = bs[i] /\ r = cs[i]
      BY <3>3, <3>4, Zenon
    <3>6. /\ Spread(m, Plus(u, p), Plus(v, q), Plus(w, r)) = Plus(Spread(m, u, v, w), Spread(m, p, q, r))
          /\ Plus(u, p) \in Rationals /\ Plus(v, q) \in Rationals /\ Plus(w, r) \in Rationals
      <4>1. /\ u \in Rationals /\ v \in Rationals /\ w \in Rationals
            /\ p \in Rationals /\ q \in Rationals /\ r \in Rationals
        BY <3>5
      <4> QED
        BY ONLY <1>0, <4>1
    <3>7. f[i] \in Rationals /\ g[i] \in Rationals /\ h[i] \in Rationals
      BY <3>3, <3>5, <3>6, Zenon
    <3>8. k[i] = Spread(m, f[i], g[i], h[i])
      BY <3>3, <3>4, <3>5, <3>6, Zenon
    <3> QED
      BY <3>1, <3>7, <3>8 DEF Good
  <2>3. Nat \subseteq T
    <3> HIDE DEF T
    <3> QED
      BY <2>1, <2>2, Induction
  <2> QED
    BY <2>3
<1>8. Good(N)
  <2> HIDE DEF Good
  <2>1. N <= N
    OBVIOUS
  <2> QED
    BY <1>7, <2>1
<1> QED
  BY <1>3, <1>4, <1>5, <1>6, <1>8, Zenon DEF e

\* One value's share: w (x - m)^2 is w x^2 - 2 m (w x) + m^2 w.
LEMMA SpreadEntry ==
  \A w, x, m \in Rationals :
    Times(w, Times(Minus(x, m), Minus(x, m)))
      = Spread(m, w, Times(w, x), Times(w, Times(x, x)))
<1> SUFFICES ASSUME NEW w \in Rationals, NEW x \in Rationals, NEW m \in Rationals
             PROVE  Times(w, Times(Minus(x, m), Minus(x, m)))
                      = Spread(m, w, Times(w, x), Times(w, Times(x, x)))
  OBVIOUS
<1>1. PICK a \in Int, b \in Int, c \in Int, d \in Nat \ {0} :
             w = Frac(a, d) /\ x = Frac(b, d) /\ m = Frac(c, d)
  BY Common3
<1> DEFINE e == d * d
           g == d * (d * d)
<1>2. e \in Nat \ {0} /\ g \in Nat \ {0} /\ d * e = g /\ e * d = g
  BY ProductPositive
<1> HIDE DEF e, g
<1>3. Minus(x, m) = Frac(b - c, d) /\ Plus(m, m) = Frac(c + c, d) /\ b - c \in Int /\ c + c \in Int
  <2>1. Minus(Frac(b, d), Frac(c, d)) = Frac(b - c, d) /\ Plus(Frac(c, d), Frac(c, d)) = Frac(c + c, d)
    BY SameParts
  <2> QED
    BY <1>1, <2>1
<1>4. ASSUME NEW i \in Int, NEW j \in Int PROVE Times(Frac(i, d), Frac(j, d)) = Frac(i * j, e)
  BY FracTimes DEF e
<1>5. ASSUME NEW i \in Int, NEW j \in Int
      PROVE  Times(Frac(i, d), Frac(j, e)) = Frac(i * j, g) /\ Times(Frac(i, e), Frac(j, d)) = Frac(i * j, g)
  <2>1. Times(Frac(i, d), Frac(j, e)) = Frac(i * j, d * e)
    BY <1>2, FracTimes
  <2>2. Times(Frac(i, e), Frac(j, d)) = Frac(i * j, e * d)
    BY <1>2, FracTimes
  <2> QED
    BY <1>2, <2>1, <2>2, Zenon
<1>6. \A i, j \in Int : i * j \in Int /\ i - j \in Int /\ i + j \in Int
  OBVIOUS
<1>7. Times(w, Times(Minus(x, m), Minus(x, m))) = Frac(a * ((b - c) * (b - c)), g)
  <2>1. Times(Frac(b - c, d), Frac(b - c, d)) = Frac((b - c) * (b - c), e)
    BY <1>3, <1>4
  <2>2. Times(Frac(a, d), Frac((b - c) * (b - c), e)) = Frac(a * ((b - c) * (b - c)), g)
    BY <1>3, <1>5, <1>6
  <2> QED
    BY <1>1, <1>3, <2>1, <2>2, Zenon
<1>8. Times(w, Times(x, x)) = Frac(a * (b * b), g)
  <2>1. Times(Frac(b, d), Frac(b, d)) = Frac(b * b, e)
    BY <1>4
  <2>2. Times(Frac(a, d), Frac(b * b, e)) = Frac(a * (b * b), g)
    BY <1>5, <1>6
  <2> QED
    BY <1>1, <2>1, <2>2, Zenon
<1>9. Times(Plus(m, m), Times(w, x)) = Frac((c + c) * (a * b), g)
  <2>1. Times(Frac(a, d), Frac(b, d)) = Frac(a * b, e)
    BY <1>4
  <2>2. Times(Frac(c + c, d), Frac(a * b, e)) = Frac((c + c) * (a * b), g)
    BY <1>3, <1>5, <1>6
  <2> QED
    BY <1>1, <1>3, <2>1, <2>2, Zenon
<1>10. Times(Times(m, m), w) = Frac((c * c) * a, g)
  <2>1. Times(Frac(c, d), Frac(c, d)) = Frac(c * c, e)
    BY <1>4
  <2>2. Times(Frac(c * c, e), Frac(a, d)) = Frac((c * c) * a, g)
    BY <1>5, <1>6
  <2> QED
    BY <1>1, <2>1, <2>2, Zenon
<1> DEFINE i == a * (b * b)
           j == (c + c) * (a * b)
           k == (c * c) * a
<1>11. i \in Int /\ j \in Int /\ k \in Int /\ i - j \in Int /\ (i - j) + k = a * ((b - c) * (b - c))
  OBVIOUS
<1> HIDE DEF i, j, k
<1>12. Minus(Frac(i, g), Frac(j, g)) = Frac(i - j, g)
  BY <1>2, <1>11, SameParts
<1>13. Plus(Frac(i - j, g), Frac(k, g)) = Frac((i - j) + k, g)
  BY <1>2, <1>11, SameParts
<1>14. Spread(m, w, Times(w, x), Times(w, Times(x, x))) = Plus(Minus(Frac(i, g), Frac(j, g)), Frac(k, g))
  BY <1>8, <1>9, <1>10, Zenon DEF Spread, i, j, k
<1> QED
  BY <1>7, <1>11, <1>12, <1>13, <1>14, Zenon

(***************************************************************************)
(* Numbers of type double.                                                 *)
(***************************************************************************)
\* A double that is finite is a fraction in lowest terms.
LEMMA DoublesFinite ==
  /\ \A x \in Double : IsFinite(x) => x \in Rationals
  /\ Rationals \subseteq Double
  /\ NaN = <<0, 0>> /\ Inf = <<1, 0>> /\ NaN \in Double /\ Inf \in Double
  /\ ~IsFinite(NaN) /\ ~IsFinite(Inf) /\ NaN # Inf
  /\ NaN \notin Rationals /\ Inf \notin Rationals
<1>1. NaN = <<0, 0>> /\ Inf = <<1, 0>>
  BY DEF NaN, Inf, Frac, Sign
<1>2. ASSUME NEW x \in Double, IsFinite(x) PROVE x \in Rationals
  <2>1. x[1] \in Int /\ x[2] \in Int /\ x[2] > 0 /\ x = Frac(x[1], x[2])
    BY <1>2 DEF Double, IsFinite
  <2>2. x[2] \in Nat \ {0}
    BY <2>1
  <2>3. Frac(x[1], x[2]) \in Rationals
    BY <2>1, <2>2, FracReduces
  <2> QED
    BY <2>1, <2>3, Zenon
<1>3. ASSUME NEW x \in Rationals PROVE x \in Double
  <2>1. x = <<x[1], x[2]>> /\ x[1] \in Int /\ x[2] \in Nat \ {0} /\ Frac(x[1], x[2]) = x
    BY RationalParts
  <2>2. x \in Int \X Int
    BY <2>1
  <2> QED
    BY <2>1, <2>2 DEF Double
<1>4. NaN \in Double /\ Inf \in Double
  <2>1. Frac(0, 0) = <<0, 0>> /\ Frac(1, 0) = <<1, 0>>
    BY <1>1 DEF NaN, Inf
  <2>2. <<0, 0>>[1] = 0 /\ <<0, 0>>[2] = 0 /\ <<1, 0>>[1] = 1 /\ <<1, 0>>[2] = 0
        /\ <<0, 0>> \in Int \X Int /\ <<1, 0>> \in Int \X Int
    OBVIOUS
  <2> QED
    BY <1>1, <2>1, <2>2, Zenon DEF Double
<1>5. ~IsFinite(NaN) /\ ~IsFinite(Inf) /\ NaN # Inf
  BY <1>1 DEF IsFinite
<1>6. NaN \notin Rationals /\ Inf \notin Rationals
  BY <1>5, RationalParts, Zenon
<1> QED
  BY <1>1, <1>2, <1>3, <1>4, <1>5, <1>6

\* NaN spreads through sums and products; an infinity stays when nothing is added.
LEMMA NaNSpreads ==
  /\ \A x \in Rationals :
       /\ Plus(x, NaN) = NaN /\ Plus(NaN, x) = NaN /\ Minus(x, NaN) = NaN
       /\ Times(x, NaN) = NaN /\ Times(NaN, x) = NaN
       /\ Less(Zero, x) => Over(NaN, x) = NaN
  /\ Plus(NaN, NaN) = NaN /\ Times(NaN, NaN) = NaN
  /\ Plus(Inf, NaN) = NaN /\ Plus(Inf, Zero) = Inf
<1>1. NaN = <<0, 0>> /\ Inf = <<1, 0>> /\ Zero = <<0, 1>>
  BY DoublesFinite, ZeroOne
<1>2. Frac(0, 0) = NaN /\ Frac(1, 0) = Inf
  BY DEF NaN, Inf
<1>3. \A b \in Nat : gcd[<<b, 0>>] = b /\ gcd[<<0, b>>] = b
  <2>1. \A b \in Nat : gcd[<<b, 0>>] = b
    BY GcdUnfolds
  <2>2. \A b \in Nat : gcd[<<0, b>>] = gcd[<<b, 0>>]
    BY GcdCommutes
  <2> QED
    BY <2>1, <2>2
<1>4. \A b \in Nat \ {0} : b \div b = 1 /\ 0 \div b = 0
  <2> TAKE b \in Nat \ {0}
  <2>1. (b * 1) \div b = 1 /\ (b * 0) \div b = 0
    BY ExactQuotient
  <2>2. b * 1 = b /\ b * 0 = 0
    OBVIOUS
  <2> QED
    BY <2>1, <2>2
<1>5. ASSUME NEW x \in Rationals
      PROVE  /\ Plus(x, NaN) = NaN /\ Plus(NaN, x) = NaN /\ Minus(x, NaN) = NaN
             /\ Times(x, NaN) = NaN /\ Times(NaN, x) = NaN
             /\ Less(Zero, x) => Over(NaN, x) = NaN
  <2>1. x[1] \in Int /\ x[2] \in Nat \ {0} /\ IsFinite(x)
    BY RationalParts
  <2>2. NaN[1] = 0 /\ NaN[2] = 0 /\ ~IsFinite(NaN) /\ Negative(NaN) = NaN
    <3>1. -0 = 0
      <4>1. \A k \in Int : -k = 0 - k
        OBVIOUS
      <4>2. 0 - 0 = 0 /\ 0 \in Int
        OBVIOUS
      <4> QED
        BY <4>1, <4>2, Zenon
    <3> QED
      BY <1>1, <3>1 DEF IsFinite, Negative
  <2>3. Plus(x, NaN) = Frac(x[1] * (0 \div x[2]) + 0 * (x[2] \div x[2]), (x[2] \div x[2]) * 0)
    BY <1>3, <2>1, <2>2 DEF Plus
  <2>4. Plus(NaN, x) = Frac(0 * (x[2] \div x[2]) + x[1] * (0 \div x[2]), (0 \div x[2]) * x[2])
    BY <1>3, <2>1, <2>2 DEF Plus
  <2>5. Times(x, NaN) = Frac(x[1] * 0, x[2] * 0) /\ Times(NaN, x) = Frac(0 * x[1], 0 * x[2])
    BY <2>2 DEF Times
  <2>6. Over(NaN, x) = NaN
    <3>1. Over(NaN, x) = Times(NaN, Flipped(x))
      BY OverFlipped
    <3>2. Times(NaN, Flipped(x)) = Frac(0 * Flipped(x)[1], 0 * Flipped(x)[2])
      BY <2>2 DEF Times
    <3>3. Flipped(x)[1] \in Int /\ Flipped(x)[2] \in Int
      BY <2>1 DEF Flipped
    <3> QED
      BY <1>2, <3>1, <3>2, <3>3
  <2>7. \A k \in Int : k * 0 = 0 /\ 0 * k = 0
    OBVIOUS
  <2>8. Plus(x, NaN) = NaN /\ Plus(NaN, x) = NaN
    BY <1>2, <1>4, <2>1, <2>3, <2>4, <2>7
  <2>9. Times(x, NaN) = NaN /\ Times(NaN, x) = NaN
    BY <1>2, <2>1, <2>5, <2>7
  <2>10. Minus(x, NaN) = NaN
    BY <2>2, <2>8, Zenon DEF Minus
  <2> QED
    BY <2>6, <2>8, <2>9, <2>10
<1>6. Plus(NaN, NaN) = NaN /\ Plus(Inf, NaN) = NaN
  BY DoublesFinite DEF Plus
<1>7. Times(NaN, NaN) = NaN
  BY <1>1, <1>2, DoublesFinite DEF Times
<1>8. Plus(Inf, Zero) = Inf
  <2>1. Plus(Inf, Zero) = Frac(1 * (1 \div 1) + 0 * (0 \div 1), (0 \div 1) * 1)
    <3>1. gcd[<<0, 1>>] = 1
      BY <1>3
    <3> QED
      BY <1>1, <3>1 DEF Plus, IsFinite
  <2> QED
    BY <1>2, <1>4, <2>1
<1> QED
  BY <1>5, <1>6, <1>7, <1>8

(***************************************************************************)
(* Averages of a discounted past, as Adam and the moments keep them.       *)
(***************************************************************************)
\* A probability, and what one minus it and the product of two are.
Fractional(p) == p \in Rationals /\ AtMost(Zero, p) /\ AtMost(p, One)

LEMMA Complement ==
  \A p \in Rationals :
    /\ Minus(One, p) \in Rationals
    /\ AtMost(p, One) => AtMost(Zero, Minus(One, p))
    /\ Less(p, One) => Less(Zero, Minus(One, p))
<1> SUFFICES ASSUME NEW p \in Rationals
             PROVE  /\ Minus(One, p) \in Rationals
                    /\ AtMost(p, One) => AtMost(Zero, Minus(One, p))
                    /\ Less(p, One) => Less(Zero, Minus(One, p))
  OBVIOUS
<1>1. One \in Rationals /\ Minus(One, p) \in Rationals
  BY ZeroOne, Closed
<1>2. AtMost(p, One) => AtMost(Zero, Minus(One, p))
  BY <1>1, LessIs
<1>3. Less(p, One) => Less(Zero, Minus(One, p))
  BY <1>1, LessIs
<1> QED
  BY <1>1, <1>2, <1>3

LEMMA ProductFractional ==
  \A p, d \in Rationals :
    Fractional(p) /\ Less(Zero, d) /\ Less(d, One) =>
      /\ Fractional(Times(p, d)) /\ Less(Times(p, d), One)
<1> SUFFICES ASSUME NEW p \in Rationals, NEW d \in Rationals,
                    Fractional(p), Less(Zero, d), Less(d, One)
             PROVE  Fractional(Times(p, d)) /\ Less(Times(p, d), One)
  OBVIOUS
<1>1. Zero \in Rationals /\ One \in Rationals /\ Times(p, d) \in Rationals
  BY ZeroOne, Closed
<1>2. AtMost(Zero, p) /\ AtMost(p, One) /\ AtMost(Zero, d)
  BY <1>1, LessIs DEF Fractional
<1>3. AtMost(Times(d, p), Times(d, One)) /\ AtMost(Times(d, Zero), Times(d, p))
  <2>1. AtMost(Times(d, p), Times(d, One))
    BY <1>1, <1>2, TimesMonotone
  <2>2. AtMost(Times(d, Zero), Times(d, p))
    BY <1>1, <1>2, TimesMonotone
  <2> QED
    BY <2>1, <2>2
<1>4. Times(d, One) = d /\ Times(d, Zero) = Zero /\ Times(d, p) = Times(p, d)
  BY Units, TimesCommutes
<1>5. AtMost(Times(p, d), d) /\ AtMost(Zero, Times(p, d))
  BY <1>3, <1>4, Zenon
<1>6. Less(Times(p, d), One)
  BY <1>1, <1>5, AtMostTransitive
<1>7. AtMost(Times(p, d), One)
  BY <1>1, <1>6, LessIs
<1> QED
  BY <1>1, <1>5, <1>6, <1>7 DEF Fractional

\* An average of old and new: between them, as far as bounds of the old that
\* are worth 1 - p carry over to 1 - p d.
Averaged(d, old, new) == Plus(Times(d, old), Times(Minus(One, d), new))

LEMMA BoundMoves ==
  \A l, p, d \in Rationals :
    Times(l, Minus(One, Times(p, d))) = Averaged(d, Times(l, Minus(One, p)), l)
<1> SUFFICES ASSUME NEW l \in Rationals, NEW p \in Rationals, NEW d \in Rationals
             PROVE  Times(l, Minus(One, Times(p, d))) = Averaged(d, Times(l, Minus(One, p)), l)
  OBVIOUS
<1>1. PICK a \in Int, b \in Int, c \in Int, k \in Nat \ {0} :
             l = Frac(a, k) /\ p = Frac(b, k) /\ d = Frac(c, k)
  BY Common3
<1> DEFINE e == k * k
           g == k * (k * k)
<1>2. e \in Nat \ {0} /\ g \in Nat \ {0} /\ k * e = g /\ e * k = g
  BY ProductPositive
<1>3. One = Frac(k, k) /\ One = Frac(e, e)
  BY <1>2, ZeroOne
<1> HIDE DEF e, g
<1>4. \A i, j \in Int : i * j \in Int /\ i - j \in Int /\ i + j \in Int /\ k \in Int /\ e \in Int
  BY <1>2
<1>5. ASSUME NEW i \in Int, NEW j \in Int PROVE Times(Frac(i, k), Frac(j, k)) = Frac(i * j, e)
  BY FracTimes DEF e
<1>6. ASSUME NEW i \in Int, NEW j \in Int PROVE Times(Frac(i, k), Frac(j, e)) = Frac(i * j, g)
  <2>1. Times(Frac(i, k), Frac(j, e)) = Frac(i * j, k * e)
    BY <1>2, FracTimes
  <2> QED
    BY <1>2, <2>1, Zenon
<1>7. Times(p, d) = Frac(b * c, e) /\ b * c \in Int
  BY <1>1, <1>4, <1>5, Zenon
<1>8. Minus(One, Times(p, d)) = Frac(e - b * c, e)
  <2>1. Minus(Frac(e, e), Frac(b * c, e)) = Frac(e - b * c, e)
    BY <1>2, <1>4, SameParts
  <2> QED
    BY <1>3, <1>7, <2>1, Zenon
<1>9. Times(l, Minus(One, Times(p, d))) = Frac(a * (e - b * c), g)
  <2>1. e - b * c \in Int
    BY <1>4, Zenon
  <2> QED
    BY <1>1, <1>6, <1>8, <2>1, Zenon
<1>10. Minus(One, p) = Frac(k - b, k) /\ Minus(One, d) = Frac(k - c, k)
  <2>1. Minus(Frac(k, k), Frac(b, k)) = Frac(k - b, k) /\ Minus(Frac(k, k), Frac(c, k)) = Frac(k - c, k)
    BY <1>4, SameParts
  <2> QED
    BY <1>1, <1>3, <2>1, Zenon
<1>11. k - b \in Int /\ k - c \in Int /\ a * (k - b) \in Int /\ (k - c) * a \in Int
  BY <1>4, Zenon
<1>12. Times(l, Minus(One, p)) = Frac(a * (k - b), e)
  BY <1>1, <1>5, <1>10, <1>11, Zenon
<1>13. Times(d, Times(l, Minus(One, p))) = Frac(c * (a * (k - b)), g)
  BY <1>1, <1>6, <1>11, <1>12, Zenon
<1>14. Times(Minus(One, d), l) = Frac(((k - c) * a) * k, g)
  <2>1. Times(Minus(One, d), l) = Frac((k - c) * a, e)
    BY <1>1, <1>5, <1>10, <1>11, Zenon
  <2>2. Frac(k * ((k - c) * a), k * e) = Frac((k - c) * a, e)
    BY <1>2, <1>11, FracScales, Zenon
  <2>3. k * ((k - c) * a) = ((k - c) * a) * k
    BY <1>11
  <2> QED
    BY <1>2, <2>1, <2>2, <2>3, Zenon
<1> DEFINE x == c * (a * (k - b))
           y == ((k - c) * a) * k
<1>15. x \in Int /\ y \in Int
  BY <1>4, <1>11, Zenon
<1>16. x + y = a * (e - b * c)
  BY DEF e
<1> HIDE DEF x, y
<1>17. Plus(Frac(x, g), Frac(y, g)) = Frac(x + y, g)
  BY <1>2, <1>15, SameParts
<1> QED
  BY <1>9, <1>13, <1>14, <1>16, <1>17, Zenon DEF Averaged, x, y

\* Averaging is monotone in both.
LEMMA AveragedMonotone ==
  \A d, x, y, u, v \in Rationals :
    Fractional(d) /\ AtMost(x, y) /\ AtMost(u, v) =>
      AtMost(Averaged(d, x, u), Averaged(d, y, v))
<1> SUFFICES ASSUME NEW d \in Rationals, NEW x \in Rationals, NEW y \in Rationals,
                    NEW u \in Rationals, NEW v \in Rationals,
                    Fractional(d), AtMost(x, y), AtMost(u, v)
             PROVE  AtMost(Averaged(d, x, u), Averaged(d, y, v))
  OBVIOUS
<1> DEFINE c == Minus(One, d)
<1>1. c \in Rationals /\ AtMost(Zero, c) /\ AtMost(Zero, d)
  BY Complement DEF Fractional
<1> HIDE DEF c
<1>2. AtMost(Times(d, x), Times(d, y))
  BY <1>1, TimesMonotone
<1>3. AtMost(Times(c, u), Times(c, v))
  BY <1>1, TimesMonotone
<1>4. Times(d, x) \in Rationals /\ Times(d, y) \in Rationals
  BY Closed
<1>5. Times(c, u) \in Rationals /\ Times(c, v) \in Rationals
  BY <1>1, Closed
<1>6. AtMost(Plus(Times(d, x), Times(c, u)), Plus(Times(d, y), Times(c, v)))
  BY <1>2, <1>3, <1>4, <1>5, PlusMonotone
<1> QED
  BY <1>6, Zenon DEF Averaged, c

LEMMA AveragedClosed ==
  \A d, x, u \in Rationals : Averaged(d, x, u) \in Rationals
<1> TAKE d \in Rationals, x \in Rationals, u \in Rationals
<1>1. Minus(One, d) \in Rationals /\ Times(d, x) \in Rationals
  BY Complement, Closed
<1>2. Times(Minus(One, d), u) \in Rationals
  BY <1>1, Closed
<1> QED
  BY <1>1, <1>2, Closed DEF Averaged

\* What bounds the old or the new bounds the average.
Below(l, p, m) == AtMost(Times(l, Minus(One, p)), m)
Above(l, p, m) == AtMost(m, Times(l, Minus(One, p)))

LEMMA AveragedBetween ==
  \A d, p, m, g, l \in Rationals :
    Fractional(d) /\ Fractional(p) =>
      /\ Below(l, p, m) => \E k \in {l, g} : Below(k, Times(p, d), Averaged(d, m, g))
      /\ Above(l, p, m) => \E k \in {l, g} : Above(k, Times(p, d), Averaged(d, m, g))
<1> SUFFICES ASSUME NEW d \in Rationals, NEW p \in Rationals, NEW m \in Rationals,
                    NEW g \in Rationals, NEW l \in Rationals, Fractional(d), Fractional(p)
             PROVE  /\ Below(l, p, m) => \E k \in {l, g} : Below(k, Times(p, d), Averaged(d, m, g))
                    /\ Above(l, p, m) => \E k \in {l, g} : Above(k, Times(p, d), Averaged(d, m, g))
  OBVIOUS
<1> DEFINE c == Minus(One, p)
<1>1. c \in Rationals /\ AtMost(Zero, c)
  BY Complement DEF Fractional
<1>2. \A k \in Rationals : Times(k, Minus(One, Times(p, d))) = Averaged(d, Times(k, c), k)
  BY BoundMoves
<1> HIDE DEF c
<1>3. \A k \in Rationals : Times(k, c) \in Rationals /\ Times(k, c) = Times(c, k)
  BY <1>1, Closed, TimesCommutes
<1>4. \A k \in Rationals : AtMost(k, k)
  BY LessIs
<1>5. AtMost(l, g) \/ AtMost(g, l)
  BY LessIs
<1>6. ASSUME NEW k \in Rationals, AtMost(Times(k, c), m), AtMost(k, g)
      PROVE  Below(k, Times(p, d), Averaged(d, m, g))
  <2>1. AtMost(Averaged(d, Times(k, c), k), Averaged(d, m, g))
    BY <1>3, <1>6, AveragedMonotone
  <2> QED
    BY <1>2, <2>1, Zenon DEF Below
<1>7. ASSUME NEW k \in Rationals, AtMost(m, Times(k, c)), AtMost(g, k)
      PROVE  Above(k, Times(p, d), Averaged(d, m, g))
  <2>1. AtMost(Averaged(d, m, g), Averaged(d, Times(k, c), k))
    BY <1>3, <1>7, AveragedMonotone
  <2> QED
    BY <1>2, <2>1, Zenon DEF Above
<1>8. ASSUME Below(l, p, m) PROVE \E k \in {l, g} : Below(k, Times(p, d), Averaged(d, m, g))
  <2>1. AtMost(Times(l, c), m)
    BY <1>8 DEF Below, c
  <2>2. CASE AtMost(l, g)
    BY <1>6, <2>1, <2>2
  <2>3. CASE AtMost(g, l)
    <3>1. AtMost(Times(c, g), Times(c, l))
      BY <1>1, <2>3, TimesMonotone
    <3>2. AtMost(Times(g, c), Times(l, c))
      BY <1>3, <3>1, Zenon
    <3>3. AtMost(Times(g, c), m)
      BY <1>3, <2>1, <3>2, AtMostTransitive
    <3> QED
      BY <1>4, <1>6, <3>3
  <2> QED
    BY <1>5, <2>2, <2>3
<1>9. ASSUME Above(l, p, m) PROVE \E k \in {l, g} : Above(k, Times(p, d), Averaged(d, m, g))
  <2>1. AtMost(m, Times(l, c))
    BY <1>9 DEF Above, c
  <2>2. CASE AtMost(g, l)
    BY <1>7, <2>1, <2>2
  <2>3. CASE AtMost(l, g)
    <3>1. AtMost(Times(c, l), Times(c, g))
      BY <1>1, <2>3, TimesMonotone
    <3>2. AtMost(Times(l, c), Times(g, c))
      BY <1>3, <3>1, Zenon
    <3>3. AtMost(m, Times(g, c))
      BY <1>3, <2>1, <3>2, AtMostTransitive
    <3> QED
      BY <1>4, <1>7, <3>3
  <2> QED
    BY <1>5, <2>2, <2>3
<1> QED
  BY <1>8, <1>9

\* The sign of a fraction is its numerator's, and a positive divisor keeps it.
LEMMA Signs ==
  \A x \in Rationals :
    /\ Less(Zero, x) <=> x[1] > 0
    /\ Less(x, Zero) <=> x[1] < 0
    /\ \A y \in Rationals : Less(Zero, y) =>
         /\ Over(x, y)[1] > 0 <=> x[1] > 0
         /\ Over(x, y)[1] < 0 <=> x[1] < 0
<1> SUFFICES ASSUME NEW x \in Rationals, NEW y \in Rationals
             PROVE  /\ Less(Zero, x) <=> x[1] > 0
                    /\ Less(x, Zero) <=> x[1] < 0
                    /\ Less(Zero, y) =>
                         /\ Over(x, y)[1] > 0 <=> x[1] > 0
                         /\ Over(x, y)[1] < 0 <=> x[1] < 0
  OBVIOUS
<1>1. PICK n \in Int, m \in Int, d \in Nat \ {0} : x = Frac(n, d) /\ y = Frac(m, d)
  BY Common2
<1>2. Zero = Frac(0, d) /\ 0 \in Int
  BY ZeroOne
<1>3. /\ Less(Frac(0, d), Frac(n, d)) <=> 0 < n
      /\ Less(Frac(n, d), Frac(0, d)) <=> n < 0
      /\ Less(Frac(0, d), Frac(m, d)) <=> 0 < m
  BY <1>2, SameParts
<1>4. (Frac(n, d)[1] > 0 <=> n > 0) /\ (Frac(n, d)[1] < 0 <=> n < 0)
  BY FracSign
<1>5. ASSUME m > 0
      PROVE  /\ Over(Frac(n, d), Frac(m, d))[1] > 0 <=> n > 0
             /\ Over(Frac(n, d), Frac(m, d))[1] < 0 <=> n < 0
  <2>1. Over(Frac(n, d), Frac(m, d)) = Frac(n * d, d * m)
    BY <1>5, FracOver
  <2>2. n * d \in Int /\ d * m \in Nat \ {0}
    BY <1>5, ProductPositive
  <2>3. (n * d > 0 <=> n > 0) /\ (n * d < 0 <=> n < 0)
    <3>1. n > 0 => n * d > 0
      BY IntMonotone
    <3>2. n < 0 => n * d < 0
      <4>1. 0 < 0 - n => 0 < (0 - n) * d
        BY IntMonotone
      <4>2. (0 - n) * d = 0 - n * d
        OBVIOUS
      <4> QED
        BY <2>2, <4>1, <4>2
    <3>3. n = 0 => n * d = 0
      OBVIOUS
    <3> QED
      BY <2>2, <3>1, <3>2, <3>3
  <2> QED
    BY <2>1, <2>2, <2>3, FracSign
<1> QED
  BY <1>1, <1>2, <1>3, <1>4, <1>5

\* One minus the inverse of a positive count.
LEMMA ComplementOfInverse ==
  \A c \in Rationals, i \in Nat : Less(Zero, c) =>
    LET x == Minus(One, Over(One, Plus(c, Frac(i, 1))))
    IN  /\ x \in Rationals /\ Less(x, One)
        /\ i = 0 => (AtMost(Zero, x) <=> ~Less(c, One))
        /\ i > 0 => (~Less(c, One) => Less(Zero, x))
        /\ Less(One, c) => Less(Zero, x)
        /\ i = 0 /\ c = One => x = Zero
<1> SUFFICES ASSUME NEW c \in Rationals, NEW i \in Nat, Less(Zero, c)
             PROVE  LET x == Minus(One, Over(One, Plus(c, Frac(i, 1))))
                    IN  /\ x \in Rationals /\ Less(x, One)
                        /\ i = 0 => (AtMost(Zero, x) <=> ~Less(c, One))
                        /\ i > 0 => (~Less(c, One) => Less(Zero, x))
                        /\ Less(One, c) => Less(Zero, x)
                        /\ i = 0 /\ c = One => x = Zero
  OBVIOUS
<1> DEFINE x == Minus(One, Over(One, Plus(c, Frac(i, 1))))
<1>1. PICK a \in Int, d \in Nat \ {0} : c = Frac(a, d)
  BY Fraction
<1>2. Zero = Frac(0, d) /\ One = Frac(d, d) /\ 0 \in Int /\ d \in Int /\ i \in Int /\ 1 \in Nat \ {0}
  BY ZeroOne
<1>3. /\ 0 < a
      /\ Less(c, One) <=> a < d
      /\ Less(One, c) <=> d < a
      /\ c = One <=> a = d
  <2>1. Less(Frac(0, d), Frac(a, d)) <=> 0 < a
    BY <1>2, SameParts
  <2>2. Ordered(Frac(a, d), Frac(d, d), a, d) /\ Ordered(Frac(d, d), Frac(a, d), d, a)
    BY <1>2, SameOrder
  <2> QED
    BY <1>1, <1>2, <2>1, <2>2 DEF Ordered
<1> DEFINE b == a + i * d
<1>4. b \in Nat \ {0} /\ b \in Int /\ a <= b /\ (i = 0 => b = a) /\ (i > 0 => d < b)
  <2>1. i * d \in Int /\ i * d >= 0
    BY ProductGrows
  <2>2. i > 0 => i * d >= d
    <3>1. i > 0 => (i - 1) * d >= 0 /\ i * d = (i - 1) * d + d
      <4>1. i > 0 => (i - 1) \in Nat
        OBVIOUS
      <4>2. \A p, q \in Nat : p * q >= 0
        BY ProductGrows
      <4>3. i * d = (i - 1) * d + d
        OBVIOUS
      <4> QED
        BY <4>1, <4>2, <4>3
    <3> QED
      BY <2>1, <3>1
  <2>3. i = 0 => i * d = 0
    OBVIOUS
  <2> QED
    BY <1>3, <2>1, <2>2, <2>3
<1>5. Plus(c, Frac(i, 1)) = Frac(b, d)
  <2>1. Plus(Frac(a, d), Frac(i, 1)) = Frac(a * 1 + i * d, d * 1)
    BY <1>2, FracPlus
  <2>2. a * 1 + i * d = b /\ d * 1 = d
    OBVIOUS
  <2> QED
    BY <1>1, <2>1, <2>2, Zenon
<1> HIDE DEF b
<1>6. Over(One, Plus(c, Frac(i, 1))) = Frac(d, b)
  <2>1. Over(Frac(d, d), Frac(b, d)) = Frac(d * d, d * b)
    BY <1>2, <1>4, FracOver
  <2>2. Frac(d * d, d * b) = Frac(d, b)
    BY <1>2, <1>4, FracScales
  <2> QED
    BY <1>2, <1>5, <2>1, <2>2, Zenon
<1>7. x = Frac(b - d, b) /\ b - d \in Int
  <2>1. Minus(Frac(b, b), Frac(d, b)) = Frac(b - d, b)
    BY <1>2, <1>4, SameParts
  <2>2. One = Frac(b, b)
    BY <1>4, ZeroOne
  <2> QED
    BY <1>2, <1>4, <1>6, <2>1, <2>2
<1> HIDE DEF x
<1>8. Zero = Frac(0, b) /\ One = Frac(b, b)
  BY <1>4, ZeroOne
<1>9. Ordered(Frac(0, b), Frac(b - d, b), 0, b - d) /\ Ordered(Frac(b - d, b), Frac(b, b), b - d, b)
  BY <1>2, <1>4, <1>7, SameOrder
<1>10. x \in Rationals
  BY <1>4, <1>7, FracReduces
<1>11. /\ Less(x, One) <=> b - d < b
       /\ AtMost(Zero, x) <=> 0 <= b - d
       /\ Less(Zero, x) <=> 0 < b - d
       /\ Zero = x <=> 0 = b - d
  BY <1>7, <1>8, <1>9, Zenon DEF Ordered
<1>12. /\ Less(x, One)
       /\ i = 0 => (AtMost(Zero, x) <=> ~Less(c, One))
       /\ i > 0 => (~Less(c, One) => Less(Zero, x))
       /\ Less(One, c) => Less(Zero, x)
       /\ i = 0 /\ c = One => x = Zero
  BY <1>2, <1>3, <1>4, <1>11
<1> QED
  BY <1>10, <1>12 DEF x

\* Moving the mean by q, a value at m + (t + 1) q adds its square of the new
\* deviation, which is what the sum of squares less the mean's share gains,
\* but for t q^2.
LEMMA SpreadStep ==
  \A e, t, m, q \in Rationals :
    LET y  == Plus(m, Plus(q, Times(t, q)))
        mm == Plus(m, q)
    IN  /\ Minus(y, mm) = Times(t, q)
        /\ Minus(Plus(e, Times(y, y)), Times(mm, Plus(Times(t, m), y)))
             = Plus(Plus(Minus(e, Times(m, Times(t, m))), Times(Times(t, q), Times(t, q))),
                    Times(t, Times(q, q)))
<1> SUFFICES ASSUME NEW e \in Rationals, NEW t \in Rationals, NEW m \in Rationals, NEW q \in Rationals
             PROVE  LET y  == Plus(m, Plus(q, Times(t, q)))
                        mm == Plus(m, q)
                    IN  /\ Minus(y, mm) = Times(t, q)
                        /\ Minus(Plus(e, Times(y, y)), Times(mm, Plus(Times(t, m), y)))
                             = Plus(Plus(Minus(e, Times(m, Times(t, m))),
                                         Times(Times(t, q), Times(t, q))),
                                    Times(t, Times(q, q)))
  OBVIOUS
<1> DEFINE y  == Plus(m, Plus(q, Times(t, q)))
           mm == Plus(m, q)
<1>1. PICK E \in Int, T \in Int, M \in Int, Q \in Int, d \in Nat \ {0} :
             e = Frac(E, d) /\ t = Frac(T, d) /\ m = Frac(M, d) /\ q = Frac(Q, d)
  BY Common4
<1> DEFINE d2 == d * d
           d3 == d * d2
           d4 == d2 * d2
<1>2. /\ d2 \in Nat \ {0} /\ d3 \in Nat \ {0} /\ d4 \in Nat \ {0}
      /\ d * d = d2 /\ d * d2 = d3 /\ d * d3 = d4 /\ d2 * d2 = d4 /\ d3 * d = d4
  <2>1. d2 \in Nat \ {0}
    BY ProductPositive
  <2>2. d3 \in Nat \ {0}
    BY <2>1, ProductPositive
  <2>3. d4 \in Nat \ {0}
    BY <2>1, ProductPositive
  <2>4. d * d3 = d4 /\ d3 * d = d4
    OBVIOUS
  <2> QED
    BY <2>1, <2>2, <2>3, <2>4
<1> HIDE DEF d2, d3, d4
<1>3. \A i, j \in Int : i * j \in Int /\ i - j \in Int /\ i + j \in Int
  OBVIOUS
<1>4. d \in Int /\ d2 \in Int /\ d3 \in Int /\ d4 \in Int
  BY <1>2
\* Sums over the same denominator, products over the product of two.
<1>5. \A i, j \in Int :
        /\ Plus(Frac(i, d), Frac(j, d)) = Frac(i + j, d)
        /\ Plus(Frac(i, d2), Frac(j, d2)) = Frac(i + j, d2)
        /\ Plus(Frac(i, d4), Frac(j, d4)) = Frac(i + j, d4)
        /\ Minus(Frac(i, d2), Frac(j, d2)) = Frac(i - j, d2)
        /\ Minus(Frac(i, d4), Frac(j, d4)) = Frac(i - j, d4)
  BY <1>2, SameParts
<1>6. \A i, j \in Int :
        /\ Times(Frac(i, d), Frac(j, d)) = Frac(i * j, d2)
        /\ Times(Frac(i, d), Frac(j, d2)) = Frac(i * j, d3)
        /\ Times(Frac(i, d2), Frac(j, d2)) = Frac(i * j, d4)
  <2> TAKE i \in Int, j \in Int
  <2>1. Times(Frac(i, d), Frac(j, d)) = Frac(i * j, d * d)
    BY FracTimes
  <2>2. Times(Frac(i, d), Frac(j, d2)) = Frac(i * j, d * d2)
    BY <1>2, FracTimes
  <2>3. Times(Frac(i, d2), Frac(j, d2)) = Frac(i * j, d2 * d2)
    BY <1>2, FracTimes
  <2> QED
    BY <1>2, <2>1, <2>2, <2>3, Zenon
<1>7. \A i \in Int :
        /\ Frac(d * i, d2) = Frac(i, d) /\ Frac(d * i, d4) = Frac(i, d3)
        /\ Frac(d3 * i, d4) = Frac(i, d)
  <2> TAKE i \in Int
  <2>1. Frac(d * i, d * d) = Frac(i, d) /\ Frac(d * i, d * d3) = Frac(i, d3)
    BY <1>2, FracScales
  <2>2. Frac(d3 * i, d3 * d) = Frac(i, d)
    BY <1>2, FracScales
  <2> QED
    BY <1>2, <2>1, <2>2, Zenon
<1> DEFINE R == T * Q
           N == M + Q
           Y == d * N + R
           U == T * M
<1>8. R \in Int /\ N \in Int /\ Y \in Int /\ U \in Int /\ d * N \in Int /\ d * M \in Int
      /\ d * Q \in Int
  BY <1>3, <1>4, Zenon
<1>0. Y - d * N = R /\ d * M + (d * Q + R) = Y
  BY <1>4, <1>8
<1> HIDE DEF R, N, Y, U
<1>9. Times(t, q) = Frac(R, d2) /\ mm = Frac(N, d) /\ mm = Frac(d * N, d2) /\ Times(t, m) = Frac(U, d2)
  <2>1. Times(t, q) = Frac(R, d2) /\ Times(t, m) = Frac(U, d2)
    BY <1>1, <1>6, Zenon DEF R, U
  <2>2. mm = Frac(N, d)
    BY <1>1, <1>5, Zenon DEF N
  <2> QED
    BY <1>7, <1>8, <2>1, <2>2, Zenon
<1>10. y = Frac(Y, d2)
  <2>1. q = Frac(d * Q, d2) /\ m = Frac(d * M, d2)
    BY <1>1, <1>7, Zenon
  <2>2. d * Q + R \in Int
    BY <1>3, <1>8, Zenon
  <2>3. Plus(Frac(d * Q, d2), Frac(R, d2)) = Frac(d * Q + R, d2)
    BY <1>5, <1>8
  <2>4. Plus(Frac(d * M, d2), Frac(d * Q + R, d2)) = Frac(d * M + (d * Q + R), d2)
    BY <1>5, <1>8, <2>2
  <2> QED
    BY <1>0, <1>9, <2>1, <2>3, <2>4, Zenon
<1> HIDE DEF y, mm
<1>11. Minus(y, mm) = Times(t, q)
  <2>1. Minus(Frac(Y, d2), Frac(d * N, d2)) = Frac(Y - d * N, d2)
    BY <1>5, <1>8
  <2> QED
    BY <1>0, <1>9, <1>10, <2>1, Zenon
<1>12. Times(y, y) = Frac(Y * Y, d4) /\ e = Frac(d3 * E, d4)
       /\ Plus(e, Times(y, y)) = Frac(d3 * E + Y * Y, d4)
       /\ d3 * E \in Int /\ Y * Y \in Int /\ d3 * E + Y * Y \in Int
  <2>1. Times(y, y) = Frac(Y * Y, d4) /\ e = Frac(d3 * E, d4)
    BY <1>1, <1>6, <1>7, <1>8, <1>10, Zenon
  <2>2. d3 * E \in Int /\ Y * Y \in Int
    BY <1>3, <1>4, <1>8, Zenon
  <2>3. Plus(Frac(d3 * E, d4), Frac(Y * Y, d4)) = Frac(d3 * E + Y * Y, d4)
    BY <1>5, <2>2
  <2>4. d3 * E + Y * Y \in Int
    BY <1>3, <2>2, Zenon
  <2>5. Plus(e, Times(y, y)) = Frac(d3 * E + Y * Y, d4)
    BY <2>1, <2>3, Zenon
  <2> QED
    BY <2>1, <2>2, <2>4, <2>5
<1>13. Times(mm, Plus(Times(t, m), y)) = Frac(d * (N * (U + Y)), d4) /\ d * (N * (U + Y)) \in Int
  <2>1. U + Y \in Int /\ N * (U + Y) \in Int
    BY <1>3, <1>8, Zenon
  <2>2. Plus(Frac(U, d2), Frac(Y, d2)) = Frac(U + Y, d2)
    BY <1>5, <1>8
  <2>3. Times(Frac(N, d), Frac(U + Y, d2)) = Frac(N * (U + Y), d3)
    BY <1>6, <1>8, <2>1
  <2>4. Frac(d * (N * (U + Y)), d4) = Frac(N * (U + Y), d3)
    BY <1>7, <2>1, Zenon
  <2>5. d * (N * (U + Y)) \in Int
    BY <1>3, <1>4, <2>1, Zenon
  <2> QED
    BY <1>9, <1>10, <2>2, <2>3, <2>4, <2>5, Zenon
<1>14. Times(m, Times(t, m)) = Frac(d * (M * U), d4) /\ d * (M * U) \in Int
  <2>1. M * U \in Int
    BY <1>3, <1>8, Zenon
  <2>2. Times(Frac(M, d), Frac(U, d2)) = Frac(M * U, d3)
    BY <1>6, <1>8
  <2>3. Frac(d * (M * U), d4) = Frac(M * U, d3)
    BY <1>7, <2>1, Zenon
  <2>4. d * (M * U) \in Int
    BY <1>3, <1>4, <2>1, Zenon
  <2> QED
    BY <1>1, <1>9, <2>2, <2>3, <2>4, Zenon
<1>15. Times(Times(t, q), Times(t, q)) = Frac(R * R, d4) /\ R * R \in Int
  <2>1. Times(Frac(R, d2), Frac(R, d2)) = Frac(R * R, d4)
    BY <1>6, <1>8
  <2> QED
    BY <1>3, <1>8, <1>9, <2>1, Zenon
<1>16. Times(t, Times(q, q)) = Frac(d * (T * (Q * Q)), d4) /\ d * (T * (Q * Q)) \in Int
  <2>1. Q * Q \in Int /\ T * (Q * Q) \in Int
    BY <1>3, Zenon
  <2>2. Times(Frac(Q, d), Frac(Q, d)) = Frac(Q * Q, d2)
    BY <1>6
  <2>3. Times(Frac(T, d), Frac(Q * Q, d2)) = Frac(T * (Q * Q), d3)
    BY <1>6, <2>1
  <2>4. Frac(d * (T * (Q * Q)), d4) = Frac(T * (Q * Q), d3)
    BY <1>7, <2>1, Zenon
  <2>5. d * (T * (Q * Q)) \in Int
    BY <1>3, <1>4, <2>1, Zenon
  <2> QED
    BY <1>1, <2>2, <2>3, <2>4, <2>5, Zenon
<1>17. (d3 * E + Y * Y) - d * (N * (U + Y))
         = ((d3 * E - d * (M * U)) + R * R) + d * (T * (Q * Q))
  <2>1. Y * Y - d * (N * (U + Y)) = (R * R - d * (M * U)) + d * (T * (Q * Q))
    BY <1>4 DEF Y, N, U, R
  <2> DEFINE a == d3 * E
             b == Y * Y
             c == d * (N * (U + Y))
             f == d * (M * U)
             g == R * R
             h == d * (T * (Q * Q))
  <2>2. a \in Int /\ b \in Int /\ c \in Int /\ f \in Int /\ g \in Int /\ h \in Int
    BY <1>12, <1>13, <1>14, <1>15, <1>16
  <2>3. b - c = (g - f) + h
    BY <2>1
  <2> HIDE DEF a, b, c, f, g, h
  <2>4. (a + b) - c = ((a - f) + g) + h
    BY <2>2, <2>3
  <2> QED
    BY <2>4 DEF a, b, c, f, g, h
<1> DEFINE a == d3 * E + Y * Y
           c == d * (N * (U + Y))
           b == d3 * E
           f == d * (M * U)
           g == R * R
           h == d * (T * (Q * Q))
<1>18. a \in Int /\ b \in Int /\ c \in Int /\ f \in Int /\ g \in Int /\ h \in Int
  BY <1>12, <1>13, <1>14, <1>15, <1>16
<1>19. a - c = ((b - f) + g) + h
  BY <1>17
<1> HIDE DEF a, b, c, f, g, h
<1>20. Minus(Frac(a, d4), Frac(c, d4)) = Frac(a - c, d4)
  BY <1>5, <1>18, Zenon
<1>21. Plus(Plus(Minus(Frac(b, d4), Frac(f, d4)), Frac(g, d4)), Frac(h, d4))
         = Frac(((b - f) + g) + h, d4)
  <2>1. b - f \in Int /\ (b - f) + g \in Int
    BY <1>3, <1>18, Zenon
  <2>2. Minus(Frac(b, d4), Frac(f, d4)) = Frac(b - f, d4)
    BY <1>5, <1>18
  <2>3. Plus(Frac(b - f, d4), Frac(g, d4)) = Frac((b - f) + g, d4)
    BY <1>5, <1>18, <2>1
  <2>4. Plus(Frac((b - f) + g, d4), Frac(h, d4)) = Frac(((b - f) + g) + h, d4)
    BY <1>5, <1>18, <2>1
  <2> QED
    BY <2>2, <2>3, <2>4, Zenon
<1>22. Minus(Plus(e, Times(y, y)), Times(mm, Plus(Times(t, m), y)))
         = Plus(Plus(Minus(e, Times(m, Times(t, m))), Times(Times(t, q), Times(t, q))),
                Times(t, Times(q, q)))
  BY <1>12, <1>13, <1>14, <1>15, <1>16, <1>19, <1>20, <1>21, Zenon DEF a, b, c, f, g, h
<1> QED
  BY <1>11, <1>22 DEF y, mm

\* Discounting everything by d and adding an observation: the new mean, and
\* what bounds the sum of squared deviations.
MovedMean(m, y, w) == Plus(m, Over(Minus(y, m), w))

LEMMA MeanAfter ==
  \A d, W, m, y, B \in Rationals :
    /\ AtMost(Zero, d) /\ AtMost(Zero, W) /\ Times(W, m) = B
    => LET w == Plus(Times(d, W), One)
       IN  /\ w \in Rationals /\ Less(Zero, w) /\ MovedMean(m, y, w) \in Rationals
           /\ Times(w, MovedMean(m, y, w)) = Plus(Times(d, B), y)
<1> SUFFICES ASSUME NEW d \in Rationals, NEW W \in Rationals, NEW m \in Rationals,
                    NEW y \in Rationals, NEW B \in Rationals,
                    AtMost(Zero, d), AtMost(Zero, W), Times(W, m) = B
             PROVE  LET w == Plus(Times(d, W), One)
                    IN  /\ w \in Rationals /\ Less(Zero, w) /\ MovedMean(m, y, w) \in Rationals
                        /\ Times(w, MovedMean(m, y, w)) = Plus(Times(d, B), y)
  OBVIOUS
<1> DEFINE t == Times(d, W)
           w == Plus(t, One)
<1>1. t \in Rationals /\ Zero \in Rationals /\ One \in Rationals /\ Less(Zero, One)
  <2>1. Less(Zero, One)
    <3>1. 1 \in Nat \ {0} /\ 0 \in Int /\ 1 \in Int /\ 0 < 1
      OBVIOUS
    <3>2. Less(Frac(0, 1), Frac(1, 1))
      BY <3>1, SameParts
    <3> QED
      BY <3>2 DEF Zero, One
  <2> QED
    BY <2>1, ZeroOne, Closed
<1>2. AtMost(Zero, t)
  <2>1. AtMost(Times(d, Zero), Times(d, W))
    BY <1>1, TimesMonotone
  <2> QED
    BY <2>1, Units
<1>3. w \in Rationals /\ Less(Zero, w)
  <2> HIDE DEF t
  <2>1. Less(Zero, Plus(t, One))
    BY <1>1, <1>2, Positives
  <2> QED
    BY <1>1, <2>1, Closed
<1>4. w # Zero
  BY <1>3, Positives
<1>5. Times(w, MovedMean(m, y, w)) = Plus(Times(t, m), y)
  <2> HIDE DEF t
  <2>1. Times(Plus(t, One), Plus(m, Over(Minus(y, m), Plus(t, One)))) = Plus(Times(t, m), y)
    BY <1>1, <1>4, MeanMoves
  <2> QED
    BY <2>1 DEF MovedMean
<1>6. Times(t, m) = Times(d, B)
  BY TimesAssociates
<1>7. MovedMean(m, y, w) \in Rationals
  <2> HIDE DEF w
  <2>1. Minus(y, m) \in Rationals
    BY Closed
  <2>2. Over(Minus(y, m), w) \in Rationals
    BY <1>3, <1>4, <2>1, Closed
  <2> QED
    BY <2>2, Closed DEF MovedMean
<1> QED
  BY <1>3, <1>5, <1>6, <1>7

LEMMA SpreadAfter ==
  \A d, W, m, y, B, C, s \in Rationals :
    /\ AtMost(Zero, d) /\ AtMost(Zero, W) /\ Times(W, m) = B
    /\ AtMost(s, Minus(C, Times(m, B)))
    => LET w    == Plus(Times(d, W), One)
           mean == MovedMean(m, y, w)
       IN  AtMost(Plus(Times(d, s), Times(Minus(y, mean), Minus(y, mean))),
                  Minus(Plus(Times(d, C), Times(y, y)), Times(mean, Plus(Times(d, B), y))))
<1> TAKE d \in Rationals, W \in Rationals, m \in Rationals, y \in Rationals,
         B \in Rationals, C \in Rationals, s \in Rationals
<1> HAVE /\ AtMost(Zero, d) /\ AtMost(Zero, W) /\ Times(W, m) = B
         /\ AtMost(s, Minus(C, Times(m, B)))
<1> DEFINE t == Times(d, W)
           w == Plus(t, One)
           mean == MovedMean(m, y, w)
           q == Over(Minus(y, m), w)
           e == Times(d, C)
<1>1. w \in Rationals /\ Less(Zero, w)
  BY MeanAfter
<1>2. /\ t \in Rationals /\ q \in Rationals /\ e \in Rationals /\ Minus(y, m) \in Rationals
      /\ w # Zero /\ Zero \in Rationals /\ One \in Rationals
  <2>1. w # Zero
    BY <1>1, Positives
  <2>2. Minus(y, m) \in Rationals /\ t \in Rationals /\ e \in Rationals
    BY Closed
  <2> HIDE DEF w
  <2>3. q \in Rationals
    BY <1>1, <2>1, <2>2, Closed
  <2> QED
    BY <2>1, <2>2, <2>3, ZeroOne
<1>3. AtMost(Zero, t)
  <2>1. AtMost(Times(d, Zero), Times(d, W))
    BY <1>2, TimesMonotone
  <2> QED
    BY <2>1, Units
<1>4. Times(w, q) = Minus(y, m)
  BY <1>1, <1>2, OverCancels
<1>5. mean = Plus(m, q)
  BY Zenon DEF MovedMean
<1>6. Times(t, m) = Times(d, B)
  BY TimesAssociates
<1> HIDE DEF q, mean
<1>7. y = Plus(m, Plus(q, Times(t, q)))
  <2> HIDE DEF t
  <2>1. Times(w, q) = Times(q, w) /\ Times(q, w) = Plus(Times(q, t), Times(q, One))
    <3>1. Times(q, Plus(t, One)) = Plus(Times(q, t), Times(q, One))
      BY <1>2, TimesDistributes
    <3> QED
      BY <1>1, <1>2, <3>1, TimesCommutes
  <2>2. Times(q, t) = Times(t, q) /\ Times(q, One) = q /\ Times(t, q) \in Rationals
    BY <1>2, TimesCommutes, Units, Closed
  <2>3. Plus(Times(t, q), q) = Plus(q, Times(t, q))
    BY <1>2, <2>2, PlusCommutes
  <2>4. Plus(m, Minus(y, m)) = y
    BY MinusPlus
  <2> QED
    BY <1>4, <2>1, <2>2, <2>3, <2>4, Zenon
<1> HIDE DEF t, w, e
<1> DEFINE tq == Times(t, q)
<1>8. /\ Minus(y, mean) = tq
      /\ Minus(Plus(e, Times(y, y)), Times(mean, Plus(Times(t, m), y)))
           = Plus(Plus(Minus(e, Times(m, Times(t, m))), Times(tq, tq)), Times(t, Times(q, q)))
  BY <1>2, <1>5, <1>7, SpreadStep
<1>9. tq \in Rationals /\ Times(q, q) \in Rationals
  BY <1>2, Closed
<1> HIDE DEF tq
<1>10. Times(tq, tq) \in Rationals /\ Times(t, Times(q, q)) \in Rationals
  BY <1>2, <1>9, Closed
<1>11. AtMost(Zero, Times(t, Times(q, q)))
  <2>1. AtMost(Zero, Times(q, q))
    BY <1>2, Positives
  <2>2. AtMost(Times(t, Zero), Times(t, Times(q, q)))
    BY <1>2, <1>3, <1>9, <2>1, TimesMonotone
  <2> QED
    BY <1>2, <2>2, Units
<1> DEFINE r == Minus(C, Times(m, B))
<1>12. Times(m, B) \in Rationals /\ r \in Rationals
  <2>1. Times(m, B) \in Rationals
    BY Closed
  <2> QED
    BY <2>1, Closed
<1>13. Minus(e, Times(m, Times(t, m))) = Times(d, r)
  <2>1. Times(m, Times(d, B)) = Times(d, Times(m, B))
    <3>1. Times(d, B) \in Rationals /\ Times(m, d) = Times(d, m)
      BY Closed, TimesCommutes
    <3>2. Times(m, Times(d, B)) = Times(Times(m, d), B) /\ Times(d, Times(m, B)) = Times(Times(d, m), B)
      BY TimesAssociates
    <3> QED
      BY <3>1, <3>2, Zenon
  <2>2. Times(d, Minus(C, Times(m, B))) = Minus(Times(d, C), Times(d, Times(m, B)))
    BY <1>12, TimesDistributes
  <2> QED
    BY <1>6, <2>1, <2>2, Zenon DEF e
<1> HIDE DEF r
<1>14. AtMost(s, r)
  BY DEF r
<1>15. AtMost(Times(d, s), Times(d, r)) /\ Times(d, s) \in Rationals /\ Times(d, r) \in Rationals
  BY <1>12, <1>14, TimesMonotone, Closed
<1> DEFINE a == Times(d, s)
           b == Times(d, r)
           c == Times(tq, tq)
           f == Times(t, Times(q, q))
<1>16. a \in Rationals /\ b \in Rationals /\ c \in Rationals /\ f \in Rationals
       /\ AtMost(a, b) /\ AtMost(Zero, f)
  BY <1>10, <1>11, <1>15
<1> HIDE DEF a, b, c, f
<1>17. AtMost(Plus(a, c), Plus(Plus(b, c), f))
  <2>1. AtMost(c, c)
    BY <1>16, LessIs
  <2>2. AtMost(Plus(a, c), Plus(b, c)) /\ Plus(a, c) \in Rationals /\ Plus(b, c) \in Rationals
    BY <1>16, <2>1, PlusMonotone, Closed
  <2>3. AtMost(Plus(Plus(a, c), Zero), Plus(Plus(b, c), f))
    BY <1>2, <1>16, <2>2, PlusMonotone
  <2> QED
    BY <2>2, <2>3, Units
<1>18. Minus(Plus(e, Times(y, y)), Times(mean, Plus(Times(d, B), y))) = Plus(Plus(b, c), f)
  BY <1>6, <1>8, <1>13, Zenon DEF b, c, f
<1>19. Plus(Times(d, s), Times(Minus(y, mean), Minus(y, mean))) = Plus(a, c)
  BY <1>8, Zenon DEF a, c
<1> QED
  BY <1>17, <1>18, <1>19, Zenon DEF e, mean, w, t

\* At the mean the spread is the sum of squares less the mean's share.
LEMMA SpreadAtMean ==
  \A W, m, B, C \in Rationals :
    Times(W, m) = B => Spread(m, W, B, C) = Minus(C, Times(m, B))
<1> SUFFICES ASSUME NEW W \in Rationals, NEW m \in Rationals, NEW B \in Rationals,
                    NEW C \in Rationals, Times(W, m) = B
             PROVE  Spread(m, W, B, C) = Minus(C, Times(m, B))
  OBVIOUS
<1> DEFINE p == Times(m, B)
<1>1. p \in Rationals
  BY Closed
<1>2. Times(Plus(m, m), B) = Plus(p, p)
  <2>1. Times(B, Plus(m, m)) = Plus(Times(B, m), Times(B, m)) /\ Plus(m, m) \in Rationals
    BY TimesDistributes, Closed
  <2>2. Times(B, m) = p /\ Times(Plus(m, m), B) = Times(B, Plus(m, m))
    BY <2>1, TimesCommutes
  <2> QED
    BY <2>1, <2>2, Zenon
<1>3. Times(Times(m, m), W) = p
  <2>1. Times(Times(m, m), W) = Times(m, Times(m, W)) /\ Times(m, W) = Times(W, m)
    BY TimesAssociates, TimesCommutes
  <2> QED
    BY <2>1, Zenon
<1> HIDE DEF p
<1>4. Plus(Minus(C, Plus(p, p)), p) = Minus(C, p)
  <2>1. PICK n \in Int, k \in Int, d \in Nat \ {0} : C = Frac(n, d) /\ p = Frac(k, d)
    BY <1>1, Common2
  <2>2. k + k \in Int /\ n - (k + k) \in Int /\ (n - (k + k)) + k = n - k
    OBVIOUS
  <2>3. Plus(Frac(k, d), Frac(k, d)) = Frac(k + k, d)
    BY SameParts
  <2>4. Minus(Frac(n, d), Frac(k + k, d)) = Frac(n - (k + k), d)
    BY <2>2, SameParts
  <2>5. Plus(Frac(n - (k + k), d), Frac(k, d)) = Frac((n - (k + k)) + k, d)
    BY <2>2, SameParts
  <2>6. Minus(Frac(n, d), Frac(k, d)) = Frac(n - k, d)
    BY SameParts
  <2> QED
    BY <2>1, <2>2, <2>3, <2>4, <2>5, <2>6, Zenon
<1> QED
  BY <1>2, <1>3, <1>4, Zenon DEF Spread, p

\* An entry that brings a variance k of its own.
LEMMA SpreadEntryWith ==
  \A w, x, m, k \in Rationals :
    Times(w, Plus(Times(Minus(x, m), Minus(x, m)), k))
      = Spread(m, w, Times(w, x), Times(w, Plus(Times(x, x), k)))
<1> SUFFICES ASSUME NEW w \in Rationals, NEW x \in Rationals, NEW m \in Rationals, NEW k \in Rationals
             PROVE  Times(w, Plus(Times(Minus(x, m), Minus(x, m)), k))
                      = Spread(m, w, Times(w, x), Times(w, Plus(Times(x, x), k)))
  OBVIOUS
<1> DEFINE a == Times(Minus(x, m), Minus(x, m))
           b == Times(x, x)
           c == Times(w, x)
<1>1. a \in Rationals /\ b \in Rationals /\ c \in Rationals /\ Zero \in Rationals
  <2>1. Minus(x, m) \in Rationals
    BY Closed
  <2> QED
    BY <2>1, Closed, ZeroOne
<1>2. Times(w, a) = Spread(m, w, c, Times(w, b))
  BY SpreadEntry
<1> HIDE DEF a, b, c
<1>3. /\ Times(w, Plus(a, k)) = Plus(Times(w, a), Times(w, k))
      /\ Times(w, Plus(b, k)) = Plus(Times(w, b), Times(w, k))
  BY <1>1, TimesDistributes
<1> DEFINE f == Times(w, b)
           r == Times(w, k)
<1>4. f \in Rationals /\ r \in Rationals
  BY <1>1, Closed
<1> HIDE DEF f, r
<1>5. Spread(m, Plus(w, Zero), Plus(c, Zero), Plus(f, r))
        = Plus(Spread(m, w, c, f), Spread(m, Zero, Zero, r))
  BY <1>1, <1>4, SpreadAdds
<1>6. Plus(w, Zero) = w /\ Plus(c, Zero) = c
  BY <1>1, Units
<1>7. Spread(m, Zero, Zero, r) = r
  <2>1. Plus(m, m) \in Rationals /\ Times(m, m) \in Rationals
    BY Closed
  <2>2. Times(Plus(m, m), Zero) = Zero /\ Times(Times(m, m), Zero) = Zero
    BY <2>1, Units
  <2>3. Minus(r, Zero) = r /\ Plus(r, Zero) = r
    BY <1>4, Units
  <2> QED
    BY <2>2, <2>3, Zenon DEF Spread
<1> QED
  BY <1>2, <1>3, <1>5, <1>6, <1>7, Zenon DEF a, b, c, f, r

LEMMA SameList ==
  \A S : \A a, b \in Seq(S) : Len(a) = Len(b) /\ (\A i \in 1 .. Len(a) : a[i] = b[i]) => a = b
OBVIOUS

\* A sum whose numbers are discounted and that gets one more.
LEMMA SumAfter ==
  ASSUME NEW d \in Rationals, NEW base \in Rationals, NEW y \in Rationals,
         NEW xs \in Seq(Rationals), NEW ys \in Seq(Rationals), Len(ys) = Len(xs) + 1,
         \A i \in 1 .. Len(xs) : ys[i] = Times(d, xs[i]), ys[Len(xs) + 1] = y
  PROVE  SumFrom(Times(d, base), ys) = Plus(Times(d, SumFrom(base, xs)), y)
<1> DEFINE N == Len(xs)
           zs == [i \in 1 .. N |-> Times(d, xs[i])]
<1>1. N \in Nat /\ Times(d, base) \in Rationals
  BY Closed
<1>2. \A i \in 1 .. N : xs[i] \in Rationals
  BY EntriesIn
<1> HIDE DEF N
<1>3. \A i \in 1 .. N : zs[i] \in Rationals /\ zs[i] = Times(d, xs[i])
  BY <1>2, Closed
<1>4. zs \in Seq(Rationals) /\ Len(zs) = N
  BY <1>1, <1>3, Listed
<1>5. ys = Append(zs, y)
  <2>1. Len(ys) = N + 1 /\ \A i \in 1 .. N : ys[i] = zs[i]
    BY <1>3 DEF N
  <2>2. ys[N + 1] = y
    BY DEF N
  <2> HIDE DEF zs
  <2>3. Append(zs, y) \in Seq(Rationals) /\ Len(Append(zs, y)) = N + 1 /\ Append(zs, y)[N + 1] = y
        /\ \A i \in 1 .. N : Append(zs, y)[i] = zs[i]
    BY <1>1, <1>4
  <2>4. \A i \in 1 .. N + 1 : ys[i] = Append(zs, y)[i]
    <3> TAKE i \in 1 .. N + 1
    <3>1. i \in 1 .. N \/ i = N + 1
      BY <1>1
    <3> QED
      BY <2>1, <2>2, <2>3, <3>1
  <2> QED
    BY <2>1, <2>3, <2>4, SameList
<1> HIDE DEF zs
<1>6. SumFrom(Times(d, base), Append(zs, y)) = Plus(SumFrom(Times(d, base), zs), y)
  BY <1>1, <1>4, SumFromSteps
<1>7. SumFrom(Times(d, base), zs) = Times(d, SumFrom(base, xs))
  <2>1. Len(zs) = Len(xs) /\ \A i \in 1 .. Len(xs) : zs[i] = Times(d, xs[i])
    BY <1>3, <1>4 DEF N
  <2> QED
    BY <1>4, <2>1, SumScales
<1> QED
  BY <1>5, <1>6, <1>7, Zenon
===============================================================================
