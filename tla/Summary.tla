-------------------------------- MODULE Summary --------------------------------
(***************************************************************************)
(* The statistics of summary.hpp, in exact arithmetic.  A chain is a       *)
(* sequence of rows and a row a sequence of doubles; both views of several *)
(* chains offer the same record.  Square roots and logarithms are left     *)
(* out: a variance stands for a standard deviation, the square of R-hat    *)
(* for R-hat.                                                              *)
(***************************************************************************)
EXTENDS Validate, SequencesExt, FiniteSets

SumOf(xs) == FoldLeft(Plus, Zero, xs)
Count(n)  == Frac(n, 1)
Square(x) == Times(x, x)

Column(rows, d) == [i \in DOMAIN rows |-> rows[i][d]]

\* Of one matrix: a column's mean, and its variance about a mean.
ColMean(col) == Over(SumOf(col), Count(Len(col)))

SquaresAbout(col, mean) == SumOf([i \in DOMAIN col |-> Square(Minus(col[i], mean))])

ColVariance(col, mean) == Over(SquaresAbout(col, mean), Count(Len(col) - 1))

-------------------------------------------------------------------------------
SplitAccepts(chains) ==
  /\ chains # <<>>
  /\ \A m \in DOMAIN chains :
       chains[m] # <<>> /\ Len(chains[m][1]) = Len(chains[1][1])

\* MarkovChainsSplit: draws(d) copies the chains' columns one after the other.
Split(chains) ==
  [dims |-> Len(chains[1][1]),
   num_draws |-> FoldLeft(LAMBDA n, c : n + Len(c), 0, chains),
   view |-> chains,
   draws |-> [d \in 1 .. Len(chains[1][1]) |->
                FlattenSeq([m \in DOMAIN chains |-> Column(chains[m], d)])]]

SizesSum(sizes) == FoldLeft(LAMBDA a, b : a + b, 0, sizes)

UnifiedAccepts(draws, sizes) == SizesSum(sizes) = Len(draws)

ChainStarts(sizes) ==
  [m \in DOMAIN sizes |-> SizesSum(SubSeq(sizes, 1, m - 1))]

\* MarkovChainsUnified: chains are ranges of rows of one matrix.
Unified(draws, sizes) ==
  [dims |-> Len(draws[1]),
   num_draws |-> Len(draws),
   view |-> [m \in DOMAIN sizes |->
               SubSeq(draws, ChainStarts(sizes)[m] + 1, ChainStarts(sizes)[m] + sizes[m])],
   draws |-> [d \in 1 .. Len(draws[1]) |-> Column(draws, d)]]

MinChainSize(mc) ==
  CHOOSE n \in {Len(mc.view[m]) : m \in DOMAIN mc.view} :
    \A m \in DOMAIN mc.view : n <= Len(mc.view[m])

-------------------------------------------------------------------------------
mean(mc, d) ==
  Over(SumOf([m \in DOMAIN mc.view |-> SumOf(Column(mc.view[m], d))]),
       Count(mc.num_draws))

sample_variance(mc, d) ==
  Over(SumOf([m \in DOMAIN mc.view |-> SquaresAbout(Column(mc.view[m], d), mean(mc, d))]),
       Count(mc.num_draws - 1))

Floor(x) == x[1] \div x[2]

\* The entries sorted: which value comes k-th.
Sorted(xs, Before(_, _)) ==
  [k \in DOMAIN xs |->
     CHOOSE x \in ToSet(xs) :
       /\ Cardinality({i \in DOMAIN xs : Before(xs[i], x)}) < k
       /\ Cardinality({i \in DOMAIN xs : ~Before(x, xs[i])}) >= k]

\* Type 7: linear between the order statistics around p * (N - 1).
quantile(mc, d, p) ==
  LET sorted == Sorted(mc.draws[d], Less)
      last   == mc.num_draws - 1
      h      == Times(p, Count(last))
      lo     == Floor(h)
      hi     == IF lo + 1 < last THEN lo + 1 ELSE last
  IN  Plus(sorted[lo + 1],
           Times(Minus(h, Count(lo)), Minus(sorted[hi + 1], sorted[lo + 1])))

StripFactor[mf \in (Nat \ {0}) \X {2, 3, 5}] ==
  IF mf[1] % mf[2] = 0 THEN StripFactor[<<mf[1] \div mf[2], mf[2]>>] ELSE mf[1]

Stripped(m, factor) == StripFactor[<<m, factor>>]

GoodSize(n) == Stripped(Stripped(Stripped(n, 2), 3), 5) <= 1

fft_next_good_size(n) ==
  IF n <= 2 THEN 2
  ELSE CHOOSE k \in n .. 2 * n : GoodSize(k) /\ \A j \in n .. k - 1 : ~GoodSize(j)

\* mutant: no room is left for the lags
PaddedSizeOnce(n) == fft_next_good_size(n)

PaddedSize(n) == 2 * fft_next_good_size(n)

(***************************************************************************)
(* The inverse transform of the squared moduli of a transform is the       *)
(* circular correlation of the padded signal with itself.                  *)
(***************************************************************************)
Circular(signal, t) ==
  LET n == Len(signal)
  IN  SumOf([i \in 1 .. n |-> Times(signal[i], signal[((i - 1 + t) % n) + 1])])

autocovariance_col(y, t) ==
  LET mu == ColMean(y)
      padded == [i \in 1 .. PaddedSize(Len(y)) |->
                   IF i <= Len(y) THEN Minus(y[i], mu) ELSE Zero]
  IN  Over(Circular(padded, t), Count(Len(y)))

\* One row per draw, the lags of the chains one after the other.
autocovariance(mc, d) ==
  FlattenSeq([m \in DOMAIN mc.view |->
    LET y == Column(mc.view[m], d)
    IN  [t \in 1 .. Len(y) |-> autocovariance_col(y, t - 1)]])

RHatAccepts(mc) ==
  /\ Len(mc.view) >= 2
  /\ \A m \in DOMAIN mc.view : Len(mc.view[m]) >= 3

r_hat_squared(mc, d) ==
  LET mu == [m \in DOMAIN mc.view |-> ColMean(Column(mc.view[m], d))]
      sigma_sq == [m \in DOMAIN mc.view |-> ColVariance(Column(mc.view[m], d), mu[m])]
  IN  Plus(One, Over(ColVariance(mu, ColMean(mu)), ColMean(sigma_sq)))

-------------------------------------------------------------------------------
\* Reference definitions.
PairsVariance(xs) ==     \* half the mean squared difference of two draws
  LET n == Len(xs)
  IN  Over(SumOf([k \in 1 .. n * n |->
             Square(Minus(xs[((k - 1) \div n) + 1], xs[((k - 1) % n) + 1]))]),
           Count(2 * n * (n - 1)))

LagCovariance(xs, t) ==  \* biased, about the chain's mean
  LET mu == Over(SumOf(xs), Count(Len(xs)))
  IN  Over(SumOf([i \in 1 .. Len(xs) - t |->
             Times(Minus(xs[i], mu), Minus(xs[i + t], mu))]), Count(Len(xs)))
===============================================================================
