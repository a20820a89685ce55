-------------------------------- MODULE Sample --------------------------------
(***************************************************************************)
(* From stored draws to their summary: the handlers of ChainStore, and a   *)
(* client that after some draws hands the matrices of draws of all chains, *)
(* or of the first ones only, to summary.hpp and asks for every statistic, *)
(* the effective sample size last.                                         *)
(***************************************************************************)
EXTENDS ChainStore, EffectiveSize

VARIABLE chains     \* the matrices handed over, until the summary is taken

sampleVars == <<storeVars, essVars, chains>>

SampleInit == StoreInit /\ EssInit /\ chains = <<>>

Storing == phase = "idle" /\ StoreNext /\ UNCHANGED <<essVars, chains>>

(***************************************************************************)
(* MarkovChainsSplit is made of the handlers' draws, which it refuses if a *)
(* chain has none; MarkovChainsUnified of all rows and their numbers.      *)
(* What the handlers hold is not looked at again.                          *)
(***************************************************************************)
BeginSummary ==
  /\ phase = "idle" /\ complete = Chains /\ file = NoFile
  /\ \E M \in Chains :
       LET matrices == [m \in 1 .. M |-> handlers[m].draws]
       IN  /\ FlattenSeq(matrices) # <<>>
           /\ chains' = matrices
           /\ sizes' = [m \in 1 .. M |-> Len(matrices[m])]
  /\ phase' = "begin"
  /\ handlers' = [m \in Chains |-> NewStore(FALSE)]
  /\ r_hats' = <<>> /\ warmups' = [m \in Chains |-> 0] /\ made' = warmups'
  /\ complete' = {} /\ trace' = [m \in Chains |-> <<>>]
  /\ UNCHANGED <<t, rho_hat_even, rho_hat_odd, rho_hat_t, tau, lags, file>>

EffectiveSampleSize == EssNext /\ chains' = <<>> /\ UNCHANGED storeVars

SampleNext == Storing \/ BeginSummary \/ EffectiveSampleSize

SampleSpec == SampleInit /\ [][SampleNext]_sampleVars

-------------------------------------------------------------------------------
(***************************************************************************)
(* The summary of a set of chains, against the definitions.                *)
(***************************************************************************)
AllDraws(d)   == Column(FlattenSeq(chains), d)
DrawsOf(m, d) == Column(chains[m], d)

CenterExact(mc, d) ==
  LET xs == AllDraws(d)
      N  == Len(xs)
  IN  /\ N = mc.num_draws
      /\ SumOf([i \in 1 .. N |-> Minus(xs[i], mean(mc, d))]) = Zero
      /\ N > 1 => sample_variance(mc, d) = PairsVariance(xs)
      /\ N = 1 => sample_variance(mc, d) = NaN

\* At least p N draws are not above the quantile and (1 - p) N not below it,
\* and it is between two draws with none in between.
QuantileExact(mc, d, p) ==
  LET xs == AllDraws(d)
      q  == quantile(mc, d, p)
      Share(Test(_)) == Count(Cardinality({i \in DOMAIN xs : Test(xs[i])}))
      below == Share(LAMBDA x : AtMost(x, q))
      above == Share(LAMBDA x : AtMost(q, x))
      last  == Count(Len(xs) - 1)
  IN  /\ AtMost(Times(p, last), below) /\ AtMost(Times(Minus(One, p), last), above)
      /\ p \in {Zero, One} => \E i \in DOMAIN xs : q = xs[i]
      /\ AtMost(Count(Len(xs)), Plus(below, above))

AutocovarianceExact(mc, d) ==
  LET acov == autocovariance(mc, d)
  IN  /\ Len(acov) = mc.num_draws
      /\ \A m \in DOMAIN mc.view : \A lag \in 0 .. Len(chains[m]) - 1 :
           acov[ChainStarts(sizes)[m] + lag + 1] = LagCovariance(DrawsOf(m, d), lag)

\* R-hat is 1 exactly if the chains' means agree; chains of constant draws
\* make it infinite, or NaN if they are all constant at one value.
RHatExact(mc, d) ==
  LET mu == [m \in DOMAIN chains |-> ColMean(DrawsOf(m, d))]
      equal == \A m \in DOMAIN chains : mu[m] = mu[1]
      constant == \A m \in DOMAIN chains : \A i \in DOMAIN chains[m] :
                    DrawsOf(m, d)[i] = DrawsOf(m, d)[1]
      r == r_hat_squared(mc, d)
  IN  IF constant THEN r = IF equal THEN NaN ELSE Inf
                  ELSE AtMost(One, r) /\ (r = One <=> equal)

SummaryExact(mc) ==
  \A d \in 1 .. Dims :
    /\ CenterExact(mc, d) /\ AutocovarianceExact(mc, d)
    /\ \A p \in {Zero, Frac(1, 3), Frac(1, 2), One} : QuantileExact(mc, d, p)
    /\ RHatAccepts(mc) => RHatExact(mc, d)

\* summary.hpp:54-73,360-545: both containers of the chains, of any lengths,
\* one of them empty or a single draw included, give the statistics of
\* exactly the draws of each chain: no draw of a neighbouring chain, and none
\* of the padding of the transform, enters a variance, a quantile, a lag's
\* autocovariance or R-hat.
SummariesExact ==
  phase = "begin" =>
    LET unified == Unified(FlattenSeq(chains), sizes)
    IN  /\ UnifiedAccepts(FlattenSeq(chains), sizes)
        /\ unified.view = chains
        /\ SummaryExact(unified)
        /\ SplitAccepts(chains) =>
             /\ SummaryExact(Split(chains))
             /\ \A m \in DOMAIN chains : MinChainSize(Split(chains)) <= sizes[m]
===============================================================================
