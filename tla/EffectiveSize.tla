----------------------------- MODULE EffectiveSize -----------------------------
(***************************************************************************)
(* effective_sample_size() for one dimension: Geyer's initial positive and *)
(* monotone sequence over pairs of lags.  Which autocorrelations the draws *)
(* have is left open: each is revealed when it is computed, in units of    *)
(* 1 / Unit and even, so that the one halving of a sum is exact.           *)
(*                                                                         *)
(* rho_hat_t is an array of min_len entries, indexed from 0.  The average  *)
(* autocovariance at a lag reads one row of every chain.                   *)
(***************************************************************************)
EXTENDS Summary

CONSTANTS Unit, Rhos

ASSUME RhoAssumption ==
  /\ Unit \in Nat /\ Unit % 2 = 0 /\ Rhos \subseteq Int
  /\ \A r \in Rhos : r % 2 = 0

VARIABLES
  phase,      \* "idle", "begin", "loop", "done", "threw" or "undefined"
  sizes,      \* rows of the chains
  t, rho_hat_even, rho_hat_odd, rho_hat_t, tau,
  lags        \* history: lags read

essVars == <<phase, sizes, t, rho_hat_even, rho_hat_odd, rho_hat_t, tau, lags>>

MinLen == CHOOSE n \in {sizes[m] : m \in DOMAIN sizes} : \A m \in DOMAIN sizes : n <= sizes[m]

NoRun ==
  /\ t = 0 /\ rho_hat_even = 0 /\ rho_hat_odd = 0 /\ rho_hat_t = <<>>
  /\ tau = 0 /\ lags = {}

EssInit == phase = "idle" /\ sizes = <<>> /\ NoRun

Zeros == [k \in 0 .. MinLen - 1 |-> 0]

\* Lag 1 is read, and entries 0 and 1 are written, whatever the lengths.
FirstPair ==
  /\ phase = "begin"
  /\ IF SizesSum(sizes) < 3
       THEN phase' = "threw" /\ UNCHANGED <<t, rho_hat_even, rho_hat_odd, rho_hat_t, lags>>
     ELSE IF MinLen < 2
       THEN /\ phase' = "undefined" /\ lags' = {1}
            /\ UNCHANGED <<t, rho_hat_even, rho_hat_odd, rho_hat_t>>
     ELSE \E rho \in Rhos :
            /\ phase' = "loop" /\ t' = 1
            /\ rho_hat_even' = Unit /\ rho_hat_odd' = rho
            /\ rho_hat_t' = [Zeros EXCEPT ![0] = Unit, ![1] = rho]
            /\ lags' = {1}
  /\ UNCHANGED <<sizes, tau>>

\* mutant: the loop runs to the end of the shortest chain
MoreLagsToEnd == t < MinLen /\ rho_hat_even + rho_hat_odd > 0

MoreLags == t < MinLen - 4 /\ rho_hat_even + rho_hat_odd > 0

\* mutant: the next pair is not cut down to the last
MonotoneSkipped(rho, k) == rho

Monotone(rho, k) ==
  IF rho[k + 1] + rho[k + 2] > rho[k - 1] + rho[k]
    THEN LET half == (rho[k - 1] + rho[k]) \div 2
         IN  [rho EXCEPT ![k + 1] = half, ![k + 2] = half]
    ELSE rho

\* An entry past the end is not there to be written.
NextPair ==
  /\ phase = "loop" /\ MoreLags
  /\ \E even \in Rhos, odd \in Rhos :
       /\ rho_hat_even' = even /\ rho_hat_odd' = odd
       /\ IF t + 2 \in DOMAIN rho_hat_t
            THEN /\ rho_hat_t' = Monotone(IF even + odd >= 0
                                             THEN [rho_hat_t EXCEPT ![t + 1] = even, ![t + 2] = odd]
                                             ELSE rho_hat_t, t)
                 /\ UNCHANGED phase
            ELSE phase' = "undefined" /\ UNCHANGED rho_hat_t
  /\ lags' = lags \cup {t + 1, t + 2}
  /\ t' = t + 2
  /\ UNCHANGED <<sizes, tau>>

\* 1 / log10(n) in units of 1 / Unit, rounded up, for n of 3 or more: the least
\* f with n^f >= 10^Unit.  A multiple of 1 / Unit compares with it as with the
\* logarithm.
TauFloor(n) ==
  LET power[f \in 0 .. 3 * Unit] ==      \* as far as it is below 10^Unit
        IF f = 0 THEN 1
        ELSE IF power[f - 1] < 10 ^ Unit THEN n * power[f - 1] ELSE power[f - 1]
  IN  1 + Cardinality({f \in 1 .. 3 * Unit : power[f] < 10 ^ Unit})

Greater(a, b) == IF a < b THEN b ELSE a

\* mutant: without the safety floor
TauHatUnfloored(sum, tail, n) == -Unit + 2 * sum + tail

TauHat(sum, tail, n) == Greater(-Unit + 2 * sum + tail, TauFloor(n))

\* The entry past the last pair is read, and written if the last even
\* autocorrelation is positive, whether or not it belongs to a pair in use.
FinishTail ==
  /\ phase = "loop" /\ ~MoreLags
  /\ IF t + 1 \notin DOMAIN rho_hat_t
       THEN phase' = "undefined" /\ UNCHANGED <<rho_hat_t, tau>>
       ELSE /\ rho_hat_t' = IF rho_hat_even > 0 THEN [rho_hat_t EXCEPT ![t + 1] = rho_hat_even]
                                                ELSE rho_hat_t
            /\ LET head == [k \in 1 .. t |-> rho_hat_t[k - 1]]
               IN  tau' = TauHat(FoldLeft(LAMBDA a, b : a + b, 0, head), rho_hat_t'[t + 1], SizesSum(sizes))
            /\ phase' = "done"
  /\ UNCHANGED <<sizes, t, rho_hat_even, rho_hat_odd, lags>>

EssNext == FirstPair \/ NextPair \/ FinishTail

-------------------------------------------------------------------------------
\* summary.hpp:703, "min_len - 4 prevents reading beyond the end of chains": of
\* chains that all have three draws or more no lag is read that the shortest does
\* not have, however the loop ends, and every entry written or added up exists.
\* The result is then a positive number, also where antithetic draws take the sum
\* of the pairs to zero or below; up to five draws, where the loop is not entered,
\* the autocorrelations have no say in it.
LagsWithinChain ==
  (\A m \in DOMAIN sizes : sizes[m] >= 3) =>
    /\ \A lag \in lags, m \in DOMAIN sizes : lag < sizes[m]
    /\ phase # "undefined"
    /\ phase = "loop" => t + 1 < MinLen
    /\ phase = "done" => tau > 0
    /\ phase = "done" /\ MinLen <= 5 => tau = Greater(2 * Unit, TauFloor(SizesSum(sizes)))

\* The pairs kept are not negative and never grow, however the correlations
\* come out, and a pair that would be is dropped with all that follow.
GeyerMonotone ==
  phase = "loop" =>
    \A k \in {j \in 1 .. t : j % 2 = 1 /\ j + 2 <= t} :
      /\ rho_hat_t[k + 1] + rho_hat_t[k + 2] >= 0
      /\ rho_hat_t[k + 1] + rho_hat_t[k + 2] <= rho_hat_t[k - 1] + rho_hat_t[k]
===============================================================================
