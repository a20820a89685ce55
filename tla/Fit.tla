---------------------------------- MODULE Fit ----------------------------------
(***************************************************************************)
(* What becomes of the chains' results: new_irt_causal_fit() stacks them   *)
(* into arrays (R/chains.R), and extract() and summary() take those apart  *)
(* again (R/diagnostics.R, without the posterior package).  A result is    *)
(* what its chain's seed determines: a vector of draws, and one matrix of  *)
(* draws by items per bank.                                                *)
(*                                                                         *)
(* An R array is its data, first index fastest, and its dim.  A matrix of  *)
(* draws by chains is also a sequence of rows.                             *)
(***************************************************************************)
EXTENDS Chains, Summary

CONSTANTS
  Results,    \* [seed -> [ate: numbers, alpha: one sequence of rows per bank]]
  Lengths     \* choices of n_sampling

\* NA is no number.  Chains are as long as the largest n_sampling, and a bank
\* has the same items in all of them.
ASSUME FitAssumption ==
  /\ NA \notin Int \X Int
  /\ DOMAIN Results = Int32 /\ Lengths \subseteq Nat \ {0}
  /\ \A s \in Int32 :
       /\ Results[s].ate \in Seq(Int) /\ DOMAIN Results[s].alpha = 1 .. K
       /\ \A k \in 1 .. K : Results[s].alpha[k] \in Seq(Seq(Int))
       /\ \A n \in Lengths :
            n <= Len(Results[s].ate) /\ \A k \in 1 .. K : n <= Len(Results[s].alpha[k])
  /\ \A k \in 1 .. K, s, r \in Int32 :
       \A i \in DOMAIN Results[s].alpha[k], j \in DOMAIN Results[r].alpha[k] :
         Len(Results[s].alpha[k][i]) = Len(Results[r].alpha[k][j])

VARIABLE fit  \* the irt_causal_fit, or <<>>

fitVars == <<vars, fit>>

-------------------------------------------------------------------------------
\* R's arrays.
RArray(data, dim) == [data |-> data, dim |-> dim]

At2(a, i, j)    == a.data[i + a.dim[1] * (j - 1)]
At3(a, i, j, k) == a.data[i + a.dim[1] * ((j - 1) + a.dim[2] * (k - 1))]

\* unlist() of a list of matrices.
Unlist(ms) ==
  FlattenSeq([c \in DOMAIN ms |->
    FlattenSeq([j \in DOMAIN ms[c][1] |-> Column(ms[c], j)])])

\* aperm(a, c(1, 3, 2))
SwapLast(a) ==
  LET d == <<a.dim[1], a.dim[3], a.dim[2]>>
  IN  RArray([p \in DOMAIN a.data |->
                At3(a, ((p - 1) % d[1]) + 1, ((p - 1) \div (d[1] * d[2])) + 1,
                       (((p - 1) \div d[1]) % d[2]) + 1)], d)

\* bind_chain_draws(), of vectors and of matrices.
BindVectors(per_chain) ==
  RArray(FlattenSeq(per_chain), <<Len(per_chain[1]), Len(per_chain)>>)

\* mutant: the array is filled as if it had the dims it gets in the end
BindMatricesUnswapped(per_chain) ==
  RArray(Unlist(per_chain), <<Len(per_chain[1]), Len(per_chain), Len(per_chain[1][1])>>)

BindMatrices(per_chain) ==
  SwapLast(RArray(Unlist(per_chain),
                  <<Len(per_chain[1]), Len(per_chain[1][1]), Len(per_chain)>>))

\* The list of banks a chain has is turned into banks that have chains.
NewFit(results) ==
  [ate   |-> BindVectors([c \in DOMAIN results |-> results[c].ate]),
   alpha |-> [k \in 1 .. K |-> BindMatrices([c \in DOMAIN results |-> results[c].alpha[k]])],
   n_sampling |-> Len(results[1].ate)]

Taken(result, n) ==
  [ate |-> SubSeq(result.ate, 1, n),
   alpha |-> [k \in 1 .. K |-> SubSeq(result.alpha[k], 1, n)]]

Assemble ==
  /\ pc = "returned" /\ fit = <<>>
  /\ \E n \in Lengths :
       fit' = NewFit([c \in Chain |-> Taken(Results[seeds[c]], n)])
  /\ UNCHANGED vars

FitInit == Init /\ fit = <<>>
FitNext == (Next /\ UNCHANGED fit) \/ Assemble
FitSpec == FitInit /\ [][FitNext]_fitVars /\ WF_vars(Next)

-------------------------------------------------------------------------------
\* extract(combine_chains = TRUE)
Collapse(a) ==
  IF Len(a.dim) = 2 THEN a.data
  ELSE RArray(a.data, <<a.dim[1] * a.dim[2], a.dim[3]>>)

\* irt_draws_array(): the quantities' arrays side by side along the third axis,
\* and the variables' names.
Pieces == <<fit.ate>> \o fit.alpha

DrawsArray ==
  RArray(FlattenSeq([p \in DOMAIN Pieces |-> Pieces[p].data]),
         <<fit.ate.dim[1], fit.ate.dim[2],
           1 + SizesSum([k \in 1 .. K |-> fit.alpha[k].dim[3]])>>)

VariableNames ==
  <<<<"ate">>>> \o
  FlattenSeq([k \in 1 .. K |-> [j \in 1 .. fit.alpha[k].dim[3] |->
                IF K > 1 THEN <<"alpha", k, j>> ELSE <<"alpha", j>>]])

\* quantile_summary() pools draws and chains, and asplit() takes a variable.
Pooled(v) == LET a == DrawsArray
                 n == a.dim[1] * a.dim[2]
             IN  SubSeq(a.data, (v - 1) * n + 1, v * n)

Slice(v) == LET a == DrawsArray
            IN  [i \in 1 .. a.dim[1] |-> [c \in 1 .. a.dim[2] |-> At3(a, i, c, v)]]

Entries(rows) == FlattenSeq(rows)

\* Twice the distance from the median.
Folded(rows) ==
  LET xs == Sorted(Entries(rows), <)
      n  == Len(xs)
      median2 == xs[(n + 1) \div 2] + xs[(n + 2) \div 2]
      abs(x) == IF x < 0 THEN -x ELSE x
  IN  [i \in DOMAIN rows |-> [c \in DOMAIN rows[i] |-> abs(2 * rows[i][c] - median2)]]

\* mutant: the halves of an odd number of draws share the middle one
SplitChainsShared(rows) ==
  LET half == (Len(rows) + 1) \div 2
  IN  [i \in 1 .. half |-> rows[i] \o rows[Len(rows) - half + i]]

\* n >= 4: the first halves of the chains, then the second ones.
SplitChains(rows) ==
  LET half == Len(rows) \div 2
  IN  [i \in 1 .. half |-> rows[i] \o rows[Len(rows) - half + i]]

(***************************************************************************)
(* Twice the average rank, in place of its normal score: what follows only *)
(* depends on which scores and column means agree.                         *)
(***************************************************************************)
ZScale(rows) ==
  LET xs == Entries(rows)
      Number(Test(_)) == Cardinality({e \in DOMAIN xs : Test(xs[e])})
  IN  [i \in DOMAIN rows |-> [c \in DOMAIN rows[i] |->
        Count(2 * Number(LAMBDA x : x < rows[i][c])
                + Number(LAMBDA x : x = rows[i][c]) + 1)]]

\* The square of R-hat, NA or Inf.
RHatBasic(rows) ==
  LET n       == Len(rows)
      columns == [c \in DOMAIN rows[1] |-> Column(rows, c)]
      means   == [c \in DOMAIN columns |-> ColMean(columns[c])]
      within  == ColMean([c \in DOMAIN columns |-> ColVariance(columns[c], means[c])])
      between == Times(Count(n), ColVariance(means, ColMean(means)))
  IN  IF within = Zero
        THEN IF Less(Zero, between) THEN Inf ELSE NA
        ELSE Over(Plus(Over(between, within), Count(n - 1)), Count(n))

RHatRank(rows) == RHatBasic(ZScale(SplitChains(rows)))

\* max() returns NA if either is.
Larger(a, b) == IF NA \in {a, b} THEN NA ELSE IF Less(a, b) THEN b ELSE a

RHatMatrix(rows) ==
  IF Len(rows) < 4 \/ Cardinality(ToSet(Entries(rows))) = 1 THEN NA
  ELSE Larger(RHatRank(rows), RHatRank(Folded(rows)))

-------------------------------------------------------------------------------
\* R/chains.R:118-138, R/diagnostics.R:12-48,132-139: through two transpositions
\* of an array that R stores flat, every number of the fit, of extract() and
\* of the array the summary is made from, is the draw of the chain, bank and
\* item its position or name says, also where banks differ in size; no draw
\* appears twice or is lost.
FitFaithful ==
  fit # <<>> =>
    LET n     == fit.n_sampling
        names == VariableNames
        drawn(c) == Results[seeds[c]]
        Value(name, c, i) ==
          IF name[1] = "ate" THEN drawn(c).ate[i]
          ELSE drawn(c).alpha[IF K > 1 THEN name[2] ELSE 1][i][name[Len(name)]]
    IN  /\ DrawsArray.dim = <<n, Len(seeds), Len(names)>>
        /\ Len(DrawsArray.data) = n * Len(seeds) * Len(names)
        /\ Cardinality(ToSet(names)) = Len(names)
        /\ \A c \in Chain, i \in 1 .. n :
             /\ At2(fit.ate, i, c) = drawn(c).ate[i]
             /\ Collapse(fit.ate)[(c - 1) * n + i] = drawn(c).ate[i]
             /\ \A k \in 1 .. K : \A j \in DOMAIN drawn(c).alpha[k][1] :
                  /\ At3(fit.alpha[k], i, c, j) = drawn(c).alpha[k][i][j]
                  /\ At2(Collapse(fit.alpha[k]), (c - 1) * n + i, j) = drawn(c).alpha[k][i][j]
             /\ \A v \in DOMAIN names :
                  /\ At3(DrawsArray, i, c, v) = Value(names[v], c, i)
                  /\ Pooled(v)[(c - 1) * n + i] = Value(names[v], c, i)

\* The draws of each half of each chain: an odd number's middle one is in none.
Halves(rows) ==
  LET half == Len(rows) \div 2
  IN  {{rows[i][c] : i \in h} :
         h \in {1 .. half, Len(rows) - half + 1 .. Len(rows)}, c \in DOMAIN rows[1]}

\* R/diagnostics.R:322-326: R-hat is undefined only where the draws that count
\* are all one value, or all as far from the median as each other; when
\* instead every half of a chain is stuck at a value, or a distance, of its
\* own, it is infinite; and it is a number otherwise.  So chains stuck at
\* three values or more are flagged, and of those stuck at two, all but the
\* equally divided (inst/tinytest/test-chains.R:35-38).
RHatFlagsStuck ==
  fit # <<>> /\ Len(seeds) > 1 =>
    \A v \in DOMAIN VariableNames :
      LET rows    == Slice(v)
          halves  == Halves(rows)
          folds   == Halves(Folded(rows))
          Constant(hs) == Cardinality(UNION hs) = 1
          Stuck(hs)    == \A h \in hs : Cardinality(h) = 1
          r == RHatMatrix(rows)
      IN  /\ r = NA <=> Len(rows) < 4 \/ Constant(halves) \/ Constant(folds)
          /\ r = Inf <=> r # NA /\ (Stuck(halves) \/ Stuck(folds))
          /\ r \notin {NA, Inf} => IsFinite(r) /\ Less(Zero, r)
          /\ Len(rows) >= 4 /\ Stuck(halves) /\ Cardinality(UNION halves) > 2 => r = Inf
===============================================================================
