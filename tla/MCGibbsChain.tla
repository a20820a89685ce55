----------------------------- MODULE MCGibbsChain -----------------------------
(***************************************************************************)
(* Instances of GibbsChain small enough for TLC: what forests can look     *)
(* like over a trait space of two intervals per trait.                     *)
(***************************************************************************)
EXTENDS GibbsChain

MCValues == {0, 1}

\* The leaves of a forest that cuts the traits in S at every interval.
Cut(S) ==
  LET Cell(v) == {w \in Point : \A t \in S : w[t] = v[t]}
  IN  {Cell(v) : v \in Point}

\* The stump and the forests that cut each set of traits.
MCTrees == {Cut(S) : S \in SUBSET Trait}
===============================================================================
