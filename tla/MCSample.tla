------------------------------- MODULE MCSample -------------------------------
(***************************************************************************)
(* Sample with two chains.  Eight draws are enough for two rounds of the   *)
(* effective sample size's loop.                                           *)
(***************************************************************************)
EXTENDS Sample

\* Chains of unequal lengths, and constant ones at one value or at two.
MCTraces == {<<<<2, 0, 3, 3, 1, 5, 4, 2>>, <<1, 4, 4, 0, 2, 6, 1, 3>>>>,
             <<<<1, 1, 1>>, <<1, 1, 1, 1>>>>,
             <<<<1, 1, 1>>, <<2, 2, 2>>>>}

MCRhos == {-4, 2, 4}
===============================================================================
