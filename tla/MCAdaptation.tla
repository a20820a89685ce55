----------------------------- MODULE MCAdaptation -----------------------------
(***************************************************************************)
(* Adaptation with two chains of one dimension.                            *)
(***************************************************************************)
EXTENDS Adaptation

\* The scalar arguments reach each side of every bound a check knows.
MCSteps     == {Frac(1, 2), Zero, Inf}
MCStepLists == {<<One, Frac(1, 2)>>, <<One>>, <<One, NaN>>}

MCVectors     == {<<Frac(2, 1)>>, <<Frac(-1, 1)>>, <<One, One>>}
MCVectorLists == {<<<<One>>, <<Frac(2, 1)>>>>, <<<<One>>, <<One, One>>>>, <<<<One>>>>}

MCNormals == {<<Frac(-2, 1)>>}
MCScales  == {Frac(1, 2), NaN}

MCPositions == {<<Zero>>, <<Frac(-1, 1)>>, <<One>>, <<Frac(2, 1)>>, <<NaN>>, <<One, One>>}

\* A density with finite gradients, one with none where it is flat or
\* unbounded, and one that throws at a position other than the first.
MCGradients ==
  {[p \in MCPositions |-> <<Minus(One, p[1])>>],
   [p \in MCPositions |-> IF p = <<Zero>> THEN <<Inf>> ELSE <<NaN>>],
   [p \in MCPositions |-> IF p = <<Frac(2, 1)>> THEN Throws ELSE <<Zero>>]}

MCSmoothings == {Frac(1, 2), One}

\* Levels -1 to 4, half octaves from the initial step; the last is infinite.
Curve(low, mid, high) == [l \in -1 .. 4 |-> IF l = 4 THEN "nan" ELSE
                             IF l < 0 THEN low ELSE IF l < 2 THEN mid ELSE high]

MCCurves ==
  {Curve("above", "above", "above"),     \* flat: the step becomes infinite
   Curve("above", "above", "below"),
   Curve("between", "below", "below"),
   Curve("above", "above", "throws")}

MCWarmupArgs ==
  [mass_init_count |-> {Frac(1, 2), One, Frac(2, 1), Zero},
   max_macro_steps_target |-> {Frac(1, 2)},
   step_accept_rate_target |-> {One, Frac(1, 2)},
   yield_period |-> {0}]

MCSamplingArgs ==
  [max_trajectory_doublings |-> {0}, max_step_halvings |-> {0}, rhat_converge_tol |-> {One}]

MCIterArgs == {<<2, 1>>, <<0, 0>>}

MCDraws == {[theta |-> <<One>>, grad |-> <<Frac(-3, 1)>>],
            [theta |-> <<Frac(-2, 1)>>, grad |-> <<One>>]}

MCAlphas == {Frac(2, 5), One, NaN}
===============================================================================
