------------------------------ MODULE Adaptation ------------------------------
(***************************************************************************)
(* The estimators of adaptive_walnuts.hpp, started from whatever a client  *)
(* has configured: Adam for the step size, discounted moments of draws and *)
(* scores for the mass, the mean number of macro steps for the number of   *)
(* micro steps.  A transition (modelled in MacroStep and Orbit) is here    *)
(* the draw it returns, its depth and the acceptance statistics of its     *)
(* macro steps.                                                            *)
(*                                                                         *)
(* Arithmetic is exact.  The step size is Adam's theta_, a sum of moves in *)
(* its logarithm: the direction of each is kept, and whether it is finite. *)
(* The square of the inverse mass is kept, not its root.                   *)
(***************************************************************************)
EXTENDS Config

CONSTANTS
  Draws,          \* [theta, grad] pairs a transition may return
  Alphas,         \* acceptance statistics
  MaxStatistics,  \* bound on the macro steps of one transition
  MaxIter,        \* bound on the calls of the adapter
  StartCalls      \* bound on the builder calls of a client that starts a chain

\* A macro step to a position or gradient that is not finite has no finite
\* error and is refused; that leaves the position a transition starts from,
\* where the density's gradient is taken to be finite.  The statistic, the
\* exponential of an error's negative magnitude, may still be NaN.
ASSUME AdaptationAssumption ==
  /\ Draws \subseteq [theta : [1 .. Dims -> Double], grad : [1 .. Dims -> Double]]
  /\ \A y \in Draws : AllFinite(y.theta) /\ AllFinite(y.grad)
  /\ Alphas \subseteq Double /\ \A alpha \in Alphas : IsFinite(alpha) \/ IsNaN(alpha)
  /\ MaxStatistics \in Nat /\ MaxIter \in Nat /\ StartCalls \in Nat

VARIABLES
  stage,      \* "configuring", "refused", "warmup", "sampling" or "failed"
  init_mass,  \* the mass the chain's InitChainConfig gave
  theta, iteration, adam, draw_var, score_var, macro_steps,  \* AdaptiveWalnuts
  seen,       \* history: [theta, grad, discount] of every observation
  gradients   \* history: gradients of Adam's objective, NaN included

adapterVars == <<theta, iteration, adam, draw_var, score_var, macro_steps>>
vars == <<configVars, stage, init_mass, adapterVars, seen, gradients>>

Elementwise(Op(_, _), u, v) == [i \in 1 .. Dims |-> Op(u[i], v[i])]
Constant(x) == [i \in 1 .. Dims |-> x]

-------------------------------------------------------------------------------
\* OnlineMoments.

\* mutant: the initial variance enters as one observation's
NewMomentsUnweighted(weight, mean, variance) ==
  [weight |-> weight, mean |-> mean, sum_sq_dev |-> variance]

NewMoments(weight, mean, variance) ==
  [weight |-> weight, mean |-> mean,
   sum_sq_dev |-> Elementwise(Times, Constant(weight), variance)]

\* mutant: the new observation is not counted
CountedWeightOld(m, discount) == Times(discount, m.weight)

CountedWeight(m, discount) == Plus(Times(discount, m.weight), One)

\* delta is an unevaluated Eigen expression, y - mean_, and is computed where
\* it is used: the second time after mean_ has moved.
Observe(m, y, discount) ==
  LET w     == CountedWeight(m, discount)
      mean  == Elementwise(LAMBDA a, b : Plus(a, Over(Minus(b, a), w)), m.mean, y)
      delta == Elementwise(Minus, y, mean)
  IN  [weight |-> w, mean |-> mean,
       sum_sq_dev |-> Elementwise(LAMBDA s, d : Plus(Times(discount, s), Times(d, d)),
                                  m.sum_sq_dev, delta)]

Variance(m) ==
  IF Less(Zero, m.weight) THEN Elementwise(Over, m.sum_sq_dev, Constant(m.weight))
                          ELSE Constant(One)

\* MassEstimator.

\* mutant: iterations are numbered from -1
DiscountEarly(i) ==
  Minus(One, Over(One, Plus(warmup.mass_init_count, Frac(i - 1, 1))))

Discount(i) ==
  Minus(One, Over(One, Plus(warmup.mass_init_count, Frac(i, 1))))

InvMassSquared == Elementwise(Over, Variance(draw_var), Variance(score_var))

\* Adam.
NewAdam(step_size) ==
  [step |-> IF step_size = Inf THEN Inf ELSE One, move |-> 0,
   m |-> Zero, v |-> Zero, gradient_pow |-> One, sq_gradient_pow |-> One]

Decayed(pow, decay) == Times(pow, decay)

Gradient(alpha) == Minus(warmup.step_accept_rate_target, alpha)

\* mutant: the new value gets the weight of the old
AverageSwapped(decay, old, new) == Plus(Times(Minus(One, decay), old), Times(decay, new))

Average(decay, old, new) == Plus(Times(decay, old), Times(Minus(One, decay), new))

MHat(a) == Over(a.m, Minus(One, a.gradient_pow))
VHat(a) == Over(a.v, Minus(One, a.sq_gradient_pow))

ObserveAccept(a, alpha) ==
  LET g == Gradient(alpha)
      b == [a EXCEPT
              !.gradient_pow = Decayed(@, warmup.step_gradient_decay),
              !.sq_gradient_pow = Decayed(@, warmup.step_sq_gradient_decay),
              !.m = Average(warmup.step_gradient_decay, @, g),
              !.v = Average(warmup.step_sq_gradient_decay, @, Times(g, g))]
  IN  [b EXCEPT !.move = IF MHat(b)[1] > 0 THEN -1 ELSE IF MHat(b)[1] < 0 THEN 1 ELSE 0,
                !.step = Plus(@, Times(Zero, MHat(b)))]

\* MinMicroStepsAdaptHandler; lround rounds a half up.
NewMacroSteps == [total |-> 2, count |-> 1]

MinMicroSteps ==
  LET goal == Times(warmup.max_macro_steps_target, Frac(macro_steps.count, 1))
      mean == Over(Frac(macro_steps.total, 1), goal)
      rounded == (2 * mean[1] + mean[2]) \div (2 * mean[2])
  IN  IF rounded < sampling.min_micro_steps THEN sampling.min_micro_steps ELSE rounded

-------------------------------------------------------------------------------
Nothing ==
  /\ theta = <<>> /\ iteration = 0 /\ adam = <<>>
  /\ draw_var = <<>> /\ score_var = <<>> /\ macro_steps = <<>>

Init ==
  /\ ConfigInit
  /\ stage = "configuring" /\ init_mass = <<>>
  /\ Nothing
  /\ seen = <<>> /\ gradients = <<>>

Configure ==
  /\ stage = "configuring"
  /\ ConfigNext
  /\ UNCHANGED <<stage, init_mass, adapterVars, seen, gradients>>

\* AdaptiveWalnuts's constructor, for a chain of the config built last.  Its
\* lists are indexed without a check, and may belong to different builds.  The
\* client drops the builders and the InitConfig, of which the adapter has a copy.
Start(n) ==
  /\ stage = "configuring" /\ outcome # "undefined" /\ calls \in 1 .. StartCalls
  /\ builder' = Moved /\ filled' = {} /\ unchecked' = {} /\ calls' = MaxCalls
  /\ init' = Moved /\ wholeness' = [wholeness EXCEPT !.filled = {}]
  /\ IF ~HasChain(init, n)
       THEN /\ outcome' = "undefined"
            /\ UNCHANGED <<stage, init_mass, adapterVars>>
       ELSE LET c == init_chain_config(init, n)
                zero == [i \in DOMAIN c.position |-> Zero]
            IN  IF ~(Positive(warmup.mass_init_count) /\ SameSize(zero, c.mass))
                  THEN /\ outcome' = "threw" /\ stage' = "refused"
                       /\ UNCHANGED <<init_mass, adapterVars>>
                  ELSE /\ stage' = "warmup" /\ outcome' = "ok"
                       /\ init_mass' = c.mass /\ theta' = c.position /\ iteration' = 0
                       /\ adam' = NewAdam(c.step_size)
                       /\ score_var' = NewMoments(warmup.mass_init_count, zero, c.mass)
                       /\ draw_var' = NewMoments(warmup.mass_init_count, zero,
                                                 [i \in DOMAIN c.mass |-> Over(One, c.mass[i])])
                       /\ macro_steps' = NewMacroSteps
  /\ UNCHANGED <<warmup, sampling, seen, gradients>>

Usable == AllPositive(InvMassSquared) /\ IsFinite(adam.step)

\* Depths of a transition with the number of macro steps it can have tried:
\* each doubling before the last was complete.
Trajectories ==
  LET d == sampling.max_trajectory_doublings
  IN  IF d = 0 \/ sampling.max_step_halvings = 0 THEN {<<1, 0>>}
      ELSE IF ~Usable THEN {<<1, 1>>}
      ELSE {t \in (1 .. d + 1) \X (1 .. MaxStatistics) :
              IF t[1] > d THEN t[2] = 2^d - 1
                          ELSE 2^(t[1] - 1) <= t[2] /\ t[2] < 2^t[1]}

\* 1 << n
Shifted[n \in Nat] == IF n = 0 THEN 1 ELSE 2 * Shifted[n - 1]

\* mutant: the depth itself is counted
MacrosDepth(depth) == depth

Macros(depth) == Shifted[depth]

\* With a step or mass that is not a positive number the first error is NaN:
\* the statistic is NaN and the chain stays where it is.
Returned ==
  IF Usable /\ sampling.max_trajectory_doublings > 0 /\ sampling.max_step_halvings > 0
    THEN Draws
    ELSE {[y EXCEPT !.theta = theta] : y \in Draws}

Statistics == IF Usable THEN Alphas ELSE {NaN}

(***************************************************************************)
(* operator()().  Adam has observed the statistics, and the position has   *)
(* moved, before a discount factor that is no probability is refused.      *)
(***************************************************************************)
Iterate ==
  /\ stage = "warmup" /\ iteration < MaxIter /\ outcome # "threw"
  /\ \E t \in Trajectories, y \in Returned : \E alphas \in [1 .. t[2] -> Statistics] :
       LET discount == Discount(iteration)
       IN  /\ adam' = FoldLeft(ObserveAccept, adam, alphas)
           /\ gradients' = gradients \o [k \in 1 .. t[2] |-> Gradient(alphas[k])]
           /\ theta' = y.theta
           /\ IF ProbabilityInclusive(discount)
                THEN /\ draw_var' = Observe(draw_var, y.theta, discount)
                     /\ score_var' = Observe(score_var, y.grad, discount)
                     /\ macro_steps' = [total |-> macro_steps.total + Macros(t[1]),
                                        count |-> macro_steps.count + 1]
                     /\ iteration' = iteration + 1
                     /\ seen' = Append(seen, [theta |-> y.theta, grad |-> y.grad,
                                              discount |-> discount])
                     /\ outcome' = "ok"
                ELSE /\ outcome' = "threw"
                     /\ UNCHANGED <<draw_var, score_var, macro_steps, iteration, seen>>
  /\ UNCHANGED <<builder, init, warmup, sampling, calls, filled, unchecked, wholeness,
                 stage, init_mass>>

\* sampler(): WalnutsSampler's constructor is the first to look at the
\* estimates, and at two numbers of the configuration no setter checks.
Constructible ==
  /\ AllPositive(InvMassSquared) /\ Positive(adam.step)
  /\ PositiveInteger(sampling.max_trajectory_doublings)
  /\ PositiveInteger(sampling.max_step_halvings)
  /\ PositiveInteger(MinMicroSteps)
  /\ Positive(sampling.max_hamiltonian_error)

Sampler ==
  /\ stage = "warmup"
  /\ stage' = IF Constructible THEN "sampling" ELSE "failed"
  /\ UNCHANGED <<configVars, init_mass, adapterVars, seen, gradients>>

Next == Configure \/ (\E n \in Chains : Start(n)) \/ Iterate \/ Sampler

Spec == Init /\ [][Next]_vars

-------------------------------------------------------------------------------
Started == stage \in {"warmup", "sampling"}

\* Types, and the bound the estimate of the micro steps never goes below.
TypeOK ==
  /\ stage \in {"configuring", "refused", "warmup", "sampling", "failed"}
  /\ outcome \in {"ok", "refused", "threw", "undefined"}
  /\ iteration \in 0 .. MaxIter /\ Len(seen) = iteration
  /\ warmup.min_iter <= warmup.max_iter /\ sampling.min_iter <= sampling.max_iter
  /\ Started => /\ MinMicroSteps >= sampling.min_micro_steps
                /\ macro_steps.total >= 2 * macro_steps.count
                /\ {adam.step, adam.m, adam.v} \subseteq Double

-------------------------------------------------------------------------------
\* The weight a past observation, or the initial estimate (0), has by now.
Weight(n) ==
  ProductFrom(IF n = 0 THEN warmup.mass_init_count ELSE One,
              [k \in 1 .. Len(seen) - n |-> seen[n + k].discount])

Total(f(_)) == SumFrom(f(0), [n \in 1 .. Len(seen) |-> f(n)])

\* Value of an observation's entry: 0 is the initial mean.
Entry(which, i, n) == IF n = 0 THEN Zero ELSE seen[n][which][i]

DocumentedMean(which, i) ==
  Over(Total(LAMBDA n : Times(Weight(n), Entry(which, i, n))), Total(Weight))

InitialVariance(which, i) ==
  IF which = "grad" THEN init_mass[i] ELSE Over(One, init_mass[i])

Square(x) == Times(x, x)

DocumentedVariance(which, i) ==
  LET mean == DocumentedMean(which, i)
      spread(n) == Plus(Square(Minus(Entry(which, i, n), mean)),
                        IF n = 0 THEN InitialVariance(which, i) ELSE Zero)
  IN  Over(Total(LAMBDA n : Times(Weight(n), spread(n))), Total(Weight))

Moments(which) == IF which = "grad" THEN score_var ELSE draw_var

\* online_moments.hpp:88-119: after any number of observations under changing
\* discount factors the running mean is the weighted mean of everything seen,
\* the initial estimate counting as mass_init_count observations.
MeanIsDocumented ==
  Started => \A which \in {"theta", "grad"} :
    /\ Moments(which).weight = Total(Weight)
    /\ \A i \in 1 .. Dims : Moments(which).mean[i] = DocumentedMean(which, i)

\* online_moments.hpp:119-123: and the running variance is the weighted mean
\* of the squared deviations from it.
VarianceIsDocumented ==
  Started => \A which \in {"theta", "grad"}, i \in 1 .. Dims :
    Variance(Moments(which))[i] = DocumentedVariance(which, i)

TrustedMass == "masses" \notin wholeness.unchecked

\* What the code computes instead never exceeds that variance, and the inverse
\* mass a transition is given is a positive number for as long as more than
\* one initial count keeps something of the past; with exactly one, it is lost
\* at the first observation, for good.
MassUsable ==
  Started /\ TrustedMass =>
    /\ \A which \in {"theta", "grad"}, i \in 1 .. Dims :
         AtMost(Variance(Moments(which))[i], DocumentedVariance(which, i))
    /\ AllPositive(InvMassSquared) <=> iteration = 0 \/ Less(One, warmup.mass_init_count)

FiniteGradients == \A k \in DOMAIN gradients : IsFinite(gradients[k])

Within(x, xs) ==
  /\ \E k \in DOMAIN xs : AtMost(xs[k], x)
  /\ \E k \in DOMAIN xs : AtMost(x, xs[k])

\* adam.hpp:67-83: however many observations an iteration makes, the corrected
\* averages stay between the smallest and largest of what was observed, so
\* the step grows while every statistic was above the target and shrinks while
\* every one was below; one NaN statistic makes it NaN.
StepFollowsAcceptance ==
  Started /\ gradients # <<>> =>
    IF FiniteGradients
      THEN /\ Within(MHat(adam), gradients)
           /\ Within(VHat(adam), [k \in DOMAIN gradients |-> Square(gradients[k])])
           /\ (\A k \in DOMAIN gradients : Less(gradients[k], Zero)) => adam.move = 1
           /\ (\A k \in DOMAIN gradients : Less(Zero, gradients[k])) => adam.move = -1
      ELSE IsNaN(adam.step)

\* Of the calls a client's accepted arguments lead to, an iteration throws
\* exactly when the initial count is below one, and building the sampler after
\* the warm-up fails only for an unchecked zero, an initial count of one, or
\* numbers that came from the client's density: masses, steps or a statistic.
AcceptedConfigsRun ==
  /\ Started /\ outcome = "threw" => Less(warmup.mass_init_count, One)
  /\ iteration > 0 => ~Less(warmup.mass_init_count, One)
  /\ stage = "failed" =>
       \/ 0 \in {sampling.max_trajectory_doublings, sampling.max_step_halvings}
       \/ warmup.mass_init_count = One
       \/ wholeness.unchecked # {}
       \/ NaN \in Alphas /\ ~FiniteGradients
===============================================================================
