-------------------------------- MODULE Config --------------------------------
(***************************************************************************)
(* The builders of config.hpp, called in any order by one client.  A       *)
(* setter checks its argument before it assigns anything, except the one   *)
(* that computes masses from gradients: it calls the client's log density  *)
(* between its assignments, and does not look at what that returns.        *)
(* build() moves the three lists out of the builder.                       *)
(*                                                                         *)
(* Vectors are sequences of doubles; chains are numbered from 1.           *)
(***************************************************************************)
EXTENDS Validate, FiniteSets

CONSTANTS
  NumChains, Dims,   \* the constructor's arguments
  StepArgs,          \* arguments of step_sizes(): doubles
  StepListArgs,      \*   and lists of doubles
  VectorArgs,        \* arguments of positions() and masses(): vectors
  VectorListArgs,    \*   and lists of vectors
  Normals,           \* values of a vector of standard normal variates
  Scales,            \* arguments of positions(rng, init_scale)
  Gradients,         \* the client's densities: position -> gradient, or Throws
  Smoothings,        \* arguments of masses(logp_grad, mass_smoothing)
  Curves,            \* errors of a first leapfrog step, see AdaptedStep
  WarmupArgs,        \* [some fields of WarmupConfig -> sets of arguments]
  SamplingArgs,      \* [some fields of SamplingConfig -> sets of arguments]
  IterArgs,          \* pairs of arguments of min_max_iter()
  MaxCalls           \* bound on the client's calls of builders

Chains == 1 .. NumChains
Throws == <<>>

\* What the setters can leave as a chain's position.
StartPositions ==
  {v \in {[i \in 1 .. Dims |-> Zero]} \cup VectorArgs
            \cup UNION {{vs[c] : c \in DOMAIN vs} : vs \in VectorListArgs} :
     Size(v, Dims) /\ AllFinite(v)}
  \cup {[i \in 1 .. Dims |-> Times(z[i], scale)] :
          z \in Normals, scale \in {x \in Scales : FinitePositive(x)}}

\* A vector has a size, and a density that returns gives a gradient of Dims.
ASSUME ConfigAssumption ==
  /\ NumChains \in Nat \ {0} /\ Dims \in Nat \ {0} /\ MaxCalls \in Nat
  /\ StepArgs \cup Scales \subseteq Double
  /\ StepListArgs \cup VectorArgs \cup Normals \subseteq Seq(Double)
  /\ VectorListArgs \subseteq Seq(Seq(Double))
  /\ \A z \in Normals : Size(z, Dims) /\ AllFinite(z)
  /\ \A g \in Gradients, p \in StartPositions : g[p] = Throws \/ DOMAIN g[p] = 1 .. Dims

VARIABLES
  builder,   \* InitConfigBuilder: the three lists; <<>> once moved from
  init,      \* the InitConfig built last
  warmup,    \* the WarmupConfig inside its builder
  sampling,  \* the SamplingConfig inside its builder
  outcome,   \* of the last call: "ok", "refused", "threw" or "undefined"
  calls,     \* calls made
  filled,    \* history: the lists assigned since they were last moved from
  unchecked, \* history: the lists with numbers nothing validated
  wholeness  \* history: filled and unchecked at the last build()

configVars == <<builder, init, warmup, sampling, outcome, calls,
                filled, unchecked, wholeness>>

Lists  == {"step_sizes", "positions", "masses"}
Moved  == [l \in Lists |-> <<>>]
Same(v) == [c \in Chains |-> v]

\* InitConfig: the accessors index the lists without a check.
num_chains(cfg) == Len(cfg.step_sizes)
dims(cfg)       == IF cfg.positions = <<>> THEN 0 ELSE Len(cfg.positions[1])

HasChain(cfg, n) == \A l \in Lists : n \in DOMAIN cfg[l]

init_chain_config(cfg, n) ==
  [step_size |-> cfg.step_sizes[n], position |-> cfg.positions[n],
   mass |-> cfg.masses[n]]

WarmupDefaults ==
  [min_iter |-> 50, max_iter |-> 1000,
   step_size_converge_tol |-> Frac(1, 10), mass_converge_tol |-> One,
   mass_init_count |-> Frac(4, 1), mass_additive_smoothing |-> Frac(1, 100000),
   max_macro_steps_target |-> Frac(15, 1), step_accept_rate_target |-> Frac(4, 5),
   step_learning_rate |-> Frac(1, 20), step_gradient_decay |-> Frac(4, 5),
   step_sq_gradient_decay |-> Frac(9, 10), step_stabilization |-> Frac(1, 10000),
   step_learn_rate_decay |-> Frac(1, 2), publish_stride |-> 5, yield_period |-> 32]

SamplingDefaults ==
  [min_iter |-> 50, max_iter |-> 1000, max_trajectory_doublings |-> 5,
   max_step_halvings |-> 5, max_hamiltonian_error |-> Frac(1, 2),
   min_micro_steps |-> 1, rhat_converge_tol |-> Frac(101, 100)]

\* A setter's argument has its field's type, std::size_t or double.
ASSUME FieldAssumption ==
  /\ DOMAIN WarmupArgs \subseteq DOMAIN WarmupDefaults \ {"min_iter", "max_iter"}
  /\ \A f \in DOMAIN WarmupArgs :
       WarmupArgs[f] \subseteq IF f \in {"publish_stride", "yield_period"} THEN Nat ELSE Double
  /\ DOMAIN SamplingArgs \subseteq DOMAIN SamplingDefaults \ {"min_iter", "max_iter"}
  /\ \A f \in DOMAIN SamplingArgs :
       SamplingArgs[f] \subseteq IF f \in {"max_hamiltonian_error", "rhat_converge_tol"}
                                  THEN Double ELSE Nat
  /\ IterArgs \subseteq Nat \X Nat

\* What the setter of a field asks of its argument.
WarmupAccepts(field, v) ==
  CASE field \in {"step_accept_rate_target", "step_gradient_decay",
                  "step_sq_gradient_decay", "step_learn_rate_decay"} -> Probability(v)
    [] field \in {"publish_stride", "yield_period"} -> PositiveInteger(v)
    [] OTHER -> FinitePositive(v)

SamplingAccepts(field, v) ==
  CASE field = "max_hamiltonian_error" -> FinitePositive(v)
    [] field = "min_micro_steps" -> PositiveInteger(v)
    [] field = "rhat_converge_tol" -> FiniteGt1(v)
    [] field \in {"max_trajectory_doublings", "max_step_halvings"} -> TRUE

ConfigInit ==
  /\ builder = [step_sizes |-> Same(Frac(1, 10)),
                positions |-> Same([i \in 1 .. Dims |-> Zero]),
                masses |-> Same([i \in 1 .. Dims |-> One])]
  /\ init = Moved
  /\ warmup = WarmupDefaults
  /\ sampling = SamplingDefaults
  /\ outcome = "ok" /\ calls = 0
  /\ filled = Lists /\ unchecked = {}
  /\ wholeness = [filled |-> {}, unchecked |-> {}]

Call == calls < MaxCalls /\ outcome # "undefined" /\ calls' = calls + 1

\* A setter of one list: refused, or the list replaced.
Assign(list, valid, value) ==
  /\ Call
  /\ IF valid
       THEN /\ builder' = [builder EXCEPT ![list] = value]
            /\ filled' = filled \cup {list}
            /\ unchecked' = unchecked \ {list}
            /\ outcome' = "ok"
       ELSE outcome' = "refused" /\ UNCHANGED <<builder, filled, unchecked>>
  /\ UNCHANGED <<init, warmup, sampling, wholeness>>

StepSizeAll ==
  \E v \in StepArgs : Assign("step_sizes", FinitePositive(v), Same(v))

StepSizes ==
  \E vs \in StepListArgs :
    Assign("step_sizes", Size(vs, NumChains) /\ AllFinitePositive(vs), vs)

RandomPositions ==
  \E scale \in Scales, z \in [Chains -> Normals] :
    Assign("positions", FinitePositive(scale),
           [c \in Chains |-> [i \in 1 .. Dims |-> Times(z[c][i], scale)]])

PositionAll ==
  \E v \in VectorArgs :
    Assign("positions", Size(v, Dims) /\ AllFinite(v), Same(v))

\* mutant: the vectors of a list are not measured
ListSizesOuter(vs) == Size(vs, NumChains)

ListSizes(vs) == Size(vs, NumChains) /\ \A c \in DOMAIN vs : Size(vs[c], Dims)

Positions ==
  \E vs \in VectorListArgs : Assign("positions", ListSizes(vs) /\ EachFinite(vs), vs)

MassAll ==
  \E v \in VectorArgs :
    Assign("masses", Size(v, Dims) /\ AllFinitePositive(v), Same(v))

Masses ==
  \E vs \in VectorListArgs :
    Assign("masses", ListSizes(vs) /\ EachFinitePositive(vs), vs)

SmoothedMass(grad, s) ==
  [i \in DOMAIN grad |-> Plus(Times(Minus(One, s), Magnitude(grad[i])), s)]

\* The geometric mean has one entry per dimension that is finite and positive
\* when every chain's is; which number it is no property tells apart from a
\* chain's own.
Averages(ms) ==
  LET bad == {c \in DOMAIN ms : ~AllFinitePositive(ms[c])}
  IN  {Same(ms[c]) : c \in IF bad = {} THEN DOMAIN ms ELSE bad}

\* The masses of the chains before the first whose density throws are
\* replaced; the builder may be left with no position to evaluate.
GradientMasses ==
  \E s \in Smoothings, g \in Gradients, average \in BOOLEAN :
    /\ Call
    /\ LET m == builder.masses
           old(c) == IF c \in DOMAIN m THEN m[c] ELSE <<>>    \* resize
           throws == {c \in DOMAIN builder.positions : g[builder.positions[c]] = Throws}
           done(c) == \A k \in throws : c < k
           new == [c \in Chains |->
                     IF done(c) THEN SmoothedMass(g[builder.positions[c]], s) ELSE old(c)]
       IN  IF ~Probability(s)
             THEN outcome' = "refused" /\ UNCHANGED <<builder, filled, unchecked>>
           ELSE IF builder.positions = <<>>
             THEN outcome' = "undefined" /\ UNCHANGED <<builder, filled, unchecked>>
           ELSE IF throws # {}
             THEN /\ builder' = [builder EXCEPT !.masses = new]
                  /\ outcome' = "threw"
                  /\ unchecked' = unchecked \cup {"masses"}
                  /\ UNCHANGED filled
             ELSE /\ \E ms \in IF average THEN Averages(new) ELSE {new} :
                       builder' = [builder EXCEPT !.masses = ms]
                  /\ outcome' = "ok"
                  /\ filled' = filled \cup {"masses"}
                  /\ unchecked' = unchecked \cup {"masses"}
    /\ UNCHANGED <<init, warmup, sampling, wholeness>>

\* The lists are moved, not copied.
Moving(b) ==
  /\ init' = b
  /\ builder' = Moved
  /\ filled' = {} /\ unchecked' = {}

Build ==
  /\ Call
  /\ Moving(builder)
  /\ wholeness' = [filled |-> filled, unchecked |-> unchecked]
  /\ outcome' = "ok"
  /\ UNCHANGED <<warmup, sampling>>

(***************************************************************************)
(* adapt_step() doubles the step while a leapfrog step's error is above    *)
(* log 0.9 and then divides it by sqrt(2) while it is below log 0.6.  A    *)
(* curve gives that comparison at each half octave from the initial step;  *)
(* at its top the step is infinite and the error NaN, which ends both      *)
(* loops.  The client's density may throw at a level instead.  The step is *)
(* kept to the octave.                                                     *)
(***************************************************************************)
Top(curve)    == CHOOSE l \in DOMAIN curve : \A k \in DOMAIN curve : k <= l
Octave(l)     == IF l < 0 THEN Frac(1, 2) ELSE Frac(2^(l \div 2), 1)

LastLevel(curve) ==
  LET double[l \in DOMAIN curve] ==
        IF curve[l] = "above" THEN double[l + 2] ELSE l
      divide[l \in DOMAIN curve] ==
        IF curve[l] = "below" THEN divide[l - 1] ELSE l
  IN  divide[double[0]]

AdaptedStep(curve, step) ==
  IF LastLevel(curve) = Top(curve) THEN Inf
                                   ELSE Times(step, Octave(LastLevel(curve)))

AdaptStepBuild ==
  /\ Call
  /\ IF filled # Lists
       THEN outcome' = "undefined" /\ UNCHANGED <<builder, init, filled, unchecked, wholeness>>
       ELSE \E curve \in [Chains -> Curves] :
              LET throws == {c \in Chains : curve[c][LastLevel(curve[c])] = "throws"}
                  done(c) == \A k \in throws : c < k
                  adapted == [builder EXCEPT !.step_sizes =
                                [c \in Chains |-> IF done(c) THEN AdaptedStep(curve[c], @[c])
                                                             ELSE @[c]]]
              IN  IF throws # {}
                    THEN /\ builder' = adapted
                         /\ outcome' = "threw"
                         /\ unchecked' = unchecked \cup {"step_sizes"}
                         /\ UNCHANGED <<init, filled, wholeness>>
                    ELSE /\ Moving(adapted)
                         /\ wholeness' = [filled |-> filled,
                                          unchecked |-> unchecked \cup {"step_sizes"}]
                         /\ outcome' = "ok"
  /\ UNCHANGED <<warmup, sampling>>

initVars == <<builder, init, filled, unchecked, wholeness>>

WarmupField ==
  \E f \in DOMAIN WarmupArgs : \E v \in WarmupArgs[f] :
    /\ Call
    /\ IF WarmupAccepts(f, v)
         THEN warmup' = [warmup EXCEPT ![f] = v] /\ outcome' = "ok"
         ELSE outcome' = "refused" /\ UNCHANGED warmup
    /\ UNCHANGED <<initVars, sampling>>

SamplingField ==
  \E f \in DOMAIN SamplingArgs : \E v \in SamplingArgs[f] :
    /\ Call
    /\ IF SamplingAccepts(f, v)
         THEN sampling' = [sampling EXCEPT ![f] = v] /\ outcome' = "ok"
         ELSE outcome' = "refused" /\ UNCHANGED sampling
    /\ UNCHANGED <<initVars, warmup>>

WithIters(cfg, a, b) == [cfg EXCEPT !.min_iter = a, !.max_iter = b]

WarmupMinMaxIter ==
  \E p \in IterArgs :
    /\ Call
    /\ IF p[1] <= p[2]
         THEN warmup' = WithIters(warmup, p[1], p[2]) /\ outcome' = "ok"
         ELSE outcome' = "refused" /\ UNCHANGED warmup
    /\ UNCHANGED <<initVars, sampling>>

SamplingMinMaxIter ==
  \E p \in IterArgs :
    /\ Call
    /\ IF p[1] <= p[2]
         THEN sampling' = WithIters(sampling, p[1], p[2]) /\ outcome' = "ok"
         ELSE outcome' = "refused" /\ UNCHANGED sampling
    /\ UNCHANGED <<initVars, warmup>>

ConfigNext ==
  \/ StepSizeAll \/ StepSizes \/ RandomPositions \/ PositionAll \/ Positions
  \/ MassAll \/ Masses \/ GradientMasses \/ Build \/ AdaptStepBuild
  \/ WarmupField \/ SamplingField \/ WarmupMinMaxIter \/ SamplingMinMaxIter

-------------------------------------------------------------------------------
\* A list per chain, and Dims numbers per chain in the lists of vectors.
Shaped(cfg) ==
  /\ \A l \in Lists : DOMAIN cfg[l] = Chains
  /\ \A c \in Chains : DOMAIN cfg.positions[c] = 1 .. Dims /\ DOMAIN cfg.masses[c] = 1 .. Dims

Valid(cfg, list) ==
  IF list = "step_sizes" THEN \A c \in Chains : FinitePositive(cfg.step_sizes[c])
  ELSE \A c \in Chains, i \in 1 .. Dims :
         IF list = "masses" THEN FinitePositive(cfg.masses[c][i])
                            ELSE Finite(cfg.positions[c][i])

\* Whatever was called before, refused or interrupted half way, build() gives
\* every chain a step size, position and mass of the right size exactly when
\* each list was filled since the lists last moved out, and then the numbers
\* are usable except in a list the client's density wrote into.
BuiltWhole ==
  /\ Shaped(init) <=> wholeness.filled = Lists
  /\ Shaped(init) => \A list \in Lists \ wholeness.unchecked : Valid(init, list)
===============================================================================
