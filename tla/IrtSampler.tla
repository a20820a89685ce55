------------------------------ MODULE IrtSampler ------------------------------
(***************************************************************************)
(* The state of one 2PL item-parameter sampler and what each entry point   *)
(* of src/irt_hmc.cpp does to it.  The state is one record, so that a      *)
(* single sampler (ItemSampler) and a bank of them inside the Gibbs loop   *)
(* (GibbsChain) are built from the same operators.                         *)
(*                                                                         *)
(* Numbers that only matter by identity are abstracted to stamps:          *)
(*   - Adam's step size after i adaptive transitions is i, or NaN once an  *)
(*     acceptance statistic was NaN (the average never recovers);          *)
(*   - the inverse mass estimate after i observations is i;                *)
(*   - theta is whatever stamp the caller gives the vector it passes.      *)
(***************************************************************************)
EXTENDS Naturals

CONSTANTS
  NaN,      \* a floating point NaN
  Unset,    \* the value a LatestDraw member is default-initialised to
  None,     \* std::nullopt
  NoTheta   \* theta before the first draw: the zero vector of create_sampler

ASSUME SentinelAssumption ==
  /\ NaN \notin Nat /\ Unset \notin Nat /\ NoTheta \notin Nat
  /\ Unset # NaN

StepSize == Nat \cup {NaN}

\* Whether the acceptance statistics of a transition were all numbers.
Statistics == {0, NaN}

\* What LatestDraw remembers of the tuning, and what a WalnutsSampler runs on.
HandlerTuning == [step : StepSize \cup {Unset}, mass : Nat \cup {Unset}]
Kernel        == [step : StepSize, mass : Nat]

\* The members of AdaptiveWalnuts that transitions change.
Adapter == [iter : Nat, step : StepSize]

ASSUME EmptyAssumption == None \notin Adapter /\ None \notin Kernel

(***************************************************************************)
(* struct IrtSampler.  The two optionals are adapter and kernel.           *)
(***************************************************************************)
Sampler ==
  [frozen      : BOOLEAN,
   adapter     : Adapter \cup {None},
   kernel      : Kernel \cup {None},
   handler     : HandlerTuning,
   warmup_iter : Nat,
   theta       : Nat \cup {NoTheta}]

IsAdapter(a) == a # None
IsKernel(w)  == w # None

CreatedUnseeded == \* mutant: Adam is not started at the initial step size
  [frozen      |-> FALSE,
   adapter     |-> [iter |-> 0, step |-> Unset],
   kernel      |-> None,
   handler     |-> [step |-> Unset, mass |-> Unset],
   warmup_iter |-> 0,
   theta       |-> NoTheta]

\* create_sampler(): adapting, with nothing reported by a handler callback yet.
Created ==
  [frozen      |-> FALSE,
   adapter     |-> [iter |-> 0, step |-> 0],
   kernel      |-> None,
   handler     |-> [step |-> Unset, mass |-> Unset],
   warmup_iter |-> 0,
   theta       |-> NoTheta]

(***************************************************************************)
(* AdaptiveWalnuts::operator()().  The transition uses the mass estimate   *)
(* it reads on entry; the handler is given that estimate with the step     *)
(* size the transition leaves behind.  stat stands for the acceptance      *)
(* statistics Adam saw: NaN if one of them was, else a number.             *)
(***************************************************************************)
AdaptedStepForgetful(a, stat) == \* mutant: a NaN average that recovers
  IF stat # NaN THEN a.iter + 1 ELSE NaN

AdaptedStep(a, stat) ==
  IF stat # NaN /\ a.step # NaN THEN a.iter + 1 ELSE NaN

OnWarmup(a, stat) == [step |-> AdaptedStep(a, stat), mass |-> a.iter]

Adapted(a, stat) == [iter |-> a.iter + 1, step |-> AdaptedStep(a, stat)]

\* The tuning AdaptiveWalnuts::sampler() hands over: the current estimates.
CurrentTuning(a) == [step |-> a.step, mass |-> a.iter]

\* WalnutsSampler's constructor refuses a step size that is not positive.
Validates(w) == w.step # NaN

(***************************************************************************)
(* The Rcpp::stop() guards of the entry points.                            *)
(***************************************************************************)
MayWarmup(s) == ~s.frozen /\ IsAdapter(s.adapter)
MayFreeze(s) == ~s.frozen /\ IsAdapter(s.adapter)
MayDraw(s)   == s.frozen

WarmupDrawUncounted(s, th, stat) == \* mutant: no ++warmup_iter
  [s EXCEPT !.theta   = th,
            !.adapter = Adapted(s.adapter, stat),
            !.handler = OnWarmup(s.adapter, stat)]

\* warmup_draw(): condition on th, take one adapting transition.
WarmupDraw(s, th, stat) ==
  [s EXCEPT !.theta       = th,
            !.adapter     = Adapted(s.adapter, stat),
            !.handler     = OnWarmup(s.adapter, stat),
            !.warmup_iter = @ + 1]

WarmupCompleteSilent(s) == s \* mutant: no on_warmup_complete() call

\* The on_warmup_complete() callback, which runs before the constructor.
WarmupComplete(s) == [s EXCEPT !.handler = CurrentTuning(s.adapter)]

FreezeAlwaysSucceeds(s) == TRUE \* mutant: the constructor does not validate

FreezeSucceeds(s) == Validates(CurrentTuning(s.adapter))

FreezeKeepsAdapter(s) == \* mutant: no adapter.reset()
  IF FreezeSucceeds(s)
    THEN [WarmupComplete(s) EXCEPT !.kernel = CurrentTuning(s.adapter),
                                   !.frozen = TRUE]
    ELSE WarmupComplete(s)

(***************************************************************************)
(* freeze().  When the constructor throws, the handler has been told the   *)
(* final tuning and nothing else has changed.                              *)
(***************************************************************************)
Freeze(s) ==
  IF FreezeSucceeds(s)
    THEN [WarmupComplete(s) EXCEPT !.kernel  = CurrentTuning(s.adapter),
                                   !.adapter = None,
                                   !.frozen  = TRUE]
    ELSE WarmupComplete(s)

\* draw_sample(): condition on th, take one transition of the fixed kernel.
DrawSample(s, th) == [s EXCEPT !.theta = th]

(***************************************************************************)
(* A sampler is well formed when exactly one of its two engines is live    *)
(* and it is the one frozen names.  draw_sample() dereferences kernel with *)
(* no check of its own and relies on this.                                 *)
(***************************************************************************)
OneEngine(s) ==
  /\ s.frozen  => IsKernel(s.kernel) /\ ~IsAdapter(s.adapter)
  /\ ~s.frozen => IsAdapter(s.adapter) /\ ~IsKernel(s.kernel)

(***************************************************************************)
(* After freezing, sampler_tuning() reports exactly the tuning the kept    *)
(* draws use, and that tuning is one the constructor accepts.              *)
(***************************************************************************)
ReportsKernel(s) ==
  s.frozen => /\ s.handler = [step |-> s.kernel.step, mass |-> s.kernel.mass]
              /\ Validates(s.kernel)

\* The count the R layer reports agrees with the transitions actually taken.
CountsTransitions(s) ==
  /\ ~s.frozen => s.adapter.iter = s.warmup_iter
  /\ s.frozen  => s.kernel.mass = s.warmup_iter
===============================================================================
