------------------------------ MODULE ItemSampler -----------------------------
(***************************************************************************)
(* One irt_item_sampler object under arbitrary calls from R: irt_warmup(), *)
(* irt_freeze() and irt_draw() in any order and number (R/engine.R over    *)
(* src/irt_hmc.cpp).  The Gibbs loop is one caller; the functions are      *)
(* exported, so every order is a legal program.                            *)
(***************************************************************************)
EXTENDS IrtSampler

CONSTANTS
  Thetas,     \* stamps of the theta vectors a caller may pass
  MaxWarmup,  \* bound on adaptive transitions
  MaxKept     \* bound on fixed-kernel draws

ASSUME ItemSamplerAssumption ==
  /\ Thetas \subseteq Nat
  /\ MaxWarmup \in Nat /\ MaxKept \in Nat

VARIABLES
  s,          \* the IrtSampler behind the external pointer
  reply,      \* how the last call ended
  kept        \* draws taken from the fixed kernel

vars == <<s, reply, kept>>

\* A call returns, is stopped by a lifecycle guard, or a C++ exception escapes.
Replies == {"none", "returned", "stopped", "threw"}

Init ==
  /\ s = Created
  /\ reply = "none"
  /\ kept = 0

Stopped(may) ==
  /\ ~may
  /\ reply' = "stopped"
  /\ UNCHANGED <<s, kept>>

IrtWarmup(th, stat) ==
  \/ /\ MayWarmup(s)
     /\ s.warmup_iter < MaxWarmup
     /\ s' = WarmupDraw(s, th, stat)
     /\ reply' = "returned"
     /\ UNCHANGED kept
  \/ Stopped(MayWarmup(s))

IrtFreeze ==
  \/ /\ MayFreeze(s)
     /\ s' = Freeze(s)
     /\ reply' = IF FreezeSucceeds(s) THEN "returned" ELSE "threw"
     /\ UNCHANGED kept
  \/ Stopped(MayFreeze(s))

IrtDraw(th) ==
  \/ /\ MayDraw(s)
     /\ kept < MaxKept
     /\ s' = DrawSample(s, th)
     /\ kept' = kept + 1
     /\ reply' = "returned"
  \/ Stopped(MayDraw(s))

Next ==
  \/ \E th \in Thetas, stat \in Statistics : IrtWarmup(th, stat)
  \/ IrtFreeze
  \/ \E th \in Thetas : IrtDraw(th)

Spec == Init /\ [][Next]_vars

-------------------------------------------------------------------------------

TypeOK ==
  /\ s \in Sampler
  /\ reply \in Replies
  /\ kept \in Nat

\* In every order of calls exactly one engine is live, so no call dereferences
\* an empty optional and "sampler not initialized" is never the reason of a stop.
LifecycleSafe == OneEngine(s)

\* irt_tuning() after a freeze reports what the kept draws use (R/engine.R says
\* the values are then fixed at the values the kept draws use).
TuningReported == ReportsKernel(s)

\* warmup_iter counts the transitions the fixed kernel was adapted over, across
\* failed freezes and refused calls too.
WarmupCounted == CountsTransitions(s)

\* The three together: one live engine, whose reported tuning is the one draws
\* use, adapted over as many transitions as are reported.
SamplerCoherent == LifecycleSafe /\ TuningReported /\ WarmupCounted

\* One NaN acceptance statistic dooms the sampler: Adam's averages keep the NaN,
\* so every later freeze throws and the sampler is never frozen.
PoisonIsFinal ==
  [][(~s.frozen /\ s.adapter.step = NaN) =>
       ~s'.frozen /\ s'.adapter.step = NaN]_vars

UsableKernel == {w \in Kernel : Validates(w)}

TwoPhase ==
  INSTANCE TwoPhaseKernel WITH
    Usable <- UsableKernel, NoKernel <- None, kernel <- s.kernel, kept <- kept

\* Whatever the order of calls, the sampler adapts, is fixed at one usable
\* kernel, and only then produces draws to keep.
ImplementsTwoPhase == TwoPhase!Spec

===============================================================================
