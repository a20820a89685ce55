-------------------------- MODULE ItemSampler_proofs --------------------------
(***************************************************************************)
(* What the item sampler guarantees under any sequence of calls, proved    *)
(* for every set of thetas and every bound.                                *)
(***************************************************************************)
EXTENDS ItemSampler, IrtSampler_proofs

USE DEF IsAdapter, IsKernel, Validates

(***************************************************************************)
(* The inductive invariant: the sampler is good, the counter is a number,  *)
(* and only a frozen sampler has kept draws.                               *)
(***************************************************************************)
IInv ==
  /\ GoodSampler(s)
  /\ reply \in Replies
  /\ kept \in Nat
  /\ kept > 0 => s.frozen

\* Whatever a call does to a good sampler, it is one of these four things.
LEMMA StepShape ==
  ASSUME IInv, Next
  PROVE  \/ /\ s' = s /\ kept' = kept
         \/ /\ MayWarmup(s) /\ kept' = kept
            /\ \E th \in Nat, stat \in Statistics : s' = WarmupDraw(s, th, stat)
         \/ MayFreeze(s) /\ s' = Freeze(s) /\ kept' = kept
         \/ /\ MayDraw(s) /\ kept' = kept + 1
            /\ \E th \in Nat : s' = DrawSample(s, th)
<1>1. ASSUME NEW th \in Thetas, NEW stat \in Statistics, IrtWarmup(th, stat)
      PROVE  \/ /\ s' = s /\ kept' = kept
             \/ /\ MayWarmup(s) /\ kept' = kept
                /\ \E th1 \in Nat, st1 \in Statistics : s' = WarmupDraw(s, th1, st1)
  BY <1>1, ItemSamplerAssumption DEF IrtWarmup, Stopped
<1>2. ASSUME IrtFreeze
      PROVE  \/ /\ s' = s /\ kept' = kept
             \/ MayFreeze(s) /\ s' = Freeze(s) /\ kept' = kept
  BY <1>2 DEF IrtFreeze, Stopped
<1>3. ASSUME NEW th \in Thetas, IrtDraw(th)
      PROVE  \/ /\ s' = s /\ kept' = kept
             \/ /\ MayDraw(s) /\ kept' = kept + 1
                /\ \E th1 \in Nat : s' = DrawSample(s, th1)
  BY <1>3, ItemSamplerAssumption DEF IrtDraw, Stopped
<1>4. QED BY <1>1, <1>2, <1>3 DEF Next

LEMMA InitIInv == Init => IInv
BY CreatedGood DEF Init, IInv, Replies

LEMMA NextIInv == IInv /\ [Next]_vars => IInv'
<1> SUFFICES ASSUME IInv, [Next]_vars PROVE IInv'
  OBVIOUS
<1>1. CASE UNCHANGED vars
  BY <1>1 DEF vars, IInv, GoodSampler, OneEngine, ReportsKernel, CountsTransitions
<1>2. CASE Next
  <2>1. reply' \in Replies
    BY <1>2 DEF Next, IrtWarmup, IrtFreeze, IrtDraw, Stopped, Replies
  <2>2. GoodSampler(s) /\ kept \in Nat /\ (kept > 0 => s.frozen)
    BY DEF IInv
  <2>3. CASE s' = s /\ kept' = kept
    BY <2>1, <2>3
       DEF IInv, GoodSampler, OneEngine, ReportsKernel, CountsTransitions
  <2>4. ASSUME MayWarmup(s), kept' = kept,
               NEW th \in Nat, NEW stat \in Statistics, s' = WarmupDraw(s, th, stat)
        PROVE  IInv'
    <3>1. GoodSampler(s') BY <2>2, <2>4, WarmupGood
    <3>2. kept = 0 BY <2>2, <2>4 DEF MayWarmup
    <3>3. QED BY <2>1, <2>4, <3>1, <3>2
              DEF IInv, GoodSampler, OneEngine, ReportsKernel, CountsTransitions
  <2>5. CASE MayFreeze(s) /\ s' = Freeze(s) /\ kept' = kept
    <3>1. GoodSampler(s') BY <2>2, <2>5, FreezeGood
    <3>2. kept = 0 BY <2>2, <2>5 DEF MayFreeze
    <3>3. QED BY <2>1, <2>5, <3>1, <3>2
              DEF IInv, GoodSampler, OneEngine, ReportsKernel, CountsTransitions
  <2>6. ASSUME MayDraw(s), kept' = kept + 1,
               NEW th \in Nat, s' = DrawSample(s, th)
        PROVE  IInv'
    <3>1. GoodSampler(s') /\ s'.frozen BY <2>2, <2>6, DrawGood
    <3>2. kept' \in Nat BY <2>2, <2>6
    <3>3. QED BY <2>1, <3>1, <3>2
              DEF IInv, GoodSampler, OneEngine, ReportsKernel, CountsTransitions
  <2>7. QED BY <1>2, StepShape, <2>3, <2>4, <2>5, <2>6
<1>3. QED BY <1>1, <1>2

THEOREM IInvHolds == Spec => []IInv
<1>1. QED BY InitIInv, NextIInv, PTL DEF Spec

\* The state of a sampler object always has the shape its struct declares.
THEOREM TypeCorrect == Spec => []TypeOK
<1>1. IInv => TypeOK BY DEF IInv, TypeOK, GoodSampler
<1>2. QED BY <1>1, IInvHolds, PTL

\* No order of calls leaves a sampler with no engine or with both, so
\* draw_sample() never dereferences an empty optional.
THEOREM LifecycleCorrect == Spec => []LifecycleSafe
<1>1. IInv => LifecycleSafe BY DEF IInv, LifecycleSafe, GoodSampler
<1>2. QED BY <1>1, IInvHolds, PTL

\* What irt_tuning() reports of a frozen sampler is what its draws use.
THEOREM TuningCorrect == Spec => []TuningReported
<1>1. IInv => TuningReported BY DEF IInv, TuningReported, GoodSampler
<1>2. QED BY <1>1, IInvHolds, PTL

\* warmup_iter is the number of transitions behind the tuning.
THEOREM WarmupCountCorrect == Spec => []WarmupCounted
<1>1. IInv => WarmupCounted BY DEF IInv, WarmupCounted, GoodSampler
<1>2. QED BY <1>1, IInvHolds, PTL

\* The sampler's engine, what it reports and what it counts never disagree,
\* whatever the calls.
THEOREM SamplerStaysCoherent == Spec => []SamplerCoherent
<1>1. LifecycleSafe /\ TuningReported /\ WarmupCounted => SamplerCoherent
  BY DEF SamplerCoherent
<1>2. QED BY <1>1, LifecycleCorrect, TuningCorrect, WarmupCountCorrect, PTL

\* A NaN acceptance statistic makes every later freeze fail.
THEOREM PoisonNeverHeals == Spec => PoisonIsFinal
<1>1. ASSUME IInv, Next, ~s.frozen, s.adapter.step = NaN
      PROVE  ~s'.frozen /\ s'.adapter.step = NaN
  <2>1. ~MayDraw(s) BY <1>1 DEF MayDraw
  <2>2. ~FreezeSucceeds(s) BY <1>1 DEF FreezeSucceeds, CurrentTuning
  <2>3. CASE s' = s BY <1>1, <2>3
  <2>4. ASSUME MayWarmup(s),
               NEW th \in Nat, NEW stat \in Statistics, s' = WarmupDraw(s, th, stat)
        PROVE  ~s'.frozen /\ s'.adapter.step = NaN
    BY <1>1, <2>4, WarmupGood DEF IInv
  <2>5. CASE MayFreeze(s) /\ s' = Freeze(s)
    BY <1>1, <2>2, <2>5, FreezeGood DEF IInv
  <2>6. QED BY <1>1, StepShape, <2>1, <2>3, <2>4, <2>5
<1>2. IInv /\ [Next]_vars =>
        [(~s.frozen /\ s.adapter.step = NaN) =>
            ~s'.frozen /\ s'.adapter.step = NaN]_vars
  BY <1>1
<1>3. QED BY <1>2, IInvHolds, PTL DEF Spec, PoisonIsFinal

\* The sampler implements the two-phase promise the Gibbs loop relies on.
THEOREM TwoPhaseImplemented == Spec => ImplementsTwoPhase
<1>1. Init => TwoPhase!Init
  BY DEF Init, Created, TwoPhase!Init
<1>2. IInv /\ [Next]_vars => [TwoPhase!Next]_<<s.kernel, kept>>
  <2> SUFFICES ASSUME IInv, [Next]_vars
               PROVE  [TwoPhase!Next]_<<s.kernel, kept>>
    OBVIOUS
  <2>1. CASE UNCHANGED vars BY <2>1 DEF vars
  <2>2. CASE s' = s /\ kept' = kept BY <2>2
  <2>3. ASSUME MayWarmup(s), kept' = kept,
               NEW th \in Nat, NEW stat \in Statistics, s' = WarmupDraw(s, th, stat)
        PROVE  UNCHANGED <<s.kernel, kept>>
    BY <2>3, WarmupGood DEF IInv
  <2>4. CASE MayFreeze(s) /\ s' = Freeze(s) /\ kept' = kept
    <3>1. CASE FreezeSucceeds(s)
      <4>1. s'.kernel \in UsableKernel
        BY <2>4, <3>1, FreezeGood DEF IInv, UsableKernel
      <4>2. s.kernel = None
        BY <2>4 DEF MayFreeze, IInv, GoodSampler, OneEngine
      <4>3. QED BY <2>4, <4>1, <4>2 DEF TwoPhase!Next, TwoPhase!Fix
    <3>2. CASE ~FreezeSucceeds(s)
      BY <2>4, <3>2, FreezeGood DEF IInv
    <3>3. QED BY <3>1, <3>2
  <2>5. ASSUME MayDraw(s), kept' = kept + 1, NEW th \in Nat, s' = DrawSample(s, th)
        PROVE  TwoPhase!Next
    <3>1. s.kernel # None
      BY <2>5 DEF MayDraw, IInv, GoodSampler, OneEngine
    <3>2. s'.kernel = s.kernel BY <2>5, DrawGood DEF IInv
    <3>3. QED BY <2>5, <3>1, <3>2 DEF TwoPhase!Next, TwoPhase!Keep
  <2>6. QED BY <2>1, <2>2, <2>3, <2>4, <2>5, StepShape
<1>3. QED
  BY <1>1, <1>2, IInvHolds, PTL
     DEF Spec, ImplementsTwoPhase, TwoPhase!Spec, TwoPhase!absVars
===============================================================================
