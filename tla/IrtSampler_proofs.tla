-------------------------- MODULE IrtSampler_proofs ---------------------------
(***************************************************************************)
(* What each entry point does to one sampler record: a lemma per operator  *)
(* of IrtSampler.  The machines built from the record (ItemSampler,        *)
(* GibbsChain) cite these and never open the record themselves.            *)
(***************************************************************************)
EXTENDS IrtSampler, TLAPS

\* The facts about one sampler that every entry point preserves.
GoodSampler(r) ==
  /\ r \in Sampler
  /\ OneEngine(r)
  /\ ReportsKernel(r)
  /\ CountsTransitions(r)

USE DEF IsAdapter, IsKernel, Validates

\* A new sampler is adapting, reports nothing and has taken no transition.
LEMMA CreatedGood == GoodSampler(Created)
BY SentinelAssumption, EmptyAssumption
   DEF GoodSampler, Created, Sampler, HandlerTuning, Kernel, Adapter, StepSize,
       OneEngine, ReportsKernel, CountsTransitions

\* An adapting transition keeps a sampler adapting, advances its adapter by one
\* and never heals a NaN step size.
LEMMA WarmupGood ==
  ASSUME NEW r, GoodSampler(r), MayWarmup(r),
         NEW th \in Nat, NEW stat \in Statistics
  PROVE  /\ GoodSampler(WarmupDraw(r, th, stat))
         /\ ~WarmupDraw(r, th, stat).frozen
         /\ WarmupDraw(r, th, stat).warmup_iter = r.warmup_iter + 1
         /\ WarmupDraw(r, th, stat).kernel = r.kernel
         /\ r.adapter.step = NaN => WarmupDraw(r, th, stat).adapter.step = NaN
<1> DEFINE q == WarmupDraw(r, th, stat)
<1>1. r \in Sampler /\ ~r.frozen /\ r.adapter \in Adapter /\ r.kernel = None
  BY DEF GoodSampler, MayWarmup, Sampler, OneEngine
<1>2. /\ AdaptedStep(r.adapter, stat) \in StepSize
      /\ r.adapter.step = NaN => AdaptedStep(r.adapter, stat) = NaN
  BY <1>1 DEF AdaptedStep, Adapter, StepSize
<1>3. /\ Adapted(r.adapter, stat) \in Adapter
      /\ Adapted(r.adapter, stat).iter = r.adapter.iter + 1
      /\ Adapted(r.adapter, stat).step = AdaptedStep(r.adapter, stat)
  BY <1>1, <1>2 DEF Adapted, Adapter
<1>4. Adapted(r.adapter, stat) # None
  BY <1>3, EmptyAssumption
<1>5. OnWarmup(r.adapter, stat) \in HandlerTuning
  BY <1>1, <1>2 DEF OnWarmup, HandlerTuning, Adapter
<1>6. /\ q \in Sampler
      /\ q.frozen = r.frozen /\ q.kernel = r.kernel
      /\ q.adapter = Adapted(r.adapter, stat)
      /\ q.warmup_iter = r.warmup_iter + 1
  <2> DEFINE a == Adapted(r.adapter, stat)
             h == OnWarmup(r.adapter, stat)
             n == r.warmup_iter + 1
  <2>1. n \in Nat BY <1>1 DEF Sampler
  <2>2. q = [r EXCEPT !.theta = th, !.adapter = a, !.handler = h,
                      !.warmup_iter = n]
    BY DEF WarmupDraw
  <2> HIDE DEF a, h, n
  <2>3. a \in Adapter /\ h \in HandlerTuning BY <1>3, <1>5 DEF a, h
  <2>4. /\ q \in Sampler /\ q.frozen = r.frozen /\ q.kernel = r.kernel
        /\ q.adapter = a /\ q.warmup_iter = n
    <3> HIDE DEF q
    <3>1. QED BY <1>1, <2>1, <2>2, <2>3 DEF Sampler
  <2>5. QED BY <2>4 DEF a, n
<1>7. CountsTransitions(r) BY DEF GoodSampler
<1>8. OneEngine(q) BY <1>1, <1>4, <1>6 DEF OneEngine
<1>9. ReportsKernel(q) BY <1>1, <1>6 DEF ReportsKernel
<1>10. CountsTransitions(q)
  BY <1>1, <1>3, <1>6, <1>7 DEF CountsTransitions
<1>11. GoodSampler(q) BY <1>6, <1>8, <1>9, <1>10 DEF GoodSampler
<1>12. QED BY <1>1, <1>2, <1>3, <1>6, <1>11

\* A freeze that succeeds leaves exactly the reported kernel; one that throws
\* leaves the sampler adapting with its adapter untouched.
LEMMA FreezeGood ==
  ASSUME NEW r, GoodSampler(r), MayFreeze(r)
  PROVE  /\ GoodSampler(Freeze(r))
         /\ Freeze(r).warmup_iter = r.warmup_iter
         /\ FreezeSucceeds(r) => /\ Freeze(r).frozen
                                 /\ Freeze(r).kernel \in Kernel
                                 /\ Freeze(r).kernel.step # NaN
         /\ ~FreezeSucceeds(r) => /\ ~Freeze(r).frozen
                                  /\ Freeze(r).adapter = r.adapter
                                  /\ Freeze(r).kernel = r.kernel
<1> DEFINE t == CurrentTuning(r.adapter)
<1>1. r \in Sampler /\ ~r.frozen /\ r.adapter \in Adapter /\ r.kernel = None
  BY DEF GoodSampler, MayFreeze, Sampler, OneEngine
<1>2. /\ t \in Kernel /\ t # None
      /\ t.step = r.adapter.step /\ t.mass = r.adapter.iter
      /\ t = [step |-> t.step, mass |-> t.mass]
  BY <1>1, EmptyAssumption DEF CurrentTuning, Adapter, Kernel
<1>3. t \in HandlerTuning
  BY <1>2 DEF Kernel, HandlerTuning
<1>4. CountsTransitions(r) BY DEF GoodSampler
<1>5. CASE FreezeSucceeds(r)
  <2>1. /\ Freeze(r) \in Sampler
        /\ Freeze(r).frozen /\ Freeze(r).adapter = None /\ Freeze(r).kernel = t
        /\ Freeze(r).handler = t /\ Freeze(r).warmup_iter = r.warmup_iter
    BY <1>1, <1>2, <1>3, <1>5 DEF Freeze, WarmupComplete, Sampler
  <2>2. t.step # NaN
    BY <1>5 DEF FreezeSucceeds
  <2>3. OneEngine(Freeze(r)) BY <2>1, <1>2 DEF OneEngine
  <2>4. ReportsKernel(Freeze(r)) BY <2>1, <2>2, <1>2 DEF ReportsKernel
  <2>5. CountsTransitions(Freeze(r))
    BY <2>1, <1>1, <1>2, <1>4 DEF CountsTransitions
  <2>6. QED BY <1>2, <1>5, <2>1, <2>2, <2>3, <2>4, <2>5 DEF GoodSampler
<1>6. CASE ~FreezeSucceeds(r)
  <2>1. /\ Freeze(r) \in Sampler
        /\ ~Freeze(r).frozen /\ Freeze(r).adapter = r.adapter
        /\ Freeze(r).kernel = r.kernel /\ Freeze(r).warmup_iter = r.warmup_iter
    BY <1>1, <1>3, <1>6 DEF Freeze, WarmupComplete, Sampler
  <2>2. OneEngine(Freeze(r))
    BY <1>1, <2>1, EmptyAssumption DEF OneEngine
  <2>3. ReportsKernel(Freeze(r)) BY <2>1 DEF ReportsKernel
  <2>4. CountsTransitions(Freeze(r))
    BY <1>1, <1>4, <2>1 DEF CountsTransitions
  <2>5. QED BY <1>6, <2>1, <2>2, <2>3, <2>4 DEF GoodSampler
<1>7. QED BY <1>5, <1>6

\* A kept draw moves nothing but the theta it conditions on.
LEMMA DrawGood ==
  ASSUME NEW r, GoodSampler(r), MayDraw(r), NEW th \in Nat
  PROVE  /\ GoodSampler(DrawSample(r, th))
         /\ DrawSample(r, th).frozen
         /\ DrawSample(r, th).kernel = r.kernel
         /\ DrawSample(r, th).handler = r.handler
         /\ DrawSample(r, th).warmup_iter = r.warmup_iter
<1> DEFINE q == DrawSample(r, th)
<1>1. r \in Sampler BY DEF GoodSampler
<1>2. /\ q \in Sampler /\ q.frozen = r.frozen /\ q.kernel = r.kernel
      /\ q.adapter = r.adapter /\ q.handler = r.handler
      /\ q.warmup_iter = r.warmup_iter
  BY <1>1 DEF DrawSample, Sampler
<1>3. OneEngine(q) BY <1>2 DEF OneEngine, GoodSampler
<1>4. ReportsKernel(q) BY <1>2 DEF ReportsKernel, GoodSampler
<1>5. CountsTransitions(q) BY <1>2 DEF CountsTransitions, GoodSampler
<1>6. QED BY <1>2, <1>3, <1>4, <1>5 DEF GoodSampler, MayDraw
===============================================================================
